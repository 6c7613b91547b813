------------------------------ MODULE HTTPParser ------------------------------
(***************************************************************************)
(* sensor/include/httpParser.c: the HTTP parser, one byte at a time.       *)
(*                                                                         *)
(* A connection's bytes come in packets, each of them one call of          *)
(* http_parser_execute().  The parser keeps its place between the calls,   *)
(* but not where in the packet a URL or a header began: such a "mark" is   *)
(* set again at the start of the next packet, and the callback is called   *)
(* for the part before and for the part after.                             *)
(*                                                                         *)
(* Bytes are classes: letters (whose case is ignored), digits and the      *)
(* punctuation the parser tells apart.  Any byte may come at any time.     *)
(* The states s_req_http_* and s_res_http_* are one each, told apart by    *)
(* the parser's type, and those that spell "HTTP/" are state "s_http" with *)
(* an index.  Compiled as by the repository, the parser is strict, and     *)
(* the callbacks of its one user return 0 (so F_SKIPBODY is never set).    *)
(* The parser reads lengths into an int64_t without a check: one that does *)
(* not fit wraps, as the arithmetic of the compiled code does.             *)
(* A parser that did not accept a packet is not executed again: http.cpp   *)
(* erases the session.  What an early return leaves in it does not matter. *)
(***************************************************************************)
EXTENDS Integers, Sequences, FiniteSets

CONSTANTS
    Letters,             \* the letters that come
    Digits,              \* the digits that come
    Value,               \* the value of each digit and each hexadecimal letter
    Spelling,            \* of "HTTP/", the methods and the words in headers
    Methods,             \* bound: the methods that come
    HTTP_MAX_HEADER_SIZE,
    MaxNumber,           \* of versions and status codes, 999
    LengthLimit,         \* content_length is below it, and at least its
                         \* negative: 2^63
    MaxLength,           \* bound: of a body or a chunk
    MaxPacket,           \* bound: size of a packet
    MaxMessages,         \* bound: number of messages
    MaxLines,            \* bound: header lines of a message
    MaxRepeats           \* bound: bytes that change nothing but nread

CR == "CR"
LF == "LF"
SP == "SP"
Punctuation ==
    {CR, LF, SP, "-", ".", "/", ":", ";", "?", "#", "nul", "high"}
Chars == Letters \cup Digits \cup Punctuation

(* tokens[], normal_url_char[] and unhex[].  The tables end with byte 127; *)
(* the missing entries are 0, so that a "high" byte is a hexadecimal zero. *)
Tokens   == Letters \cup Digits \cup {SP, "-", ".", "/", "#"}
UrlChars == Letters \cup Digits \cup {"-", ".", "/", ":", ";"}
Hex      == DOMAIN Value

ASSUME HTTPParserAssumption ==
    /\ (Letters \cup Digits) \cap Punctuation = {}
    /\ Digits \subseteq Hex /\ Hex \subseteq Letters \cup Digits \cup {"high"}
    /\ Value \in [Hex -> 0..15]
    /\ \A w \in {"connection", "proxy-connection", "transfer-encoding",
                "upgrade", "chunked", "keep-alive", "close"} :
          Len(Spelling[w]) > 1
    /\ \A w \in {"connection", "content-length"} :
          /\ SubSeq(Spelling[w], 1, 3) = <<"c", "o", "n">>
          /\ Len(Spelling[w]) > 4
    /\ {HTTP_MAX_HEADER_SIZE, MaxNumber, MaxLength, MaxPacket} \subseteq Nat
    /\ LengthLimit \in Nat \ 0..15

-----------------------------------------------------------------------------
(* The parser x, with the marks and callbacks of the step it makes.        *)

Parts == {"url", "path", "queryString", "fragment", "field", "value"}
NoMark == -1

(* http_parser_init(parser, HTTP_BOTH).                                    *)
NewParser ==
    [type |-> "both", state |-> "s_start_req_or_res", hs |-> "h_general",
     index |-> 0, nread |-> 0, flags |-> {}, length |-> -1, number |-> 0,
     modern |-> FALSE, method |-> "DELETE", upgrade |-> FALSE,
     mark |-> [f \in Parts |-> NoMark], given |-> [f \in Parts |-> 0],
     called |-> <<>>, returned |-> FALSE]

Enter(x, state) == [x EXCEPT !.state = state]
Call(x, call)  == [x EXCEPT !.called = Append(@, call)]
Failed(x)      == [NewParser EXCEPT !.state = "s_dead", !.returned = TRUE,
                                   !.called = x.called]

Mark(x, f, at) == [x EXCEPT !.mark[f] = at]

(* CALLBACK_NOCLEAR and CALLBACK: what was read since the mark.            *)
Give(x, f, at) ==
    IF x.mark[f] = NoMark THEN x
    ELSE [Call(x, f) EXCEPT !.given[f] = @ + at - x.mark[f],
                            !.mark[f] = NoMark]

GiveAll(x, parts, at) ==
    LET given[n \in 0..Len(parts)] ==
            IF n = 0 THEN x ELSE Give(given[n - 1], parts[n], at)
    IN  given[Len(parts)]

(* major and minor version both positive, or one of them zero.             *)
http_should_keep_alive(x) ==
    IF x.modern THEN "CLOSE" \notin x.flags ELSE "KEEP_ALIVE" \in x.flags

(* A bug for the mutation run: there may always be another message.        *)
NewMessageAlways(x) ==
    Enter(Call(x, "messageComplete"),
         IF x.type = "request" THEN "s_start_req" ELSE "s_start_res")

NewMessage(x) ==
    Enter(Call(x, "messageComplete"),
         IF ~http_should_keep_alive(x) THEN "s_dead"
         ELSE IF x.type = "request" THEN "s_start_req" ELSE "s_start_res")

-----------------------------------------------------------------------------
(* Rules: in state "from" a byte of "on" marks the beginning of some parts *)
(* and calls back for others, and leads to state "to".                     *)

Rule(from, on, marks, calls, to) ==
    [from |-> from, on |-> on, marks |-> marks, calls |-> calls, to |-> to]

Move(from, on, to) == Rule(from, on, {}, <<>>, to)

(* The end of a URL.                                                       *)
Ends(from, calls) ==
    {Rule(from, {SP}, {}, calls, "s_req_http_start"),
     Rule(from, {CR}, {}, calls, "s_req_line_almost_done"),
     Rule(from, {LF}, {}, calls, "s_header_field_start")}

SchemaRules ==
    {Move("s_req_spaces_before_url", {SP}, "s_req_spaces_before_url"),
     Rule("s_req_spaces_before_url", {"/"}, {"url", "path"}, <<>>,
          "s_req_path"),
     Rule("s_req_spaces_before_url", Letters, {"url"}, <<>>, "s_req_schema"),
     Move("s_req_schema", Letters, "s_req_schema"),
     Move("s_req_schema", {":"}, "s_req_schema_slash"),
     Move("s_req_schema", Digits \cup {"."}, "s_req_host"),
     Move("s_req_schema_slash", {"/"}, "s_req_schema_slash_slash"),
     Move("s_req_schema_slash_slash", {"/"}, "s_req_host")}

HostRules ==
    {Move("s_req_host", Letters \cup Digits \cup {".", "-"}, "s_req_host"),
     Move("s_req_host", {":"}, "s_req_port"),
     Move("s_req_port", Digits, "s_req_port")}
    \cup UNION {{Rule(s, {"/"}, {"path"}, <<>>, "s_req_path"),
                 Rule(s, {SP}, {}, <<"url">>, "s_req_http_start")} :
                   s \in {"s_req_host", "s_req_port"}}

PathRules ==
    {Move("s_req_path", UrlChars, "s_req_path"),
     Rule("s_req_path", {"?"}, {}, <<"path">>, "s_req_query_string_start"),
     Rule("s_req_path", {"#"}, {}, <<"path">>, "s_req_fragment_start")}
    \cup Ends("s_req_path", <<"url", "path">>)

QueryRules ==
    {Rule("s_req_query_string_start", UrlChars, {"queryString"}, <<>>,
          "s_req_query_string"),
     Move("s_req_query_string_start", {"?"}, "s_req_query_string_start"),
     Move("s_req_query_string_start", {"#"}, "s_req_fragment_start"),
     Move("s_req_query_string", UrlChars \cup {"?"}, "s_req_query_string"),
     Rule("s_req_query_string", {"#"}, {}, <<"queryString">>,
          "s_req_fragment_start")}
    \cup Ends("s_req_query_string_start", <<"url">>)
    \cup Ends("s_req_query_string", <<"url", "queryString">>)

FragmentRules ==
    {Rule("s_req_fragment_start", UrlChars \cup {"?"}, {"fragment"}, <<>>,
          "s_req_fragment"),
     Move("s_req_fragment_start", {"#"}, "s_req_fragment_start"),
     Move("s_req_fragment", UrlChars \cup {"?", "#"}, "s_req_fragment")}
    \cup Ends("s_req_fragment_start", <<"url">>)
    \cup Ends("s_req_fragment", <<"url", "fragment">>)

(* The states of a URL, and those where a part of it is being read.        *)
UrlStates ==
    {"s_req_schema", "s_req_schema_slash", "s_req_schema_slash_slash",
     "s_req_host", "s_req_port", "s_req_path", "s_req_query_string_start",
     "s_req_query_string", "s_req_fragment_start", "s_req_fragment"}

(* Between the version and the headers.                                    *)
LineRules ==
    {Move("s_req_http_start", {SP}, "s_req_http_start"),
     Move("s_req_line_almost_done", {LF}, "s_header_field_start"),
     Move("s_first_status_code", {SP}, "s_first_status_code"),
     Move("s_status_code", {SP}, "s_res_status"),
     Move("s_res_status", Chars \ {CR, LF}, "s_res_status"),
     Move("s_res_line_almost_done", {LF}, "s_header_field_start")}
    \cup UNION {{Move(s, {CR}, "s_res_line_almost_done"),
                 Move(s, {LF}, "s_header_field_start")} :
                   s \in {"s_status_code", "s_res_status"}}

ChunkRules ==
    {Move("s_chunk_size", {CR}, "s_chunk_size_almost_done"),
     Move("s_chunk_size", {";", SP}, "s_chunk_parameters"),
     Move("s_chunk_parameters", {CR}, "s_chunk_size_almost_done"),
     Move("s_chunk_parameters", Chars \ {CR}, "s_chunk_parameters"),
     Move("s_chunk_data_almost_done", {CR}, "s_chunk_data_done"),
     Move("s_chunk_data_done", {LF}, "s_chunk_size_start")}

Rules == SchemaRules \cup HostRules \cup PathRules \cup QueryRules
         \cup FragmentRules \cup LineRules \cup ChunkRules

RulesFrom == [s \in {r.from : r \in Rules} |-> {r \in Rules : r.from = s}]

(* A URL that ends its line is of version 0.9.                             *)
Apply(r, x, at) ==
    LET marked == [x EXCEPT !.mark = [f \in Parts |->
                       IF f \in r.marks THEN at ELSE @[f]]]
        y == GiveAll(marked, r.calls, at)
    IN  [Enter(y, r.to) EXCEPT !.modern =
            @ /\ ~(r.from \in UrlStates /\ r.on \subseteq {CR, LF})]

-----------------------------------------------------------------------------
(* The start of a message.                                                 *)

StartStates == {"s_start_req_or_res", "s_start_req", "s_start_res"}

FirstMethod ==
    [c |-> "CONNECT", d |-> "DELETE", g |-> "GET", h |-> "HEAD", l |-> "LOCK",
     m |-> "MKCOL", o |-> "OPTIONS", p |-> "POST", r |-> "REPORT",
     t |-> "TRACE", u |-> "UNLOCK"]

(* A request begins with the first letter of its method.                   *)
StartRequest(x, ch) ==
    IF ch \in DOMAIN FirstMethod
    THEN [Enter(x, "s_req_method") EXCEPT !.type = "request", !.index = 1,
                                         !.method = FirstMethod[ch]]
    ELSE Failed(x)

(* A response parser begins a message with every line end before it, too.  *)
Start(x, ch) ==
    LET y == Call([x EXCEPT !.flags = {}, !.length = -1], "messageBegin")
    IN  CASE x.state # "s_start_res" /\ ch \in {CR, LF} -> x
          [] x.state = "s_start_res" /\ ch \in {CR, LF} -> y
          [] x.state = "s_start_req_or_res" /\ ch = "h" ->
                 Enter(y, "s_res_or_resp_H")
          [] x.state = "s_start_res" /\ ch = "h" ->
                 [Enter(y, "s_http") EXCEPT !.number = 1]
          [] x.state # "s_start_res" /\ ch \notin {"h", CR, LF} ->
                 StartRequest(y, ch)
          [] x.state = "s_start_req" /\ ch = "h" -> StartRequest(y, ch)
          [] OTHER -> Failed(y)

(* After an "H": "HTTP/" or "HEAD".                                        *)
ResponseOrHead(x, ch) ==
    CASE ch = "t" -> [Enter(x, "s_http") EXCEPT !.type = "response",
                                               !.number = 2]
      [] ch = "e" -> [Enter(x, "s_req_method") EXCEPT !.type = "request",
                                                     !.method = "HEAD",
                                                     !.index = 2]
      [] OTHER    -> Failed(x)

(* What one method's letters may turn it into.                             *)
Switches ==
    {<<"CONNECT", 1, "h", "CHECKOUT">>, <<"CONNECT", 2, "p", "COPY">>,
     <<"MKCOL", 1, "o", "MOVE">>, <<"MKCOL", 1, "e", "MERGE">>,
     <<"MKCOL", 2, "a", "MKACTIVITY">>, <<"POST", 1, "r", "PROPFIND">>,
     <<"POST", 1, "u", "PUT">>, <<"PROPFIND", 4, "p", "PROPPATCH">>}

(* After CONNECT and MKCOL a wrong letter is no error.  Past the end of    *)
(* the name the comparison reads what follows it in memory: a blank may    *)
(* or may not end the method.                                              *)
MethodLetter(x, ch) ==
    LET name == Spelling[x.method]
        next == [x EXCEPT !.index = @ + 1]
        ends == Enter(next, "s_req_spaces_before_url")
        switch == {s \in Switches :
                     s[1] = x.method /\ s[2] = x.index /\ s[3] = ch}
    IN  CASE ch = "nul"                             -> {Failed(x)}
          [] ch = SP /\ x.index = Len(name)         -> {ends}
          [] ch = SP /\ x.index > Len(name)         -> {ends, next}
          [] /\ ch \notin {SP, "nul"}
             /\ x.index < Len(name) /\ ch = name[x.index + 1] -> {next}
          [] OTHER ->
                 IF switch # {}
                 THEN {[next EXCEPT !.method = s[4]] : s \in switch}
                 ELSE {IF x.method \in {"CONNECT", "MKCOL"} THEN next
                                                            ELSE Failed(x)}

(* "HTTP/": in state s_http, "number" letters have been read.              *)
HTTPLetter(x, ch) ==
    LET word == Spelling["HTTP/"]
        n == IF x.state = "s_http" THEN x.number + 1 ELSE 1
    IN  IF ch # word[n] THEN Failed(x)
        ELSE IF n < Len(word) THEN [Enter(x, "s_http") EXCEPT !.number = n]
        ELSE [Enter(x, "s_first_http_major") EXCEPT !.number = 0]

(* The versions and the status code: the first digit, and one more.        *)
FirstDigit == [s_first_http_major  |-> "s_http_major",
               s_first_http_minor  |-> "s_http_minor",
               s_first_status_code |-> "s_status_code"]

NumberStates == {"s_http_major", "s_http_minor", "s_status_code"}

Digit(x, ch) ==
    LET n == 10 * x.number + Value[ch]
    IN  IF x.state \in DOMAIN FirstDigit
        THEN IF x.state = "s_first_http_major" /\ Value[ch] = 0 THEN Failed(x)
             ELSE [Enter(x, FirstDigit[x.state]) EXCEPT !.number = Value[ch]]
        ELSE IF n > MaxNumber THEN Failed(x) ELSE [x EXCEPT !.number = n]

(* A version ends with a dot, a line end or a blank.                       *)
VersionEnd(x, ch) ==
    LET minor == [x EXCEPT !.modern = x.number > 0, !.number = 0]
    IN  CASE x.state = "s_http_major" /\ ch = "." ->
                 [Enter(x, "s_first_http_minor") EXCEPT !.number = 0]
          [] x.state = "s_http_minor" /\ x.type = "request" /\ ch = CR ->
                 Enter(minor, "s_req_line_almost_done")
          [] x.state = "s_http_minor" /\ x.type = "request" /\ ch = LF ->
                 Enter(minor, "s_header_field_start")
          [] x.state = "s_http_minor" /\ x.type = "response" /\ ch = SP ->
                 Enter(minor, "s_first_status_code")
          [] OTHER -> Failed(x)

-----------------------------------------------------------------------------
(* Headers.  The words the parser looks for in state "while".              *)

FieldWords ==
    [h_matching_connection        |-> <<"connection", "h_connection">>,
     h_matching_proxy_connection  |-> <<"proxy-connection", "h_connection">>,
     h_matching_content_length    |-> <<"content-length",
                                        "h_content_length">>,
     h_matching_transfer_encoding |-> <<"transfer-encoding",
                                        "h_transfer_encoding">>,
     h_matching_upgrade           |-> <<"upgrade", "h_upgrade">>]

ValueWords ==
    [h_matching_transfer_encoding_chunked |->
         <<"chunked", "h_transfer_encoding_chunked">>,
     h_matching_connection_keep_alive |->
         <<"keep-alive", "h_connection_keep_alive">>,
     h_matching_connection_close |-> <<"close", "h_connection_close">>]

(* One more letter of the word, all of it, or another word.                *)
Match(x, word, ch) ==
    LET i == x.index + 1
        name == Spelling[word[1]]
    IN  [x EXCEPT !.index = i,
                  !.hs = IF i >= Len(name) \/ name[i + 1] # ch
                         THEN "h_general"
                         ELSE IF i = Len(name) - 1 THEN word[2] ELSE @]

(* The names that begin with "con" are told apart by the fourth letter.    *)
PrefixWords == [h_C   |-> {<<"o", "h_CO">>},
             h_CO  |-> {<<"n", "h_CON">>},
             h_CON |-> {<<"n", "h_matching_connection">>,
                        <<"t", "h_matching_content_length">>}]

PrefixLetter(x, ch) ==
    LET next == {p \in PrefixWords[x.hs] : p[1] = ch}
    IN  [x EXCEPT !.index = @ + 1,
                  !.hs = IF next = {} THEN "h_general"
                                      ELSE (CHOOSE p \in next : TRUE)[2]]

(* Whatever follows the whole word but blanks makes it another.            *)
WordOver(x, ch) == IF ch = SP THEN x ELSE [x EXCEPT !.hs = "h_general"]

FieldStart(x, ch, at) ==
    LET hs == CASE ch = "c" -> "h_C"
                [] ch = "p" -> "h_matching_proxy_connection"
                [] ch = "t" -> "h_matching_transfer_encoding"
                [] ch = "u" -> "h_matching_upgrade"
                [] OTHER    -> "h_general"
    IN  IF ch \in Tokens
        THEN [Enter(Mark(x, "field", at), "s_header_field")
                 EXCEPT !.index = 0, !.hs = hs]
        ELSE Failed(x)

Field(x, ch, at) ==
    CASE ch \in Tokens /\ x.hs = "h_general"            -> x
      [] ch \in Tokens /\ x.hs \in DOMAIN PrefixWords   -> PrefixLetter(x, ch)
      [] ch \in Tokens /\ x.hs \in DOMAIN FieldWords    ->
             Match(x, FieldWords[x.hs], ch)
      [] ch \in Tokens /\ x.hs \notin {"h_general"}
                \cup DOMAIN PrefixWords \cup DOMAIN FieldWords ->
             WordOver(x, ch)
      [] ch = ":" -> Enter(Give(x, "field", at), "s_header_value_start")
      [] ch = CR  -> Enter(Give(x, "field", at), "s_header_almost_done")
      [] ch = LF  -> Enter(Give(x, "field", at), "s_header_field_start")
      [] OTHER    -> Failed(x)

(* What a value of each kind of header begins with.                        *)
ValueStarts ==
    {<<"h_transfer_encoding", "c", "h_matching_transfer_encoding_chunked">>,
     <<"h_connection", "k", "h_matching_connection_keep_alive">>,
     <<"h_connection", "c", "h_matching_connection_close">>}

ValueStart(x, ch, at) ==
    LET y == [Enter(Mark(x, "value", at), "s_header_value") EXCEPT !.index = 0]
        next == {v \in ValueStarts : v[1] = x.hs /\ v[2] = ch}
    IN  CASE ch = SP -> x
          [] ch = CR -> [Enter(Give(y, "value", at), "s_header_almost_done")
                            EXCEPT !.hs = "h_general"]
          [] ch = LF -> Enter(Give(y, "value", at), "s_header_field_start")
          [] ch \notin {SP, CR, LF} /\ x.hs = "h_content_length" ->
                 IF ch \in Digits THEN [y EXCEPT !.length = Value[ch]]
                                  ELSE Failed(y)
          [] OTHER -> [y EXCEPT !.hs = IF next = {} THEN "h_general"
                                       ELSE (CHOOSE v \in next : TRUE)[3],
                                !.flags = @ \cup IF x.hs = "h_upgrade"
                                                 THEN {"UPGRADE"} ELSE {}]

(* The end of a header line sets the flag its value stands for.            *)
LineFlags == [h_connection_keep_alive     |-> {"KEEP_ALIVE"},
              h_connection_close          |-> {"CLOSE"},
              h_transfer_encoding_chunked |-> {"CHUNKED"}]

(* A bug for the mutation run: every line is counted on its own.           *)
HeaderAlmostDoneUncounted(x, ch) ==
    IF ch = LF
    THEN [Enter(x, "s_header_field_start") EXCEPT !.nread = 0]
    ELSE Failed(x)

HeaderAlmostDone(x, ch) ==
    IF ch = LF
    THEN [Enter(x, "s_header_field_start") EXCEPT !.flags =
             @ \cup IF x.hs \in DOMAIN LineFlags THEN LineFlags[x.hs] ELSE {}]
    ELSE Failed(x)

(* What content_length makes of a number.                                  *)
Wrapped(n) == ((n + LengthLimit) % (2 * LengthLimit)) - LengthLimit

HeaderValue(x, ch, at) ==
    CASE ch = CR -> Enter(Give(x, "value", at), "s_header_almost_done")
      [] ch = LF -> HeaderAlmostDone(Give(x, "value", at), ch)
      [] ch \notin {CR, LF} /\ x.hs = "h_content_length" ->
             CASE ch = SP       -> x
               [] ch \in Digits ->
                      [x EXCEPT !.length = Wrapped(10 * @ + Value[ch])]
               [] OTHER         -> Failed(x)
      [] ch \notin {CR, LF} /\ x.hs \in DOMAIN ValueWords ->
             Match(x, ValueWords[x.hs], ch)
      [] ch \notin {CR, LF} /\ x.hs \in DOMAIN LineFlags -> WordOver(x, ch)
      [] OTHER -> [x EXCEPT !.hs = "h_general"]

(* The empty line: the end of a chunked message, or of the headers.        *)
HeadersAlmostDone(x, ch) ==
    LET upgrade == "UPGRADE" \in x.flags \/ x.method = "CONNECT"
        y == Call([x EXCEPT !.nread = 0, !.upgrade = @ \/ upgrade],
                  IF http_should_keep_alive(x) THEN "complete" ELSE "closing")
    IN  CASE ch # LF                -> Failed(x)
          [] ch = LF /\ "TRAILING" \in x.flags -> NewMessage(x)
          [] OTHER ->
                 CASE y.upgrade -> [Call(y, "messageComplete")
                                       EXCEPT !.returned = TRUE]
                   [] ~y.upgrade /\ "CHUNKED" \in y.flags ->
                          Enter(y, "s_chunk_size_start")
                   [] ~y.upgrade /\ "CHUNKED" \notin y.flags ->
                          CASE y.length > 0 -> Enter(y, "s_body_identity")
                            [] /\ y.length <= 0
                               /\ \/ y.length = 0
                                  \/ y.type = "request"
                                  \/ http_should_keep_alive(y) ->
                                   NewMessage(y)
                            [] OTHER -> Enter(y, "s_body_identity_eof")

-----------------------------------------------------------------------------
(* Bodies.                                                                 *)

BodyStates == {"s_body_identity", "s_body_identity_eof", "s_chunk_data"}

ChunkSize(x, ch) ==
    CASE ch \notin Hex -> Failed(x)
      [] x.state = "s_chunk_size_start" /\ ch \in Hex ->
             [Enter(x, "s_chunk_size") EXCEPT !.length = Value[ch]]
      [] OTHER -> [x EXCEPT !.length = Wrapped(16 * @ + Value[ch])]

ChunkSizeAlmostDone(x, ch) ==
    CASE ch # LF -> Failed(x)
      [] ch = LF /\ x.length = 0 ->
             [Enter(x, "s_header_field_start") EXCEPT
                 !.flags = @ \cup {"TRAILING"}]
      [] OTHER -> Enter(x, "s_chunk_data")

(* What of a packet's n remaining bytes belongs to the body.  A chunk may  *)
(* be of negative size.                                                    *)
ToRead(x, n) ==
    IF x.state = "s_body_identity_eof" \/ n < x.length THEN n ELSE x.length

Given(x, n) == IF n > 0 THEN Call(x, "body") ELSE x

(* A bug for the mutation run: what is left of a body is not remembered.   *)
BodyWhole(x, n) ==
    LET y == Given(x, n)
        ended == [y EXCEPT !.length = 0]
    IN  IF x.state = "s_body_identity_eof" \/ n < x.length THEN y
        ELSE IF x.state = "s_body_identity" THEN NewMessage(ended)
        ELSE Enter(ended, "s_chunk_data_almost_done")

(* n bytes of a body are given to on_body().                               *)
Body(x, n) ==
    LET y == Given(x, n)
        ended == [y EXCEPT !.length = 0]
    IN  IF x.state = "s_body_identity_eof" THEN y
        ELSE IF n < x.length THEN [y EXCEPT !.length = @ - n]
        ELSE IF x.state = "s_body_identity" THEN NewMessage(ended)
        ELSE Enter(ended, "s_chunk_data_almost_done")

-----------------------------------------------------------------------------
VARIABLES
    parser,     \* the http_parser
    len, pos,   \* the packet's size, 0 between packets, and the byte it is at
    owed,       \* history: the bytes of each part not yet given in a callback
    header,     \* history: the bytes of the message before its body
    declared,   \* history: the size of the body, or of the chunk
    body,       \* history: how many of them have been moved over
    lines,      \* history: header lines of the message, with trailers
    messages,   \* history: messages begun
    repeats     \* history: bytes that changed nothing but nread

counts == <<lines, messages, repeats>>
parserVars == <<parser, len, pos, owed, header, declared, body, counts>>

ParserInit ==
    /\ parser = NewParser
    /\ len = 0 /\ pos = 0
    /\ owed = [f \in Parts |-> 0]
    /\ header = 0 /\ declared = 0 /\ body = 0 /\ lines = 0 /\ messages = 0
    /\ repeats = 0

(* A step begins with no callback called.                                  *)
Fresh(x) == [x EXCEPT !.called = <<>>]

(* It ends without what the code will set again before it looks at it.  Of *)
(* the methods but CONNECT only the name matters from there on.            *)
Settled(y) ==
    [y EXCEPT !.given = [f \in Parts |-> 0],
              !.index = IF y.state \in {"s_req_method", "s_header_field",
                                        "s_header_value"} THEN @ ELSE 0,
              !.hs = IF y.state \in {"s_header_field", "s_header_value_start",
                                     "s_header_value", "s_header_almost_done"}
                     THEN @ ELSE "h_general",
              !.method = IF y.state = "s_req_method" \/ @ = "CONNECT" THEN @
                         ELSE "DELETE"]

(* The states of the enumeration up to s_headers_almost_done.              *)
PARSING_HEADER(x) ==
    /\ "TRAILING" \notin x.flags
    /\ x.state \notin BodyStates
          \cup {"s_chunk_size_start", "s_chunk_size", "s_chunk_parameters",
                "s_chunk_size_almost_done", "s_chunk_data_almost_done",
                "s_chunk_data_done"}

(* The states the byte leads to.                                           *)
Outcomes(x, ch, at) ==
    LET rules == IF x.state \notin DOMAIN RulesFrom THEN {}
                 ELSE {r \in RulesFrom[x.state] : ch \in r.on}
    IN  IF rules # {} THEN {Apply(r, x, at) : r \in rules}
        ELSE CASE x.state \in StartStates       -> {Start(x, ch)}
               [] x.state = "s_res_or_resp_H"   -> {ResponseOrHead(x, ch)}
               [] x.state = "s_req_method"      -> MethodLetter(x, ch)
               [] x.state \in {"s_req_http_start", "s_http"} ->
                      {HTTPLetter(x, ch)}
               [] x.state \in DOMAIN FirstDigit \cup NumberStates ->
                      {IF ch \in Digits THEN Digit(x, ch)
                                        ELSE VersionEnd(x, ch)}
               [] x.state = "s_header_field_start" ->
                      {CASE ch = CR -> Enter(x, "s_headers_almost_done")
                         [] ch = LF -> HeadersAlmostDone(x, ch)
                         [] OTHER   -> FieldStart(x, ch, at)}
               [] x.state = "s_header_field"    -> {Field(x, ch, at)}
               [] x.state = "s_header_value_start" ->
                      {ValueStart(x, ch, at)}
               [] x.state = "s_header_value"    -> {HeaderValue(x, ch, at)}
               [] x.state = "s_header_almost_done" ->
                      {HeaderAlmostDone(x, ch)}
               [] x.state = "s_headers_almost_done" ->
                      {HeadersAlmostDone(x, ch)}
               [] x.state \in {"s_chunk_size_start", "s_chunk_size"} ->
                      {ChunkSize(x, ch)}
               [] x.state = "s_chunk_size_almost_done" ->
                      {ChunkSizeAlmostDone(x, ch)}
               [] OTHER -> {Failed(x)}

(* The part a byte belongs to is that of the state it leads to.            *)
Within(f, state) ==
    CASE f = "url"         -> state \in UrlStates
      [] f = "path"        -> state = "s_req_path"
      [] f = "queryString" -> state = "s_req_query_string"
      [] f = "fragment"    -> state = "s_req_fragment"
      [] f = "field"       -> state = "s_header_field"
      [] f = "value"       -> state = "s_header_value"

(* A bug for the mutation run: a URL's mark is forgotten in its port.      *)
MarksPortless(x) ==
    [f \in Parts |-> IF Within(f, x.state) /\ x.state # "s_req_port"
                     THEN 0 ELSE NoMark]

(* The marks at the start of a packet.                                     *)
Marks(x) == [f \in Parts |-> IF Within(f, x.state) THEN 0 ELSE NoMark]

(* http_parser_execute() is called with a packet of n bytes.               *)
Execute(n) ==
    /\ len = 0
    /\ ~parser.returned
    /\ len' = n
    /\ pos' = 0
    /\ parser' = [Fresh(parser) EXCEPT !.mark = Marks(parser)]
    /\ UNCHANGED <<owed, header, declared, body, counts>>

Owed(x, bytes) ==
    [f \in Parts |-> owed[f] - x.given[f]
                     + IF Within(f, x.state) THEN bytes ELSE 0]

BeginsRequest(x, ch) ==
    /\ ch \in DOMAIN FirstMethod
    /\ \/ x.state = "s_start_req"
       \/ x.state = "s_start_req_or_res" /\ ch # "h"

(* The bounds: on messages, their lines and methods, and on lengths.       *)
InBounds(x, ch) ==
    /\ BeginsRequest(x, ch) => FirstMethod[ch] \in Methods
    /\ x.state \in StartStates => messages < MaxMessages
    /\ x.state = "s_header_field_start" /\ lines = MaxLines =>
          ch \in {CR, LF}

Same(x, y) == x = [y EXCEPT !.nread = x.nread, !.given = x.given,
                            !.called = x.called]

(* What the message's history makes of a step to y.                        *)
History(y) ==
    LET begins == parser.state \in StartStates /\ y.state \notin StartStates
    IN  /\ messages' = messages + IF begins THEN 1 ELSE 0
        /\ header' = IF begins THEN 1
                     ELSE IF y.returned THEN header
                     ELSE IF y.state \in StartStates THEN 0
                     ELSE header + IF PARSING_HEADER(parser) THEN 1 ELSE 0
        /\ lines' = CASE begins -> 0
                      [] /\ parser.state = "s_header_field_start"
                         /\ y.state = "s_header_field" -> lines + 1
                      [] OTHER -> lines
        /\ repeats' = repeats + IF Same(parser, y) THEN 1 ELSE 0
        /\ IF y.state \in {"s_body_identity", "s_chunk_data"}
           THEN declared' = y.length /\ body' = 0
           ELSE UNCHANGED <<declared, body>>

(* The next byte, unless it is in a body.  "Buffer overflow attack".       *)
Byte(ch) ==
    /\ pos < len
    /\ ~parser.returned
    /\ parser.state \notin BodyStates
    /\ InBounds(parser, ch)
    /\ LET x == Fresh([parser EXCEPT !.nread =
                          @ + IF PARSING_HEADER(parser) THEN 1 ELSE 0])
       IN  \E y \in IF x.nread > HTTP_MAX_HEADER_SIZE THEN {Failed(x)}
                    ELSE Outcomes(x, ch, pos) :
             /\ y.length <= MaxLength
             /\ Same(parser, y) => repeats < MaxRepeats
             /\ parser' = Settled(y)
             /\ owed' = Owed(y, 1)
             /\ History(y)
    /\ pos' = pos + 1
    /\ UNCHANGED len

(* The next bytes in a body, and one byte if there is less than one.       *)
BodyBytes ==
    /\ pos < len
    /\ ~parser.returned
    /\ parser.state \in BodyStates
    /\ LET n == ToRead(parser, len - pos)
       IN  /\ parser' = Body(Fresh(parser), n)
           /\ pos' = pos + IF n > 0 THEN n ELSE 1
           /\ body' = body + IF parser.state = "s_body_identity_eof" THEN 0
                                                                   ELSE n
    /\ UNCHANGED <<len, owed, header, declared, counts>>

(* All bytes are read: callbacks for the parts the packet ends in, and the *)
(* parser's place is saved, the index in a byte.                           *)
Return ==
    /\ len > 0 /\ pos = len
    /\ ~parser.returned
    /\ LET order == <<"field", "value", "fragment", "queryString", "path",
                      "url">>
           y == GiveAll(Fresh(parser), order, pos)
       IN  /\ parser' = [Settled(y) EXCEPT !.index = @ % 256]
           /\ owed' = Owed(y, 0)
    /\ len' = 0 /\ pos' = 0
    /\ UNCHANGED <<header, declared, body, counts>>

ParserNext ==
    \/ \E n \in 1..MaxPacket : Execute(n)
    \/ \E ch \in Chars : Byte(ch)
    \/ BodyBytes
    \/ Return

ParserSpec == ParserInit /\ [][ParserNext]_parserVars

-----------------------------------------------------------------------------
(* Every byte of a URL, of its parts and of a header's name and value is   *)
(* given in a callback once, wherever packets end: nothing is owed when a  *)
(* part is over, nor between packets, when its mark is gone.               *)
EveryByteIsGiven ==
    ~parser.returned => \A f \in Parts :
        /\ owed[f] >= 0
        /\ len = 0 \/ ~Within(f, parser.state) => owed[f] = 0

(* A body, or a chunk of it, has as many bytes as content_length said when *)
(* it began, in whatever packets they come, and the byte after them is read*)
(* as what follows it.  That a size that wrapped is not the one on the     *)
(* wire, and what becomes of a chunk of negative size, is left out.        *)
BodyIsFramed ==
    IF parser.state \in {"s_body_identity", "s_chunk_data"}
    THEN /\ body + parser.length = declared
         /\ declared > 0 => body < declared
    ELSE body = declared

(* httpParser.h:58: "Maximium header size allowed".  A message has at most *)
(* one byte more before its body: its first, after a chunked message.      *)
HeaderIsLimited == header <= HTTP_MAX_HEADER_SIZE + 1

(* The parser keeps the order of callbacks that HTTPDialogue.tla promises: *)
(* a message's headers are completed once, its body and its end are not    *)
(* reported before that, and no message follows the last one unless its    *)
(* trailer changes what its headers said of the connection.                *)
Phase(x) ==
    CASE x.returned \/ x.state = "s_dead" -> "dead"
      [] ~x.returned /\ x.state \in StartStates -> "between"
      [] x.state \in {"s_header_field_start", "s_header_field",
                      "s_header_value_start", "s_header_value",
                      "s_header_almost_done", "s_headers_almost_done"}
         /\ ~x.returned ->
             IF "TRAILING" \in x.flags THEN "trailer" ELSE "headers"
      [] OTHER -> IF PARSING_HEADER(x) THEN "line"
                  ELSE IF http_should_keep_alive(x) THEN "body"
                  ELSE "lastBody"

Dialogue == INSTANCE HTTPDialogue
                WITH phase <- Phase(parser), calls <- parser.called

ImplementsDialogue == Dialogue!Spec
=============================================================================

-------------------------- MODULE HTTPParser_proofs --------------------------
(***************************************************************************)
(* Theorems about HTTPParser.tla and HTTPStream.tla, for any bytes, words  *)
(* and packets, any limit on headers and any bounds.                       *)
(*                                                                         *)
(* The parser.  Every handler of a byte makes a Step: it keeps the parser  *)
(* in a place it can be in, calls back as HTTPDialogue.tla allows, and     *)
(* leaves exactly the parts marked that its new state reads.  There is one *)
(* lemma for each handler, and one for each rule.  From these steps follow *)
(* the invariant and the refinement.                                       *)
(*                                                                         *)
(* The session.  SessionOK says what the callbacks have made of the bytes  *)
(* before each place of the parser.  A step is one of a few Courses, as    *)
(* far as a session depends on it: one set of lemmas shows that each       *)
(* course keeps SessionOK, another that each handler takes one of them.    *)
(***************************************************************************)
EXTENDS HTTPStream, SequenceTheorems, WellFoundedInduction, TLAPS

-----------------------------------------------------------------------------
(* What the operators that build a parser change, and what they keep.      *)
(* The fields of a parser.                                                 *)
Fields == {"type", "state", "hs", "index", "nread", "flags", "length",
           "number", "modern", "method", "upgrade", "mark", "given",
           "called", "returned"}

(* A parser record, as far as the proofs look at its values.               *)
IsParser(x) ==
    /\ x = [k \in Fields |-> x[k]]
    /\ x.nread \in Nat /\ x.length \in Int
    /\ x.mark \in [Parts -> Int] /\ x.given \in [Parts -> Int]

(* What the places of two parsers have in common.                          *)
SameMarks(x, y) ==
    /\ IsParser(y)
    /\ y.mark = x.mark /\ y.given = x.given

(* y is x but for its place: what it knows of the message is the same.     *)
Moved(x, y) ==
    /\ SameMarks(x, y)
    /\ y.nread = x.nread /\ y.flags = x.flags /\ y.length = x.length
    /\ y.called = x.called /\ y.returned = x.returned

Unmoved(x, y) ==
    /\ Moved(x, y)
    /\ y.state = x.state /\ y.type = x.type /\ y.modern = x.modern

(* A letter compared with a word changes only the index and hs.            *)
LEMMA MatchMoves ==
    ASSUME NEW x, IsParser(x), NEW w, NEW ch
    PROVE  Unmoved(x, Match(x, w, ch))
<1> DEFINE i == x.index + 1
           name == Spelling[w[1]]
           h == IF i >= Len(name) \/ name[i + 1] # ch THEN "h_general"
                ELSE IF i = Len(name) - 1 THEN w[2] ELSE x.hs
<1>1. Match(x,w,ch) = [x EXCEPT !.index = i, !.hs = h]
  BY DEF Match
<1> HIDE DEF i, h
<1> QED  BY <1>1 DEF IsParser, Unmoved, Moved, SameMarks, Fields

(* So does one of the letters that names beginning with "con" share.       *)
LEMMA PrefixMoves ==
    ASSUME NEW x, IsParser(x), NEW ch
    PROVE  Unmoved(x, PrefixLetter(x, ch))
<1> PICK i, h : PrefixLetter(x, ch) = [x EXCEPT !.index = i, !.hs = h]
  BY DEF PrefixLetter
<1> QED  BY DEF IsParser, Unmoved, Moved, SameMarks, Fields

(* So does a byte after a whole word.                                      *)
LEMMA WordOverMoves ==
    ASSUME NEW x, IsParser(x), NEW ch
    PROVE  Unmoved(x, WordOver(x, ch))
BY DEF WordOver, IsParser, Unmoved, Moved, SameMarks, Fields

(* Enter changes the state and nothing else.                               *)
LEMMA EnterMoves ==
    ASSUME NEW x, IsParser(x), NEW s
    PROVE  /\ Moved(x, Enter(x, s)) /\ Enter(x, s).state = s
           /\ Enter(x, s).type = x.type /\ Enter(x, s).modern = x.modern
BY DEF IsParser, Moved, SameMarks, Fields, Enter

(* Call appends a callback and changes nothing else.                       *)
LEMMA CallMoves ==
    ASSUME NEW x, IsParser(x), NEW c
    PROVE  LET y == Call(x, c)
           IN  /\ SameMarks(x, y)
               /\ y.nread = x.nread /\ y.flags = x.flags /\ y.length = x.length
               /\ y.state = x.state /\ y.returned = x.returned
               /\ y.called = Append(x.called, c)
               /\ y.type = x.type /\ y.modern = x.modern
BY DEF IsParser, SameMarks, Fields, Call

(* A failed parser is dead; its callbacks have been called.                *)
LEMMA FailedMoves ==
    ASSUME NEW x
    PROVE  LET y == Failed(x)
           IN  /\ IsParser(y) /\ y.returned = TRUE /\ y.state = "s_dead"
               /\ y.called = x.called
<1> DEFINE y == Failed(x)
<1>1. /\ y = [k \in Fields |-> y[k]]
      /\ y.nread = 0 /\ y.length = -1 /\ y.mark = [f \in Parts |-> NoMark]
      /\ y.given = [f \in Parts |-> 0]
  BY DEF Failed, NewParser, Fields
<1>2. y.returned = TRUE /\ y.state = "s_dead" /\ y.called = x.called
  BY DEF Failed, NewParser, Fields
<1> QED BY <1>1, <1>2 DEF IsParser, NoMark

(* Mark sets one mark and changes nothing else.                            *)
LEMMA MarkMoves ==
    ASSUME NEW x, IsParser(x), NEW f \in Parts, NEW at \in Int
    PROVE  LET y == Mark(x, f, at)
           IN  /\ IsParser(y)
               /\ y.state = x.state /\ y.nread = x.nread /\ y.flags = x.flags
               /\ y.length = x.length /\ y.called = x.called
               /\ y.returned = x.returned /\ y.type = x.type
               /\ y.mark = [x.mark EXCEPT ![f] = at] /\ y.given = x.given
BY DEF IsParser, Fields, Mark

(* Give clears one mark, with a callback if it was set.                    *)
LEMMA GiveMoves ==
    ASSUME NEW x, IsParser(x), NEW f \in Parts, NEW at \in Int
    PROVE  LET y == Give(x, f, at)
           IN  /\ IsParser(y)
               /\ y.state = x.state /\ y.nread = x.nread /\ y.flags = x.flags
               /\ y.length = x.length /\ y.returned = x.returned
               /\ y.type = x.type /\ y.modern = x.modern
               /\ y.mark = [x.mark EXCEPT ![f] = NoMark]
               /\ x.mark[f] # NoMark =>
                     /\ y.called = Append(x.called, f)
                     /\ y.given = [x.given EXCEPT ![f] = @ + at - x.mark[f]]
               /\ x.mark[f] = NoMark => y = x
<1>1. CASE x.mark[f] = NoMark
  BY <1>1 DEF IsParser, Fields, Give
<1>2. CASE x.mark[f] # NoMark
  <2> DEFINE z == Call(x, f)
             g == [x.given EXCEPT ![f] = @ + at - x.mark[f]]
             m == [x.mark EXCEPT ![f] = NoMark]
  <2>1. /\ IsParser(z) /\ z.mark = x.mark /\ z.given = x.given
        /\ z.nread = x.nread /\ z.flags = x.flags /\ z.length = x.length
        /\ z.state = x.state /\ z.returned = x.returned
        /\ z.type = x.type /\ z.modern = x.modern
        /\ z.called = Append(x.called, f)
    BY CallMoves DEF SameMarks
  <2>2. Give(x, f, at) = [z EXCEPT !.given[f] = @ + at - x.mark[f],
                                   !.mark[f] = NoMark]
    BY <1>2 DEF Give
  <2> HIDE DEF z
  <2>3. Give(x, f, at) = [z EXCEPT !.given = g, !.mark = m]
    BY <2>2, <2>1 DEF IsParser, Fields
  <2>4. g \in [Parts -> Int] /\ m \in [Parts -> Int]
    BY DEF IsParser, NoMark
  <2> HIDE DEF g, m
  <2>5. LET y == Give(x, f, at)
           IN  /\ IsParser(y)
               /\ y.state = z.state /\ y.nread = z.nread /\ y.flags = z.flags
               /\ y.length = z.length /\ y.returned = z.returned
               /\ y.type = z.type /\ y.modern = z.modern
               /\ y.called = z.called
               /\ y.mark = m /\ y.given = g
    BY <2>3, <2>4, <2>1 DEF IsParser, Fields
  <2> QED  BY <2>5, <2>1, <1>2 DEF g, m
<1> QED  BY <1>1, <1>2

(* The callback for a part whose mark is set.                              *)
LEMMA GivePart ==
    ASSUME NEW x, IsParser(x), NEW f \in Parts, NEW at \in Int,
           x.mark[f] # NoMark, NEW y, y = Give(x, f, at)
    PROVE  /\ IsParser(y) /\ y.nread = x.nread /\ y.flags = x.flags
           /\ y.state = x.state /\ y.length = x.length
           /\ y.returned = x.returned /\ y.called = Append(x.called, f)
           /\ y.type = x.type /\ y.modern = x.modern
           /\ y.mark = [x.mark EXCEPT ![f] = NoMark]
           /\ y.given = [x.given EXCEPT ![f] = @ + at - x.mark[f]]
<1>1. LET z == Give(x, f, at)
      IN  /\ IsParser(z)
          /\ z.state = x.state /\ z.nread = x.nread /\ z.flags = x.flags
          /\ z.length = x.length /\ z.returned = x.returned
          /\ z.type = x.type /\ z.modern = x.modern
          /\ z.mark = [x.mark EXCEPT ![f] = NoMark]
          /\ z.called = Append(x.called, f)
          /\ z.given = [x.given EXCEPT ![f] = @ + at - x.mark[f]]
  BY GiveMoves
<1> QED  BY <1>1

(* The states of a header, of a chunked body but for its data, and of      *)
(* the first line but for its URL.                                         *)
HeaderStates == {"s_header_field_start", "s_header_field",
                 "s_header_value_start", "s_header_value",
                 "s_header_almost_done", "s_headers_almost_done"}
ChunkStates == {"s_chunk_size_start", "s_chunk_size", "s_chunk_parameters",
                "s_chunk_size_almost_done", "s_chunk_data_almost_done",
                "s_chunk_data_done"}
LineStates ==
    {"s_res_or_resp_H", "s_req_method", "s_req_spaces_before_url", "s_http",
     "s_req_http_start", "s_first_http_major", "s_http_major",
     "s_first_http_minor", "s_http_minor", "s_req_line_almost_done",
     "s_first_status_code", "s_status_code", "s_res_status",
     "s_res_line_almost_done"}
(* All states of the parser.                                               *)
States == StartStates \cup LineStates \cup UrlStates \cup HeaderStates
          \cup ChunkStates \cup BodyStates \cup {"s_dead"}

(* A body is never entered with nothing of it left, but a chunk may be of  *)
(* negative size.                                                          *)
LengthOK(x) ==
    /\ x.state = "s_body_identity" => x.length > 0
    /\ x.state = "s_chunk_data" => x.length # 0

(* No message begins with the flag of a trailer.                           *)
LineOK(x) == x.state \in LineStates \cup UrlStates => "TRAILING" \notin x.flags

(* Between steps of a packet exactly the parts being read are marked.      *)
PartsOK(x) ==
    \A f \in Parts : /\ x.given[f] = 0
                     /\ Within(f, x.state) <=> x.mark[f] # NoMark

(* The steps of HTTPDialogue.tla: from phase p to q with the callbacks c.  *)
Told(p, q, c) ==
    \/ /\ c = <<>>
       /\ \/ q \in {p, "dead"}
          \/ p = "line" /\ q = "headers"
          \/ p \in {"body", "lastBody"} /\ q = "trailer"
    \/ /\ p = "between" /\ c = <<"messageBegin">>
       /\ q \in {"between", "line", "dead"}
    \/ /\ p = "line" /\ q \in {"line", "headers"}
       /\ \/ \E f \in {"url", "path", "queryString", "fragment"} : c = <<f>>
          \/ \E f, g \in {"url", "path", "queryString", "fragment"} :
                f # g /\ c = <<f, g>>
    \/ /\ p \in {"headers", "trailer"} /\ q = p
       /\ c \in {<<"field">>, <<"value">>}
    \/ /\ p = "headers"
       /\ \/ c = <<"complete">> /\ q = "body"
          \/ c = <<"closing">> /\ q = "lastBody"
          \/ c = <<"complete", "messageComplete">> /\ q \in {"between", "dead"}
          \/ c = <<"closing", "messageComplete">> /\ q = "dead"
    \/ /\ p \in {"body", "lastBody"}
       /\ \/ c = <<"body">> /\ q = p
          \/ c = <<"body", "messageComplete">>
             /\ q \in {"dead"} \cup (IF p = "body" THEN {"between"} ELSE {})
    \/ p = "trailer" /\ c = <<"messageComplete">> /\ q \in {"between", "dead"}

(* A part that goes on keeps its mark, one that begins gets the place of the*)
(* byte, and one that ends is given in full.                               *)
PartsStep(x, y, at) ==
    \A f \in Parts :
        IF Within(f, y.state)
        THEN /\ y.given[f] = 0
             /\ y.mark[f] = IF Within(f, x.state) THEN x.mark[f] ELSE at
        ELSE /\ y.mark[f] = NoMark
             /\ y.given[f] = IF Within(f, x.state) THEN at - x.mark[f] ELSE 0

(* What every handler of a byte at "at" does to a parser x.                *)
Step(x, y, at) ==
    /\ IsParser(y)
    /\ Told(Phase(x), Phase(y), y.called)
    /\ LengthOK(y)
    /\ ~y.returned =>
          /\ y.state \in States
          /\ Phase(y) \in {"line", "headers"} /\ x.state \notin StartStates =>
                y.nread = x.nread
          /\ LineOK(y) /\ PartsStep(x, y, at)

(* A parser between two bytes of a packet.                                 *)
Ready(x) ==
    /\ IsParser(x) /\ ~x.returned /\ x.called = <<>> /\ x.state \in States
    /\ LengthOK(x) /\ LineOK(x) /\ PartsOK(x)

(* No part is being read outside of URLs, names and values.                *)
LEMMA WithinNone ==
    ASSUME NEW s, s \notin UrlStates \cup {"s_header_field", "s_header_value"},
           NEW f \in Parts
    PROVE  ~Within(f, s)
BY DEF Within, Parts, UrlStates

(* The phase of a body, and that of a parser by its kind of state.         *)
BodyPhase(x) == IF http_should_keep_alive(x) THEN "body" ELSE "lastBody"

LEMMA Phases ==
    ASSUME NEW x
    PROVE  /\ x.returned \/ x.state = "s_dead" => Phase(x) = "dead"
           /\ ~x.returned =>
              /\ x.state \in StartStates => Phase(x) = "between"
              /\ x.state \in HeaderStates =>
                    Phase(x) = IF "TRAILING" \in x.flags THEN "trailer"
                                                         ELSE "headers"
              /\ /\ x.state \in LineStates \cup UrlStates
                 /\ "TRAILING" \notin x.flags
                 => Phase(x) = "line"
              /\ x.state \in ChunkStates \cup BodyStates =>
                    Phase(x) = BodyPhase(x)
<1> USE DEF StartStates, HeaderStates, LineStates, UrlStates, ChunkStates,
            BodyStates
<1>1. CASE x.returned \/ x.state = "s_dead"
  BY <1>1 DEF Phase
<1>2. CASE ~x.returned /\ x.state \in StartStates
  BY <1>2 DEF Phase
<1>3. CASE ~x.returned /\ x.state \in HeaderStates
  BY <1>3 DEF Phase
<1>4. CASE ~x.returned /\ x.state \in LineStates \cup UrlStates
  BY <1>4 DEF Phase, PARSING_HEADER
<1>5. CASE ~x.returned /\ x.state \in ChunkStates \cup BodyStates
  BY <1>5 DEF Phase, PARSING_HEADER, BodyPhase
<1> QED  BY <1>1, <1>2, <1>3, <1>4, <1>5

(* A handler may fail, unless it has called back.                          *)
LEMMA FailedStep ==
    ASSUME NEW x, Ready(x), NEW z, z.called = <<>>, NEW at
    PROVE  Step(x, Failed(z), at)
BY FailedMoves, Phases DEF Step, Told, Ready, LengthOK

(* A handler may stay where it is.                                         *)
LEMMA UnmovedStep ==
    ASSUME NEW x, Ready(x), NEW y, Unmoved(x, y), NEW at
    PROVE  Step(x, y, at)
<1>1. IsParser(y) /\ ~y.returned /\ y.called = <<>> /\ y.state = x.state
      /\ y.flags = x.flags /\ y.length = x.length /\ y.nread = x.nread
      /\ y.mark = x.mark /\ y.given = x.given
  BY DEF Ready, Unmoved, Moved, SameMarks
<1>2. Phase(y) = Phase(x)
  <2>1. y.modern = x.modern
    BY DEF Unmoved
  <2> QED  BY <1>1, <2>1 DEF Phase, PARSING_HEADER, http_should_keep_alive,
                             Ready
<1>3. LengthOK(y) /\ LineOK(y)
  BY <1>1 DEF Ready, LengthOK, LineOK
<1>4. PartsStep(x, y, at)
  BY <1>1 DEF PartsStep, Ready, PartsOK
<1> QED  BY <1>1, <1>2, <1>3, <1>4 DEF Step, Told, Ready

(* A handler may go on in the first line of a message, or end it.          *)
LEMMA LineStep ==
    ASSUME NEW x, Ready(x), x.state \in LineStates,
           NEW y, Moved(x, y), NEW at,
           y.state \in LineStates \cup {"s_header_field_start"}
    PROVE  Step(x, y, at)
<1>1. IsParser(y) /\ ~y.returned /\ y.called = <<>>
      /\ y.flags = x.flags /\ y.length = x.length /\ y.nread = x.nread
      /\ y.mark = x.mark /\ y.given = x.given
  BY DEF Ready, Moved, SameMarks
<1>2. "TRAILING" \notin x.flags
  BY DEF Ready, LineOK
<1>3. Phase(x) = "line"
  BY <1>2, Phases DEF Ready
<1>4. Phase(y) = IF y.state \in LineStates THEN "line" ELSE "headers"
  BY <1>1, <1>2, Phases DEF HeaderStates
<1>5. Told(Phase(x), Phase(y), y.called)
  BY <1>1, <1>3, <1>4 DEF Told
<1>6. LengthOK(y) /\ LineOK(y)
  BY <1>1, <1>2 DEF LengthOK, LineOK, LineStates
<1>7. \A f \in Parts : ~Within(f, x.state) /\ ~Within(f, y.state)
  BY WithinNone DEF LineStates, UrlStates
<1>8. PartsStep(x, y, at)
  BY <1>1, <1>7 DEF PartsStep, Ready, PartsOK
<1>9. y.state \in States
  BY DEF States, HeaderStates
<1> QED  BY <1>1, <1>5, <1>6, <1>8, <1>9 DEF Step

(* Numbers read are no part of the place.                                  *)
LEMMA NumberMoves ==
    ASSUME NEW x, IsParser(x), NEW n, NEW y
    PROVE  /\ y = [x EXCEPT !.number = n] => Unmoved(x, y)
           /\ \A s : y = [Enter(x, s) EXCEPT !.number = n] =>
                        Moved(x, y) /\ y.state = s /\ y.type = x.type
BY DEF Enter, Unmoved, Moved, SameMarks, IsParser, Fields

(* The handlers of the first line do one or the other.                     *)
LEMMA LineOrFailedStep ==
    ASSUME NEW x, Ready(x), x.state \in LineStates, NEW y, NEW at,
           \/ y = Failed(x)
           \/ Moved(x, y)
              /\ y.state \in LineStates \cup {"s_header_field_start"}
    PROVE  Step(x, y, at)
BY FailedStep, LineStep DEF Ready

(* The handler after an "H" makes a step.                                  *)
LEMMA ResponseOrHeadStep ==
    ASSUME NEW x, Ready(x), x.state = "s_res_or_resp_H", NEW ch, NEW at,
           NEW y, y = ResponseOrHead(x, ch)
    PROVE  Step(x, y, at)
<1>1. \/ y = Failed(x)
      \/ Moved(x, y) /\ y.state \in {"s_http", "s_req_method"}
  BY DEF ResponseOrHead, Enter, Moved, SameMarks, IsParser, Fields, Ready
<1> QED  BY <1>1, LineOrFailedStep DEF LineStates

(* The handler of a method's letters makes a step.                         *)
LEMMA MethodLetterStep ==
    ASSUME NEW x, Ready(x), x.state = "s_req_method", NEW ch, NEW at,
           NEW y \in MethodLetter(x, ch)
    PROVE  Step(x, y, at)
<1> DEFINE next == [x EXCEPT !.index = @ + 1]
           ends == Enter(next, "s_req_spaces_before_url")
           name == Spelling[x.method]
           switch == {s \in Switches :
                        s[1] = x.method /\ s[2] = x.index /\ s[3] = ch}
<1>1. Moved(x, next) /\ next.state = "s_req_method"
  BY DEF Moved, SameMarks, IsParser, Fields, Ready
<1>2. Moved(x, ends) /\ ends.state = "s_req_spaces_before_url"
  BY DEF Moved, SameMarks, IsParser, Fields, Ready, Enter
<1>3. ASSUME NEW m PROVE Moved(x, [next EXCEPT !.method = m])
             /\ [next EXCEPT !.method = m].state = "s_req_method"
  BY DEF Moved, SameMarks, IsParser, Fields, Ready
<1>4. MethodLetter(x, ch) =
          CASE ch = "nul"                             -> {Failed(x)}
            [] ch = SP /\ x.index = Len(name)         -> {ends}
            [] ch = SP /\ x.index > Len(name)         -> {ends, next}
            [] /\ ch \notin {SP, "nul"}
               /\ x.index < Len(name) /\ ch = name[x.index + 1] -> {next}
            [] OTHER ->
                   IF switch # {}
                   THEN {[next EXCEPT !.method = s[4]] : s \in switch}
                   ELSE {IF x.method \in {"CONNECT", "MKCOL"} THEN next
                                                              ELSE Failed(x)}
  BY DEF MethodLetter
<1> HIDE DEF next, ends, switch, name
<1>5. y \in {Failed(x), next, ends} \/ \E m : y = [next EXCEPT !.method = m]
  BY <1>4
<1>6. y = Failed(x) \/ (Moved(x, y) /\ y.state \in LineStates)
  BY <1>1, <1>2, <1>3, <1>5 DEF LineStates
<1> QED  BY <1>6, LineOrFailedStep DEF LineStates

(* The handler of the letters of "HTTP/" makes a step.                     *)
LEMMA HTTPLetterStep ==
    ASSUME NEW x, Ready(x), x.state \in {"s_req_http_start", "s_http"},
           NEW ch, NEW at, NEW y, y = HTTPLetter(x, ch)
    PROVE  Step(x, y, at)
<1> DEFINE n == IF x.state = "s_http" THEN x.number + 1 ELSE 1
<1>1. \/ y = Failed(x)
      \/ y = [Enter(x, "s_http") EXCEPT !.number = n]
      \/ y = [Enter(x, "s_first_http_major") EXCEPT !.number = 0]
  BY DEF HTTPLetter
<1> HIDE DEF n
<1>2. y = Failed(x) \/ (Moved(x, y) /\ y.state \in LineStates)
  BY <1>1, NumberMoves DEF LineStates, Unmoved, Ready
<1> QED  BY <1>2, LineOrFailedStep DEF LineStates

(* The handler of digits makes a step.                                     *)
LEMMA DigitStep ==
    ASSUME NEW x, Ready(x), x.state \in DOMAIN FirstDigit \cup NumberStates,
           NEW ch, NEW at, NEW y, y = Digit(x, ch)
    PROVE  Step(x, y, at)
<1> USE DEF FirstDigit, NumberStates
<1>1. \/ y = Failed(x)
      \/ \E n : \/ y = [x EXCEPT !.number = n]
                \/ \E s \in LineStates : y = [Enter(x, s) EXCEPT !.number = n]
  <2>1. CASE x.state \in DOMAIN FirstDigit
    <3>1. FirstDigit[x.state] \in LineStates
      BY <2>1 DEF LineStates
    <3> HIDE DEF FirstDigit
    <3>2. \/ y = Failed(x)
          \/ y = [Enter(x, FirstDigit[x.state]) EXCEPT !.number = Value[ch]]
      BY <2>1 DEF Digit
    <3> QED  BY <3>1, <3>2
  <2>2. CASE x.state \notin DOMAIN FirstDigit
    BY <2>2 DEF Digit
  <2> QED  BY <2>1, <2>2
<1>2. x.state \in LineStates
  BY DEF LineStates
<1>3. y = Failed(x) \/ (Moved(x, y) /\ y.state \in LineStates)
  BY <1>1, <1>2, NumberMoves DEF Unmoved, Ready
<1> QED  BY <1>2, <1>3, LineOrFailedStep

(* The handler of what ends a version makes a step.                        *)
LEMMA VersionEndStep ==
    ASSUME NEW x, Ready(x), x.state \in DOMAIN FirstDigit \cup NumberStates,
           NEW ch, NEW at, NEW y, y = VersionEnd(x, ch)
    PROVE  Step(x, y, at)
<1> USE DEF FirstDigit, NumberStates
<1> DEFINE minor == [x EXCEPT !.modern = x.number > 0, !.number = 0]
           next == LineStates \cup {"s_header_field_start"}
<1>1. \/ y = Failed(x)
      \/ \E s \in next : \/ y = [Enter(x, s) EXCEPT !.number = 0]
                         \/ y = Enter(minor, s)
  <2>1. /\ {"s_first_http_minor", "s_req_line_almost_done",
            "s_first_status_code"} \subseteq next
        /\ "s_header_field_start" \in next
    BY DEF LineStates
  <2> HIDE DEF next
  <2>2. \/ y = Failed(x)
        \/ y = [Enter(x, "s_first_http_minor") EXCEPT !.number = 0]
        \/ y = Enter(minor, "s_req_line_almost_done")
        \/ y = Enter(minor, "s_first_status_code")
        \/ y = Enter(minor, "s_header_field_start")
    BY DEF VersionEnd
  <2> QED  BY <2>1, <2>2
<1>2. \A s : Moved(x, Enter(minor, s)) /\ Enter(minor, s).state = s
  BY DEF Enter, Moved, SameMarks, IsParser, Fields, Ready
<1>3. x.state \in LineStates
  BY DEF LineStates
<1> HIDE DEF minor, next
<1>4. y = Failed(x) \/ (Moved(x, y) /\ y.state \in next)
  BY <1>1, <1>2, NumberMoves DEF Ready
<1> QED  BY <1>3, <1>4, LineOrFailedStep DEF next

-----------------------------------------------------------------------------
(* Headers.                                                                *)

(* Appending to a short sequence.                                          *)
LEMMA OneCall == ASSUME NEW c PROVE Append(<<>>, c) = <<c>>
BY SMT

(* Appending to a sequence of one element of S.                            *)
LEMMA TwoIn ==
    ASSUME NEW S, NEW c \in S, NEW d \in S
    PROVE  Append(<<c>>, d) = <<c, d>>
<1>1. /\ <<c>> \in Seq(S) /\ <<c, d>> \in Seq(S) /\ Len(<<c, d>>) = 2
      /\ <<c, d>>[1] = c /\ <<c, d>>[2] = d
  OBVIOUS
<1>2. /\ Len(Append(<<c>>, d)) = 2
      /\ Append(<<c>>, d)[1] = c /\ Append(<<c>>, d)[2] = d
  OBVIOUS
<1>3. Append(<<c>>, d) \in Seq(S)
  BY <1>1, AppendProperties
<1>4. \A i \in 1..2 : Append(<<c>>, d)[i] = <<c, d>>[i]
  BY <1>1, <1>2
<1> DEFINE s == Append(<<c>>, d)
           t == <<c, d>>
<1>5. /\ Len(s) = Len(t) /\ (\A i \in 1..Len(s) : s[i] = t[i])
      /\ s \in Seq(S) /\ t \in Seq(S)
  BY <1>1, <1>2, <1>3, <1>4
<1> HIDE DEF s, t
<1>6. s = t
  BY <1>5, SeqEqual
<1> QED BY <1>6 DEF s, t

(* The same for any two.                                                   *)
LEMMA TwoCalls == ASSUME NEW c, NEW d PROVE Append(<<c>>, d) = <<c, d>>
<1> c \in {c, d} /\ d \in {c, d}
  OBVIOUS
<1> QED BY TwoIn

(* A handler may go on in the headers, if it moves the parts right.        *)
LEMMA HeaderStep ==
    ASSUME NEW x, Ready(x), x.state \in HeaderStates, NEW at,
           NEW y, IsParser(y), ~y.returned, y.state \in HeaderStates,
           y.nread = x.nread,
           ("TRAILING" \in y.flags) <=> ("TRAILING" \in x.flags),
           y.called \in {<<>>, <<"field">>, <<"value">>},
           PartsStep(x, y, at)
    PROVE  Step(x, y, at)
<1>1. Phase(y) = Phase(x) /\ Phase(x) \in {"headers", "trailer"}
  BY Phases DEF Ready
<1>2. Told(Phase(x), Phase(y), y.called)
  BY <1>1 DEF Told
<1>3. y.state \in States /\ LengthOK(y) /\ LineOK(y)
  BY DEF States, LengthOK, LineOK, HeaderStates, LineStates, UrlStates
<1> QED  BY <1>1, <1>2, <1>3 DEF Step

(* A part begins.                                                          *)
LEMMA PartBegins ==
    ASSUME NEW x, Ready(x), NEW f \in {"field", "value"}, NEW at \in Nat,
           x.state \in HeaderStates \ {"s_header_field", "s_header_value"},
           NEW y, y.mark = [x.mark EXCEPT ![f] = at], y.given = x.given,
           y.state = IF f = "field" THEN "s_header_field" ELSE "s_header_value"
    PROVE  PartsStep(x, y, at)
<1>1. \A g \in Parts : ~Within(g, x.state)
  BY WithinNone DEF HeaderStates, UrlStates
<1>2. \A g \in Parts : Within(g, y.state) <=> g = f
  BY DEF Within, Parts, UrlStates
<1>3. x.mark \in [Parts -> Int] /\ f \in Parts
  BY DEF Ready, IsParser, Parts
<1> QED  BY <1>1, <1>2, <1>3 DEF PartsStep, Ready, PartsOK

(* A part ends.                                                            *)
LEMMA PartEnds ==
    ASSUME NEW x, Ready(x), NEW f \in {"field", "value"}, NEW at \in Nat,
           x.state = IF f = "field" THEN "s_header_field"
                                    ELSE "s_header_value",
           NEW y, y.mark = [x.mark EXCEPT ![f] = NoMark],
           y.given = [x.given EXCEPT ![f] = @ + at - x.mark[f]],
           y.state \in HeaderStates \ {"s_header_field", "s_header_value"}
    PROVE  PartsStep(x, y, at)
<1>1. \A g \in Parts : ~Within(g, y.state)
  BY WithinNone DEF HeaderStates, UrlStates
<1>2. \A g \in Parts : Within(g, x.state) <=> g = f
  BY DEF Within, Parts, UrlStates
<1>3. x.mark \in [Parts -> Int] /\ x.given \in [Parts -> Int] /\ f \in Parts
  BY DEF Ready, IsParser, Parts
<1>4. ASSUME NEW g \in Parts PROVE y.mark[g] = NoMark
  BY <1>2, <1>3 DEF Ready, PartsOK
<1>5. ASSUME NEW g \in Parts, g # f PROVE y.given[g] = 0
  BY <1>3, <1>5 DEF Ready, PartsOK
<1>6. y.given[f] = at - x.mark[f]
  BY <1>3 DEF Ready, PartsOK
<1> QED  BY <1>1, <1>2, <1>4, <1>5, <1>6 DEF PartsStep

(* The handler of a name's first letter makes a step.                      *)
LEMMA FieldStartStep ==
    ASSUME NEW x, Ready(x), x.state = "s_header_field_start", NEW ch,
           NEW at \in Nat, NEW y, y = FieldStart(x, ch, at)
    PROVE  Step(x, y, at)
<1>1. CASE y = Failed(x)
  BY <1>1, FailedStep DEF Ready
<1>2. CASE y # Failed(x)
  <2> DEFINE z == Mark(x, "field", at)
             m == [x.mark EXCEPT !["field"] = at]
  <2>1. PICK hs : y = [Enter(z, "s_header_field") EXCEPT !.index = 0,
                                                         !.hs = hs]
    BY <1>2 DEF FieldStart
  <2>2. /\ IsParser(z) /\ z.mark = m /\ z.given = x.given
        /\ z.nread = x.nread /\ z.flags = x.flags
        /\ z.called = x.called /\ z.returned = x.returned
    BY MarkMoves DEF Ready, Parts
  <2> HIDE DEF z, m
  <2>3. /\ IsParser(y) /\ y.mark = m /\ y.given = x.given
        /\ y.nread = x.nread /\ y.flags = x.flags
        /\ y.called = x.called /\ y.returned = x.returned
        /\ y.state = "s_header_field"
    BY <2>1, <2>2 DEF Enter, IsParser, Fields
  <2>4. PartsStep(x, y, at)
    BY <2>3, PartBegins DEF m, HeaderStates
  <2> QED  BY <2>3, <2>4, HeaderStep DEF Ready, HeaderStates
<1> QED  BY <1>1, <1>2

(* A word is looked for, or the part ends.                                 *)
LEMMA GiveAndEnterStep ==
    ASSUME NEW x, Ready(x), NEW f \in {"field", "value"}, NEW at \in Nat,
           x.state = IF f = "field" THEN "s_header_field"
                                    ELSE "s_header_value",
           NEW s \in HeaderStates \ {"s_header_field", "s_header_value"},
           NEW y, y = Enter(Give(x, f, at), s)
    PROVE  Step(x, y, at) /\ y.called = <<f>>
<1> DEFINE z == Give(x, f, at)
<1>1. f \in Parts /\ x.mark[f] # NoMark
  BY DEF Ready, PartsOK, Parts, Within
<1>2. /\ IsParser(z) /\ z.mark = [x.mark EXCEPT ![f] = NoMark]
      /\ z.given = [x.given EXCEPT ![f] = @ + at - x.mark[f]]
      /\ z.nread = x.nread /\ z.flags = x.flags
      /\ z.called = <<f>> /\ z.returned = x.returned
  BY <1>1, GiveMoves, OneCall DEF Ready
<1> HIDE DEF z
<1>3. Moved(z, y) /\ y.state = s
  BY <1>2, EnterMoves DEF z
<1>4. PartsStep(x, y, at)
  BY <1>2, <1>3, PartEnds DEF Moved, SameMarks
<1> QED  BY <1>2, <1>3, <1>4, HeaderStep
         DEF Moved, SameMarks, Ready, HeaderStates

(* The handler of a name's letters makes a step.                           *)
LEMMA FieldStep ==
    ASSUME NEW x, Ready(x), x.state = "s_header_field", NEW ch,
           NEW at \in Nat, NEW y, y = Field(x, ch, at)
    PROVE  Step(x, y, at)
<1>0. ch \in Tokens => ch \notin {":", CR, LF}
  BY HTTPParserAssumption
  DEF HTTPParserAssumption, Tokens, Punctuation, CR, LF, SP
<1>1. CASE ch \in Tokens
  <2>1. \/ y = x \/ y = PrefixLetter(x, ch) \/ y = WordOver(x, ch)
        \/ y = Match(x, FieldWords[x.hs], ch)
    BY <1>0, <1>1 DEF Field
  <2>2. Unmoved(x, x) /\ IsParser(x)
    BY DEF Ready, Unmoved, Moved, SameMarks
  <2>3. Unmoved(x, y)
    BY <2>1, <2>2, PrefixMoves, WordOverMoves, MatchMoves
  <2> QED  BY <2>3, UnmovedStep
<1>2. CASE ch \notin Tokens
  <2>1. \/ y = Failed(x)
        \/ y = Enter(Give(x, "field", at), "s_header_value_start")
        \/ y = Enter(Give(x, "field", at), "s_header_almost_done")
        \/ y = Enter(Give(x, "field", at), "s_header_field_start")
    BY <1>2 DEF Field
  <2> QED  BY <2>1, FailedStep, GiveAndEnterStep DEF Ready, HeaderStates
<1> QED  BY <1>1, <1>2

(* The value of a digit or a hexadecimal letter.                           *)
LEMMA ValuesAreNumbers ==
    /\ Digits \subseteq Hex
    /\ \A ch \in Hex : Value[ch] \in 0..15
<1>1. Digits \subseteq Hex /\ Value \in [Hex -> 0..15]
  BY HTTPParserAssumption DEF HTTPParserAssumption
<1> QED  BY <1>1

(* What content_length makes of a number is one.                           *)
LEMMA WrappedIsNumber == \A n \in Int : Wrapped(n) \in Int
BY HTTPParserAssumption DEF HTTPParserAssumption, Wrapped

(* A part that ends where it begins.                                       *)
Begun(x, v, p, at) ==
    /\ IsParser(v)
    /\ v.mark = [x.mark EXCEPT ![p] = at] /\ v.given = x.given

(* A value that ends where it begins is given as nothing.                  *)
LEMMA EmptyPart ==
    ASSUME NEW x, Ready(x), NEW p \in Parts, ~Within(p, x.state),
           NEW at \in Int, at >= 0,
           NEW v, Begun(x, v, p, at), NEW g, g = Give(v, p, at)
    PROVE  /\ SameMarks(x, g)
           /\ g.nread = v.nread /\ g.flags = v.flags
           /\ g.returned = v.returned
           /\ g.called = Append(v.called, p)
<1>1. x.mark \in [Parts -> Int] /\ x.given \in [Parts -> Int] /\ IsParser(x)
  BY DEF Ready, IsParser
<1>2. x.mark[p] = NoMark /\ x.given[p] = 0
  BY DEF Ready, PartsOK
<1>v. IsParser(v)
  BY DEF Begun
<1>3. v.mark[p] = at /\ v.given = x.given
  BY <1>1 DEF Begun
<1>4. v.mark[p] # NoMark
  BY <1>3 DEF NoMark
<1>5. /\ IsParser(g) /\ g.nread = v.nread /\ g.flags = v.flags
      /\ g.returned = v.returned /\ g.called = Append(v.called, p)
      /\ g.mark = [v.mark EXCEPT ![p] = NoMark]
      /\ g.given = [v.given EXCEPT ![p] = @ + at - v.mark[p]]
  BY <1>v, <1>4, GivePart
<1>6. g.mark = x.mark
  BY <1>1, <1>2, <1>5 DEF Begun
<1>7. g.given = x.given
  BY <1>1, <1>2, <1>3, <1>5
<1> QED  BY <1>5, <1>6, <1>7 DEF SameMarks

(* The handler of a value's first byte makes a step.                       *)
LEMMA ValueStartStep ==
    ASSUME NEW x, Ready(x), x.state = "s_header_value_start", NEW ch,
           NEW at \in Nat, NEW y, y = ValueStart(x, ch, at)
    PROVE  Step(x, y, at)
<1>0. PICK p \in Parts : p = "value"
  BY DEF Parts
<1> DEFINE z == Mark(x, p, at)
           m == [x.mark EXCEPT ![p] = at]
           v == [Enter(z, "s_header_value") EXCEPT !.index = 0]
           next == {w \in ValueStarts : w[1] = x.hs /\ w[2] = ch}
           h == IF next = {} THEN "h_general"
                ELSE (CHOOSE w \in next : TRUE)[3]
<1>1. /\ IsParser(z) /\ z.mark = m /\ z.given = x.given
      /\ z.nread = x.nread /\ z.flags = x.flags
      /\ z.called = x.called /\ z.returned = x.returned
  BY MarkMoves DEF Ready
<1>2. /\ IsParser(v) /\ v.mark = m /\ v.given = x.given
      /\ v.nread = x.nread /\ v.flags = x.flags
      /\ v.called = x.called /\ v.returned = x.returned
      /\ v.state = "s_header_value"
  <2> HIDE DEF z, m
  <2> QED  BY <1>1 DEF Enter, IsParser, Fields
<1>3. \/ y = x
      \/ y = [Enter(Give(v, p, at), "s_header_almost_done")
                 EXCEPT !.hs = "h_general"]
      \/ y = Enter(Give(v, p, at), "s_header_field_start")
      \/ y = [v EXCEPT !.length = Value[ch]] /\ ch \in Digits
      \/ y = Failed(v)
      \/ y = [v EXCEPT !.hs = h, !.flags =
                 @ \cup IF x.hs = "h_upgrade" THEN {"UPGRADE"} ELSE {}]
  <2> HIDE DEF h
  <2>1. y = CASE ch = SP -> x
          [] ch = CR -> [Enter(Give(v, p, at), "s_header_almost_done")
                            EXCEPT !.hs = "h_general"]
          [] ch = LF -> Enter(Give(v, p, at), "s_header_field_start")
          [] ch \notin {SP, CR, LF} /\ x.hs = "h_content_length" ->
                 IF ch \in Digits THEN [v EXCEPT !.length = Value[ch]]
                                  ELSE Failed(v)
          [] OTHER -> [v EXCEPT !.hs = h,
                                !.flags = @ \cup IF x.hs = "h_upgrade"
                                                 THEN {"UPGRADE"} ELSE {}]
    BY <1>0 DEF ValueStart, h
  <2> HIDE DEF v
  <2> QED  BY <2>1
<1> HIDE DEF z, v, next, h
<1>4. CASE y = x
  BY <1>4, UnmovedStep DEF Unmoved, Moved, SameMarks, Ready
<1>5. CASE y = Failed(v)
  BY <1>2, <1>5, FailedStep DEF Ready
<1>6. ASSUME IsParser(y), y.mark = m, y.given = x.given, y.nread = x.nread,
             ("TRAILING" \in y.flags) <=> ("TRAILING" \in x.flags),
             y.called = x.called, y.returned = x.returned,
             y.state = "s_header_value"
      PROVE  Step(x, y, at)
  <2>1. PartsStep(x, y, at)
    BY <1>0, <1>6, PartBegins DEF HeaderStates
  <2> QED  BY <1>6, <2>1, HeaderStep DEF HeaderStates, Ready
<1>7. CASE y = [v EXCEPT !.length = Value[ch]] /\ ch \in Digits
  <2>1. Value[ch] \in Int
    BY <1>7, ValuesAreNumbers
  <2>2. /\ IsParser(y) /\ y.mark = m /\ y.given = x.given
        /\ y.nread = x.nread /\ y.flags = x.flags
        /\ y.called = x.called /\ y.returned = x.returned
        /\ y.state = "s_header_value"
    <3> HIDE DEF m
    <3> QED  BY <1>2, <1>7, <2>1 DEF IsParser, Fields
  <2> QED  BY <1>6, <2>2
<1>8. CASE y = [v EXCEPT !.hs = h, !.flags =
                   @ \cup IF x.hs = "h_upgrade" THEN {"UPGRADE"} ELSE {}]
  <2>1. /\ IsParser(y) /\ y.mark = m /\ y.given = x.given
        /\ y.nread = x.nread
        /\ ("TRAILING" \in y.flags) <=> ("TRAILING" \in x.flags)
        /\ y.called = x.called /\ y.returned = x.returned
        /\ y.state = "s_header_value"
    <3> DEFINE fl == v.flags \cup IF x.hs = "h_upgrade" THEN {"UPGRADE"}
                                                       ELSE {}
    <3>1. y = [v EXCEPT !.hs = h, !.flags = fl]
      BY <1>2, <1>8 DEF IsParser, Fields
    <3>2. ("TRAILING" \in fl) <=> ("TRAILING" \in x.flags)
      BY <1>2
    <3> HIDE DEF m, fl
    <3> QED  BY <1>2, <3>1, <3>2 DEF IsParser, Fields
  <2> QED  BY <1>6, <2>1
<1>g. ASSUME NEW g, g = Give(v, p, at)
      PROVE  /\ SameMarks(x, g) /\ IsParser(g)
             /\ g.nread = x.nread /\ g.flags = x.flags
             /\ g.called = <<p>> /\ g.returned = x.returned
  <2>1. ~Within(p, x.state)
    BY WithinNone DEF UrlStates
  <2> QED  BY <1>2, <1>g, <2>1, EmptyPart, OneCall DEF Ready, SameMarks, Begun
<1>9. ASSUME NEW s \in {"s_header_almost_done", "s_header_field_start"},
             Moved(Give(v, p, at), y), y.state = s
      PROVE  Step(x, y, at)
  <2>1. \A f \in Parts : ~Within(f, x.state) /\ ~Within(f, y.state)
    BY <1>9, WithinNone DEF UrlStates
  <2>2. PartsStep(x, y, at)
    BY <1>9, <1>g, <2>1 DEF Moved, SameMarks, PartsStep, Ready, PartsOK
  <2>3. /\ IsParser(y) /\ y.nread = x.nread /\ y.flags = x.flags
        /\ y.called = <<p>> /\ y.returned = x.returned
        /\ y.state \in HeaderStates
    BY <1>9, <1>g DEF Moved, SameMarks, HeaderStates
  <2> QED  BY <1>0, <2>2, <2>3, HeaderStep DEF Ready, HeaderStates
<1>10. CASE y = [Enter(Give(v, p, at), "s_header_almost_done")
                    EXCEPT !.hs = "h_general"]
  <2>1. IsParser(Give(v, p, at))
    BY <1>g
  <2>2. Moved(Give(v, p, at), y) /\ y.state = "s_header_almost_done"
    BY <1>10, <2>1 DEF Enter, Moved, SameMarks, IsParser, Fields
  <2> QED  BY <1>9, <2>2
<1>11. CASE y = Enter(Give(v, p, at), "s_header_field_start")
  <2>1. IsParser(Give(v, p, at))
    BY <1>g
  <2> QED  BY <1>9, <1>11, <2>1, EnterMoves
<1> QED  BY <1>3, <1>4, <1>5, <1>7, <1>8, <1>10, <1>11

-----------------------------------------------------------------------------
(* The values of headers and the ends of their lines.                      *)
(* A header line's end changes the flags, and not the one of a trailer.    *)
LEMMA HeaderAlmostDoneMoves ==
    ASSUME NEW x, IsParser(x), NEW ch, NEW y, y = HeaderAlmostDone(x, ch)
    PROVE  \/ y = Failed(x)
           \/ /\ SameMarks(x, y)
              /\ y.nread = x.nread /\ y.called = x.called
              /\ y.returned = x.returned /\ y.type = x.type
              /\ ("TRAILING" \in y.flags) <=> ("TRAILING" \in x.flags)
              /\ y.state = "s_header_field_start"
<1> SUFFICES ASSUME ch = LF
             PROVE  /\ SameMarks(x, y)
                    /\ y.nread = x.nread /\ y.called = x.called
                    /\ y.returned = x.returned /\ y.type = x.type
                    /\ ("TRAILING" \in y.flags) <=> ("TRAILING" \in x.flags)
                    /\ y.state = "s_header_field_start"
  BY DEF HeaderAlmostDone
<1> DEFINE more == IF x.hs \in DOMAIN LineFlags THEN LineFlags[x.hs] ELSE {}
           z == Enter(x, "s_header_field_start")
<1>1. "TRAILING" \notin more
  BY DEF LineFlags
<1>2. y = [z EXCEPT !.flags = z.flags \cup more]
  BY DEF HeaderAlmostDone, Enter, IsParser, Fields
<1>3. Moved(x, z) /\ z.state = "s_header_field_start" /\ z.type = x.type
  BY EnterMoves
<1> HIDE DEF more, z
<1> QED  BY <1>1, <1>2, <1>3 DEF Moved, SameMarks, IsParser, Fields

(* The handler of a line end makes a step.                                 *)
LEMMA HeaderAlmostDoneStep ==
    ASSUME NEW x, Ready(x), x.state = "s_header_almost_done", NEW ch,
           NEW at, NEW y, y = HeaderAlmostDone(x, ch)
    PROVE  Step(x, y, at)
<1>1. CASE y = Failed(x)
  BY <1>1, FailedStep DEF Ready
<1>2. CASE y # Failed(x)
  <2>1. /\ SameMarks(x, y) /\ IsParser(y)
        /\ y.nread = x.nread /\ y.called = x.called
        /\ y.returned = x.returned
        /\ ("TRAILING" \in y.flags) <=> ("TRAILING" \in x.flags)
        /\ y.state = "s_header_field_start"
    BY <1>2, HeaderAlmostDoneMoves DEF Ready, SameMarks
  <2>2. \A f \in Parts : ~Within(f, x.state) /\ ~Within(f, y.state)
    BY <2>1, WithinNone DEF UrlStates
  <2>3. PartsStep(x, y, at)
    BY <2>1, <2>2 DEF SameMarks, PartsStep, Ready, PartsOK
  <2> QED  BY <2>1, <2>3, HeaderStep DEF Ready, HeaderStates
<1> QED  BY <1>1, <1>2

(* The handler of a value's bytes makes a step.                            *)
LEMMA HeaderValueStep ==
    ASSUME NEW x, Ready(x), x.state = "s_header_value", NEW ch,
           NEW at \in Nat, NEW y, y = HeaderValue(x, ch, at)
    PROVE  Step(x, y, at)
<1>0. IsParser(x)
  BY DEF Ready
<1>1. \/ y = Enter(Give(x, "value", at), "s_header_almost_done")
      \/ y = HeaderAlmostDone(Give(x, "value", at), ch) /\ ch = LF
      \/ y = x \/ y = Failed(x) \/ y = WordOver(x, ch)
      \/ y = [x EXCEPT !.length = Wrapped(10 * @ + Value[ch])]
         /\ ch \in Digits
      \/ y = [x EXCEPT !.hs = "h_general"]
      \/ y = Match(x, ValueWords[x.hs], ch)
  BY DEF HeaderValue
<1>2. CASE y = Enter(Give(x, "value", at), "s_header_almost_done")
  BY <1>2, GiveAndEnterStep DEF HeaderStates
<1>3. CASE y = HeaderAlmostDone(Give(x, "value", at), ch) /\ ch = LF
  <2>0. PICK p \in Parts : p = "value"
    BY DEF Parts
  <2> DEFINE g == Give(x, p, at)
  <2>1. x.mark[p] # NoMark
    BY <2>0 DEF Ready, PartsOK, Within
  <2>2. /\ IsParser(g) /\ g.mark = [x.mark EXCEPT ![p] = NoMark]
        /\ g.given = [x.given EXCEPT ![p] = @ + at - x.mark[p]]
        /\ g.nread = x.nread /\ g.flags = x.flags
        /\ g.called = <<p>> /\ g.returned = x.returned
    <3>1. /\ IsParser(g) /\ g.nread = x.nread /\ g.flags = x.flags
          /\ g.returned = x.returned /\ g.called = Append(x.called, p)
          /\ g.mark = [x.mark EXCEPT ![p] = NoMark]
          /\ g.given = [x.given EXCEPT ![p] = @ + at - x.mark[p]]
      BY <1>0, <2>1, GivePart
    <3> QED  BY <3>1, OneCall DEF Ready
  <2>3. y = HeaderAlmostDone(g, LF)
    BY <1>3, <2>0
  <2> HIDE DEF g
  <2>4. y # Failed(g)
    <3>1. y.state = "s_header_field_start"
      BY <2>2, <2>3 DEF HeaderAlmostDone, Enter, IsParser, Fields
    <3> QED  BY <3>1, FailedMoves
  <2>5. /\ SameMarks(g, y) /\ IsParser(y)
        /\ y.nread = g.nread /\ y.called = g.called
        /\ y.returned = g.returned
        /\ ("TRAILING" \in y.flags) <=> ("TRAILING" \in g.flags)
        /\ y.state = "s_header_field_start"
    BY <2>2, <2>3, <2>4, HeaderAlmostDoneMoves DEF SameMarks
  <2>6. PartsStep(x, y, at)
    BY <2>0, <2>2, <2>5, PartEnds DEF SameMarks, HeaderStates
  <2> QED  BY <2>0, <2>2, <2>5, <2>6, HeaderStep DEF Ready, HeaderStates
<1>4. CASE y = x \/ y = [x EXCEPT !.hs = "h_general"] \/ y = WordOver(x, ch)
           \/ y = Match(x, ValueWords[x.hs], ch)
  <2>1. Unmoved(x, x) /\ Unmoved(x, [x EXCEPT !.hs = "h_general"])
    BY <1>0 DEF Unmoved, Moved, SameMarks, IsParser, Fields
  <2> QED  BY <1>0, <1>4, <2>1, WordOverMoves, MatchMoves, UnmovedStep
<1>5. CASE y = Failed(x)
  BY <1>5, FailedStep DEF Ready
<1>6. CASE y = [x EXCEPT !.length = Wrapped(10 * @ + Value[ch])]
           /\ ch \in Digits
  <2> DEFINE n == 10 * x.length + Value[ch]
             l == Wrapped(n)
  <2>1. l \in Int /\ y = [x EXCEPT !.length = l]
    <3>1. n \in Int
      BY <1>0, <1>6, ValuesAreNumbers DEF IsParser
    <3> QED  BY <1>6, <3>1, WrappedIsNumber
  <2> HIDE DEF l
  <2>2. /\ IsParser(y) /\ y.mark = x.mark /\ y.given = x.given
        /\ y.nread = x.nread /\ y.flags = x.flags
        /\ y.called = x.called /\ y.returned = x.returned
        /\ y.state = x.state
    BY <1>0, <2>1 DEF IsParser, Fields
  <2>3. PartsStep(x, y, at)
    BY <2>2 DEF PartsStep, Ready, PartsOK
  <2> QED  BY <2>2, <2>3, HeaderStep DEF Ready, HeaderStates
<1> QED  BY <1>1, <1>2, <1>3, <1>4, <1>5, <1>6

-----------------------------------------------------------------------------
(* The ends of messages and of headers.                                    *)
(* The end of a message is one callback.                                   *)
LEMMA NewMessageMoves ==
    ASSUME NEW x, IsParser(x), NEW y, y = NewMessage(x)
    PROVE  /\ SameMarks(x, y) /\ IsParser(y)
           /\ y.state \in {"s_start_req", "s_start_res", "s_dead"}
           /\ ~http_should_keep_alive(x) => y.state = "s_dead"
           /\ http_should_keep_alive(x) =>
                 y.state = IF x.type = "request" THEN "s_start_req"
                                                 ELSE "s_start_res"
           /\ y.called = Append(x.called, "messageComplete")
           /\ y.returned = x.returned /\ y.type = x.type
           /\ y.flags = x.flags /\ y.modern = x.modern
<1> DEFINE z == Call(x, "messageComplete")
           s == IF ~http_should_keep_alive(x) THEN "s_dead"
                ELSE IF x.type = "request" THEN "s_start_req"
                                           ELSE "s_start_res"
<1>1. y = Enter(z, s)
  BY DEF NewMessage
<1>2. /\ IsParser(z) /\ SameMarks(x, z) /\ z.returned = x.returned
      /\ z.called = Append(x.called, "messageComplete")
      /\ z.type = x.type /\ z.flags = x.flags /\ z.modern = x.modern
  BY CallMoves DEF SameMarks
<1>3. /\ s \in {"s_start_req", "s_start_res", "s_dead"}
      /\ ~http_should_keep_alive(x) => s = "s_dead"
      /\ http_should_keep_alive(x) =>
            s = IF x.type = "request" THEN "s_start_req" ELSE "s_start_res"
  OBVIOUS
<1> HIDE DEF z, s
<1>4. /\ Moved(z, y) /\ y.state = s
      /\ y.type = z.type /\ y.modern = z.modern
  BY <1>1, <1>2, EnterMoves
<1> QED  BY <1>2, <1>3, <1>4 DEF Moved, SameMarks

(* Between messages nothing is read of a part, and no length matters.      *)
LEMMA NoPartsStep ==
    ASSUME NEW x, Ready(x), NEW y, IsParser(y), SameMarks(x, y), NEW at,
           x.state \notin UrlStates \cup {"s_header_field", "s_header_value"},
           y.state \notin UrlStates \cup {"s_header_field", "s_header_value"}
    PROVE  PartsStep(x, y, at)
<1>1. \A f \in Parts : ~Within(f, x.state) /\ ~Within(f, y.state)
  BY WithinNone
<1> QED  BY <1>1 DEF SameMarks, PartsStep, Ready, PartsOK

(* A handler may move between states in which no part is being read.       *)
LEMMA QuietStep ==
    ASSUME NEW x, Ready(x), NEW y, SameMarks(x, y), NEW at,
           x.state \notin UrlStates \cup {"s_header_field", "s_header_value"},
           y.state \in StartStates \cup ChunkStates \cup BodyStates
                           \cup {"s_dead"},
           LengthOK(y),
           Told(Phase(x), Phase(y), y.called)
    PROVE  Step(x, y, at)
<1>1. /\ y.state \notin UrlStates \cup {"s_header_field", "s_header_value"}
      /\ y.state \notin LineStates \cup UrlStates
      /\ y.state \in States
  BY DEF StartStates, ChunkStates, BodyStates, UrlStates, LineStates, States
<1>2. PartsStep(x, y, at)
  BY <1>1, NoPartsStep DEF SameMarks
<1>3. LineOK(y)
  BY <1>1 DEF LineOK
<1>4. ~y.returned => Phase(y) \notin {"line", "headers"}
  BY Phases DEF BodyPhase
<1> QED  BY <1>1, <1>2, <1>3, <1>4 DEF Step, SameMarks

(* The handler of the empty line makes a step: the message is over, or     *)
(* its body is entered with something of it left, or the connection is     *)
(* that of another protocol.                                               *)
LEMMA HeadersAlmostDoneStep ==
    ASSUME NEW x, Ready(x), NEW ch, NEW at,
           x.state \in {"s_header_field_start", "s_headers_almost_done"},
           NEW y, y = HeadersAlmostDone(x, ch)
    PROVE  Step(x, y, at)
<1> DEFINE upgrade == "UPGRADE" \in x.flags \/ x.method = "CONNECT"
           v == x.upgrade \/ upgrade
           u == [x EXCEPT !.nread = 0, !.upgrade = v]
           c == IF http_should_keep_alive(x) THEN "complete" ELSE "closing"
           z == Call(u, c)
<1>0. IsParser(x) /\ ~x.returned /\ x.called = <<>>
  BY DEF Ready
<1>1. \/ y = Failed(x)
      \/ y = NewMessage(x) /\ "TRAILING" \in x.flags
      \/ /\ "TRAILING" \notin x.flags
         /\ \/ y = [Call(z, "messageComplete") EXCEPT !.returned = TRUE]
            \/ y = Enter(z, "s_chunk_size_start")
            \/ y = Enter(z, "s_body_identity") /\ z.length > 0
            \/ y = NewMessage(z)
            \/ y = Enter(z, "s_body_identity_eof")
  <2>1. z = Call([x EXCEPT !.nread = 0, !.upgrade = @ \/ upgrade], c)
    BY <1>0 DEF IsParser, Fields
  <2>2. y = CASE ch # LF                -> Failed(x)
          [] ch = LF /\ "TRAILING" \in x.flags -> NewMessage(x)
          [] OTHER ->
                 CASE z.upgrade -> [Call(z, "messageComplete")
                                       EXCEPT !.returned = TRUE]
                   [] ~z.upgrade /\ "CHUNKED" \in z.flags ->
                          Enter(z, "s_chunk_size_start")
                   [] ~z.upgrade /\ "CHUNKED" \notin z.flags ->
                          CASE z.length > 0 -> Enter(z, "s_body_identity")
                            [] \/ z.length = 0
                               \/ z.type = "request"
                               \/ http_should_keep_alive(z) -> NewMessage(z)
                            [] OTHER -> Enter(z, "s_body_identity_eof")
    BY <2>1 DEF HeadersAlmostDone
  <2> HIDE DEF z
  <2>3. z.length \in Int
    <3> HIDE DEF c, v
    <3>1. u.length = x.length
      BY <1>0 DEF IsParser, Fields
    <3>2. IsParser(u)
      BY <1>0 DEF IsParser, Fields
    <3> HIDE DEF u
    <3> QED  BY <1>0, <3>1, <3>2, CallMoves DEF z, IsParser
  <2>4. /\ ~z.upgrade \/ z.upgrade
        /\ "CHUNKED" \in z.flags \/ "CHUNKED" \notin z.flags
    OBVIOUS
  <2> QED  BY <2>2, <2>3, <2>4
<1>2. /\ IsParser(z) /\ SameMarks(x, z) /\ z.called = <<c>> /\ ~z.returned
      /\ http_should_keep_alive(z) <=> http_should_keep_alive(x)
      /\ z.length = x.length /\ z.state = x.state
  <2> HIDE DEF c, v
  <2>1. /\ IsParser(u) /\ SameMarks(x, u) /\ u.returned = x.returned
        /\ u.called = <<>> /\ u.length = x.length
        /\ u.flags = x.flags /\ u.modern = x.modern /\ u.state = x.state
    BY <1>0 DEF IsParser, SameMarks, Fields
  <2> HIDE DEF u
  <2>2. z.flags = u.flags /\ z.modern = u.modern
    BY <2>1 DEF Call, IsParser, Fields
  <2>3. /\ SameMarks(u, z) /\ z.returned = u.returned
        /\ z.called = Append(u.called, c) /\ z.length = u.length
        /\ z.state = u.state
    BY <2>1, CallMoves
  <2> QED  BY <1>0, <2>1, <2>2, <2>3, OneCall
           DEF SameMarks, http_should_keep_alive
<1>3. /\ c \in {"complete", "closing"}
      /\ ~http_should_keep_alive(x) <=> c = "closing"
  OBVIOUS
<1> HIDE DEF z, c
<1>4. CASE y = Failed(x)
  BY <1>0, <1>4, FailedStep
<1>5. x.state \notin UrlStates \cup {"s_header_field", "s_header_value"}
      /\ x.state \in HeaderStates
  BY DEF UrlStates, HeaderStates
<1>6. CASE y = NewMessage(x) /\ "TRAILING" \in x.flags
  <2>1. /\ SameMarks(x, y) /\ IsParser(y) /\ y.called = <<"messageComplete">>
        /\ y.state \in {"s_start_req", "s_start_res", "s_dead"}
    BY <1>0, <1>6, NewMessageMoves, OneCall
  <2>2. Phase(x) = "trailer" /\ Phase(y) \in {"between", "dead"}
    BY <1>0, <1>5, <1>6, <2>1, Phases DEF StartStates
  <2>3. Told(Phase(x), Phase(y), y.called)
    BY <2>1, <2>2 DEF Told
  <2>4. LengthOK(y)
    BY <2>1 DEF LengthOK
  <2> QED  BY <1>5, <2>1, <2>3, <2>4, QuietStep DEF StartStates
<1>7. CASE "TRAILING" \notin x.flags /\ y = NewMessage(z)
  <2>1. /\ SameMarks(z, y) /\ IsParser(y)
        /\ y.called = <<c, "messageComplete">>
        /\ y.state \in {"s_start_req", "s_start_res", "s_dead"}
        /\ c = "closing" => y.state = "s_dead"
    <3>1. /\ SameMarks(z, y) /\ IsParser(y)
          /\ y.called = Append(z.called, "messageComplete")
          /\ y.state \in {"s_start_req", "s_start_res", "s_dead"}
          /\ ~http_should_keep_alive(z) => y.state = "s_dead"
      BY <1>2, <1>7, NewMessageMoves
    <3> QED  BY <1>2, <1>3, <3>1, TwoCalls
  <2>2. /\ Phase(x) = "headers" /\ Phase(y) \in {"between", "dead"}
        /\ c = "closing" => Phase(y) = "dead"
    BY <1>0, <1>5, <1>7, <2>1, Phases DEF StartStates
  <2>3. Told(Phase(x), Phase(y), y.called)
    BY <1>3, <2>1, <2>2 DEF Told
  <2>4. LengthOK(y)
    BY <2>1 DEF LengthOK
  <2> QED  BY <1>2, <1>5, <2>1, <2>3, <2>4, QuietStep
           DEF StartStates, SameMarks
<1>8. ASSUME "TRAILING" \notin x.flags,
             NEW s \in {"s_chunk_size_start", "s_body_identity",
                        "s_body_identity_eof"},
             y = Enter(z, s), s = "s_body_identity" => z.length > 0
      PROVE  Step(x, y, at)
  <2>1. Moved(z, y) /\ y.state = s
    BY <1>2, <1>8, EnterMoves
  <2>2. Phase(x) = "headers" /\ Phase(y) = BodyPhase(y)
    BY <1>0, <1>2, <1>5, <1>8, <2>1, Phases DEF Moved, ChunkStates, BodyStates
  <2>3. /\ http_should_keep_alive(y) <=> http_should_keep_alive(x)
        /\ y.called = <<c>>
    BY <1>2, <1>8, <2>1, EnterMoves DEF Moved, http_should_keep_alive
  <2>4. Told(Phase(x), Phase(y), y.called)
    BY <1>3, <2>2, <2>3 DEF Told, BodyPhase
  <2>5. LengthOK(y)
    BY <1>8, <2>1 DEF LengthOK, Moved
  <2> QED  BY <1>2, <1>5, <2>1, <2>4, <2>5, QuietStep
           DEF ChunkStates, BodyStates, SameMarks, Moved
<1>9. CASE /\ "TRAILING" \notin x.flags
           /\ y = [Call(z, "messageComplete") EXCEPT !.returned = TRUE]
  <2> DEFINE a == Call(z, "messageComplete")
  <2>1. IsParser(a) /\ a.called = <<c, "messageComplete">>
    BY <1>2, CallMoves, TwoCalls DEF SameMarks
  <2>a. a.state = x.state
    BY <1>2, CallMoves
  <2>2. y = [a EXCEPT !.returned = TRUE]
    BY <1>9
  <2> HIDE DEF a
  <2>3. /\ IsParser(y) /\ y.called = <<c, "messageComplete">>
        /\ y.returned = TRUE /\ y.state = a.state
    BY <2>1, <2>2 DEF IsParser, Fields
  <2>6. LengthOK(y)
    BY <1>2, <2>a, <2>3 DEF LengthOK
  <2>4. Phase(x) = "headers" /\ Phase(y) = "dead"
    BY <1>0, <1>5, <1>9, <2>3, Phases
  <2>5. Told(Phase(x), Phase(y), y.called)
    BY <1>3, <2>3, <2>4 DEF Told
  <2> QED  BY <2>3, <2>5, <2>6 DEF Step
<1> QED  BY <1>1, <1>4, <1>6, <1>7, <1>8, <1>9

-----------------------------------------------------------------------------
(* The beginnings of messages, and the sizes of chunks.                    *)
(* The handler of a message's first byte makes a step.                     *)
LEMMA StartStep ==
    ASSUME NEW x, Ready(x), x.state \in StartStates, NEW ch, NEW at,
           NEW y, y = Start(x, ch)
    PROVE  Step(x, y, at)
<1> DEFINE u == [x EXCEPT !.flags = {}, !.length = -1]
           z == Call(u, "messageBegin")
           begun == {"s_res_or_resp_H", "s_http", "s_req_method"}
<1>0. IsParser(x) /\ ~x.returned /\ x.called = <<>>
  BY DEF Ready
<1>1. \/ y = x \/ y = z \/ y = Failed(z)
      \/ y = Enter(z, "s_res_or_resp_H")
      \/ y = [Enter(z, "s_http") EXCEPT !.number = 1]
      \/ \E m : y = [Enter(z, "s_req_method") EXCEPT !.type = "request",
                                 !.index = 1, !.method = m]
  <2>1. \/ y = x \/ y = z \/ y = Failed(z)
        \/ y = Enter(z, "s_res_or_resp_H")
        \/ y = [Enter(z, "s_http") EXCEPT !.number = 1]
        \/ y = StartRequest(z, ch)
    <3> HIDE DEF z
    <3>1. y = CASE x.state # "s_start_res" /\ ch \in {CR, LF} -> x
          [] x.state = "s_start_res" /\ ch \in {CR, LF} -> z
          [] x.state = "s_start_req_or_res" /\ ch = "h" ->
                 Enter(z, "s_res_or_resp_H")
          [] x.state = "s_start_res" /\ ch = "h" ->
                 [Enter(z, "s_http") EXCEPT !.number = 1]
          [] x.state # "s_start_res" /\ ch \notin {"h", CR, LF} ->
                 StartRequest(z, ch)
          [] x.state = "s_start_req" /\ ch = "h" -> StartRequest(z, ch)
          [] OTHER -> Failed(z)
      BY DEF Start, z
    <3> QED  BY <3>1
  <2> HIDE DEF z
  <2> QED  BY <2>1 DEF StartRequest
<1>2. /\ IsParser(z) /\ SameMarks(x, z) /\ z.called = <<"messageBegin">>
      /\ z.flags = {} /\ ~z.returned /\ z.state = x.state
  <2>1. /\ IsParser(u) /\ SameMarks(x, u) /\ u.returned = x.returned
        /\ u.called = <<>> /\ u.flags = {} /\ u.state = x.state
    <3> DEFINE none == {} less == -1
    <3>1. u = [x EXCEPT !.flags = none, !.length = less] /\ less \in Int
      OBVIOUS
    <3> HIDE DEF z, u, none, less
    <3>2. /\ IsParser(u) /\ SameMarks(x, u) /\ u.returned = x.returned
          /\ u.called = <<>> /\ u.flags = none /\ u.state = x.state
      BY <1>0, <3>1 DEF IsParser, SameMarks, Fields
    <3> QED  BY <3>2 DEF none
  <2> HIDE DEF u
  <2> QED  BY <1>0, <2>1, CallMoves, OneCall DEF SameMarks
<1> HIDE DEF z
<1>3. Phase(x) = "between"
  BY <1>0, Phases
<1>4. /\ x.state \notin UrlStates \cup {"s_header_field", "s_header_value"}
      /\ x.state \notin LineStates
  BY DEF StartStates, LineStates, UrlStates
<1>5. CASE y = x
  BY <1>5, <1>0, UnmovedStep DEF Unmoved, Moved, SameMarks
<1>6. CASE y = z
  <2>1. Told(Phase(x), Phase(y), y.called)
    BY <1>2, <1>3, <1>6, Phases DEF Told
  <2>2. LengthOK(y)
    BY <1>2, <1>6 DEF LengthOK, StartStates
  <2> QED  BY <1>2, <1>4, <1>6, <2>1, <2>2, QuietStep
<1>7. CASE y = Failed(z)
  <2>1. /\ IsParser(y) /\ y.returned /\ y.called = <<"messageBegin">>
        /\ Phase(y) = "dead" /\ LengthOK(y)
    BY <1>2, <1>7, FailedMoves, Phases DEF LengthOK
  <2>2. Told(Phase(x), Phase(y), y.called)
    BY <1>3, <2>1 DEF Told
  <2> QED  BY <2>1, <2>2 DEF Step
<1>8. ASSUME IsParser(y), SameMarks(z, y), y.flags = z.flags,
             y.called = z.called, y.returned = z.returned,
             y.state \in begun
      PROVE  Step(x, y, at)
  <2>1. y.state \in LineStates /\ y.state \in States
    BY <1>8 DEF LineStates, States
  <2>2. y.state \notin UrlStates \cup {"s_header_field", "s_header_value"}
    BY <1>8 DEF UrlStates
  <2>3. Phase(y) = "line"
    BY <1>2, <1>8, <2>1, Phases
  <2>4. Told(Phase(x), Phase(y), y.called)
    BY <1>2, <1>3, <1>8, <2>3 DEF Told
  <2>5. SameMarks(x, y)
    BY <1>2, <1>8 DEF SameMarks
  <2>6. PartsStep(x, y, at)
    BY <1>4, <1>8, <2>2, <2>5, NoPartsStep
  <2>7. LengthOK(y) /\ LineOK(y)
    BY <1>2, <1>8 DEF LengthOK, LineOK
  <2> QED  BY <1>8, <2>1, <2>4, <2>6, <2>7 DEF Step
<1>9. CASE y = Enter(z, "s_res_or_resp_H")
  BY <1>2, <1>8, <1>9, EnterMoves DEF Moved, SameMarks
<1>10. CASE y = [Enter(z, "s_http") EXCEPT !.number = 1]
  <2>1. Moved(z, y) /\ y.state = "s_http"
    BY <1>2, <1>10 DEF Moved, SameMarks, IsParser, Fields, Enter
  <2> QED  BY <1>8, <2>1 DEF Moved, SameMarks
<1>11. CASE \E m : y = [Enter(z, "s_req_method") EXCEPT !.type = "request",
                                 !.index = 1, !.method = m]
  <2> PICK m : y = [Enter(z, "s_req_method") EXCEPT !.type = "request",
                                 !.index = 1, !.method = m]
    BY <1>11
  <2>1. Moved(z, y) /\ y.state = "s_req_method"
    BY <1>2 DEF Moved, SameMarks, IsParser, Fields, Enter
  <2> QED  BY <1>8, <2>1 DEF Moved, SameMarks
<1> QED  BY <1>1, <1>5, <1>6, <1>7, <1>9, <1>10, <1>11

(* The handler of the digits of a chunk's size makes a step.               *)
LEMMA ChunkSizeStep ==
    ASSUME NEW x, Ready(x), x.state \in {"s_chunk_size_start", "s_chunk_size"},
           NEW ch, NEW at, NEW y, y = ChunkSize(x, ch)
    PROVE  Step(x, y, at)
<1>0. IsParser(x) /\ ~x.returned /\ x.called = <<>>
  BY DEF Ready
<1>1. CASE y = Failed(x)
  BY <1>0, <1>1, FailedStep
<1>2. CASE y # Failed(x)
  <2>1. PICK l \in Int :
          \/ y = [Enter(x, "s_chunk_size") EXCEPT !.length = l]
          \/ y = [x EXCEPT !.length = l] /\ x.state = "s_chunk_size"
    <3>1. CASE x.state = "s_chunk_size_start"
      <4>1. /\ ch \in Hex
            /\ y = [Enter(x, "s_chunk_size") EXCEPT !.length = Value[ch]]
        BY <1>2, <3>1 DEF ChunkSize
      <4> QED  BY <4>1, ValuesAreNumbers
    <3>2. CASE x.state = "s_chunk_size"
      <4> DEFINE n == 16 * x.length + Value[ch]
      <4>1. ch \in Hex /\ y = [x EXCEPT !.length = Wrapped(n)]
        BY <1>2, <3>2 DEF ChunkSize
      <4>2. n \in Int
        <5>1. Value[ch] \in Int /\ x.length \in Int
          BY <1>0, <4>1, ValuesAreNumbers DEF IsParser
        <5> QED  BY <5>1
      <4> HIDE DEF n
      <4> QED  BY <3>2, <4>1, <4>2, WrappedIsNumber
    <3> QED  BY <3>1, <3>2
  <2>2. /\ SameMarks(x, y) /\ y.called = <<>> /\ ~y.returned
        /\ y.state = "s_chunk_size" /\ y.flags = x.flags
        /\ y.modern = x.modern
    BY <1>0, <2>1 DEF IsParser, SameMarks, Fields, Enter
  <2>3. Phase(x) = BodyPhase(x) /\ Phase(y) = BodyPhase(x)
    BY <1>0, <2>2, Phases DEF ChunkStates, BodyPhase, http_should_keep_alive
  <2>4. Told(Phase(x), Phase(y), y.called)
    BY <2>2, <2>3 DEF Told
  <2>5. LengthOK(y)
    BY <2>2 DEF LengthOK
  <2> QED  BY <2>2, <2>4, <2>5, QuietStep DEF ChunkStates, UrlStates
<1> QED  BY <1>1, <1>2

(* The handler of their line end makes a step: a chunk of size 0 is the last.*)
LEMMA ChunkSizeAlmostDoneStep ==
    ASSUME NEW x, Ready(x), x.state = "s_chunk_size_almost_done",
           NEW ch, NEW at, NEW y, y = ChunkSizeAlmostDone(x, ch)
    PROVE  Step(x, y, at)
<1>0. IsParser(x) /\ ~x.returned /\ x.called = <<>>
  BY DEF Ready
<1>1. \/ y = Failed(x)
      \/ y = Enter(x, "s_chunk_data") /\ x.length # 0
      \/ y = [Enter(x, "s_header_field_start") EXCEPT
                 !.flags = @ \cup {"TRAILING"}]
  BY <1>0 DEF ChunkSizeAlmostDone
<1>2. Phase(x) = BodyPhase(x)
  BY <1>0, Phases DEF ChunkStates
<1>3. x.state \notin UrlStates \cup {"s_header_field", "s_header_value"}
  BY DEF UrlStates
<1>4. CASE y = Failed(x)
  BY <1>0, <1>4, FailedStep
<1>5. CASE y = Enter(x, "s_chunk_data") /\ x.length # 0
  <2>1. Moved(x, y) /\ y.state = "s_chunk_data" /\ y.modern = x.modern
    BY <1>0, <1>5, EnterMoves
  <2>2. Phase(y) = BodyPhase(x)
    BY <1>0, <2>1, Phases
    DEF BodyStates, Moved, BodyPhase, http_should_keep_alive
  <2>3. Told(Phase(x), Phase(y), y.called)
    BY <1>0, <1>2, <2>1, <2>2 DEF Told, Moved
  <2>4. LengthOK(y)
    BY <1>5, <2>1 DEF LengthOK, Moved
  <2> QED  BY <1>3, <2>1, <2>3, <2>4, QuietStep DEF BodyStates, Moved
<1>6. CASE y = [Enter(x, "s_header_field_start") EXCEPT
                   !.flags = @ \cup {"TRAILING"}]
  <2> DEFINE z == Enter(x, "s_header_field_start")
             fl == z.flags \cup {"TRAILING"}
  <2>1. Moved(x, z) /\ z.state = "s_header_field_start" /\ IsParser(z)
    BY <1>0, EnterMoves DEF Moved, SameMarks
  <2>2. y = [z EXCEPT !.flags = fl]
    BY <1>6, <2>1 DEF IsParser, Fields
  <2>3. "TRAILING" \in fl
    OBVIOUS
  <2> HIDE DEF z, fl
  <2>4. /\ IsParser(y) /\ SameMarks(x, y) /\ y.called = <<>> /\ ~y.returned
        /\ y.state = "s_header_field_start" /\ "TRAILING" \in y.flags
    BY <1>0, <2>1, <2>2, <2>3 DEF IsParser, SameMarks, Moved, Fields
  <2>5. Phase(y) = "trailer"
    BY <2>4, Phases DEF HeaderStates
  <2>6. Told(Phase(x), Phase(y), y.called)
    BY <1>2, <2>4, <2>5 DEF Told, BodyPhase
  <2>7. PartsStep(x, y, at)
    BY <1>3, <2>4, NoPartsStep DEF UrlStates
  <2>8. LengthOK(y) /\ LineOK(y) /\ y.state \in States
    BY <2>4 DEF LengthOK, LineOK, LineStates, UrlStates, States, HeaderStates
  <2> QED  BY <2>4, <2>5, <2>6, <2>7, <2>8 DEF Step
<1> QED  BY <1>1, <1>4, <1>5, <1>6

-----------------------------------------------------------------------------
(* Bodies.                                                                 *)
(* Of m bytes the handler of a body takes at least one and no more than the*)
(* body has left, and leaves the body with the last of them.  A chunk of   *)
(* negative size is left at once.                                          *)
LEMMA BodyStep ==
    ASSUME NEW x, Ready(x), x.state \in BodyStates, NEW m \in Nat, m > 0,
           NEW n, n = ToRead(x, m), NEW y, y = Body(x, n), NEW at
    PROVE  /\ Step(x, y, at) /\ SameMarks(x, y)
           /\ n \in 1..m \/ (n \in Int /\ n < 0)
           /\ x.state = "s_body_identity_eof" => y.state = x.state
           /\ x.state # "s_body_identity_eof" =>
                 IF n < x.length
                 THEN y.state = x.state /\ y.length = x.length - n /\ n > 0
                 ELSE /\ n = x.length
                      /\ y.state \notin {"s_body_identity", "s_chunk_data"}
<1> DEFINE z == Given(x, n)
           c == IF n > 0 THEN <<"body">> ELSE <<>>
           ended == [z EXCEPT !.length = 0]
           left == x.length - n
<1>0. /\ IsParser(x) /\ ~x.returned /\ x.called = <<>> /\ x.length \in Int
      /\ x.state = "s_body_identity" => x.length > 0
      /\ x.state # "s_body_identity_eof" => x.length # 0
  BY DEF Ready, IsParser, LengthOK, BodyStates
<1>1. /\ n \in 1..m \/ (n \in Int /\ n < 0)
      /\ x.state # "s_chunk_data" => n > 0
      /\ x.state # "s_body_identity_eof" =>
            /\ n <= x.length
            /\ n < x.length => n > 0
  <2>1. CASE x.state = "s_body_identity_eof"
    BY <1>0, <2>1 DEF ToRead
  <2>2. CASE x.state = "s_body_identity"
    BY <1>0, <2>2 DEF ToRead
  <2>3. CASE x.state = "s_chunk_data"
    BY <1>0, <2>3 DEF ToRead
  <2> QED  BY <2>1, <2>2, <2>3 DEF BodyStates
<1>2. /\ IsParser(z) /\ SameMarks(x, z) /\ z.called = c
      /\ ~z.returned /\ z.state = x.state /\ z.length = x.length
      /\ z.flags = x.flags /\ z.modern = x.modern
  <2>1. CASE n > 0
    BY <1>0, <2>1, CallMoves, OneCall DEF SameMarks, Given
  <2>2. CASE ~(n > 0)
    BY <1>0, <2>2 DEF SameMarks, Given
  <2> QED  BY <2>1, <2>2
<1>3. IF x.state = "s_body_identity_eof" THEN y = z
      ELSE IF n < x.length THEN y = [z EXCEPT !.length = @ - n]
      ELSE IF x.state = "s_body_identity" THEN y = NewMessage(ended)
      ELSE y = Enter(ended, "s_chunk_data_almost_done")
  BY DEF Body
<1> HIDE DEF z
<1>4. /\ IsParser(ended) /\ SameMarks(x, ended) /\ ended.called = c
      /\ ~ended.returned /\ ended.flags = x.flags /\ ended.modern = x.modern
  <2> HIDE DEF c
  <2> QED  BY <1>2 DEF IsParser, SameMarks, Fields
<1>5. x.state \notin UrlStates \cup {"s_header_field", "s_header_value"}
  BY DEF BodyStates, UrlStates
<1>6. Phase(x) = BodyPhase(x)
  BY <1>0, Phases
<1>c. c \in {<<>>, <<"body">>} /\ (n > 0 => c = <<"body">>)
  OBVIOUS
<1> HIDE DEF ended, c
<1>7. ASSUME SameMarks(x, y), y.called = c, ~y.returned,
             y.flags = x.flags, y.modern = x.modern,
             y.state \in BodyStates \cup {"s_chunk_data_almost_done"},
             LengthOK(y)
      PROVE  Step(x, y, at)
  <2>1. Phase(y) = BodyPhase(x)
    BY <1>7, Phases DEF ChunkStates, BodyPhase, http_should_keep_alive
  <2>2. Told(Phase(x), Phase(y), y.called)
    BY <1>6, <1>7, <1>c, <2>1 DEF Told, BodyPhase
  <2> QED  BY <1>5, <1>7, <2>2, QuietStep DEF ChunkStates
<1>8. CASE x.state = "s_body_identity_eof"
  <2>1. y = z
    BY <1>3, <1>8
  <2>2. LengthOK(y)
    BY <1>2, <1>8, <2>1 DEF LengthOK
  <2> QED  BY <1>1, <1>2, <1>7, <1>8, <2>1, <2>2
<1>9. CASE x.state # "s_body_identity_eof" /\ n < x.length
  <2>1. y = [z EXCEPT !.length = left] /\ left \in Int /\ left > 0
    BY <1>0, <1>1, <1>2, <1>3, <1>9
  <2> HIDE DEF left
  <2>2. /\ SameMarks(x, y) /\ y.called = c /\ ~y.returned
        /\ y.state = x.state /\ y.length = left
        /\ y.flags = x.flags /\ y.modern = x.modern
    BY <1>2, <2>1 DEF IsParser, SameMarks, Fields
  <2>3. LengthOK(y)
    BY <1>9, <2>1, <2>2 DEF LengthOK, BodyStates
  <2> QED  BY <1>1, <1>7, <1>9, <2>2, <2>3 DEF left
<1>10. CASE x.state = "s_body_identity" /\ ~(n < x.length)
  <2>1. y = NewMessage(ended)
    BY <1>3, <1>10
  <2>2. /\ SameMarks(ended, y) /\ IsParser(y)
        /\ y.called = <<"body", "messageComplete">>
        /\ y.state \in {"s_start_req", "s_start_res", "s_dead"}
        /\ ~http_should_keep_alive(x) => y.state = "s_dead"
        /\ ~y.returned
    <3>1. /\ SameMarks(ended, y) /\ IsParser(y)
          /\ y.called = Append(ended.called, "messageComplete")
          /\ y.state \in {"s_start_req", "s_start_res", "s_dead"}
          /\ ~http_should_keep_alive(ended) => y.state = "s_dead"
          /\ y.returned = ended.returned
      BY <1>4, <2>1, NewMessageMoves
    <3>2. ended.called = <<"body">>
      BY <1>1, <1>4, <1>10, <1>c
    <3> QED  BY <1>4, <3>1, <3>2, TwoCalls DEF http_should_keep_alive
  <2>3. SameMarks(x, y)
    BY <1>4, <2>2 DEF SameMarks
  <2>4. /\ Phase(y) \in {"between", "dead"}
        /\ ~http_should_keep_alive(x) => Phase(y) = "dead"
    BY <2>2, Phases DEF StartStates
  <2>5. Told(Phase(x), Phase(y), y.called)
    BY <1>6, <2>2, <2>4 DEF Told, BodyPhase
  <2>6. LengthOK(y)
    BY <2>2 DEF LengthOK
  <2>7. Step(x, y, at)
    BY <1>5, <2>2, <2>3, <2>5, <2>6, QuietStep DEF StartStates
  <2> QED  BY <1>0, <1>1, <1>10, <2>2, <2>3, <2>7
<1>11. CASE x.state = "s_chunk_data" /\ ~(n < x.length)
  <2>1. y = Enter(ended, "s_chunk_data_almost_done")
    BY <1>3, <1>11
  <2>2. /\ Moved(ended, y) /\ y.state = "s_chunk_data_almost_done"
        /\ y.modern = ended.modern
    BY <1>4, <2>1, EnterMoves
  <2>3. /\ SameMarks(x, y) /\ y.called = c /\ ~y.returned
        /\ y.flags = x.flags /\ y.modern = x.modern
    BY <1>4, <2>2 DEF SameMarks, Moved
  <2>4. LengthOK(y)
    BY <2>2 DEF LengthOK
  <2> QED  BY <1>0, <1>1, <1>7, <1>11, <2>2, <2>3, <2>4
<1> QED  BY <1>8, <1>9, <1>10, <1>11 DEF BodyStates

-----------------------------------------------------------------------------
(* GiveAll: the callbacks for several parts, one after the other.          *)
(* A set of natural numbers has a least member.                            *)
LEMMA LeastOf ==
    ASSUME NEW S, S \subseteq Nat, S # {}
    PROVE  \E m \in S : \A k \in S : m <= k
<1> DEFINE R == OpToRel(<, Nat)
<1>1. IsWellFoundedOn(R, Nat)
  BY NatLessThanWellFounded
<1>2. \E m \in S : \A k \in S : ~ (<<k, m>> \in R)
  <2> HIDE DEF R
  <2> QED  BY <1>1, WFMin
<1>3. PICK m \in S : \A k \in S : ~ (k < m)
  BY <1>2 DEF OpToRel
<1>4. \A k \in S : m <= k
  BY <1>3
<1> QED  BY <1>4

(* s is the sequence of parsers that the callbacks of some parts make.     *)
LEMMA GiveAllIs ==
    ASSUME NEW x, NEW parts, NEW at, Len(parts) \in Nat, NEW s,
           \A n \in 0..Len(parts) :
               s[n] = IF n = 0 THEN x ELSE Give(s[n - 1], parts[n], at)
    PROVE  GiveAll(x, parts, at) = s[Len(parts)]
<1> DEFINE L == Len(parts)
           F(g) == g = [n \in 0..L |->
                          IF n = 0 THEN x ELSE Give(g[n - 1], parts[n], at)]
           given == CHOOSE g : F(g)
           t == [n \in 0..L |-> s[n]]
<1>1. F(t)
  <2>1. ASSUME NEW n \in 0..L
        PROVE  t[n] = IF n = 0 THEN x ELSE Give(t[n - 1], parts[n], at)
    <3>1. CASE n = 0
      BY <3>1
    <3>2. CASE n # 0
      <4>1. n - 1 \in 0..L
        BY <3>2
      <4>2. t[n] = s[n] /\ t[n - 1] = s[n - 1]
        BY <4>1
      <4> HIDE DEF t
      <4> QED  BY <3>2, <4>2
    <3> QED  BY <3>1, <3>2
  <2>2. t = [n \in 0..L |-> t[n]]
    OBVIOUS
  <2> HIDE DEF t
  <2> QED  BY <2>1, <2>2
<1>2. F(given)
  <2> HIDE DEF F
  <2> QED  BY <1>1
<1>3. GiveAll(x, parts, at) = given[L]
  BY DEF GiveAll
<1> HIDE DEF given
<1>4. ASSUME NEW n \in 0..L
      PROVE  given[n] = IF n = 0 THEN x ELSE Give(given[n - 1], parts[n], at)
  <2>1. given = [m \in 0..L |->
                  IF m = 0 THEN x ELSE Give(given[m - 1], parts[m], at)]
    BY <1>2
  <2> HIDE DEF F, L
  <2> QED  BY <2>1
<1> DEFINE D == {n \in 0..L : given[n] # s[n]}
<1>5. D = {}
  <2>1. SUFFICES ASSUME D # {} PROVE FALSE
    OBVIOUS
  <2>2. PICK m \in D : \A k \in D : m <= k
    <3> D \subseteq Nat
      OBVIOUS
    <3> HIDE DEF D
    <3> QED  BY <2>1, LeastOf
  <2>3. CASE m = 0
    BY <1>4, <2>3
  <2>4. CASE m # 0
    <3>1. m \in 0..L /\ m - 1 \in 0..L /\ m - 1 \notin D
      BY <2>2, <2>4
    <3>2. given[m - 1] = s[m - 1]
      BY <3>1
    <3>3. given[m] = Give(given[m - 1], parts[m], at)
      BY <1>4, <2>4, <3>1
    <3>4. s[m] = Give(s[m - 1], parts[m], at)
      BY <2>4, <3>1
    <3> QED  BY <3>2, <3>3, <3>4
  <2> QED  BY <2>3, <2>4
<1> QED  BY <1>3, <1>5

(* The callbacks for no part.                                              *)
LEMMA GiveNone ==
    ASSUME NEW x, NEW at PROVE GiveAll(x, <<>>, at) = x
<1> DEFINE s == [n \in 0..0 |-> x]
<1>1. /\ Len(<<>>) = 0
      /\ \A n \in 0..0 : s[n] = IF n = 0 THEN x
                                ELSE Give(s[n - 1], <<>>[n], at)
  OBVIOUS
<1>2. s[0] = x
  OBVIOUS
<1> HIDE DEF s
<1> QED  BY <1>1, <1>2, GiveAllIs

(* The callback for one part.                                              *)
LEMMA GiveOne ==
    ASSUME NEW x, NEW f, NEW at
    PROVE  GiveAll(x, <<f>>, at) = Give(x, f, at)
<1> DEFINE a == Give(x, f, at)
           s == [n \in 0..1 |-> IF n = 0 THEN x ELSE a]
           p == <<f>>
<1>1. Len(p) = 1 /\ p[1] = f /\ s[0] = x /\ s[1] = a
  OBVIOUS
<1> HIDE DEF s, p
<1>2. \A n \in 0..1 : s[n] = IF n = 0 THEN x ELSE Give(s[n - 1], p[n], at)
  <2>1. s[1] = Give(s[1 - 1], p[1], at)
    BY <1>1
  <2> QED  BY <1>1, <2>1
<1>3. Len(p) \in Nat /\ \A n \in 0..Len(p) :
            s[n] = IF n = 0 THEN x ELSE Give(s[n - 1], p[n], at)
  BY <1>1, <1>2
<1>4. GiveAll(x, p, at) = s[Len(p)]
  BY <1>3, GiveAllIs
<1> QED  BY <1>1, <1>4 DEF p

(* The callbacks for two parts.                                            *)
LEMMA GiveTwo ==
    ASSUME NEW x, NEW f, NEW g, NEW at
    PROVE  GiveAll(x, <<f, g>>, at) = Give(Give(x, f, at), g, at)
<1> DEFINE a == Give(x, f, at)
           b == Give(a, g, at)
           s == [n \in 0..2 |-> IF n = 0 THEN x ELSE IF n = 1 THEN a ELSE b]
           p == <<f, g>>
<1>1. Len(p) = 2 /\ p[1] = f /\ p[2] = g /\ s[0] = x /\ s[1] = a /\ s[2] = b
  OBVIOUS
<1> HIDE DEF s, p
<1>2. \A n \in 0..2 : s[n] = IF n = 0 THEN x ELSE Give(s[n - 1], p[n], at)
  <2>1. s[1] = Give(s[1 - 1], p[1], at)
    BY <1>1
  <2>2. s[2] = Give(s[2 - 1], p[2], at)
    BY <1>1
  <2> QED  BY <1>1, <2>1, <2>2
<1>3. Len(p) \in Nat /\ \A n \in 0..Len(p) :
            s[n] = IF n = 0 THEN x ELSE Give(s[n - 1], p[n], at)
  BY <1>1, <1>2
<1>4. GiveAll(x, p, at) = s[Len(p)]
  BY <1>3, GiveAllIs
<1> QED  BY <1>1, <1>4 DEF p

-----------------------------------------------------------------------------
(* The rules: what each of them marks and calls back for fits its states.  *)
(* The parts that are being read in a state.                               *)
Open(s) == {f \in Parts : Within(f, s)}

(* Which parts those are.                                                  *)
LEMMA OpenParts ==
    /\ \A s \in UrlStates \ {"s_req_path", "s_req_query_string",
                             "s_req_fragment"} : Open(s) = {"url"}
    /\ Open("s_req_path") = {"url", "path"}
    /\ Open("s_req_query_string") = {"url", "queryString"}
    /\ Open("s_req_fragment") = {"url", "fragment"}
    /\ \A s : s \notin UrlStates \cup {"s_header_field", "s_header_value"}
                => Open(s) = {}
<1>1. \A s \in UrlStates \ {"s_req_path", "s_req_query_string",
                             "s_req_fragment"} : Open(s) = {"url"}
  BY DEF Open, Within, UrlStates, Parts
<1>2. /\ Open("s_req_path") = {"url", "path"}
      /\ Open("s_req_query_string") = {"url", "queryString"}
      /\ Open("s_req_fragment") = {"url", "fragment"}
  BY DEF Open, Within, UrlStates, Parts
<1>3. \A s : s \notin UrlStates \cup {"s_header_field", "s_header_value"}
                => Open(s) = {}
  BY DEF Open, Within, Parts, UrlStates
<1> QED  BY <1>1, <1>2, <1>3

(* The parts of a URL.                                                     *)
UrlParts == {"url", "path", "queryString", "fragment"}

(* What a rule marks and calls back for is what its states tell apart.     *)
Calls(from, calls, to) ==
    \/ calls = <<>> /\ Open(from) \subseteq Open(to)
    \/ \E f \in UrlParts : calls = <<f>> /\ Open(from) \ Open(to) = {f}
    \/ \E f \in UrlParts : \E g \in UrlParts \ {f} :
          calls = <<f, g>> /\ Open(from) \ Open(to) = {f, g}

Fits(from, marks, calls, to) ==
    /\ marks = Open(to) \ Open(from)
    /\ Calls(from, calls, to)
    /\ \/ /\ from \in LineStates \cup UrlStates
          /\ to \in LineStates \cup UrlStates \cup {"s_header_field_start"}
       \/ /\ from \in ChunkStates /\ to \in ChunkStates
          /\ to \in {"s_chunk_size", "s_chunk_parameters",
                     "s_chunk_size_almost_done"} =>
                from \in {"s_chunk_size", "s_chunk_parameters"}

RuleFits(r) == Fits(r.from, r.marks, r.calls, r.to)

(* The fields of a rule.                                                   *)
LEMMA RuleFields ==
    ASSUME NEW from, NEW on, NEW marks, NEW calls, NEW to,
           Fits(from, marks, calls, to)
    PROVE  RuleFits(Rule(from, on, marks, calls, to))
BY DEF RuleFits, Rule

(* A rule that marks nothing and calls nothing fits if no part ends.       *)
LEMMA MoveFits ==
    ASSUME NEW from, NEW on, NEW to, Fits(from, {}, <<>>, to)
    PROVE  RuleFits(Move(from, on, to))
BY RuleFields DEF Move

(* A move inside a part, or outside all of them.                           *)
LEMMA SameOpen ==
    ASSUME NEW from \in LineStates \cup UrlStates,
           NEW to \in LineStates \cup UrlStates \cup {"s_header_field_start"},
           Open(from) = Open(to)
    PROVE  Fits(from, {}, <<>>, to)
BY DEF Fits, Calls

PlainUrl == UrlStates \ {"s_req_path", "s_req_query_string", "s_req_fragment"}
Outside == LineStates \cup {"s_header_field_start"}

(* No part is being read outside of URLs.                                  *)
LEMMA OutsideOpen ==
    /\ \A s \in Outside : Open(s) = {}
    /\ \A s \in PlainUrl : Open(s) = {"url"}
BY OpenParts DEF Outside, PlainUrl, LineStates, UrlStates

(* The rules of chunks fit.                                                *)
LEMMA ChunkRulesFit == \A r \in ChunkRules : RuleFits(r)
<1>1. ASSUME NEW from \in ChunkStates, NEW to \in ChunkStates, NEW on,
             to \in {"s_chunk_size", "s_chunk_parameters",
                     "s_chunk_size_almost_done"} =>
                from \in {"s_chunk_size", "s_chunk_parameters"}
      PROVE  RuleFits(Move(from, on, to))
  <2>1. Open(from) = {} /\ Open(to) = {}
    BY OpenParts DEF ChunkStates, UrlStates
  <2> QED  BY <1>1, <2>1, MoveFits DEF Fits, Calls
<1> QED  BY <1>1 DEF ChunkRules, ChunkStates

(* The rules of the first line fit.                                        *)
LEMMA LineRulesFit == \A r \in LineRules : RuleFits(r)
<1>1. ASSUME NEW from \in LineStates, NEW to \in Outside, NEW on
      PROVE  RuleFits(Move(from, on, to))
  <2>1. Open(from) = {} /\ Open(to) = {}
    BY OutsideOpen DEF Outside
  <2> QED  BY <1>1, <2>1, MoveFits DEF Fits, Calls, Outside
<1> QED  BY <1>1 DEF LineRules, LineStates, Outside

(* The end of a URL.                                                       *)
LEMMA EndsFit ==
    ASSUME NEW from \in UrlStates, NEW calls, Calls(from, calls, "none")
    PROVE  \A r \in Ends(from, calls) : RuleFits(r)
<1>1. Open("none") = {}
  BY OpenParts DEF UrlStates
<1>2. ASSUME NEW to \in Outside, NEW on
      PROVE  RuleFits(Rule(from, on, {}, calls, to))
  <2>1. Open(to) = {}
    BY OutsideOpen
  <2>2. Fits(from, {}, calls, to)
    BY <1>1, <2>1 DEF Fits, Calls, Outside
  <2> QED  BY <2>2, RuleFields
<1> QED  BY <1>2 DEF Ends, Outside, LineStates

(* A rule between two states of the same parts fits.                       *)
LEMMA PlainMoves ==
    ASSUME NEW from \in PlainUrl, NEW to \in PlainUrl, NEW on
    PROVE  RuleFits(Move(from, on, to))
<1>1. Open(from) = {"url"} /\ Open(to) = {"url"}
  BY OutsideOpen
<1> QED  BY <1>1, MoveFits, SameOpen DEF PlainUrl

(* A rule that stays in its state fits.                                    *)
LEMMA StillMoves ==
    ASSUME NEW s \in LineStates \cup UrlStates, NEW on
    PROVE  RuleFits(Move(s, on, s))
BY MoveFits, SameOpen

(* The rules of a URL's schema fit.                                        *)
LEMMA SchemaRulesFit == \A r \in SchemaRules : RuleFits(r)
<1> DEFINE from == "s_req_spaces_before_url"
<1>1. Open(from) = {}
  BY OutsideOpen DEF Outside, LineStates
<1>2. \A on : RuleFits(Rule(from, on, {"url", "path"}, <<>>, "s_req_path"))
  <2>1. Fits(from, {"url", "path"}, <<>>, "s_req_path")
    BY <1>1, OpenParts DEF Fits, Calls, LineStates, UrlStates
  <2> QED  BY <2>1, RuleFields
<1>3. \A on : RuleFits(Rule(from, on, {"url"}, <<>>, "s_req_schema"))
  <2>1. Open("s_req_schema") = {"url"}
    BY OutsideOpen DEF PlainUrl, UrlStates
  <2>2. Fits(from, {"url"}, <<>>, "s_req_schema")
    BY <1>1, <2>1 DEF Fits, Calls, LineStates, UrlStates
  <2> QED  BY <2>2, RuleFields
<1>4. \A on : RuleFits(Move(from, on, from))
  BY StillMoves DEF LineStates
<1> QED  BY <1>2, <1>3, <1>4, PlainMoves DEF SchemaRules, PlainUrl, UrlStates

(* The rules of its host and port fit.                                     *)
LEMMA HostRulesFit == \A r \in HostRules : RuleFits(r)
<1>1. ASSUME NEW s \in {"s_req_host", "s_req_port"}, NEW on
      PROVE  /\ RuleFits(Rule(s, on, {"path"}, <<>>, "s_req_path"))
             /\ RuleFits(Rule(s, on, {}, <<"url">>, "s_req_http_start"))
  <2>1. Open(s) = {"url"} /\ Open("s_req_http_start") = {}
    BY OutsideOpen DEF PlainUrl, UrlStates, Outside, LineStates
  <2>2. Fits(s, {"path"}, <<>>, "s_req_path")
    BY <2>1, OpenParts DEF Fits, Calls, UrlStates
  <2>3. Fits(s, {}, <<"url">>, "s_req_http_start")
    BY <2>1 DEF Fits, Calls, UrlStates, LineStates, UrlParts
  <2> QED  BY <2>2, <2>3, RuleFields
<1> QED  BY <1>1, PlainMoves DEF HostRules, PlainUrl, UrlStates

(* The rules of its path fit.                                              *)
LEMMA PathRulesFit == \A r \in PathRules : RuleFits(r)
<1> DEFINE from == "s_req_path"
<1>1. Open(from) = {"url", "path"}
  BY OpenParts
<1>2. \A on : RuleFits(Move(from, on, from))
  BY StillMoves DEF UrlStates
<1>3. ASSUME NEW to \in {"s_req_query_string_start", "s_req_fragment_start"},
             NEW on
      PROVE  RuleFits(Rule(from, on, {}, <<"path">>, to))
  <2>1. Open(to) = {"url"}
    BY OutsideOpen DEF PlainUrl, UrlStates
  <2>2. Fits(from, {}, <<"path">>, to)
    BY <1>1, <2>1 DEF Fits, Calls, UrlStates, UrlParts
  <2> QED  BY <2>2, RuleFields
<1>4. \A r \in Ends(from, <<"url", "path">>) : RuleFits(r)
  <2>1. Open("none") = {}
    BY OpenParts DEF UrlStates
  <2>2. Calls(from, <<"url", "path">>, "none")
    BY <1>1, <2>1 DEF Calls, UrlParts
  <2> QED  BY <2>2, EndsFit DEF UrlStates
<1> QED  BY <1>2, <1>3, <1>4 DEF PathRules

(* The rules of its query fit.                                             *)
LEMMA QueryRulesFit == \A r \in QueryRules : RuleFits(r)
<1> DEFINE start == "s_req_query_string_start"
           from == "s_req_query_string"
           hash == "s_req_fragment_start"
<1>1. /\ Open(from) = {"url", "queryString"}
      /\ Open(start) = {"url"} /\ Open(hash) = {"url"}
      /\ Open("none") = {}
  BY OpenParts, OutsideOpen DEF PlainUrl, UrlStates
<1>2. \A on : RuleFits(Rule(start, on, {"queryString"}, <<>>, from))
  <2>1. Fits(start, {"queryString"}, <<>>, from)
    BY <1>1 DEF Fits, Calls, UrlStates
  <2> QED  BY <2>1, RuleFields
<1>3. /\ \A on : RuleFits(Move(start, on, start))
      /\ \A on : RuleFits(Move(start, on, hash))
      /\ \A on : RuleFits(Move(from, on, from))
  BY PlainMoves, StillMoves DEF PlainUrl, UrlStates
<1>4. \A on : RuleFits(Rule(from, on, {}, <<"queryString">>, hash))
  <2>1. Fits(from, {}, <<"queryString">>, hash)
    BY <1>1 DEF Fits, Calls, UrlStates, UrlParts
  <2> QED  BY <2>1, RuleFields
<1>5. \A r \in Ends(start, <<"url">>) : RuleFits(r)
  <2>1. Calls(start, <<"url">>, "none")
    BY <1>1 DEF Calls, UrlParts
  <2> QED  BY <2>1, EndsFit DEF UrlStates
<1>6. \A r \in Ends(from, <<"url", "queryString">>) : RuleFits(r)
  <2>1. Calls(from, <<"url", "queryString">>, "none")
    BY <1>1 DEF Calls, UrlParts
  <2> QED  BY <2>1, EndsFit DEF UrlStates
<1> QED  BY <1>2, <1>3, <1>4, <1>5, <1>6 DEF QueryRules

(* The rules of its fragment fit.                                          *)
LEMMA FragmentRulesFit == \A r \in FragmentRules : RuleFits(r)
<1> DEFINE start == "s_req_fragment_start"
           from == "s_req_fragment"
<1>1. /\ Open(from) = {"url", "fragment"} /\ Open(start) = {"url"}
      /\ Open("none") = {}
  BY OpenParts, OutsideOpen DEF PlainUrl, UrlStates
<1>2. \A on : RuleFits(Rule(start, on, {"fragment"}, <<>>, from))
  <2>1. Fits(start, {"fragment"}, <<>>, from)
    BY <1>1 DEF Fits, Calls, UrlStates
  <2> QED  BY <2>1, RuleFields
<1>3. /\ \A on : RuleFits(Move(start, on, start))
      /\ \A on : RuleFits(Move(from, on, from))
  BY StillMoves DEF UrlStates
<1>4. \A r \in Ends(start, <<"url">>) : RuleFits(r)
  <2>1. Calls(start, <<"url">>, "none")
    BY <1>1 DEF Calls, UrlParts
  <2> QED  BY <2>1, EndsFit DEF UrlStates
<1>5. \A r \in Ends(from, <<"url", "fragment">>) : RuleFits(r)
  <2>1. Calls(from, <<"url", "fragment">>, "none")
    BY <1>1 DEF Calls, UrlParts
  <2> QED  BY <2>1, EndsFit DEF UrlStates
<1> QED  BY <1>2, <1>3, <1>4, <1>5 DEF FragmentRules

(* All rules fit.                                                          *)
LEMMA RulesFit == \A r \in Rules : RuleFits(r)
BY SchemaRulesFit, HostRulesFit, PathRulesFit, QueryRulesFit,
   FragmentRulesFit, LineRulesFit, ChunkRulesFit DEF Rules

-----------------------------------------------------------------------------
(* What applying a rule makes of the parts.                                *)
(* What the parts of a parser become when some begin and others end.       *)
Turned(x, z, begun, ended, at) ==
    /\ IsParser(z)
    /\ z.state = x.state /\ z.nread = x.nread /\ z.flags = x.flags
    /\ z.length = x.length /\ z.returned = x.returned
    /\ z.type = x.type /\ z.modern = x.modern
    /\ \A h \in Parts :
          /\ z.mark[h] = IF h \in begun THEN at
                         ELSE IF h \in ended THEN NoMark ELSE x.mark[h]
          /\ z.given[h] = IF h \in ended THEN at - x.mark[h] ELSE 0

(* A part that is being read, of which z's next callback is: y.            *)
Ending(x, y, z, begun, ended, f, next, at) ==
    /\ f \in Parts /\ Within(f, x.state) /\ f \notin begun
    /\ f \notin ended /\ next = ended \cup {f}
    /\ y = Give(z, f, at)

(* One more part ends.                                                     *)
LEMMA GiveTurns ==
    ASSUME NEW x, Ready(x), NEW z, NEW begun, NEW ended, NEW at \in Int,
           Turned(x, z, begun, ended, at),
           NEW y, NEW f, NEW next,
           Ending(x, y, z, begun, ended, f, next, at)
    PROVE  /\ Turned(x, y, begun, next, at)
           /\ y.called = Append(z.called, f)
<1>0. /\ f \in Parts /\ Within(f, x.state) /\ f \notin begun
      /\ f \notin ended /\ next = ended \cup {f}
      /\ y = Give(z, f, at)
  BY DEF Ending
<1>1. IsParser(z) /\ z.mark \in [Parts -> Int] /\ z.given \in [Parts -> Int]
  BY DEF Turned, IsParser
<1>2. z.mark[f] = x.mark[f] /\ z.given[f] = 0 /\ x.mark[f] # NoMark
  BY <1>0 DEF Turned, Ready, PartsOK
<1>m. IsParser(z) /\ z.mark[f] # NoMark
  BY <1>1, <1>2
<1>3. /\ IsParser(y) /\ y.nread = z.nread /\ y.flags = z.flags
      /\ y.state = z.state /\ y.length = z.length
      /\ y.returned = z.returned /\ y.called = Append(z.called, f)
      /\ y.type = z.type /\ y.modern = z.modern
      /\ y.mark = [z.mark EXCEPT ![f] = NoMark]
      /\ y.given = [z.given EXCEPT ![f] = @ + at - z.mark[f]]
  BY <1>0, <1>m, GivePart
<1>4. x.mark[f] \in Int
  BY <1>0 DEF Ready, IsParser
<1>5. ASSUME NEW h \in Parts
      PROVE  /\ y.mark[h] = IF h \in begun THEN at
                            ELSE IF h \in next THEN NoMark
                                                         ELSE x.mark[h]
             /\ y.given[h] = IF h \in next THEN at - x.mark[h] ELSE 0
  <2>1. CASE h = f
    <3>1. y.mark[f] = NoMark /\ y.given[f] = 0 + at - x.mark[f]
      BY <1>0, <1>1, <1>2, <1>3
    <3> QED  BY <1>0, <2>1, <3>1, <1>4
  <2>2. CASE h # f
    <3>1. y.mark[h] = z.mark[h] /\ y.given[h] = z.given[h]
      BY <1>1, <1>3, <2>2
    <3> QED  BY <1>0, <2>2, <3>1 DEF Turned
  <2> QED  BY <2>1, <2>2
<1> QED  BY <1>3, <1>5 DEF Turned

(* A rule begins what it marks and ends what it calls back for.            *)
LEMMA ApplyTurns ==
    ASSUME NEW x, Ready(x), NEW r, RuleFits(r), r.from = x.state,
           NEW at \in Int, NEW y, y = Apply(r, x, at)
    PROVE  /\ Turned(x, [y EXCEPT !.state = x.state, !.modern = x.modern],
                     r.marks, Open(r.from) \ Open(r.to), at)
           /\ IsParser(y) /\ y.state = r.to /\ y.called = r.calls
           /\ r.from \notin UrlStates => (y.modern <=> x.modern)
<1> DEFINE m == [x EXCEPT !.mark = [f \in Parts |->
                     IF f \in r.marks THEN at ELSE @[f]]]
           z == GiveAll(m, r.calls, at)
           ended == Open(r.from) \ Open(r.to)
           none == {}
<1>0. /\ IsParser(x) /\ x.mark \in [Parts -> Int] /\ x.called = <<>>
      /\ \A f \in Parts : x.given[f] = 0
  BY DEF Ready, IsParser, PartsOK
<1>1. Turned(x, m, r.marks, none, at) /\ m.called = <<>>
  <2> DEFINE k == [f \in Parts |->
                      IF f \in r.marks THEN at ELSE x.mark[f]]
  <2>1. m = [x EXCEPT !.mark = k] /\ k \in [Parts -> Int]
    BY <1>0 DEF IsParser, Fields
  <2>2. \A h \in Parts : k[h] = IF h \in r.marks THEN at ELSE x.mark[h]
    OBVIOUS
  <2> HIDE DEF k, m
  <2>3. /\ IsParser(m) /\ m.mark = k /\ m.given = x.given
        /\ m.state = x.state /\ m.nread = x.nread /\ m.flags = x.flags
        /\ m.length = x.length /\ m.returned = x.returned
        /\ m.called = x.called /\ m.type = x.type /\ m.modern = x.modern
    BY <1>0, <2>1 DEF IsParser, Fields
  <2> QED  BY <1>0, <2>2, <2>3 DEF Turned
<1>2. /\ r.marks = Open(r.to) \ Open(r.from)
      /\ Calls(r.from, r.calls, r.to)
  BY DEF RuleFits, Fits
<1> HIDE DEF m
<1>3. Turned(x, z, r.marks, ended, at) /\ z.called = r.calls
  <2>1. CASE r.calls = <<>> /\ Open(r.from) \subseteq Open(r.to)
    <3>1. ended = none /\ z = m
      BY <2>1, GiveNone
    <3> QED  BY <1>1, <2>1, <3>1
  <2>2. ASSUME NEW f \in UrlParts, r.calls = <<f>>, ended = {f}
        PROVE  Turned(x, z, r.marks, ended, at) /\ z.called = r.calls
    <3>1. z = Give(m, f, at)
      BY <2>2, GiveOne
    <3>2. f \in Parts /\ f \notin r.marks /\ Within(f, x.state)
      BY <1>2, <2>2 DEF Open
    <3>4. Ending(x, z, m, r.marks, none, f, ended, at)
      BY <2>2, <3>1, <3>2 DEF Ending
    <3> HIDE DEF z, ended, none
    <3>5. Turned(x, z, r.marks, ended, at) /\ z.called = Append(m.called, f)
      BY <1>1, <3>4, GiveTurns
    <3> QED  BY <1>1, <2>2, <3>5, OneCall
  <2>3. ASSUME NEW f \in UrlParts, NEW g \in UrlParts, f # g,
               r.calls = <<f, g>>, ended = {f, g}
        PROVE  Turned(x, z, r.marks, ended, at) /\ z.called = r.calls
    <3> DEFINE a == Give(m, f, at)
               first == {f}
    <3>1. z = Give(a, g, at)
      BY <2>3, GiveTwo
    <3>2. f \in Parts /\ f \notin r.marks /\ Within(f, x.state)
      BY <1>2, <2>3 DEF Open
    <3>g. g \in Parts /\ g \notin r.marks /\ Within(g, x.state)
      BY <1>2, <2>3 DEF Open
    <3>3. Ending(x, a, m, r.marks, none, f, first, at)
      BY <3>2 DEF Ending
    <3>4. Ending(x, z, a, r.marks, first, g, ended, at)
      BY <2>3, <3>1, <3>g DEF Ending
    <3> HIDE DEF a, first, z, ended, none
    <3>5. Turned(x, a, r.marks, first, at) /\ a.called = Append(m.called, f)
      BY <1>1, <3>3, GiveTurns
    <3>6. /\ Turned(x, z, r.marks, ended, at)
          /\ z.called = Append(a.called, g)
      BY <3>4, <3>5, GiveTurns
    <3> QED  BY <1>1, <2>3, <3>5, <3>6, OneCall, TwoCalls
  <2> QED  BY <1>2, <2>1, <2>2, <2>3 DEF Calls
<1> HIDE DEF z
<1>4. PICK n : /\ y = [Enter(z, r.to) EXCEPT !.modern = n]
               /\ n = (z.modern
                        /\ ~(r.from \in UrlStates /\ r.on \subseteq {CR, LF}))
  <2>1. Enter(z, r.to).modern = z.modern
    BY <1>3, EnterMoves DEF Turned
  <2> QED  BY <2>1 DEF Apply, z, m
<1> DEFINE w == [y EXCEPT !.state = x.state, !.modern = x.modern]
<1>5. /\ Moved(z, w) /\ w.state = z.state
      /\ w.type = z.type /\ w.modern = z.modern
  BY <1>3, <1>4 DEF Turned, IsParser, Fields, Enter, Moved, SameMarks
<1>6. /\ IsParser(y) /\ y.state = r.to /\ y.called = z.called
      /\ y.modern = n
  BY <1>3, <1>4 DEF Turned, IsParser, Fields, Enter
<1>7. r.from \notin UrlStates => (y.modern <=> x.modern)
  BY <1>3, <1>4, <1>6 DEF Turned
<1> HIDE DEF ended, w
<1>8. Turned(x, w, r.marks, ended, at)
  BY <1>3, <1>5 DEF Turned, Moved, SameMarks
<1> QED  BY <1>3, <1>6, <1>7, <1>8 DEF ended, w

-----------------------------------------------------------------------------
(* Every byte that is not in a body makes a step.                          *)
(* A rule that fits makes a step.                                          *)
LEMMA ApplyStep ==
    ASSUME NEW x, Ready(x), NEW r, RuleFits(r), r.from = x.state,
           NEW at \in Nat, NEW y, y = Apply(r, x, at)
    PROVE  Step(x, y, at)
<1> DEFINE z == [y EXCEPT !.state = x.state, !.modern = x.modern]
           ended == Open(r.from) \ Open(r.to)
<1>0. /\ IsParser(x) /\ ~x.returned /\ x.called = <<>>
      /\ x.state \in States /\ LengthOK(x) /\ LineOK(x)
      /\ \A f \in Parts : /\ x.given[f] = 0
                          /\ Within(f, x.state) <=> x.mark[f] # NoMark
  BY DEF Ready, PartsOK
<1>1. /\ Turned(x, z, r.marks, ended, at)
      /\ IsParser(y) /\ y.state = r.to /\ y.called = r.calls
      /\ r.from \notin UrlStates => (y.modern <=> x.modern)
  <2>1. at \in Int
    OBVIOUS
  <2> QED  BY <2>1, ApplyTurns
<1>2. /\ z.mark = y.mark /\ z.given = y.given /\ z.nread = y.nread
      /\ z.flags = y.flags /\ z.length = y.length /\ z.returned = y.returned
  BY <1>1 DEF IsParser, Fields
<1> HIDE DEF z
<1>3. /\ r.marks = Open(r.to) \ Open(r.from) /\ Calls(r.from, r.calls, r.to)
      /\ \/ /\ r.from \in LineStates \cup UrlStates
            /\ r.to \in LineStates \cup UrlStates \cup {"s_header_field_start"}
         \/ /\ r.from \in ChunkStates /\ r.to \in ChunkStates
            /\ r.to \in {"s_chunk_size", "s_chunk_parameters",
                     "s_chunk_size_almost_done"} =>
                 r.from \in {"s_chunk_size", "s_chunk_parameters"}
  BY DEF RuleFits, Fits
<1>4. /\ y.nread = x.nread /\ y.flags = x.flags /\ y.length = x.length
      /\ ~y.returned
      /\ \A h \in Parts :
          /\ y.mark[h] = IF h \in r.marks THEN at
                         ELSE IF h \in ended THEN NoMark ELSE x.mark[h]
          /\ y.given[h] = IF h \in ended THEN at - x.mark[h] ELSE 0
  BY <1>0, <1>1, <1>2 DEF Turned
<1>5. PartsStep(x, y, at)
  <2>1. ASSUME NEW h \in Parts
        PROVE  IF Within(h, y.state)
               THEN /\ y.given[h] = 0
                    /\ y.mark[h] = IF Within(h, x.state) THEN x.mark[h] ELSE at
               ELSE /\ y.mark[h] = NoMark
                    /\ y.given[h] = IF Within(h, x.state)
                                    THEN at - x.mark[h] ELSE 0
    <3>1. /\ h \in Open(r.to) <=> Within(h, y.state)
          /\ h \in Open(r.from) <=> Within(h, x.state)
      BY <1>1 DEF Open
    <3>2. /\ h \in r.marks <=> (Within(h, y.state) /\ ~Within(h, x.state))
          /\ h \in ended <=> (Within(h, x.state) /\ ~Within(h, y.state))
      BY <1>3, <3>1
    <3> HIDE DEF ended
    <3> QED  BY <1>0, <1>4, <3>2
  <2> QED  BY <2>1 DEF PartsStep
<1>6. CASE /\ r.from \in LineStates \cup UrlStates
           /\ r.to \in LineStates \cup UrlStates \cup {"s_header_field_start"}
  <2>1. Phase(x) = "line" /\ "TRAILING" \notin x.flags
    BY <1>0, <1>6, Phases DEF LineOK
  <2>2. Phase(y) \in {"line", "headers"}
    BY <1>1, <1>4, <1>6, <2>1, Phases DEF HeaderStates
  <2>3. \/ y.called = <<>>
        \/ \E f \in UrlParts : y.called = <<f>>
        \/ \E f \in UrlParts : \E g \in UrlParts \ {f} : y.called = <<f, g>>
    BY <1>1, <1>3 DEF Calls
  <2>4. Told(Phase(x), Phase(y), y.called)
    BY <2>1, <2>2, <2>3 DEF Told, UrlParts
  <2>5. LengthOK(y) /\ LineOK(y) /\ y.state \in States
    BY <1>1, <1>4, <1>6, <2>1
    DEF LengthOK, LineOK, States, LineStates, UrlStates, HeaderStates
  <2> QED  BY <1>1, <1>4, <1>5, <2>4, <2>5 DEF Step
<1>7. CASE /\ r.from \in ChunkStates /\ r.to \in ChunkStates
           /\ r.to \in {"s_chunk_size", "s_chunk_parameters",
                     "s_chunk_size_almost_done"} =>
                r.from \in {"s_chunk_size", "s_chunk_parameters"}
  <2>1. Phase(x) = BodyPhase(x) /\ Phase(y) = BodyPhase(x)
    <3>1. y.modern <=> x.modern
      BY <1>1, <1>7 DEF ChunkStates, UrlStates
    <3>2. http_should_keep_alive(y) <=> http_should_keep_alive(x)
      BY <1>4, <3>1 DEF http_should_keep_alive
    <3>3. Phase(x) = BodyPhase(x) /\ Phase(y) = BodyPhase(y)
      BY <1>0, <1>1, <1>4, <1>7, Phases
    <3> QED  BY <3>2, <3>3 DEF BodyPhase
  <2>2. Open(r.from) = {}
    BY <1>7, OpenParts DEF ChunkStates, UrlStates
  <2>3. y.called = <<>>
    BY <1>1, <1>3, <2>2 DEF Calls
  <2>4. Told(Phase(x), Phase(y), y.called)
    BY <2>1, <2>3 DEF Told
  <2>5. LengthOK(y) /\ LineOK(y) /\ y.state \in States
    BY <1>0, <1>1, <1>4, <1>7
    DEF LengthOK, LineOK, States, LineStates, UrlStates, ChunkStates
  <2>6. Phase(y) \notin {"line", "headers"}
    BY <2>1 DEF BodyPhase
  <2> QED  BY <1>1, <1>4, <1>5, <2>4, <2>5, <2>6 DEF Step
<1> QED  BY <1>3, <1>6, <1>7

(* What a byte may lead to: the rules for it, or else one handler.         *)
LEMMA OutcomesAre ==
    ASSUME NEW x, NEW ch, NEW at, NEW y \in Outcomes(x, ch, at)
    PROVE  \/ \E r \in Rules : r.from = x.state /\ y = Apply(r, x, at)
           \/ x.state \in StartStates /\ y = Start(x, ch)
           \/ x.state = "s_res_or_resp_H" /\ y = ResponseOrHead(x, ch)
           \/ x.state = "s_req_method" /\ y \in MethodLetter(x, ch)
           \/ /\ x.state \in {"s_req_http_start", "s_http"}
              /\ y = HTTPLetter(x, ch)
           \/ /\ x.state \in DOMAIN FirstDigit \cup NumberStates
              /\ y \in {Digit(x, ch), VersionEnd(x, ch)}
           \/ /\ x.state = "s_header_field_start"
              /\ \/ y = Enter(x, "s_headers_almost_done")
                 \/ y = HeadersAlmostDone(x, ch)
                 \/ y = FieldStart(x, ch, at)
           \/ x.state = "s_header_field" /\ y = Field(x, ch, at)
           \/ x.state = "s_header_value_start" /\ y = ValueStart(x, ch, at)
           \/ x.state = "s_header_value" /\ y = HeaderValue(x, ch, at)
           \/ x.state = "s_header_almost_done" /\ y = HeaderAlmostDone(x, ch)
           \/ x.state = "s_headers_almost_done" /\ y = HeadersAlmostDone(x, ch)
           \/ /\ x.state \in {"s_chunk_size_start", "s_chunk_size"}
              /\ y = ChunkSize(x, ch)
           \/ /\ x.state = "s_chunk_size_almost_done"
              /\ y = ChunkSizeAlmostDone(x, ch)
           \/ y = Failed(x)
<1> DEFINE rules == IF x.state \notin DOMAIN RulesFrom THEN {}
                    ELSE {r \in RulesFrom[x.state] : ch \in r.on}
<1>1. CASE rules # {}
  <2>1. PICK r \in rules : y = Apply(r, x, at)
    BY <1>1 DEF Outcomes
  <2>2. r \in Rules /\ r.from = x.state
    BY <2>1 DEF RulesFrom
  <2> QED  BY <2>1, <2>2
<1>2. CASE rules = {}
  <2>1. y \in CASE x.state \in StartStates       -> {Start(x, ch)}
               [] x.state = "s_res_or_resp_H"   -> {ResponseOrHead(x, ch)}
               [] x.state = "s_req_method"      -> MethodLetter(x, ch)
               [] x.state \in {"s_req_http_start", "s_http"} ->
                      {HTTPLetter(x, ch)}
               [] x.state \in DOMAIN FirstDigit \cup NumberStates ->
                      {IF ch \in Digits THEN Digit(x, ch)
                                        ELSE VersionEnd(x, ch)}
               [] x.state = "s_header_field_start" ->
                      {CASE ch = CR -> Enter(x, "s_headers_almost_done")
                         [] ch = LF -> HeadersAlmostDone(x, ch)
                         [] OTHER   -> FieldStart(x, ch, at)}
               [] x.state = "s_header_field"    -> {Field(x, ch, at)}
               [] x.state = "s_header_value_start" ->
                      {ValueStart(x, ch, at)}
               [] x.state = "s_header_value"    -> {HeaderValue(x, ch, at)}
               [] x.state = "s_header_almost_done" ->
                      {HeaderAlmostDone(x, ch)}
               [] x.state = "s_headers_almost_done" ->
                      {HeadersAlmostDone(x, ch)}
               [] x.state \in {"s_chunk_size_start", "s_chunk_size"} ->
                      {ChunkSize(x, ch)}
               [] x.state = "s_chunk_size_almost_done" ->
                      {ChunkSizeAlmostDone(x, ch)}
               [] OTHER -> {Failed(x)}
    <3> HIDE DEF rules
    <3> QED  BY <1>2 DEF Outcomes, rules
  <2> HIDE DEF rules
  <2> QED  BY <2>1
<1> QED  BY <1>1, <1>2

(* Whatever byte comes, and whatever it leads to, makes a step.            *)
LEMMA OutcomesStep ==
    ASSUME NEW x, Ready(x), x.state \notin BodyStates, NEW ch,
           NEW at \in Nat, NEW y \in Outcomes(x, ch, at)
    PROVE  Step(x, y, at)
<1>1. CASE \E r \in Rules : r.from = x.state /\ y = Apply(r, x, at)
  BY <1>1, RulesFit, ApplyStep
<1>2. CASE x.state = "s_header_field_start"
           /\ y = Enter(x, "s_headers_almost_done")
  <2>1. Moved(x, y) /\ y.state = "s_headers_almost_done" /\ IsParser(y)
    BY <1>2, EnterMoves DEF Ready, Moved, SameMarks
  <2>2. PartsStep(x, y, at)
    BY <1>2, <2>1, NoPartsStep DEF Moved, UrlStates
  <2> QED  BY <1>2, <2>1, <2>2, HeaderStep DEF Moved, Ready, HeaderStates
<1>3. CASE y = Failed(x)
  BY <1>3, FailedStep DEF Ready
<1> QED  BY <1>1, <1>2, <1>3, OutcomesAre, StartStep, ResponseOrHeadStep,
            MethodLetterStep, HTTPLetterStep, DigitStep, VersionEndStep,
            HeadersAlmostDoneStep, FieldStartStep, FieldStep,
            ValueStartStep, HeaderValueStep, HeaderAlmostDoneStep,
            ChunkSizeStep, ChunkSizeAlmostDoneStep

-----------------------------------------------------------------------------
(* The callbacks at the end of a packet.                                   *)
(* The order of the callbacks at the end of a packet.                      *)
ReturnOrder ==
    <<"field", "value", "fragment", "queryString", "path", "url">>

(* Six parts.                                                              *)
LEMMA GiveSix ==
    ASSUME NEW x, NEW at,
           NEW a, a = Give(x, "field", at),
           NEW b, b = Give(a, "value", at),
           NEW c, c = Give(b, "fragment", at),
           NEW d, d = Give(c, "queryString", at),
           NEW e, e = Give(d, "path", at),
           NEW g, g = Give(e, "url", at)
    PROVE  GiveAll(x, ReturnOrder, at) = g
<1> DEFINE p == ReturnOrder
           s == [n \in 0..6 |-> CASE n = 0 -> x [] n = 1 -> a [] n = 2 -> b
                                  [] n = 3 -> c [] n = 4 -> d [] n = 5 -> e
                                  [] n = 6 -> g]
<1>1. /\ Len(p) = 6 /\ p[1] = "field" /\ p[2] = "value"
      /\ p[3] = "fragment" /\ p[4] = "queryString" /\ p[5] = "path"
      /\ p[6] = "url"
  BY DEF ReturnOrder
<1>2. /\ s[0] = x /\ s[1] = a /\ s[2] = b /\ s[3] = c /\ s[4] = d
      /\ s[5] = e /\ s[6] = g
  OBVIOUS
<1> HIDE DEF s, p
<1>3. /\ s[1] = Give(s[0], p[1], at) /\ s[2] = Give(s[1], p[2], at)
      /\ s[3] = Give(s[2], p[3], at) /\ s[4] = Give(s[3], p[4], at)
      /\ s[5] = Give(s[4], p[5], at) /\ s[6] = Give(s[5], p[6], at)
  BY <1>1, <1>2
<1>4. Len(p) \in Nat /\ \A n \in 0..Len(p) :
            s[n] = IF n = 0 THEN x ELSE Give(s[n - 1], p[n], at)
  <2>1. ASSUME NEW n \in 1..6 PROVE s[n] = Give(s[n - 1], p[n], at)
    <3>1. n \in {1, 2, 3, 4, 5, 6}
      OBVIOUS
    <3>2. /\ 1 - 1 = 0 /\ 2 - 1 = 1 /\ 3 - 1 = 2 /\ 4 - 1 = 3 /\ 5 - 1 = 4
          /\ 6 - 1 = 5
      OBVIOUS
    <3> QED  BY <1>3, <3>1, <3>2
  <2> QED  BY <1>1, <1>2, <2>1
<1>5. GiveAll(x, p, at) = s[Len(p)]
  BY <1>4, GiveAllIs
<1> QED  BY <1>1, <1>2, <1>5 DEF p

(* A part without a mark is not given.                                     *)
LEMMA GiveNothing ==
    ASSUME NEW x, NEW f, NEW at, x.mark[f] = NoMark
    PROVE  Give(x, f, at) = x
BY DEF Give

(* A callback for a part that is not being read is none.                   *)
LEMMA GiveClosed ==
    ASSUME NEW x, Ready(x), NEW z, NEW ended, NEW at \in Int,
           Turned(x, z, {}, ended, at), NEW f \in Parts,
           f \in ended \/ ~Within(f, x.state)
    PROVE  Give(z, f, at) = z
<1>1. x.mark[f] = NoMark \/ f \in ended
  BY DEF Ready, PartsOK
<1>2. z.mark[f] = NoMark
  BY <1>1 DEF Turned
<1> QED  BY <1>2, GiveNothing

(* At the end of a packet all parts being read are given, and no other.    *)
LEMMA ReturnGives ==
    ASSUME NEW x, Ready(x), NEW at \in Int,
           NEW y, y = GiveAll(x, ReturnOrder, at)
    PROVE  /\ Turned(x, y, {}, Open(x.state), at)
           /\ Told(Phase(x), Phase(x), y.called)
           /\ x.state \notin UrlStates =>
                 y.called = IF x.state = "s_header_field" THEN <<"field">>
                            ELSE IF x.state = "s_header_value" THEN <<"value">>
                            ELSE <<>>
<1> DEFINE none == {}
<1>0. /\ Turned(x, x, none, none, at) /\ x.called = <<>>
      /\ Phase(x) \in {"line", "headers", "trailer", "body", "lastBody",
                    "between", "dead"}
  <2>1. Phase(x) \in {"line", "headers", "trailer", "body", "lastBody",
                    "between", "dead"}
    BY Phases DEF Ready, States, LineOK, BodyPhase
  <2> QED  BY <2>1 DEF Turned, Ready, PartsOK
<1>1. ASSUME Open(x.state) = {}
      PROVE  /\ Turned(x, y, {}, Open(x.state), at) /\ y.called = <<>>
             /\ Told(Phase(x), Phase(x), y.called)
  <2>1. \A f \in Parts : Give(x, f, at) = x
    BY <1>0, <1>1, GiveClosed DEF Open
  <2>2. y = x
    <3>1. /\ x = Give(x, "field", at) /\ x = Give(x, "value", at)
          /\ x = Give(x, "fragment", at) /\ x = Give(x, "queryString", at)
          /\ x = Give(x, "path", at) /\ x = Give(x, "url", at)
      BY <2>1 DEF Parts
    <3> QED  BY <3>1, GiveSix
  <2> QED  BY <1>0, <1>1, <2>2 DEF Told
<1>2. ASSUME NEW f \in Parts, Open(x.state) = {f}
      PROVE  Turned(x, y, {}, Open(x.state), at) /\ y.called = <<f>>
  <2> DEFINE a == Give(x, f, at)
             only == {f}
  <2>1. Ending(x, a, x, none, none, f, only, at)
    BY <1>2 DEF Ending, Open
  <2> HIDE DEF a, only
  <2>2. Turned(x, a, none, only, at) /\ a.called = Append(x.called, f)
    BY <1>0, <2>1, GiveTurns
  <2>3. \A g \in Parts : g # f => Give(x, g, at) = x
    BY <1>0, <1>2, GiveClosed DEF Open
  <2>4. \A g \in Parts : Give(a, g, at) = a
    BY <2>2, <1>2, GiveClosed DEF Open, only
  <2>5. a = Give(x, f, at)
    BY DEF a
  <2>6. y = a
    <3>1. \A p \in Parts : /\ p = f => a = Give(x, p, at)
                           /\ p # f => x = Give(x, p, at)
                           /\ a = Give(a, p, at)
      BY <2>3, <2>4, <2>5
    <3>2. {"field", "value", "fragment", "queryString", "path", "url"} = Parts
      BY DEF Parts
    <3>3. CASE f = "field"
      BY <3>1, <3>2, <3>3, GiveSix
    <3>4. CASE f = "value"
      BY <3>1, <3>2, <3>4, GiveSix
    <3>5. CASE f = "fragment"
      BY <3>1, <3>2, <3>5, GiveSix
    <3>6. CASE f = "queryString"
      BY <3>1, <3>2, <3>6, GiveSix
    <3>7. CASE f = "path"
      BY <3>1, <3>2, <3>7, GiveSix
    <3>8. CASE f = "url"
      BY <3>1, <3>2, <3>8, GiveSix
    <3> QED  BY <3>2, <3>3, <3>4, <3>5, <3>6, <3>7, <3>8
  <2> QED  BY <1>0, <1>2, <2>2, <2>6, OneCall DEF only
<1>3. ASSUME NEW f \in {"path", "queryString", "fragment"},
             Open(x.state) = {"url", f}
      PROVE  Turned(x, y, {}, Open(x.state), at) /\ y.called = <<f, "url">>
  <2>0. PICK u \in Parts : u = "url"
    BY DEF Parts
  <2> DEFINE a == Give(x, f, at)
             b == Give(a, u, at)
             first == {f}
             both == {f, u}
  <2>1. Ending(x, a, x, none, none, f, first, at)
    BY <1>3 DEF Ending, Open
  <2>2. Ending(x, b, a, none, first, u, both, at)
    BY <1>3, <2>0 DEF Ending, Open
  <2>a. a = Give(x, f, at) /\ b = Give(a, "url", at) /\ both = Open(x.state)
    BY <1>3, <2>0
  <2> HIDE DEF a, b, first, both
  <2>3. Turned(x, a, none, first, at) /\ a.called = Append(x.called, f)
    BY <1>0, <2>1, GiveTurns
  <2>4. Turned(x, b, none, both, at) /\ b.called = Append(a.called, u)
    BY <2>2, <2>3, GiveTurns
  <2>5. \A g \in Parts : g \notin {f, "url"} => Give(x, g, at) = x
    BY <1>0, <1>3, GiveClosed DEF Open
  <2>6. \A g \in Parts : g # "url" => Give(a, g, at) = a
    BY <2>3, <1>3, GiveClosed DEF Open, first
  <2>7. y = b
    <3>1. \A p \in Parts : /\ p = f => a = Give(x, p, at)
                           /\ p \notin {f, "url"} => x = Give(x, p, at)
                           /\ p # "url" => a = Give(a, p, at)
                           /\ p = "url" => b = Give(a, p, at)
      BY <2>a, <2>5, <2>6
    <3>2. {"field", "value", "fragment", "queryString", "path", "url"} = Parts
      BY DEF Parts
    <3>3. CASE f = "fragment"
      BY <3>1, <3>2, <3>3, GiveSix
    <3>4. CASE f = "queryString"
      BY <3>1, <3>2, <3>4, GiveSix
    <3>5. CASE f = "path"
      BY <3>1, <3>2, <3>5, GiveSix
    <3> QED  BY <1>3, <3>3, <3>4, <3>5
  <2> QED  BY <1>0, <2>0, <2>a, <2>3, <2>4, <2>7, OneCall, TwoCalls
<1>4. CASE x.state \in UrlStates
  <2>1. Phase(x) = "line"
    BY <1>4, Phases DEF Ready, LineOK
  <2>2. \/ Open(x.state) = {"url"}
        \/ \E f \in {"path", "queryString", "fragment"} :
              Open(x.state) = {"url", f}
    BY <1>4, OpenParts
  <2>3. \/ y.called = <<"url">>
        \/ \E f \in {"path", "queryString", "fragment"} :
              y.called = <<f, "url">>
    BY <1>2, <1>3, <2>2 DEF Parts
  <2>4. Told(Phase(x), Phase(x), y.called)
    BY <2>1, <2>3 DEF Told
  <2>5. Turned(x, y, {}, Open(x.state), at)
    BY <1>2, <1>3, <2>2 DEF Parts
  <2> QED  BY <1>4, <2>4, <2>5
<1>5. CASE x.state \in {"s_header_field", "s_header_value"}
  <2>1. Phase(x) \in {"headers", "trailer"}
    BY <1>5, Phases DEF Ready, HeaderStates
  <2>2. PICK f : f = IF x.state = "s_header_field" THEN "field" ELSE "value"
    OBVIOUS
  <2>3. f \in {"field", "value"} /\ Open(x.state) = {f}
    BY <1>5, <2>2 DEF Open, Within, Parts, UrlStates
  <2>4. Turned(x, y, {}, Open(x.state), at) /\ y.called = <<f>>
    <3>1. f \in Parts
      BY <2>3 DEF Parts
    <3> QED  BY <1>2, <2>3, <3>1
  <2>5. Told(Phase(x), Phase(x), y.called)
    BY <2>1, <2>3, <2>4 DEF Told
  <2>6. x.state \notin UrlStates
    BY <1>5 DEF UrlStates
  <2> QED  BY <1>5, <2>2, <2>4, <2>5, <2>6
<1>6. CASE x.state \notin UrlStates \cup {"s_header_field", "s_header_value"}
  BY <1>1, <1>6, OpenParts
<1> QED  BY <1>4, <1>5, <1>6

-----------------------------------------------------------------------------
(* The inductive invariant, and what a byte does to it.                    *)
(* The parser is in a place it can be in.                                  *)
PlaceInv ==
    /\ IsParser(parser) /\ LengthOK(parser)
    /\ ~parser.returned => parser.state \in States /\ LineOK(parser)
    /\ len \in Nat /\ pos \in 0..len

(* What is owed of a part is what has been read since its mark.            *)
OwedInv ==
    /\ owed \in [Parts -> Int]
    /\ ~parser.returned => \A f \in Parts :
          IF len = 0 THEN owed[f] = 0 /\ parser.given[f] = 0
          ELSE /\ parser.given[f] = 0
               /\ IF Within(f, parser.state)
                  THEN /\ parser.mark[f] \in 0..pos
                       /\ owed[f] = pos - parser.mark[f]
                  ELSE parser.mark[f] = NoMark /\ owed[f] = 0

(* Of a body nothing is lost: what has been moved over and what is left.   *)
BodyInv ==
    /\ body \in Int /\ declared \in Int
    /\ BodyIsFramed

(* The bytes of a header are those nread has counted, and one more.        *)
HeaderInv ==
    /\ header \in Int
    /\ HeaderIsLimited
    /\ Phase(parser) \in {"line", "headers"} => header <= parser.nread + 1

(* The inductive invariant.                                                *)
ParserInv == PlaceInv /\ OwedInv /\ BodyInv /\ HeaderInv

(* z is y, as far as the proofs look at it.                                *)
Kept(y, z) ==
    /\ IsParser(z)
    /\ z.state = y.state /\ z.nread = y.nread /\ z.flags = y.flags
    /\ z.length = y.length /\ z.mark = y.mark /\ z.called = y.called
    /\ z.returned = y.returned /\ z.type = y.type /\ z.modern = y.modern

(* What Settled forgets does not matter here.                              *)
LEMMA SettledKeeps ==
    ASSUME NEW y, IsParser(y), NEW z, z = Settled(y)
    PROVE  Kept(y, z) /\ z.given = [f \in Parts |-> 0]
<1> DEFINE none == [f \in Parts |-> 0]
           i == IF y.state \in {"s_req_method", "s_header_field",
                                "s_header_value"} THEN y.index ELSE 0
           h == IF y.state \in {"s_header_field", "s_header_value_start",
                                "s_header_value", "s_header_almost_done"}
                THEN y.hs ELSE "h_general"
           m == IF y.state = "s_req_method" \/ y.method = "CONNECT"
                THEN y.method ELSE "DELETE"
<1>1. z = [y EXCEPT !.given = none, !.index = i, !.hs = h, !.method = m]
  BY DEF Settled, IsParser, Fields
<1>2. none \in [Parts -> Int]
  OBVIOUS
<1> HIDE DEF none, i, h, m
<1>3. Kept(y, z) /\ z.given = none
  BY <1>1, <1>2 DEF Kept, IsParser, Fields
<1> QED  BY <1>3 DEF none

(* The phase depends on the state, the flags and the version.              *)
LEMMA PhaseKept ==
    ASSUME NEW y, NEW z, z.state = y.state, z.flags = y.flags,
           z.returned = y.returned, z.modern = y.modern
    PROVE  Phase(z) = Phase(y)
BY DEF Phase, PARSING_HEADER, http_should_keep_alive

(* Fresh forgets callbacks, and nothing else.                              *)
LEMMA FreshKeeps ==
    ASSUME NEW p, IsParser(p), NEW n \in Nat,
           NEW x, x = Fresh([p EXCEPT !.nread = n])
    PROVE  /\ IsParser(x) /\ x.state = p.state /\ x.flags = p.flags
           /\ x.length = p.length /\ x.returned = p.returned
           /\ x.mark = p.mark /\ x.given = p.given
           /\ x.nread = n /\ x.called = <<>>
           /\ x.type = p.type /\ x.modern = p.modern
BY DEF Fresh, IsParser, Fields

(* Under the invariant the parser of a step is ready for it.               *)
LEMMA FreshIsReady ==
    ASSUME PlaceInv, OwedInv, ~parser.returned, len > 0, NEW x, IsParser(x),
           x.state = parser.state, x.flags = parser.flags,
           x.length = parser.length, x.returned = parser.returned,
           x.mark = parser.mark, x.given = parser.given, x.called = <<>>,
           x.modern = parser.modern
    PROVE  Ready(x) /\ Phase(x) = Phase(parser)
<1>1. PartsOK(x)
  BY DEF OwedInv, PlaceInv, PartsOK, NoMark
<1>2. LengthOK(x) /\ LineOK(x) /\ x.state \in States
  BY DEF PlaceInv, LengthOK, LineOK
<1>3. Phase(x) = Phase(parser)
  BY PhaseKept
<1> QED  BY <1>1, <1>2, <1>3 DEF Ready

(* No byte is accepted after the last message.                             *)
LEMMA DeadFails ==
    ASSUME NEW x, x.state = "s_dead", NEW ch, NEW at
    PROVE  Outcomes(x, ch, at) = {Failed(x)}
<1>1. x.state \notin DOMAIN RulesFrom
  <2>1. \A r \in Rules : r.from \in LineStates \cup UrlStates \cup ChunkStates
    BY RulesFit DEF RuleFits, Fits
  <2> QED  BY <2>1 DEF RulesFrom, LineStates, UrlStates, ChunkStates
<1>2. /\ x.state \notin StartStates
      /\ x.state \notin DOMAIN FirstDigit \cup NumberStates
  BY DEF StartStates, FirstDigit, NumberStates
<1> QED  BY <1>1, <1>2 DEF Outcomes

(* A byte's step y of the parser x it was given to.                        *)
Read(x, y) ==
    /\ Ready(x) /\ x.state = parser.state /\ x.mark = parser.mark
    /\ x.type = parser.type /\ x.flags = parser.flags
    /\ x.modern = parser.modern
    /\ Phase(x) = Phase(parser)
    /\ x.nread = parser.nread + IF PARSING_HEADER(parser) THEN 1 ELSE 0
    /\ Step(x, y, pos)
    /\ ~y.returned => /\ x.nread <= HTTP_MAX_HEADER_SIZE
                      /\ x.state # "s_dead"
                      /\ \E ch : y \in Outcomes(x, ch, pos)

(* A byte is given to a parser that is ready, and makes a step.            *)
LEMMA ByteReads ==
    ASSUME ParserInv, NEW ch \in Chars, Byte(ch)
    PROVE  \E x, y : /\ Read(x, y) /\ parser' = Settled(y)
                     /\ owed' = Owed(y, 1) /\ History(y)
<1> DEFINE d == IF PARSING_HEADER(parser) THEN 1 ELSE 0
           n == parser.nread + d
           x == Fresh([parser EXCEPT !.nread = n])
<1>0. /\ pos < len /\ ~parser.returned /\ parser.state \notin BodyStates
      /\ IsParser(parser) /\ len \in Nat /\ pos \in Nat /\ len > 0
  BY DEF Byte, ParserInv, PlaceInv
<1>1. n \in Nat
  BY <1>0 DEF IsParser
<1>2. PICK y \in IF x.nread > HTTP_MAX_HEADER_SIZE THEN {Failed(x)}
                 ELSE Outcomes(x, ch, pos) :
         parser' = Settled(y) /\ owed' = Owed(y, 1) /\ History(y)
  <2>1. [parser EXCEPT !.nread = n]
        = [parser EXCEPT !.nread = @ + d]
    OBVIOUS
  <2> QED  BY <2>1 DEF Byte
<1> HIDE DEF x, n
<1>3. /\ IsParser(x) /\ x.state = parser.state /\ x.flags = parser.flags
      /\ x.length = parser.length /\ x.returned = parser.returned
      /\ x.mark = parser.mark /\ x.given = parser.given
      /\ x.nread = n /\ x.called = <<>>
      /\ x.type = parser.type /\ x.modern = parser.modern
  <2>1. x = Fresh([parser EXCEPT !.nread = n])
    BY DEF x
  <2> QED  BY <1>0, <1>1, <2>1, FreshKeeps
<1>4. Ready(x) /\ Phase(x) = Phase(parser)
  BY <1>0, <1>3, FreshIsReady DEF ParserInv
<1>5. /\ Step(x, y, pos)
      /\ ~y.returned => /\ x.nread <= HTTP_MAX_HEADER_SIZE
                        /\ x.state # "s_dead"
                        /\ \E b : y \in Outcomes(x, b, pos)
  <2>0. x.nread \in Nat /\ HTTP_MAX_HEADER_SIZE \in Nat
    BY <1>1, <1>3, HTTPParserAssumption
  <2>1. CASE x.nread > HTTP_MAX_HEADER_SIZE
    <3>1. y = Failed(x) /\ x.called = <<>>
      BY <1>2, <1>3, <2>1
    <3> QED  BY <1>4, <3>1, FailedStep, FailedMoves
  <2>2. CASE ~(x.nread > HTTP_MAX_HEADER_SIZE)
    <3>1. y \in Outcomes(x, ch, pos)
      BY <1>2, <2>2
    <3>2. Step(x, y, pos)
      BY <1>0, <1>3, <1>4, <3>1, OutcomesStep
    <3>3. ASSUME x.state = "s_dead"
          PROVE  y.returned
      <4>1. y \in {Failed(x)}
        BY <3>1, <3>3, DeadFails
      <4> QED  BY <4>1, FailedMoves
    <3>4. \E b : y \in Outcomes(x, b, pos)
      BY <3>1
    <3> QED  BY <2>0, <2>2, <3>2, <3>3, <3>4
  <2> QED  BY <2>1, <2>2
<1>6. Read(x, y)
  BY <1>3, <1>4, <1>5 DEF Read, n
<1> QED  BY <1>2, <1>6

(* A byte keeps PlaceInv.                                                  *)
LEMMA ByteKeepsPlace ==
    ASSUME ParserInv, NEW ch, Byte(ch), NEW x, NEW y, Read(x, y),
           parser' = Settled(y)
    PROVE  /\ PlaceInv' /\ Kept(y, parser')
           /\ Phase(parser') = Phase(y)
           /\ parser'.given = [f \in Parts |-> 0]
           /\ Told(Phase(parser), Phase(parser'), parser'.called)
<1>1. IsParser(y) /\ Step(x, y, pos)
  BY DEF Read, Step
<1>2. Kept(y, parser') /\ parser'.given = [f \in Parts |-> 0]
  BY <1>1, SettledKeeps
<1>3. Phase(parser') = Phase(y)
  BY <1>2, PhaseKept DEF Kept
<1>4. len' = len /\ pos' = pos + 1 /\ pos < len /\ len \in Nat
      /\ pos \in 0..len
  BY DEF Byte, ParserInv, PlaceInv
<1>5. LengthOK(parser)' /\ IsParser(parser)'
      /\ (~parser.returned => parser.state \in States /\ LineOK(parser))'
  BY <1>1, <1>2 DEF Step, Kept, LengthOK, LineOK
<1>6. PlaceInv'
  BY <1>4, <1>5 DEF PlaceInv
<1>7. Told(Phase(parser), Phase(parser'), parser'.called)
  BY <1>1, <1>2, <1>3 DEF Read, Step, Kept
<1> QED  BY <1>2, <1>3, <1>6, <1>7

(* A byte keeps OwedInv.                                                   *)
LEMMA ByteKeepsOwed ==
    ASSUME ParserInv, NEW ch, Byte(ch), NEW x, NEW y, Read(x, y),
           Kept(y, parser'), parser'.given = [f \in Parts |-> 0],
           owed' = Owed(y, 1)
    PROVE  OwedInv'
<1>0. /\ len' = len /\ pos' = pos + 1 /\ pos < len /\ len \in Nat /\ len > 0
      /\ pos \in 0..len /\ owed \in [Parts -> Int] /\ ~parser.returned
  BY DEF Byte, ParserInv, PlaceInv, OwedInv
<1>1. /\ IsParser(y) /\ x.state = parser.state
      /\ ~y.returned => PartsStep(x, y, pos)
  BY DEF Read, Step
<1>2. /\ parser'.mark = y.mark /\ parser'.state = y.state
      /\ parser'.returned = y.returned
  BY DEF Kept
<1>3. owed' \in [Parts -> Int]
  BY <1>0, <1>1 DEF Owed, IsParser
<1>4. ASSUME ~y.returned, NEW f \in Parts
      PROVE  IF Within(f, y.state)
             THEN y.mark[f] \in 0..(pos + 1) /\ owed'[f] = pos + 1 - y.mark[f]
             ELSE y.mark[f] = NoMark /\ owed'[f] = 0
  <2>1. IF Within(f, y.state)
        THEN /\ y.given[f] = 0
             /\ y.mark[f] = IF Within(f, x.state) THEN x.mark[f] ELSE pos
        ELSE /\ y.mark[f] = NoMark
             /\ y.given[f] = IF Within(f, x.state) THEN pos - x.mark[f] ELSE 0
    BY <1>1, <1>4 DEF PartsStep
  <2>2. IF Within(f, x.state)
        THEN parser.mark[f] \in 0..pos /\ owed[f] = pos - parser.mark[f]
        ELSE owed[f] = 0
    BY <1>0, <1>1 DEF ParserInv, OwedInv
  <2>3. x.mark[f] = parser.mark[f]
    BY DEF Read
  <2>4. owed'[f] = owed[f] - y.given[f] + IF Within(f, y.state) THEN 1 ELSE 0
    BY DEF Owed
  <2>5. pos \in Int /\ pos >= 0
    BY <1>0
  <2>6. CASE Within(f, y.state) /\ Within(f, x.state)
    BY <2>1, <2>2, <2>3, <2>4, <2>5, <2>6
  <2>7. CASE Within(f, y.state) /\ ~Within(f, x.state)
    BY <2>1, <2>2, <2>3, <2>4, <2>5, <2>7
  <2>8. CASE ~Within(f, y.state) /\ Within(f, x.state)
    BY <2>1, <2>2, <2>3, <2>4, <2>5, <2>8
  <2>9. CASE ~Within(f, y.state) /\ ~Within(f, x.state)
    BY <2>1, <2>2, <2>3, <2>4, <2>5, <2>9
  <2> QED  BY <2>6, <2>7, <2>8, <2>9
<1> QED  BY <1>0, <1>2, <1>3, <1>4 DEF OwedInv

(* A byte keeps BodyInv.                                                   *)
LEMMA ByteKeepsBody ==
    ASSUME ParserInv, NEW ch, Byte(ch), NEW x, NEW y, Read(x, y),
           Kept(y, parser'), History(y)
    PROVE  BodyInv'
<1>1. /\ parser.state \notin BodyStates /\ body = declared
      /\ body \in Int /\ declared \in Int
  BY DEF Byte, ParserInv, BodyInv, BodyIsFramed, BodyStates
<1>2. IsParser(y) /\ LengthOK(y)
  BY DEF Read, Step
<1>3. parser'.state = y.state /\ parser'.length = y.length
  BY DEF Kept
<1>4. CASE y.state \in {"s_body_identity", "s_chunk_data"}
  <2>1. declared' = y.length /\ body' = 0 /\ y.length \in Int
    BY <1>2, <1>4 DEF History, LengthOK, IsParser
  <2> QED  BY <1>3, <1>4, <2>1 DEF BodyInv, BodyIsFramed
<1>5. CASE y.state \notin {"s_body_identity", "s_chunk_data"}
  <2>1. declared' = declared /\ body' = body
    BY <1>5 DEF History
  <2> QED  BY <1>1, <1>3, <1>5, <2>1 DEF BodyInv, BodyIsFramed
<1> QED  BY <1>4, <1>5

(* A byte keeps HeaderInv: nread counts it before the limit is checked.    *)
LEMMA ByteKeepsHeader ==
    ASSUME ParserInv, NEW ch, Byte(ch), NEW x, NEW y, Read(x, y),
           Kept(y, parser'), Phase(parser') = Phase(y), History(y)
    PROVE  HeaderInv'
<1> DEFINE d == IF PARSING_HEADER(parser) THEN 1 ELSE 0
           begins == parser.state \in StartStates /\ y.state \notin StartStates
           max == HTTP_MAX_HEADER_SIZE
           reading == {"line", "headers"}
<1>1. /\ header \in Int /\ header <= max + 1
      /\ max \in Nat /\ parser.nread \in Nat /\ ~parser.returned
      /\ Phase(parser) \in reading => header <= parser.nread + 1
  BY HTTPParserAssumption
  DEF Byte, ParserInv, HeaderInv, HeaderIsLimited, PlaceInv, IsParser
<1>2. /\ IsParser(y) /\ y.nread \in Nat /\ x.state = parser.state
      /\ Phase(x) = Phase(parser)
      /\ x.nread = parser.nread + d
      /\ Told(Phase(x), Phase(y), y.called)
      /\ ~y.returned => /\ x.nread <= max /\ x.state # "s_dead"
                        /\ Phase(y) \in reading /\ x.state \notin StartStates
                              => y.nread = x.nread
  BY DEF Read, Step, IsParser
<1>3. parser'.nread = y.nread
  BY DEF Kept
<1>4. header' = IF begins THEN 1
                ELSE IF y.returned THEN header
                ELSE IF y.state \in StartStates THEN 0
                ELSE header + d
  BY DEF History
<1>5. SUFFICES /\ header' \in Int /\ header' <= max + 1
               /\ Phase(y) \in reading => header' <= y.nread + 1
  BY <1>3 DEF HeaderInv, HeaderIsLimited
<1>6. CASE begins
  <2>1. header' = 1
    BY <1>4, <1>6
  <2> QED  BY <1>1, <1>2, <2>1
<1>7. CASE ~begins /\ y.returned
  <2>1. header' = header
    BY <1>4, <1>7
  <2>2. Phase(y) = "dead"
    BY <1>7, Phases
  <2> QED  BY <1>1, <2>1, <2>2
<1>8. CASE ~begins /\ ~y.returned /\ y.state \in StartStates
  <2>1. header' = 0
    BY <1>4, <1>8
  <2> QED  BY <1>1, <1>2, <2>1
<1>9. CASE ~begins /\ ~y.returned /\ y.state \notin StartStates
  <2>1. header' = header + d
    BY <1>4, <1>9
  <2>2. parser.state \notin StartStates
    BY <1>9
  <2>3. parser.state \in States /\ parser.state # "s_dead" /\ LineOK(parser)
    BY <1>1, <1>2, <1>9 DEF ParserInv, PlaceInv
  <2>4. /\ Phase(parser) \in reading <=> PARSING_HEADER(parser)
        /\ Phase(parser) # "between"
    <3>1. CASE parser.state \in LineStates \cup UrlStates
      BY <1>1, <3>1, <2>3, Phases DEF LineOK, PARSING_HEADER, LineStates,
         UrlStates, BodyStates
    <3>2. CASE parser.state \in HeaderStates
      BY <1>1, <3>2, Phases DEF PARSING_HEADER, HeaderStates, BodyStates
    <3>3. CASE parser.state \in ChunkStates \cup BodyStates
      BY <1>1, <3>3, Phases DEF PARSING_HEADER, ChunkStates, BodyPhase
    <3> QED  BY <2>2, <2>3, <3>1, <3>2, <3>3 DEF States
  <2>6. Phase(y) \in reading => Phase(parser) \in reading
    BY <1>2, <2>4 DEF Told
  <2>7. CASE PARSING_HEADER(parser)
    <3>1. header' = header + 1 /\ x.nread = parser.nread + 1
          /\ header <= parser.nread + 1 /\ x.nread <= max
      BY <1>1, <1>2, <1>9, <2>1, <2>4, <2>7
    <3> HIDE DEF d, begins
    <3> QED  BY <1>1, <1>2, <1>9, <2>2, <3>1
  <2>8. CASE ~PARSING_HEADER(parser)
    BY <1>1, <2>1, <2>4, <2>6, <2>8
  <2> QED  BY <2>7, <2>8
<1> QED  BY <1>6, <1>7, <1>8, <1>9

(* A byte keeps the invariant and the dialogue.                            *)
LEMMA ByteStep ==
    ASSUME ParserInv, NEW ch \in Chars, Byte(ch)
    PROVE  /\ ParserInv'
           /\ Told(Phase(parser), Phase(parser'), parser'.called)
<1>1. PICK x, y : /\ Read(x, y) /\ parser' = Settled(y)
                  /\ owed' = Owed(y, 1) /\ History(y)
  BY ByteReads
<1>2. /\ PlaceInv' /\ Kept(y, parser')
      /\ Phase(parser') = Phase(y)
      /\ parser'.given = [f \in Parts |-> 0]
      /\ Told(Phase(parser), Phase(parser'), parser'.called)
  BY <1>1, ByteKeepsPlace
<1>3. OwedInv'
  BY <1>1, <1>2, ByteKeepsOwed
<1>4. BodyInv'
  BY <1>1, <1>2, ByteKeepsBody
<1>5. HeaderInv'
  BY <1>1, <1>2, ByteKeepsHeader
<1> QED  BY <1>2, <1>3, <1>4, <1>5 DEF ParserInv

(* The same where nread is not counted.                                    *)
LEMMA FreshAlone ==
    ASSUME NEW p, IsParser(p), NEW x, x = Fresh(p)
    PROVE  /\ IsParser(x) /\ x.state = p.state /\ x.flags = p.flags
           /\ x.length = p.length /\ x.returned = p.returned
           /\ x.mark = p.mark /\ x.given = p.given
           /\ x.nread = p.nread /\ x.called = <<>>
           /\ x.type = p.type /\ x.modern = p.modern
BY DEF Fresh, IsParser, Fields

(* The invariant holds initially.                                          *)
LEMMA ParserStarts == ParserInit => ParserInv
<1> SUFFICES ASSUME ParserInit PROVE ParserInv
  OBVIOUS
<1>1. /\ parser = NewParser /\ len = 0 /\ pos = 0
      /\ owed = [f \in Parts |-> 0]
      /\ header = 0 /\ declared = 0 /\ body = 0
  BY DEF ParserInit
<1>2. /\ IsParser(parser) /\ parser.state = "s_start_req_or_res"
      /\ ~parser.returned /\ parser.given = [f \in Parts |-> 0]
  <2>1. /\ parser = [k \in Fields |-> parser[k]]
        /\ parser.nread = 0 /\ parser.length = -1
        /\ parser.mark = [f \in Parts |-> NoMark]
        /\ parser.given = [f \in Parts |-> 0]
    BY <1>1 DEF NewParser, Fields
  <2>2. parser.state = "s_start_req_or_res" /\ parser.returned = FALSE
    BY <1>1 DEF NewParser
  <2> QED  BY <2>1, <2>2 DEF IsParser, NoMark
<1>3. LengthOK(parser) /\ LineOK(parser) /\ parser.state \in States
  BY <1>2 DEF LengthOK, LineOK, States, StartStates, LineStates, UrlStates
<1>4. PlaceInv
  BY <1>1, <1>2, <1>3 DEF PlaceInv
<1>5. OwedInv
  BY <1>1, <1>2 DEF OwedInv
<1>6. BodyInv
  BY <1>1, <1>2 DEF BodyInv, BodyIsFramed
<1>7. Phase(parser) = "between"
  BY <1>2, Phases DEF StartStates
<1>8. HeaderInv
  BY <1>1, <1>7, HTTPParserAssumption DEF HeaderInv, HeaderIsLimited
<1> QED  BY <1>4, <1>5, <1>6, <1>8 DEF ParserInv

(* So does the start of a packet.                                          *)
LEMMA ExecuteStep ==
    ASSUME ParserInv, NEW n \in 1..MaxPacket, Execute(n)
    PROVE  /\ ParserInv'
           /\ Told(Phase(parser), Phase(parser'), parser'.called)
<1> DEFINE x == Fresh(parser)
           marks == Marks(parser)
<1>1. /\ len = 0 /\ ~parser.returned /\ len' = n /\ pos' = 0
      /\ parser' = [x EXCEPT !.mark = marks]
      /\ UNCHANGED <<owed, header, declared, body>>
      /\ IsParser(parser) /\ n \in Nat
  BY HTTPParserAssumption DEF Execute, ParserInv, PlaceInv
<1>2. /\ IsParser(x) /\ x.state = parser.state /\ x.flags = parser.flags
      /\ x.length = parser.length /\ x.returned = parser.returned
      /\ x.given = parser.given /\ x.modern = parser.modern
      /\ x.nread = parser.nread /\ x.called = <<>>
  BY <1>1, FreshAlone
<1>3. marks \in [Parts -> Int]
      /\ \A f \in Parts : marks[f] = IF Within(f, parser.state)
                                     THEN 0 ELSE NoMark
  BY DEF Marks, NoMark
<1> HIDE DEF x, marks
<1>4. /\ IsParser(parser') /\ parser'.state = parser.state
      /\ parser'.flags = parser.flags /\ parser'.length = parser.length
      /\ parser'.returned = parser.returned /\ parser'.given = parser.given
      /\ parser'.nread = parser.nread /\ parser'.called = <<>>
      /\ parser'.mark = marks /\ parser'.modern = parser.modern
  BY <1>1, <1>2, <1>3 DEF IsParser, Fields
<1>5. Phase(parser') = Phase(parser)
  BY <1>4, PhaseKept
<1>6. PlaceInv'
  BY <1>1, <1>4 DEF ParserInv, PlaceInv, LengthOK, LineOK
<1>7. OwedInv'
  <2>1. owed \in [Parts -> Int]
        /\ \A f \in Parts : owed[f] = 0 /\ parser.given[f] = 0
    BY <1>1 DEF ParserInv, OwedInv
  <2>2. \A f \in Parts :
           /\ parser'.given[f] = 0
           /\ IF Within(f, parser'.state)
              THEN parser'.mark[f] = 0 /\ owed'[f] = 0
              ELSE parser'.mark[f] = NoMark /\ owed'[f] = 0
    BY <1>1, <1>3, <1>4, <2>1
  <2> QED  BY <1>1, <2>1, <2>2 DEF OwedInv
<1>8. BodyInv'
  BY <1>1, <1>4 DEF ParserInv, BodyInv, BodyIsFramed
<1>9. HeaderInv'
  BY <1>1, <1>4, <1>5 DEF ParserInv, HeaderInv, HeaderIsLimited
<1> QED  BY <1>4, <1>5, <1>6, <1>7, <1>8, <1>9 DEF ParserInv, Told

(* So do the bytes of a body.                                              *)
LEMMA BodyBytesStep ==
    ASSUME ParserInv, BodyBytes
    PROVE  /\ ParserInv'
           /\ Told(Phase(parser), Phase(parser'), parser'.called)
<1> DEFINE x == Fresh(parser)
           m == len - pos
           n == ToRead(parser, m)
<1>1. /\ pos < len /\ ~parser.returned /\ parser.state \in BodyStates
      /\ parser' = Body(x, n) /\ pos' = pos + IF n > 0 THEN n ELSE 1
      /\ body' = body + IF parser.state = "s_body_identity_eof" THEN 0 ELSE n
      /\ UNCHANGED <<len, owed, header, declared>>
      /\ IsParser(parser) /\ len \in Nat /\ pos \in 0..len
  BY DEF BodyBytes, ParserInv, PlaceInv
<1>2. /\ IsParser(x) /\ x.state = parser.state /\ x.flags = parser.flags
      /\ x.length = parser.length /\ x.returned = parser.returned
      /\ x.mark = parser.mark /\ x.given = parser.given
      /\ x.nread = parser.nread /\ x.called = <<>>
      /\ x.modern = parser.modern
  BY <1>1, FreshAlone
<1>3. n = ToRead(x, m)
  BY <1>2 DEF ToRead
<1> HIDE DEF x, n
<1>4. Ready(x) /\ Phase(x) = Phase(parser)
  BY <1>1, <1>2, FreshIsReady DEF ParserInv
<1>5. m \in Nat /\ m > 0
  BY <1>1
<1> HIDE DEF m
<1>6. /\ Step(x, parser', 0) /\ SameMarks(x, parser')
      /\ n \in 1..m \/ (n \in Int /\ n < 0)
      /\ x.state = "s_body_identity_eof" => parser'.state = x.state
      /\ x.state # "s_body_identity_eof" =>
            IF n < x.length
            THEN /\ parser'.state = x.state /\ parser'.length = x.length - n
                 /\ n > 0
            ELSE /\ n = x.length
                 /\ parser'.state \notin {"s_body_identity", "s_chunk_data"}
  BY <1>1, <1>2, <1>3, <1>4, <1>5, BodyStep
<1>7. Told(Phase(parser), Phase(parser'), parser'.called)
  BY <1>4, <1>6 DEF Step
<1>8. PlaceInv'
  BY <1>1, <1>6 DEF Step, PlaceInv, m
<1>9. OwedInv'
  <2>1. parser.state \notin UrlStates \cup {"s_header_field",
                                            "s_header_value"}
    BY <1>1 DEF BodyStates, UrlStates
  <2>2. owed \in [Parts -> Int]
        /\ \A f \in Parts : /\ parser.mark[f] = NoMark /\ owed[f] = 0
                            /\ parser.given[f] = 0
    BY <1>1, <2>1, WithinNone DEF ParserInv, OwedInv
  <2>3. \A f \in Parts : parser'.mark[f] = NoMark /\ parser'.given[f] = 0
    BY <1>2, <1>6, <2>2 DEF SameMarks
  <2>4. ~parser'.returned => \A f \in Parts : ~Within(f, parser'.state)
    BY <1>2, <1>6, <2>1, <2>3, WithinNone DEF Step, PartsStep, NoMark
  <2> QED  BY <1>1, <2>2, <2>3, <2>4 DEF OwedInv
<1>10. BodyInv'
  <2>1. /\ body \in Int /\ declared \in Int /\ n \in Int
        /\ parser.length \in Int /\ parser'.length \in Int
        /\ IF parser.state \in {"s_body_identity", "s_chunk_data"}
           THEN /\ body + parser.length = declared
                /\ declared > 0 => body < declared
           ELSE body = declared
        /\ parser.state = "s_body_identity" => parser.length > 0
        /\ parser.state = "s_chunk_data" => parser.length # 0
        /\ parser'.state \in {"s_body_identity", "s_chunk_data"} =>
              parser'.length # 0
    BY <1>1, <1>6 DEF ParserInv, BodyInv, BodyIsFramed, IsParser, SameMarks,
                      PlaceInv, LengthOK, Step
  <2>2. CASE parser.state = "s_body_identity_eof"
    BY <1>1, <1>2, <1>6, <2>1, <2>2 DEF BodyInv, BodyIsFramed
  <2>3. CASE parser.state # "s_body_identity_eof" /\ n < parser.length
    BY <1>1, <1>2, <1>6, <2>1, <2>3 DEF BodyInv, BodyIsFramed, BodyStates
  <2>4. CASE parser.state # "s_body_identity_eof" /\ ~(n < parser.length)
    BY <1>1, <1>2, <1>6, <2>1, <2>4 DEF BodyInv, BodyIsFramed, BodyStates
  <2> QED  BY <2>2, <2>3, <2>4
<1>11. HeaderInv'
  <2>1. Phase(parser) \in {"body", "lastBody"}
    BY <1>1, Phases DEF BodyPhase
  <2>2. Phase(parser') \notin {"line", "headers"}
    BY <1>7, <2>1 DEF Told
  <2> QED  BY <1>1, <2>2 DEF ParserInv, HeaderInv, HeaderIsLimited
<1> QED  BY <1>7, <1>8, <1>9, <1>10, <1>11 DEF ParserInv

(* So does the end of a packet.                                            *)
LEMMA ReturnStep ==
    ASSUME ParserInv, Return
    PROVE  /\ ParserInv'
           /\ Told(Phase(parser), Phase(parser'), parser'.called)
<1> DEFINE x == Fresh(parser)
           y == GiveAll(x, ReturnOrder, pos)
           z == Settled(y)
<1>1. /\ len > 0 /\ pos = len /\ ~parser.returned
      /\ parser' = [z EXCEPT !.index = @ % 256]
      /\ owed' = Owed(y, 0) /\ len' = 0 /\ pos' = 0
      /\ UNCHANGED <<header, declared, body>>
      /\ IsParser(parser) /\ len \in Nat /\ pos \in Int
  BY DEF Return, ReturnOrder, ParserInv, PlaceInv
<1>2. /\ IsParser(x) /\ x.state = parser.state /\ x.flags = parser.flags
      /\ x.length = parser.length /\ x.returned = parser.returned
      /\ x.mark = parser.mark /\ x.given = parser.given
      /\ x.nread = parser.nread /\ x.called = <<>>
      /\ x.modern = parser.modern
  BY <1>1, FreshAlone
<1> HIDE DEF x
<1>3. Ready(x) /\ Phase(x) = Phase(parser)
  BY <1>1, <1>2, FreshIsReady DEF ParserInv
<1>4. /\ Turned(x, y, {}, Open(x.state), pos)
      /\ Told(Phase(x), Phase(x), y.called)
  BY <1>1, <1>3, ReturnGives
<1> HIDE DEF y
<1>5. /\ IsParser(y) /\ y.state = x.state /\ y.nread = x.nread
      /\ y.flags = x.flags /\ y.length = x.length /\ y.returned = x.returned
      /\ y.modern = x.modern
      /\ \A h \in Parts :
            y.given[h] = IF Within(h, x.state) THEN pos - x.mark[h] ELSE 0
  BY <1>4 DEF Turned, Open
<1>6. Kept(y, z) /\ z.given = [f \in Parts |-> 0]
  BY <1>5, SettledKeeps
<1> HIDE DEF z
<1>7. Kept(y, parser') /\ parser'.given = [f \in Parts |-> 0]
  <2>1. PICK i : parser' = [z EXCEPT !.index = i]
    BY <1>1
  <2> QED  BY <1>6, <2>1 DEF Kept, IsParser, Fields
<1>8. Phase(parser') = Phase(parser)
  BY <1>2, <1>5, <1>7, PhaseKept DEF Kept
<1>9. Told(Phase(parser), Phase(parser'), parser'.called)
  BY <1>3, <1>4, <1>7, <1>8 DEF Kept
<1>10. /\ parser'.state = parser.state /\ parser'.flags = parser.flags
       /\ parser'.length = parser.length /\ parser'.nread = parser.nread
       /\ parser'.returned = parser.returned /\ IsParser(parser')
  BY <1>2, <1>5, <1>7 DEF Kept
<1>11. PlaceInv'
  BY <1>1, <1>10 DEF ParserInv, PlaceInv, LengthOK, LineOK
<1>12. OwedInv'
  <2>1. owed \in [Parts -> Int]
    BY DEF ParserInv, OwedInv
  <2>2. owed' \in [Parts -> Int]
    BY <1>1, <1>5, <2>1 DEF Owed, IsParser
  <2>3. ASSUME NEW f \in Parts
        PROVE  owed'[f] = 0
    <3>1. IF Within(f, x.state)
          THEN /\ parser.mark[f] \in 0..pos
               /\ owed[f] = pos - parser.mark[f]
          ELSE owed[f] = 0
      BY <1>1, <1>2 DEF ParserInv, OwedInv
    <3>2. owed'[f] = owed[f] - y.given[f]
                     + IF Within(f, y.state) THEN 0 ELSE 0
      BY <1>1 DEF Owed
    <3>3. x.mark[f] = parser.mark[f]
      BY <1>2
    <3> QED  BY <1>1, <1>5, <3>1, <3>2, <3>3
  <2> QED  BY <1>1, <1>7, <2>2, <2>3 DEF OwedInv
<1>13. BodyInv'
  BY <1>1, <1>10 DEF ParserInv, BodyInv, BodyIsFramed
<1>14. HeaderInv'
  BY <1>1, <1>8, <1>10 DEF ParserInv, HeaderInv, HeaderIsLimited
<1> QED  BY <1>9, <1>11, <1>12, <1>13, <1>14 DEF ParserInv

-----------------------------------------------------------------------------
(* The theorems.                                                           *)
(* Every step keeps the invariant, and is a step of the dialogue or none.  *)
LEMMA ParserSteps ==
    ASSUME ParserInv, [ParserNext]_parserVars
    PROVE  /\ ParserInv'
           /\ \/ Told(Phase(parser), Phase(parser'), parser'.called)
              \/ UNCHANGED parser
<1>1. CASE \E n \in 1..MaxPacket : Execute(n)
  BY <1>1, ExecuteStep
<1>2. CASE \E ch \in Chars : Byte(ch)
  BY <1>2, ByteStep
<1>3. CASE BodyBytes
  BY <1>3, BodyBytesStep
<1>4. CASE Return
  BY <1>4, ReturnStep
<1>5. CASE UNCHANGED parserVars
  <2>1. UNCHANGED <<parser, len, pos, owed, header, declared, body>>
    BY <1>5 DEF parserVars
  <2> QED  BY <2>1 DEF ParserInv, PlaceInv, OwedInv, BodyInv, HeaderInv,
              BodyIsFramed, HeaderIsLimited
<1> QED  BY <1>1, <1>2, <1>3, <1>4, <1>5 DEF ParserNext

(* The invariant holds throughout: the parser's place, its marks and its   *)
(* counts agree, in whatever packets the bytes come.                       *)
THEOREM ParserStaysRight == ParserSpec => []ParserInv
<1>1. ParserInv /\ [ParserNext]_parserVars => ParserInv'
  BY ParserSteps
<1> QED  BY ParserStarts, <1>1, PTL DEF ParserSpec

(* http_parser_execute() counts every byte of a header, over all packets, and*)
(* fails when there are more than HTTP_MAX_HEADER_SIZE of them.            *)
THEOREM HeadersAreLimited == ParserSpec => []HeaderIsLimited
<1>1. ParserInv => HeaderIsLimited
  BY DEF ParserInv, HeaderInv
<1> QED  BY ParserStaysRight, <1>1, PTL

(* The bytes given to on_body() are as many as content_length said when    *)
(* they began, for a body and for a chunk, in whatever packets they come.  *)
THEOREM BodiesAreFramed == ParserSpec => []BodyIsFramed
<1>1. ParserInv => BodyIsFramed
  BY DEF ParserInv, BodyInv
<1> QED  BY ParserStaysRight, <1>1, PTL

(* Every byte of a URL, of its parts, and of a header's name and value is  *)
(* given in a callback once, wherever the packets end.                     *)
THEOREM EveryPartIsGiven == ParserSpec => []EveryByteIsGiven
<1>1. ParserInv => EveryByteIsGiven
  <2> SUFFICES ASSUME ParserInv, ~parser.returned, NEW f \in Parts
               PROVE  /\ owed[f] >= 0
                      /\ len = 0 \/ ~Within(f, parser.state) => owed[f] = 0
    BY DEF EveryByteIsGiven
  <2>1. IF len = 0 THEN owed[f] = 0
        ELSE IF Within(f, parser.state)
        THEN parser.mark[f] \in 0..pos /\ owed[f] = pos - parser.mark[f]
        ELSE owed[f] = 0
    BY DEF ParserInv, OwedInv
  <2>2. pos \in Int
    BY DEF ParserInv, PlaceInv
  <2> QED  BY <2>1, <2>2
<1> QED  BY ParserStaysRight, <1>1, PTL

(* Told are the steps of HTTPDialogue.tla.                                 *)
LEMMA ToldIsDialogue ==
    ASSUME Told(Phase(parser), Phase(parser'), parser'.called)
    PROVE  Dialogue!Next
<1> DEFINE p == Phase(parser)
           q == Phase(parser')
           c == parser'.called
           U == {"url", "path", "queryString", "fragment"}
<1>1. CASE c = <<>> /\ \/ q \in {p, "dead"}
                       \/ p = "line" /\ q = "headers"
                       \/ p \in {"body", "lastBody"} /\ q = "trailer"
  BY <1>1 DEF Dialogue!Next, Dialogue!Silent
<1>2. CASE p = "between" /\ c = <<"messageBegin">>
           /\ q \in {"between", "line", "dead"}
  BY <1>2 DEF Dialogue!Next, Dialogue!Begin
<1>3. ASSUME p = "line", q \in {"line", "headers"}, NEW f \in U, c = <<f>>
      PROVE  Dialogue!Next
  <2>1. Len(c) = 1 /\ c[1] = f
    BY <1>3
  <2> HIDE DEF c
  <2>2. Len(c) \in 1..2 /\ Len(c) # 2 /\ \A i \in 1..Len(c) : c[i] \in U
    BY <1>3, <2>1
  <2> QED  BY <1>3, <2>2 DEF Dialogue!Next, Dialogue!Line, Dialogue!UrlParts, c
<1>4. ASSUME p = "line", q \in {"line", "headers"}, NEW f \in U, NEW g \in U,
             f # g, c = <<f, g>>
      PROVE  Dialogue!Next
  <2>1. Len(c) = 2 /\ c[1] = f /\ c[2] = g
    BY <1>4
  <2> HIDE DEF c
  <2>2. Len(c) \in 1..2 /\ c[1] # c[2] /\ \A i \in 1..Len(c) : c[i] \in U
    BY <1>4, <2>1
  <2> QED  BY <1>4, <2>2 DEF Dialogue!Next, Dialogue!Line, Dialogue!UrlParts, c
<1>5. CASE p \in {"headers", "trailer"} /\ c \in {<<"field">>, <<"value">>}
           /\ q = p
  BY <1>5 DEF Dialogue!Next, Dialogue!Header
<1>6. CASE /\ p = "headers"
           /\ \/ c = <<"complete">> /\ q = "body"
              \/ c = <<"closing">> /\ q = "lastBody"
              \/ c = <<"complete", "messageComplete">>
                 /\ q \in {"between", "dead"}
              \/ c = <<"closing", "messageComplete">> /\ q = "dead"
  BY <1>6 DEF Dialogue!Next, Dialogue!HeadersEnd
<1>7. CASE /\ p \in {"body", "lastBody"}
           /\ \/ c = <<"body">> /\ q = p
              \/ /\ c = <<"body", "messageComplete">>
                 /\ q \in {"dead"}
                         \cup (IF p = "body" THEN {"between"} ELSE {})
  BY <1>7 DEF Dialogue!Next, Dialogue!Body
<1>8. CASE p = "trailer" /\ c = <<"messageComplete">>
           /\ q \in {"between", "dead"}
  BY <1>8 DEF Dialogue!Next, Dialogue!TrailerEnd
<1> QED  BY <1>1, <1>2, <1>3, <1>4, <1>5, <1>6, <1>7, <1>8 DEF Told

(* The parser implements HTTPDialogue.tla: its callbacks come in the promised*)
(* order, whatever the bytes.                                              *)
THEOREM ParserKeepsTheDialogue == ParserSpec => ImplementsDialogue
<1>1. ParserInit => Dialogue!Init
  <2>1. ASSUME ParserInit
        PROVE  /\ parser.state = "s_start_req_or_res" /\ ~parser.returned
               /\ parser.called = <<>>
    BY <2>1 DEF ParserInit, NewParser
  <2>2. ASSUME ParserInit
        PROVE  Phase(parser) = "between"
    BY <2>1, <2>2, Phases DEF StartStates
  <2> QED  BY <2>1, <2>2 DEF Dialogue!Init
<1>2. ParserInv /\ [ParserNext]_parserVars
      => [Dialogue!Next]_<<Phase(parser), parser.called>>
  <2>1. ASSUME UNCHANGED parser
        PROVE  UNCHANGED <<Phase(parser), parser.called>>
    BY <2>1
  <2> QED  BY <2>1, ParserSteps, ToldIsDialogue
<1> QED  BY ParserStaysRight, <1>1, <1>2, PTL
         DEF ParserSpec, ImplementsDialogue, Dialogue!Spec

-----------------------------------------------------------------------------
(* The messages a session can hold, as far as the proofs look at them.     *)
Strings == {"method", "path", "queryString", "fragment", "version"}
AnyMessage == [time : {0}, strings : SUBSET Strings, statuses : Nat,
               headers : Int]

(* A session.                                                              *)
SessionFields == {"time", "parsers", "requestState", "responseState",
                  "requests", "responses"}
IsSession(s) ==
    /\ s = [k \in SessionFields |-> s[k]]
    /\ s.requests \in Seq(AnyMessage) /\ s.responses \in Seq(AnyMessage)

(* The last request and the last response of a session.                    *)
LastRequest(s)  == s.requests[Len(s.requests)]
LastResponse(s) == s.responses[Len(s.responses)]

(* What the callbacks of one side do not touch.                            *)
OtherRequests(s, t) ==
    IsSession(t) /\ t.requests = s.requests /\ t.requestState = s.requestState
OtherResponses(s, t) ==
    /\ IsSession(t)
    /\ t.responses = s.responses /\ t.responseState = s.responseState

(* A message that has just been made.                                      *)
LEMMA MessageIs ==
    ASSUME NEW m, m = Message(0)
    PROVE  /\ m \in AnyMessage
           /\ m.strings = {} /\ m.statuses = 0 /\ m.headers = 0
BY DEF Message, AnyMessage

(* A message with other strings, statuses or headers.                      *)
LEMMA MessageWith ==
    ASSUME NEW m \in AnyMessage
    PROVE  /\ \A a \in SUBSET Strings :
                 LET k == [m EXCEPT !.strings = a]
                 IN  k \in AnyMessage /\ k.strings = a
                     /\ k.headers = m.headers /\ k.statuses = m.statuses
           /\ \A h \in Int :
                 LET k == [m EXCEPT !.headers = h]
                 IN  k \in AnyMessage /\ k.headers = h
                     /\ k.strings = m.strings /\ k.statuses = m.statuses
           /\ \A n \in Nat :
                 LET k == [m EXCEPT !.statuses = n]
                 IN  k \in AnyMessage /\ k.statuses = n
                     /\ k.strings = m.strings /\ k.headers = m.headers
BY DEF AnyMessage

(* A sequence of messages with another last one, or one more.              *)
LEMMA LastWith ==
    ASSUME NEW q \in Seq(AnyMessage), NEW k \in AnyMessage
    PROVE  /\ Len(q) \in Nat
           /\ Append(q, k) \in Seq(AnyMessage)
           /\ Len(Append(q, k)) = Len(q) + 1
           /\ Append(q, k)[Len(q) + 1] = k
           /\ Len(q) > 0 =>
                 /\ q[Len(q)] \in AnyMessage
                 /\ [q EXCEPT ![Len(q)] = k] \in Seq(AnyMessage)
                 /\ Len([q EXCEPT ![Len(q)] = k]) = Len(q)
                 /\ [q EXCEPT ![Len(q)] = k][Len(q)] = k
OBVIOUS

(* A session with other requests, or with other responses.                 *)
WithRequests(s, q, r) == [s EXCEPT !.requests = q, !.requestState = r]
WithResponses(s, q, r) == [s EXCEPT !.responses = q, !.responseState = r]

(* The rest of it is the same.                                             *)
LEMMA RequestWith ==
    ASSUME NEW s, IsSession(s), NEW q \in Seq(AnyMessage), NEW r,
           NEW t, t = WithRequests(s, q, r)
    PROVE  OtherResponses(s, t) /\ t.requests = q /\ t.requestState = r
BY DEF IsSession, SessionFields, OtherResponses, WithRequests

(* The same of its responses.                                              *)
LEMMA ResponseWith ==
    ASSUME NEW s, IsSession(s), NEW q \in Seq(AnyMessage), NEW r,
           NEW t, t = WithResponses(s, q, r)
    PROVE  OtherRequests(s, t) /\ t.responses = q /\ t.responseState = r
BY DEF IsSession, SessionFields, OtherRequests, WithResponses

(* NewRequest appends an empty request.                                    *)
LEMMA NewRequestIs ==
    ASSUME NEW s, IsSession(s), NEW t, t = NewRequest(s, 0)
    PROVE  /\ OtherResponses(s, t) /\ t.requestState = s.requestState
           /\ Len(t.requests) = Len(s.requests) + 1
           /\ LastRequest(t) = Message(0)
<1> DEFINE q == Append(s.requests, Message(0))
           r == s.requestState
<1>1. /\ q \in Seq(AnyMessage) /\ Len(q) = Len(s.requests) + 1
      /\ q[Len(q)] = Message(0)
  BY MessageIs, LastWith DEF IsSession
<1>2. t = WithRequests(s, q, r)
  BY DEF NewRequest, IsSession, SessionFields, WithRequests
<1> HIDE DEF q, r
<1>3. OtherResponses(s, t) /\ t.requests = q /\ t.requestState = r
  BY <1>1, <1>2, RequestWith
<1> QED  BY <1>1, <1>3 DEF LastRequest, r

(* So does NewResponse.                                                    *)
LEMMA NewResponseIs ==
    ASSUME NEW s, IsSession(s), NEW t, t = NewResponse(s, 0)
    PROVE  /\ OtherRequests(s, t) /\ t.responseState = s.responseState
           /\ Len(t.responses) = Len(s.responses) + 1
           /\ LastResponse(t) = Message(0)
<1> DEFINE q == Append(s.responses, Message(0))
           r == s.responseState
<1>1. /\ q \in Seq(AnyMessage) /\ Len(q) = Len(s.responses) + 1
      /\ q[Len(q)] = Message(0)
  BY MessageIs, LastWith DEF IsSession
<1>2. t = WithResponses(s, q, r)
  BY DEF NewResponse, IsSession, SessionFields, WithResponses
<1> HIDE DEF q, r
<1>3. OtherRequests(s, t) /\ t.responses = q /\ t.responseState = r
  BY <1>1, <1>2, ResponseWith
<1> QED  BY <1>1, <1>3 DEF LastResponse, r

(* Set adds a string to the last request; what is read next is r.          *)
SetTo(s, w, r) == [Set(s, w) EXCEPT !.requestState = r]

(* Nothing else of the request changes but the string.                     *)
LEMMA SetIs ==
    ASSUME NEW s, IsSession(s), Len(s.requests) > 0, NEW w \in Strings,
           NEW r, NEW t, t = SetTo(s, w, r)
    PROVE  /\ OtherResponses(s, t) /\ t.requestState = r
           /\ Len(t.requests) = Len(s.requests)
           /\ LastRequest(t).strings = LastRequest(s).strings \cup {w}
           /\ LastRequest(t).headers = LastRequest(s).headers
<1> DEFINE n == Len(s.requests)
           m == s.requests[n]
           k == [m EXCEPT !.strings = m.strings \cup {w}]
           q == [s.requests EXCEPT ![n] = k]
<1>1. /\ m \in AnyMessage /\ m.strings \cup {w} \in SUBSET Strings
  <2>1. m \in AnyMessage
    BY LastWith, MessageIs DEF IsSession
  <2> HIDE DEF m
  <2> QED  BY <2>1 DEF AnyMessage
<1>2. /\ k \in AnyMessage /\ k.strings = m.strings \cup {w}
      /\ k.headers = m.headers
  <2> HIDE DEF m
  <2> QED  BY <1>1, MessageWith
<1>3. t = WithRequests(s, q, r)
  BY DEF SetTo, Set, IsSession, SessionFields, WithRequests
<1> HIDE DEF k
<1>4. q \in Seq(AnyMessage) /\ Len(q) = n /\ q[n] = k
  BY <1>2, LastWith DEF IsSession
<1> HIDE DEF q
<1>5. OtherResponses(s, t) /\ t.requests = q /\ t.requestState = r
  BY <1>3, <1>4, RequestWith
<1> QED  BY <1>2, <1>4, <1>5 DEF LastRequest

-----------------------------------------------------------------------------
(* What each callback makes of the session.                                *)
(* A request begins with the part of its URL that is given first.          *)
LEMMA UrlIs ==
    ASSUME NEW s, IsSession(s), NEW t, t = url(s, 0),
           s.requestState = "path" => Len(s.requests) > 0
    PROVE  /\ OtherResponses(s, t) /\ t.requestState = "url"
           /\ "method" \in LastRequest(t).strings
           /\ IF s.requestState = "path"
              THEN /\ Len(t.requests) = Len(s.requests)
                   /\ LastRequest(t).headers = LastRequest(s).headers
              ELSE /\ Len(t.requests) = Len(s.requests) + 1
                   /\ LastRequest(t).headers = 0
<1>0. Len(s.requests) \in Nat /\ "method" \in Strings
  BY DEF IsSession, Strings
<1>1. CASE s.requestState = "path"
  <2>1. t = SetTo(s, "method", "url")
    BY <1>1 DEF url, SetTo
  <2> QED  BY <1>0, <1>1, <2>1, SetIs
<1>2. CASE s.requestState # "path"
  <2> DEFINE y == NewRequest(s, 0)
  <2>1. /\ OtherResponses(s, y) /\ Len(y.requests) = Len(s.requests) + 1
        /\ LastRequest(y).headers = 0
    BY NewRequestIs, MessageIs
  <2>2. t = SetTo(y, "method", "url")
    BY <1>2 DEF url, SetTo
  <2> HIDE DEF y
  <2>3. IsSession(y) /\ Len(y.requests) > 0
    BY <1>0, <2>1 DEF OtherResponses
  <2>4. /\ OtherResponses(y, t) /\ t.requestState = "url"
        /\ Len(t.requests) = Len(y.requests)
        /\ LastRequest(t).strings = LastRequest(y).strings \cup {"method"}
        /\ LastRequest(t).headers = LastRequest(y).headers
    BY <1>0, <2>2, <2>3, SetIs
  <2> QED  BY <1>2, <2>1, <2>4 DEF OtherResponses
<1> QED  BY <1>1, <1>2

(* So does it with its path.                                               *)
LEMMA PathIs ==
    ASSUME NEW s, IsSession(s), NEW t, t = path(s, 0),
           s.requestState = "url" => Len(s.requests) > 0
    PROVE  /\ OtherResponses(s, t) /\ t.requestState = "path"
           /\ IF s.requestState = "url"
              THEN /\ Len(t.requests) = Len(s.requests)
                   /\ LastRequest(s).strings \subseteq LastRequest(t).strings
                   /\ LastRequest(t).headers = LastRequest(s).headers
              ELSE /\ Len(t.requests) = Len(s.requests) + 1
                   /\ LastRequest(t).headers = 0
<1>0. Len(s.requests) \in Nat /\ "path" \in Strings
  BY DEF IsSession, Strings
<1>1. CASE s.requestState = "url"
  <2>1. t = SetTo(s, "path", "path")
    BY <1>1 DEF path, SetTo
  <2>2. /\ OtherResponses(s, t) /\ t.requestState = "path"
        /\ Len(t.requests) = Len(s.requests)
        /\ LastRequest(t).strings = LastRequest(s).strings \cup {"path"}
        /\ LastRequest(t).headers = LastRequest(s).headers
    BY <1>0, <1>1, <2>1, SetIs
  <2> QED  BY <1>1, <2>2
<1>2. CASE s.requestState # "url"
  <2> DEFINE y == NewRequest(s, 0)
  <2>1. /\ OtherResponses(s, y) /\ Len(y.requests) = Len(s.requests) + 1
        /\ LastRequest(y).headers = 0
    BY NewRequestIs, MessageIs
  <2>2. t = SetTo(y, "path", "path")
    BY <1>2 DEF path, SetTo
  <2> HIDE DEF y
  <2>3. IsSession(y) /\ Len(y.requests) > 0
    BY <1>0, <2>1 DEF OtherResponses
  <2>4. /\ OtherResponses(y, t) /\ t.requestState = "path"
        /\ Len(t.requests) = Len(y.requests)
        /\ LastRequest(t).headers = LastRequest(y).headers
    BY <1>0, <2>2, <2>3, SetIs
  <2> QED  BY <1>2, <2>1, <2>4 DEF OtherResponses
<1> QED  BY <1>1, <1>2

(* The other parts are added to it.                                        *)
LEMMA SetKeeps ==
    ASSUME NEW s, IsSession(s), Len(s.requests) > 0, NEW w \in Strings,
           NEW t, t = Set(s, w)
    PROVE  /\ OtherResponses(s, t) /\ t.requestState = s.requestState
           /\ Len(t.requests) = Len(s.requests)
           /\ LastRequest(s).strings \subseteq LastRequest(t).strings
           /\ LastRequest(t).headers = LastRequest(s).headers
<1> DEFINE r == s.requestState
<1>1. t = SetTo(s, w, r)
  BY DEF SetTo, Set, IsSession, SessionFields
<1> HIDE DEF r
<1>2. /\ OtherResponses(s, t) /\ t.requestState = r
      /\ Len(t.requests) = Len(s.requests)
      /\ LastRequest(t).strings = LastRequest(s).strings \cup {w}
      /\ LastRequest(t).headers = LastRequest(s).headers
  BY <1>1, SetIs
<1> QED  BY <1>2 DEF r

(* A request's headers are complete.                                       *)
LEMMA RequestCompleteIs ==
    ASSUME NEW s, IsSession(s), Len(s.requests) > 0, NEW t,
           \/ t = headersComplete(s, "client", 0, TRUE)
           \/ t = headersComplete(s, "client", 0, FALSE)
    PROVE  /\ OtherResponses(s, t) /\ t.requestState = "complete"
           /\ Len(t.requests) = Len(s.requests)
           /\ LastRequest(t).strings = LastRequest(s).strings \cup {"version"}
           /\ LastRequest(t).headers = LastRequest(s).headers
<1>1. t = SetTo(s, "version", "complete") /\ "version" \in Strings
  BY DEF headersComplete, SetTo, Strings
<1> QED  BY <1>1, SetIs

(* The last message of a session becomes another, k.                       *)
LEMMA LastRequestWith ==
    ASSUME NEW s, IsSession(s), NEW k, NEW r, NEW q \in Seq(AnyMessage),
           Len(q) = Len(s.requests), q[Len(q)] = k,
           NEW t, t = WithRequests(s, q, r)
    PROVE  /\ OtherResponses(s, t) /\ t.requestState = r
           /\ Len(t.requests) = Len(s.requests) /\ LastRequest(t) = k
BY RequestWith DEF LastRequest

(* The same of the last response.                                          *)
LEMMA LastResponseWith ==
    ASSUME NEW s, IsSession(s), NEW k, NEW r, NEW q \in Seq(AnyMessage),
           Len(q) = Len(s.responses), q[Len(q)] = k,
           NEW t, t = WithResponses(s, q, r)
    PROVE  /\ OtherRequests(s, t) /\ t.responseState = r
           /\ Len(t.responses) = Len(s.responses) /\ LastResponse(t) = k
BY ResponseWith DEF LastResponse

(* The last message of a session is one.                                   *)
LEMMA LastIs ==
    ASSUME NEW s, IsSession(s)
    PROVE  /\ Len(s.requests) > 0 => LastRequest(s) \in AnyMessage
           /\ Len(s.responses) > 0 => LastResponse(s) \in AnyMessage
BY LastWith, MessageIs DEF IsSession, LastRequest, LastResponse

(* A part of a request's header name: of a new header, or of the same.     *)
LEMMA RequestFieldIs ==
    ASSUME NEW s, IsSession(s), Len(s.requests) > 0,
           NEW t, t = headerField(s, "client", 0)
    PROVE  /\ OtherResponses(s, t) /\ t.requestState = "field"
           /\ Len(t.requests) = Len(s.requests)
           /\ LastRequest(t).strings = LastRequest(s).strings
           /\ LastRequest(t).headers =
                 IF s.requestState = "field" THEN LastRequest(s).headers
                 ELSE LastRequest(s).headers + 1
<1> DEFINE m == LastRequest(s)
           h == IF s.requestState = "field" THEN m.headers ELSE m.headers + 1
           k == [m EXCEPT !.headers = h]
           q == [s.requests EXCEPT ![Len(s.requests)] = k]
<1>1. m \in AnyMessage /\ h \in Int
  <2>1. m \in AnyMessage
    BY LastIs
  <2> HIDE DEF m
  <2> QED  BY <2>1 DEF AnyMessage
<1>2. k \in AnyMessage /\ k.headers = h /\ k.strings = m.strings
  <2> HIDE DEF m, h
  <2> QED  BY <1>1, MessageWith
<1>3. t = WithRequests(s, q, "field")
  BY DEF headerField, LastRequest, WithRequests, IsSession, SessionFields
<1> HIDE DEF k, h, q
<1>4. q \in Seq(AnyMessage) /\ Len(q) = Len(s.requests) /\ q[Len(q)] = k
  BY <1>2, LastWith DEF q, IsSession
<1>5. /\ OtherResponses(s, t) /\ t.requestState = "field"
      /\ Len(t.requests) = Len(s.requests) /\ LastRequest(t) = k
  BY <1>2, <1>3, <1>4, LastRequestWith
<1> QED  BY <1>2, <1>5 DEF h

(* Part of a request's header value.                                       *)
LEMMA RequestValueIs ==
    ASSUME NEW s, IsSession(s), NEW t, t = headerValue(s, "client")
    PROVE  /\ OtherResponses(s, t) /\ t.requestState = "value"
           /\ t.requests = s.requests
<1>1. s.requests \in Seq(AnyMessage)
  BY DEF IsSession
<1>2. t = WithRequests(s, s.requests, "value")
  BY DEF headerValue, WithRequests, IsSession, SessionFields
<1> QED  BY <1>1, <1>2, RequestWith

(* The same of a response; it begins with its first header.                *)
LEMMA ResponseFieldIs ==
    ASSUME NEW s, IsSession(s), NEW t, t = headerField(s, "server", 0),
           s.responseState \in {"field", "value"} => Len(s.responses) > 0
    PROVE  /\ OtherRequests(s, t) /\ t.responseState = "field"
           /\ IF s.responseState \in {"field", "value"}
              THEN /\ Len(t.responses) = Len(s.responses)
                   /\ LastResponse(t).statuses = LastResponse(s).statuses
                   /\ LastResponse(t).headers =
                         IF s.responseState = "field"
                         THEN LastResponse(s).headers
                         ELSE LastResponse(s).headers + 1
              ELSE /\ Len(t.responses) = Len(s.responses) + 1
                   /\ LastResponse(t).statuses = 0
                   /\ LastResponse(t).headers = 1
<1> DEFINE y == IF s.responseState \notin {"field", "value"}
                THEN NewResponse(s, 0) ELSE s
           m == LastResponse(y)
           h == IF y.responseState = "field" THEN m.headers ELSE m.headers + 1
           k == [m EXCEPT !.headers = h]
           q == [y.responses EXCEPT ![Len(y.responses)] = k]
<1>0. Len(s.responses) \in Nat
  BY DEF IsSession
<1>1. /\ OtherRequests(s, y) /\ y.responseState = s.responseState
      /\ Len(y.responses) > 0
      /\ IF s.responseState \in {"field", "value"} THEN y = s
         ELSE /\ Len(y.responses) = Len(s.responses) + 1
              /\ m = Message(0)
  BY <1>0, NewResponseIs DEF OtherRequests
<1>2. t = WithResponses(y, q, "field")
  <2> t = [y EXCEPT !.responses[Len(y.responses)].headers =
                           IF y.responseState = "field" THEN @ ELSE @ + 1,
                       !.responseState = "field"]
    BY DEF headerField
  <2>1. y = [f \in SessionFields |-> y[f]]
    BY <1>1 DEF OtherRequests, IsSession
  <2> HIDE DEF y
  <2> QED BY <2>1 DEF LastResponse, WithResponses, SessionFields
<1> HIDE DEF y
<1>3. IsSession(y)
  BY <1>1 DEF OtherRequests
<1>4. m \in AnyMessage /\ h \in Int
  <2>1. m \in AnyMessage
    BY <1>1, <1>3, LastIs
  <2> HIDE DEF m
  <2> QED  BY <2>1 DEF AnyMessage
<1>5. k \in AnyMessage /\ k.headers = h /\ k.statuses = m.statuses
  <2> HIDE DEF m, h
  <2> QED  BY <1>4, MessageWith
<1> HIDE DEF k, h, q
<1>6. q \in Seq(AnyMessage) /\ Len(q) = Len(y.responses) /\ q[Len(q)] = k
  BY <1>1, <1>3, <1>5, LastWith DEF q, IsSession
<1>7. /\ OtherRequests(y, t) /\ t.responseState = "field"
      /\ Len(t.responses) = Len(y.responses) /\ LastResponse(t) = k
  BY <1>1, <1>2, <1>3, <1>5, <1>6, LastResponseWith
<1>8. OtherRequests(s, t)
  BY <1>1, <1>7 DEF OtherRequests
<1>9. CASE s.responseState \in {"field", "value"}
  BY <1>1, <1>5, <1>7, <1>8, <1>9 DEF h
<1>10. CASE s.responseState \notin {"field", "value"}
  <2>1. m.headers = 0 /\ m.statuses = 0
    BY <1>1, <1>10, MessageIs
  <2> QED  BY <1>1, <1>5, <1>7, <1>8, <1>10, <2>1 DEF h
<1> QED  BY <1>9, <1>10

(* The same on the side of the server.                                     *)
LEMMA ResponseValueIs ==
    ASSUME NEW s, IsSession(s), NEW t, t = headerValue(s, "server")
    PROVE  /\ OtherRequests(s, t) /\ t.responseState = "value"
           /\ t.responses = s.responses
<1>1. s.responses \in Seq(AnyMessage)
  BY DEF IsSession
<1>2. t = WithResponses(s, s.responses, "value")
  BY DEF headerValue, WithResponses, IsSession, SessionFields
<1> QED  BY <1>1, <1>2, ResponseWith

(* A response's headers are complete: r says what is read next.            *)
CompletedAs(s, t, r) ==
    \/ t = headersComplete(s, "server", 0, TRUE) /\ r = "complete"
    \/ t = headersComplete(s, "server", 0, FALSE) /\ r = s.responseState

(* One without headers begins here.                                        *)
LEMMA ResponseCompleteIs ==
    ASSUME NEW s, IsSession(s), NEW t, NEW r,
           CompletedAs(s, t, r),
           s.responseState = "value" => Len(s.responses) > 0
    PROVE  /\ OtherRequests(s, t) /\ t.responseState = r
           /\ IF s.responseState = "value"
              THEN /\ Len(t.responses) = Len(s.responses)
                   /\ LastResponse(t).statuses = LastResponse(s).statuses + 1
                   /\ LastResponse(t).headers = LastResponse(s).headers
              ELSE /\ Len(t.responses) = Len(s.responses) + 1
                   /\ LastResponse(t).statuses = 1
                   /\ LastResponse(t).headers = 0
<1> DEFINE y == IF s.responseState # "value" THEN NewResponse(s, 0) ELSE s
           m == LastResponse(y)
           h == m.statuses + 1
           k == [m EXCEPT !.statuses = h]
           q == [y.responses EXCEPT ![Len(y.responses)] = k]
<1>0. Len(s.responses) \in Nat
  BY DEF IsSession
<1>1. /\ OtherRequests(s, y) /\ y.responseState = s.responseState
      /\ Len(y.responses) > 0
      /\ IF s.responseState = "value" THEN y = s
         ELSE /\ Len(y.responses) = Len(s.responses) + 1
              /\ m = Message(0)
  BY <1>0, NewResponseIs DEF OtherRequests
<1>2. t = WithResponses(y, q, r)
  <2> t = [y EXCEPT !.responses[Len(y.responses)].statuses = @ + 1,
                    !.responseState = r]
    BY <1>1 DEF CompletedAs, headersComplete
  <2>1. y = [f \in SessionFields |-> y[f]]
    BY <1>1 DEF OtherRequests, IsSession
  <2> HIDE DEF y
  <2> QED BY <2>1 DEF LastResponse, WithResponses, SessionFields
<1> HIDE DEF y
<1>3. IsSession(y)
  BY <1>1 DEF OtherRequests
<1>4. m \in AnyMessage /\ h \in Nat
  <2>1. m \in AnyMessage
    BY <1>1, <1>3, LastIs
  <2> HIDE DEF m
  <2> QED  BY <2>1 DEF AnyMessage
<1>5. k \in AnyMessage /\ k.statuses = h /\ k.headers = m.headers
  <2> HIDE DEF m, h
  <2> QED  BY <1>4, MessageWith
<1> HIDE DEF k, h, q
<1>6. q \in Seq(AnyMessage) /\ Len(q) = Len(y.responses) /\ q[Len(q)] = k
  BY <1>1, <1>3, <1>5, LastWith DEF q, IsSession
<1>7. /\ OtherRequests(y, t) /\ t.responseState = r
      /\ Len(t.responses) = Len(y.responses) /\ LastResponse(t) = k
  BY <1>1, <1>2, <1>3, <1>5, <1>6, LastResponseWith
<1>8. OtherRequests(s, t)
  BY <1>1, <1>7 DEF OtherRequests
<1>9. CASE s.responseState = "value"
  BY <1>1, <1>5, <1>7, <1>8, <1>9 DEF h
<1>10. CASE s.responseState # "value"
  <2>1. m.headers = 0 /\ m.statuses = 0
    BY <1>1, <1>10, MessageIs
  <2> QED  BY <1>1, <1>5, <1>7, <1>8, <1>10, <2>1 DEF h
<1> QED  BY <1>9, <1>10

-----------------------------------------------------------------------------
(* Assembled: the callbacks of a step, one after the other.                *)
(* s is the sequence of sessions that the callbacks of y make.             *)
LEMMA AssembledIs ==
    ASSUME NEW x, NEW y, Len(y.called) \in Nat, NEW side, NEW s,
           side = IF y.type = "request" THEN "client" ELSE "server",
           \A n \in 0..Len(y.called) :
               s[n] = IF n = 0 THEN x
                      ELSE Callback(s[n - 1], y.called[n], side, 0)
    PROVE  Assembled(x, y) = s[Len(y.called)]
<1> DEFINE L == Len(y.called)
           Next(g, n) == IF n = 0 THEN x
                         ELSE Callback(g[n - 1], y.called[n], side, 0)
           F(g) == g = [n \in 0..L |-> Next(g, n)]
           after == CHOOSE g : F(g)
           t == [n \in 0..L |-> s[n]]
<1>1. F(t)
  <2>1. ASSUME NEW n \in 0..L
        PROVE  t[n] = Next(t, n)
    <3>1. CASE n = 0
      BY <3>1
    <3>2. CASE n # 0
      <4>1. n - 1 \in 0..L
        BY <3>2
      <4>2. t[n] = s[n] /\ t[n - 1] = s[n - 1]
        BY <4>1
      <4> HIDE DEF t
      <4> QED  BY <3>2, <4>2
    <3> QED  BY <3>1, <3>2
  <2>2. t = [n \in 0..L |-> t[n]]
    OBVIOUS
  <2> HIDE DEF t, Next
  <2> QED  BY <2>1, <2>2
<1>2. F(after)
  <2> HIDE DEF F
  <2> QED  BY <1>1
<1>3. Assembled(x, y) = after[L]
  BY DEF Assembled
<1> HIDE DEF after
<1>4. ASSUME NEW n \in 0..L
      PROVE  after[n] = Next(after, n)
  <2>1. after = [m \in 0..L |-> Next(after, m)]
    BY <1>2
  <2> HIDE DEF F, L, Next
  <2> QED  BY <2>1
<1> DEFINE D == {n \in 0..L : after[n] # s[n]}
<1>5. D = {}
  <2>1. SUFFICES ASSUME D # {} PROVE FALSE
    OBVIOUS
  <2>2. PICK m \in D : \A k \in D : m <= k
    <3> D \subseteq Nat
      OBVIOUS
    <3> HIDE DEF D
    <3> QED  BY <2>1, LeastOf
  <2>3. CASE m = 0
    BY <1>4, <2>3
  <2>4. CASE m # 0
    <3>1. m \in 0..L /\ m - 1 \in 0..L /\ m - 1 \notin D
      BY <2>2, <2>4
    <3>2. after[m - 1] = s[m - 1]
      BY <3>1
    <3>3. after[m] = Callback(after[m - 1], y.called[m], side, 0)
      BY <1>4, <2>4, <3>1
    <3>4. s[m] = Callback(s[m - 1], y.called[m], side, 0)
      BY <2>4, <3>1
    <3> QED  BY <3>2, <3>3, <3>4
  <2> QED  BY <2>3, <2>4
<1> QED  BY <1>3, <1>5

(* No callback.                                                            *)
LEMMA AssembledNone ==
    ASSUME NEW x, NEW y, y.called = <<>>
    PROVE  Assembled(x, y) = x
<1> DEFINE s == [n \in 0..0 |-> x]
           side == IF y.type = "request" THEN "client" ELSE "server"
<1>1. Len(y.called) = 0 /\ s[0] = x
  OBVIOUS
<1> HIDE DEF s
<1>2. \A n \in 0..Len(y.called) :
          s[n] = IF n = 0 THEN x
                 ELSE Callback(s[n - 1], y.called[n], side, 0)
  BY <1>1
<1> QED  BY <1>1, <1>2, AssembledIs

(* One.                                                                    *)
LEMMA AssembledOne ==
    ASSUME NEW x, NEW y, NEW f, y.called = <<f>>, NEW side,
           side = IF y.type = "request" THEN "client" ELSE "server"
    PROVE  Assembled(x, y) = Callback(x, f, side, 0)
<1> DEFINE a == Callback(x, f, side, 0)
           s == [n \in 0..1 |-> IF n = 0 THEN x ELSE a]
<1>1. /\ Len(y.called) = 1 /\ y.called[1] = f /\ s[0] = x /\ s[1] = a
  OBVIOUS
<1> HIDE DEF s
<1>2. \A n \in 0..1 : s[n] = IF n = 0 THEN x
                      ELSE Callback(s[n - 1], y.called[n], side, 0)
  <2>1. s[1] = Callback(s[1 - 1], y.called[1], side, 0)
    BY <1>1
  <2> QED  BY <1>1, <2>1
<1>3. Len(y.called) \in Nat /\ \A n \in 0..Len(y.called) :
            s[n] = IF n = 0 THEN x
                   ELSE Callback(s[n - 1], y.called[n], side, 0)
  BY <1>1, <1>2
<1>4. Assembled(x, y) = s[Len(y.called)]
  BY <1>3, AssembledIs
<1> QED  BY <1>1, <1>4

(* Two.                                                                    *)
LEMMA AssembledTwo ==
    ASSUME NEW x, NEW y, NEW f, NEW g, y.called = <<f, g>>, NEW side,
           side = IF y.type = "request" THEN "client" ELSE "server"
    PROVE  Assembled(x, y) = Callback(Callback(x, f, side, 0), g, side, 0)
<1> DEFINE a == Callback(x, f, side, 0)
           b == Callback(a, g, side, 0)
           s == [n \in 0..2 |-> IF n = 0 THEN x ELSE IF n = 1 THEN a ELSE b]
<1>1. /\ Len(y.called) = 2 /\ y.called[1] = f /\ y.called[2] = g
      /\ s[0] = x /\ s[1] = a /\ s[2] = b
  OBVIOUS
<1> HIDE DEF s
<1>2. \A n \in 0..2 : s[n] = IF n = 0 THEN x
                      ELSE Callback(s[n - 1], y.called[n], side, 0)
  <2>1. s[1] = Callback(s[1 - 1], y.called[1], side, 0)
    BY <1>1
  <2>2. s[2] = Callback(s[2 - 1], y.called[2], side, 0)
    BY <1>1
  <2> QED  BY <1>1, <2>1, <2>2
<1>3. Len(y.called) \in Nat /\ \A n \in 0..Len(y.called) :
            s[n] = IF n = 0 THEN x
                   ELSE Callback(s[n - 1], y.called[n], side, 0)
  BY <1>1, <1>2
<1>4. Assembled(x, y) = s[Len(y.called)]
  BY <1>3, AssembledIs
<1> QED  BY <1>1, <1>4

(* Which messages a step completes.                                        *)
LEMMA CompletesIs ==
    ASSUME NEW y
    PROVE  /\ y.called = <<>> => Completes(y) = 0
           /\ \A f : y.called = <<f>> =>
                 Completes(y) = IF f \in {"complete", "closing"} THEN 1 ELSE 0
           /\ \A f, g : y.called = <<f, g>> =>
                 Completes(y) = IF \/ f \in {"complete", "closing"}
                                   \/ g \in {"complete", "closing"}
                                THEN 1 ELSE 0
<1>1. ASSUME y.called = <<>> PROVE Completes(y) = 0
  BY <1>1 DEF Completes
<1>2. ASSUME NEW f, y.called = <<f>>
      PROVE  Completes(y) = IF f \in {"complete", "closing"} THEN 1 ELSE 0
  <2>1. {y.called[i] : i \in DOMAIN y.called} = {f}
    BY <1>2
  <2> QED  BY <2>1 DEF Completes
<1>3. ASSUME NEW f, NEW g, y.called = <<f, g>>
      PROVE  Completes(y) = IF \/ f \in {"complete", "closing"}
                               \/ g \in {"complete", "closing"}
                            THEN 1 ELSE 0
  <2>1. {y.called[i] : i \in DOMAIN y.called} = {f, g}
    <3>1. DOMAIN y.called = {1, 2} /\ y.called[1] = f /\ y.called[2] = g
      BY <1>3
    <3> QED  BY <3>1
  <2> QED  BY <2>1 DEF Completes
<1> QED  BY <1>1, <1>2, <1>3

(* The callbacks that say nothing of a message.                            *)
Silent == {<<>>, <<"messageBegin">>, <<"body">>, <<"messageComplete">>,
           <<"body", "messageComplete">>}

(* They leave the session as it is.                                        *)
LEMMA SilentAssembles ==
    ASSUME NEW s, NEW y, y.called \in Silent
    PROVE  Assembled(s, y) = s /\ Completes(y) = 0
<1> DEFINE side == IF y.type = "request" THEN "client" ELSE "server"
<1>1. \A f \in {"messageBegin", "body", "messageComplete"} :
          Callback(s, f, side, 0) = s
  BY DEF Callback
<1> HIDE DEF side
<1>2. CASE y.called = <<>>
  BY <1>2, AssembledNone, CompletesIs
<1>3. ASSUME NEW f \in {"messageBegin", "body", "messageComplete"},
             y.called = <<f>>
      PROVE  Assembled(s, y) = s /\ Completes(y) = 0
  BY <1>1, <1>3, AssembledOne, CompletesIs DEF side
<1>4. ASSUME NEW f \in {"messageBegin", "body", "messageComplete"},
             NEW g \in {"messageBegin", "body", "messageComplete"},
             y.called = <<f, g>>
      PROVE  Assembled(s, y) = s /\ Completes(y) = 0
  <2>1. Assembled(s, y) = Callback(Callback(s, f, side, 0), g, side, 0)
    BY <1>4, AssembledTwo DEF side
  <2>2. Completes(y) = 0
    BY <1>4, CompletesIs
  <2> QED  BY <1>1, <2>1, <2>2
<1> QED  BY <1>2, <1>3, <1>4 DEF Silent

-----------------------------------------------------------------------------
(* The session at each place of the parser.                                *)
(* Before it is known whose bytes they are.                                *)
BothStates == {"s_start_req_or_res", "s_res_or_resp_H"}

(* A request before its path has been given, after that and before the end *)
(* of its URL, and after its URL.                                          *)
Unnamed == {"s_req_method", "s_req_spaces_before_url", "s_req_schema",
            "s_req_schema_slash", "s_req_schema_slash_slash", "s_req_host",
            "s_req_port", "s_req_path"}
PastPath == {"s_req_query_string_start", "s_req_query_string",
             "s_req_fragment_start", "s_req_fragment"}
Versions == {"s_http", "s_first_http_major", "s_http_major",
             "s_first_http_minor", "s_http_minor"}
Named == Versions \cup {"s_req_http_start", "s_req_line_almost_done"}

(* A response before its headers.                                          *)
Untold == Versions \cup {"s_first_status_code", "s_status_code",
                         "s_res_status", "s_res_line_almost_done"}

(* In the headers, in the lines of them and between the lines, and after   *)
(* all of them.                                                            *)
LineEnds == {"s_header_field_start", "s_header_almost_done",
             "s_headers_almost_done"}
InHeaders(x) == x.state \in HeaderStates /\ "TRAILING" \notin x.flags
AtLineEnd(x) == InHeaders(x) /\ x.state \in LineEnds
PastHeaders(x) ==
    \/ x.state \in BodyStates \cup ChunkStates
    \/ /\ x.state \in {"s_header_field_start", "s_headers_almost_done"}
       /\ "TRAILING" \in x.flags

(* The type a parser has in its state.                                     *)
TypeOK(x) ==
    \/ x.type = "both" /\ x.state \in BothStates
    \/ /\ x.type = "request"
       /\ \/ x.state \in {"s_start_req"} \cup Unnamed \cup PastPath \cup Named
          \/ InHeaders(x) \/ PastHeaders(x)
    \/ /\ x.type = "response"
       /\ \/ x.state \in {"s_start_res"} \cup Untold
          \/ InHeaders(x) \/ PastHeaders(x)

(* In the headers of a request its last message is the one they are of.    *)
RequestHeader(x, s, c, l) ==
    /\ s.responses = <<>>
    /\ Len(s.requests) = c + 1 /\ "method" \in LastRequest(s).strings
    /\ x.state \in LineEnds => s.requestState # "field"
    /\ x.state = "s_header_value_start" => s.requestState = "field"
    /\ x.state = "s_header_value" => s.requestState \in {"field", "value"}
    /\ LastRequest(s).headers =
          IF x.state = "s_header_field" /\ s.requestState # "field"
          THEN l - 1 ELSE l

(* A response is in the session from its first header's name on.           *)
ResponseHeader(x, s, c, l) ==
    /\ s.requests = <<>>
    /\ s.responseState \in {"none", "complete", "field", "value"}
    /\ x.state \in LineEnds => s.responseState # "field"
    /\ x.state = "s_header_value_start" => s.responseState = "field"
    /\ x.state = "s_header_value" => s.responseState \in {"field", "value"}
    /\ IF s.responseState \in {"field", "value"}
       THEN /\ Len(s.responses) = c + 1 /\ LastResponse(s).statuses = 0
            /\ LastResponse(s).headers =
                  IF x.state = "s_header_field" /\ s.responseState = "value"
                  THEN l - 1 ELSE l
       ELSE /\ Len(s.responses) = c
            /\ l = IF x.state = "s_header_field" THEN 1 ELSE 0

(* The requests of session s when parser x has completed c and has read l  *)
(* header lines of the last one, or of the one it reads.                   *)
RequestOK(x, s, c, l) ==
    /\ s.responses = <<>>
    /\ x.state \in {"s_start_req"} \cup Unnamed \/ PastHeaders(x) =>
          Len(s.requests) = c /\ s.requestState \in {"none", "complete"}
    /\ x.state = "s_start_req" \/ PastHeaders(x) =>
          (c > 0 => /\ {"method", "version"} \subseteq LastRequest(s).strings
                    /\ LastRequest(s).headers = l)
    /\ x.state \in Unnamed \cup PastPath \cup Named => l = 0
    /\ x.state \in PastPath =>
          /\ Len(s.requests) = c + 1 /\ s.requestState = "path"
          /\ LastRequest(s).headers = 0
    /\ x.state \in Named =>
          /\ Len(s.requests) = c + 1 /\ s.requestState \in {"url", "path"}
          /\ "method" \in LastRequest(s).strings /\ LastRequest(s).headers = 0
    /\ InHeaders(x) => RequestHeader(x, s, c, l)

(* The same of its responses.                                              *)
ResponseOK(x, s, c, l) ==
    /\ s.requests = <<>>
    /\ x.state \in {"s_start_res"} \cup Untold =>
          Len(s.responses) = c /\ s.responseState \in {"none", "complete"}
    /\ x.state \in Untold => l = 0
    /\ PastHeaders(x) =>
          /\ Len(s.responses) = c
          /\ s.responseState = "complete" \/ ~http_should_keep_alive(x)
    /\ x.state = "s_start_res" \/ PastHeaders(x) =>
          (c > 0 => /\ LastResponse(s).statuses = 1
                    /\ LastResponse(s).headers = l)
    /\ InHeaders(x) => ResponseHeader(x, s, c, l)

(* The session, after c messages and l lines, is what parser x makes of it.*)
SessionOK(x, s, c, l) ==
    /\ IsSession(s) /\ c \in Nat /\ l \in Nat
    /\ TypeOK(x)
    /\ x.type = "both" => s = NewSession(0) /\ c = 0 /\ l = 0
    /\ x.type = "request" => RequestOK(x, s, c, l)
    /\ x.type = "response" => ResponseOK(x, s, c, l)

-----------------------------------------------------------------------------
(* The steps of the parser, as far as a session depends on them.           *)
(* It stays where it is.                                                   *)
Rests(x, y) ==
    /\ y.called = <<>> /\ y.type = x.type /\ y.state = x.state
    /\ ("TRAILING" \in y.flags) <=> ("TRAILING" \in x.flags)
    /\ http_should_keep_alive(y) <=> http_should_keep_alive(x)

(* The first letters tell whose bytes they are.                            *)
Meets(x, y) ==
    /\ x.type = "both" /\ y.called \in Silent
    /\ \/ y.type = "both" /\ y.state = "s_res_or_resp_H"
       \/ y.type = "request" /\ y.state = "s_req_method"
       \/ y.type = "response" /\ y.state = "s_http"

(* Another message begins, or nearly.                                      *)
Begins(x, y) ==
    /\ y.type = x.type /\ y.called \in Silent
    /\ \/ x.type = "request" /\ x.state = "s_start_req"
          /\ y.state = "s_req_method"
       \/ x.type = "response" /\ x.state = "s_start_res"
          /\ y.state \in {"s_start_res", "s_http"}

(* The rest of a request's first line.                                     *)
RequestLine(x, y) ==
    /\ x.type = "request" /\ y.type = "request"
    /\ \/ x.state \in Unnamed /\ y.state \in Unnamed /\ y.called = <<>>
       \/ x.state \in Unnamed /\ y.state \in PastPath /\ y.called = <<"path">>
       \/ /\ x.state \in Unnamed
          /\ y.state \in Named \/ AtLineEnd(y)
          /\ y.called \in {<<"url">>, <<"url", "path">>}
       \/ /\ x.state \in PastPath /\ y.state \in PastPath
          /\ y.called \in {<<>>, <<"queryString">>}
       \/ /\ x.state \in PastPath
          /\ y.state \in Named \/ AtLineEnd(y)
          /\ y.called \in {<<"url">>, <<"url", "queryString">>,
                           <<"url", "fragment">>}
       \/ /\ x.state \in Named
          /\ y.state \in Named \/ AtLineEnd(y)
          /\ y.called = <<>>

(* The rest of a response's.                                               *)
ResponseLine(x, y) ==
    /\ x.type = "response" /\ y.type = "response"
    /\ x.state \in Untold
    /\ y.state \in Untold \/ AtLineEnd(y)
    /\ y.called = <<>>

(* In a header line.                                                       *)
HeaderLine(x, y) ==
    /\ y.type = x.type /\ InHeaders(x) /\ InHeaders(y)
    /\ \/ /\ x.state = "s_header_field_start"
          /\ y.state \in {"s_headers_almost_done", "s_header_field"}
          /\ y.called = <<>>
       \/ /\ x.state = "s_header_field" /\ y.called = <<"field">>
          /\ y.state \in {"s_header_field", "s_header_value_start"}
       \/ /\ x.state = "s_header_value_start" /\ y.called = <<>>
          /\ y.state = "s_header_value"
       \/ /\ x.state = "s_header_value_start" /\ y.called = <<"value">>
          /\ y.state \in {"s_header_almost_done", "s_header_field_start"}
       \/ /\ x.state = "s_header_value" /\ y.called = <<"value">>
          /\ y.state \in {"s_header_value", "s_header_almost_done",
                          "s_header_field_start"}
       \/ /\ x.state = "s_header_almost_done" /\ y.called = <<>>
          /\ y.state = "s_header_field_start"

(* The place of a parser after a message's headers.                        *)
Following(x, y) ==
    /\ y.type = x.type
    /\ http_should_keep_alive(y) <=> http_should_keep_alive(x)
    /\ \/ PastHeaders(y)
       \/ /\ http_should_keep_alive(x)
          /\ y.state = IF x.type = "request" THEN "s_start_req"
                                             ELSE "s_start_res"

(* The end of the headers.                                                 *)
HeadersEnd(x, y) ==
    /\ Following(x, y)
    /\ InHeaders(x)
    /\ x.state \in {"s_header_field_start", "s_headers_almost_done"}
    /\ y.called \in IF http_should_keep_alive(x)
                    THEN {<<"complete">>, <<"complete", "messageComplete">>}
                    ELSE {<<"closing">>, <<"closing", "messageComplete">>}

(* What follows the headers.                                               *)
Follows(x, y) == Following(x, y) /\ PastHeaders(x) /\ y.called \in Silent

(* A step as a session sees it.                                            *)
Course(x, y) ==
    \/ Rests(x, y) \/ Meets(x, y) \/ Begins(x, y) \/ RequestLine(x, y)
    \/ ResponseLine(x, y) \/ HeaderLine(x, y) \/ HeadersEnd(x, y)
    \/ Follows(x, y)

(* The header lines after it.                                              *)
LinesTo(x, y, l) ==
    IF x.state \in StartStates /\ y.state \notin StartStates THEN 0
    ELSE IF x.state = "s_header_field_start" /\ y.state = "s_header_field"
    THEN l + 1 ELSE l

(* The session, the messages and the lines after it.                       *)
After(x, s, c, l, y, t, d, m) ==
    /\ t = Assembled(s, y) /\ d = c + Completes(y) /\ m = LinesTo(x, y, l)

-----------------------------------------------------------------------------
(* A new session.                                                          *)
LEMMA NewSessionIs ==
    ASSUME NEW s, s = NewSession(0)
    PROVE  /\ IsSession(s) /\ Len(s.requests) = 0 /\ Len(s.responses) = 0
           /\ s.requests = <<>> /\ s.responses = <<>>
           /\ s.requestState = "none" /\ s.responseState = "none"
<1>1. /\ s = [k \in SessionFields |-> s[k]]
      /\ s.requests = <<>> /\ s.responses = <<>>
      /\ s.requestState = "none" /\ s.responseState = "none"
  BY DEF NewSession, SessionFields
<1>2. Len(<<>>) = 0 /\ <<>> \in Seq(AnyMessage)
  OBVIOUS
<1> QED  BY <1>1, <1>2 DEF IsSession

(* At rest nothing changes.                                                *)
LEMMA RestsKeeps ==
    ASSUME NEW x, NEW s, NEW c, NEW l, SessionOK(x, s, c, l), NEW y,
           Rests(x, y), NEW t, NEW d, NEW m, After(x, s, c, l, y, t, d, m)
    PROVE  SessionOK(y, t, d, m)
<1>1. t = s /\ d = c /\ m = l
  <2>1. t = s /\ Completes(y) = 0
    BY AssembledNone, CompletesIs DEF Rests, After
  <2> QED  BY <2>1 DEF After, LinesTo, Rests, SessionOK
<1>2. /\ y.type = x.type /\ y.state = x.state
      /\ (InHeaders(y) <=> InHeaders(x)) /\ (PastHeaders(y) <=> PastHeaders(x))
      /\ http_should_keep_alive(y) <=> http_should_keep_alive(x)
  BY DEF Rests, InHeaders, PastHeaders
<1>3. TypeOK(y)
  BY <1>2 DEF SessionOK, TypeOK
<1>4. x.type = "request" => RequestOK(y, s, c, l)
  BY <1>2 DEF SessionOK, RequestOK, RequestHeader
<1>5. x.type = "response" => ResponseOK(y, s, c, l)
  BY <1>2 DEF SessionOK, ResponseOK, ResponseHeader
<1> QED  BY <1>1, <1>2, <1>3, <1>4, <1>5 DEF SessionOK

(* The states of a first line are in no header and no body.                *)
LEMMA LinePlaces ==
    ASSUME NEW x,
           x.state \in {"s_start_req", "s_start_res"} \cup BothStates
                       \cup Unnamed \cup PastPath \cup Named \cup Untold
    PROVE  ~InHeaders(x) /\ ~PastHeaders(x)
BY DEF InHeaders, PastHeaders, BothStates, Unnamed, PastPath, Named, Untold,
       Versions, HeaderStates, BodyStates, ChunkStates

(* The first letters find the session new.                                 *)
LEMMA MeetsKeeps ==
    ASSUME NEW x, NEW s, NEW c, NEW l, SessionOK(x, s, c, l), NEW y,
           Meets(x, y), NEW t, NEW d, NEW m, After(x, s, c, l, y, t, d, m)
    PROVE  SessionOK(y, t, d, m)
<1>1. s = NewSession(0) /\ c = 0 /\ l = 0 /\ x.state \in BothStates
  BY DEF SessionOK, Meets, TypeOK
<1>2. t = s /\ d = 0 /\ m = 0
  <2>1. t = s /\ Completes(y) = 0
    BY SilentAssembles DEF Meets, After
  <2> QED  BY <1>1, <2>1 DEF After, LinesTo, Meets, BothStates
<1>3. /\ IsSession(s) /\ Len(s.requests) = 0 /\ Len(s.responses) = 0
      /\ s.requests = <<>> /\ s.responses = <<>>
      /\ s.requestState = "none" /\ s.responseState = "none"
  BY <1>1, NewSessionIs
<1>4. ~InHeaders(y) /\ ~PastHeaders(y)
  BY LinePlaces DEF Meets, BothStates, Unnamed, Untold, Versions
<1>5. CASE y.type = "both" /\ y.state = "s_res_or_resp_H"
  BY <1>1, <1>2, <1>3, <1>5 DEF SessionOK, TypeOK, BothStates
<1>6. CASE y.type = "request" /\ y.state = "s_req_method"
  <2>1. y.state \in Unnamed /\ y.state \notin PastPath \cup Named
    BY <1>6 DEF Unnamed, PastPath, Named, Versions
  <2>2. RequestOK(y, s, 0, 0)
    BY <1>3, <1>4, <2>1 DEF RequestOK
  <2> QED  BY <1>2, <1>3, <1>6, <2>1, <2>2 DEF SessionOK, TypeOK
<1>7. CASE y.type = "response" /\ y.state = "s_http"
  <2>1. y.state \in Untold
    BY <1>7 DEF Untold, Versions
  <2>2. ResponseOK(y, s, 0, 0)
    BY <1>3, <1>4, <2>1 DEF ResponseOK
  <2> QED  BY <1>2, <1>3, <1>7, <2>1, <2>2 DEF SessionOK, TypeOK
<1> QED  BY <1>5, <1>6, <1>7 DEF Meets

(* The next message is not yet in the session.                             *)
LEMMA BeginsKeeps ==
    ASSUME NEW x, NEW s, NEW c, NEW l, SessionOK(x, s, c, l), NEW y,
           Begins(x, y), NEW t, NEW d, NEW m, After(x, s, c, l, y, t, d, m)
    PROVE  SessionOK(y, t, d, m)
<1>0. IsSession(s) /\ c \in Nat /\ l \in Nat
  BY DEF SessionOK
<1>1. /\ t = s /\ d = c
      /\ m = IF y.state \in {"s_start_req", "s_start_res"} THEN l ELSE 0
  <2>1. t = s /\ Completes(y) = 0
    BY SilentAssembles DEF Begins, After
  <2> QED  BY <1>0, <2>1 DEF After, LinesTo, Begins, StartStates
<1>2. ~InHeaders(y) /\ ~PastHeaders(y) /\ ~InHeaders(x) /\ ~PastHeaders(x)
  BY LinePlaces DEF Begins, Unnamed, Untold, Versions
<1>3. CASE x.type = "request"
  <2>1. /\ y.type = "request" /\ x.state = "s_start_req"
        /\ y.state = "s_req_method" /\ RequestOK(x, s, c, l)
    BY <1>3 DEF Begins, SessionOK
  <2>2. /\ y.state \in Unnamed /\ y.state \notin PastPath \cup Named
        /\ y.state # "s_start_req"
    BY <2>1 DEF Unnamed, PastPath, Named, Versions
  <2>3. RequestOK(y, s, c, 0)
    BY <1>2, <2>1, <2>2 DEF RequestOK
  <2> QED  BY <1>0, <1>1, <2>1, <2>2, <2>3 DEF SessionOK, TypeOK
<1>4. CASE x.type = "response"
  <2>1. /\ y.type = "response" /\ x.state = "s_start_res"
        /\ y.state \in {"s_start_res", "s_http"} /\ ResponseOK(x, s, c, l)
    BY <1>4 DEF Begins, SessionOK
  <2>2. /\ y.state \in {"s_start_res"} \cup Untold
        /\ "s_start_res" \notin Untold /\ y.state # "s_start_req"
        /\ "s_http" # "s_start_res" /\ "s_http" # "s_start_req"
    BY <2>1 DEF Untold, Versions
  <2>3. ResponseOK(y, s, c, m)
    BY <1>1, <1>2, <2>1, <2>2 DEF ResponseOK
  <2> QED  BY <1>0, <1>1, <2>1, <2>2, <2>3 DEF SessionOK, TypeOK
<1> QED  BY <1>3, <1>4 DEF Begins

(* The callback of a single part.                                          *)
LEMMA OneCallback ==
    ASSUME NEW s, NEW y, NEW f, y.called = <<f>>
    PROVE  /\ f = "url" => Assembled(s, y) = url(s, 0)
           /\ f = "path" => Assembled(s, y) = path(s, 0)
           /\ f = "queryString" => Assembled(s, y) = Set(s, "queryString")
           /\ f = "field" => Assembled(s, y) =
                 headerField(s, IF y.type = "request" THEN "client"
                                ELSE "server", 0)
           /\ f = "value" => Assembled(s, y) =
                 headerValue(s, IF y.type = "request" THEN "client"
                                ELSE "server")
           /\ f \in {"url", "path", "queryString", "field", "value"} =>
                 Completes(y) = 0
<1>1. PICK side : side = IF y.type = "request" THEN "client" ELSE "server"
  OBVIOUS
<1>2. Assembled(s, y) = Callback(s, f, side, 0)
  BY <1>1, AssembledOne
<1>3. f \in {"url", "path", "queryString", "field", "value"} =>
         Completes(y) = 0
  BY CompletesIs
<1> QED  BY <1>1, <1>2, <1>3 DEF Callback, queryString

(* The callbacks at the end of a URL.                                      *)
LEMMA UrlCallbacks ==
    ASSUME NEW s, NEW y, NEW g \in {"path", "queryString", "fragment"},
           y.called = <<"url", g>>
    PROVE  /\ g = "path" => Assembled(s, y) = path(url(s, 0), 0)
           /\ g # "path" => Assembled(s, y) = Set(url(s, 0), g)
           /\ Completes(y) = 0
<1>1. PICK side : side = IF y.type = "request" THEN "client" ELSE "server"
  OBVIOUS
<1>2. Assembled(s, y) = Callback(Callback(s, "url", side, 0), g, side, 0)
  BY <1>1, AssembledTwo
<1>3. Callback(s, "url", side, 0) = url(s, 0)
  BY DEF Callback
<1>4. Completes(y) = 0
  BY CompletesIs
<1> HIDE DEF url, path, Set
<1>5. \A u : /\ g = "path" => Callback(u, g, side, 0) = path(u, 0)
             /\ g # "path" => Callback(u, g, side, 0) = Set(u, g)
  BY DEF Callback, queryString, fragment
<1> QED  BY <1>2, <1>3, <1>4, <1>5

(* The groups of a request's states are apart.                             *)
LEMMA RequestPlaces ==
    ASSUME NEW x
    PROVE  /\ x.state \in Unnamed => x.state \notin PastPath \cup Named
           /\ x.state \in PastPath => x.state \notin Unnamed \cup Named
           /\ x.state \in Named => x.state \notin Unnamed \cup PastPath
           /\ x.state \in Unnamed \cup PastPath \cup Named \cup Untold =>
                 x.state \notin StartStates \cup LineEnds
           /\ x.state \in LineEnds =>
                 x.state \notin StartStates \cup Unnamed \cup PastPath
                                \cup Named \cup Untold
BY DEF Unnamed, PastPath, Named, Untold, Versions, StartStates, LineEnds

(* A request enters the session with the end of its path or of its URL.    *)
LEMMA RequestLineKeeps ==
    ASSUME NEW x, NEW s, NEW c, NEW l, SessionOK(x, s, c, l), NEW y,
           RequestLine(x, y), NEW t, NEW d, NEW m,
           After(x, s, c, l, y, t, d, m)
    PROVE  SessionOK(y, t, d, m)
<1>0. /\ IsSession(s) /\ c \in Nat /\ l \in Nat /\ RequestOK(x, s, c, l)
      /\ x.type = "request" /\ y.type = "request"
      /\ t = Assembled(s, y) /\ d = c + Completes(y)
      /\ x.state \in Unnamed \cup PastPath \cup Named
  BY DEF SessionOK, RequestLine, After
<1>1. /\ l = 0 /\ s.responses = <<>>
      /\ x.state \in Unnamed =>
            Len(s.requests) = c /\ s.requestState \in {"none", "complete"}
      /\ x.state \in PastPath =>
          /\ Len(s.requests) = c + 1 /\ s.requestState = "path"
          /\ LastRequest(s).headers = 0
      /\ x.state \in Named =>
          /\ Len(s.requests) = c + 1 /\ s.requestState \in {"url", "path"}
          /\ "method" \in LastRequest(s).strings /\ LastRequest(s).headers = 0
  BY <1>0 DEF RequestOK
<1>2. m = 0
  BY <1>0, <1>1, RequestPlaces DEF After, LinesTo, LineEnds
<1>3. ASSUME y.state \in Unnamed, t = s, d = c, x.state \in Unnamed
      PROVE  SessionOK(y, t, d, m)
  <2>1. /\ y.state \notin PastPath \cup Named
        /\ y.state \notin StartStates \cup LineEnds
        /\ ~InHeaders(y) /\ ~PastHeaders(y)
    BY <1>3, RequestPlaces, LinePlaces
  <2>2. RequestOK(y, s, c, 0)
    BY <1>1, <1>3, <2>1 DEF RequestOK, StartStates
  <2> QED  BY <1>0, <1>2, <1>3, <2>2 DEF SessionOK, TypeOK
<1>4. ASSUME y.state \in PastPath, d = c, OtherResponses(s, t),
             Len(t.requests) = c + 1, t.requestState = "path",
             LastRequest(t).headers = 0
      PROVE  SessionOK(y, t, d, m)
  <2>1. /\ y.state \notin Unnamed \cup Named
        /\ y.state \notin StartStates \cup LineEnds
        /\ ~InHeaders(y) /\ ~PastHeaders(y)
    BY <1>4, RequestPlaces, LinePlaces
  <2>2. IsSession(t) /\ t.responses = <<>>
    BY <1>1, <1>4 DEF OtherResponses
  <2>3. RequestOK(y, t, c, 0)
    BY <1>4, <2>1, <2>2 DEF RequestOK, StartStates
  <2> QED  BY <1>0, <1>2, <1>4, <2>2, <2>3 DEF SessionOK, TypeOK
<1>5. ASSUME y.state \in Named \/ AtLineEnd(y),
             d = c, OtherResponses(s, t), Len(t.requests) = c + 1,
             t.requestState \in {"url", "path"},
             "method" \in LastRequest(t).strings,
             LastRequest(t).headers = 0
      PROVE  SessionOK(y, t, d, m)
  <2>1. IsSession(t) /\ t.responses = <<>>
    BY <1>1, <1>5 DEF OtherResponses
  <2>2. CASE y.state \in Named
    <3>1. /\ y.state \notin Unnamed \cup PastPath
          /\ y.state \notin StartStates \cup LineEnds
          /\ ~InHeaders(y) /\ ~PastHeaders(y)
      BY <2>2, RequestPlaces, LinePlaces
    <3>2. RequestOK(y, t, c, 0)
      BY <1>5, <2>1, <2>2, <3>1 DEF RequestOK, StartStates
    <3> QED  BY <1>0, <1>2, <1>5, <2>1, <2>2, <3>2 DEF SessionOK, TypeOK
  <2>3. CASE InHeaders(y) /\ y.state \in LineEnds
    <3>1. /\ y.state \notin Unnamed \cup PastPath \cup Named
          /\ y.state \notin StartStates /\ ~PastHeaders(y)
      BY <2>3, RequestPlaces
      DEF InHeaders, PastHeaders, LineEnds, BodyStates, ChunkStates
    <3>2. y.state \notin {"s_header_field", "s_header_value_start",
                          "s_header_value"}
      BY <2>3 DEF LineEnds
    <3>3. RequestOK(y, t, c, 0)
      BY <1>5, <2>1, <2>3, <3>1, <3>2 DEF RequestOK, RequestHeader, StartStates
    <3> QED  BY <1>0, <1>2, <1>5, <2>1, <2>3, <3>3 DEF SessionOK, TypeOK
  <2> QED  BY <1>5, <2>2, <2>3 DEF AtLineEnd
<1>6. CASE x.state \in Unnamed /\ y.state \in Unnamed /\ y.called = <<>>
  <2>1. t = s /\ d = c
    BY <1>0, <1>6, AssembledNone, CompletesIs
  <2> QED  BY <1>3, <1>6, <2>1
<1>7. CASE x.state \in Unnamed /\ y.state \in PastPath /\ y.called = <<"path">>
  <2>1. t = path(s, 0) /\ d = c
    BY <1>0, <1>7, OneCallback
  <2>2. s.requestState # "url" /\ Len(s.requests) = c
    BY <1>1, <1>7
  <2> QED  BY <1>0, <1>4, <1>7, <2>1, <2>2, PathIs
<1>8. ASSUME NEW u, u = url(s, 0), x.state \in Unnamed \cup PastPath
      PROVE  /\ OtherResponses(s, u) /\ u.requestState = "url"
             /\ "method" \in LastRequest(u).strings
             /\ Len(u.requests) = c + 1 /\ LastRequest(u).headers = 0
  <2>1. s.requestState = "path" => Len(s.requests) > 0
    BY <1>0, <1>1, <1>8
  <2>2. /\ OtherResponses(s, u) /\ u.requestState = "url"
        /\ "method" \in LastRequest(u).strings
        /\ IF s.requestState = "path"
           THEN /\ Len(u.requests) = Len(s.requests)
                /\ LastRequest(u).headers = LastRequest(s).headers
           ELSE /\ Len(u.requests) = Len(s.requests) + 1
                /\ LastRequest(u).headers = 0
    BY <1>0, <1>8, <2>1, UrlIs
  <2> QED  BY <1>1, <1>8, <2>2
<1>9. CASE /\ x.state \in Unnamed \cup PastPath
           /\ y.state \in Named \/ AtLineEnd(y)
           /\ y.called = <<"url">>
  <2>1. t = url(s, 0) /\ d = c
    BY <1>0, <1>9, OneCallback
  <2> QED  BY <1>5, <1>8, <1>9, <2>1
<1>10. CASE /\ x.state \in Unnamed
            /\ y.state \in Named \/ AtLineEnd(y)
            /\ y.called = <<"url", "path">>
  <2>1. PICK u : u = url(s, 0)
    OBVIOUS
  <2>2. t = path(u, 0) /\ d = c
    BY <1>0, <1>10, <2>1, UrlCallbacks
  <2>3. /\ OtherResponses(s, u) /\ u.requestState = "url"
        /\ "method" \in LastRequest(u).strings
        /\ Len(u.requests) = c + 1 /\ LastRequest(u).headers = 0
    BY <1>8, <1>10, <2>1
  <2>4. IsSession(u) /\ Len(u.requests) > 0
    BY <1>0, <2>3 DEF OtherResponses
  <2>5. /\ OtherResponses(u, t) /\ t.requestState = "path"
        /\ Len(t.requests) = c + 1 /\ LastRequest(t).headers = 0
        /\ LastRequest(u).strings \subseteq LastRequest(t).strings
    BY <2>2, <2>3, <2>4, PathIs
  <2>6. OtherResponses(s, t)
    BY <2>3, <2>5 DEF OtherResponses
  <2> QED  BY <1>5, <1>10, <2>2, <2>3, <2>5, <2>6
<1>11. CASE /\ x.state \in PastPath /\ y.state \in PastPath
            /\ y.called = <<>>
  <2>1. t = s /\ d = c
    BY <1>0, <1>11, AssembledNone, CompletesIs
  <2>2. OtherResponses(s, t)
    BY <1>0, <2>1 DEF OtherResponses
  <2> QED  BY <1>1, <1>4, <1>11, <2>1, <2>2
<1>12. CASE /\ x.state \in PastPath /\ y.state \in PastPath
            /\ y.called = <<"queryString">>
  <2>1. t = Set(s, "queryString") /\ d = c
    BY <1>0, <1>12, OneCallback
  <2>2. Len(s.requests) > 0 /\ "queryString" \in Strings
    BY <1>0, <1>1, <1>12 DEF Strings
  <2>3. /\ OtherResponses(s, t) /\ t.requestState = s.requestState
        /\ Len(t.requests) = Len(s.requests)
        /\ LastRequest(t).headers = LastRequest(s).headers
    BY <1>0, <2>1, <2>2, SetKeeps
  <2> QED  BY <1>1, <1>4, <1>12, <2>1, <2>3
<1>13. ASSUME NEW g \in {"queryString", "fragment"},
              /\ x.state \in PastPath
              /\ y.state \in Named \/ AtLineEnd(y)
              /\ y.called = <<"url", g>>
       PROVE  SessionOK(y, t, d, m)
  <2>1. PICK u : u = url(s, 0)
    OBVIOUS
  <2>2. t = Set(u, g) /\ d = c /\ g \in Strings
    BY <1>0, <1>13, <2>1, UrlCallbacks DEF Strings
  <2>3. /\ OtherResponses(s, u) /\ u.requestState = "url"
        /\ "method" \in LastRequest(u).strings
        /\ Len(u.requests) = c + 1 /\ LastRequest(u).headers = 0
    BY <1>8, <1>13, <2>1
  <2>4. IsSession(u) /\ Len(u.requests) > 0
    BY <1>0, <2>3 DEF OtherResponses
  <2>5. /\ OtherResponses(u, t) /\ t.requestState = "url"
        /\ Len(t.requests) = c + 1 /\ LastRequest(t).headers = 0
        /\ LastRequest(u).strings \subseteq LastRequest(t).strings
    BY <2>2, <2>3, <2>4, SetKeeps
  <2>6. OtherResponses(s, t)
    BY <2>3, <2>5 DEF OtherResponses
  <2> QED  BY <1>5, <1>13, <2>2, <2>3, <2>5, <2>6
<1>14. CASE /\ x.state \in Named
            /\ y.state \in Named \/ AtLineEnd(y)
            /\ y.called = <<>>
  <2>1. t = s /\ d = c
    BY <1>0, <1>14, AssembledNone, CompletesIs
  <2>2. OtherResponses(s, t)
    BY <1>0, <2>1 DEF OtherResponses
  <2> QED  BY <1>1, <1>5, <1>14, <2>1, <2>2
<1> QED  BY <1>6, <1>7, <1>9, <1>10, <1>11, <1>12, <1>13, <1>14
         DEF RequestLine

(* A response does not, before its headers.                                *)
LEMMA ResponseLineKeeps ==
    ASSUME NEW x, NEW s, NEW c, NEW l, SessionOK(x, s, c, l), NEW y,
           ResponseLine(x, y), NEW t, NEW d, NEW m,
           After(x, s, c, l, y, t, d, m)
    PROVE  SessionOK(y, t, d, m)
<1>0. /\ IsSession(s) /\ c \in Nat /\ l \in Nat /\ ResponseOK(x, s, c, l)
      /\ x.type = "response" /\ y.type = "response" /\ x.state \in Untold
      /\ y.state \in Untold \/ AtLineEnd(y)
      /\ t = s /\ d = c
  BY AssembledNone, CompletesIs DEF SessionOK, ResponseLine, After
<1>1. /\ l = 0 /\ s.requests = <<>>
      /\ Len(s.responses) = c /\ s.responseState \in {"none", "complete"}
  BY <1>0 DEF ResponseOK
<1>2. m = 0
  BY <1>0, <1>1, RequestPlaces DEF After, LinesTo, LineEnds
<1>3. CASE y.state \in Untold
  <2>1. /\ y.state \notin StartStates \cup LineEnds
        /\ ~InHeaders(y) /\ ~PastHeaders(y)
    BY <1>3, RequestPlaces, LinePlaces
  <2>2. ResponseOK(y, s, c, 0)
    BY <1>1, <1>3, <2>1 DEF ResponseOK, StartStates
  <2> QED  BY <1>0, <1>2, <1>3, <2>2 DEF SessionOK, TypeOK
<1>4. CASE InHeaders(y) /\ y.state \in LineEnds
  <2>1. /\ y.state \notin Untold
        /\ y.state \notin StartStates /\ ~PastHeaders(y)
    BY <1>4, RequestPlaces
    DEF InHeaders, PastHeaders, LineEnds, BodyStates, ChunkStates
  <2>2. y.state \notin {"s_header_field", "s_header_value_start",
                        "s_header_value"}
    BY <1>4 DEF LineEnds
  <2>3. ResponseOK(y, s, c, 0)
    BY <1>1, <1>4, <2>1, <2>2 DEF ResponseOK, ResponseHeader, StartStates
  <2> QED  BY <1>0, <1>2, <1>4, <2>3 DEF SessionOK, TypeOK
<1> QED  BY <1>0, <1>3, <1>4 DEF AtLineEnd

(* That is all the invariant asks there.                                   *)
LEMMA InHeadersAre ==
    ASSUME NEW x, InHeaders(x), NEW s, NEW c, NEW l
    PROVE  /\ RequestOK(x, s, c, l) <=> RequestHeader(x, s, c, l)
           /\ ResponseOK(x, s, c, l) <=> ResponseHeader(x, s, c, l)
<1>1. /\ x.state \notin {"s_start_req", "s_start_res"} \cup Unnamed
                        \cup PastPath \cup Named \cup Untold
      /\ ~PastHeaders(x)
  BY DEF InHeaders, PastHeaders, HeaderStates, BodyStates, ChunkStates,
         Unnamed, PastPath, Named, Untold, Versions
<1>2. RequestOK(x, s, c, l) <=> RequestHeader(x, s, c, l)
  BY <1>1 DEF RequestOK, RequestHeader
<1>3. ResponseOK(x, s, c, l) <=> ResponseHeader(x, s, c, l)
  BY <1>1 DEF ResponseOK, ResponseHeader
<1> QED  BY <1>2, <1>3

(* The lines after a step in the headers.                                  *)
LEMMA HeaderLines ==
    ASSUME NEW x, InHeaders(x), NEW y, NEW l
    PROVE  LinesTo(x, y, l) = IF /\ x.state = "s_header_field_start"
                                 /\ y.state = "s_header_field"
                              THEN l + 1 ELSE l
BY DEF LinesTo, InHeaders, HeaderStates, StartStates

(* The requests of a step from x to y in the headers.                      *)
LEMMA RequestHeaderKeeps ==
    ASSUME NEW x, NEW y, HeaderLine(x, y), x.type = "request",
           NEW s, IsSession(s), NEW c \in Nat, NEW l \in Nat,
           RequestHeader(x, s, c, l), NEW t, t = Assembled(s, y),
           NEW m, m = LinesTo(x, y, l)
    PROVE  IsSession(t) /\ Completes(y) = 0 /\ RequestHeader(y, t, c, m)
<1>0. /\ y.type = "request" /\ InHeaders(x) /\ s.responses = <<>>
      /\ Len(s.requests) = c + 1 /\ "method" \in LastRequest(s).strings
      /\ Len(s.requests) > 0
  BY DEF HeaderLine, RequestHeader
<1>1. LastRequest(s).headers \in Int
  BY <1>0, LastIs DEF AnyMessage
<1>2. m = IF x.state = "s_header_field_start" /\ y.state = "s_header_field"
          THEN l + 1 ELSE l
  BY <1>0, HeaderLines
<1> DEFINE h == LastRequest(s).headers
<1>3. CASE y.called = <<>>
  <2>1. t = s /\ Completes(y) = 0
    BY <1>3, AssembledNone, CompletesIs
  <2>2. CASE /\ x.state = "s_header_field_start"
             /\ y.state = "s_headers_almost_done"
    <3>1. s.requestState # "field" /\ h = l /\ m = l
      BY <1>2, <2>2 DEF RequestHeader, LineEnds
    <3> QED  BY <1>0, <2>1, <2>2, <3>1 DEF RequestHeader, LineEnds
  <2>3. CASE /\ x.state = "s_header_field_start"
             /\ y.state = "s_header_field"
    <3>1. s.requestState # "field" /\ h = l /\ m = l + 1
      BY <1>2, <2>3 DEF RequestHeader, LineEnds
    <3>2. m - 1 = l
      BY <3>1
    <3> QED  BY <1>0, <2>1, <2>3, <3>1, <3>2 DEF RequestHeader, LineEnds
  <2>4. CASE x.state = "s_header_value_start" /\ y.state = "s_header_value"
    <3>1. s.requestState = "field" /\ h = l /\ m = l
      BY <1>2, <2>4 DEF RequestHeader
    <3> QED  BY <1>0, <2>1, <2>4, <3>1 DEF RequestHeader, LineEnds
  <2>5. CASE /\ x.state = "s_header_almost_done"
             /\ y.state = "s_header_field_start"
    <3>1. s.requestState # "field" /\ h = l /\ m = l
      BY <1>2, <2>5 DEF RequestHeader, LineEnds
    <3> QED  BY <1>0, <2>1, <2>5, <3>1 DEF RequestHeader, LineEnds
  <2> QED  BY <1>3, <2>2, <2>3, <2>4, <2>5 DEF HeaderLine
<1>4. CASE y.called = <<"field">>
  <2>1. /\ x.state = "s_header_field"
        /\ y.state \in {"s_header_field", "s_header_value_start"}
    BY <1>4 DEF HeaderLine
  <2>2. t = headerField(s, "client", 0) /\ Completes(y) = 0
    BY <1>0, <1>4, OneCallback
  <2>3. /\ OtherResponses(s, t) /\ t.requestState = "field"
        /\ Len(t.requests) = Len(s.requests)
        /\ LastRequest(t).strings = LastRequest(s).strings
        /\ LastRequest(t).headers =
              IF s.requestState = "field" THEN h ELSE h + 1
    BY <1>0, <2>2, RequestFieldIs
  <2>4. LastRequest(t).headers = l /\ m = l
    <3>1. h = IF s.requestState # "field" THEN l - 1 ELSE l
      BY <2>1 DEF RequestHeader
    <3> QED  BY <1>2, <2>1, <2>3, <3>1
  <2> QED  BY <1>0, <2>1, <2>2, <2>3, <2>4
           DEF RequestHeader, OtherResponses, LineEnds
<1>5. CASE y.called = <<"value">>
  <2>1. /\ x.state \in {"s_header_value_start", "s_header_value"}
        /\ y.state \in {"s_header_value", "s_header_almost_done",
                        "s_header_field_start"}
    BY <1>5 DEF HeaderLine
  <2>2. t = headerValue(s, "client") /\ Completes(y) = 0
    BY <1>0, <1>5, OneCallback
  <2>3. /\ OtherResponses(s, t) /\ t.requestState = "value"
        /\ t.requests = s.requests
    BY <2>2, RequestValueIs
  <2>4. LastRequest(t) = LastRequest(s) /\ h = l /\ m = l
    BY <1>2, <2>1, <2>3 DEF RequestHeader, LastRequest
  <2> QED  BY <1>0, <2>1, <2>2, <2>3, <2>4
           DEF RequestHeader, OtherResponses, LineEnds
<1> QED  BY <1>3, <1>4, <1>5 DEF HeaderLine

(* The responses of one.                                                   *)
LEMMA ResponseHeaderKeeps ==
    ASSUME NEW x, NEW y, HeaderLine(x, y), x.type = "response",
           NEW s, IsSession(s), NEW c \in Nat, NEW l \in Nat,
           ResponseHeader(x, s, c, l), NEW t, t = Assembled(s, y),
           NEW m, m = LinesTo(x, y, l)
    PROVE  IsSession(t) /\ Completes(y) = 0 /\ ResponseHeader(y, t, c, m)
<1>0. /\ y.type = "response" /\ InHeaders(x) /\ s.requests = <<>>
      /\ s.responseState \in {"none", "complete", "field", "value"}
  BY DEF HeaderLine, ResponseHeader
<1>1. s.responseState \in {"field", "value"} =>
         /\ Len(s.responses) = c + 1 /\ Len(s.responses) > 0
         /\ LastResponse(s).statuses = 0
         /\ LastResponse(s).headers \in Int
  BY LastIs DEF ResponseHeader, AnyMessage
<1>2. m = IF x.state = "s_header_field_start" /\ y.state = "s_header_field"
          THEN l + 1 ELSE l
  BY <1>0, HeaderLines
<1> DEFINE h == LastResponse(s).headers
           r == s.responseState
<1>3. CASE y.called = <<>>
  <2>1. t = s /\ Completes(y) = 0
    BY <1>3, AssembledNone, CompletesIs
  <2>2. CASE /\ x.state \in {"s_header_field_start", "s_header_almost_done"}
             /\ y.state \in {"s_headers_almost_done", "s_header_field_start"}
    <3>1. /\ r \in {"none", "complete", "value"} /\ m = l
          /\ IF r = "value" THEN Len(s.responses) = c + 1 /\ h = l
             ELSE Len(s.responses) = c /\ l = 0
      BY <1>2, <2>2 DEF ResponseHeader, LineEnds
    <3> QED  BY <1>0, <1>1, <2>1, <2>2, <3>1 DEF ResponseHeader, LineEnds
  <2>3. CASE /\ x.state = "s_header_field_start"
             /\ y.state = "s_header_field"
    <3>1. /\ r \in {"none", "complete", "value"} /\ m = l + 1
          /\ IF r = "value" THEN Len(s.responses) = c + 1 /\ h = l
             ELSE Len(s.responses) = c /\ l = 0
      BY <1>2, <2>3 DEF ResponseHeader, LineEnds
    <3>2. m - 1 = l
      BY <3>1
    <3> QED  BY <1>0, <1>1, <2>1, <2>3, <3>1, <3>2
             DEF ResponseHeader, LineEnds
  <2>4. CASE x.state = "s_header_value_start" /\ y.state = "s_header_value"
    <3>1. r = "field" /\ h = l /\ m = l
      BY <1>2, <2>4 DEF ResponseHeader
    <3> QED  BY <1>0, <1>1, <2>1, <2>4, <3>1 DEF ResponseHeader, LineEnds
  <2> QED  BY <1>3, <2>2, <2>3, <2>4 DEF HeaderLine
<1>4. CASE y.called = <<"field">>
  <2>1. /\ x.state = "s_header_field"
        /\ y.state \in {"s_header_field", "s_header_value_start"}
    BY <1>4 DEF HeaderLine
  <2>2. t = headerField(s, "server", 0) /\ Completes(y) = 0
    BY <1>0, <1>4, OneCallback
  <2>3. /\ OtherRequests(s, t) /\ t.responseState = "field"
        /\ IF r \in {"field", "value"}
           THEN /\ Len(t.responses) = Len(s.responses)
                /\ LastResponse(t).statuses = LastResponse(s).statuses
                /\ LastResponse(t).headers = IF r = "field" THEN h ELSE h + 1
           ELSE /\ Len(t.responses) = Len(s.responses) + 1
                /\ LastResponse(t).statuses = 0
                /\ LastResponse(t).headers = 1
    BY <1>1, <2>2, ResponseFieldIs
  <2>4. /\ LastResponse(t).headers = l /\ m = l
        /\ Len(t.responses) = c + 1 /\ LastResponse(t).statuses = 0
    <3>1. CASE r \in {"field", "value"}
      <4>1. h = IF r = "value" THEN l - 1 ELSE l
        BY <2>1, <3>1 DEF ResponseHeader
      <4> QED  BY <1>1, <1>2, <2>1, <2>3, <3>1, <4>1
    <3>2. CASE r \notin {"field", "value"}
      <4>1. Len(s.responses) = c /\ l = 1
        BY <2>1, <3>2 DEF ResponseHeader
      <4> QED  BY <1>2, <2>1, <2>3, <3>2, <4>1
    <3> QED  BY <3>1, <3>2
  <2> QED  BY <1>0, <2>1, <2>2, <2>3, <2>4
           DEF ResponseHeader, OtherRequests, LineEnds
<1>5. CASE y.called = <<"value">>
  <2>1. /\ x.state \in {"s_header_value_start", "s_header_value"}
        /\ y.state \in {"s_header_value", "s_header_almost_done",
                        "s_header_field_start"}
    BY <1>5 DEF HeaderLine
  <2>2. t = headerValue(s, "server") /\ Completes(y) = 0
    BY <1>0, <1>5, OneCallback
  <2>3. /\ OtherRequests(s, t) /\ t.responseState = "value"
        /\ t.responses = s.responses
    BY <2>2, ResponseValueIs
  <2>4. LastResponse(t) = LastResponse(s) /\ m = l
        /\ r \in {"field", "value"} /\ h = l
    BY <1>2, <2>1, <2>3 DEF ResponseHeader, LastResponse
  <2> QED  BY <1>0, <1>1, <2>1, <2>2, <2>3, <2>4
           DEF ResponseHeader, OtherRequests, LineEnds
<1> QED  BY <1>3, <1>4, <1>5 DEF HeaderLine

(* A header line is one header of the message, in however many parts it is *)
(* given.                                                                  *)
LEMMA HeaderLineKeeps ==
    ASSUME NEW x, NEW s, NEW c, NEW l, SessionOK(x, s, c, l), NEW y,
           HeaderLine(x, y), NEW t, NEW d, NEW m,
           After(x, s, c, l, y, t, d, m)
    PROVE  SessionOK(y, t, d, m)
<1>0. /\ IsSession(s) /\ c \in Nat /\ l \in Nat
      /\ InHeaders(x) /\ InHeaders(y) /\ y.type = x.type
      /\ x.type \in {"request", "response"}
      /\ t = Assembled(s, y) /\ d = c + Completes(y) /\ m = LinesTo(x, y, l)
  BY DEF SessionOK, HeaderLine, After, TypeOK, InHeaders, HeaderStates,
         BothStates
<1>1. m \in Nat
  BY <1>0, HeaderLines
<1>2. CASE x.type = "request"
  <2>1. RequestHeader(x, s, c, l)
    BY <1>0, <1>2, InHeadersAre DEF SessionOK
  <2>2. IsSession(t) /\ Completes(y) = 0 /\ RequestHeader(y, t, c, m)
    BY <1>0, <1>2, <2>1, RequestHeaderKeeps
  <2>3. d = c /\ RequestOK(y, t, c, m)
    BY <1>0, <2>2, InHeadersAre
  <2> QED  BY <1>0, <1>1, <1>2, <2>2, <2>3 DEF SessionOK, TypeOK
<1>3. CASE x.type = "response"
  <2>1. ResponseHeader(x, s, c, l)
    BY <1>0, <1>3, InHeadersAre DEF SessionOK
  <2>2. IsSession(t) /\ Completes(y) = 0 /\ ResponseHeader(y, t, c, m)
    BY <1>0, <1>3, <2>1, ResponseHeaderKeeps
  <2>3. d = c /\ ResponseOK(y, t, c, m)
    BY <1>0, <2>2, InHeadersAre
  <2> QED  BY <1>0, <1>1, <1>3, <2>2, <2>3 DEF SessionOK, TypeOK
<1> QED  BY <1>0, <1>2, <1>3

(* The callbacks at the end of the headers.                                *)
LEMMA EndCallbacks ==
    ASSUME NEW s, NEW y, NEW f \in {"complete", "closing"},
           y.called \in {<<f>>, <<f, "messageComplete">>},
           NEW side, side = IF y.type = "request" THEN "client" ELSE "server"
    PROVE  /\ f = "complete" =>
                 Assembled(s, y) = headersComplete(s, side, 0, TRUE)
           /\ f = "closing" =>
                 Assembled(s, y) = headersComplete(s, side, 0, FALSE)
           /\ Completes(y) = 1
<1>1. Completes(y) = 1
  BY CompletesIs
<1>2. Assembled(s, y) = Callback(s, f, side, 0)
  <2>1. CASE y.called = <<f>>
    BY <2>1, AssembledOne
  <2>2. CASE y.called = <<f, "messageComplete">>
    <3>1. Assembled(s, y) =
             Callback(Callback(s, f, side, 0), "messageComplete", side, 0)
      BY <2>2, AssembledTwo
    <3>2. \A u : Callback(u, "messageComplete", side, 0) = u
      BY DEF Callback
    <3> QED  BY <3>1, <3>2
  <2> QED  BY <2>1, <2>2
<1>3. /\ f = "complete" => Callback(s, f, side, 0) =
                              headersComplete(s, side, 0, TRUE)
      /\ f = "closing" => Callback(s, f, side, 0) =
                              headersComplete(s, side, 0, FALSE)
  BY DEF Callback
<1> QED  BY <1>1, <1>2, <1>3

(* The places after a message's headers are in no line.                    *)
LEMMA FollowingPlaces ==
    ASSUME NEW x, NEW y, Following(x, y), x.type \in {"request", "response"}
    PROVE  /\ ~InHeaders(y)
           /\ y.state \notin Unnamed \cup PastPath \cup Named \cup Untold
           /\ y.state = "s_start_req" => x.type = "request"
           /\ y.state = "s_start_res" =>
                 x.type = "response" /\ http_should_keep_alive(x)
           /\ TypeOK(y)
<1>1. \/ PastHeaders(y)
      \/ y.state \in {"s_start_req", "s_start_res"}
         /\ http_should_keep_alive(x)
         /\ y.state = IF x.type = "request" THEN "s_start_req"
                                            ELSE "s_start_res"
  BY DEF Following
<1>2. PastHeaders(y) => y.state \notin {"s_start_req", "s_start_res"}
  BY DEF PastHeaders, BodyStates, ChunkStates
<1>3. ~InHeaders(y)
  BY <1>1 DEF InHeaders, PastHeaders, HeaderStates, BodyStates, ChunkStates
<1>4. y.state \notin Unnamed \cup PastPath \cup Named \cup Untold
  BY <1>1 DEF PastHeaders, BodyStates, ChunkStates, Unnamed, PastPath, Named,
              Untold, Versions
<1>5. y.type = x.type
  BY DEF Following
<1> QED  BY <1>1, <1>2, <1>3, <1>4, <1>5 DEF TypeOK

(* The lines after the headers are those of the message.                   *)
LEMMA FollowingLines ==
    ASSUME NEW x, InHeaders(x) \/ PastHeaders(x), NEW y, NEW l,
           ~(/\ x.state = "s_header_field_start"
             /\ y.state = "s_header_field")
    PROVE  LinesTo(x, y, l) = l
BY DEF LinesTo, InHeaders, PastHeaders, HeaderStates, BodyStates, ChunkStates,
       StartStates

(* When the headers are complete the message is in the session, whole.     *)
LEMMA HeadersEndKeeps ==
    ASSUME NEW x, NEW s, NEW c, NEW l, SessionOK(x, s, c, l), NEW y,
           HeadersEnd(x, y), NEW t, NEW d, NEW m,
           After(x, s, c, l, y, t, d, m)
    PROVE  SessionOK(y, t, d, m)
<1>0. /\ IsSession(s) /\ c \in Nat /\ l \in Nat
      /\ InHeaders(x) /\ y.type = x.type /\ Following(x, y)
      /\ x.state \in {"s_header_field_start", "s_headers_almost_done"}
      /\ x.type \in {"request", "response"}
      /\ t = Assembled(s, y) /\ d = c + Completes(y) /\ m = LinesTo(x, y, l)
  BY DEF SessionOK, HeadersEnd, Following, After, TypeOK, InHeaders,
         HeaderStates, BothStates
<1>1. /\ http_should_keep_alive(x) =>
            y.called \in {<<"complete">>, <<"complete", "messageComplete">>}
      /\ ~http_should_keep_alive(x) =>
            y.called \in {<<"closing">>, <<"closing", "messageComplete">>}
  BY DEF HeadersEnd
<1>a. http_should_keep_alive(y) <=> http_should_keep_alive(x)
  BY <1>0 DEF Following
<1>2. PICK side : side = IF y.type = "request" THEN "client" ELSE "server"
  OBVIOUS
<1>b. /\ http_should_keep_alive(x) =>
            t = headersComplete(s, side, 0, TRUE)
      /\ ~http_should_keep_alive(x) =>
            t = headersComplete(s, side, 0, FALSE)
      /\ d = c + 1
  BY <1>0, <1>1, <1>2, EndCallbacks
<1>3. /\ ~InHeaders(y) /\ TypeOK(y)
      /\ y.state \notin Unnamed \cup PastPath \cup Named \cup Untold
      /\ x.type = "request" => y.state # "s_start_res"
      /\ x.type = "response" => y.state # "s_start_req"
      /\ y.state = "s_start_res" => http_should_keep_alive(x)
  BY <1>0, FollowingPlaces
<1>4. m = l
  <2>1. y.state # "s_header_field"
    BY <1>0 DEF Following, PastHeaders, BodyStates, ChunkStates
  <2> QED  BY <1>0, <2>1, FollowingLines
<1>5. CASE x.type = "request"
  <2>1. RequestHeader(x, s, c, l)
    BY <1>0, <1>5, InHeadersAre DEF SessionOK
  <2>2. /\ s.responses = <<>> /\ Len(s.requests) = c + 1
        /\ "method" \in LastRequest(s).strings
        /\ LastRequest(s).headers = l
    BY <1>0, <2>1 DEF RequestHeader
  <2>s. side = "client"
    BY <1>0, <1>2, <1>5
  <2>p. Len(s.requests) > 0
    BY <1>0, <2>2
  <2>3. \/ t = headersComplete(s, "client", 0, TRUE)
        \/ t = headersComplete(s, "client", 0, FALSE)
    BY <1>b, <2>s
  <2>4. /\ OtherResponses(s, t) /\ t.requestState = "complete"
        /\ Len(t.requests) = Len(s.requests)
        /\ LastRequest(t).strings = LastRequest(s).strings \cup {"version"}
        /\ LastRequest(t).headers = LastRequest(s).headers
    BY <1>0, <2>p, <2>3, RequestCompleteIs
  <2>5. /\ IsSession(t) /\ t.responses = <<>>
        /\ {"method", "version"} \subseteq LastRequest(t).strings
        /\ LastRequest(t).headers = l /\ Len(t.requests) = d
    BY <1>b, <2>2, <2>4 DEF OtherResponses
  <2>6. RequestOK(y, t, d, l)
    BY <1>3, <2>4, <2>5 DEF RequestOK
  <2> QED  BY <1>0, <1>b, <1>3, <1>4, <1>5, <2>5, <2>6 DEF SessionOK
<1>6. CASE x.type = "response"
  <2>1. ResponseHeader(x, s, c, l)
    BY <1>0, <1>6, InHeadersAre DEF SessionOK
  <2>2. /\ s.requests = <<>>
        /\ s.responseState \in {"none", "complete", "value"}
        /\ IF s.responseState = "value"
           THEN /\ Len(s.responses) = c + 1 /\ LastResponse(s).statuses = 0
                /\ LastResponse(s).headers = l
           ELSE Len(s.responses) = c /\ l = 0
    BY <1>0, <2>1 DEF ResponseHeader, LineEnds
  <2>r. PICK r : r = IF http_should_keep_alive(x) THEN "complete"
                                                  ELSE s.responseState
    OBVIOUS
  <2>s. side = "server"
    BY <1>0, <1>2, <1>6
  <2>p. s.responseState = "value" => Len(s.responses) > 0
    BY <1>0, <2>2
  <2>3. CompletedAs(s, t, r)
    BY <1>b, <2>s, <2>r DEF CompletedAs
  <2>4. /\ OtherRequests(s, t) /\ t.responseState = r
        /\ IF s.responseState = "value"
           THEN /\ Len(t.responses) = Len(s.responses)
                /\ LastResponse(t).statuses = LastResponse(s).statuses + 1
                /\ LastResponse(t).headers = LastResponse(s).headers
           ELSE /\ Len(t.responses) = Len(s.responses) + 1
                /\ LastResponse(t).statuses = 1
                /\ LastResponse(t).headers = 0
    BY <1>0, <2>p, <2>3, ResponseCompleteIs
  <2>5. /\ IsSession(t) /\ t.requests = <<>>
        /\ LastResponse(t).statuses = 1
        /\ LastResponse(t).headers = l /\ Len(t.responses) = d
        /\ http_should_keep_alive(x) => t.responseState = "complete"
    BY <1>b, <2>2, <2>4, <2>r DEF OtherRequests
  <2>6. ResponseOK(y, t, d, l)
    BY <1>a, <1>3, <1>6, <2>5 DEF ResponseOK
  <2> QED  BY <1>0, <1>b, <1>3, <1>4, <1>6, <2>5, <2>6 DEF SessionOK
<1> QED  BY <1>0, <1>5, <1>6

(* Until the next one it stays as it is.                                   *)
LEMMA FollowsKeeps ==
    ASSUME NEW x, NEW s, NEW c, NEW l, SessionOK(x, s, c, l), NEW y,
           Follows(x, y), NEW t, NEW d, NEW m, After(x, s, c, l, y, t, d, m)
    PROVE  SessionOK(y, t, d, m)
<1>0. /\ IsSession(s) /\ c \in Nat /\ l \in Nat
      /\ PastHeaders(x) /\ y.type = x.type /\ Following(x, y)
      /\ x.type \in {"request", "response"}
  BY DEF SessionOK, Follows, Following, TypeOK, PastHeaders, BodyStates,
         ChunkStates, BothStates
<1>1. t = s /\ d = c
  <2>1. Assembled(s, y) = s /\ Completes(y) = 0
    BY SilentAssembles DEF Follows
  <2> QED  BY <1>0, <2>1 DEF After
<1>2. http_should_keep_alive(y) <=> http_should_keep_alive(x)
  BY <1>0 DEF Following
<1>3. /\ ~InHeaders(y) /\ TypeOK(y)
      /\ y.state \notin Unnamed \cup PastPath \cup Named \cup Untold
      /\ x.type = "request" => y.state # "s_start_res"
      /\ x.type = "response" => y.state # "s_start_req"
      /\ y.state = "s_start_res" => http_should_keep_alive(x)
  BY <1>0, FollowingPlaces
<1>4. m = l
  <2>1. y.state # "s_header_field"
    BY <1>0 DEF Following, PastHeaders, BodyStates, ChunkStates
  <2> QED  BY <1>0, <2>1, FollowingLines DEF After
<1>5. CASE x.type = "request"
  <2>1. RequestOK(x, s, c, l)
    BY <1>5 DEF SessionOK
  <2>2. /\ s.responses = <<>> /\ Len(s.requests) = c
        /\ s.requestState \in {"none", "complete"}
        /\ c > 0 => /\ {"method", "version"} \subseteq LastRequest(s).strings
                    /\ LastRequest(s).headers = l
    BY <1>0, <2>1 DEF RequestOK
  <2>3. RequestOK(y, s, c, l)
    BY <1>3, <2>2 DEF RequestOK
  <2> QED  BY <1>0, <1>1, <1>3, <1>4, <1>5, <2>3 DEF SessionOK
<1>6. CASE x.type = "response"
  <2>1. ResponseOK(x, s, c, l)
    BY <1>6 DEF SessionOK
  <2>2. /\ s.requests = <<>> /\ Len(s.responses) = c
        /\ s.responseState = "complete" \/ ~http_should_keep_alive(x)
        /\ c > 0 => /\ LastResponse(s).statuses = 1
                    /\ LastResponse(s).headers = l
    BY <1>0, <2>1 DEF ResponseOK
  <2>3. ResponseOK(y, s, c, l)
    BY <1>2, <1>3, <1>6, <2>2 DEF ResponseOK
  <2> QED  BY <1>0, <1>1, <1>3, <1>4, <1>6, <2>3 DEF SessionOK
<1> QED  BY <1>0, <1>5, <1>6

(* Whatever the parser does, the session is what it has read.              *)
LEMMA CourseKeeps ==
    ASSUME NEW x, NEW s, NEW c, NEW l, SessionOK(x, s, c, l), NEW y,
           Course(x, y), NEW t, NEW d, NEW m, After(x, s, c, l, y, t, d, m)
    PROVE  SessionOK(y, t, d, m)
BY RestsKeeps, MeetsKeeps, BeginsKeeps, RequestLineKeeps, ResponseLineKeeps,
   HeaderLineKeeps, HeadersEndKeeps, FollowsKeeps DEF Course

(* What it says of the messages whose headers are complete.                *)
Whole(s, c, l) ==
    /\ Len(s.requests) + Len(s.responses) = c
    /\ c = 1 =>
         /\ \A i \in 1..Len(s.requests) :
               /\ {"method", "version"} \subseteq s.requests[i].strings
               /\ s.requests[i].headers = l
         /\ \A i \in 1..Len(s.responses) :
               /\ s.responses[i].statuses = 1
               /\ s.responses[i].headers = l

(* A session that is what the parser has read has them whole.              *)
LEMMA SessionIsAssembled ==
    ASSUME NEW x, NEW s, NEW c, NEW l, SessionOK(x, s, c, l),
           x.state \in StartStates \cup BodyStates
    PROVE  Whole(s, c, l)
<1> USE DEF Whole
<1>0. /\ IsSession(s) /\ c \in Nat /\ l \in Nat
      /\ Len(<<>>) = 0
  BY DEF SessionOK
<1>1. CASE x.type = "both"
  <2>1. s = NewSession(0) /\ c = 0
    BY <1>1 DEF SessionOK
  <2>2. Len(s.requests) = 0 /\ Len(s.responses) = 0
    BY <2>1, NewSessionIs
  <2>n. c = 0
    BY <2>1
  <2>3. Len(s.requests) + Len(s.responses) = c /\ c # 1
    BY <2>n, <2>2
  <2> QED  BY <2>3
<1>2. CASE x.type = "request"
  <2>1. x.state = "s_start_req" \/ PastHeaders(x)
    BY <1>2 DEF SessionOK, TypeOK, InHeaders, PastHeaders, StartStates,
                BodyStates, HeaderStates, Unnamed, PastPath, Named, Versions
  <2>2. /\ s.responses = <<>> /\ Len(s.requests) = c
        /\ c > 0 => /\ {"method", "version"} \subseteq LastRequest(s).strings
                    /\ LastRequest(s).headers = l
    BY <1>2, <2>1 DEF SessionOK, RequestOK
  <2> QED  BY <1>0, <2>2 DEF LastRequest
<1>3. CASE x.type = "response"
  <2>1. x.state = "s_start_res" \/ PastHeaders(x)
    BY <1>3 DEF SessionOK, TypeOK, InHeaders, PastHeaders, StartStates,
                BodyStates, HeaderStates, Untold, Versions
  <2>2. /\ s.requests = <<>> /\ Len(s.responses) = c
        /\ c > 0 => /\ LastResponse(s).statuses = 1
                    /\ LastResponse(s).headers = l
    BY <1>3, <2>1 DEF SessionOK, ResponseOK
  <2> QED  BY <1>0, <2>2 DEF LastResponse
<1> QED  BY <1>1, <1>2, <1>3 DEF SessionOK, TypeOK

-----------------------------------------------------------------------------
(* Every handler takes one of these courses, or the session ends with it.  *)
(* A header line without a colon, and the name of a trailer.               *)
Astray(x, y) ==
    \/ x.state = "s_header_field"
       /\ y.state \in {"s_header_almost_done", "s_header_field_start"}
    \/ y.state = "s_header_field" /\ "TRAILING" \in y.flags

Went(x, y) == y.returned \/ y.state = "s_dead" \/ Astray(x, y) \/ Course(x, y)

(* A parser between two bytes of a packet, of the type that its state says.*)
Placed(x) == Ready(x) /\ TypeOK(x)

(* The states of one type only.                                            *)
Asking == {"s_start_req", "s_req_http_start", "s_req_line_almost_done"}
              \cup Unnamed \cup PastPath
Telling == {"s_start_res", "s_first_status_code", "s_status_code",
            "s_res_status", "s_res_line_almost_done"}
InLine == {"s_header_field", "s_header_value_start", "s_header_value",
           "s_header_almost_done"}

(* What the place of a parser says of its type.                            *)
LEMMA TypesAre ==
    ASSUME NEW x, Placed(x)
    PROVE  /\ IsParser(x) /\ x.called = <<>> /\ ~x.returned
           /\ x.state \in BothStates => x.type = "both"
           /\ x.state \in Asking => x.type = "request"
           /\ x.state \in Telling => x.type = "response"
           /\ x.state \notin BothStates => x.type \in {"request", "response"}
           /\ x.state \in HeaderStates =>
                 IF "TRAILING" \in x.flags THEN PastHeaders(x)
                                           ELSE InHeaders(x)
           /\ x.state \in InLine => InHeaders(x)
           /\ x.state \in ChunkStates \cup BodyStates => PastHeaders(x)
<1> USE DEF Placed, BothStates, Asking, Telling, InLine, Unnamed, PastPath,
            Named, Untold, Versions, TypeOK, InHeaders, PastHeaders,
            HeaderStates, ChunkStates, BodyStates
<1>1. IsParser(x) /\ x.called = <<>> /\ ~x.returned /\ TypeOK(x)
  BY DEF Ready
<1>2. x.state \in BothStates => x.type = "both"
  OBVIOUS
<1>3. x.state \in Asking => x.type = "request"
  OBVIOUS
<1>4. x.state \in Telling => x.type = "response"
  OBVIOUS
<1>5. x.state \notin BothStates => x.type \in {"request", "response"}
  OBVIOUS
<1>6. /\ x.state \in HeaderStates =>
            IF "TRAILING" \in x.flags THEN PastHeaders(x) ELSE InHeaders(x)
      /\ x.state \in InLine => InHeaders(x)
  OBVIOUS
<1>7. x.state \in ChunkStates \cup BodyStates => PastHeaders(x)
  OBVIOUS
<1> QED  BY <1>1, <1>2, <1>3, <1>4, <1>5, <1>6, <1>7

(* The rest of a first line, after the URL or of a response.               *)
LEMMA LineGoes ==
    ASSUME NEW x, Placed(x), x.state \in LineStates,
           NEW y, y.called = <<>>, y.type = x.type,
           y.state = "s_header_field_start" => "TRAILING" \notin y.flags,
           \/ /\ x.type = "request" /\ x.state \in Named
              /\ y.state \in Named \cup {"s_header_field_start"}
           \/ /\ x.type = "response" /\ x.state \in Untold
              /\ y.state \in Untold \cup {"s_header_field_start"}
    PROVE  Course(x, y)
<1>1. y.state = "s_header_field_start" => AtLineEnd(y)
  BY DEF AtLineEnd, InHeaders, HeaderStates, LineEnds
<1>2. CASE x.type = "request"
  <2>1. RequestLine(x, y)
    BY <1>1, <1>2 DEF RequestLine
  <2> QED  BY <2>1 DEF Course
<1>3. CASE x.type = "response"
  <2>1. ResponseLine(x, y)
    BY <1>1, <1>3 DEF ResponseLine
  <2> QED  BY <2>1 DEF Course
<1> QED  BY <1>2, <1>3

(* A handler may stay where it is, if it keeps what is known of a message. *)
LEMMA Stays ==
    ASSUME NEW x, Placed(x), NEW y, Unmoved(x, y),
           y.modern <=> x.modern
    PROVE  Course(x, y)
BY DEF Course, Rests, Placed, Ready, Unmoved, Moved, http_should_keep_alive

(* A message's first byte.                                                 *)
LEMMA StartGoes ==
    ASSUME NEW x, Placed(x), x.state \in StartStates, NEW ch,
           NEW y, y = Start(x, ch)
    PROVE  Went(x, y)
<1> DEFINE u == [x EXCEPT !.flags = {}, !.length = -1]
           z == Call(u, "messageBegin")
<1>0. /\ IsParser(x) /\ x.called = <<>>
      /\ x.state = "s_start_req_or_res" => x.type = "both"
      /\ x.state = "s_start_req" => x.type = "request"
      /\ x.state = "s_start_res" => x.type = "response"
  BY TypesAre DEF BothStates, Asking, Telling
<1>1. \/ y = x /\ x.state # "s_start_res"
      \/ y = z /\ x.state = "s_start_res"
      \/ y = Failed(z)
      \/ y = Enter(z, "s_res_or_resp_H") /\ x.state = "s_start_req_or_res"
      \/ /\ x.state = "s_start_res"
         /\ y = [Enter(z, "s_http") EXCEPT !.number = 1]
      \/ /\ x.state # "s_start_res"
         /\ \E m : y = [Enter(z, "s_req_method") EXCEPT !.type = "request",
                                    !.index = 1, !.method = m]
  <2>1. \/ y = x /\ x.state # "s_start_res"
        \/ y = z /\ x.state = "s_start_res"
        \/ y = Failed(z)
        \/ y = Enter(z, "s_res_or_resp_H") /\ x.state = "s_start_req_or_res"
        \/ /\ x.state = "s_start_res"
           /\ y = [Enter(z, "s_http") EXCEPT !.number = 1]
        \/ x.state # "s_start_res" /\ y = StartRequest(z, ch)
    <3> HIDE DEF z
    <3>1. y = CASE x.state # "s_start_res" /\ ch \in {CR, LF} -> x
          [] x.state = "s_start_res" /\ ch \in {CR, LF} -> z
          [] x.state = "s_start_req_or_res" /\ ch = "h" ->
                 Enter(z, "s_res_or_resp_H")
          [] x.state = "s_start_res" /\ ch = "h" ->
                 [Enter(z, "s_http") EXCEPT !.number = 1]
          [] x.state # "s_start_res" /\ ch \notin {"h", CR, LF} ->
                 StartRequest(z, ch)
          [] x.state = "s_start_req" /\ ch = "h" -> StartRequest(z, ch)
          [] OTHER -> Failed(z)
      BY DEF Start, z
    <3> QED  BY <3>1
  <2> HIDE DEF z
  <2> QED  BY <2>1 DEF StartRequest
<1>2. /\ IsParser(z) /\ z.called = <<"messageBegin">>
      /\ z.state = x.state /\ z.type = x.type
  <2>1. /\ IsParser(u) /\ u.called = <<>> /\ u.state = x.state
        /\ u.type = x.type
    <3> DEFINE none == {} less == -1
    <3>1. u = [x EXCEPT !.flags = none, !.length = less] /\ less \in Int
      OBVIOUS
    <3> HIDE DEF z, u, none, less
    <3> QED  BY <1>0, <3>1 DEF IsParser, Fields
  <2> HIDE DEF u
  <2> QED  BY <1>0, <2>1, CallMoves, OneCall DEF SameMarks
<1> HIDE DEF z
<1>3. CASE y = x
  BY <1>0, <1>3 DEF Went, Course, Rests
<1>4. CASE y = Failed(z)
  BY <1>4, FailedMoves DEF Went
<1>5. ASSUME y.type = "both", y.called = <<"messageBegin">>,
             y.state = "s_res_or_resp_H", x.state = "s_start_req_or_res"
      PROVE  Went(x, y)
  BY <1>0, <1>5 DEF Went, Course, Meets, Silent
<1>6. ASSUME y.type = "response", y.called = <<"messageBegin">>,
             y.state \in {"s_start_res", "s_http"}, x.state = "s_start_res"
      PROVE  Went(x, y)
  BY <1>0, <1>6 DEF Went, Course, Begins, Silent
<1>7. ASSUME y.type = "request", y.called = <<"messageBegin">>,
             y.state = "s_req_method", x.state # "s_start_res"
      PROVE  Went(x, y)
  <2>1. CASE x.state = "s_start_req"
    BY <1>0, <1>7, <2>1 DEF Went, Course, Begins, Silent
  <2>2. CASE x.state = "s_start_req_or_res"
    BY <1>0, <1>7, <2>2 DEF Went, Course, Meets, Silent
  <2> QED  BY <1>7, <2>1, <2>2 DEF StartStates
<1>8. CASE y = z /\ x.state = "s_start_res"
  BY <1>0, <1>2, <1>6, <1>8
<1>9. CASE y = Enter(z, "s_res_or_resp_H") /\ x.state = "s_start_req_or_res"
  <2>1. /\ y.called = z.called /\ y.type = z.type
        /\ y.state = "s_res_or_resp_H"
    BY <1>2, <1>9, EnterMoves DEF Moved
  <2> QED  BY <1>0, <1>2, <1>5, <1>9, <2>1
<1>10. CASE /\ x.state = "s_start_res"
            /\ y = [Enter(z, "s_http") EXCEPT !.number = 1]
  <2>1. y.called = z.called /\ y.state = "s_http" /\ y.type = z.type
    BY <1>2, <1>10 DEF IsParser, Fields, Enter
  <2> QED  BY <1>0, <1>2, <1>6, <1>10, <2>1
<1>11. CASE /\ x.state # "s_start_res"
            /\ \E m : y = [Enter(z, "s_req_method") EXCEPT !.type = "request",
                                 !.index = 1, !.method = m]
  <2> PICK m : y = [Enter(z, "s_req_method") EXCEPT !.type = "request",
                                 !.index = 1, !.method = m]
    BY <1>11
  <2>1. /\ y.called = z.called /\ y.type = "request"
        /\ y.state = "s_req_method"
    BY <1>2 DEF IsParser, Fields, Enter
  <2> QED  BY <1>2, <1>7, <1>11, <2>1
<1> QED  BY <1>1, <1>3, <1>4, <1>8, <1>9, <1>10, <1>11

(* The byte after an "H".                                                  *)
LEMMA ResponseOrHeadGoes ==
    ASSUME NEW x, Placed(x), x.state = "s_res_or_resp_H", NEW ch,
           NEW y, y = ResponseOrHead(x, ch)
    PROVE  Went(x, y)
<1>0. IsParser(x) /\ x.called = <<>> /\ x.type = "both"
  BY TypesAre DEF BothStates
<1>1. \/ y = Failed(x)
      \/ /\ y.called = <<>>
         /\ \/ y.type = "response" /\ y.state = "s_http"
            \/ y.type = "request" /\ y.state = "s_req_method"
  BY <1>0 DEF ResponseOrHead, Enter, IsParser, Fields
<1>2. CASE y = Failed(x)
  BY <1>2, FailedMoves DEF Went
<1>3. CASE /\ y.called = <<>>
           /\ \/ y.type = "response" /\ y.state = "s_http"
              \/ y.type = "request" /\ y.state = "s_req_method"
  BY <1>0, <1>3 DEF Went, Course, Meets, Silent
<1> QED  BY <1>1, <1>2, <1>3

(* A method's letters.                                                     *)
LEMMA MethodLetterGoes ==
    ASSUME NEW x, Placed(x), x.state = "s_req_method", NEW ch,
           NEW y \in MethodLetter(x, ch)
    PROVE  Went(x, y)
<1> DEFINE next == [x EXCEPT !.index = @ + 1]
           ends == Enter(next, "s_req_spaces_before_url")
           name == Spelling[x.method]
           switch == {s \in Switches :
                        s[1] = x.method /\ s[2] = x.index /\ s[3] = ch}
           Here(z) == /\ z.called = <<>> /\ z.type = "request"
                      /\ z.state \in {"s_req_method",
                                      "s_req_spaces_before_url"}
<1>0. IsParser(x) /\ x.called = <<>> /\ x.type = "request"
  BY TypesAre DEF Asking, Unnamed
<1>1. Here(next) /\ Here(ends) /\ \A m : Here([next EXCEPT !.method = m])
  BY <1>0 DEF IsParser, Fields, Enter
<1>4. MethodLetter(x, ch) =
          CASE ch = "nul"                             -> {Failed(x)}
            [] ch = SP /\ x.index = Len(name)         -> {ends}
            [] ch = SP /\ x.index > Len(name)         -> {ends, next}
            [] /\ ch \notin {SP, "nul"}
               /\ x.index < Len(name) /\ ch = name[x.index + 1] -> {next}
            [] OTHER ->
                   IF switch # {}
                   THEN {[next EXCEPT !.method = s[4]] : s \in switch}
                   ELSE {IF x.method \in {"CONNECT", "MKCOL"} THEN next
                                                              ELSE Failed(x)}
  BY DEF MethodLetter
<1> HIDE DEF next, ends, switch, name
<1>5. y \in {Failed(x), next, ends} \/ \E m : y = [next EXCEPT !.method = m]
  BY <1>4
<1> HIDE DEF Here
<1>6. y = Failed(x) \/ Here(y)
  BY <1>1, <1>5
<1>7. CASE y = Failed(x)
  BY <1>7, FailedMoves DEF Went
<1>8. CASE Here(y)
  BY <1>0, <1>8 DEF Here, Went, Course, RequestLine, Unnamed
<1> QED  BY <1>6, <1>7, <1>8

(* The letters of "HTTP/".                                                 *)
LEMMA HTTPLetterGoes ==
    ASSUME NEW x, Placed(x), x.state \in {"s_req_http_start", "s_http"},
           NEW ch, NEW y, y = HTTPLetter(x, ch)
    PROVE  Went(x, y)
<1> DEFINE n == IF x.state = "s_http" THEN x.number + 1 ELSE 1
<1>0. /\ IsParser(x) /\ x.called = <<>> /\ x.type \in {"request", "response"}
      /\ x.state = "s_req_http_start" => x.type = "request"
  BY TypesAre DEF BothStates, Asking
<1>1. \/ y = Failed(x)
      \/ y = [Enter(x, "s_http") EXCEPT !.number = n]
      \/ y = [Enter(x, "s_first_http_major") EXCEPT !.number = 0]
  BY DEF HTTPLetter
<1> HIDE DEF n
<1>2. CASE y = Failed(x)
  BY <1>2, FailedMoves DEF Went
<1>3. CASE y # Failed(x)
  <2>1. /\ y.called = <<>> /\ y.type = x.type
        /\ y.state \in {"s_http", "s_first_http_major"}
    BY <1>0, <1>1, <1>3, NumberMoves DEF Moved
  <2>2. /\ y.state \in Named /\ y.state \in Untold
        /\ x.state \in Named /\ x.state \in LineStates
        /\ x.state = "s_http" => x.state \in Untold
    BY <2>1 DEF Named, Untold, Versions, LineStates
  <2>3. Course(x, y)
    BY <1>0, <2>1, <2>2, LineGoes
  <2> QED  BY <2>3 DEF Went
<1> QED  BY <1>2, <1>3

(* The digits of versions and status codes.                                *)
LEMMA DigitGoes ==
    ASSUME NEW x, Placed(x), x.state \in DOMAIN FirstDigit \cup NumberStates,
           NEW ch, NEW y, y = Digit(x, ch)
    PROVE  Went(x, y)
<1> DEFINE next(s) == IF s \in DOMAIN FirstDigit THEN FirstDigit[s] ELSE s
<1>0. /\ IsParser(x) /\ x.called = <<>> /\ x.type \in {"request", "response"}
      /\ x.state \in Telling => x.type = "response"
      /\ x.state \in LineStates
  BY TypesAre DEF BothStates, FirstDigit, NumberStates, LineStates
<1>1. \/ y = Failed(x)
      \/ \E n : \/ y = [x EXCEPT !.number = n] /\ next(x.state) = x.state
                \/ y = [Enter(x, next(x.state)) EXCEPT !.number = n]
  <2>1. CASE x.state \in DOMAIN FirstDigit
    <3> HIDE DEF FirstDigit
    <3>1. \/ y = Failed(x)
          \/ y = [Enter(x, FirstDigit[x.state]) EXCEPT !.number = Value[ch]]
      BY <2>1 DEF Digit
    <3> QED  BY <2>1, <3>1
  <2>2. CASE x.state \notin DOMAIN FirstDigit
    BY <2>2 DEF Digit
  <2> QED  BY <2>1, <2>2
<1>2. x.state \in Named \cap Untold \/ x.state \in Telling
  BY DEF FirstDigit, NumberStates, Named, Untold, Versions, Telling
<1>3. /\ next(x.state) # "s_header_field_start"
      /\ x.state \in Telling =>
            x.state \in Untold /\ next(x.state) \in Untold
      /\ x.state \notin Telling => next(x.state) \in Named \cap Untold
  BY DEF FirstDigit, NumberStates, Named, Untold, Versions, Telling
<1>4. CASE y = Failed(x)
  BY <1>4, FailedMoves DEF Went
<1>5. CASE y # Failed(x)
  <2> HIDE DEF next
  <2>1. /\ y.called = <<>> /\ y.type = x.type /\ y.state = next(x.state)
    BY <1>0, <1>1, <1>5, NumberMoves DEF Moved, Unmoved
  <2>2. Course(x, y)
    BY <1>0, <1>2, <1>3, <2>1, LineGoes
  <2> QED  BY <2>2 DEF Went
<1> QED  BY <1>4, <1>5

(* What ends a version.                                                    *)
LEMMA VersionEndGoes ==
    ASSUME NEW x, Placed(x), x.state \in DOMAIN FirstDigit \cup NumberStates,
           NEW ch, NEW y, y = VersionEnd(x, ch)
    PROVE  Went(x, y)
<1> DEFINE minor == [x EXCEPT !.modern = x.number > 0, !.number = 0]
<1>0. /\ IsParser(x) /\ x.called = <<>> /\ x.type \in {"request", "response"}
      /\ "TRAILING" \notin x.flags /\ x.state \in LineStates
  BY TypesAre
  DEF BothStates, FirstDigit, NumberStates, LineStates, Placed, Ready, LineOK
<1>1. \/ y = Failed(x)
      \/ /\ x.state = "s_http_major"
         /\ y = [Enter(x, "s_first_http_minor") EXCEPT !.number = 0]
      \/ /\ x.state = "s_http_minor" /\ x.type = "request"
         /\ \/ y = Enter(minor, "s_req_line_almost_done")
            \/ y = Enter(minor, "s_header_field_start")
      \/ /\ x.state = "s_http_minor" /\ x.type = "response"
         /\ y = Enter(minor, "s_first_status_code")
  BY DEF VersionEnd
<1>2. \A s : LET z == Enter(minor, s)
             IN  /\ z.state = s /\ z.called = <<>> /\ z.type = x.type
                 /\ z.flags = x.flags
  BY <1>0 DEF Enter, IsParser, Fields
<1> HIDE DEF minor
<1>3. CASE y = Failed(x)
  BY <1>3, FailedMoves DEF Went
<1>4. CASE y # Failed(x)
  <2>1. /\ y.called = <<>> /\ y.type = x.type /\ y.flags = x.flags
        /\ \/ x.state = "s_http_major" /\ y.state = "s_first_http_minor"
           \/ /\ x.state = "s_http_minor" /\ x.type = "request"
              /\ y.state \in {"s_req_line_almost_done", "s_header_field_start"}
           \/ /\ x.state = "s_http_minor" /\ x.type = "response"
              /\ y.state = "s_first_status_code"
    BY <1>0, <1>1, <1>2, <1>4, NumberMoves DEF Moved
  <2>2. \/ /\ x.type = "request" /\ x.state \in Named
           /\ y.state \in Named \cup {"s_header_field_start"}
        \/ /\ x.type = "response" /\ x.state \in Untold
           /\ y.state \in Untold \cup {"s_header_field_start"}
    BY <1>0, <2>1 DEF Named, Untold, Versions
  <2>3. Course(x, y)
    BY <1>0, <2>1, <2>2, LineGoes
  <2> QED  BY <2>3 DEF Went
<1> QED  BY <1>3, <1>4

(* A name's first letter.                                                  *)
LEMMA FieldStartGoes ==
    ASSUME NEW x, Placed(x), x.state = "s_header_field_start", NEW ch,
           NEW at \in Nat, NEW y, y = FieldStart(x, ch, at)
    PROVE  Went(x, y)
<1>0. /\ IsParser(x) /\ x.called = <<>>
      /\ "TRAILING" \notin x.flags => InHeaders(x)
  BY TypesAre DEF HeaderStates
<1>1. CASE y = Failed(x)
  BY <1>1, FailedMoves DEF Went
<1>2. CASE y # Failed(x)
  <2> DEFINE z == Mark(x, "field", at)
  <2>1. PICK hs : y = [Enter(z, "s_header_field") EXCEPT !.index = 0,
                                                         !.hs = hs]
    BY <1>2 DEF FieldStart
  <2>2. /\ IsParser(z) /\ z.flags = x.flags /\ z.called = x.called
        /\ z.type = x.type
    <3>0. at \in Int
      OBVIOUS
    <3>1. PICK p \in Parts : p = "field"
      BY DEF Parts
    <3>2. LET w == Mark(x, p, at)
          IN  /\ IsParser(w)
              /\ w.state = x.state /\ w.nread = x.nread /\ w.flags = x.flags
              /\ w.length = x.length /\ w.called = x.called
              /\ w.returned = x.returned /\ w.type = x.type
              /\ w.mark = [x.mark EXCEPT ![p] = at] /\ w.given = x.given
      BY <1>0, <3>0, MarkMoves
    <3> QED  BY <3>1, <3>2
  <2> HIDE DEF z
  <2>3. /\ y.flags = x.flags /\ y.called = <<>> /\ y.type = x.type
        /\ y.state = "s_header_field"
    BY <1>0, <2>1, <2>2 DEF Enter, IsParser, Fields
  <2>4. CASE "TRAILING" \in x.flags
    BY <2>3, <2>4 DEF Went, Astray
  <2>5. CASE "TRAILING" \notin x.flags
    <3>1. InHeaders(y)
      BY <2>3, <2>5 DEF InHeaders, HeaderStates
    <3> QED  BY <1>0, <2>3, <2>5, <3>1 DEF Went, Course, HeaderLine
  <2> QED  BY <2>4, <2>5
<1> QED  BY <1>1, <1>2

(* A part of a header that ends.                                           *)
LEMMA PartGiven ==
    ASSUME NEW x, Placed(x), NEW f \in {"field", "value"}, NEW at \in Nat,
           x.state = IF f = "field" THEN "s_header_field"
                                    ELSE "s_header_value",
           NEW y, y = Give(x, f, at)
    PROVE  /\ IsParser(y) /\ y.called = <<f>> /\ y.flags = x.flags
           /\ y.type = x.type
<1>1. f \in Parts /\ x.mark[f] # NoMark /\ IsParser(x) /\ x.called = <<>>
  BY DEF Placed, Ready, PartsOK, Parts, Within
<1>2. PICK p \in Parts, a \in Int : p = f /\ a = at
  BY <1>1
<1>3. x.mark[p] # NoMark /\ y = Give(x, p, a)
  BY <1>1, <1>2
<1>4. /\ IsParser(y) /\ y.nread = x.nread /\ y.flags = x.flags
      /\ y.state = x.state /\ y.length = x.length
      /\ y.returned = x.returned /\ y.called = Append(x.called, p)
      /\ y.type = x.type /\ y.modern = x.modern
      /\ y.mark = [x.mark EXCEPT ![p] = NoMark]
      /\ y.given = [x.given EXCEPT ![p] = @ + a - x.mark[p]]
  BY <1>1, <1>3, GivePart
<1> QED  BY <1>1, <1>2, <1>4, OneCall

(* A name's letters.                                                       *)
LEMMA FieldGoes ==
    ASSUME NEW x, Placed(x), x.state = "s_header_field", NEW ch,
           NEW at \in Nat, NEW y, y = Field(x, ch, at)
    PROVE  Went(x, y)
<1>0. /\ IsParser(x) /\ x.called = <<>> /\ InHeaders(x)
  BY TypesAre DEF InLine
<1>1. \/ y = x \/ y = PrefixLetter(x, ch) \/ y = WordOver(x, ch)
      \/ y = Match(x, FieldWords[x.hs], ch)
      \/ y = Failed(x)
      \/ y = Enter(Give(x, "field", at), "s_header_value_start")
      \/ y = Enter(Give(x, "field", at), "s_header_almost_done")
      \/ y = Enter(Give(x, "field", at), "s_header_field_start")
  BY DEF Field
<1>2. CASE \/ y = x \/ y = PrefixLetter(x, ch) \/ y = WordOver(x, ch)
           \/ y = Match(x, FieldWords[x.hs], ch)
  <2>1. y.called = <<>> /\ y.type = x.type /\ y.state = x.state
        /\ y.flags = x.flags /\ y.modern = x.modern
    BY <1>0, <1>2
    DEF PrefixLetter, WordOver, Match, IsParser, Fields
  <2> QED  BY <2>1 DEF Went, Course, Rests, http_should_keep_alive
<1>3. CASE y = Failed(x)
  BY <1>3, FailedMoves DEF Went
<1>4. ASSUME NEW s \in {"s_header_value_start", "s_header_almost_done",
                        "s_header_field_start"},
             y = Enter(Give(x, "field", at), s)
      PROVE  Went(x, y)
  <2> DEFINE z == Give(x, "field", at)
  <2>1. /\ IsParser(z) /\ z.called = <<"field">> /\ z.flags = x.flags
        /\ z.type = x.type
    BY PartGiven
  <2> HIDE DEF z
  <2>2. Moved(z, y) /\ y.state = s /\ y.type = z.type
    BY <1>4, <2>1, EnterMoves DEF z
  <2>3. CASE s = "s_header_value_start"
    <3>1. InHeaders(y) /\ y.called = <<"field">> /\ y.type = x.type
      BY <1>0, <2>1, <2>2, <2>3 DEF InHeaders, HeaderStates, Moved
    <3> QED  BY <1>0, <2>2, <2>3, <3>1 DEF Went, Course, HeaderLine
  <2>4. CASE s # "s_header_value_start"
    BY <2>2, <2>4 DEF Went, Astray
  <2> QED  BY <2>3, <2>4
<1> QED  BY <1>1, <1>2, <1>3, <1>4

(* The end of a header line.                                               *)
LEMMA HeaderAlmostDoneGoes ==
    ASSUME NEW x, Placed(x), x.state = "s_header_almost_done", NEW ch,
           NEW y, y = HeaderAlmostDone(x, ch)
    PROVE  Went(x, y)
<1>0. /\ IsParser(x) /\ x.called = <<>> /\ InHeaders(x)
  BY TypesAre DEF InLine
<1>1. CASE y = Failed(x)
  BY <1>1, FailedMoves DEF Went
<1>2. CASE y # Failed(x)
  <2>1. /\ y.called = <<>> /\ y.type = x.type
        /\ ("TRAILING" \in y.flags) <=> ("TRAILING" \in x.flags)
        /\ y.state = "s_header_field_start"
    BY <1>0, <1>2, HeaderAlmostDoneMoves
  <2>2. InHeaders(y)
    BY <1>0, <2>1 DEF InHeaders, HeaderStates
  <2> QED  BY <1>0, <2>1, <2>2 DEF Went, Course, HeaderLine
<1> QED  BY <1>1, <1>2

(* A value's first byte.                                                   *)
LEMMA ValueStartGoes ==
    ASSUME NEW x, Placed(x), x.state = "s_header_value_start", NEW ch,
           NEW at \in Nat, NEW y, y = ValueStart(x, ch, at)
    PROVE  Went(x, y)
<1>0. /\ IsParser(x) /\ x.called = <<>> /\ InHeaders(x) /\ Ready(x)
      /\ "TRAILING" \notin x.flags
  BY TypesAre DEF InLine, InHeaders, Placed
<1>1. PICK p \in Parts : p = "value"
  BY DEF Parts
<1> DEFINE z == Mark(x, p, at)
           v == [Enter(z, "s_header_value") EXCEPT !.index = 0]
           g == Give(v, p, at)
           next == {w \in ValueStarts : w[1] = x.hs /\ w[2] = ch}
           h == IF next = {} THEN "h_general"
                ELSE (CHOOSE w \in next : TRUE)[3]
           more == IF x.hs = "h_upgrade" THEN {"UPGRADE"} ELSE {}
<1>2. LET w == Mark(x, p, at)
      IN  /\ IsParser(w)
          /\ w.state = x.state /\ w.nread = x.nread /\ w.flags = x.flags
          /\ w.length = x.length /\ w.called = x.called
          /\ w.returned = x.returned /\ w.type = x.type
          /\ w.mark = [x.mark EXCEPT ![p] = at] /\ w.given = x.given
  BY <1>0, MarkMoves
<1>3. /\ IsParser(v) /\ v.flags = x.flags /\ v.called = <<>>
      /\ v.type = x.type /\ v.state = "s_header_value" /\ v.mark[p] = at
  <2>1. x.mark \in [Parts -> Int]
    BY <1>0 DEF IsParser
  <2> HIDE DEF z
  <2> QED  BY <1>0, <1>2, <2>1 DEF Enter, IsParser, Fields, z
<1> HIDE DEF v
<1>4. /\ IsParser(g) /\ g.flags = x.flags /\ g.called = <<"value">>
      /\ g.type = x.type
  <2>1. v.mark[p] # NoMark /\ at \in Int
    BY <1>3 DEF NoMark
  <2>2. /\ IsParser(g) /\ g.nread = v.nread /\ g.flags = v.flags
        /\ g.state = v.state /\ g.length = v.length
        /\ g.returned = v.returned /\ g.called = Append(v.called, p)
        /\ g.type = v.type /\ g.modern = v.modern
        /\ g.mark = [v.mark EXCEPT ![p] = NoMark]
        /\ g.given = [v.given EXCEPT ![p] = @ + at - v.mark[p]]
    BY <1>3, <2>1, GivePart
  <2> QED  BY <1>1, <1>3, <2>2, OneCall
<1>5. \/ y = x
      \/ y = [Enter(g, "s_header_almost_done") EXCEPT !.hs = "h_general"]
      \/ y = Enter(g, "s_header_field_start")
      \/ y = [v EXCEPT !.length = Value[ch]]
      \/ y = Failed(v)
      \/ y = [v EXCEPT !.hs = h, !.flags = @ \cup more]
  <2> HIDE DEF h, more
  <2>1. y = CASE ch = SP -> x
          [] ch = CR -> [Enter(g, "s_header_almost_done")
                            EXCEPT !.hs = "h_general"]
          [] ch = LF -> Enter(g, "s_header_field_start")
          [] ch \notin {SP, CR, LF} /\ x.hs = "h_content_length" ->
                 IF ch \in Digits THEN [v EXCEPT !.length = Value[ch]]
                                  ELSE Failed(v)
          [] OTHER -> [v EXCEPT !.hs = h, !.flags = @ \cup more]
    BY <1>1 DEF ValueStart, h, v, more
  <2> HIDE DEF g
  <2> QED  BY <2>1
<1> HIDE DEF g, h, z
<1>6. CASE y = x
  BY <1>0, <1>6 DEF Went, Course, Rests
<1>7. CASE y = Failed(v)
  BY <1>7, FailedMoves DEF Went
<1>8. CASE \/ y = [v EXCEPT !.length = Value[ch]]
           \/ y = [v EXCEPT !.hs = h, !.flags = @ \cup more]
  <2>1. /\ y.called = <<>> /\ y.type = x.type /\ y.state = "s_header_value"
        /\ "TRAILING" \notin y.flags
    <3>1. CASE y = [v EXCEPT !.length = Value[ch]]
      BY <1>0, <1>3, <3>1 DEF IsParser, Fields
    <3>2. CASE y = [v EXCEPT !.hs = h, !.flags = @ \cup more]
      <4> DEFINE fl == v.flags \cup more
      <4>1. y = [v EXCEPT !.hs = h, !.flags = fl] /\ "TRAILING" \notin fl
        BY <1>0, <1>3, <3>2 DEF IsParser, Fields
      <4> HIDE DEF fl
      <4> QED  BY <1>3, <4>1 DEF IsParser, Fields
    <3> QED  BY <1>8, <3>1, <3>2
  <2>2. InHeaders(y)
    BY <2>1 DEF InHeaders, HeaderStates
  <2> QED  BY <1>0, <2>1, <2>2 DEF Went, Course, HeaderLine
<1>9. CASE \/ y = [Enter(g, "s_header_almost_done") EXCEPT !.hs = "h_general"]
           \/ y = Enter(g, "s_header_field_start")
  <2>1. /\ y.called = <<"value">> /\ y.type = x.type
        /\ y.state \in {"s_header_almost_done", "s_header_field_start"}
        /\ "TRAILING" \notin y.flags
    BY <1>0, <1>4, <1>9 DEF IsParser, Fields, Enter
  <2>2. InHeaders(y)
    BY <2>1 DEF InHeaders, HeaderStates
  <2> QED  BY <1>0, <2>1, <2>2 DEF Went, Course, HeaderLine
<1> QED  BY <1>5, <1>6, <1>7, <1>8, <1>9

(* A value's bytes.                                                        *)
LEMMA HeaderValueGoes ==
    ASSUME NEW x, Placed(x), x.state = "s_header_value", NEW ch,
           NEW at \in Nat, NEW y, y = HeaderValue(x, ch, at)
    PROVE  Went(x, y)
<1> DEFINE g == Give(x, "value", at)
<1>0. /\ IsParser(x) /\ x.called = <<>> /\ InHeaders(x)
      /\ "TRAILING" \notin x.flags
  BY TypesAre DEF InLine, InHeaders
<1>1. \/ y = Enter(g, "s_header_almost_done")
      \/ y = HeaderAlmostDone(g, ch)
      \/ y = x \/ y = Failed(x) \/ y = WordOver(x, ch)
      \/ y = [x EXCEPT !.length = Wrapped(10 * @ + Value[ch])]
      \/ y = [x EXCEPT !.hs = "h_general"]
      \/ y = Match(x, ValueWords[x.hs], ch)
  <2> HIDE DEF g
  <2> QED  BY DEF HeaderValue, g
<1>2. /\ IsParser(g) /\ g.called = <<"value">> /\ g.flags = x.flags
      /\ g.type = x.type
  BY PartGiven
<1> HIDE DEF g
<1>3. ASSUME y.called = <<"value">>, y.type = x.type,
             y.state \in {"s_header_almost_done", "s_header_field_start"},
             "TRAILING" \notin y.flags
      PROVE  Went(x, y)
  <2>1. InHeaders(y)
    BY <1>3 DEF InHeaders, HeaderStates
  <2> QED  BY <1>0, <1>3, <2>1 DEF Went, Course, HeaderLine
<1>4. CASE y = Enter(g, "s_header_almost_done")
  <2>1. Moved(g, y) /\ y.state = "s_header_almost_done" /\ y.type = g.type
    BY <1>2, <1>4, EnterMoves
  <2> QED  BY <1>0, <1>2, <1>3, <2>1 DEF Moved
<1>5. CASE y = HeaderAlmostDone(g, ch)
  <2>1. CASE y = Failed(g)
    BY <2>1, FailedMoves DEF Went
  <2>2. CASE y # Failed(g)
    <3>1. /\ y.called = g.called /\ y.type = g.type
          /\ ("TRAILING" \in y.flags) <=> ("TRAILING" \in g.flags)
          /\ y.state = "s_header_field_start"
      BY <1>2, <1>5, <2>2, HeaderAlmostDoneMoves
    <3> QED  BY <1>0, <1>2, <1>3, <3>1
  <2> QED  BY <2>1, <2>2
<1>6. CASE y = Failed(x)
  BY <1>6, FailedMoves DEF Went
<1>7. CASE \/ y = x \/ y = WordOver(x, ch)
           \/ y = [x EXCEPT !.length = Wrapped(10 * @ + Value[ch])]
           \/ y = [x EXCEPT !.hs = "h_general"]
           \/ y = Match(x, ValueWords[x.hs], ch)
  <2>1. y.called = <<>> /\ y.type = x.type /\ y.state = x.state
        /\ y.flags = x.flags /\ y.modern = x.modern
    BY <1>0, <1>7 DEF WordOver, Match, IsParser, Fields
  <2> QED  BY <2>1 DEF Went, Course, Rests, http_should_keep_alive
<1> QED  BY <1>1, <1>4, <1>5, <1>6, <1>7

(* The end of a message is the start of another, if there may be one.      *)
LEMMA NewMessageGoes ==
    ASSUME NEW x, NEW z, IsParser(z), z.type = x.type,
           http_should_keep_alive(z) <=> http_should_keep_alive(x),
           NEW y, y = NewMessage(z)
    PROVE  /\ y.state = "s_dead" \/ Following(x, y)
           /\ y.called = Append(z.called, "messageComplete")
<1>1. /\ ~http_should_keep_alive(z) => y.state = "s_dead"
      /\ http_should_keep_alive(z) =>
            y.state = IF z.type = "request" THEN "s_start_req"
                                            ELSE "s_start_res"
      /\ y.called = Append(z.called, "messageComplete")
      /\ y.type = z.type /\ y.flags = z.flags /\ y.modern = z.modern
  BY NewMessageMoves
<1>2. http_should_keep_alive(y) <=> http_should_keep_alive(x)
  BY <1>1 DEF http_should_keep_alive
<1> QED  BY <1>1, <1>2 DEF Following

(* The empty line.                                                         *)
LEMMA HeadersAlmostDoneGoes ==
    ASSUME NEW x, Placed(x), NEW ch,
           x.state \in {"s_header_field_start", "s_headers_almost_done"},
           NEW y, y = HeadersAlmostDone(x, ch)
    PROVE  Went(x, y)
<1> DEFINE upgrade == "UPGRADE" \in x.flags \/ x.method = "CONNECT"
           v == x.upgrade \/ upgrade
           u == [x EXCEPT !.nread = 0, !.upgrade = v]
           c == IF http_should_keep_alive(x) THEN "complete" ELSE "closing"
           z == Call(u, c)
           bodies == {"s_chunk_size_start", "s_body_identity",
                      "s_body_identity_eof"}
<1>0. /\ IsParser(x) /\ x.called = <<>>
      /\ IF "TRAILING" \in x.flags THEN PastHeaders(x) ELSE InHeaders(x)
  BY TypesAre DEF HeaderStates
<1>1. \/ y = Failed(x)
      \/ y = NewMessage(x) /\ "TRAILING" \in x.flags
      \/ /\ "TRAILING" \notin x.flags
         /\ \/ y = [Call(z, "messageComplete") EXCEPT !.returned = TRUE]
            \/ \E s \in bodies : y = Enter(z, s)
            \/ y = NewMessage(z)
  <2>1. z = Call([x EXCEPT !.nread = 0, !.upgrade = @ \/ upgrade], c)
    BY <1>0 DEF IsParser, Fields
  <2>2. y = CASE ch # LF                -> Failed(x)
          [] ch = LF /\ "TRAILING" \in x.flags -> NewMessage(x)
          [] OTHER ->
                 CASE z.upgrade -> [Call(z, "messageComplete")
                                       EXCEPT !.returned = TRUE]
                   [] ~z.upgrade /\ "CHUNKED" \in z.flags ->
                          Enter(z, "s_chunk_size_start")
                   [] ~z.upgrade /\ "CHUNKED" \notin z.flags ->
                          CASE z.length > 0 -> Enter(z, "s_body_identity")
                            [] /\ z.length <= 0
                               /\ \/ z.length = 0
                                  \/ z.type = "request"
                                  \/ http_should_keep_alive(z) -> NewMessage(z)
                            [] OTHER -> Enter(z, "s_body_identity_eof")
    BY <2>1 DEF HeadersAlmostDone
  <2> HIDE DEF z
  <2>3. z.upgrade \/ ~z.upgrade
    OBVIOUS
  <2> QED  BY <2>2, <2>3
<1>2. /\ IsParser(z) /\ z.called = <<c>> /\ z.type = x.type
      /\ http_should_keep_alive(z) <=> http_should_keep_alive(x)
  <2> HIDE DEF c, v
  <2>1. /\ IsParser(u) /\ u.called = <<>> /\ u.type = x.type
        /\ u.flags = x.flags /\ u.modern = x.modern
    BY <1>0 DEF IsParser, Fields
  <2> HIDE DEF u
  <2>2. /\ IsParser(z) /\ z.called = Append(u.called, c)
        /\ z.type = u.type /\ z.flags = u.flags /\ z.modern = u.modern
    BY <2>1 DEF Call, IsParser, Fields
  <2> QED  BY <2>1, <2>2, OneCall DEF http_should_keep_alive
<1>3. c = IF http_should_keep_alive(x) THEN "complete" ELSE "closing"
  OBVIOUS
<1> HIDE DEF z, c
<1>4. CASE y = Failed(x)
  BY <1>4, FailedMoves DEF Went
<1>5. CASE y = NewMessage(x) /\ "TRAILING" \in x.flags
  <2>1. /\ y.state = "s_dead" \/ Following(x, y)
        /\ y.called = <<"messageComplete">>
    <3>1. /\ y.state = "s_dead" \/ Following(x, y)
          /\ y.called = Append(x.called, "messageComplete")
      BY <1>0, <1>5, NewMessageGoes
    <3> QED  BY <1>0, <3>1, OneCall
  <2>2. y.called \in Silent
    BY <2>1 DEF Silent
  <2> QED  BY <1>0, <1>5, <2>1, <2>2 DEF Went, Course, Follows
<1>6. CASE "TRAILING" \notin x.flags /\ y = NewMessage(z)
  <2>1. /\ y.state = "s_dead" \/ Following(x, y)
        /\ y.called = <<c, "messageComplete">>
    <3>1. /\ y.state = "s_dead" \/ Following(x, y)
          /\ y.called = Append(z.called, "messageComplete")
      BY <1>2, <1>6, NewMessageGoes
    <3> QED  BY <1>2, <3>1, TwoCalls
  <2> QED  BY <1>0, <1>3, <1>6, <2>1 DEF Went, Course, HeadersEnd
<1>7. ASSUME "TRAILING" \notin x.flags, NEW s \in bodies, y = Enter(z, s)
      PROVE  Went(x, y)
  <2>1. /\ y.called = <<c>> /\ y.type = x.type /\ y.state = s
        /\ y.flags = z.flags /\ y.modern = z.modern
    BY <1>2, <1>7 DEF Enter, IsParser, Fields
  <2>2. http_should_keep_alive(y) <=> http_should_keep_alive(x)
    BY <1>2, <2>1 DEF http_should_keep_alive
  <2>3. PastHeaders(y)
    BY <2>1 DEF PastHeaders, BodyStates, ChunkStates
  <2>4. Following(x, y)
    BY <2>1, <2>2, <2>3 DEF Following
  <2> QED  BY <1>0, <1>3, <1>7, <2>1, <2>4 DEF Went, Course, HeadersEnd
<1>8. CASE /\ "TRAILING" \notin x.flags
           /\ y = [Call(z, "messageComplete") EXCEPT !.returned = TRUE]
  <2> DEFINE a == Call(z, "messageComplete")
  <2>1. IsParser(a)
    BY <1>2, CallMoves DEF SameMarks
  <2>2. y = [a EXCEPT !.returned = TRUE]
    BY <1>8
  <2> HIDE DEF a
  <2>3. y.returned
    BY <2>1, <2>2 DEF IsParser, Fields
  <2> QED  BY <2>3 DEF Went
<1> QED  BY <1>1, <1>4, <1>5, <1>6, <1>7, <1>8

(* The carriage return before it.                                          *)
LEMMA EmptyLineGoes ==
    ASSUME NEW x, Placed(x), x.state = "s_header_field_start",
           NEW y, y = Enter(x, "s_headers_almost_done")
    PROVE  Went(x, y)
<1>0. /\ IsParser(x) /\ x.called = <<>>
      /\ IF "TRAILING" \in x.flags THEN PastHeaders(x) ELSE InHeaders(x)
  BY TypesAre DEF HeaderStates
<1>1. /\ y.called = <<>> /\ y.type = x.type /\ y.flags = x.flags
      /\ y.modern = x.modern /\ y.state = "s_headers_almost_done"
  BY <1>0 DEF Enter, IsParser, Fields
<1>2. CASE "TRAILING" \in x.flags
  <2>1. PastHeaders(y) /\ y.called \in Silent
    BY <1>1, <1>2 DEF PastHeaders, Silent
  <2>2. Following(x, y)
    BY <1>1, <2>1 DEF Following, http_should_keep_alive
  <2> QED  BY <1>0, <1>2, <2>1, <2>2 DEF Went, Course, Follows
<1>3. CASE "TRAILING" \notin x.flags
  <2>1. InHeaders(y)
    BY <1>1, <1>3 DEF InHeaders, HeaderStates
  <2> QED  BY <1>0, <1>1, <1>3, <2>1 DEF Went, Course, HeaderLine
<1> QED  BY <1>2, <1>3

(* Inside a body.                                                          *)
LEMMA InsideGoes ==
    ASSUME NEW x, PastHeaders(x), NEW y, y.called \in Silent, y.type = x.type,
           y.modern = x.modern,
           \/ y.flags = x.flags
           \/ y.flags = x.flags \cup {"TRAILING"},
           \/ y.state \in BodyStates \cup ChunkStates
           \/ y.state = "s_header_field_start" /\ "TRAILING" \in y.flags
    PROVE  Course(x, y)
<1>1. http_should_keep_alive(y) <=> http_should_keep_alive(x)
  <2>1. /\ "CLOSE" \in y.flags <=> "CLOSE" \in x.flags
        /\ "KEEP_ALIVE" \in y.flags <=> "KEEP_ALIVE" \in x.flags
    OBVIOUS
  <2> QED  BY <2>1 DEF http_should_keep_alive
<1>2. PastHeaders(y)
  BY DEF PastHeaders
<1>3. Following(x, y)
  BY <1>1, <1>2 DEF Following
<1> QED  BY <1>3 DEF Course, Follows

(* The size of a chunk.                                                    *)
LEMMA ChunkSizeGoes ==
    ASSUME NEW x, Placed(x), NEW ch, NEW y, y = ChunkSize(x, ch),
           x.state \in {"s_chunk_size_start", "s_chunk_size"}
    PROVE  Went(x, y)
<1>0. IsParser(x) /\ x.called = <<>> /\ PastHeaders(x)
  BY TypesAre DEF ChunkStates
<1>1. CASE y = Failed(x)
  BY <1>1, FailedMoves DEF Went
<1>2. CASE y # Failed(x)
  <2>1. \/ y = [Enter(x, "s_chunk_size") EXCEPT !.length = Value[ch]]
        \/ /\ x.state = "s_chunk_size"
           /\ y = [x EXCEPT !.length = Wrapped(16 * @ + Value[ch])]
    BY <1>2 DEF ChunkSize
  <2>2. /\ y.called = <<>> /\ y.type = x.type /\ y.flags = x.flags
        /\ y.modern = x.modern /\ y.state = "s_chunk_size"
    BY <1>0, <2>1 DEF Enter, IsParser, Fields
  <2>3. Course(x, y)
    BY <1>0, <2>2, InsideGoes DEF ChunkStates, Silent
  <2> QED  BY <2>3 DEF Went
<1> QED  BY <1>1, <1>2

(* Its line end.                                                           *)
LEMMA ChunkSizeAlmostDoneGoes ==
    ASSUME NEW x, Placed(x), x.state = "s_chunk_size_almost_done",
           NEW ch, NEW y, y = ChunkSizeAlmostDone(x, ch)
    PROVE  Went(x, y)
<1> DEFINE fl == x.flags \cup {"TRAILING"}
<1>0. IsParser(x) /\ x.called = <<>> /\ PastHeaders(x)
  BY TypesAre DEF ChunkStates
<1>1. \/ y = Failed(x)
      \/ y = Enter(x, "s_chunk_data")
      \/ y = [Enter(x, "s_header_field_start") EXCEPT !.flags = fl]
  BY <1>0 DEF ChunkSizeAlmostDone, Enter, IsParser, Fields
<1>2. CASE y = Failed(x)
  BY <1>2, FailedMoves DEF Went
<1>3. CASE y = Enter(x, "s_chunk_data")
  <2>1. /\ y.called = <<>> /\ y.type = x.type /\ y.flags = x.flags
        /\ y.modern = x.modern /\ y.state = "s_chunk_data"
    BY <1>0, <1>3 DEF Enter, IsParser, Fields
  <2>2. Course(x, y)
    BY <1>0, <2>1, InsideGoes DEF BodyStates, Silent
  <2> QED  BY <2>2 DEF Went
<1>4. CASE y = [Enter(x, "s_header_field_start") EXCEPT !.flags = fl]
  <2>1. "TRAILING" \in fl
    OBVIOUS
  <2> HIDE DEF fl
  <2>2. /\ y.called = <<>> /\ y.type = x.type /\ y.flags = fl
        /\ y.modern = x.modern /\ y.state = "s_header_field_start"
    BY <1>0, <1>4 DEF Enter, IsParser, Fields
  <2>3. Course(x, y)
    BY <1>0, <2>1, <2>2, InsideGoes DEF fl, Silent
  <2> QED  BY <2>3 DEF Went
<1> QED  BY <1>1, <1>2, <1>3, <1>4

(* A body's bytes.                                                         *)
LEMMA BodyGoes ==
    ASSUME NEW x, IsParser(x), x.called = <<>>, PastHeaders(x),
           x.state \in BodyStates, NEW n \in Int, NEW y, y = Body(x, n)
    PROVE  y.state = "s_dead" \/ Course(x, y)
<1> DEFINE z == Given(x, n)
           ended == [z EXCEPT !.length = 0]
           c == IF n > 0 THEN <<"body">> ELSE <<>>
<1>1. /\ IsParser(z) /\ z.called = c /\ z.type = x.type
      /\ z.flags = x.flags /\ z.modern = x.modern /\ z.state = x.state
  <2>1. CASE n > 0
    BY <2>1, CallMoves, OneCall DEF SameMarks, Given
  <2>2. CASE ~(n > 0)
    BY <2>2 DEF Given
  <2> QED  BY <2>1, <2>2
<1>2. \/ y = z
      \/ y = [z EXCEPT !.length = @ - n]
      \/ y = NewMessage(ended)
      \/ y = Enter(ended, "s_chunk_data_almost_done")
  <2> HIDE DEF z
  <2> QED  BY DEF Body, z
<1> HIDE DEF z
<1>3. /\ IsParser(ended) /\ ended.called = c /\ ended.type = x.type
      /\ ended.flags = x.flags /\ ended.modern = x.modern
  <2>1. /\ IsParser(ended) /\ ended.called = z.called /\ ended.type = z.type
        /\ ended.flags = z.flags /\ ended.modern = z.modern
    <3> DEFINE zero == 0
    <3>1. ended = [z EXCEPT !.length = zero] /\ zero \in Int
      OBVIOUS
    <3> HIDE DEF zero, ended
    <3> QED  BY <1>1, <3>1 DEF IsParser, Fields
  <2> HIDE DEF ended
  <2> QED  BY <1>1, <2>1
<1> HIDE DEF ended
<1>c. c \in {<<>>, <<"body">>}
  OBVIOUS
<1> HIDE DEF c
<1>4. CASE y = NewMessage(ended)
  <2>1. http_should_keep_alive(ended) <=> http_should_keep_alive(x)
    BY <1>3 DEF http_should_keep_alive
  <2>2. /\ y.state = "s_dead" \/ Following(x, y)
        /\ y.called \in {<<"messageComplete">>, <<"body", "messageComplete">>}
    <3>1. /\ y.state = "s_dead" \/ Following(x, y)
          /\ y.called = Append(ended.called, "messageComplete")
      BY <1>3, <1>4, <2>1, NewMessageGoes
    <3> QED  BY <1>3, <1>c, <3>1, OneCall, TwoCalls
  <2>3. y.called \in Silent
    BY <2>2 DEF Silent
  <2> QED  BY <2>2, <2>3 DEF Course, Follows
<1>5. CASE y # NewMessage(ended)
  <2>1. /\ y.called = c /\ y.type = x.type
        /\ y.flags = x.flags /\ y.modern = x.modern
        /\ y.state \in BodyStates \cup ChunkStates
    <3>1. CASE y = z
      BY <1>1, <3>1
    <3>2. CASE y = [z EXCEPT !.length = @ - n]
      <4>1. /\ y.called = z.called /\ y.type = z.type /\ y.state = z.state
            /\ y.flags = z.flags /\ y.modern = z.modern
        BY <1>1, <3>2 DEF IsParser, Fields
      <4> QED  BY <1>1, <4>1
    <3>3. CASE y = Enter(ended, "s_chunk_data_almost_done")
      <4>1. /\ y.called = ended.called /\ y.type = ended.type
            /\ y.state = "s_chunk_data_almost_done"
            /\ y.flags = ended.flags /\ y.modern = ended.modern
        BY <1>3, <3>3 DEF Enter, IsParser, Fields
      <4> QED  BY <1>3, <4>1 DEF ChunkStates
    <3> QED  BY <1>2, <1>5, <3>1, <3>2, <3>3
  <2>2. y.called \in Silent
    BY <1>c, <2>1 DEF Silent
  <2>3. Course(x, y)
    BY <2>1, <2>2, InsideGoes
  <2> QED  BY <2>3
<1> QED  BY <1>4, <1>5

-----------------------------------------------------------------------------
(* The rules.  Where one leads, and with which callbacks.                  *)
Leads(from, calls, to) ==
    \/ /\ from \in Unnamed
       /\ \/ to \in Unnamed /\ calls = <<>>
          \/ to \in PastPath /\ calls = <<"path">>
          \/ /\ to \in Named \cup {"s_header_field_start"}
             /\ calls \in {<<"url">>, <<"url", "path">>}
    \/ /\ from \in PastPath
       /\ \/ to \in PastPath /\ calls \in {<<>>, <<"queryString">>}
          \/ /\ to \in Named \cup {"s_header_field_start"}
             /\ calls \in {<<"url">>, <<"url", "queryString">>,
                           <<"url", "fragment">>}
    \/ /\ from \in Named \cap Asking
       /\ to \in Named \cup {"s_header_field_start"} /\ calls = <<>>
    \/ /\ from \in Untold \cap Telling
       /\ to \in Untold \cup {"s_header_field_start"} /\ calls = <<>>
    \/ from \in ChunkStates /\ to \in ChunkStates /\ calls = <<>>

RuleLeads(r) == Leads(r.from, r.calls, r.to)

(* A rule, and a move, lead where their places and callbacks say.          *)
LEMMA RuleLeading ==
    ASSUME NEW from, NEW on, NEW marks, NEW calls, NEW to,
           Leads(from, calls, to)
    PROVE  RuleLeads(Rule(from, on, marks, calls, to))
BY DEF RuleLeads, Rule

(* A move has no callbacks.                                                *)
LEMMA MoveLeading ==
    ASSUME NEW from, NEW on, NEW to, Leads(from, <<>>, to)
    PROVE  RuleLeads(Move(from, on, to))
BY RuleLeading DEF Move

(* A move in the first half of a URL.                                      *)
LEMMA UnnamedLeads ==
    \A from, to \in Unnamed : Leads(from, <<>>, to)
BY DEF Leads

(* The same in the second half.                                            *)
LEMMA PastPathLeads ==
    \A from, to \in PastPath : Leads(from, <<>>, to)
BY DEF Leads

(* The rules of a chunk stay in it.                                        *)
LEMMA ChunkRulesLead == \A r \in ChunkRules : RuleLeads(r)
<1>1. ASSUME NEW from \in ChunkStates, NEW to \in ChunkStates, NEW on
      PROVE  RuleLeads(Move(from, on, to))
  BY MoveLeading DEF Leads
<1> QED  BY <1>1 DEF ChunkRules, ChunkStates

(* The rules of versions and statuses stay in the line, or end it.         *)
LEMMA LineRulesLead == \A r \in LineRules : RuleLeads(r)
<1> DEFINE end == "s_header_field_start"
<1>1. ASSUME NEW from \in Named \cap Asking, NEW to \in Named \cup {end},
             NEW on
      PROVE  RuleLeads(Move(from, on, to))
  BY MoveLeading DEF Leads
<1>2. ASSUME NEW from \in Untold \cap Telling, NEW to \in Untold \cup {end},
             NEW on
      PROVE  RuleLeads(Move(from, on, to))
  BY MoveLeading DEF Leads
<1>3. /\ {"s_req_http_start", "s_req_line_almost_done"}
             \subseteq Named \cap Asking
      /\ {"s_first_status_code", "s_status_code", "s_res_status",
          "s_res_line_almost_done"} \subseteq Untold \cap Telling
  BY DEF Named, Untold, Asking, Telling
<1> QED  BY <1>1, <1>2, <1>3 DEF LineRules

(* The end of a URL.                                                       *)
LEMMA EndsLead ==
    ASSUME NEW from, NEW calls,
           \/ from \in Unnamed /\ calls \in {<<"url">>, <<"url", "path">>}
           \/ /\ from \in PastPath
              /\ calls \in {<<"url">>, <<"url", "queryString">>,
                            <<"url", "fragment">>}
    PROVE  \A r \in Ends(from, calls) : RuleLeads(r)
<1>1. ASSUME NEW to \in Named \cup {"s_header_field_start"}, NEW on
      PROVE  RuleLeads(Rule(from, on, {}, calls, to))
  <2>1. Leads(from, calls, to)
    BY DEF Leads
  <2> QED  BY <2>1, RuleLeading
<1> QED  BY <1>1 DEF Ends, Named

(* Those of a URL's schema do not give its path.                           *)
LEMMA SchemaRulesLead == \A r \in SchemaRules : RuleLeads(r)
<1>1. ASSUME NEW from \in Unnamed, NEW to \in Unnamed, NEW on, NEW marks
      PROVE  /\ RuleLeads(Move(from, on, to))
             /\ RuleLeads(Rule(from, on, marks, <<>>, to))
  BY MoveLeading, RuleLeading, UnnamedLeads
<1>2. {"s_req_spaces_before_url", "s_req_schema", "s_req_schema_slash",
       "s_req_schema_slash_slash", "s_req_host", "s_req_path"}
          \subseteq Unnamed
  BY DEF Unnamed
<1> QED  BY <1>1, <1>2 DEF SchemaRules

(* Those of its host give the URL where it ends, if anything.              *)
LEMMA HostRulesLead == \A r \in HostRules : RuleLeads(r)
<1>1. ASSUME NEW from \in Unnamed, NEW to \in Unnamed, NEW on, NEW marks
      PROVE  /\ RuleLeads(Move(from, on, to))
             /\ RuleLeads(Rule(from, on, marks, <<>>, to))
  BY MoveLeading, RuleLeading, UnnamedLeads
<1>2. ASSUME NEW from \in Unnamed, NEW on, NEW marks
      PROVE  RuleLeads(Rule(from, on, marks, <<"url">>, "s_req_http_start"))
  <2>1. Leads(from, <<"url">>, "s_req_http_start")
    BY DEF Leads, Named
  <2> QED  BY <2>1, RuleLeading
<1>3. {"s_req_host", "s_req_port", "s_req_path"} \subseteq Unnamed
  BY DEF Unnamed
<1> QED  BY <1>1, <1>2, <1>3 DEF HostRules

(* Those of its path give the path where it ends.                          *)
LEMMA PathRulesLead == \A r \in PathRules : RuleLeads(r)
<1>1. "s_req_path" \in Unnamed
  BY DEF Unnamed
<1>2. \A on : RuleLeads(Move("s_req_path", on, "s_req_path"))
  BY <1>1, MoveLeading, UnnamedLeads
<1>3. ASSUME NEW to \in PastPath, NEW on, NEW marks
      PROVE  RuleLeads(Rule("s_req_path", on, marks, <<"path">>, to))
  <2>1. Leads("s_req_path", <<"path">>, to)
    BY <1>1 DEF Leads
  <2> QED  BY <2>1, RuleLeading
<1>4. \A r \in Ends("s_req_path", <<"url", "path">>) : RuleLeads(r)
  <2> DEFINE calls == <<"url", "path">>
  <2>1. calls \in {<<"url">>, <<"url", "path">>}
    OBVIOUS
  <2> HIDE DEF calls
  <2>2. \A r \in Ends("s_req_path", calls) : RuleLeads(r)
    BY <1>1, <2>1, EndsLead
  <2> QED  BY <2>2 DEF calls
<1>5. {"s_req_query_string_start", "s_req_fragment_start"} \subseteq PastPath
  BY DEF PastPath
<1> QED  BY <1>2, <1>3, <1>4, <1>5 DEF PathRules

(* After the path.                                                         *)
LEMMA LaterLeads ==
    ASSUME NEW from \in PastPath
    PROVE  /\ \A to \in PastPath : \A on, marks :
                 /\ RuleLeads(Move(from, on, to))
                 /\ RuleLeads(Rule(from, on, marks, <<>>, to))
                 /\ RuleLeads(Rule(from, on, marks, <<"queryString">>, to))
           /\ \A r \in Ends(from, <<"url">>) : RuleLeads(r)
           /\ \A r \in Ends(from, <<"url", "queryString">>) : RuleLeads(r)
           /\ \A r \in Ends(from, <<"url", "fragment">>) : RuleLeads(r)
<1>1. ASSUME NEW to \in PastPath, NEW on, NEW marks
      PROVE  /\ RuleLeads(Move(from, on, to))
             /\ RuleLeads(Rule(from, on, marks, <<>>, to))
             /\ RuleLeads(Rule(from, on, marks, <<"queryString">>, to))
  <2>1. Leads(from, <<>>, to) /\ Leads(from, <<"queryString">>, to)
    BY DEF Leads
  <2> QED  BY <2>1, RuleLeading, MoveLeading
<1>2. ASSUME NEW calls \in {<<"url">>, <<"url", "queryString">>,
                            <<"url", "fragment">>}
      PROVE  \A r \in Ends(from, calls) : RuleLeads(r)
  BY EndsLead
<1> QED  BY <1>1, <1>2

(* Those of its query string come after that.                              *)
LEMMA QueryRulesLead == \A r \in QueryRules : RuleLeads(r)
<1>1. {"s_req_query_string_start", "s_req_query_string",
       "s_req_fragment_start"} \subseteq PastPath
  BY DEF PastPath
<1> QED  BY <1>1, LaterLeads DEF QueryRules

(* So do those of its fragment.                                            *)
LEMMA FragmentRulesLead == \A r \in FragmentRules : RuleLeads(r)
<1>1. {"s_req_fragment_start", "s_req_fragment"} \subseteq PastPath
  BY DEF PastPath
<1> QED  BY <1>1, LaterLeads DEF FragmentRules

(* Every rule leads to a place its callbacks fit.                          *)
LEMMA RulesLead == \A r \in Rules : RuleLeads(r)
BY SchemaRulesLead, HostRulesLead, PathRulesLead, QueryRulesLead,
   FragmentRulesLead, LineRulesLead, ChunkRulesLead DEF Rules

(* A rule takes the course it leads.                                       *)
LEMMA ApplyGoes ==
    ASSUME NEW x, Placed(x), NEW r \in Rules, r.from = x.state,
           NEW at \in Nat, NEW y, y = Apply(r, x, at)
    PROVE  Course(x, y)
<1> DEFINE z == [y EXCEPT !.state = x.state, !.modern = x.modern]
           ended == Open(r.from) \ Open(r.to)
<1>0. /\ IsParser(x) /\ Ready(x) /\ RuleFits(r) /\ RuleLeads(r)
      /\ LineOK(x) /\ at \in Int
      /\ x.state \in Asking => x.type = "request"
      /\ x.state \in Telling => x.type = "response"
      /\ x.state \in ChunkStates \cup BodyStates => PastHeaders(x)
  BY TypesAre, RulesFit, RulesLead DEF Placed, Ready
<1>1. /\ Turned(x, z, r.marks, ended, at)
      /\ IsParser(y) /\ y.state = r.to /\ y.called = r.calls
      /\ r.from \notin UrlStates => (y.modern <=> x.modern)
  BY <1>0, ApplyTurns
<1>2. z.type = y.type /\ z.flags = y.flags
  BY <1>1 DEF IsParser, Fields
<1> HIDE DEF z, ended
<1>3. y.type = x.type /\ y.flags = x.flags
  BY <1>1, <1>2 DEF Turned
<1>4. Leads(x.state, y.called, y.state)
  BY <1>0, <1>1 DEF RuleLeads
<1>5. CASE x.state \in ChunkStates /\ y.state \in ChunkStates
           /\ y.called = <<>>
  <2>1. x.state \notin UrlStates /\ PastHeaders(x) /\ PastHeaders(y)
    BY <1>0, <1>5 DEF ChunkStates, UrlStates, PastHeaders
  <2>2. http_should_keep_alive(y) <=> http_should_keep_alive(x)
    BY <1>0, <1>1, <1>3, <2>1 DEF http_should_keep_alive
  <2> QED  BY <1>3, <1>5, <2>1, <2>2 DEF Course, Follows, Following, Silent
<1>6. CASE x.state \in LineStates \cup UrlStates
  <2>1. "TRAILING" \notin y.flags
    BY <1>0, <1>3, <1>6 DEF LineOK
  <2>2. y.state = "s_header_field_start" => AtLineEnd(y)
    BY <2>1 DEF AtLineEnd, InHeaders, HeaderStates, LineEnds
  <2>3. CASE x.state \in Unnamed \cup PastPath \cup (Named \cap Asking)
    <3>1. x.type = "request" /\ y.type = "request"
      BY <1>0, <1>3, <2>3 DEF Asking
    <3>2. x.state \notin Telling /\ x.state \notin ChunkStates
      BY <2>3
      DEF Unnamed, PastPath, Named, Versions, Telling, ChunkStates, Asking
    <3>3. RequestLine(x, y)
      BY <1>4, <2>2, <3>1, <3>2 DEF Leads, RequestLine
    <3> QED  BY <3>3 DEF Course
  <2>4. CASE x.state \in Untold \cap Telling
    <3>1. x.type = "response" /\ y.type = "response"
      BY <1>0, <1>3, <2>4
    <3>2. x.state \notin Asking /\ x.state \notin ChunkStates
      BY <2>4
      DEF Unnamed, PastPath, Telling, ChunkStates, Asking
    <3>3. x.state \notin Unnamed /\ x.state \notin PastPath
      BY <3>2 DEF Asking
    <3>4. ResponseLine(x, y)
      BY <1>4, <2>2, <2>4, <3>1, <3>2, <3>3 DEF Leads, ResponseLine
    <3> QED  BY <3>4 DEF Course
  <2>5. x.state \notin ChunkStates
    BY <1>6 DEF LineStates, UrlStates, ChunkStates
  <2> QED  BY <1>4, <2>3, <2>4, <2>5 DEF Leads
<1> QED  BY <1>4, <1>5, <1>6
         DEF Leads, LineStates, UrlStates, Unnamed, PastPath, Named, Untold,
             Versions, Asking, Telling

(* Whatever byte comes, and whatever it leads to.                          *)
LEMMA OutcomesGo ==
    ASSUME NEW x, Placed(x), x.state \notin BodyStates, NEW ch,
           NEW at \in Nat, NEW y \in Outcomes(x, ch, at)
    PROVE  Went(x, y)
<1>1. CASE \E r \in Rules : r.from = x.state /\ y = Apply(r, x, at)
  <2>1. Course(x, y)
    BY <1>1, ApplyGoes
  <2> QED  BY <2>1 DEF Went
<1>2. CASE y = Failed(x)
  BY <1>2, FailedMoves DEF Went
<1> QED  BY <1>1, <1>2, OutcomesAre, StartGoes, ResponseOrHeadGoes,
            MethodLetterGoes, HTTPLetterGoes, DigitGoes, VersionEndGoes,
            HeadersAlmostDoneGoes, EmptyLineGoes, FieldStartGoes, FieldGoes,
            ValueStartGoes, HeaderValueGoes, HeaderAlmostDoneGoes,
            ChunkSizeGoes, ChunkSizeAlmostDoneGoes

-----------------------------------------------------------------------------
(* The steps of the stream.                                                *)
(* A course depends on what Settled and Fresh keep.                        *)
Alike(x, y) ==
    /\ y.state = x.state /\ y.type = x.type
    /\ y.flags = x.flags /\ y.modern = x.modern

(* So parsers that agree in those take the same course.                    *)
LEMMA CourseKept ==
    ASSUME NEW x, NEW y, NEW v, NEW w, Alike(x, v), Alike(y, w),
           w.called = y.called, Course(x, y)
    PROVE  Course(v, w)
<1>1. /\ http_should_keep_alive(v) <=> http_should_keep_alive(x)
      /\ http_should_keep_alive(w) <=> http_should_keep_alive(y)
  BY DEF Alike, http_should_keep_alive
<1>2. /\ InHeaders(v) <=> InHeaders(x)
      /\ InHeaders(w) <=> InHeaders(y)
      /\ PastHeaders(v) <=> PastHeaders(x)
      /\ PastHeaders(w) <=> PastHeaders(y)
      /\ AtLineEnd(w) <=> AtLineEnd(y)
  BY DEF Alike, InHeaders, PastHeaders, AtLineEnd
<1>3. /\ v.state = x.state /\ v.type = x.type /\ v.flags = x.flags
      /\ w.state = y.state /\ w.type = y.type /\ w.flags = y.flags
  BY DEF Alike
<1>4. Rests(x, y) => Rests(v, w)
  BY <1>1, <1>3 DEF Rests
<1>5. Meets(x, y) => Meets(v, w)
  BY <1>3 DEF Meets
<1>6. Begins(x, y) => Begins(v, w)
  BY <1>3 DEF Begins
<1>7. RequestLine(x, y) => RequestLine(v, w)
  BY <1>2, <1>3 DEF RequestLine
<1>8. ResponseLine(x, y) => ResponseLine(v, w)
  BY <1>2, <1>3 DEF ResponseLine
<1>9. HeaderLine(x, y) => HeaderLine(v, w)
  BY <1>2, <1>3 DEF HeaderLine
<1>10. Following(x, y) => Following(v, w)
  BY <1>1, <1>2, <1>3 DEF Following
<1>11. HeadersEnd(x, y) => HeadersEnd(v, w)
  BY <1>1, <1>2, <1>3, <1>10 DEF HeadersEnd
<1>12. Follows(x, y) => Follows(v, w)
  BY <1>2, <1>10 DEF Follows
<1> QED  BY <1>4, <1>5, <1>6, <1>7, <1>8, <1>9, <1>11, <1>12 DEF Course

(* The type a state says is that of a parser like it.                      *)
LEMMA TypeKept ==
    ASSUME NEW x, NEW y, Alike(x, y), TypeOK(x)
    PROVE  TypeOK(y)
BY DEF Alike, TypeOK, InHeaders, PastHeaders

(* A step of the parser: a message that goes on has been going on, and     *)
(* takes one of the courses unless something doubtful comes.               *)
Goes ==
    /\ lines' = LinesTo(parser, parser', lines)
    /\ ~parser'.returned /\ parser'.state # "s_dead" =>
          /\ ~parser.returned /\ parser.state # "s_dead"
          /\ TypeOK(parser) /\ ~Doubtful(parser, parser') =>
                Course(parser, parser')

(* A packet begins.                                                        *)
LEMMA ExecuteGoes ==
    ASSUME ParserInv, NEW n \in 1..MaxPacket, Execute(n)
    PROVE  Goes
<1> DEFINE x == Fresh(parser)
           marks == Marks(parser)
<1>1. /\ ~parser.returned /\ parser' = [x EXCEPT !.mark = marks]
      /\ lines' = lines /\ IsParser(parser)
  BY DEF Execute, ParserInv, PlaceInv, counts
<1>2. /\ IsParser(x) /\ x.state = parser.state /\ x.flags = parser.flags
      /\ x.length = parser.length /\ x.returned = parser.returned
      /\ x.mark = parser.mark /\ x.given = parser.given
      /\ x.nread = parser.nread /\ x.called = <<>>
      /\ x.type = parser.type /\ x.modern = parser.modern
  BY <1>1, FreshAlone
<1> HIDE DEF x, marks
<1>3. Alike(parser, parser') /\ parser'.called = <<>>
  BY <1>1, <1>2 DEF Alike, IsParser, Fields
<1>4. Rests(parser, parser')
  BY <1>3 DEF Alike, Rests, http_should_keep_alive
<1>5. lines' = LinesTo(parser, parser', lines)
  BY <1>1, <1>3 DEF Alike, LinesTo
<1> QED  BY <1>1, <1>3, <1>4, <1>5 DEF Goes, Course, Alike

(* A byte that is not in a body.                                           *)
LEMMA ByteGoes ==
    ASSUME ParserInv, NEW ch \in Chars, Byte(ch)
    PROVE  Goes
<1>1. PICK x, y : /\ Read(x, y) /\ parser' = Settled(y)
                  /\ owed' = Owed(y, 1) /\ History(y)
  BY ByteReads
<1>2. /\ ~parser.returned /\ parser.state \notin BodyStates /\ pos \in Nat
  BY DEF Byte, ParserInv, PlaceInv
<1>3. Kept(y, parser')
  BY <1>1, SettledKeeps DEF Read, Step
<1>4. /\ Alike(x, parser) /\ Alike(y, parser') /\ Alike(parser, x)
      /\ parser'.called = y.called /\ parser'.returned = y.returned
  BY <1>1, <1>3 DEF Alike, Read, Kept
<1>5. lines' = LinesTo(parser, parser', lines)
  <2>1. /\ y.state = parser'.state
        /\ lines' = CASE parser.state \in StartStates
                         /\ y.state \notin StartStates -> 0
                      [] /\ parser.state = "s_header_field_start"
                         /\ y.state = "s_header_field" -> lines + 1
                      [] OTHER -> lines
    BY <1>1, <1>4 DEF History, Alike
  <2>2. "s_header_field_start" \notin StartStates
    BY DEF StartStates
  <2> QED  BY <2>1, <2>2 DEF LinesTo
<1>6. ASSUME ~parser'.returned, parser'.state # "s_dead"
      PROVE  parser.state # "s_dead" /\ \E b : y \in Outcomes(x, b, pos)
  BY <1>1, <1>4, <1>6 DEF Read
<1>7. ASSUME ~parser'.returned, parser'.state # "s_dead", TypeOK(parser),
             ~Doubtful(parser, parser')
      PROVE  Course(parser, parser')
  <2>1. Placed(x)
    BY <1>1, <1>4, <1>7, TypeKept DEF Placed, Read
  <2>2. x.state \notin BodyStates
    BY <1>2, <1>4 DEF Alike
  <2>3. Went(x, y)
    BY <1>2, <1>6, <1>7, <2>1, <2>2, OutcomesGo
  <2>4. ~y.returned /\ y.state # "s_dead" /\ ~Astray(x, y)
    BY <1>4, <1>7 DEF Alike, Doubtful, Astray
  <2>5. Course(x, y)
    BY <2>3, <2>4 DEF Went
  <2> QED  BY <1>4, <2>5, CourseKept
<1> QED  BY <1>2, <1>5, <1>6, <1>7 DEF Goes

(* The bytes of a body.                                                    *)
LEMMA BodyBytesGo ==
    ASSUME ParserInv, BodyBytes
    PROVE  Goes
<1> DEFINE x == Fresh(parser)
           n == ToRead(parser, len - pos)
<1>1. /\ pos < len /\ ~parser.returned /\ parser.state \in BodyStates
      /\ parser' = Body(x, n) /\ lines' = lines
      /\ IsParser(parser) /\ len \in Nat /\ pos \in 0..len
  BY DEF BodyBytes, ParserInv, PlaceInv, counts
<1>2. /\ IsParser(x) /\ x.state = parser.state /\ x.flags = parser.flags
      /\ x.length = parser.length /\ x.returned = parser.returned
      /\ x.mark = parser.mark /\ x.given = parser.given
      /\ x.nread = parser.nread /\ x.called = <<>>
      /\ x.type = parser.type /\ x.modern = parser.modern
  BY <1>1, FreshAlone
<1>3. n \in Int
  BY <1>1 DEF ToRead, IsParser
<1> HIDE DEF x, n
<1>4. Alike(x, parser) /\ Alike(parser', parser')
  BY <1>2 DEF Alike
<1>5. PastHeaders(x)
  BY <1>1, <1>2 DEF PastHeaders
<1>6. parser'.state = "s_dead" \/ Course(x, parser')
  BY <1>1, <1>2, <1>3, <1>5, BodyGoes
<1>7. parser'.state = "s_dead" \/ Course(parser, parser')
  BY <1>4, <1>6, CourseKept
<1>8. lines' = LinesTo(parser, parser', lines)
  BY <1>1 DEF LinesTo, BodyStates, StartStates
<1>9. parser.state # "s_dead"
  BY <1>1 DEF BodyStates
<1> QED  BY <1>1, <1>7, <1>8, <1>9 DEF Goes

(* A packet ends.                                                          *)
LEMMA ReturnGoes ==
    ASSUME ParserInv, Return
    PROVE  Goes
<1> DEFINE x == Fresh(parser)
           y == GiveAll(x, ReturnOrder, pos)
           z == Settled(y)
<1>1. /\ len > 0 /\ ~parser.returned /\ len' = 0 /\ lines' = lines
      /\ parser' = [z EXCEPT !.index = @ % 256]
      /\ IsParser(parser) /\ pos \in Int
  BY DEF Return, ReturnOrder, ParserInv, PlaceInv, counts
<1>2. /\ IsParser(x) /\ x.state = parser.state /\ x.flags = parser.flags
      /\ x.length = parser.length /\ x.returned = parser.returned
      /\ x.mark = parser.mark /\ x.given = parser.given
      /\ x.nread = parser.nread /\ x.called = <<>>
      /\ x.type = parser.type /\ x.modern = parser.modern
  BY <1>1, FreshAlone
<1> HIDE DEF x
<1>3. Ready(x)
  BY <1>1, <1>2, FreshIsReady DEF ParserInv
<1>4. /\ Turned(x, y, {}, Open(x.state), pos)
      /\ x.state \notin UrlStates =>
            y.called = IF x.state = "s_header_field" THEN <<"field">>
                       ELSE IF x.state = "s_header_value" THEN <<"value">>
                       ELSE <<>>
  BY <1>1, <1>3, ReturnGives
<1> HIDE DEF y
<1>5. Kept(y, z)
  BY <1>4, SettledKeeps DEF Turned
<1> HIDE DEF z
<1>6. Kept(y, parser')
  <2>1. PICK i : parser' = [z EXCEPT !.index = i]
    BY <1>1
  <2> QED  BY <1>5, <2>1 DEF Kept, IsParser, Fields
<1>7. /\ Alike(parser, parser') /\ parser'.called = y.called
      /\ parser'.returned = parser.returned
  BY <1>2, <1>4, <1>6 DEF Alike, Kept, Turned
<1>8. lines' = LinesTo(parser, parser', lines)
  BY <1>1, <1>7 DEF LinesTo, Alike
<1>9. ASSUME parser'.state # "s_dead", TypeOK(parser),
             ~Doubtful(parser, parser')
      PROVE  Course(parser, parser')
  <2>1. parser.state \notin UrlStates
    BY <1>1, <1>7, <1>9 DEF Doubtful, Alike
  <2>2. Placed(x)
    <3>1. Alike(parser, x)
      BY <1>2 DEF Alike
    <3> QED  BY <1>3, <1>9, <3>1, TypeKept DEF Placed
  <2>3. CASE parser.state \in {"s_header_field", "s_header_value"}
    <3>1. InHeaders(x)
      BY <1>2, <2>2, <2>3, TypesAre DEF InLine
    <3>2. InHeaders(parser) /\ InHeaders(parser')
      BY <1>2, <1>7, <3>1 DEF InHeaders, Alike
    <3>3. parser'.called = IF parser.state = "s_header_field" THEN <<"field">>
                           ELSE <<"value">>
      BY <1>2, <1>4, <1>7, <2>1, <2>3
    <3>4. parser'.state = parser.state /\ parser'.type = parser.type
      BY <1>7 DEF Alike
    <3>5. HeaderLine(parser, parser')
      BY <2>3, <3>2, <3>3, <3>4 DEF HeaderLine
    <3> QED  BY <3>5 DEF Course
  <2>4. CASE parser.state \notin {"s_header_field", "s_header_value"}
    <3>1. parser'.called = <<>>
      BY <1>2, <1>4, <1>7, <2>1, <2>4
    <3>2. Rests(parser, parser')
      BY <1>7, <3>1 DEF Alike, Rests, http_should_keep_alive
    <3> QED  BY <3>2 DEF Course
  <2> QED  BY <2>3, <2>4
<1>10. parser'.state = parser.state
  BY <1>7 DEF Alike
<1> QED  BY <1>1, <1>8, <1>9, <1>10 DEF Goes

(* The session is that of the parser's place, until the last message ends. *)
AssembledInv ==
    ~doubtful /\ ~parser.returned /\ parser.state # "s_dead" =>
        SessionOK(parser, session, completed, lines)

(* Every step keeps it.                                                    *)
LEMMA StreamSteps ==
    ASSUME ParserInv, AssembledInv, [StreamNext]_streamVars
    PROVE  AssembledInv'
<1>1. CASE StreamNext
  <2> SUFFICES ASSUME ~doubtful', ~parser'.returned, parser'.state # "s_dead"
               PROVE  SessionOK(parser, session, completed, lines)'
    BY DEF AssembledInv
  <2>1. /\ ~doubtful /\ ~Doubtful(parser, parser')
        /\ session' = Assembled(session, parser')
        /\ completed' = completed + Completes(parser')
    BY <1>1 DEF StreamNext
  <2>2. Goes
    BY <1>1, ExecuteGoes, ByteGoes, BodyBytesGo, ReturnGoes
    DEF StreamNext, ParserNext
  <2>3. SessionOK(parser, session, completed, lines)
    BY <2>1, <2>2 DEF Goes, AssembledInv
  <2>4. Course(parser, parser')
    BY <2>1, <2>2, <2>3 DEF Goes, SessionOK
  <2>5. After(parser, session, completed, lines, parser', session',
              completed', lines')
    BY <2>1, <2>2 DEF After, Goes
  <2> QED  BY <2>3, <2>4, <2>5, CourseKeeps
<1>2. CASE UNCHANGED streamVars
  BY <1>2 DEF streamVars, parserVars, counts, AssembledInv
<1> QED  BY <1>1, <1>2

(* It holds before the first packet.                                       *)
LEMMA StreamStarts ==
    ASSUME StreamInit
    PROVE  AssembledInv
<1>1. /\ parser.type = "both" /\ parser.state = "s_start_req_or_res"
      /\ session = NewSession(0) /\ completed = 0 /\ lines = 0
  BY DEF StreamInit, ParserInit, NewParser
<1>2. IsSession(session)
  BY <1>1, NewSessionIs
<1>3. TypeOK(parser)
  BY <1>1 DEF TypeOK, BothStates
<1> QED  BY <1>1, <1>2, <1>3 DEF AssembledInv, SessionOK

(* If no packet ends in a URL, every header line has a colon and there is  *)
(* no trailer, the session that http.cpp's callbacks assemble has every    *)
(* message whose headers are complete, once and with as many headers as it *)
(* had lines, whatever else the bytes are and wherever else packets end.   *)
THEOREM MessagesAssembled == StreamSpec => []MessagesAreAssembled
<1>1. StreamInit => ParserInv /\ AssembledInv
  BY ParserStarts, StreamStarts DEF StreamInit
<1>2. ParserInv /\ AssembledInv /\ [StreamNext]_streamVars
          => (ParserInv /\ AssembledInv)'
  <2>1. [StreamNext]_streamVars => [ParserNext]_parserVars
    BY DEF StreamNext, streamVars
  <2> QED  BY <2>1, ParserSteps, StreamSteps
<1>3. AssembledInv => MessagesAreAssembled
  <2> SUFFICES ASSUME AssembledInv, ~doubtful, ~parser.returned,
                      parser.state \in StartStates \cup BodyStates
               PROVE  /\ Entered = completed
                      /\ completed = 1 =>
                          \A i \in 1..Len(session.requests) :
                             /\ {"method", "version"} \subseteq
                                    session.requests[i].strings
                             /\ session.requests[i].headers = lines
                      /\ completed = 1 =>
                          \A i \in 1..Len(session.responses) :
                             /\ session.responses[i].statuses = 1
                             /\ session.responses[i].headers = lines
    BY DEF MessagesAreAssembled
  <2>1. parser.state # "s_dead"
    BY DEF StartStates, BodyStates
  <2>2. SessionOK(parser, session, completed, lines)
    BY <2>1 DEF AssembledInv
  <2>3. Whole(session, completed, lines)
    BY <2>2, SessionIsAssembled
  <2> QED  BY <2>3 DEF Whole, Entered
<1> QED  BY <1>1, <1>2, <1>3, PTL DEF StreamSpec
=============================================================================

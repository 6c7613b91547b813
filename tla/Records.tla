------------------------------ MODULE Records -------------------------------
(***************************************************************************)
(* The formats of the records the modules store and the tools read:        *)
(* makeRecord() of sensor/modules/httpLog/httpLog.cpp and of               *)
(* sensor/modules/pjl/pjl.cpp, print() of tools/dumpHTTP/dumpHTTP.cpp and  *)
(* tools/dumpPJL/dumpPJL.cpp, and count() of tools/countPJL/countPJL.cpp.  *)
(*                                                                         *)
(* A record is a sequence of bytes.  A byte of a number names the number,  *)
(* its width and the place of the byte in it, so that a reader that looks  *)
(* at the wrong offset or with the wrong width gets Nonsense.  Strings are *)
(* sequences of characters.  The order of a number's bytes, the same       *)
(* conversion on both sides, is left out.                                  *)
(***************************************************************************)
EXTENDS Naturals, SequencesExt

CONSTANTS
    Characters,     \* what strings consist of
    MACs            \* Ethernet addresses

Words == Seq(Characters)

(* The record's += and append().                                           *)
Bytes(number, width) ==
    [i \in 1..width |-> [number |-> number, width |-> width, byte |-> i]]
Text(string) == [i \in DOMAIN string |-> [text |-> string[i]]]
Ethernet(mac) == [i \in 1..6 |-> [mac |-> mac, byte |-> i]]

(* A string after its length, which only the two bytes that pjl.cpp has for*)
(* it can be too few for.                                                  *)
Sized(string, width) ==
    Bytes(IF width = 2 THEN Len(string) % 65536 ELSE Len(string), width)
    \o Text(string)

Nonsense == 0

(* What a reader finds at an offset.                                       *)
Slice(data, position, length) ==
    SubSeq(data, position + 1, position + length)

Number(data, position, width) ==
    LET bytes == Slice(data, position, width)
    IN  IF /\ bytes # <<>>
           /\ "number" \in DOMAIN bytes[1]
           /\ bytes = Bytes(bytes[1].number, width)
        THEN bytes[1].number ELSE Nonsense

MAC(data, position) ==
    LET bytes == Slice(data, position, 6)
    IN  IF /\ bytes # <<>>
           /\ "mac" \in DOMAIN bytes[1]
           /\ bytes = Ethernet(bytes[1].mac)
        THEN bytes[1].mac ELSE Nonsense

String(data, position, length) ==
    [i \in 1..Len(Slice(data, position, length)) |->
        LET byte == Slice(data, position, length)[i]
        IN  IF "text" \in DOMAIN byte THEN byte.text ELSE "?"]

(* n strings, each after its length.                                       *)
Strings(data, position, n, width) ==
    LET read[i \in 0..n] ==
            IF i = 0 THEN [position |-> position, strings |-> <<>>]
            ELSE LET start == read[i - 1].position + width
                     length == Number(data, read[i - 1].position, width)
                 IN  [position |-> start + length,
                      strings |-> Append(read[i - 1].strings,
                                         String(data, start, length))]
    IN  read[n]

(* The client and the server of a session.                                 *)
Endpoints(s) ==
    Ethernet(s.clientMAC) \o Ethernet(s.serverMAC)
    \o Bytes(s.clientIP, 4) \o Bytes(s.serverIP, 4)
    \o Bytes(s.clientPort, 2) \o Bytes(s.serverPort, 2)

EndpointsAt(data, p) ==
    [clientMAC |-> MAC(data, p), serverMAC |-> MAC(data, p + 6),
     clientIP |-> Number(data, p + 12, 4), serverIP |-> Number(data, p + 16, 4),
     clientPort |-> Number(data, p + 20, 2),
     serverPort |-> Number(data, p + 22, 2)]

-----------------------------------------------------------------------------
(* HTTP sessions.                                                          *)

REQUEST == 0
RESPONSE == 1

HTTPMessage ==
    [type : {REQUEST, RESPONSE}, time : Nat \X Nat, message : Seq(Words),
     headers : Seq(Words \X Words)]

HTTPSession ==
    [clientMAC : MACs, serverMAC : MACs, clientIP : Nat, serverIP : Nat,
     clientPort : Nat, serverPort : Nat,
     requests : Seq(HTTPMessage), responses : Seq(HTTPMessage)]

(* A bug for the mutation run: the value of a header without its size.     *)
MessageBytesUnsized(m) ==
    Bytes(m.type, 1) \o Bytes(m.time[1], 4) \o Bytes(m.time[2], 4)
    \o Bytes(Len(m.message), 4)
    \o FlattenSeq([i \in DOMAIN m.message |-> Sized(m.message[i], 4)])
    \o Bytes(Len(m.headers), 4)
    \o FlattenSeq([i \in DOMAIN m.headers |->
                      Sized(m.headers[i][1], 4) \o Text(m.headers[i][2])])

MessageBytes(m) ==
    Bytes(m.type, 1) \o Bytes(m.time[1], 4) \o Bytes(m.time[2], 4)
    \o Bytes(Len(m.message), 4)
    \o FlattenSeq([i \in DOMAIN m.message |-> Sized(m.message[i], 4)])
    \o Bytes(Len(m.headers), 4)
    \o FlattenSeq([i \in DOMAIN m.headers |->
                      Sized(m.headers[i][1], 4) \o Sized(m.headers[i][2], 4)])

(* The requests and then the responses.                                    *)
HTTPRecord(s) ==
    Bytes(1, 1) \o Endpoints(s) \o Bytes(0, 1)
    \o Bytes(Len(s.requests) + Len(s.responses), 4)
    \o FlattenSeq([i \in DOMAIN s.requests |-> MessageBytes(s.requests[i])])
    \o FlattenSeq([i \in DOMAIN s.responses |-> MessageBytes(s.responses[i])])

(* One message of a record, and where the next one begins.                 *)
MessageAt(data, p) ==
    LET message == Strings(data, p + 13, Number(data, p + 9, 4), 4)
        total == Number(data, message.position, 4)
        headers == Strings(data, message.position + 4, 2 * total, 4)
    IN  [position |-> headers.position,
         message |->
            [type |-> Number(data, p, 1),
             time |-> <<Number(data, p + 1, 4), Number(data, p + 5, 4)>>,
             message |-> message.strings,
             headers |-> [i \in 1..total |-> <<headers.strings[2 * i - 1],
                                               headers.strings[2 * i]>>]]]

Messages(data) ==
    LET n == Number(data, 26, 4)
        read[i \in 0..n] ==
            IF i = 0 THEN [position |-> 30, messages |-> <<>>]
            ELSE LET next == MessageAt(data, read[i - 1].position)
                 IN  [position |-> next.position,
                      messages |-> Append(read[i - 1].messages, next.message)]
    IN  read[n].messages

(* A network in CIDR notation, as the range of its addresses, from the one *)
(* that is written.                                                        *)
cidrToIPs(ip, prefix) == <<ip, ip + 2^(32 - prefix) - 1>>

(* The options that were given more than once match either way; those that *)
(* were not given match everything.                                        *)
Among(value, values) == values = {} \/ value \in values
InRange(ip, ranges) ==
    ranges = {} \/ \E r \in ranges : r[1] <= ip /\ ip <= r[2]

(* The regular expression of each part of a request: the strings it        *)
(* matches.                                                                *)
Matches(m, patterns) ==
    m.type = REQUEST =>
        \A part \in DOMAIN patterns : m.message[part] \in patterns[part]

SessionWanted(e, filter) ==
    /\ Among(e.clientMAC, filter.clientMACs)
    /\ Among(e.serverMAC, filter.serverMACs)
    /\ InRange(e.clientIP, filter.clientIPs)
    /\ InRange(e.serverIP, filter.serverIPs)
    /\ Among(e.clientPort, filter.clientPorts)
    /\ Among(e.serverPort, filter.serverPorts)

MessageWanted(m, filter) ==
    /\ \/ m.type = REQUEST /\ filter.printRequests
       \/ m.type = RESPONSE /\ filter.printResponses
    /\ Matches(m, filter.patterns)

(* dumpHTTP's print(): a sequence of messages with their endpoints.        *)
printHTTP(data, filter) ==
    LET endpoints == EndpointsAt(data, 1)
        all == Messages(data)
    IN  IF ~SessionWanted(endpoints, filter) THEN <<>>
        ELSE FlattenSeq([i \in DOMAIN all |->
                            IF MessageWanted(all[i], filter)
                            THEN <<<<endpoints, all[i]>>>> ELSE <<>>])

-----------------------------------------------------------------------------
(* Print jobs.                                                             *)

PJLRecord(s) ==
    Bytes(1, 1) \o Bytes(s.time[1], 4) \o Bytes(s.time[2], 4) \o Endpoints(s)
    \o Sized(s.computer, 2) \o Sized(s.user, 2) \o Sized(s.title, 2)
    \o Bytes(s.size, 4) \o Bytes(s.pages, 2) \o Bytes(0, 1)

(* dumpPJL's print().                                                      *)
printPJL(data) ==
    LET strings == Strings(data, 33, 3, 2)
        p == strings.position
    IN  [time |-> <<Number(data, 1, 4), Number(data, 5, 4)>>,
         endpoints |-> EndpointsAt(data, 9),
         computer |-> strings.strings[1],
         user |-> strings.strings[2],
         title |-> strings.strings[3],
         size |-> Number(data, p, 4),
         pages |-> Number(data, p + 4, 2)]

(* countPJL's count(): the pages of each computer, in 16 bits.             *)
count(computers, data) ==
    LET value == Strings(data, 33, 1, 2).strings[1]
        pages == Number(data, Len(data) - 3, 2)
    IN  [c \in DOMAIN computers \cup {value} |->
            ((IF c \in DOMAIN computers THEN computers[c] ELSE 0)
                 + (IF c = value THEN pages ELSE 0)) % 65536]

=============================================================================

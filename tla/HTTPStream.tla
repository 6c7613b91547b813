------------------------------ MODULE HTTPStream ------------------------------
(***************************************************************************)
(* The HTTP parser with the callbacks of http.cpp: the session that the    *)
(* bytes of one side of a connection assemble, wherever its packets end.   *)
(* HTTP.tla has a few packets cut in a few places; this is every cut.      *)
(***************************************************************************)
EXTENDS HTTPParser, HTTPCallbacks

VARIABLES
    session,    \* the HTTPSession, until something doubtful comes
    completed,  \* history: messages whose headers are complete
    doubtful    \* history: what the callbacks do not get right has come

streamVars == <<parserVars, session, completed, doubtful>>

StreamInit ==
    /\ ParserInit
    /\ session = NewSession(0)
    /\ completed = 0
    /\ doubtful = FALSE

(* A packet that ends inside a URL, a header line without a colon, and a   *)
(* trailer, in the step from x to y.                                       *)
Doubtful(x, y) ==
    \/ len' = 0 /\ y.state \in UrlStates
    \/ x.state = "s_header_field"
       /\ y.state \in {"s_header_almost_done", "s_header_field_start"}
    \/ y.state = "s_header_field" /\ "TRAILING" \in y.flags

(* The session after the callbacks of a step.                              *)
Assembled(x, y) ==
    LET side == IF y.type = "request" THEN "client" ELSE "server"
        after[n \in 0..Len(y.called)] ==
            IF n = 0 THEN x ELSE Callback(after[n - 1], y.called[n], side, 0)
    IN  after[Len(y.called)]

(* The messages whose headers the step completes, one at most.             *)
Completes(y) == IF {y.called[i] : i \in DOMAIN y.called}
                   \cap {"complete", "closing"} = {} THEN 0 ELSE 1

StreamNext ==
    /\ ParserNext
    /\ doubtful' = (doubtful \/ Doubtful(parser, parser'))
    /\ session' = IF doubtful' THEN NewSession(0)
                              ELSE Assembled(session, parser')
    /\ completed' = IF doubtful' THEN 0 ELSE completed + Completes(parser')

StreamSpec == StreamInit /\ [][StreamNext]_streamVars

Entered == Len(session.requests) + Len(session.responses)

(* Wherever packets end, if they end in no URL, every header line has a    *)
(* colon and no trailer was sent, every message whose headers are complete *)
(* is in the session once, with as many headers as it had lines, and with  *)
(* its method and version, or its status.                                  *)
MessagesAreAssembled ==
    ~doubtful /\ ~parser.returned
        /\ parser.state \in StartStates \cup BodyStates =>
            /\ Entered = completed
            /\ completed = 1 =>
                  \A i \in 1..Len(session.requests) :
                     /\ {"method", "version"} \subseteq
                            session.requests[i].strings
                     /\ session.requests[i].headers = lines
            /\ completed = 1 =>
                  \A i \in 1..Len(session.responses) :
                     /\ session.responses[i].statuses = 1
                     /\ session.responses[i].headers = lines
=============================================================================

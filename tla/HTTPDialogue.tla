----------------------------- MODULE HTTPDialogue -----------------------------
(***************************************************************************)
(* What an HTTP parser promises the callbacks of httpParser.h: the order   *)
(* in which it calls them.  A step is a byte, a part of a body or the end  *)
(* of a packet, with its callbacks.                                        *)
(***************************************************************************)
EXTENDS Integers, Sequences

VARIABLES
    phase,      \* the part of the message that is being read
    calls       \* the callbacks of the last step

(* "lastBody" is that of a message after which the connection closes.      *)
Phases == {"between", "line", "headers", "body", "lastBody", "trailer", "dead"}
UrlParts == {"url", "path", "queryString", "fragment"}

Init == phase = "between" /\ calls = <<>>

(* Nothing is called.                                                      *)
Silent ==
    /\ calls' = <<>>
    /\ phase' \in {phase, "dead"}
                  \cup (IF phase = "line" THEN {"headers"} ELSE {})
                  \cup (IF phase \in {"body", "lastBody"} THEN {"trailer"}
                                                          ELSE {})

(* A message begins, or what seemed to be one.                             *)
Begin ==
    /\ phase = "between"
    /\ calls' = <<"messageBegin">>
    /\ phase' \in {"between", "line", "dead"}

(* Parts of the URL, each of them once at a time.                          *)
Line ==
    /\ phase = "line"
    /\ Len(calls') \in 1..2
    /\ \A i \in 1..Len(calls') : calls'[i] \in UrlParts
    /\ Len(calls') = 2 => calls'[1] # calls'[2]
    /\ phase' \in {"line", "headers"}

(* A header's name or value, or a part of it.                              *)
Header ==
    /\ phase \in {"headers", "trailer"}
    /\ calls' \in {<<"field">>, <<"value">>}
    /\ UNCHANGED phase

(* The end of the headers.  After a message that closes the connection     *)
(* there is no other; without a body the message is complete.              *)
HeadersEnd ==
    /\ phase = "headers"
    /\ \/ calls' = <<"complete">> /\ phase' = "body"
       \/ calls' = <<"closing">> /\ phase' = "lastBody"
       \/ calls' = <<"complete", "messageComplete">>
          /\ phase' \in {"between", "dead"}
       \/ calls' = <<"closing", "messageComplete">> /\ phase' = "dead"

Body ==
    /\ phase \in {"body", "lastBody"}
    /\ \/ calls' = <<"body">> /\ UNCHANGED phase
       \/ /\ calls' = <<"body", "messageComplete">>
          /\ phase' \in {"dead"}
                 \cup (IF phase = "body" THEN {"between"} ELSE {})

(* Trailers are headers, too: they may close the connection, or keep it.   *)
TrailerEnd ==
    /\ phase = "trailer"
    /\ calls' = <<"messageComplete">>
    /\ phase' \in {"between", "dead"}

Next == Silent \/ Begin \/ Line \/ Header \/ HeadersEnd \/ Body \/ TrailerEnd

Spec == Init /\ [][Next]_<<phase, calls>>
=============================================================================

------------------------------ MODULE RecordLog ------------------------------
(***************************************************************************)
(* What a Writer promises its clients, with the threads taken away: the    *)
(* flows given to write() are handed to the database one at a time, in the *)
(* order of the calls, each of them exactly once.  The database may refuse *)
(* a record; the refused flow is not retried.                              *)
(***************************************************************************)
EXTENDS Naturals, Sequences

CONSTANT Flows        \* the flows (sessions) clients hand over

VARIABLES
    pending,          \* flows handed over and not yet given to the database
    attempted         \* flows given to the database, in order

logVars == <<pending, attempted>>

LogInit ==
    /\ pending = <<>>
    /\ attempted = <<>>

(* A client hands over a flow. *)
Submit(f) ==
    /\ pending' = Append(pending, f)
    /\ UNCHANGED attempted

(* The oldest pending flow is given to the database. *)
Attempt ==
    /\ pending # <<>>
    /\ attempted' = Append(attempted, Head(pending))
    /\ pending' = Tail(pending)

LogNext == Attempt \/ \E f \in Flows : Submit(f)

LogSpec == LogInit /\ [][LogNext]_logVars

=============================================================================

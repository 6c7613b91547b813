--------------------------------- MODULE MCBT ---------------------------------
(* BT.tla with two connections, the two flows of each in two buckets, and *)
(* a pool of one block: the static pointer alone may hold it when the table*)
(* is empty.                                                               *)
EXTENDS BT, TLC
CONSTANTS c1, c2, s1, k1
MCConnections == {c1, c2}
MCSessions == {s1}
MCConnectionIDs == {k1}
MCBucket == <<c1, "client">> :> 1 @@ <<c1, "tracker">> :> 2
                @@ <<c2, "client">> :> 2 @@ <<c2, "tracker">> :> 1
=============================================================================

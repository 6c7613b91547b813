-------------------------------- MODULE MCHTTP --------------------------------
(* HTTP.tla with one connection, whose two flows are in two buckets, and   *)
(* two sessions.                                                           *)
EXTENDS HTTP, TLC
CONSTANTS c1, c2, s1, s2
MCConnections == {c1}
MCSessions == {s1, s2}
MCBucket == <<c1, "client">> :> 1 @@ <<c1, "server">> :> 2
=============================================================================

---------------------------- MODULE MCSessionTable ----------------------------
(* SessionTable.tla with two blocks and two buckets.  Three flows, so that *)
(* the pool can be empty when a packet comes; two share a bucket.          *)
EXTENDS SessionTable, TLC
CONSTANTS f1, f2, f3, b1, b2
MCFlows == {f1, f2, f3}
MCBlocks == {b1, b2}
MCBucket == f1 :> 1 @@ f2 :> 2 @@ f3 :> 1
=============================================================================

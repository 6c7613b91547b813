------------------------------- MODULE MCPPS --------------------------------
(* PPS.tla with two networks of one address each, one address between them *)
(* and one below, and a bucket for each two addresses.                     *)
EXTENDS PPS, TLC
CONSTANTS b1, b2
MCBlocks == {b1, b2}
MCIPs == 0..3
MCNetworks == {<<1, 1>>, <<3, 3>>}
MCBucket == 0 :> 1 @@ 1 :> 1 @@ 2 :> 2 @@ 3 :> 2
=============================================================================

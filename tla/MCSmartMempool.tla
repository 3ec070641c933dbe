---------------------------- MODULE MCSmartMempool ----------------------------
(* Two pools, a registry with room for one, and clients that use both. *)
EXTENDS SmartMempool, TLC

CONSTANTS p1, p2

TwoOps == p1 :> 2 @@ p2 :> 0
OneOps == p1 :> 3
=============================================================================

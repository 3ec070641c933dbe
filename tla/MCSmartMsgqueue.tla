--------------------------- MODULE MCSmartMsgqueue ---------------------------
(* A queue of three slots and three messages: head and tail wrap apart. *)
EXTENDS SmartMsgqueue
=============================================================================

----------------------------- MODULE MCSmartCore -----------------------------
(* Small instances of SmartCore for TLC. *)
EXTENDS SmartCore, TLC

CONSTANTS a, b

(***************************************************************************)
(* Two periodic tasks as in main.c; the deadline of b is shorter than its  *)
(* period, so ties and preemptions both occur.  Times are even and Inf is  *)
(* odd: deadlines wrap around without meeting 0xFFFFFFFF.                  *)
(***************************************************************************)
PeriodicTasks    == {a, b, Idle}
PeriodicPeriod   == a :> 2 @@ b :> 4 @@ Idle :> 0
PeriodicDeadline == a :> 2 @@ b :> 2 @@ Idle :> Inf

DelayThree == {3}
=============================================================================

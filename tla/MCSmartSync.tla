----------------------------- MODULE MCSmartSync -----------------------------
(* Small instances of SmartSync for TLC: tasks as main() of user/main.c     *)
(* creates them, each pushed in front of the idle task.                     *)
EXTENDS SmartSync, TLC

CONSTANTS a, b, c

Tasks     == {a, b, c, Idle}
Periods   == a :> 2 @@ b :> 2 @@ c :> 2 @@ Idle :> 0
Deadlines == a :> 2 @@ b :> 2 @@ c :> 2 @@ Idle :> Inf

(* a and c have shorter periods and less time for their jobs than b.        *)
PeriodsApart   == a :> 2 @@ b :> 8 @@ c :> 4 @@ Idle :> 0
DeadlinesApart == a :> 1 @@ b :> 8 @@ c :> 1 @@ Idle :> Inf

(* Three tasks that share the mutex. *)
ThreeLockers ==
    [head |-> c, link |-> c :> b @@ b :> a @@ a :> Idle @@ Idle :> NoTask,
     units |-> 0, depth |-> 1]

(* Two tasks, c is not created; they nest locks and share the semaphore. *)
TwoLinks == b :> a @@ a :> Idle @@ Idle :> NoTask @@ c :> NoTask
TwoOfEach == [head |-> b, link |-> TwoLinks, units |-> 1, depth |-> 2]

(* Runs of three tasks and of nested locks end where a task returned early; *)
(* what comes after it is explored with two tasks and no nesting.           *)
TwoUnnested == [TwoOfEach EXCEPT !.depth = 1]
EndEarly == spurious => program = [tasks |-> {a, b, Idle}, units |-> 1, depth |-> 1]

Three     == {ThreeLockers, TwoOfEach, TwoUnnested}
OnlyThree == {ThreeLockers}
OnlyTwo   == {TwoOfEach}
=============================================================================

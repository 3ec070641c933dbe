------------------------------ MODULE SmartTimer ------------------------------
(***************************************************************************)
(* The software timers (core/smart_timer.c): a pool of control blocks, the *)
(* linked list of active timers, the calls of the tasks and the walk of    *)
(* smart_timer_tick, which SysTick_Handler runs on every tick.             *)
(*                                                                         *)
(* Tasks do not run while the handler does, so a call happens between two  *)
(* walks.  The walk itself is taken entry by entry, because what it does   *)
(* to one entry depends on what it has just done to the list.  As in       *)
(* core/smart_shell.c, a callback does not call the timer API, and nobody  *)
(* resets a RUNNING timer.  The id is modelled by whether it is 0, the     *)
(* statistics by the two that count timers.                                *)
(*                                                                         *)
(* A call checks the id before its critical section, and a delete is two   *)
(* of them.  Only the delete of another task can come in between, so how   *)
(* far that matters depends on how many tasks use one timer: Sharers.  In  *)
(* the repository it is 1, as cmd_timer uses the timers it has created.    *)
(* With more, calls of one task fall between the two parts of another's    *)
(* delete; the id check and the critical section behind it are one step    *)
(* all the same, which leaves out calls on a block freed in between.       *)
(***************************************************************************)
EXTENDS Integers, FiniteSets

CONSTANTS
    MaxTimers,      \* MAX_TIMERS
    Periods,        \* the values of period_ms the tasks use
    Sharers,        \* the tasks that use one and the same timer
    Null            \* the null timer pointer

Timer == 1 .. MaxTimers

ASSUME MaxTimersAssumption == MaxTimers \in Nat
ASSUME PeriodsAssumption == Periods \subseteq Nat \ {0}
ASSUME SharersAssumption == Sharers \in Nat \ {0}
ASSUME NullAssumption == Null \notin Timer

VARIABLES
    used,               \* timer_pool[i].id != 0
    type, state, period_ms, remaining_ms, next,
    active_timer_list,
    active_timers, total_timers,
    cursor, prev,       \* the locals timer and prev of the walk
    in_callback,        \* the walk is in the callback of cursor
    deleting,           \* tasks between the two parts of smart_timer_delete
    age, span           \* history: ticks since the start, and its period

blocks == <<used, type, state, period_ms, remaining_ms>>
list   == <<next, active_timer_list>>
counts == <<active_timers, total_timers>>
walk   == <<cursor, prev, in_callback>>
ghosts == <<age, span>>
vars   == <<blocks, list, counts, walk, deleting, ghosts>>

(* The timers met by following link from head: the least set closed under it. *)
Reached(head, link) ==
    {t \in Timer :
        \A S \in SUBSET Timer :
            (/\ head \in S \cup {Null}
             /\ \A s \in S : link[s] \in S \cup {Null}) => t \in S}

(* The timers a walk of the list meets. *)
Listed == Reached(active_timer_list, next)

Idle == cursor = Null               \* no walk: tasks may run

(* The id check of a call, made by a task that is not deleting t. *)
Live(t) == used[t] /\ deleting[t] < Sharers

Init ==
    /\ used = [t \in Timer |-> FALSE]
    /\ type = [t \in Timer |-> "ONE_SHOT"]
    /\ state = [t \in Timer |-> "STOPPED"]
    /\ period_ms = [t \in Timer |-> 0]
    /\ remaining_ms = [t \in Timer |-> 0]
    /\ next = [t \in Timer |-> Null]
    /\ active_timer_list = Null
    /\ active_timers = 0 /\ total_timers = 0
    /\ cursor = Null /\ prev = Null /\ in_callback = FALSE
    /\ deleting = [t \in Timer |-> 0]
    /\ age = [t \in Timer |-> 0] /\ span = [t \in Timer |-> 0]

(* smart_timer_create: the first unused control block of the pool. *)
Create(t, kind, period) ==
    /\ Idle
    /\ ~used[t] /\ \A s \in Timer : s < t => used[s]
    /\ used' = [used EXCEPT ![t] = TRUE]
    /\ type' = [type EXCEPT ![t] = kind]
    /\ state' = [state EXCEPT ![t] = "STOPPED"]
    /\ period_ms' = [period_ms EXCEPT ![t] = period]
    /\ remaining_ms' = [remaining_ms EXCEPT ![t] = period]
    /\ next' = [next EXCEPT ![t] = Null]
    /\ total_timers' = total_timers + 1
    /\ UNCHANGED <<active_timer_list, active_timers, walk, deleting, ghosts>>

(* Push t on the list, to count down from left, with the successor rest. *)
ArmAs(t, left, rest, active) ==
    /\ state' = [state EXCEPT ![t] = "RUNNING"]
    /\ remaining_ms' = [remaining_ms EXCEPT ![t] = left]
    /\ next' = [next EXCEPT ![t] = rest]
    /\ active_timer_list' = t
    /\ active_timers' = active
    /\ age' = [age EXCEPT ![t] = 0]
    /\ span' = [span EXCEPT ![t] = period_ms[t]]

(* Mutants of Arm: active_timers forgotten; remaining_ms not reset; the     *)
(* link to the rest of the list not set.                                    *)
ArmUncounted(t) == ArmAs(t, period_ms[t], active_timer_list, active_timers)
ArmResuming(t) == ArmAs(t, remaining_ms[t], active_timer_list, active_timers + 1)
ArmAlone(t) == ArmAs(t, period_ms[t], next[t], active_timers + 1)

(* The timer counts from its whole period at the head of the list. *)
Arm(t) == ArmAs(t, period_ms[t], active_timer_list, active_timers + 1)

(* smart_timer_start. *)
Start(t) ==
    /\ Idle /\ Live(t)
    /\ state[t] # "RUNNING"
    /\ Arm(t)
    /\ UNCHANGED <<used, type, period_ms, total_timers, walk, deleting>>

(* Mutant of Unlink: only the head of the list is looked at. *)
UnlinkHead(t, after) ==
    /\ active_timer_list' = IF active_timer_list = t THEN next[t]
                                                     ELSE active_timer_list
    /\ next' = [next EXCEPT ![t] = IF active_timer_list = t THEN after ELSE @]

(* Take t off the list, if it is there, and give it the successor after. *)
Unlink(t, after) ==
    /\ active_timer_list' = IF active_timer_list = t THEN next[t]
                                                     ELSE active_timer_list
    /\ next' = [s \in Timer |->
                  IF s = t THEN after
                  ELSE IF active_timer_list # t /\ s \in Listed /\ next[s] = t
                       THEN next[t] ELSE next[s]]

(* History: t is not counting any more. *)
Forget(t) ==
    /\ age' = [age EXCEPT ![t] = 0]
    /\ span' = [span EXCEPT ![t] = 0]

(* Mutant of StopBody: a timer that does not run is stopped all the same. *)
StopAnyway(t) ==
    /\ Unlink(t, Null)
    /\ state' = [state EXCEPT ![t] = "STOPPED"]
    /\ active_timers' = active_timers - 1
    /\ Forget(t)

(* The body of smart_timer_stop: nothing when the timer is not RUNNING. *)
StopBody(t) ==
    IF state[t] = "RUNNING"
    THEN /\ Unlink(t, Null)
         /\ state' = [state EXCEPT ![t] = "STOPPED"]
         /\ active_timers' = active_timers - 1
         /\ Forget(t)
    ELSE UNCHANGED <<list, state, active_timers, ghosts>>

(* smart_timer_stop. *)
Stop(t) ==
    /\ Idle /\ Live(t)
    /\ StopBody(t)
    /\ UNCHANGED <<used, type, period_ms, remaining_ms, total_timers, walk,
                   deleting>>

(* smart_timer_reset, on a timer that is not RUNNING. *)
Reset(t) ==
    /\ Idle /\ Live(t)
    /\ state[t] # "RUNNING"
    /\ remaining_ms' = [remaining_ms EXCEPT ![t] = period_ms[t]]
    /\ state' = [state EXCEPT ![t] = "STOPPED"]
    /\ Forget(t)
    /\ UNCHANGED <<used, type, period_ms, list, counts, walk, deleting>>

(* smart_timer_set_period: a RUNNING timer keeps its remaining time. *)
SetPeriod(t, period) ==
    /\ Idle /\ Live(t)
    /\ period_ms' = [period_ms EXCEPT ![t] = period]
    /\ remaining_ms' = [remaining_ms EXCEPT ![t] =
                          IF state[t] = "STOPPED" THEN period ELSE @]
    /\ UNCHANGED <<used, type, state, list, counts, walk, deleting, ghosts>>

(* smart_timer_delete, its first critical section: smart_timer_stop. *)
Delete(t) ==
    /\ Idle /\ Live(t)
    /\ StopBody(t)
    /\ deleting' = [deleting EXCEPT ![t] = @ + 1]
    /\ UNCHANGED <<used, type, period_ms, remaining_ms, total_timers, walk>>

(* smart_timer_delete, its second critical section: free_timer. *)
Free(t) ==
    /\ Idle
    /\ deleting[t] > 0
    /\ deleting' = [deleting EXCEPT ![t] = @ - 1]
    /\ Unlink(t, Null)
    /\ used' = [used EXCEPT ![t] = FALSE]
    /\ type' = [type EXCEPT ![t] = "ONE_SHOT"]
    /\ state' = [state EXCEPT ![t] = "STOPPED"]
    /\ period_ms' = [period_ms EXCEPT ![t] = 0]
    /\ remaining_ms' = [remaining_ms EXCEPT ![t] = 0]
    /\ total_timers' = total_timers - 1
    /\ Forget(t)
    /\ UNCHANGED <<active_timers, walk>>

-----------------------------------------------------------------------------
(* smart_timer_tick begins its walk; every RUNNING timer is a tick older. *)
BeginTick ==
    /\ Idle
    /\ cursor' = active_timer_list
    /\ prev' = Null
    /\ age' = [t \in Timer |->
                 IF state[t] = "RUNNING" /\ age[t] < span[t] THEN age[t] + 1
                                                             ELSE age[t]]
    /\ UNCHANGED <<blocks, list, counts, in_callback, deleting, span>>

Left(t) == IF remaining_ms[t] > 0 THEN remaining_ms[t] - 1 ELSE 0

(* On to the next entry behind p; at the end both locals are dead. *)
Advance(p) ==
    /\ cursor' = next[cursor]
    /\ prev' = IF next[cursor] = Null THEN Null ELSE p

(* The entry has time left: it becomes the predecessor of the next one. *)
CountDown ==
    /\ ~Idle /\ ~in_callback
    /\ Left(cursor) > 0
    /\ remaining_ms' = [remaining_ms EXCEPT ![cursor] = Left(cursor)]
    /\ Advance(cursor)
    /\ UNCHANGED <<used, type, state, period_ms, list, counts, in_callback,
                   deleting, ghosts>>

(***************************************************************************)
(* The entry expires and is cut out behind prev; without a prev the list   *)
(* begins after it, whatever stood before.                                 *)
(***************************************************************************)
Expire ==
    /\ ~Idle /\ ~in_callback
    /\ Left(cursor) = 0
    /\ remaining_ms' = [remaining_ms EXCEPT ![cursor] = 0]
    /\ state' = [state EXCEPT ![cursor] = "EXPIRED"]
    /\ IF prev # Null
       THEN /\ next' = [next EXCEPT ![prev] = next[cursor]]
            /\ UNCHANGED active_timer_list
       ELSE /\ active_timer_list' = next[cursor]
            /\ UNCHANGED next
    /\ active_timers' = active_timers - 1
    /\ in_callback' = TRUE
    /\ UNCHANGED <<used, type, period_ms, total_timers, cursor, prev, deleting, ghosts>>

(* Back from the callback: a periodic timer is armed again, and on to next. *)
AfterCallback ==
    /\ in_callback
    /\ in_callback' = FALSE
    /\ Advance(prev)
    /\ IF type[cursor] = "PERIODIC"
       THEN Arm(cursor)
       ELSE /\ next' = [next EXCEPT ![cursor] = Null]
            /\ UNCHANGED <<state, remaining_ms, active_timer_list, active_timers, ghosts>>
    /\ UNCHANGED <<used, type, period_ms, total_timers, deleting>>

TickStep == BeginTick \/ CountDown \/ Expire \/ AfterCallback

Call(t) ==
    \/ \E kind \in {"ONE_SHOT", "PERIODIC"}, period \in Periods :
          Create(t, kind, period)
    \/ \E period \in Periods : SetPeriod(t, period)
    \/ Start(t) \/ Stop(t) \/ Reset(t) \/ Delete(t) \/ Free(t)

Next == TickStep \/ \E t \in Timer : Call(t)

Spec == Init /\ [][Next]_vars

(* SysTick keeps coming, and its handler returns. *)
FairSpec == Spec /\ WF_vars(TickStep)

-----------------------------------------------------------------------------
TypeOK ==
    /\ used \in [Timer -> BOOLEAN]
    /\ type \in [Timer -> {"ONE_SHOT", "PERIODIC"}]
    /\ state \in [Timer -> {"STOPPED", "RUNNING", "EXPIRED"}]
    /\ period_ms \in [Timer -> Periods \cup {0}]
    /\ remaining_ms \in [Timer -> Nat]
    /\ next \in [Timer -> Timer \cup {Null}]
    /\ active_timer_list \in Timer \cup {Null}
    /\ active_timers \in 0 .. MaxTimers
    /\ total_timers \in 0 .. MaxTimers
    /\ cursor \in Timer \cup {Null}
    /\ prev \in Timer \cup {Null}
    /\ in_callback \in BOOLEAN
    /\ deleting \in [Timer -> 0 .. Sharers]
    /\ age \in [Timer -> Nat] /\ span \in [Timer -> Nat]

(***************************************************************************)
(* Between two ticks the list is sound: it ends, every timer on it is a    *)
(* live RUNNING one, and no one-shot timer that runs has dropped off it,   *)
(* whatever the walk did to the entries around it.                         *)
(***************************************************************************)
ListSound ==
    Idle => /\ \A t \in Listed : used[t] /\ state[t] = "RUNNING"
            /\ Listed # {} => \E t \in Listed : next[t] = Null
            /\ \A t \in Timer : state[t] = "RUNNING" /\ type[t] = "ONE_SHOT"
                                    => t \in Listed

(***************************************************************************)
(* smart_timer.h: active_timers is the number of active timers and         *)
(* total_timers that of all, although start, stop, the two parts of delete *)
(* and the walk each keep them on their own.                               *)
(***************************************************************************)
CountsAgree ==
    /\ active_timers = Cardinality({t \in Timer : state[t] = "RUNNING"})
    /\ total_timers = Cardinality({t \in Timer : used[t]})

(***************************************************************************)
(* A timer on the list has been counted down once for every tick since it  *)
(* was armed, neither skipped nor visited twice by a walk, and a one-shot  *)
(* timer has expired exactly its period after its start.                   *)
(***************************************************************************)
FiresOnTime ==
    Idle => /\ \A t \in Listed : remaining_ms[t] + age[t] = span[t]
            /\ \A t \in Timer : state[t] = "EXPIRED" => age[t] = span[t]

(* A one-shot timer that was started does not run for ever. *)
OneShotEnds ==
    \A t \in Timer :
        (state[t] = "RUNNING" /\ type[t] = "ONE_SHOT") ~> state[t] # "RUNNING"

(***************************************************************************)
(* README.md, timer features: a periodic timer is put back on the list     *)
(* automatically.  So between ticks every RUNNING one is on it.            *)
(***************************************************************************)
PeriodicRelinked ==
    Idle => \A t \in Timer : state[t] = "RUNNING" /\ type[t] = "PERIODIC"
                                 => t \in Listed
=============================================================================

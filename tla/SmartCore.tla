------------------------------ MODULE SmartCore ------------------------------
(***************************************************************************)
(* The Smart-OS kernel: the task list, the EDF scheduler, SysTick, PendSV  *)
(* and the two calls with which a task gives up the CPU, smart_task_yield  *)
(* and smart_delay (core/smart_core.c, arch/context.S).                    *)
(*                                                                         *)
(* An action is one critical section of a task or one exception handler.   *)
(* A task runs only while no PendSV is pending: PendSV has the lowest      *)
(* priority, so it is taken as soon as the task leaves its critical        *)
(* section.  A SysTick that is pending at the same moment may be taken     *)
(* before it.  smart_time_t is a uint32_t: Modulus stands for 2^32.        *)
(***************************************************************************)
EXTENDS Integers, Sequences

CONSTANTS
    Task,           \* the task control blocks, the idle task included
    Idle,           \* &idle_task
    NoTask,         \* the null task pointer
    Modulus,        \* 2^32 in the code
    Period,         \* task |-> period given to smart_task_create, 0 = aperiodic
    RelDeadline,    \* task |-> relative_deadline given to smart_task_create
    Delays          \* the arguments tasks give to smart_delay, 0 returns at once

Time == 0 .. Modulus - 1
Inf  == Modulus - 1                       \* 0xFFFFFFFF
States == {"INIT", "READY", "WAITING", "DELAYED"}

ASSUME ModulusAssumption == Modulus \in Nat /\ Modulus > 1
ASSUME TaskAssumption == /\ Idle \in Task
                         /\ NoTask \notin Task
                         /\ Period \in [Task -> Time]
                         /\ RelDeadline \in [Task -> Time]
                         /\ Period[Idle] = 0
ASSUME DelaysAssumption == Delays \subseteq Time \ {0}

VARIABLES
    os_tick,
    task_list,          \* the linked list, head first
    state, arrival, deadline, wakeup_time,      \* fields of every task
    current_task, next_task,
    systick_on,         \* SYSTICK_CTRL has been written
    scheduler_started,
    pendsv,             \* the PENDSVSET bit of the ICSR
    wrapped             \* history: some uint32_t sum has overflowed

fields == <<arrival, deadline, wakeup_time>>
boot   == <<systick_on, scheduler_started>>
vars   == <<os_tick, task_list, state, fields, current_task, next_task, boot,
            pendsv, wrapped>>

(* Mutant of Plus: no wrap-around. *)
PlusUnwrapped(a, b) == a + b

(* uint32_t addition of two times. *)
Plus(a, b) == IF a + b < Modulus THEN a + b ELSE a + b - Modulus
Overflows(a, b) == a + b >= Modulus

OnList(list) == {list[i] : i \in DOMAIN list}
Listed == OnList(task_list)

(***************************************************************************)
(* What the scan of smart_schedule finds.  The comparison with             *)
(* min_deadline = 0xFFFFFFFF is strict, so a READY task whose deadline is  *)
(* 0xFFFFFFFF is never found, and of equal deadlines the first one in the  *)
(* list is.                                                                *)
(***************************************************************************)
Candidates(list, st, dl) ==
    {i \in DOMAIN list : st[list[i]] = "READY" /\ dl[list[i]] < Inf}

IsFirstEarliest(i, list, st, dl) ==
    /\ i \in Candidates(list, st, dl)
    /\ \A j \in Candidates(list, st, dl) :
          \/ dl[list[i]] < dl[list[j]]
          \/ dl[list[i]] = dl[list[j]] /\ i <= j

IsEdfChoice(t, list, st, dl) ==
    \/ \E i \in DOMAIN list : list[i] = t /\ IsFirstEarliest(i, list, st, dl)
    \/ Candidates(list, st, dl) = {} /\ t = Idle

(* Mutant of Schedule: the scan stops at the first READY task. *)
ScheduleFirstReady ==
    \E best \in Task :
        /\ LET ready == Candidates(task_list, state', deadline')
           IN  best = IF ready = {} THEN Idle
                      ELSE task_list[CHOOSE i \in ready : \A j \in ready : i <= j]
        /\ next_task' = best
        /\ pendsv' = (pendsv \/ best # current_task)

(* smart_schedule once the scheduler runs, on the state the caller leaves. *)
Schedule ==
    \E best \in Task :
        /\ IsEdfChoice(best, task_list, state', deadline')
        /\ next_task' = best
        /\ pendsv' = (pendsv \/ best # current_task)

-----------------------------------------------------------------------------
(* smart_os_init: only the idle task exists, READY and in the list. *)
Init ==
    /\ os_tick = 0
    /\ task_list = <<Idle>>
    /\ state = [t \in Task |-> IF t = Idle THEN "READY" ELSE "INIT"]
    /\ arrival = [t \in Task |-> 0]
    /\ deadline = [t \in Task |-> IF t = Idle THEN Inf ELSE 0]
    /\ wakeup_time = [t \in Task |-> 0]
    /\ current_task = NoTask
    /\ next_task = NoTask
    /\ systick_on = FALSE
    /\ scheduler_started = FALSE
    /\ pendsv = FALSE
    /\ wrapped = FALSE

(* smart_task_create, called by main() before smart_os_start. *)
CreateTask(t) ==
    /\ ~systick_on
    /\ state[t] = "INIT"
    /\ arrival' = [arrival EXCEPT ![t] = os_tick]
    /\ wakeup_time' = [wakeup_time EXCEPT ![t] = 0]
    /\ deadline' = [deadline EXCEPT ![t] =
                        IF Period[t] > 0 THEN Plus(os_tick, RelDeadline[t])
                                         ELSE Inf]
    /\ wrapped' = (wrapped \/ (Period[t] > 0 /\ Overflows(os_tick, RelDeadline[t])))
    /\ state' = [state EXCEPT ![t] = "READY"]
    /\ task_list' = <<t>> \o task_list
    /\ UNCHANGED <<os_tick, current_task, next_task, boot, pendsv>>

(* smart_os_start, first half: SysTick is running before the first schedule. *)
EnableSysTick ==
    /\ ~systick_on
    /\ systick_on' = TRUE
    /\ UNCHANGED <<os_tick, task_list, state, fields, current_task, next_task,
                   scheduler_started, pendsv, wrapped>>

(***************************************************************************)
(* smart_os_start, second half: the first smart_schedule records the       *)
(* choice in current_task without a PendSV; start_first_task enters it.    *)
(***************************************************************************)
StartFirstTask ==
    /\ systick_on /\ ~scheduler_started
    /\ \E best \in Task :
          /\ IsEdfChoice(best, task_list, state, deadline)
          /\ next_task' = best
          /\ current_task' = best
    /\ scheduler_started' = TRUE
    /\ UNCHANGED <<os_tick, task_list, state, fields, systick_on, pendsv, wrapped>>

(* Task t executes: it is on the CPU and no exception is about to be taken. *)
Runs(t) == scheduler_started /\ ~pendsv /\ current_task = t

(* Mutant of Yield: the deadline stays that of the finished job. *)
YieldKeepingDeadline(t) ==
    /\ Runs(t)
    /\ IF Period[t] > 0
       THEN /\ state' = [state EXCEPT ![t] = "WAITING"]
            /\ arrival' = [arrival EXCEPT ![t] = Plus(@, Period[t])]
            /\ wrapped' = (wrapped \/ Overflows(arrival[t], Period[t]))
       ELSE state' = [state EXCEPT ![t] = "READY"] /\ UNCHANGED <<arrival, wrapped>>
    /\ UNCHANGED <<deadline, os_tick, task_list, wakeup_time, current_task, boot>>
    /\ Schedule

(* smart_task_yield: a periodic task waits for its next release. *)
Yield(t) ==
    /\ Runs(t)
    /\ IF Period[t] > 0
       THEN /\ state' = [state EXCEPT ![t] = "WAITING"]
            /\ arrival' = [arrival EXCEPT ![t] = Plus(@, Period[t])]
            /\ deadline' = [deadline EXCEPT ![t] = Plus(@, Period[t])]
            /\ wrapped' = (\/ wrapped
                           \/ Overflows(arrival[t], Period[t])
                           \/ Overflows(deadline[t], Period[t]))
       ELSE /\ state' = [state EXCEPT ![t] = "READY"]
            /\ UNCHANGED <<arrival, deadline, wrapped>>
    /\ UNCHANGED <<os_tick, task_list, wakeup_time, current_task, boot>>
    /\ Schedule

(* smart_delay(n) with n > 0. *)
Delay(t, n) ==
    /\ Runs(t)
    /\ wakeup_time' = [wakeup_time EXCEPT ![t] = Plus(os_tick, n)]
    /\ wrapped' = (wrapped \/ Overflows(os_tick, n))
    /\ state' = [state EXCEPT ![t] = "DELAYED"]
    /\ UNCHANGED <<os_tick, task_list, arrival, deadline, current_task, boot>>
    /\ Schedule

(* Mutants of Due: a release one tick early; delays never looked at. *)
DueEarly(now) ==
    {t \in Listed : \/ state[t] = "WAITING" /\ now + 1 >= arrival[t]
                    \/ state[t] = "DELAYED" /\ now >= wakeup_time[t]}
DueReleasesOnly(now) ==
    {t \in Listed : state[t] = "WAITING" /\ now >= arrival[t]}

(* The tasks SysTick_Handler makes READY when the tick becomes `now'. *)
Due(now) ==
    {t \in Listed : \/ state[t] = "WAITING" /\ now >= arrival[t]
                    \/ state[t] = "DELAYED" /\ now >= wakeup_time[t]}

WakeUp(woken) ==
    state' = [t \in Task |-> IF t \in woken THEN "READY" ELSE state[t]]

(* SysTick_Handler, without the memory pools and the software timers. *)
SysTick ==
    /\ systick_on
    /\ os_tick' = Plus(os_tick, 1)
    /\ wrapped' = (wrapped \/ Overflows(os_tick, 1))
    /\ WakeUp(Due(os_tick'))
    /\ UNCHANGED <<task_list, fields, current_task, boot>>
    /\ IF Due(os_tick') # {} THEN Schedule
                             ELSE UNCHANGED <<next_task, pendsv>>

(* PendSV_Handler: switch to whatever next_task is by now. *)
PendSV ==
    /\ pendsv
    /\ current_task' = next_task
    /\ pendsv' = FALSE
    /\ UNCHANGED <<os_tick, task_list, state, fields, next_task, boot, wrapped>>

(* The idle task only executes WFI: it never calls the kernel. *)
TaskStep(t) == Yield(t) \/ \E n \in Delays : Delay(t, n)

Next ==
    \/ \E t \in Task : CreateTask(t)
    \/ EnableSysTick
    \/ StartFirstTask
    \/ \E t \in Task \ {Idle} : TaskStep(t)
    \/ SysTick
    \/ PendSV

Spec == Init /\ [][Next]_vars

(***************************************************************************)
(* The hardware's fairness: the clock ticks, a pending PendSV is taken,    *)
(* and main() reaches smart_os_start and start_first_task.                 *)
(***************************************************************************)
HardwareFairness ==
    /\ WF_vars(SysTick)
    /\ WF_vars(PendSV)
    /\ WF_vars(EnableSysTick)
    /\ WF_vars(StartFirstTask)

(***************************************************************************)
(* Every job is finite: a task that is on the CPU again and again calls    *)
(* smart_task_yield in the end, as the loops of user/main.c do.            *)
(***************************************************************************)
JobsAreFinite == \A t \in Task \ {Idle} : SF_vars(Yield(t))

FairSpec == Spec /\ HardwareFairness /\ JobsAreFinite

-----------------------------------------------------------------------------
TypeOK ==
    /\ os_tick \in Time
    /\ task_list \in Seq(Task)
    /\ state \in [Task -> States]
    /\ arrival \in [Task -> Time]
    /\ deadline \in [Task -> Time]
    /\ wakeup_time \in [Task -> Time]
    /\ current_task \in Task \cup {NoTask}
    /\ next_task \in Task \cup {NoTask}
    /\ systick_on \in BOOLEAN
    /\ scheduler_started \in BOOLEAN
    /\ pendsv \in BOOLEAN
    /\ wrapped \in BOOLEAN

(***************************************************************************)
(* EDF (DESIGN.md, "choose the task with the smallest absolute deadline"): *)
(* whenever no context switch is outstanding, the task on the CPU is the   *)
(* READY task of the list with the earliest deadline, and idle runs only   *)
(* when there is none, whatever ticks and switches came in between.        *)
(***************************************************************************)
EdfDispatch ==
    scheduler_started /\ ~pendsv =>
        IsEdfChoice(current_task, task_list, state, deadline)

(***************************************************************************)
(* No periodic job starts before its release, and a task that delays       *)
(* itself stays off the CPU until its wakeup tick, as long as no uint32_t  *)
(* time has overflowed; a task is never more than one period ahead.        *)
(***************************************************************************)
ReleasesOnTime ==
    ~wrapped =>
        \A t \in Listed :
            /\ state[t] = "READY" => arrival[t] <= os_tick
            /\ state[t] = "DELAYED" => wakeup_time[t] > os_tick
            /\ arrival[t] <= os_tick + Period[t]

(***************************************************************************)
(* The deadline the scheduler compares is the one of the job: however      *)
(* often releases, preemptions and late yields have moved it, it lies the  *)
(* relative deadline after the release of the job it belongs to.           *)
(***************************************************************************)
DeadlineOfRelease ==
    \A t \in Listed :
        Period[t] > 0 => deadline[t] = Plus(arrival[t], RelDeadline[t])

(***************************************************************************)
(* Preemption: a task that can still run loses the CPU only to a task      *)
(* whose deadline is no later, also when a SysTick changes the scheduler's *)
(* choice between the request for the switch and PendSV.                   *)
(***************************************************************************)
PreemptedByEarlier ==
    [][ (current_task' # current_task /\ current_task # NoTask)
          => \/ state[current_task] # "READY"
             \/ deadline[current_task'] <= deadline[current_task] ]_vars

(* A task that waits for its release or for a delay becomes READY again,   *)
(* also when the 32-bit tick counter wraps around while it sleeps.         *)
SleepersWake ==
    \A t \in Task : state[t] \in {"WAITING", "DELAYED"} ~> state[t] = "READY"

=============================================================================

--------------------------- MODULE SmartCore_proofs ---------------------------
(* Theorems about SmartCore, for every task set and every clock width. *)
EXTENDS SmartCore, TLAPS

(***************************************************************************)
(* The inductive invariant.  Before the start nothing sleeps and nobody is *)
(* on the CPU; after it next_task is the EDF choice on the present state,  *)
(* and a CPU without an outstanding PendSV already runs next_task.         *)
(***************************************************************************)
BootInv ==
    /\ scheduler_started => systick_on
    /\ ~scheduler_started =>
          /\ ~pendsv
          /\ current_task = NoTask
          /\ \A t \in Task : state[t] \in {"INIT", "READY"}

ListInv ==
    /\ Idle \in Listed
    /\ scheduler_started => current_task \in Listed /\ next_task \in Listed

ChoiceInv ==
    scheduler_started =>
        /\ IsEdfChoice(next_task, task_list, state, deadline)
        /\ ~pendsv => current_task = next_task

(* ReleasesOnTime, strengthened: a task that delays itself has been released. *)
ReleaseInv ==
    ~wrapped =>
        \A t \in Listed :
            /\ state[t] \in {"READY", "DELAYED"} => arrival[t] <= os_tick
            /\ state[t] = "DELAYED" => wakeup_time[t] > os_tick
            /\ arrival[t] <= os_tick + Period[t]

SchedInv == BootInv /\ ListInv /\ ChoiceInv

-----------------------------------------------------------------------------
(* uint32_t sums stay uint32_t. *)
LEMMA PlusType == \A x, y \in Time : Plus(x, y) \in Time
BY ModulusAssumption DEF Plus, Time

(* Pushing a task at the head adds it to the tasks the scans reach. *)
LEMMA PushListed ==
    ASSUME NEW list \in Seq(Task), NEW t \in Task
    PROVE  /\ <<t>> \o list \in Seq(Task)
           /\ OnList(<<t>> \o list) = OnList(list) \cup {t}
<1> DEFINE new == <<t>> \o list
<1>1. new \in Seq(Task) /\ Len(new) = Len(list) + 1
  OBVIOUS
<1>2. DOMAIN new = 1 .. Len(list) + 1 /\ DOMAIN list = 1 .. Len(list)
  BY <1>1
<1>3. new[1] = t /\ \A i \in 1 .. Len(list) : new[i + 1] = list[i]
  BY <1>1
<1>4. ASSUME NEW x \in OnList(list) \cup {t} PROVE x \in OnList(new)
  <2>1. CASE x = t
    <3>1. 1 \in DOMAIN new
      BY <1>2
    <3> QED BY <3>1, <1>3, <2>1 DEF OnList
  <2>2. CASE x \in OnList(list)
    <3>1. PICK i \in DOMAIN list : x = list[i]
      BY <2>2 DEF OnList
    <3>2. i + 1 \in DOMAIN new /\ new[i + 1] = x
      BY <3>1, <1>2, <1>3
    <3> QED BY <3>2 DEF OnList
  <2> QED BY <1>4, <2>1, <2>2
<1>5. ASSUME NEW x \in OnList(new) PROVE x \in OnList(list) \cup {t}
  <2>1. PICK i \in DOMAIN new : x = new[i]
    BY <1>5 DEF OnList
  <2>2. CASE i = 1
    BY <2>1, <2>2, <1>3
  <2>3. CASE i # 1
    <3>1. i - 1 \in DOMAIN list /\ new[(i - 1) + 1] = list[i - 1] /\ (i - 1) + 1 = i
      BY <2>1, <2>3, <1>2, <1>3
    <3> QED BY <3>1, <2>1 DEF OnList
  <2> QED BY <2>2, <2>3
<1>6. OnList(new) = OnList(list) \cup {t}
  BY <1>4, <1>5
<1> QED BY <1>1, <1>6

(* The EDF choice is a task of the list when idle is. *)
LEMMA ChoiceListed ==
    ASSUME TypeOK, Idle \in Listed, NEW best \in Task,
           NEW st, NEW dl, IsEdfChoice(best, task_list, st, dl)
    PROVE  best \in Listed
BY DEF IsEdfChoice, Listed, OnList

(* Every variable keeps its type. *)
THEOREM TypeCorrect == Spec => []TypeOK
<1>1. Init => TypeOK
  <2> SUFFICES ASSUME Init PROVE TypeOK
    OBVIOUS
  <2>1. 0 \in Time /\ Inf \in Time
    BY ModulusAssumption DEF Time, Inf
  <2>2. <<Idle>> \in Seq(Task)
    BY TaskAssumption
  <2> QED BY <2>1, <2>2, TaskAssumption DEF Init, TypeOK, States
<1>2. TypeOK /\ [Next]_vars => TypeOK'
  <2> SUFFICES ASSUME TypeOK, [Next]_vars PROVE TypeOK'
    OBVIOUS
  <2> USE DEF TypeOK, States
  <2>0. 1 \in Time /\ Inf \in Time
    BY ModulusAssumption DEF Time, Inf
  <2>1. ASSUME NEW t \in Task, CreateTask(t) PROVE TypeOK'
    <3>1. Plus(os_tick, RelDeadline[t]) \in Time /\ 0 \in Time
      BY PlusType, TaskAssumption, ModulusAssumption DEF Time
    <3>2. task_list' \in Seq(Task)
      BY <2>1, PushListed DEF CreateTask
    <3> QED BY <2>0, <2>1, <3>1, <3>2 DEF CreateTask, boot
  <2>2. CASE EnableSysTick
    BY <2>2 DEF EnableSysTick, fields
  <2>3. CASE StartFirstTask
    BY <2>3 DEF StartFirstTask, fields
  <2>4. ASSUME NEW t \in Task, Yield(t) PROVE TypeOK'
    <3>1. Plus(arrival[t], Period[t]) \in Time /\ Plus(deadline[t], Period[t]) \in Time
      BY PlusType, TaskAssumption
    <3>2. next_task' \in Task /\ pendsv' \in BOOLEAN
      BY <2>4 DEF Yield, Schedule
    <3> QED BY <2>4, <3>1, <3>2 DEF Yield, boot
  <2>5. ASSUME NEW t \in Task, NEW n \in Delays, Delay(t, n) PROVE TypeOK'
    <3>1. Plus(os_tick, n) \in Time
      BY PlusType, DelaysAssumption
    <3>2. next_task' \in Task /\ pendsv' \in BOOLEAN
      BY <2>5 DEF Delay, Schedule
    <3> QED BY <2>5, <3>1, <3>2 DEF Delay, boot
  <2>6. CASE SysTick
    <3>1. Plus(os_tick, 1) \in Time
      BY PlusType, <2>0
    <3>2. next_task' \in Task \cup {NoTask} /\ pendsv' \in BOOLEAN
      BY <2>6 DEF SysTick, Schedule
    <3>3. state' \in [Task -> States]
      BY <2>6 DEF SysTick, WakeUp
    <3> QED BY <2>6, <3>1, <3>2, <3>3 DEF SysTick, fields, boot
  <2>7. CASE PendSV
    BY <2>7 DEF PendSV, fields, boot
  <2>8. CASE UNCHANGED vars
    BY <2>8 DEF vars, fields, boot
  <2> QED BY <2>1, <2>2, <2>3, <2>4, <2>5, <2>6, <2>7, <2>8 DEF Next, TaskStep
<1> QED BY <1>1, <1>2, PTL DEF Spec

-----------------------------------------------------------------------------
(* smart_schedule leaves a choice that PendSV will install. *)
LEMMA ScheduleChooses ==
    ASSUME TypeOK, SchedInv, scheduler_started, Schedule,
           UNCHANGED <<task_list, current_task, boot>>
    PROVE  SchedInv'
<1>1. PICK best \in Task : /\ IsEdfChoice(best, task_list, state', deadline')
                           /\ next_task' = best
                           /\ pendsv' = (pendsv \/ best # current_task)
  BY DEF Schedule
<1>2. best \in Listed
  BY <1>1, ChoiceListed DEF SchedInv, ListInv
<1>3. Listed' = Listed
  BY DEF Listed
<1>4. BootInv'
  BY DEF SchedInv, BootInv, boot
<1>5. ListInv'
  BY <1>1, <1>2, <1>3 DEF SchedInv, ListInv, boot
<1>6. ~pendsv' => current_task' = next_task'
  BY <1>1
<1>7. ChoiceInv'
  BY <1>1, <1>6 DEF ChoiceInv
<1> QED BY <1>4, <1>5, <1>7 DEF SchedInv

LEMMA SchedInvInductive == TypeOK /\ SchedInv /\ [Next]_vars => SchedInv'
<1> SUFFICES ASSUME TypeOK, SchedInv, [Next]_vars PROVE SchedInv'
  OBVIOUS
<1> USE DEF SchedInv
<1>1. ASSUME NEW t \in Task, CreateTask(t) PROVE SchedInv'
  <2>1. ~scheduler_started /\ ~scheduler_started'
    BY <1>1 DEF CreateTask, BootInv, boot
  <2>2. BootInv'
    BY <1>1, <2>1 DEF CreateTask, BootInv, TypeOK, boot
  <2>3. Listed' = Listed \cup {t}
    BY <1>1, PushListed DEF CreateTask, Listed, TypeOK
  <2> QED BY <2>1, <2>2, <2>3 DEF ListInv, ChoiceInv
<1>2. CASE EnableSysTick
  BY <1>2 DEF EnableSysTick, BootInv, ListInv, ChoiceInv, Listed, fields
<1>3. CASE StartFirstTask
  <2>1. PICK best \in Task : /\ IsEdfChoice(best, task_list, state, deadline)
                             /\ next_task' = best /\ current_task' = best
    BY <1>3 DEF StartFirstTask
  <2>2. best \in Listed
    BY <2>1, ChoiceListed DEF ListInv
  <2>3. UNCHANGED <<task_list, state, deadline>> /\ Listed' = Listed /\ systick_on'
    BY <1>3 DEF StartFirstTask, fields, Listed
  <2> QED BY <1>3, <2>1, <2>2, <2>3 DEF StartFirstTask, BootInv, ListInv, ChoiceInv
<1>4. ASSUME NEW t \in Task, Yield(t) PROVE SchedInv'
  BY <1>4, ScheduleChooses DEF Yield, Runs
<1>5. ASSUME NEW t \in Task, NEW n \in Delays, Delay(t, n) PROVE SchedInv'
  BY <1>5, ScheduleChooses DEF Delay, Runs
<1>6. CASE SysTick
  <2>1. CASE Due(os_tick') # {}
    <3>1. scheduler_started
      BY <2>1 DEF Due, BootInv, Listed, OnList, TypeOK
    <3> QED BY <1>6, <2>1, <3>1, ScheduleChooses DEF SysTick
  <2>2. CASE Due(os_tick') = {}
    <3>1. state' = state
      BY <1>6, <2>2 DEF SysTick, WakeUp, TypeOK
    <3>2. UNCHANGED <<task_list, state, deadline, current_task, next_task, boot, pendsv>>
      BY <1>6, <2>2, <3>1 DEF SysTick, fields
    <3> QED BY <3>2 DEF BootInv, ListInv, ChoiceInv, Listed, boot
  <2> QED BY <2>1, <2>2
<1>7. CASE PendSV
  <2>1. scheduler_started
    BY <1>7 DEF PendSV, BootInv
  <2> QED BY <1>7, <2>1 DEF PendSV, BootInv, ListInv, ChoiceInv, Listed, fields, boot
<1>8. CASE UNCHANGED vars
  BY <1>8 DEF vars, fields, boot, BootInv, ListInv, ChoiceInv, Listed
<1> QED BY <1>1, <1>2, <1>3, <1>4, <1>5, <1>6, <1>7, <1>8 DEF Next, TaskStep

LEMMA InitSchedInv == Init => SchedInv
<1> SUFFICES ASSUME Init PROVE SchedInv
  OBVIOUS
<1>1. Listed = {Idle}
  BY TaskAssumption DEF Init, Listed, OnList
<1> QED BY <1>1 DEF Init, SchedInv, BootInv, ListInv, ChoiceInv

LEMMA SchedInvariant == Spec => []SchedInv
<1>1. Init => SchedInv
  BY InitSchedInv
<1>2. TypeOK /\ SchedInv /\ [Next]_vars => SchedInv'
  BY SchedInvInductive
<1> QED BY <1>1, <1>2, TypeCorrect, PTL DEF Spec

(***************************************************************************)
(* The scheduler is EDF: with no switch outstanding, the task on the CPU   *)
(* is the READY task of the earliest deadline (smart_schedule, SysTick and *)
(* PendSV together).                                                       *)
(***************************************************************************)
THEOREM EdfCorrect == Spec => []EdfDispatch
<1>1. SchedInv => EdfDispatch
  BY DEF SchedInv, ChoiceInv, EdfDispatch
<1> QED BY <1>1, SchedInvariant, PTL

(***************************************************************************)
(* The CPU is taken from a task that can still run only for a deadline     *)
(* that is no later.                                                       *)
(***************************************************************************)
THEOREM PreemptionCorrect == Spec => PreemptedByEarlier
<1> DEFINE Fair == (current_task' # current_task /\ current_task # NoTask)
                     => \/ state[current_task] # "READY"
                        \/ deadline[current_task'] <= deadline[current_task]
<1>1. TypeOK /\ SchedInv /\ [Next]_vars => [Fair]_vars
  <2> SUFFICES ASSUME TypeOK, SchedInv, Next, current_task' # current_task,
                      current_task # NoTask, state[current_task] = "READY"
               PROVE  deadline[current_task'] <= deadline[current_task]
    OBVIOUS
  <2>1. scheduler_started
    BY DEF SchedInv, BootInv
  <2>2. PendSV
    BY <2>1 DEF Next, CreateTask, EnableSysTick, StartFirstTask, TaskStep, Yield,
                Delay, SysTick
  <2>3. current_task' = next_task /\ IsEdfChoice(next_task, task_list, state, deadline)
    BY <2>1, <2>2 DEF PendSV, SchedInv, ChoiceInv
  <2>4. PICK j \in DOMAIN task_list : current_task = task_list[j]
    BY <2>1 DEF SchedInv, ListInv, Listed, OnList
  <2>5. next_task \in Task /\ deadline[next_task] \in Time
    BY <2>1, ModulusAssumption DEF TypeOK, SchedInv, ListInv, Listed, OnList
  <2>6. task_list[j] \in Task /\ deadline[task_list[j]] \in Time
    BY <2>4 DEF TypeOK
  <2>7. CASE j \in Candidates(task_list, state, deadline)
    <3>1. PICK i \in DOMAIN task_list :
             /\ task_list[i] = next_task
             /\ IsFirstEarliest(i, task_list, state, deadline)
      BY <2>3, <2>7 DEF IsEdfChoice
    <3>2. deadline[next_task] <= deadline[task_list[j]]
      BY <3>1, <2>7, <2>5, <2>6 DEF IsFirstEarliest, Time
    <3> QED BY <3>2, <2>3, <2>4
  <2>8. CASE j \notin Candidates(task_list, state, deadline)
    <3>1. ~(deadline[current_task] < Inf)
      BY <2>4, <2>8 DEF Candidates
    <3> QED BY <3>1, <2>3, <2>4, <2>5, <2>6, ModulusAssumption DEF Time, Inf
  <2> QED BY <2>7, <2>8
<1> QED BY <1>1, TypeCorrect, SchedInvariant, PTL DEF Spec, PreemptedByEarlier

-----------------------------------------------------------------------------
(* The task on the CPU, unless it is idle, is READY. *)
LEMMA RunningIsReady ==
    ASSUME TypeOK, SchedInv, NEW t \in Task \ {Idle}, Runs(t)
    PROVE  state[t] = "READY"
BY DEF SchedInv, ChoiceInv, Runs, IsEdfChoice, IsFirstEarliest, Candidates

(* A uint32_t sum that does not overflow is the sum. *)
LEMMA PlusIsSum ==
    \A x, y \in Time : ~Overflows(x, y) => Plus(x, y) = x + y
BY ModulusAssumption DEF Plus, Overflows, Time

LEMMA ReleaseInvInductive ==
    TypeOK /\ SchedInv /\ ReleaseInv /\ [Next]_vars => ReleaseInv'
<1> SUFFICES ASSUME TypeOK, SchedInv, ReleaseInv, [Next]_vars, ~wrapped',
                    NEW t \in Listed'
             PROVE  /\ state'[t] \in {"READY", "DELAYED"} => arrival'[t] <= os_tick'
                    /\ state'[t] = "DELAYED" => wakeup_time'[t] > os_tick'
                    /\ arrival'[t] <= os_tick' + Period[t]
  BY DEF ReleaseInv
<1> DEFINE OnTime == /\ state'[t] \in {"READY", "DELAYED"} => arrival'[t] <= os_tick'
                     /\ state'[t] = "DELAYED" => wakeup_time'[t] > os_tick'
                     /\ arrival'[t] <= os_tick' + Period[t]
<1>0. \A u \in Listed : u \in Task
  BY DEF Listed, OnList, TypeOK
<1> USE ModulusAssumption, TaskAssumption DEF TypeOK, Time
<1>1. ASSUME NEW u \in Task, CreateTask(u) PROVE OnTime
  <2>1. Listed' = Listed \cup {u} /\ ~wrapped
    BY <1>1, PushListed DEF CreateTask, Listed
  <2>2. CASE t = u
    BY <1>1, <2>2 DEF CreateTask
  <2>3. CASE t # u
    BY <1>0, <1>1, <2>1, <2>3 DEF CreateTask, ReleaseInv
  <2> QED BY <2>2, <2>3
<1>2. ASSUME EnableSysTick \/ StartFirstTask \/ PendSV \/ UNCHANGED vars PROVE OnTime
  BY SMTT(60), <1>2 DEF EnableSysTick, StartFirstTask, PendSV, vars, fields, ReleaseInv, Listed
<1>3. ASSUME NEW u \in Task \ {Idle}, Yield(u) PROVE OnTime
  <2>1. state[u] = "READY"
    BY <1>3, RunningIsReady DEF Yield
  <2>2. t \in Listed /\ t \in Task /\ ~wrapped
    BY <1>0, <1>3 DEF Yield, Listed
  <2>3. CASE t = u /\ Period[u] > 0
    <3>1. arrival'[u] = arrival[u] + Period[u] /\ arrival[u] <= os_tick
      BY SMTT(60), <1>3, <2>1, <2>2, <2>3 DEF Yield, Plus, Overflows, ReleaseInv
    <3> QED BY <1>3, <2>3, <3>1 DEF Yield
  <2>4. CASE ~(t = u /\ Period[u] > 0)
    BY <1>3, <2>1, <2>2, <2>4 DEF Yield, ReleaseInv
  <2> QED BY <2>3, <2>4
<1>4. ASSUME NEW u \in Task \ {Idle}, NEW n \in Delays, Delay(u, n) PROVE OnTime
  <2>1. state[u] = "READY"
    BY <1>4, RunningIsReady DEF Delay
  <2>2. t \in Listed /\ t \in Task /\ ~wrapped
    BY <1>0, <1>4 DEF Delay, Listed
  <2>3. n \in Nat /\ n > 0
    BY DelaysAssumption
  <2>4. CASE t = u
    <3>1. wakeup_time'[u] = os_tick + n
      <4>1. ~Overflows(os_tick, n)
        BY <1>4 DEF Delay
      <4>2. Plus(os_tick, n) = os_tick + n
        BY <4>1, DelaysAssumption, PlusIsSum
      <4> QED BY <1>4, <4>2 DEF Delay
    <3> QED BY <1>4, <2>1, <2>2, <2>3, <2>4, <3>1 DEF Delay, ReleaseInv
  <2>5. CASE t # u
    BY <1>4, <2>2, <2>5 DEF Delay, ReleaseInv
  <2> QED BY <2>4, <2>5
<1>5. CASE SysTick
  <2>1. t \in Listed /\ t \in Task /\ ~wrapped
    BY <1>0, <1>5 DEF SysTick, Listed
  <2>2. os_tick' = os_tick + 1
    <3>1. ~Overflows(os_tick, 1)
      BY <1>5 DEF SysTick
    <3>2. Plus(os_tick, 1) = os_tick + 1
      BY <3>1, PlusIsSum
    <3> QED BY <1>5, <3>2 DEF SysTick
  <2>3. UNCHANGED <<arrival, wakeup_time>>
    BY <1>5 DEF SysTick, fields
  <2>4. state' = [u \in Task |-> IF u \in Due(os_tick') THEN "READY" ELSE state[u]]
    BY <1>5 DEF SysTick, WakeUp
  <2>5. /\ state[t] \in {"READY", "DELAYED"} => arrival[t] <= os_tick
        /\ arrival[t] <= os_tick + Period[t]
        /\ arrival[t] \in Nat /\ wakeup_time[t] \in Nat /\ Period[t] \in Nat
    BY <2>1 DEF ReleaseInv
  <2>6. CASE t \in Due(os_tick')
    <3>1. \/ state[t] = "WAITING" /\ os_tick' >= arrival[t]
          \/ state[t] = "DELAYED"
      BY <2>6 DEF Due
    <3>2. state'[t] = "READY"
      BY <2>1, <2>4, <2>6
    <3>3. os_tick' \in Nat /\ arrival[t] <= os_tick'
      BY <2>2, <2>5, <3>1
    <3> QED BY SMTT(60), <2>2, <2>3, <2>5, <3>2, <3>3
  <2>7. CASE t \notin Due(os_tick')
    <3>1. state[t] = "DELAYED" => wakeup_time[t] > os_tick'
      BY <2>1, <2>2, <2>5, <2>7 DEF Due
    <3>2. state'[t] = state[t]
      BY <2>1, <2>4, <2>7
    <3> QED BY <2>2, <2>3, <2>5, <3>1, <3>2
  <2> QED BY <2>6, <2>7
<1> QED BY <1>1, <1>2, <1>3, <1>4, <1>5 DEF Next, TaskStep

(***************************************************************************)
(* Before the first overflow of a 32-bit time, no job starts before its    *)
(* release and no delay ends before its wakeup tick.                       *)
(***************************************************************************)
THEOREM ReleaseCorrect == Spec => []ReleasesOnTime
<1>1. Init => ReleaseInv
  <2> SUFFICES ASSUME Init PROVE ReleaseInv
    OBVIOUS
  <2>1. Listed = {Idle} /\ Idle \in Task /\ Period[Idle] = 0
    BY TaskAssumption DEF Init, Listed, OnList
  <2>2. arrival[Idle] = 0 /\ os_tick = 0 /\ state[Idle] = "READY"
    BY <2>1 DEF Init
  <2> QED BY <2>1, <2>2 DEF ReleaseInv
<1>2. ReleaseInv => ReleasesOnTime
  BY DEF ReleaseInv, ReleasesOnTime
<1> QED BY <1>1, <1>2, ReleaseInvInductive, TypeCorrect, SchedInvariant, PTL DEF Spec

(* Adding to a uint32_t time commutes with adding to another. *)
LEMMA PlusCommutes ==
    \A x, y, z \in Time : Plus(Plus(x, y), z) = Plus(Plus(x, z), y)
BY ModulusAssumption DEF Plus, Time

(***************************************************************************)
(* The deadline that EDF compares is always the release of the same job    *)
(* plus the relative deadline, modulo 2^32.                                *)
(***************************************************************************)
THEOREM DeadlineCorrect == Spec => []DeadlineOfRelease
<1>1. Init => DeadlineOfRelease
  <2> SUFFICES ASSUME Init PROVE DeadlineOfRelease
    OBVIOUS
  <2>1. Listed = {Idle} /\ Period[Idle] = 0
    BY TaskAssumption DEF Init, Listed, OnList
  <2> QED BY <2>1 DEF DeadlineOfRelease
<1>2. TypeOK /\ DeadlineOfRelease /\ [Next]_vars => DeadlineOfRelease'
  <2> SUFFICES ASSUME TypeOK, DeadlineOfRelease, [Next]_vars,
                      NEW t \in Listed', Period[t] > 0
               PROVE  deadline'[t] = Plus(arrival'[t], RelDeadline[t])
    BY DEF DeadlineOfRelease
  <2>0. \A u \in Listed : u \in Task
    BY DEF Listed, OnList, TypeOK
  <2> USE TaskAssumption DEF TypeOK
  <2>1. ASSUME NEW u \in Task, CreateTask(u)
        PROVE  deadline'[t] = Plus(arrival'[t], RelDeadline[t])
    <3>1. Listed' = Listed \cup {u}
      BY <2>1, PushListed DEF CreateTask, Listed
    <3> QED BY <2>0, <2>1, <3>1 DEF CreateTask, DeadlineOfRelease
  <2>2. ASSUME NEW u \in Task, Yield(u)
        PROVE  deadline'[t] = Plus(arrival'[t], RelDeadline[t])
    <3>1. t \in Listed /\ t \in Task
      BY <2>0, <2>2 DEF Yield, Listed
    <3>2. CASE t = u
      <4>1. deadline'[t] = Plus(Plus(arrival[t], RelDeadline[t]), Period[t])
        BY <2>2, <3>1, <3>2 DEF Yield, DeadlineOfRelease
      <4>2. arrival'[t] = Plus(arrival[t], Period[t])
        BY <2>2, <3>1, <3>2 DEF Yield
      <4> QED BY <3>1, <4>1, <4>2, PlusCommutes
    <3>3. CASE t # u
      BY <2>2, <3>1, <3>3 DEF Yield, DeadlineOfRelease
    <3> QED BY <3>2, <3>3
  <2>3. CASE UNCHANGED <<task_list, arrival, deadline>>
    BY <2>3 DEF DeadlineOfRelease, Listed
  <2> QED BY <2>1, <2>2, <2>3 DEF Next, TaskStep, EnableSysTick, StartFirstTask,
                                  Delay, SysTick, PendSV, fields, vars
<1> QED BY <1>1, <1>2, TypeCorrect, PTL DEF Spec
=============================================================================

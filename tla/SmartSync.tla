------------------------------ MODULE SmartSync ------------------------------
(***************************************************************************)
(* A semaphore and a mutex (core/smart_sync.c) on top of the scheduler     *)
(* (core/smart_core.c) once it runs.  The task list and both wait queues   *)
(* are threaded through the same field, task->next, so all three are kept  *)
(* as the links they are.                                                  *)
(*                                                                         *)
(* pc says where a task is inside a call when it is not between two calls: *)
(* a blocking call leaves its critical section before it calls             *)
(* smart_task_yield, and sem_post and mutex_unlock call smart_schedule     *)
(* outside any critical section, so SysTick and PendSV can come in before, *)
(* and between the scan and the assignment of next_task.                   *)
(*                                                                         *)
(* The timed calls are loops of the non-blocking call and of               *)
(* smart_task_yield and change nothing else.  All tasks but idle are       *)
(* periodic.  Tasks post the units they took and unlock what they locked,  *)
(* as the commands of core/smart_shell.c do.                               *)
(***************************************************************************)
EXTENDS Integers, FiniteSets

CONSTANTS
    Task, Idle, NoTask,
    Modulus,            \* 2^32 in the code
    Period, RelDeadline,
    MaxCount,           \* initial and maximal count of the semaphore
    Program             \* what main() may have built: the head of the list, task->next,
                        \* and the units and nested locks a task asks for at most

Time == 0 .. Modulus - 1
Inf  == Modulus - 1                       \* 0xFFFFFFFF
Worker == Task \ {Idle}
Pointer == Task \cup {NoTask}

ASSUME ModulusAssumption == Modulus \in Nat /\ Modulus > 1
ASSUME TaskAssumption == IsFiniteSet(Task) /\ Idle \in Task /\ NoTask \notin Task
ASSUME PeriodAssumption == /\ Period \in [Task -> Time] /\ RelDeadline \in [Task -> Time]
                           /\ \A t \in Worker : Period[t] > 0
ASSUME ProgramAssumption ==
    /\ MaxCount \in Nat \ {0}
    /\ Program \subseteq [head : Task, link : [Task -> Pointer], units : Nat, depth : Nat]
    \* every task was created in front of the list: the links end
    /\ \A p \in Program, S \in (SUBSET Task) \ {{}} : \E t \in S : p.link[t] \notin S

VARIABLES
    os_tick, state, arrival, deadline,
    next,                       \* task->next, shared by every list
    task_list, current_task, next_task, pendsv,
    count, sem_wait_list,       \* the semaphore
    owner, lock_count, original_deadline, mutex_wait_list,  \* owner # NoTask iff locked
    pc, waits_for,              \* inside which call, blocked on what
    best,                       \* the local of smart_schedule
    program,                    \* what main() has built: the tasks it created and, as
                                \* bounds, the units and nested locks each asks for
    units, locks,               \* history: what the calls of a task have granted it
    woken, spurious             \* history: granted in the queue; returned without

sched   == <<program, os_tick, arrival, task_list, current_task, next_task, pendsv>>
sem     == <<count, sem_wait_list>>
mutex   == <<owner, lock_count, original_deadline, mutex_wait_list>>
granted == <<units, locks, woken, spurious>>
vars    == <<sched, state, deadline, next, sem, mutex, pc, waits_for, best, granted>>

(* Mutant of Plus: no wrap-around. *)
PlusUnwrapped(a, b) == a + b

Plus(a, b) == IF a + b < Modulus THEN a + b ELSE a + b - Modulus

(* The tasks met by following the links from head; at[n] is the n-th. *)
Walk(head, link) ==
    LET at[n \in 0 .. Cardinality(Task)] ==
            IF n = 0 THEN head
            ELSE LET t == at[n - 1] IN IF t = NoTask THEN NoTask ELSE link[t]
    IN  at

Met(head, link) ==
    LET at == Walk(head, link) IN {at[n] : n \in DOMAIN at} \ {NoTask}

Last(head) == CHOOSE t \in Met(head, next) : next[t] = NoTask

(* Of the tasks S on the walk at, the first one with the earliest deadline. *)
FirstEarliest(at, S, dl) ==
    LET here == {n \in DOMAIN at : at[n] \in S}
    IN  at[CHOOSE i \in here :
              \A j \in here : \/ dl[at[i]] < dl[at[j]]
                              \/ dl[at[i]] = dl[at[j]] /\ i <= j]

Eligible(tasks, st, dl) == {t \in tasks : st[t] = "READY" /\ dl[t] < Inf}

(* The scan of smart_schedule. *)
Scan(link, st, dl) ==
    LET ready == Eligible(Met(task_list, link), st, dl)
    IN  IF ready = {} THEN Idle
        ELSE FirstEarliest(Walk(task_list, link), ready, dl)

(* smart_schedule makes its choice t and requests the switch. *)
Choose(t) ==
    /\ next_task' = t
    /\ pendsv' = (pendsv \/ t # current_task)

Init ==
    /\ os_tick = 0
    /\ state = [t \in Task |-> "READY"]
    /\ arrival = [t \in Task |-> 0]
    /\ deadline = [t \in Task |-> IF t = Idle THEN Inf ELSE RelDeadline[t]]
    /\ \E p \in Program : /\ next = p.link
                          /\ task_list = p.head
                          /\ program = [tasks |-> Met(p.head, p.link),
                                        units |-> p.units, depth |-> p.depth]
    /\ current_task = Scan(next, state, deadline)
    /\ next_task = current_task
    /\ pendsv = FALSE
    /\ count = MaxCount /\ sem_wait_list = NoTask
    /\ owner = NoTask /\ lock_count = 0 /\ original_deadline = 0
    /\ mutex_wait_list = NoTask
    /\ pc = [t \in Task |-> "run"]
    /\ waits_for = [t \in Task |-> "none"]
    /\ best = [t \in Task |-> NoTask]
    /\ units = [t \in Task |-> 0] /\ locks = [t \in Task |-> 0]
    /\ woken = {} /\ spurious = FALSE

(* t is on the CPU, no exception is about to be taken, t is at point p. *)
At(t, p) == current_task = t /\ ~pendsv /\ pc[t] = p
Goto(t, p) == pc' = [pc EXCEPT ![t] = p]

-----------------------------------------------------------------------------
(* SysTick_Handler wakes the WAITING tasks it meets on the list. *)
SysTick ==
    LET now == Plus(os_tick, 1)
        due == {t \in Met(task_list, next) : state[t] = "WAITING" /\ now >= arrival[t]}
    IN  /\ os_tick' = now
        /\ state' = [t \in Task |-> IF t \in due THEN "READY" ELSE state[t]]
        /\ IF due # {} THEN Choose(Scan(next, state', deadline))
                       ELSE UNCHANGED <<next_task, pendsv>>
        /\ UNCHANGED <<program, arrival, task_list, current_task, deadline, next, sem, mutex,
                       pc, waits_for, best, granted>>

PendSV ==
    /\ pendsv
    /\ current_task' = next_task
    /\ pendsv' = FALSE
    /\ UNCHANGED <<program, os_tick, arrival, task_list, next_task, state, deadline, next, sem,
                   mutex, pc, waits_for, best, granted>>

(* The body of smart_task_yield for a periodic task. *)
YieldBody(t) ==
    /\ state' = [state EXCEPT ![t] = "WAITING"]
    /\ arrival' = [arrival EXCEPT ![t] = Plus(@, Period[t])]
    /\ deadline' = [deadline EXCEPT ![t] = Plus(@, Period[t])]
    /\ Choose(Scan(next, state', deadline'))
    /\ UNCHANGED <<program, os_tick, task_list, current_task, next, sem, mutex, best, granted>>

(* A task that has finished its job. *)
Yield(t) == At(t, "run") /\ YieldBody(t) /\ UNCHANGED <<pc, waits_for>>

(* The end of a blocking call: yield, although the task may be READY by now. *)
YieldQueued(t) ==
    At(t, "queued") /\ YieldBody(t) /\ Goto(t, "blocked") /\ UNCHANGED waits_for

(***************************************************************************)
(* The blocking call returns OK as soon as its task is on the CPU again.   *)
(* Nothing is looked at: who made the task READY is history.               *)
(***************************************************************************)
Return(t) ==
    /\ At(t, "blocked")
    /\ Goto(t, "run")
    /\ waits_for' = [waits_for EXCEPT ![t] = "none"]
    /\ units' = [units EXCEPT ![t] = IF waits_for[t] = "sem" THEN @ + 1 ELSE @]
    /\ locks' = [locks EXCEPT ![t] = IF waits_for[t] = "mutex" THEN @ + 1 ELSE @]
    /\ spurious' = (spurious \/ t \notin woken)
    /\ woken' = woken \ {t}
    /\ UNCHANGED <<sched, state, deadline, next, sem, mutex, best>>

(* Mutant of LinkLast: the link of t itself stays. *)
LinkLastUnterminated(t, head) ==
    next' = [s \in Task |-> IF head # NoTask /\ s = Last(head) THEN t ELSE next[s]]

(* Append t to the queue that starts at head: its own link becomes null. *)
LinkLast(t, head) ==
    next' = [s \in Task |-> IF s = t THEN NoTask
                            ELSE IF head # NoTask /\ s = Last(head) THEN t
                            ELSE next[s]]

(* The task is put to sleep in a queue and leaves the critical section. *)
Block(t, what) ==
    /\ state' = [state EXCEPT ![t] = "WAITING"]
    /\ Goto(t, "queued")
    /\ waits_for' = [waits_for EXCEPT ![t] = what]
    /\ UNCHANGED <<sched, best, granted>>

(* smart_schedule outside a critical section: the scan, then the decision. *)
ScanOutside(t) ==
    /\ At(t, "scan")
    /\ best' = [best EXCEPT ![t] = Scan(next, state, deadline)]
    /\ Goto(t, "store")
    /\ UNCHANGED <<sched, state, deadline, next, sem, mutex, waits_for, granted>>

StoreOutside(t) ==
    /\ At(t, "store")
    /\ Choose(best[t])
    /\ best' = [best EXCEPT ![t] = NoTask]
    /\ Goto(t, "run")
    /\ UNCHANGED <<program, os_tick, arrival, task_list, current_task, state, deadline, next,
                   sem, mutex, waits_for, granted>>

-----------------------------------------------------------------------------
(* smart_sem_try_wait, and smart_sem_wait, when a unit is there. *)
TakeUnit(t) ==
    /\ At(t, "run") /\ units[t] < program.units
    /\ count > 0
    /\ count' = count - 1
    /\ units' = [units EXCEPT ![t] = @ + 1]
    /\ UNCHANGED <<sched, state, deadline, next, sem_wait_list, mutex, pc, waits_for,
                   best, locks, woken, spurious>>

(* smart_sem_wait when there is none. *)
SemWait(t) ==
    /\ At(t, "run") /\ units[t] < program.units
    /\ count = 0
    /\ sem_wait_list' = IF sem_wait_list = NoTask THEN t ELSE sem_wait_list
    /\ LinkLast(t, sem_wait_list)
    /\ Block(t, "sem")
    /\ UNCHANGED <<count, deadline, mutex>>

(* Mutant of PostToWaiter: the unit is handed over and counted as well. *)
PostToWaiterAndCount(t) ==
    LET task == sem_wait_list
    IN  /\ At(t, "run") /\ units[t] > 0
        /\ task # NoTask
        /\ count' = IF count < MaxCount THEN count + 1 ELSE count
        /\ sem_wait_list' = next[task]
        /\ next' = [next EXCEPT ![task] = NoTask]
        /\ state' = [state EXCEPT ![task] = "READY"]
        /\ Goto(t, "scan")
        /\ units' = [units EXCEPT ![t] = @ - 1]
        /\ woken' = woken \cup {task}
        /\ UNCHANGED <<sched, deadline, mutex, waits_for, best, locks, spurious>>

(* smart_sem_post by a task that has a unit, when a task is queued. *)
PostToWaiter(t) ==
    LET task == sem_wait_list
    IN  /\ At(t, "run") /\ units[t] > 0
        /\ task # NoTask
        /\ sem_wait_list' = next[task]
        /\ next' = [next EXCEPT ![task] = NoTask]
        /\ state' = [state EXCEPT ![task] = "READY"]
        /\ Goto(t, "scan")
        /\ units' = [units EXCEPT ![t] = @ - 1]
        /\ woken' = woken \cup {task}
        /\ UNCHANGED <<sched, count, deadline, mutex, waits_for, best, locks, spurious>>

(* smart_sem_post when none is. *)
PostUnit(t) ==
    /\ At(t, "run") /\ units[t] > 0
    /\ sem_wait_list = NoTask
    /\ count' = IF count < MaxCount THEN count + 1 ELSE count
    /\ units' = [units EXCEPT ![t] = @ - 1]
    /\ UNCHANGED <<sched, state, deadline, next, sem_wait_list, mutex, pc, waits_for,
                   best, locks, woken, spurious>>

-----------------------------------------------------------------------------
(* Mutant of TakeLock: the recursive branch does not ask who the owner is. *)
TakeLockOfAnyone(t) ==
    /\ At(t, "run") /\ locks[t] < program.depth
    /\ owner' = IF owner = NoTask THEN t ELSE owner
    /\ lock_count' = lock_count + 1
    /\ original_deadline' = IF owner = NoTask THEN deadline[t] ELSE original_deadline
    /\ locks' = [locks EXCEPT ![t] = @ + 1]
    /\ UNCHANGED <<sched, state, deadline, next, sem, mutex_wait_list, pc, waits_for,
                   best, units, woken, spurious>>

(* smart_mutex_lock and smart_mutex_try_lock on a free or own mutex. *)
TakeLock(t) ==
    /\ At(t, "run") /\ locks[t] < program.depth
    /\ \/ /\ owner = NoTask
          /\ owner' = t /\ lock_count' = 1
          /\ original_deadline' = deadline[t]
       \/ /\ owner = t
          /\ lock_count' = lock_count + 1
          /\ UNCHANGED <<owner, original_deadline>>
    /\ locks' = [locks EXCEPT ![t] = @ + 1]
    /\ UNCHANGED <<sched, state, deadline, next, sem, mutex_wait_list, pc, waits_for,
                   best, units, woken, spurious>>

(* Mutant of LockWait: the owner keeps its deadline. *)
LockWaitPlain(t) ==
    /\ At(t, "run") /\ locks[t] < program.depth
    /\ owner \notin {NoTask, t}
    /\ mutex_wait_list' = IF mutex_wait_list = NoTask THEN t ELSE mutex_wait_list
    /\ LinkLast(t, mutex_wait_list)
    /\ Block(t, "mutex")
    /\ UNCHANGED <<sem, owner, lock_count, original_deadline, deadline>>

(* smart_mutex_lock on a mutex of another task: inherit, queue, sleep. *)
LockWait(t) ==
    /\ At(t, "run") /\ locks[t] < program.depth
    /\ owner \notin {NoTask, t}
    /\ deadline' = [deadline EXCEPT ![owner] =
                      IF deadline[t] < @ THEN deadline[t] ELSE @]
    /\ mutex_wait_list' = IF mutex_wait_list = NoTask THEN t ELSE mutex_wait_list
    /\ LinkLast(t, mutex_wait_list)
    /\ Block(t, "mutex")
    /\ UNCHANGED <<sem, owner, lock_count, original_deadline>>

(* Mutant of UnlinkWaiter: the queue goes on behind task, not before it.    *)
UnlinkAsHead(task) ==
    /\ mutex_wait_list' = next[task]
    /\ next' = [next EXCEPT ![task] = NoTask]

(* Take task out of the mutex queue; its own link becomes null. *)
UnlinkWaiter(task) ==
    /\ mutex_wait_list' = IF mutex_wait_list = task THEN next[task]
                                                    ELSE mutex_wait_list
    /\ next' = [s \in Task |->
                  IF s = task THEN NoTask
                  ELSE IF s \in Met(mutex_wait_list, next) /\ next[s] = task
                       THEN next[task] ELSE next[s]]

(* smart_mutex_unlock of the outermost lock hands over to a queued task. *)
HandOver(t) ==
    LET restored == [deadline EXCEPT ![t] = original_deadline]
        heir == FirstEarliest(Walk(mutex_wait_list, next),
                              Met(mutex_wait_list, next), restored)
    IN  /\ At(t, "run") /\ locks[t] > 0
        /\ owner = t /\ lock_count = 1
        /\ mutex_wait_list # NoTask
        /\ deadline' = restored
        /\ UnlinkWaiter(heir)
        /\ state' = [state EXCEPT ![heir] = "READY"]
        /\ owner' = heir
        /\ original_deadline' = restored[heir]
        /\ Goto(t, "scan")
        /\ locks' = [locks EXCEPT ![t] = @ - 1]
        /\ woken' = woken \cup {heir}
        /\ UNCHANGED <<sched, sem, lock_count, waits_for, best, units, spurious>>

(* smart_mutex_unlock without a handover, or refused with ERROR. *)
Unlock(t) ==
    /\ At(t, "run") /\ locks[t] > 0
    /\ locks' = [locks EXCEPT ![t] = @ - 1]
    /\ \/ /\ owner # t
          /\ UNCHANGED <<deadline, owner, lock_count>>
       \/ /\ owner = t /\ lock_count > 1
          /\ lock_count' = lock_count - 1
          /\ UNCHANGED <<deadline, owner>>
       \/ /\ owner = t /\ lock_count = 1 /\ mutex_wait_list = NoTask
          /\ lock_count' = 0 /\ owner' = NoTask
          /\ deadline' = [deadline EXCEPT ![t] = original_deadline]
    /\ UNCHANGED <<sched, state, next, sem, original_deadline, mutex_wait_list, pc,
                   waits_for, best, units, woken, spurious>>

TaskStep(t) ==
    \/ Yield(t) \/ YieldQueued(t) \/ Return(t) \/ ScanOutside(t) \/ StoreOutside(t)
    \/ TakeUnit(t) \/ SemWait(t) \/ PostToWaiter(t) \/ PostUnit(t)
    \/ TakeLock(t) \/ LockWait(t) \/ HandOver(t) \/ Unlock(t)

Next == SysTick \/ PendSV \/ \E t \in Worker : TaskStep(t)

Spec == Init /\ [][Next]_vars

-----------------------------------------------------------------------------
TypeOK ==
    /\ os_tick \in Time
    /\ state \in [Task -> {"READY", "WAITING"}]
    /\ arrival \in [Task -> Time] /\ deadline \in [Task -> Time]
    /\ next \in [Task -> Pointer]
    /\ task_list \in Task /\ current_task \in Task /\ next_task \in Task
    /\ pendsv \in BOOLEAN
    /\ count \in 0 .. MaxCount /\ sem_wait_list \in Pointer
    /\ owner \in Pointer /\ lock_count \in Nat
    /\ original_deadline \in Time /\ mutex_wait_list \in Pointer
    /\ pc \in [Task -> {"run", "queued", "blocked", "scan", "store"}]
    /\ waits_for \in [Task -> {"none", "sem", "mutex"}]
    /\ best \in [Task -> Pointer]
    /\ program \in [tasks : SUBSET Task, units : Nat, depth : Nat]
    /\ units \in [Task -> Nat] /\ locks \in [Task -> Nat]
    /\ woken \subseteq Task /\ spurious \in BOOLEAN

(***************************************************************************)
(* Three lists share one link field, and tasks move between them: still,   *)
(* following the links from any task ends, so no loop of the kernel over a *)
(* list runs for ever.  That is, no set of tasks is closed under the links.*)
(***************************************************************************)
LinksEnd ==
    \A S \in (SUBSET Task) \ {{}} : \E t \in S : next[t] \notin S

(***************************************************************************)
(* Nobody queues for something that is free: while the semaphore has a     *)
(* unit its queue is empty, and while the mutex has no owner so is its.    *)
(***************************************************************************)
NoIdleResource ==
    /\ count > 0 => sem_wait_list = NoTask
    /\ owner = NoTask => mutex_wait_list = NoTask /\ lock_count = 0

(* The tasks that a call has put to sleep for what and nobody has served.   *)
Waiters(what) == {t \in Task : waits_for[t] = what /\ t \notin woken}

(***************************************************************************)
(* No waiter is lost: as long as no blocking call has returned before its  *)
(* task was served, each queue holds exactly the tasks that wait for it,   *)
(* although both are threaded through the field that every task has once,  *)
(* tasks leave the mutex queue in the middle, and the task list is cut up. *)
(* And what they wait for is taken, so there is somebody to serve them.    *)
(***************************************************************************)
NoWaiterLost ==
    /\ NoIdleResource
    /\ ~spurious => /\ Met(mutex_wait_list, next) = Waiters("mutex")
                    /\ Met(sem_wait_list, next) = Waiters("sem")

(* A task that was granted what it waits for, but has not returned yet. *)
Granted(t, what) == IF t \in woken /\ waits_for[t] = what THEN 1 ELSE 0

(***************************************************************************)
(* As long as no blocking call has returned before its task was served,    *)
(* the owner's lock_count is the number of locks the calls have given it,  *)
(* and no other task has any: the mutex excludes, recursion and handovers  *)
(* in the window before smart_task_yield included.                         *)
(***************************************************************************)
LocksAccountedFor ==
    ~spurious =>
        \A t \in Task :
            locks[t] + Granted(t, "mutex") = IF owner = t THEN lock_count ELSE 0

(* The units of the semaphore the tasks have, each one with a number. *)
Out == UNION {{t} \X (1 .. units[t] + Granted(t, "sem")) : t \in Task}

(* Under the same condition no unit of the semaphore is lost or invented.  *)
UnitsAccountedFor == ~spurious => count + Cardinality(Out) = MaxCount

(* The owner is as urgent as every task in its queue. *)
Inherited == \A t \in Met(mutex_wait_list, next) : deadline[owner] <= deadline[t]

(* original_deadline is the owner's deadline of its present job, and every *)
(* other task has its own.                                                 *)
OwnDeadlines ==
    \A t \in Worker : Plus(arrival[t], RelDeadline[t]) =
                         IF t = owner THEN original_deadline ELSE deadline[t]

(* What a step does to the two, when no task has moved to its next job.     *)
KeepsInherited == ~spurious /\ arrival' = arrival /\ Inherited => Inherited'

KeepsOwn ==
    OwnDeadlines /\ (owner = NoTask \/ arrival'[owner] = arrival[owner]) => OwnDeadlines'

KeepsBoth == UNCHANGED <<deadline, mutex, next>> \/ (KeepsInherited /\ KeepsOwn)

(***************************************************************************)
(* Deadline inheritance: only a yield, which moves a task to its next job, *)
(* can leave the owner less urgent than a task in the queue, and only a    *)
(* yield of the owner inside its critical region makes unlock restore a    *)
(* deadline that is not its own.  Handovers, recursion and refused unlocks *)
(* keep both.  Once a blocking call has returned early its task is in a    *)
(* queue and runs: it can enter the other one and tie the two together.    *)
(***************************************************************************)
InheritanceKept == [][KeepsBoth]_vars

(***************************************************************************)
(* smart_sync.h: smart_mutex_lock blocks until the mutex is acquired.  So  *)
(* two tasks never both have the mutex their calls returned OK for.        *)
(***************************************************************************)
MutualExclusion ==
    \A s, t \in Task : locks[s] > 0 /\ locks[t] > 0 => s = t

(***************************************************************************)
(* DESIGN.md: the scheduler runs the READY task with the smallest deadline *)
(* (whenever no switch is pending and no task is inside smart_schedule).   *)
(***************************************************************************)
EarliestRuns ==
    (~pendsv /\ \A t \in Task : pc[t] \notin {"scan", "store"}) =>
        \A t \in Eligible(program.tasks \ {Idle}, state, deadline) :
            deadline[current_task] <= deadline[t]

(***************************************************************************)
(* DESIGN.md: a READY task is chosen to run.  So PendSV never switches to  *)
(* a task that waits, in a queue or for its next release.                  *)
(***************************************************************************)
ChoiceIsReady == pendsv => state[next_task] = "READY"

(***************************************************************************)
(* smart_sync.c: if a task waits, wake it up.  So a task that was served   *)
(* stays READY until its call returns.                                     *)
(***************************************************************************)
ServedAreReady == \A t \in woken : state[t] = "READY"
=============================================================================

# Smart-OS: models and proofs

TLA+ modules, TLC runs and TLAPS proofs for the Smart-OS kernel (an EDF
real-time kernel for a Cortex-M3). Paths below are paths of the repository.

## 1. The system

| Part | Source | State | Operations |
|---|---|---|---|
| EDF scheduler | `core/smart_core.c`, `arch/context.S` | `os_tick`, `task_list`, per task `state`, `arrival`, `deadline`, `wakeup_time`, `current_task`, `next_task`, the PendSV bit | `smart_task_create`, `smart_os_start`, `smart_schedule`, `smart_task_yield`, `smart_delay`, `SysTick_Handler`, `PendSV_Handler` |
| Semaphore, mutex | `core/smart_sync.c` | `count`, `owner`, `lock_count`, `original_deadline`, two wait queues threaded through `task->next` | wait, try_wait, post, lock, try_lock, unlock, timed variants |
| Memory pools | `core/smart_mempool.c` | free list inside the blocks, `free_count`, `ops_left`, registry | init, alloc_try, free_try, tick |
| Message queue | `core/smart_msgqueue.c` | ring buffer | init, send, receive |
| Software timers | `core/smart_timer.c` | pool of 16 blocks, linked list of active timers | create, start, stop, reset, delete, set_period, tick |
| UART receive path | `drivers/smart_uart.c` | hardware FIFO, ring buffer, counters | `UART0_Handler`, getc_nonblock, rx_flush |
| FAT12 file system | `core/smart_fs.c` | FATs, root directory, data clusters, handles | mount, format, open, read, write, close, create, delete, update |
| Block device | `drivers/smart_block.c` | sectors (RAM, wiped at every boot) | read, write |
| Shell | `core/smart_shell.c` | line buffer, command table | a periodic task that polls the UART, edits a line, parses it and runs a command; the commands are the clients of the file system, some wait in loops of their own |
| Snake game | `user/snake_game.c` | body, direction, food, state of the game | init, update, input, exit; called by `cmd_snake` |
| Banner, startup, build | `core/smart_banner.c`, ... | | |

How they interact. Tasks call the kernel; a call is a critical section with
interrupts disabled (`CPSID I`), unless said otherwise. `SysTick_Handler` adds a
tick, refills the pools (`smart_mempool_tick`), walks the timers
(`smart_timer_tick`, which runs the callbacks in the handler), wakes tasks and
calls `smart_schedule`, which writes `next_task` and sets the PendSV bit. PendSV
later loads whatever `next_task` is. The UART handler fills a ring that tasks
empty. Semaphores and mutexes change `state`, `deadline` and `next` of tasks
behind the scheduler's back.

What is hard: the order of SysTick and PendSV after a request for a switch; calls
that leave their critical section before they yield or schedule; one link field
shared by three kinds of list; a list that is modified while it is walked; free
lists in memory that clients write; 32-bit times and counters that wrap; a full
ring, pool, registry or volume; handles that write back what they once read; commands
that keep the shell from its own loop. `PROJECT.json` lists these at their lines, with the
properties that watch them.

Correct means: EDF dispatch, no job before its release, no lost wake-up
(scheduler); mutual exclusion and conservation of units (sync); exact free list
and exclusive blocks (pools); order and no loss while there is room (queue,
UART); every active timer visited once per tick and fired on time (timers);
disjoint, terminated cluster chains, and files that read back as they were written
(file system); the command that runs is the line on the screen, and keys are read and
the CPU given up whatever command runs (shell); a snake that never overlaps (game).

## 2. Modules

| Module | Models |
|---|---|
| `SmartCore`, `MCSmartCore` | boot, scheduler, yield, delay, SysTick, PendSV |
| `SmartCore_proofs` | theorems about `SmartCore` |
| `SmartSync`, `MCSmartSync` | semaphore and mutex on the scheduler, with the links as links |
| `SmartSync_proofs` | theorems about `SmartSync` |
| `SmartMempool`, `MCSmartMempool` | pools and their clients |
| `SmartMempool_proofs` | theorems about `SmartMempool` |
| `BoundedFifo` | what a ring buffer promises (abstract) |
| `SmartMsgqueue`, `MCSmartMsgqueue` | message queue; implements `BoundedFifo` |
| `SmartMsgqueue_proofs` | theorems about `SmartMsgqueue`, the refinement included |
| `SmartUart` | receive interrupt, ring, readers; implements `BoundedFifo` |
| `SmartUart_proofs` | theorems about `SmartUart`, the refinement included; takes the lemmas on rings from an instance of `SmartMsgqueue_proofs` |
| `SmartTimer` | timer pool, calls, the tick's walk |
| `SmartTimer_proofs` | theorems about `SmartTimer` |
| `FileStore` | what the file system promises: titles, each with a text (abstract) |
| `SmartFs`, `MCSmartFs` | FAT12 file system on its disk, driven by the shell's commands; implements `FileStore` |
| `SmartFs_proofs` | theorems about `SmartFs`, the refinement included |
| `SnakeGame` | the board and its four entry points |
| `SmartShell`, `MCSmartShell` | the shell task, line editor, parser, waiting commands; extends `SnakeGame` |
| `SmartShell_proofs` | theorems about `SmartShell` and the game in it |

State and actions keep the names of the code. `Mutant of ...` definitions are
plausible bugs of the operator they stand before; they are used only to show
that each property can fail.

**SmartCore.** One action per critical section or handler. The task list is a
sequence (nothing in this file but creation changes it). `Runs(t)` says that t is
on the CPU and no PendSV is pending. `smart_os_start` sets both exceptions to the
lowest two priorities (0xFF and 0xFE), which are the same level on parts that
implement three priority bits, so the two do not preempt each other, and either may
be taken first when both are pending; the model allows both orders. `wrapped` is
history: a `uint32_t` sum has overflowed.

**SmartSync.** The same scheduler after boot, with `next` as a function from task
to task, because `smart_sync.c` links its queues through the field that links the
task list. `pc` holds the places where a task can be interrupted inside a call:
`queued` (out of the critical section, before `smart_task_yield`), `blocked`
(inside the yield), `scan` and `store` (in `smart_schedule` outside a critical
section, before and after the scan). Only periodic tasks: aperiodic ones never run
(section 4). `locked` and `owner` always change together and are one variable.
`units`, `locks`, `woken` and `spurious` are history: what the calls have
returned, who was served in a queue, and whether some blocking call has returned
without being served. `Program` is a set of what `main()` may have built: the task
list, and the units and nested locks a task asks for; the initial state picks one
(`program`), so that one run covers several programs. `program.tasks` are the tasks that
were created: a task of `Task` that is not among them never runs. That the links of such a list end
(`ProgramAssumption`) is what creating every task in front of the list gives.

**SmartMempool.** The first word of a block is a link when it is free and the
client's data when it is held (`word`). A client remembers one block
(`task_a_block`) and frees it once.

**SmartMsgqueue, SmartUart.** The rings with their indices. In `SmartUart` the
arrival of characters and the raising of the interrupt belong to the hardware
(external); the handler takes one character per step.

**SmartTimer.** Calls of tasks between two walks; the walk itself one list entry
per step, with `cursor` and `prev` as in the code; a callback is the gap between
`Expire` and `AfterCallback`. `smart_timer_delete` is two steps, since it is two
critical sections; other calls on that timer fall in between when more than one task uses
it, and `Sharers` says how many do. In the repository it is one (`cmd_timer`, which uses the
timers it has created), and the passing run and the theorems are for `Sharers = 1`; the code
checks the id only, so for two `MCTimerShared.cfg` shows what a start in the window
leaves behind, and a second delete would count `total_timers` down twice. The id check and
the critical section behind it are one step, so a call on a block that was freed between
the two is left out. `age` and `span` are history. Callbacks do not call the API and a
RUNNING timer is not reset, as nowhere in the repository.

**SmartFs.** `fat` is the sectors of both FATs, `dir` the root directory, `data` the
clusters of the volume. A command of the shell (`pc`) is one call or one round of a
loop per step: `Create`, `OpenCreated`, then per word `StartWrite`, `Seek`,
`WriteSector` or `WriteOffVolume`, then `EchoEnds` or `EchoFails`. `kind`
alternates between words and the spaces between them, whose result `cmd_echo`
ignores. `WriteEntry` writes the copy of a FAT sector where the code does, one sector
behind, which is not FAT #2. The search for a free cluster (`FreeClusters`) ends at
`ScanEnd`, which does not depend on the volume and may lie behind both FATs, as 0xFF0
does. `FatEnd` is the first cluster whose entry, or the copy of it, is not in the FATs; a
search that finds nothing before `SearchEnd`, the smaller of the two, fails, or, when it
may go on, leaves the FATs (`NoCluster`): `pc` is then `"overrun"`, the disk is not described
any more, and nothing is claimed (`Intact`). The two directory searches are two operators, because
they end at different places. The shell runs one command at a time and is the only
client, so commands do not interleave. `text` (what was stored in each entry),
`opened` and `shown` are history. `Store` gives what `FileStore` speaks of: the `title` of an entry
is its name while it is in use, its `content` what following its chain gives (`Contents`,
which does not look at `text`), `mode` what the command is doing, `rest` what is
left of the buffer; the steps of the search for the end of a file are stutters; a search
that leaves the FATs is the step `Break`, after which `FileStore` promises nothing. Searches that find nothing and calls that are
refused at once change nothing and have no action, except where `cmd_echo` goes on.

**SmartShell, SnakeGame.** The shell's task from poll to poll, with `rx` the receive
ring as `BoundedFifo` describes it: a key may arrive between any two steps, and a full
ring loses it. `Enter` terminates the line and parses it in one step, since nothing of it
is shared; `execute` then goes to the command's own loop or back to the prompt. `pc`
names the places where a command waits: `first_key` (polls without yielding), `poll` and
`game_yield` (the game loop), `wait` (`timer test`, ended by a key or the clock), `stress`
(looks at the clock only). The clock is not kept: whether 200 ticks have passed, or the
target is reached, is a choice each time it is asked, which includes every value and
every overflow. A game's random food is any cell that is free, or any that
is taken (after 100 attempts the code keeps the last one). `shown` (the line
on the terminal), `turns` (turns since the last move) and `session` (the keys one user
types) are history.

## 3. Runs

| Run | Instance | Shows |
|---|---|---|
| `core_edf` | two periodic tasks (period 2 and 4, deadlines 2) and idle, delays of 3, clock of 8 values | `EdfDispatch`, `ReleasesOnTime`, `DeadlineOfRelease`, `PreemptedByEarlier`, `SleepersWake` |
| `sync` | clock of 4 values; three tasks that share a mutex, or two that share a binary semaphore and a mutex, with and without nesting | `LinksEnd`, `NoWaiterLost`, `LocksAccountedFor`, `UnitsAccountedFor`, `InheritanceKept` |
| `mutex_exclusion` (violation) | two tasks | two tasks hold one mutex |
| `wait_truncates` (violation) | two tasks | idle runs while a task is READY |
| `mempool` | 2 pools of 3 blocks, 3 clients, registry of 1 | `FreeListExact`, `NoSharedBlock`, `LowWaterMark`, `BudgetReturns` |
| `msgqueue` | 3 slots, 3 messages | `FifoSpec` |
| `uart` | ring of 3, hardware FIFO of 2, 2 characters | `CharsAccounted`, `FifoSpec`, `CharsReceived` |
| `timer` | 3 timers, periods 1 and 2 | `ListSound`, `CountsAgree`, `FiresOnTime`, `OneShotEnds` |
| `timer_relink` (violation) | 2 timers | a periodic timer is lost |
| `shell` | a buffer of 6 (lines of 5), 2 words, ring of 1, board of 4 by 2, a user who edits and one who plays | `CommandAsShown`, `SnakeSound`, `NeckNeedsTwoTurns`, `KeysConsumed`, `GivesUpCpu` |
| `fs` | 2 clusters of 2 units, 3 directory entries in 2 sectors, 2 names, words of 2 and 3 units, 4 FAT sectors of 4 entries, a search up to 18 | `ChainsApart`, `LookupsAgree`, `StoreSpec`, `FailsOnlyWhenFull`, `CloseHitsOpened` |
| `fs_long_name` (violation) | a name of 12 characters | reading or writing one file redirects another |

Four more instances are not among the runs of `PROJECT.json`. Each states one property that is
false of the code, and TLC finds the trace (section 4), `tlc -config <cfg> <module>`:

| Configuration | Module, property | Instance |
|---|---|---|
| `MCSyncStale.cfg` | `MCSmartSync`, `ChoiceIsReady` | three tasks of periods 2, 8 and 4, clock of 16 values |
| `MCSyncWakeUp.cfg` | `MCSmartSync`, `ServedAreReady` | two tasks |
| `MCTimerShared.cfg` | `SmartTimer`, `CountsAgree` | 2 timers, 2 tasks that share them |
| `MCFsOverrun.cfg` | `MCSmartFs`, `SearchEndsWithFats` | that of `fs` |

**Bounds.** The clock has few values, so overflow is reached within a few
steps, not after 49 days; odd 0xFFFFFFFF and even times keep a wrapped deadline from
being 0xFFFFFFFF. Two tasks and idle give
preemption, ties and idle; three give two waiters behind an owner. Two tasks with
semaphore and mutex still put two entries in a queue, because a task that returned
early stays in it. `sync` explores a program of three tasks, and one of nested locks, up to
the first such return (`EndEarly`), and what comes after it with two tasks and no nesting;
the properties of `sync` are all proved as well, so this bounds only what TLC looks at.
Three timers are the fewest with an entry before, at and behind
the place where the walk changes the list; three slots let head and tail wrap
apart. In `SmartSync` a task asks for at most `program.units` units and `program.depth`
nested locks; these two, and `Sharers` of `SmartTimer`, are the only bounds in guards, and 0 units take
the semaphore out of a program. `Width` in the rings is the
modulus of a counter, not a bound. In `fs` a file can fill a cluster exactly, cross
into the next, take both clusters with one word and overflow the volume; the third to
sixth allocation give clusters that do not exist (8 to 11: those between are copies), in
another FAT sector, and the seventh finds none before `FatEnd`, 12. `ScanEnd` stands for
0xFF0 and lies behind the FATs, as in the code (4080; copies leave the FATs from 1023,
entries from 1364), so the run goes to the overrun and stops there; whether the search
finds a zero behind the FATs is left open, so it may also
fail. In the code it takes hundreds of clusters, most of which do not exist, to come so far.
In `shell` a line of 5 characters holds two words and a third behind `MaxArgs`, leading,
doubled and trailing spaces, and a sixth character that is refused; the names of the
commands are shortened to fit. Eight cells are enough for walls, a bite, growth, and the
full board that wins; a ring of one makes every second key of a burst a lost one.

**Conditional properties.** `ReleasesOnTime` is claimed until a time wraps
(`wrapped`), `LocksAccountedFor` and `UnitsAccountedFor` until a blocking call
returned without being served (`spurious`): after that the code does break them,
which is what `mutex_exclusion` shows. `LinksEnd` and the part `NoIdleResource` of
`NoWaiterLost` hold without any condition; that each queue holds exactly its waiters
holds until `spurious`, when a task that still is in one queue can enter the other.
The invariants and the refinement of `fs` hold until a search leaves the FATs (`Intact`, or
`Break` in `FileStore`), which does happen in `fs` (action `Overrun`); that it needs a full volume is
part of `FailsOnlyWhenFull`. The properties of `timer` are claimed for timers that one task
uses (`Sharers`).
`InheritanceKept` excepts the two yields that do break it: one that moves a deadline of
the owner or a queued task, and one of the owner inside its region, after which unlock
restores the deadline of an earlier job.
`KeysConsumed` excepts the wait of `stress`; `GivesUpCpu` excepts the wait of `snake` for
its first key and a user who never stops typing.

**Fairness.** `SmartCore`: the clock ticks and a pending PendSV is taken (weak,
hardware); a task that is on the CPU again and again yields in the end (strong:
the loops of `user/main.c` do, `cmd_snake` does not while it waits for a key, and
nothing is claimed for it). `SmartMempool`, `SmartTimer`: SysTick keeps coming and its
handler returns. `SmartUart`: the receive timeout raises the interrupt, and the
handler is dispatched and runs. `SmartShell`: the shell's task takes steps (weak: it is
a periodic task with a finite deadline). `SmartSync` and `SmartFs` claim no
liveness.

## 4. What the violations show

1. `core/smart_timer.c:320` - a periodic timer re-added at the head is cut off
   when the next entry expires in the same tick; `timer test` of the shell meets it.
2. `core/smart_sync.c:250` - a task in a wait queue is WAITING, so SysTick
   releases it at its next period and the blocking call returns OK.
3. `core/smart_sync.c:50` - blocking overwrites the link of the task list and the
   tasks behind the caller vanish from the scheduler: b, in front of a on the list, blocks
   on the semaphore, and idle runs although a is READY.
4. `core/smart_fs.c:387` - a handle keeps 11 characters of a name of up to 12; close,
   after `cat` too, writes into the entry with the shorter name.

The four instances outside the runs show:

5. `core/smart_sync.c:398` (and `:141`) - `smart_schedule` outside a critical section: the
   task that the scan chose runs and yields before the choice is stored, and PendSV then
   switches to it although it waits for its release.
6. `core/smart_sync.c:250` (and `:68`) - a task that is served after it has queued and before
   its `smart_task_yield` is put to sleep by that yield, as the owner of the mutex. SysTick
   has to make it READY in between, and a task of no later deadline to run.
7. `core/smart_timer.c:225` - a start between the two critical sections of a delete, by
   another task, leaves `active_timers` one too high.
8. `core/smart_fs.c:512` - the search for a free cluster leaves the FATs and writes over the
   root directory.

Two more follow from the definitions and have no run: aperiodic tasks
(deadline 0xFFFFFFFF, strict comparison at `core/smart_core.c:270`) never run, and
the shell's deadline 0xFFFFFFFE (`user/main.c:274`) overflows with its first
period and becomes the earliest of all. A third is the FAT copy (`smart_fs.c:498`):
FAT #2 is never written after the format.

Deviations of the shell and the statistics that were met on the way and are not runs:

* A line that fills the buffer is dropped with the character that did not fit
  (`BufferFull`); requirement 1.4 of the shell's specification would refuse input.
* Requirement 8.2 has the shell yield when there is no key; `cmd_snake` waits for its
  first key without (`GivesUpCpu` names the exception).
* Food is placed before the snake moves, so it may appear under the new head.
* The stress test divides by the elapsed ticks, which may be 0 (`smart_shell.c:1255`).
* A deadline miss is judged after yield has moved the deadline (`smart_core.c:328`).

## 5. Proofs

For every value of the constants, from the `ASSUME`s of the modules and, where one is
named below, a hypothesis of the theorem:

* `SmartCore_proofs`: `TypeCorrect`, `EdfCorrect`, `PreemptionCorrect`,
  `ReleaseCorrect`, `DeadlineCorrect`. `EdfDispatch` is not inductive: between the
  request and PendSV the CPU runs the old task. The invariant (`SchedInv`) says that
  once started, `next_task` is always the EDF choice on the present state, and that
  without a pending PendSV `current_task` is `next_task`; before the start nothing is
  pending and nobody sleeps. Every action that changes a state or a deadline ends in
  `Schedule`, which re-establishes it, and PendSV copies it to the CPU.
  `ReleaseInv` adds that a task that delays itself was released.
* `SmartMempool_proofs`: `FreeListCorrect`, `ExclusiveBlocks`, `TypeCorrect`,
  `LowWaterCorrect`. `FreeListExact` carries the weight: for each of the actions the
  witness sequence is given (its tail for an allocation, the block put in front for
  a release). A held block is not in the sequence, so a client's write reaches no
  link, and the head is not held, so an allocated block is nobody else's.
* `SmartMsgqueue_proofs`: `RingCorrect` and `QueueIsFifo`: every step of the ring
  is a step of `BoundedFifo` under `fifo <- Contents`; the lemmas are about
  `(head + i) % Capacity`. The invariant adds to the types that the three indices
  agree and that no occupied slot is a cleared one (`RingConsistent`).
* `SmartUart_proofs`: `TypeCorrect`, `AccountsCorrect`, `ReceivePathIsFifo`. The same
  invariant for the receive ring, which a flush resets without clearing it; the steps of
  the hardware are stutters of the FIFO. `CharsAccounted` needs that a sum may be
  reduced modulo `Width` at any point (`ModPlus`). The receive ring under its own names
  is a message queue (`Queue == INSTANCE SmartMsgqueue_proofs WITH ...`), whose lemmas on
  the ring are cited through the instance.
* `SmartFs_proofs`: `TypeCorrect`, `LookupsCorrect`, `CloseCorrect`, `ChainsCorrect`,
  `FailsCorrect`, `CatCorrect`, `DiskHoldsText`, `StoreCorrect`, for every end of the search,
  0xFF0 included: `VolumeAssumption` asks only that it reaches behind the volume. `TypeOK` is
  inductive; its weight is that every entry read or written and its copy one sector behind
  are in the FATs, because an allocation that would leave them is the overrun
  (`SearchEnd`). What is claimed of the disk is claimed until then (`Intact`).
  `LookupsAgree` needs that only never-used entries follow a never-used one
  (`Packed`): create takes the first free entry, delete marks and does not clear, and
  close changes no name. `CloseHitsOpened` needs in addition that the entry found when
  the command began is found until it ends (`Holding`), and the hypothesis
  `Key[Saved[n]] = Key[n]`, which a name of 12 characters breaks (`fs_long_name`).

  The other theorems have that hypothesis too and share one invariant, `ChainInv`.
  `ChainsApart`, the contents and the full volume cannot be
  separated: a chain stays apart from the others because a new cluster is in no other
  chain, which holds because its entry is 0, and it is a cluster of the volume unless the
  volume is full. `ChainInv` says that there is for each entry of the directory a sequence
  of clusters (`ch`) such that the FAT links each of them to the next and the last to the
  end (`Linked`), no two entries share one (`Disjoint`), the size fits its length
  (`Files`), its units are what was stored (`Stored`), and a write is at the cluster
  where it has to be (`Seeking`); after a step the witness is `ch` with at most one
  cluster appended, or with sequences emptied (delete, format). Two facts carry it. The copy of a FAT
  sector goes to the sector behind, so what is written to an even sector appears in the odd
  one behind it too: while every cluster of a chain has its entry in an even sector
  (`Home`) the odd sectors only mirror them (`Mirrored`), and the search, which takes the
  first entry that is 0, meets a free cluster at home before its mirror, so it never hands out
  a cluster whose entry is a copy (`AllocatesHome`). And since it takes the first, it leaves the
  volume, and the FATs, only when the volume is full (`Full`), which stays so until it is formatted,
  as `smart_fs_delete` frees no cluster. This needs that the search reaches behind the
  volume (`LastCluster < ScanEnd` in `VolumeAssumption`), as 0xFF0 does.

  `StoreCorrect` is the refinement: under the mapping every action is one of `FileStore` or
  a stutter. `DiskHoldsText` makes it short: a chain that is followed gives exactly
  `text`, because `Linked`, `Files` and `Stored` say so cluster by cluster (`DiskIsText`), so
  each action has only to be compared through the history variable that it changes. That the
  titles see the entries the searches find needs `Packed`; that a close moves nothing needs
  `Holding`; that `Read` shows a beginning and `EndRead` the whole is what `ChainInv` says
  of `shown`. New is `SayState`: a command begins with a word, and has something left to
  write just while it is in `smart_fs_write`. `CatShowsAll`, which `CatCorrect` states, is
  what they come to for the user of `cat` and has no run of its own.
* `SmartShell_proofs`: `TypeCorrect`, `CommandCorrect`, `SnakeCorrect`, `NeckCorrect`,
  `LineCorrect`. The game's
  invariant (`GameInv`) keeps the cells of `Trail` different and adjacent and every cell
  on the board, for every way in which the shell feeds it keys; the shell's part is
  that a game is on whenever it polls for one. `NeckNeedsTwoTurns` needs, per number
  of turns since the last move, which way the neck lies. `LineCorrect` says that the buffer
  up to `input_pos` is what the terminal shows, so that the text before the '\0' is that line
  when return is pressed. `CommandCorrect` adds what the parser makes of it: after n
  characters the loop holds the words that began and ended within them, one per start of a
  word up to `MaxArgs`, and the start of the word it is in.
* `SmartTimer_proofs`: `TypeCorrect`, `ListStaysSound`, `StatisticsRight`, `OnTime`, all with
  the hypothesis `Sharers = 1`, without which the counts go wrong (`MCTimerShared.cfg`).
  `ListSound` and `FiresOnTime` speak of the list between two ticks and are not inductive;
  the invariant says what holds inside a walk. The links end wherever they start
  (`AcyclicLinks`: every set of timers has one whose link leaves it), which survives
  unlinking and pushing in front. What the walk has behind it is counted down for this
  tick and what it has before it (`Reached(cursor, next)`) is not (`Times`); `prev` and
  `cursor` are neighbours; the timer whose callback runs is neither reached from the
  cursor nor waiting to be freed (`WalkInv`). A one-shot timer that runs is on the list
  (`OneShots`); a periodic one may not be, which is `timer_relink`. The list is the least
  set closed under the links, so a fact about it is proved by giving a closed set.
* `SmartSync_proofs`: `TypeCorrect`, `ListsEnd`, `NobodyQueuesForNothing`,
  `WaitersStayQueued`, `LocksRight`, `ExclusionUntilSpurious`, `UnitsRight`,
  `Inheritance`. `Shape` is `TypeOK`, `LinksEnd` and `NoIdleResource`, with what a scan
  has chosen: three facts that need each other, since the walks that the calls make are
  walks only while the links end, and a queue that is appended to is found at its end
  only then. It holds without condition: a task that returned early and queues again
  does not close a cycle, because the append clears its own link last. `Accounts` adds
  which call each task is in (`Calls`) and, until a blocking call returned unserved,
  that the two queues have no task in common and none that was served (`Queues`);
  without it a unit could be given to a task that waits for the mutex. `AllQueued` is
  the converse, that whoever waits unserved is in his queue: a queue is the least set
  that holds its head and is closed under the links, and the tasks met after an append,
  a pop or an unlink, with the one that left, are closed under the links as they were
  before, so nobody is lost (`AppendKeeps`, `PopKeeps`, `UnlinkKeeps`). With `Queues`
  this is `NoWaiterLost`. Units are a set of tokens (`Out`), so that no sum is needed.
  `ExclusionUntilSpurious` is the converse of `mutex_exclusion`: the early return is the
  only way to two owners.

  The attempt to prove `InheritanceKept` as it stood before, without `~spurious` in
  `KeepsInherited`, failed for a reason, which TLC confirms with three tasks that all use
  both semaphore and mutex: a task that returned early is still in one queue when it enters
  the other, its link then ties the two queues together, and the owner is less urgent than
  a task that waits for the other resource. That is a consequence of the deviation that
  `mutex_exclusion` shows and not a separate one.

Induction over data. The theorem of induction takes an operator and cannot be used, but
the least element of a non-empty set of numbers can (`WFMin` of
`WellFoundedInduction`): `LeastNumber` and `UpTo` in `SmartSync_proofs` turn "for every n"
into the absence of a least counterexample. In this way `Walk`, a recursive function, is
shown to satisfy its equation, and `Met` to be closed under the links, by counting: a
walk that does not end within as many steps as there are tasks repeats one. `ParseLoop`
is shown to keep its invariant character by character, and `Follow` to come to the end of
a chain link by link.

Only model-checked: liveness (`SleepersWake`, `BudgetReturns`, `CharsReceived`,
`OneShotEnds`, `KeysConsumed`, `GivesUpCpu`; the prover has no fairness or ENABLED) and the
violations. Every invariant and action property of the passing runs is a theorem.

## 6. Not modelled

Statistics, watermark, stack guard and logging of the kernel; the id and callback
counters of the timers, the wrap of the id; a timer reset while RUNNING and API calls
from callbacks, which nothing in the repository does; UART output and initialisation; a
second mutex; double free. FAT entries that cross two sectors, mounting, `list_dir`, and
the drivers' registers. What the shell's commands print, its self-tests (`test`,
`synctest`, `msgtest` and the first three parts of `stress` call the modules modelled
above and add no state), and the score of the game. Banner, startup code, linker script
and image tools have no state to check.

## 7. Plan

1. `SmartTimer` with callbacks that call the API; two mutexes in `SmartSync`, for the
   inherited deadline that one saves as the original of the other.
2. The statistics of `smart_core.c` (execution times, deadline misses) as a module over
   `SmartCore`.

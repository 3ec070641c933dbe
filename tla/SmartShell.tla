----------------------------- MODULE SmartShell -----------------------------
(***************************************************************************)
(* The shell task (core/smart_shell.c): it reads keys from the UART, edits *)
(* a line, splits it into words and runs a command.  The commands that     *)
(* stay inside a loop of their own and take keys or the CPU away from the  *)
(* shell are modelled as such: snake, timer test and stress.  All others   *)
(* return without waiting.                                                 *)
(*                                                                         *)
(* rx is the receive ring as tasks see it, BoundedFifo, which SmartUart    *)
(* implements.  A key can arrive between any two steps of the task.  The   *)
(* clock is not kept: whether 200 ticks have passed since the last move,   *)
(* or a target tick has been reached, is a choice each time the task asks. *)
(***************************************************************************)
EXTENDS SnakeGame, SequencesExt

CONSTANTS
    Printable,          \* the characters from 32 to 126
    Nul,                \* '\0'
    BufferSize,         \* SHELL_INPUT_BUFFER_SIZE, 128
    MaxArgs,            \* SHELL_MAX_ARGS, 16
    RxSize,             \* room in the receive ring
    Snake, Timer, Test, Stress,     \* the words snake, timer, test and stress
    Session             \* sets of keys, by where they are typed; a user keeps to one

Space   == " "
Control == {"CR", "BS", "ESC"}      \* return, backspace, any other control key
Key     == Printable \cup Control

ASSUME BufferAssumption == /\ BufferSize \in Nat \ {0} /\ MaxArgs \in Nat \ {0}
                           /\ RxSize \in Nat \ {0}
ASSUME KeyAssumption ==
    /\ Space \in Printable /\ Nul \notin Key /\ Printable \cap Control = {}
    /\ Session \subseteq [prompt : SUBSET Key, command : SUBSET Key]

VARIABLES
    rx,                         \* the receive ring
    input_buffer, input_pos,    \* shell_ctx
    pc,                         \* where the task is
    argv,                       \* the words of the command being run
    session,                    \* history: the keys this user types
    shown                       \* history: the line as the terminal shows it

line == <<input_buffer, input_pos>>
vars == <<rx, line, pc, argv, session, shown, game>>

Index == 0 .. BufferSize - 1

Init ==
    /\ rx = <<>>
    /\ input_buffer = [i \in Index |-> Nul] /\ input_pos = 0
    /\ pc = "read"
    /\ argv = <<>>
    /\ session \in Session
    /\ shown = <<>>
    /\ NoGame

-----------------------------------------------------------------------------
InCommand == {"first_key", "poll", "game_yield", "last_yield",
              "wait", "wait_yield", "stress", "stress_yield"}

(* The user types; a full ring loses the key. *)
Type ==
    /\ \E k \in IF pc \in InCommand THEN session.command ELSE session.prompt :
          rx' = IF Len(rx) < RxSize THEN Append(rx, k) ELSE rx
    /\ UNCHANGED <<line, pc, argv, session, shown, game>>

(* smart_uart_getc_nonblock returning 1 with the key k. *)
Getc(k) == rx # <<>> /\ k = Head(rx) /\ rx' = Tail(rx)

-----------------------------------------------------------------------------
(* The text before the '\0'. *)
Terminated(buffer) ==
    LET nul == {i \in Index : buffer[i] = Nul}
        end == IF nul = {} THEN BufferSize - 1 ELSE Min(nul)
    IN  [i \in 1 .. end |-> buffer[i - 1]]

(***************************************************************************)
(* shell_parse_command: one pass over the characters before the '\0'.      *)
(* after[n] is what the loop holds after n characters: the words ended so  *)
(* far and where the word it is in begins, 0 when it is in none.           *)
(***************************************************************************)
ParseChar(at, text, n) ==
    IF Len(at.words) = MaxArgs THEN at
    ELSE IF text[n] # Space
         THEN [words |-> at.words, start |-> IF at.start = 0 THEN n ELSE at.start]
    ELSE IF at.start = 0 THEN at
    ELSE [words |-> Append(at.words, SubSeq(text, at.start, n - 1)), start |-> 0]

ParseLoop(text) ==
    LET after[n \in 0 .. Len(text)] == IF n = 0 THEN [words |-> <<>>, start |-> 0]
                                       ELSE ParseChar(after[n - 1], text, n)
    IN  after

Parse(text) ==
    LET done == ParseLoop(text)[Len(text)]
    IN  IF done.start # 0 /\ Len(done.words) < MaxArgs
        THEN Append(done.words, SubSeq(text, done.start, Len(text)))
        ELSE done.words

(* The buffer is emptied and the prompt shown. *)
Prompt ==
    /\ input_pos' = 0
    /\ shown' = <<>>
    /\ argv' = <<>>
    /\ pc' = "read"

(* shell_process_input, return on an empty line: a new prompt. *)
EnterNothing ==
    /\ pc = "read" /\ Getc("CR")
    /\ input_pos = 0
    /\ Prompt
    /\ UNCHANGED <<input_buffer, session, game>>

(* Mutant of Enter: the line is not terminated. *)
EnterUnterminated ==
    /\ pc = "read" /\ Getc("CR")
    /\ input_pos > 0
    /\ LET words == Parse(Terminated(input_buffer))
       IN  IF words = <<>> THEN Prompt
           ELSE argv' = words /\ pc' = "execute" /\ UNCHANGED <<input_pos, shown>>
    /\ UNCHANGED <<input_buffer, session, game>>

(* shell_process_input, return: terminate and parse; no word, no command. *)
Enter ==
    /\ pc = "read" /\ Getc("CR")
    /\ input_pos > 0
    /\ input_buffer' = [input_buffer EXCEPT ![input_pos] = Nul]
    /\ LET words == Parse(Terminated(input_buffer'))
       IN  IF words = <<>> THEN Prompt
           ELSE argv' = words /\ pc' = "execute" /\ UNCHANGED <<input_pos, shown>>
    /\ UNCHANGED <<session, game>>

(* shell_process_input, backspace. *)
Backspace ==
    /\ pc = "read" /\ Getc("BS")
    /\ input_pos' = IF input_pos > 0 THEN input_pos - 1 ELSE 0
    /\ shown' = IF shown # <<>> THEN Front(shown) ELSE shown
    /\ UNCHANGED <<input_buffer, pc, argv, session, game>>

(* Mutant of Insert: one character too many. *)
InsertOneMore ==
    /\ pc = "read"
    /\ input_pos < BufferSize
    /\ \E k \in Printable :
          /\ Getc(k)
          /\ input_buffer' = [input_buffer EXCEPT ![input_pos] = k]
          /\ shown' = Append(shown, k)
    /\ input_pos' = input_pos + 1
    /\ UNCHANGED <<pc, argv, session, game>>

(* shell_process_input, a printable character while there is room. *)
Insert ==
    /\ pc = "read"
    /\ input_pos < BufferSize - 1
    /\ \E k \in Printable :
          /\ Getc(k)
          /\ input_buffer' = [input_buffer EXCEPT ![input_pos] = k]
          /\ shown' = Append(shown, k)
    /\ input_pos' = input_pos + 1
    /\ UNCHANGED <<pc, argv, session, game>>

(* One more: the line and the character are dropped, a new line begins. *)
BufferFull ==
    /\ pc = "read"
    /\ input_pos = BufferSize - 1
    /\ \E k \in Printable : Getc(k)
    /\ Prompt
    /\ UNCHANGED <<input_buffer, session, game>>

(* Any other control key is ignored. *)
Ignore ==
    /\ pc = "read" /\ Getc("ESC")
    /\ UNCHANGED <<line, pc, argv, session, shown, game>>

(* shell_task_entry: the ring is empty, yield. *)
ReadNothing ==
    /\ pc = "read" /\ rx = <<>>
    /\ pc' = "yield"
    /\ UNCHANGED <<rx, line, argv, session, shown, game>>

-----------------------------------------------------------------------------
IsTimerTest == argv[1] = Timer /\ Len(argv) > 1 /\ argv[2] = Test

(* shell_execute_command for every command that just returns, and for a    *)
(* name that is not in the table.                                          *)
RunAndReturn ==
    /\ pc = "execute"
    /\ argv[1] \notin {Snake, Stress} /\ ~IsTimerTest
    /\ Prompt
    /\ UNCHANGED <<rx, input_buffer, session, game>>

(* cmd_timer test, its wait; start_tick + 5000 may wrap to less than now.  *)
RunTimerTest ==
    /\ pc = "execute" /\ IsTimerTest
    /\ pc' = "wait"
    /\ UNCHANGED <<rx, line, argv, session, shown, game>>

(* The wait ends at the target tick or with any key, which is lost. *)
TimerTestEnds ==
    /\ pc = "wait"
    /\ UNCHANGED rx \/ \E k \in Key : Getc(k)
    /\ Prompt
    /\ UNCHANGED <<input_buffer, session, game>>

(* Mutant of TimerTestWaits: the wait does not poll. *)
TimerTestWaitsDeaf ==
    /\ pc = "wait"
    /\ pc' = "wait_yield"
    /\ UNCHANGED <<rx, line, argv, session, shown, game>>

TimerTestWaits ==
    /\ pc = "wait"
    /\ rx = <<>>
    /\ pc' = "wait_yield"
    /\ UNCHANGED <<rx, line, argv, session, shown, game>>

(* cmd_stress comes to its fourth test: yield until the target tick. *)
RunStress ==
    /\ pc = "execute" /\ argv[1] = Stress
    /\ pc' = "stress"
    /\ UNCHANGED <<rx, line, argv, session, shown, game>>

StressEnds ==
    /\ pc = "stress"
    /\ Prompt
    /\ UNCHANGED <<rx, input_buffer, session, game>>

StressWaits ==
    /\ pc = "stress"
    /\ pc' = "stress_yield"
    /\ UNCHANGED <<rx, line, argv, session, shown, game>>

-----------------------------------------------------------------------------
(* cmd_snake: the board is set up and the task waits for a key. *)
RunSnake ==
    /\ pc = "execute" /\ argv[1] = Snake
    /\ GameInit
    /\ pc' = "first_key"
    /\ UNCHANGED <<rx, line, argv, session, shown>>

(* The wait polls the ring without yielding; the key is dropped. *)
FirstKey ==
    /\ pc = "first_key"
    /\ \E k \in Key : Getc(k)
    /\ pc' = "poll"
    /\ UNCHANGED <<line, argv, session, shown, game>>

(* A key but q goes to the game. *)
PollKey ==
    /\ pc = "poll"
    /\ \E k \in Key : Getc(k) /\ k \notin {"q", "Q"} /\ GameInput(k)
    /\ UNCHANGED <<line, pc, argv, session, shown>>

(* Mutant of PollNothing: the yield is made only after a move. *)
PollNothingAgain ==
    /\ pc = "poll" /\ rx = <<>>
    /\ GameUpdate \/ UNCHANGED game
    /\ pc' = IF game' # game THEN "game_yield" ELSE "poll"
    /\ UNCHANGED <<rx, line, argv, session, shown>>

(***************************************************************************)
(* No more keys: a running game moves if 200 ticks have passed; then the   *)
(* task yields, once, or twice in a row if the game does not run.          *)
(***************************************************************************)
PollNothing ==
    /\ pc = "poll" /\ rx = <<>>
    /\ GameUpdate \/ UNCHANGED game
    /\ pc' = "game_yield"
    /\ UNCHANGED <<rx, line, argv, session, shown>>

(* The key q: one move may follow, which is drawn and then forgotten.      *)
PollQuit ==
    /\ pc = "poll"
    /\ \E k \in {"q", "Q"} : Getc(k)
    /\ Forget
    /\ pc' = "last_yield"
    /\ UNCHANGED <<line, argv, session, shown>>

(* After the yield of the last round the command returns. *)
LeaveSnake ==
    /\ pc = "last_yield"
    /\ Prompt
    /\ UNCHANGED <<rx, input_buffer, session, game>>

-----------------------------------------------------------------------------
(* Where the task goes on when smart_task_yield returns. *)
Resume == [yield |-> "read", game_yield |-> "poll", wait_yield |-> "wait",
           stress_yield |-> "stress"]

Yield ==
    /\ pc \in DOMAIN Resume
    /\ pc' = Resume[pc]
    /\ UNCHANGED <<rx, line, argv, session, shown, game>>

TaskStep ==
    \/ EnterNothing \/ Enter \/ Backspace \/ Insert \/ BufferFull \/ Ignore \/ ReadNothing
    \/ RunAndReturn
    \/ RunTimerTest \/ TimerTestEnds \/ TimerTestWaits
    \/ RunStress \/ StressEnds \/ StressWaits
    \/ RunSnake \/ FirstKey \/ PollKey \/ PollQuit \/ PollNothing \/ LeaveSnake
    \/ Yield

Next == Type \/ TaskStep

Spec == Init /\ [][Next]_vars

(* The shell is a periodic task: the scheduler comes back to it. *)
FairSpec == Spec /\ WF_vars(TaskStep)

-----------------------------------------------------------------------------
TypeOK ==
    /\ rx \in Seq(Key) /\ Len(rx) <= RxSize
    /\ input_buffer \in [Index -> Printable \cup {Nul}]
    /\ input_pos \in Index
    /\ pc \in {"read", "yield", "execute"} \cup InCommand
    /\ argv \in Seq(Seq(Printable)) /\ Len(argv) <= MaxArgs
    /\ session \in Session
    /\ shown \in Seq(Printable)
    /\ GameTypeOK

(* The words of a text are the longest stretches without a space: where    *)
(* they start, the one that starts at i, and how many start up to i.       *)
WordStarts(text) ==
    {i \in DOMAIN text : text[i] # Space /\ (i = 1 \/ text[i - 1] = Space)}

WordAt(text, i) ==
    SubSeq(text, i, Max({j \in i .. Len(text) : \A k \in i .. j : text[k] # Space}))

WordCount(text, i) == Cardinality({j \in WordStarts(text) : j <= i})

(***************************************************************************)
(* What is run is what the user sees: the words given to the command are   *)
(* the first MaxArgs words of the line as the terminal shows it, whatever  *)
(* was typed, erased, refused or left in the buffer by earlier lines and   *)
(* commands.                                                               *)
(***************************************************************************)
CommandAsShown ==
    pc = "execute" =>
        /\ Len(argv) = Min({MaxArgs, WordCount(shown, Len(shown))})
        /\ \A i \in WordStarts(shown) :
              WordCount(shown, i) <= MaxArgs => argv[WordCount(shown, i)] = WordAt(shown, i)

(***************************************************************************)
(* Keys are read, whatever command is running: if the ring is not empty    *)
(* for ever, keys are taken out again and again.  The one exception is the *)
(* wait of the stress test, which looks at the clock only.                 *)
(***************************************************************************)
KeysConsumed ==
    \/ []<><<\E k \in Key : Getc(k)>>_vars
    \/ <>[](rx = <<>>)
    \/ <>[](pc \in {"stress", "stress_yield"})

(***************************************************************************)
(* The shell gives up the CPU again and again once nobody types, in every  *)
(* command and at the end of a game, except where cmd_snake waits for the  *)
(* first key (requirement 8.2 of the shell would have it yield there too). *)
(***************************************************************************)
GivesUpCpu ==
    \/ []<><<Yield \/ LeaveSnake>>_vars
    \/ <>[](pc = "first_key")
    \/ []<><<Type>>_vars
=============================================================================

------------------------------ MODULE SnakeGame ------------------------------
(***************************************************************************)
(* The snake game (user/snake_game.c): what its four entry points do to    *)
(* the board.  The caller is cmd_snake of the shell (SmartShell), which    *)
(* feeds it the keys and decides when it moves.                            *)
(*                                                                         *)
(* The body is a sequence of cells, head first; body[length] of the code   *)
(* and everything behind it is not written before the snake grows, so it   *)
(* is still the zero of memset when it does.  The score is not kept: it is *)
(* only shown.                                                             *)
(***************************************************************************)
EXTENDS Integers, Sequences

CONSTANTS Width, Height         \* SNAKE_WIDTH and SNAKE_HEIGHT, 20 and 10

(* The snake starts in the middle with two cells to its left. *)
ASSUME BoardAssumption == /\ Width \in Nat /\ Width >= 4
                          /\ Height \in Nat \ {0}

Cell   == (0 .. Width - 1) \X (0 .. Height - 1)
Zero   == <<0, 0>>
MaxLen == Width * Height                    \* SNAKE_MAX_LEN

Direction == {"UP", "DOWN", "LEFT", "RIGHT"}
Opposite  == [UP |-> "DOWN", DOWN |-> "UP", LEFT |-> "RIGHT", RIGHT |-> "LEFT"]

VARIABLES
    body, direction, food,
    game_state,
    turns           \* history: keys that turned the snake since it last moved

game == <<body, direction, food, game_state, turns>>

(* Before the first game, and again when a game is left: nobody looks. *)
NoGame ==
    /\ body = <<>> /\ direction = "UP" /\ food = Zero
    /\ game_state = "RUNNING" /\ turns = 0

Forget ==
    /\ body' = <<>> /\ direction' = "UP" /\ food' = Zero
    /\ game_state' = "RUNNING" /\ turns' = 0

Occupied(cells) == {cells[i] : i \in DOMAIN cells}

(* spawn_food: up to 100 random cells, and the last one if all are taken.  *)
SpawnFood(cells) ==
    \/ food' \in Cell \ Occupied(cells)
    \/ food' \in Occupied(cells)

StartBody ==
    [i \in 1 .. 3 |-> <<Width \div 2 - (i - 1), Height \div 2>>]

(* snake_game_init. *)
GameInit ==
    /\ body' = StartBody
    /\ direction' = "RIGHT"
    /\ SpawnFood(StartBody)
    /\ game_state' = "RUNNING"
    /\ turns' = 0

Ahead(cell, d) ==
    CASE d = "UP"    -> <<cell[1], cell[2] - 1>>
      [] d = "DOWN"  -> <<cell[1], cell[2] + 1>>
      [] d = "LEFT"  -> <<cell[1] - 1, cell[2]>>
      [] d = "RIGHT" -> <<cell[1] + 1, cell[2]>>

NewHead == Ahead(body[1], direction)

(* Every cell takes the place of the one before it. *)
Shift(cells, head) ==
    [i \in 1 .. Len(cells) |-> IF i = 1 THEN head ELSE cells[i - 1]]

(* The new head hits a wall or a cell of the snake, the last one included. *)
Crash ==
    /\ NewHead \notin Cell \/ NewHead \in Occupied(body)
    /\ game_state' = "OVER"
    /\ UNCHANGED <<body, direction, food, turns>>

Move ==
    /\ NewHead \in Cell /\ NewHead \notin Occupied(body) /\ NewHead # food
    /\ body' = Shift(body, NewHead)
    /\ turns' = 0
    /\ UNCHANGED <<direction, food, game_state>>

(* Mutant of Eat: the snake grows after it has moved. *)
EatThenGrow ==
    /\ NewHead \in Cell /\ NewHead \notin Occupied(body) /\ NewHead = food
    /\ SpawnFood(body)
    /\ body' = Append(Shift(body, NewHead), Zero)
    /\ turns' = 0
    /\ game_state' = IF Len(body') >= MaxLen THEN "WIN" ELSE game_state
    /\ UNCHANGED direction

(***************************************************************************)
(* The snake grows first: the next food avoids the old body and the unused *)
(* cell, not the new head.  With the whole board eaten the game is won and *)
(* the snake does not move any more.                                       *)
(***************************************************************************)
Eat ==
    LET longer == Append(body, Zero)
    IN  /\ NewHead \in Cell /\ NewHead \notin Occupied(body) /\ NewHead = food
        /\ SpawnFood(longer)
        /\ IF Len(longer) >= MaxLen
           THEN /\ game_state' = "WIN"
                /\ body' = longer
                /\ UNCHANGED turns
           ELSE /\ body' = Shift(longer, NewHead)
                /\ turns' = 0
                /\ UNCHANGED game_state
        /\ UNCHANGED direction

(* snake_game_update. *)
GameUpdate ==
    IF game_state = "RUNNING" THEN Crash \/ Move \/ Eat ELSE UNCHANGED game

(* Mutant of Turn: a key may reverse the snake. *)
TurnAnywhere(d) ==
    /\ direction' = d
    /\ turns' = IF d # direction /\ turns < 2 THEN turns + 1 ELSE turns
    /\ UNCHANGED <<body, food, game_state>>

(* A key turns the snake, but not to where it comes from. *)
Turn(d) ==
    /\ direction' = IF direction # Opposite[d] THEN d ELSE direction
    /\ turns' = IF direction' # direction /\ turns < 2 THEN turns + 1 ELSE turns
    /\ UNCHANGED <<body, food, game_state>>

SetState(s) == game_state' = s /\ UNCHANGED <<body, direction, food, turns>>

Capital == [w |-> "W", s |-> "S", a |-> "A", d |-> "D", p |-> "P", r |-> "R"]
Upper(key) == IF key \in DOMAIN Capital THEN Capital[key] ELSE key

Steers == [W |-> "UP", S |-> "DOWN", A |-> "LEFT", D |-> "RIGHT"]

(* The keys that mean something in a state of the game. *)
Understood(key) ==
    \/ game_state = "RUNNING" /\ key \in DOMAIN Steers \cup {"P"}
    \/ game_state = "PAUSED"  /\ key = "P"
    \/ game_state \in {"OVER", "WIN"} /\ key = "R"

(* snake_game_input. *)
GameInput(char) ==
    LET key == Upper(char)
    IN  IF ~Understood(key) THEN UNCHANGED game
        ELSE \/ key \in DOMAIN Steers /\ Turn(Steers[key])
             \/ key = "P" /\ SetState(IF game_state = "RUNNING" THEN "PAUSED" ELSE "RUNNING")
             \/ key = "R" /\ GameInit

-----------------------------------------------------------------------------
GameTypeOK ==
    /\ body \in Seq(Cell)
    /\ direction \in Direction
    /\ food \in Cell
    /\ game_state \in {"RUNNING", "PAUSED", "OVER", "WIN"}
    /\ turns \in 0 .. 2

Playing == body # <<>>

(* The cells the snake has moved through; a won game ends one cell early.  *)
Trail == SubSeq(body, 1, IF game_state = "WIN" THEN Len(body) - 1 ELSE Len(body))

Adjacent(c, e) == \E d \in Direction : Ahead(c, d) = e

(***************************************************************************)
(* Whatever keys are pressed and wherever food appears, the cells of the   *)
(* snake are different, each next to the one before it, growth included,   *)
(* and the game is won exactly when the snake fills the board.             *)
(***************************************************************************)
SnakeSound ==
    Playing =>
        /\ \A i, j \in DOMAIN Trail : Trail[i] = Trail[j] => i = j
        /\ \A i \in 2 .. Len(Trail) : Adjacent(Trail[i - 1], Trail[i])
        /\ Len(body) >= 3
        /\ game_state = "WIN" <=> Len(body) = MaxLen

(***************************************************************************)
(* The guard against reversing is applied key by key: only two keys within *)
(* one interval can turn the snake onto its own neck.                      *)
(***************************************************************************)
NeckNeedsTwoTurns ==
    Playing /\ game_state # "WIN" /\ NewHead = body[2] => turns = 2
=============================================================================

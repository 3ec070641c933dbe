-------------------------- MODULE SmartShell_proofs --------------------------
(***************************************************************************)
(* For boards of every size, buffers of every length and users who type    *)
(* anything: the snake stays a snake, one turn key never reverses it, and  *)
(* the line buffer holds what the terminal shows; and what runs are the    *)
(* words of that line.                                                     *)
(***************************************************************************)
EXTENDS SmartShell, SequenceTheorems, FiniteSetTheorems, WellFoundedInduction, TLAPS

(* The board has room for more than the first three cells. *)
LEMMA Room == MaxLen \in Nat /\ MaxLen > 3
<1>1. Width \in Nat /\ Width >= 4 /\ Height \in Nat /\ Height >= 1
  BY BoardAssumption
<1>2. Width * Height >= Width * 1
  BY <1>1
<1>3. Width * Height \in Nat
  BY <1>1
<1> QED BY <1>1, <1>2, <1>3 DEF MaxLen

LEMMA ZeroCell == Zero \in Cell
BY BoardAssumption DEF Zero, Cell

(* One cell ahead in each direction, in coordinates. *)
LEMMA AheadValue ==
    ASSUME NEW c \in Int \X Int, NEW d \in Direction
    PROVE  /\ Ahead(c, d) \in Int \X Int
           /\ d = "UP"    => Ahead(c, d)[1] = c[1] /\ Ahead(c, d)[2] = c[2] - 1
           /\ d = "DOWN"  => Ahead(c, d)[1] = c[1] /\ Ahead(c, d)[2] = c[2] + 1
           /\ d = "LEFT"  => Ahead(c, d)[1] = c[1] - 1 /\ Ahead(c, d)[2] = c[2]
           /\ d = "RIGHT" => Ahead(c, d)[1] = c[1] + 1 /\ Ahead(c, d)[2] = c[2]
BY DEF Ahead, Direction

(* Two directions lead to two cells. *)
LEMMA AheadInjective ==
    ASSUME NEW c \in Int \X Int, NEW d \in Direction, NEW e \in Direction,
           Ahead(c, d) = Ahead(c, e)
    PROVE  d = e
<1>1. c[1] \in Int /\ c[2] \in Int
  OBVIOUS
<1>2. CASE d = "UP"
  BY <1>1, <1>2 DEF Ahead, Direction
<1>3. CASE d = "DOWN"
  BY <1>1, <1>3 DEF Ahead, Direction
<1>4. CASE d = "LEFT"
  BY <1>1, <1>4 DEF Ahead, Direction
<1>5. CASE d = "RIGHT"
  BY <1>1, <1>5 DEF Ahead, Direction
<1> QED BY <1>2, <1>3, <1>4, <1>5 DEF Direction

(* Only the opposite direction leads back. *)
LEMMA AheadBack ==
    ASSUME NEW c \in Int \X Int, NEW d \in Direction, NEW e \in Direction,
           Ahead(Ahead(c, d), e) = c
    PROVE  e = Opposite[d]
<1>1. PICK x \in Int, y \in Int : c = <<x, y>>
  OBVIOUS
<1> DEFINE back(a) == Ahead(a, e)
<1>2. \A u, v \in Int : /\ e = "UP" => back(<<u, v>>) = <<u, v - 1>>
                        /\ e = "DOWN" => back(<<u, v>>) = <<u, v + 1>>
                        /\ e = "LEFT" => back(<<u, v>>) = <<u - 1, v>>
                        /\ e = "RIGHT" => back(<<u, v>>) = <<u + 1, v>>
  BY DEF Ahead
<1> HIDE DEF back
<1>3. back(Ahead(c, d)) = <<x, y>>
  BY <1>1 DEF back
<1>4. CASE d = "UP"
  <2>1. Ahead(c, d) = <<x, y - 1>>
    BY <1>1, <1>4 DEF Ahead
  <2> QED BY <1>1, <1>2, <1>3, <1>4, <2>1 DEF Direction, Opposite
<1>5. CASE d = "DOWN"
  <2>1. Ahead(c, d) = <<x, y + 1>>
    BY <1>1, <1>5 DEF Ahead
  <2> QED BY <1>1, <1>2, <1>3, <1>5, <2>1 DEF Direction, Opposite
<1>6. CASE d = "LEFT"
  <2>1. Ahead(c, d) = <<x - 1, y>>
    BY <1>1, <1>6 DEF Ahead
  <2> QED BY <1>1, <1>2, <1>3, <1>6, <2>1 DEF Direction, Opposite
<1>7. CASE d = "RIGHT"
  <2>1. Ahead(c, d) = <<x + 1, y>>
    BY <1>1, <1>7 DEF Ahead
  <2> QED BY <1>1, <1>2, <1>3, <1>7, <2>1 DEF Direction, Opposite
<1> QED BY <1>4, <1>5, <1>6, <1>7 DEF Direction

LEMMA CellInts == Cell \subseteq Int \X Int
BY BoardAssumption DEF Cell

(* The body after a move, cell by cell. *)
LEMMA ShiftValue ==
    ASSUME NEW cells \in Seq(Cell), Len(cells) >= 3, NEW head \in Cell
    PROVE  /\ Shift(cells, head) \in Seq(Cell)
           /\ Len(Shift(cells, head)) = Len(cells)
           /\ Shift(cells, head)[1] = head
           /\ \A i \in 2 .. Len(cells) : Shift(cells, head)[i] = cells[i - 1]
<1>1. Len(cells) \in Nat /\ \A i \in 1 .. Len(cells) : cells[i] \in Cell
  OBVIOUS
<1>2. \A i \in 1 .. Len(cells) : (IF i = 1 THEN head ELSE cells[i - 1]) \in Cell
  BY <1>1
<1>3. Shift(cells, head) \in [1 .. Len(cells) -> Cell]
  BY <1>1, <1>2 DEF Shift
<1>4. Shift(cells, head) \in Seq(Cell) /\ Len(Shift(cells, head)) = Len(cells)
  BY <1>1, <1>3
<1> QED BY <1>1, <1>4 DEF Shift

LEMMA AheadForth ==
    ASSUME NEW c \in Int \X Int, NEW d \in Direction
    PROVE  /\ Opposite[d] \in Direction /\ Opposite[d] # d
           /\ Ahead(Ahead(c, d), Opposite[d]) = c
<1>1. PICK x \in Int, y \in Int : c = <<x, y>>
  OBVIOUS
<1>2. CASE d = "UP"
  <2>1. Ahead(c, d) = <<x, y - 1>> /\ Opposite[d] = "DOWN"
    BY <1>1, <1>2 DEF Ahead, Opposite
  <2> QED BY <1>1, <1>2, <2>1 DEF Ahead, Direction
<1>3. CASE d = "DOWN"
  <2>1. Ahead(c, d) = <<x, y + 1>> /\ Opposite[d] = "UP"
    BY <1>1, <1>3 DEF Ahead, Opposite
  <2> QED BY <1>1, <1>3, <2>1 DEF Ahead, Direction
<1>4. CASE d = "LEFT"
  <2>1. Ahead(c, d) = <<x - 1, y>> /\ Opposite[d] = "RIGHT"
    BY <1>1, <1>4 DEF Ahead, Opposite
  <2> QED BY <1>1, <1>4, <2>1 DEF Ahead, Direction
<1>5. CASE d = "RIGHT"
  <2>1. Ahead(c, d) = <<x + 1, y>> /\ Opposite[d] = "LEFT"
    BY <1>1, <1>5 DEF Ahead, Opposite
  <2> QED BY <1>1, <1>5, <2>1 DEF Ahead, Direction
<1> QED BY <1>2, <1>3, <1>4, <1>5 DEF Direction

-----------------------------------------------------------------------------
(* Different cells, each next to the one before it. *)
Path(cells) ==
    /\ \A i, j \in 1 .. Len(cells) : cells[i] = cells[j] => i = j
    /\ \A i \in 2 .. Len(cells) : Adjacent(cells[i - 1], cells[i])

(* Where the neck lies, seen from the head, and how much turning that      *)
(* allows: none, and the snake goes straight on; one, and it does not go   *)
(* back.                                                                   *)
NeckInv ==
    \A d \in Direction : Ahead(body[1], d) = body[2] =>
        /\ turns = 0 => direction = Opposite[d]
        /\ turns = 1 => direction # d

GameInv ==
    /\ GameTypeOK
    /\ Playing =>
          /\ Len(body) >= 3 /\ Len(body) <= MaxLen
          /\ game_state = "WIN" <=> Len(body) = MaxLen
          /\ Path(Trail)
          /\ game_state # "WIN" => NeckInv

LEMMA TrailWhole ==
    ASSUME GameTypeOK, game_state # "WIN"
    PROVE  Trail = body
BY SubSeqFull DEF Trail, GameTypeOK

(* A step to a cell ahead that is free keeps the path. *)
LEMMA PathStep ==
    ASSUME NEW cells \in Seq(Cell), Len(cells) >= 3, NEW n \in {Len(cells), Len(cells) + 1},
           Path(cells),
           NEW d \in Direction, NEW head \in Cell, head = Ahead(cells[1], d),
           head \notin Occupied(cells),
           NEW moved \in Seq(Cell), Len(moved) = n, moved[1] = head,
           \A i \in 2 .. n : moved[i] = cells[i - 1]
    PROVE  Path(moved)
<1>1. Len(cells) \in Nat /\ n \in Nat /\ n <= Len(cells) + 1
      /\ \A i \in 1 .. Len(cells) : cells[i] \in Cell /\ cells[i] # head
  BY DEF Occupied
<1>2. ASSUME NEW i \in 1 .. n, NEW j \in 1 .. n, moved[i] = moved[j]
      PROVE  i = j
  <2>1. CASE i = 1 /\ j = 1
    BY <2>1
  <2>2. CASE i # 1 /\ j # 1
    <3>1. i \in 2 .. n /\ j \in 2 .. n
      BY <1>1, <2>2
    <3>2. cells[i - 1] = cells[j - 1]
      BY <1>2, <3>1
    <3>3. i - 1 \in 1 .. Len(cells) /\ j - 1 \in 1 .. Len(cells)
      BY <1>1, <3>1
    <3>4. i - 1 = j - 1
      BY <3>2, <3>3 DEF Path
    <3> QED BY <3>1, <3>4
  <2>3. CASE i = 1 /\ j # 1
    BY <1>1, <1>2, <2>3
  <2>4. CASE i # 1 /\ j = 1
    BY <1>1, <1>2, <2>4
  <2> QED BY <2>1, <2>2, <2>3, <2>4
<1>3. ASSUME NEW i \in 2 .. n PROVE Adjacent(moved[i - 1], moved[i])
  <2>1. CASE i = 2
    <3>1. cells[1] \in Int \X Int
      BY <1>1, CellInts
    <3>2. Ahead(head, Opposite[d]) = cells[1] /\ Opposite[d] \in Direction
      BY <3>1, AheadForth
    <3> QED BY <1>1, <2>1, <3>2 DEF Adjacent
  <2>2. CASE i # 2
    <3>1. i - 1 \in 2 .. Len(cells) /\ i - 1 \in 2 .. n
      BY <1>1, <2>2
    <3>2. moved[i] = cells[i - 1] /\ moved[i - 1] = cells[(i - 1) - 1]
      BY <3>1
    <3> QED BY <3>1, <3>2 DEF Path
  <2> QED BY <2>1, <2>2
<1> QED BY <1>2, <1>3 DEF Path

(* snake_game_init. *)
LEMMA GameInitCase == GameInit => GameInv' /\ Playing'
<1> SUFFICES ASSUME GameInit PROVE GameInv' /\ Playing'
  OBVIOUS
<1> DEFINE x == Width \div 2
           y == Height \div 2
<1>1. /\ x \in Nat /\ y \in Nat /\ x >= 2 /\ x < Width /\ y < Height
      /\ Width \in Nat /\ Height \in Nat
  BY BoardAssumption
<1>2. /\ body' = [i \in 1 .. 3 |-> <<x - (i - 1), y>>] /\ direction' = "RIGHT"
      /\ food' \in Cell /\ game_state' = "RUNNING" /\ turns' = 0
  <2>1. Occupied(StartBody) \subseteq Cell
    BY <1>1 DEF StartBody, Occupied, Cell
  <2> QED BY <2>1 DEF GameInit, StartBody, SpawnFood
<1> HIDE DEF x, y
<1>3. /\ body' \in Seq(Cell) /\ Len(body') = 3
      /\ body'[1] = <<x, y>> /\ body'[2] = <<x - 1, y>> /\ body'[3] = <<x - 2, y>>
  <2>1. \A i \in 1 .. 3 : <<x - (i - 1), y>> \in Cell
    BY <1>1 DEF Cell
  <2>2. body' \in [1 .. 3 -> Cell]
    BY <1>2, <2>1
  <2> QED BY <1>1, <1>2, <2>2
<1>4. GameTypeOK'
  BY <1>2, <1>3 DEF GameTypeOK, Direction
<1>5. Trail' = body'
  BY <1>2, <1>3, SubSeqFull DEF Trail
<1>6. Path(body')
  <2>1. \A i, j \in 1 .. 3 : body'[i] = body'[j] => i = j
    BY <1>1, <1>3
  <2>2. Adjacent(body'[1], body'[2]) /\ Adjacent(body'[2], body'[3])
    <3>1. Ahead(<<x, y>>, "LEFT") = <<x - 1, y>> /\ Ahead(<<x - 1, y>>, "LEFT") = <<x - 2, y>>
      BY <1>1 DEF Ahead
    <3> QED BY <1>3, <3>1 DEF Adjacent, Direction
  <2>3. \A i \in 2 .. 3 : i = 2 \/ i = 3
    OBVIOUS
  <2> QED BY <1>3, <2>1, <2>2, <2>3 DEF Path
<1>7. NeckInv'
  <2> SUFFICES ASSUME NEW d \in Direction, Ahead(body'[1], d) = body'[2]
               PROVE  direction' = Opposite[d] /\ turns' = 0
    BY <1>2 DEF NeckInv
  <2>1. Ahead(<<x, y>>, "LEFT") = <<x - 1, y>> /\ <<x, y>> \in Int \X Int
    BY <1>1 DEF Ahead
  <2>2. d = "LEFT"
    BY <1>3, <2>1, AheadInjective DEF Direction
  <2> QED BY <1>2, <2>2 DEF Opposite
<1>8. Playing'
  BY <1>3 DEF Playing
<1> QED BY <1>2, <1>3, <1>4, <1>5, <1>6, <1>7, <1>8, Room DEF GameInv

(* A step ahead, with or without growth, while the game runs on. *)
LEMMA AdvanceCase ==
    ASSUME GameInv, Playing, game_state # "WIN", game_state' = game_state,
           NEW cells \in Seq(Cell), Len(cells) \in {Len(body), Len(body) + 1},
           Len(cells) < MaxLen \/ Len(cells) = Len(body),
           \A i \in 1 .. Len(body) : cells[i] = body[i],
           NewHead \in Cell, NewHead \notin Occupied(body),
           body' = Shift(cells, NewHead), turns' = 0, direction' = direction,
           food' \in Cell
    PROVE  GameInv' /\ Playing'
<1>1. /\ body \in Seq(Cell) /\ Len(body) \in Nat /\ Len(body) >= 3 /\ Path(body)
      /\ direction \in Direction /\ Len(body) # MaxLen /\ Len(body) <= MaxLen
      /\ game_state \in {"RUNNING", "PAUSED", "OVER", "WIN"}
  BY TrailWhole DEF GameInv, GameTypeOK
<1>2. Len(cells) >= 3 /\ Len(cells) \in Nat
  BY <1>1
<1>3. /\ body' \in Seq(Cell) /\ Len(body') = Len(cells) /\ body'[1] = NewHead
      /\ \A i \in 2 .. Len(cells) : body'[i] = cells[i - 1]
  BY <1>2, ShiftValue
<1>4. \A i \in 2 .. Len(cells) : body'[i] = body[i - 1]
  <2> TAKE i \in 2 .. Len(cells)
  <2>1. i - 1 \in 1 .. Len(body)
    BY <1>1
  <2> QED BY <1>3, <2>1
<1>5. Path(body')
  BY <1>1, <1>3, <1>4, PathStep DEF NewHead
<1>6. GameTypeOK'
  BY <1>1, <1>3 DEF GameTypeOK
<1>7. Trail' = body'
  BY <1>3, SubSeqFull DEF Trail
<1>8. NeckInv'
  <2> SUFFICES ASSUME NEW d \in Direction, Ahead(body'[1], d) = body'[2]
               PROVE  direction' = Opposite[d]
    BY DEF NeckInv
  <2>1. body[1] \in Int \X Int
    BY <1>1, CellInts
  <2>2. Ahead(Ahead(body[1], direction), d) = body[1]
    BY <1>2, <1>3, <1>4 DEF NewHead
  <2>3. d = Opposite[direction]
    BY <1>1, <2>1, <2>2, AheadBack
  <2> QED BY <1>1, <2>3 DEF Direction, Opposite
<1>9. Playing'
  BY <1>2, <1>3 DEF Playing
<1>10. Len(body') >= 3 /\ Len(body') < MaxLen
  BY <1>1, <1>2, <1>3, Room
<1> QED BY <1>5, <1>6, <1>7, <1>8, <1>9, <1>10, Room DEF GameInv

(* snake_game_update. *)
LEMMA GameUpdateCase ==
    ASSUME GameInv, Playing, GameUpdate
    PROVE  GameInv' /\ Playing'
<1> USE DEF GameInv
<1>1. CASE UNCHANGED game
  BY <1>1 DEF game, GameTypeOK, Playing, Trail, Path, NeckInv
<1>2. CASE game_state = "RUNNING" /\ Crash
  <2>1. Trail' = body /\ Trail = body
    BY <1>2, SubSeqFull DEF Crash, Trail, GameTypeOK
  <2> QED BY <1>2, <2>1 DEF Crash, GameTypeOK, Playing, Path, NeckInv
<1>3. CASE game_state = "RUNNING" /\ Move
  <2>1. body \in Seq(Cell)
    BY DEF GameTypeOK
  <2> QED BY <1>3, <2>1, AdvanceCase DEF Move, GameTypeOK
<1>4. CASE game_state = "RUNNING" /\ Eat
  <2> DEFINE longer == Append(body, Zero)
  <2>1. /\ body \in Seq(Cell) /\ Len(body) \in Nat /\ Len(body) < MaxLen /\ Len(body) >= 3
    BY <1>4, Room DEF GameTypeOK
  <2>2. /\ longer \in Seq(Cell) /\ Len(longer) = Len(body) + 1
        /\ \A i \in 1 .. Len(body) : longer[i] = body[i]
    BY <2>1, ZeroCell, AppendProperties
  <2>3. food' \in Cell
    BY <1>4, <2>2 DEF Eat, SpawnFood, Occupied
  <2>4. CASE Len(longer) >= MaxLen
    <3>1. /\ body' = longer /\ game_state' = "WIN" /\ UNCHANGED <<turns, direction>>
      BY <1>4, <2>4 DEF Eat
    <3>2. Len(longer) = MaxLen
      BY <2>1, <2>2, <2>4, Room
    <3>3. Trail' = SubSeq(longer, 1, Len(body))
      <4>1. Len(body') - 1 = Len(body)
        BY <2>1, <2>2, <3>1
      <4> QED BY <3>1, <4>1 DEF Trail
    <3>4. /\ Trail' \in Seq(Cell) /\ Len(Trail') = Len(body)
          /\ \A i \in 1 .. Len(body) : Trail'[i] = body[i]
      BY <2>1, <2>2, <3>3, SubSeqProperties
    <3>5. Path(body)
      BY <1>4, TrailWhole, <2>1 DEF Playing
    <3>6. Path(Trail')
      <4>1. \A i \in 2 .. Len(body) : i - 1 \in 1 .. Len(body)
        BY <2>1
      <4> QED BY <3>4, <3>5, <4>1 DEF Path
    <3>7. GameTypeOK'
      BY <2>2, <2>3, <3>1 DEF GameTypeOK
    <3> QED BY <2>1, <2>2, <3>1, <3>2, <3>6, <3>7, Room DEF Playing
  <2>5. CASE ~(Len(longer) >= MaxLen)
    <3>1. /\ body' = Shift(longer, NewHead) /\ turns' = 0
          /\ UNCHANGED <<game_state, direction>>
          /\ NewHead \in Cell /\ NewHead \notin Occupied(body)
      BY <1>4, <2>5 DEF Eat
    <3>2. Len(longer) < MaxLen /\ Len(longer) \in {Len(body), Len(body) + 1}
      BY <2>1, <2>2, <2>5, Room
    <3> HIDE DEF longer
    <3> QED BY <1>4, <2>2, <2>3, <3>1, <3>2, AdvanceCase
  <2> QED BY <2>4, <2>5
<1> QED BY <1>1, <1>2, <1>3, <1>4 DEF GameUpdate

LEMMA TurnCase ==
    ASSUME GameInv, Playing, game_state # "WIN", NEW k \in Direction, Turn(k)
    PROVE  GameInv' /\ Playing'
<1>1. /\ direction' = IF direction # Opposite[k] THEN k ELSE direction
      /\ turns' = IF direction' # direction /\ turns < 2 THEN turns + 1 ELSE turns
      /\ UNCHANGED <<body, food, game_state>>
      /\ direction \in Direction /\ turns \in 0 .. 2
  BY DEF Turn, GameInv, GameTypeOK
<1>2. NeckInv'
  <2> SUFFICES ASSUME NEW d \in Direction, Ahead(body[1], d) = body[2]
               PROVE  /\ turns' = 0 => direction' = Opposite[d]
                      /\ turns' = 1 => direction' # d
    BY <1>1 DEF NeckInv
  <2>1. (turns = 0 => direction = Opposite[d]) /\ (turns = 1 => direction # d)
    BY DEF GameInv, NeckInv
  <2>2. Opposite[d] # d
    BY DEF Opposite, Direction
  <2>3. CASE direction' = direction
    BY <1>1, <2>1, <2>3
  <2>4. CASE direction' # direction
    BY <1>1, <2>1, <2>2, <2>4
  <2> QED BY <2>3, <2>4
<1>3. GameTypeOK'
  BY <1>1 DEF GameInv, GameTypeOK
<1>4. Trail' = Trail /\ Playing'
  BY <1>1 DEF Trail, Playing
<1> QED BY <1>1, <1>2, <1>3, <1>4 DEF GameInv

LEMMA SetStateCase ==
    ASSUME GameInv, Playing, game_state # "WIN",
           NEW s \in {"RUNNING", "PAUSED"}, SetState(s)
    PROVE  GameInv' /\ Playing'
<1>1. Trail' = Trail
  BY DEF SetState, Trail
<1> QED BY <1>1 DEF SetState, GameInv, GameTypeOK, Playing, NeckInv

(* snake_game_input. *)
LEMMA GameInputCase ==
    ASSUME GameInv, Playing, NEW char, GameInput(char)
    PROVE  GameInv' /\ Playing'
<1> DEFINE key == Upper(char)
<1>1. CASE ~Understood(key)
  <2>1. UNCHANGED game
    BY <1>1 DEF GameInput
  <2> QED BY <2>1 DEF game, GameInv, GameTypeOK, Playing, Trail, Path, NeckInv
<1>2. CASE Understood(key)
  <2> HIDE DEF key
  <2>1. CASE key \in DOMAIN Steers /\ Turn(Steers[key])
    <3>1. Steers[key] \in Direction /\ key # "P" /\ key # "R"
      BY <2>1 DEF Steers, Direction
    <3>2. game_state # "WIN"
      BY <1>2, <3>1 DEF Understood
    <3> QED BY <2>1, <3>1, <3>2, TurnCase
  <2>2. CASE key = "P" /\ SetState(IF game_state = "RUNNING" THEN "PAUSED" ELSE "RUNNING")
    BY <1>2, <2>2, SetStateCase DEF Understood
  <2>3. CASE GameInit
    BY <2>3, GameInitCase
  <2> QED BY <1>2, <2>1, <2>2, <2>3 DEF GameInput, key
<1> QED BY <1>1, <1>2

-----------------------------------------------------------------------------
(* The buffer up to the cursor is the line on the terminal.                *)
BufferAsShown ==
    /\ input_buffer \in [Index -> Printable \cup {Nul}]
    /\ shown \in Seq(Printable)
    /\ input_pos = Len(shown) /\ input_pos \in Index
    /\ \A i \in 1 .. Len(shown) : input_buffer[i - 1] = shown[i]

(* Where cmd_snake polls for keys, there is a snake. *)
ShellInv ==
    /\ GameInv
    /\ BufferAsShown
    /\ pc \in {"first_key", "poll", "game_yield"} => Playing

LEMMA ForgetCase ==
    (Forget => GameInv') /\ (NoGame => GameInv)
<1>1. <<>> \in Seq(Cell)
  OBVIOUS
<1>2. NoGame => GameTypeOK /\ ~Playing
  BY <1>1, ZeroCell DEF NoGame, GameTypeOK, Playing, Direction
<1>3. Forget => GameTypeOK' /\ ~Playing'
  BY <1>1, ZeroCell DEF Forget, GameTypeOK, Playing, Direction
<1> QED BY <1>2, <1>3 DEF GameInv

LEMMA GameUnchanged ==
    ASSUME GameInv, UNCHANGED game
    PROVE  GameInv' /\ Playing' = Playing
BY DEF game, GameInv, GameTypeOK, Playing, Trail, Path, NeckInv

LEMMA LineUnchanged ==
    ASSUME BufferAsShown, UNCHANGED <<line, shown>>
    PROVE  BufferAsShown'
BY DEF line, BufferAsShown

LEMMA PromptCase ==
    ASSUME BufferAsShown, input_buffer' \in [Index -> Printable \cup {Nul}], Prompt
    PROVE  BufferAsShown' /\ pc' = "read"
<1>1. shown' = <<>> /\ input_pos' = 0 /\ pc' = "read"
  BY DEF Prompt
<1>2. shown' \in Seq(Printable) /\ Len(shown') = 0
  BY <1>1
<1>3. 0 \in Index
  BY BufferAssumption DEF Index
<1> QED BY <1>1, <1>2, <1>3 DEF BufferAsShown

LEMMA ShellInit == Init => ShellInv
<1> SUFFICES ASSUME Init PROVE ShellInv
  OBVIOUS
<1>1. GameInv
  BY ForgetCase DEF Init
<1>2. BufferAsShown
  BY BufferAssumption DEF Init, BufferAsShown, Index
<1> QED BY <1>1, <1>2 DEF Init, ShellInv

(* Line editing: the actions of shell_process_input. *)
LEMMA EditCase ==
    ASSUME ShellInv,
           EnterNothing \/ Enter \/ Backspace \/ Insert \/ BufferFull \/ Ignore \/ ReadNothing
    PROVE  ShellInv'
<1> USE DEF ShellInv
<1>1. CASE EnterNothing \/ BufferFull
  <2>1. UNCHANGED <<input_buffer, game>> /\ Prompt
    BY <1>1 DEF EnterNothing, BufferFull
  <2>2. BufferAsShown' /\ pc' = "read"
    BY <2>1, PromptCase DEF BufferAsShown
  <2> QED BY <2>1, <2>2, GameUnchanged
<1>2. CASE Enter
  <2>1. /\ input_buffer' = [input_buffer EXCEPT ![input_pos] = Nul] /\ UNCHANGED game
        /\ Prompt \/ (pc' = "execute" /\ UNCHANGED <<input_pos, shown>>)
    BY <1>2 DEF Enter
  <2>2. input_buffer' \in [Index -> Printable \cup {Nul}]
    BY <2>1 DEF BufferAsShown
  <2>3. CASE Prompt
    BY <2>1, <2>2, <2>3, PromptCase, GameUnchanged
  <2>4. CASE pc' = "execute" /\ UNCHANGED <<input_pos, shown>>
    <3>1. \A i \in 1 .. Len(shown) : i - 1 \in Index /\ i - 1 # input_pos
      <4>1. /\ Len(shown) \in Nat /\ input_pos = Len(shown)
            /\ input_pos \in 0 .. BufferSize - 1 /\ BufferSize \in Nat
        BY BufferAssumption DEF BufferAsShown, Index
      <4> QED BY <4>1 DEF Index
    <3>2. BufferAsShown'
      BY <2>1, <2>2, <2>4, <3>1 DEF BufferAsShown
    <3> QED BY <2>1, <2>4, <3>2, GameUnchanged
  <2> QED BY <2>1, <2>3, <2>4
<1>3. CASE Backspace
  <2>1. /\ UNCHANGED <<input_buffer, pc, game>>
        /\ input_pos' = IF input_pos > 0 THEN input_pos - 1 ELSE 0
        /\ shown' = IF shown # <<>> THEN Front(shown) ELSE shown
    BY <1>3 DEF Backspace
  <2>2. shown \in Seq(Printable) /\ input_pos = Len(shown) /\ input_pos \in Index
    BY DEF BufferAsShown
  <2>3. CASE shown = <<>>
    <3>1. UNCHANGED <<line, shown>>
      BY <2>1, <2>2, <2>3 DEF line
    <3> QED BY <2>1, <3>1, LineUnchanged, GameUnchanged
  <2>4. CASE shown # <<>>
    <3>1. /\ shown' \in Seq(Printable) /\ Len(shown') = Len(shown) - 1
          /\ \A i \in 1 .. Len(shown) - 1 : shown'[i] = shown[i]
      <4>1. Len(shown) \in Nat /\ Len(shown) >= 1
        BY <2>2, <2>4
      <4>2. shown' = SubSeq(shown, 1, Len(shown) - 1)
        BY <2>1, <2>4 DEF Front
      <4> QED BY <2>2, <4>1, <4>2, SubSeqProperties
    <3>2. input_pos' = Len(shown') /\ input_pos' \in Index
      <4>1. Len(shown) \in Nat /\ Len(shown) >= 1
        BY <2>2, <2>4
      <4> QED BY <2>1, <2>2, <3>1, <4>1, BufferAssumption DEF Index
    <3>3. BufferAsShown'
      BY <2>1, <2>2, <3>1, <3>2 DEF BufferAsShown
    <3> QED BY <2>1, <3>3, GameUnchanged
  <2> QED BY <2>3, <2>4
<1>4. CASE Insert
  <2>1. PICK k \in Printable :
          /\ input_buffer' = [input_buffer EXCEPT ![input_pos] = k]
          /\ shown' = Append(shown, k)
          /\ input_pos' = input_pos + 1 /\ input_pos < BufferSize - 1
          /\ UNCHANGED <<pc, game>>
    BY <1>4 DEF Insert
  <2>2. shown \in Seq(Printable) /\ input_pos = Len(shown) /\ input_pos \in Index
    BY DEF BufferAsShown
  <2>3. /\ shown' \in Seq(Printable) /\ Len(shown') = Len(shown) + 1
        /\ shown'[Len(shown) + 1] = k
        /\ \A i \in 1 .. Len(shown) : shown'[i] = shown[i]
    BY <2>1, <2>2, AppendProperties
  <2>4. input_pos' = Len(shown') /\ input_pos' \in Index
    BY <2>1, <2>2, <2>3, BufferAssumption DEF Index
  <2>5. input_buffer' \in [Index -> Printable \cup {Nul}]
    BY <2>1, <2>2 DEF BufferAsShown
  <2>6. \A i \in 1 .. Len(shown) + 1 : i - 1 \in Index
    BY <2>1, <2>2, BufferAssumption DEF Index
  <2>7. \A i \in 1 .. Len(shown') : input_buffer'[i - 1] = shown'[i]
    <3> TAKE i \in 1 .. Len(shown')
    <3>1. CASE i = Len(shown) + 1
      BY <2>1, <2>2, <2>3, <3>1 DEF BufferAsShown
    <3>2. CASE i # Len(shown) + 1
      <4>1. i \in 1 .. Len(shown) /\ i - 1 # input_pos /\ i - 1 \in Index
        BY <2>2, <2>3, <2>6, <3>2
      <4> QED BY <2>1, <2>3, <4>1 DEF BufferAsShown
    <3> QED BY <3>1, <3>2
  <2>8. BufferAsShown'
    BY <2>3, <2>4, <2>5, <2>7 DEF BufferAsShown
  <2> QED BY <2>1, <2>8, GameUnchanged
<1>5. CASE Ignore \/ ReadNothing
  <2>1. UNCHANGED <<line, shown, game>> /\ (pc' = pc \/ pc' = "yield")
    BY <1>5 DEF Ignore, ReadNothing
  <2> QED BY <2>1, LineUnchanged, GameUnchanged
<1> QED BY <1>1, <1>2, <1>3, <1>4, <1>5

(* Commands other than snake, and yields, touch neither line nor board.    *)
LEMMA CommandCase ==
    ASSUME ShellInv,
           \/ RunAndReturn \/ RunTimerTest \/ TimerTestEnds \/ TimerTestWaits
           \/ RunStress \/ StressEnds \/ StressWaits \/ Yield \/ LeaveSnake \/ Type
    PROVE  ShellInv'
<1> USE DEF ShellInv
<1>1. CASE RunAndReturn \/ TimerTestEnds \/ StressEnds \/ LeaveSnake
  <2>1. UNCHANGED <<input_buffer, game>> /\ Prompt
    BY <1>1 DEF RunAndReturn, TimerTestEnds, StressEnds, LeaveSnake
  <2>2. BufferAsShown' /\ pc' = "read"
    BY <2>1, PromptCase DEF BufferAsShown
  <2> QED BY <2>1, <2>2, GameUnchanged
<1>2. CASE RunTimerTest \/ TimerTestWaits \/ RunStress \/ StressWaits
  <2>1. /\ UNCHANGED <<line, shown, game>>
        /\ pc' \in {"wait", "wait_yield", "stress", "stress_yield"}
    BY <1>2 DEF RunTimerTest, TimerTestWaits, RunStress, StressWaits
  <2> QED BY <2>1, LineUnchanged, GameUnchanged
<1>3. CASE Yield
  <2>1. /\ UNCHANGED <<line, shown, game>>
        /\ pc' \in {"first_key", "poll", "game_yield"} => pc = "game_yield"
    BY <1>3 DEF Yield, Resume
  <2> QED BY <2>1, LineUnchanged, GameUnchanged
<1>4. CASE Type
  <2>1. UNCHANGED <<line, shown, game, pc>>
    BY <1>4 DEF Type
  <2> QED BY <2>1, LineUnchanged, GameUnchanged
<1> QED BY <1>1, <1>2, <1>3, <1>4

(* The game is played inside cmd_snake only. *)
LEMMA SnakeCase ==
    ASSUME ShellInv, RunSnake \/ FirstKey \/ PollKey \/ PollQuit \/ PollNothing
    PROVE  ShellInv'
<1> USE DEF ShellInv
<1>0. UNCHANGED <<line, shown>>
  BY DEF RunSnake, FirstKey, PollKey, PollQuit, PollNothing
<1>1. CASE RunSnake
  BY <1>0, <1>1, LineUnchanged, GameInitCase DEF RunSnake
<1>2. CASE FirstKey
  <2>1. UNCHANGED game /\ pc = "first_key"
    BY <1>2 DEF FirstKey
  <2> QED BY <1>0, <2>1, LineUnchanged, GameUnchanged
<1>3. CASE PollKey
  <2>1. PICK k \in Key : GameInput(k)
    BY <1>3 DEF PollKey
  <2>2. Playing
    BY <1>3 DEF PollKey
  <2> QED BY <1>0, <2>1, <2>2, LineUnchanged, GameInputCase
<1>4. CASE PollQuit
  BY <1>0, <1>4, LineUnchanged, ForgetCase DEF PollQuit
<1>5. CASE PollNothing
  <2>1. Playing /\ (GameUpdate \/ UNCHANGED game)
    BY <1>5 DEF PollNothing
  <2> QED BY <1>0, <2>1, LineUnchanged, GameUnchanged, GameUpdateCase
<1> QED BY <1>1, <1>2, <1>3, <1>4, <1>5

LEMMA ShellStep == ShellInv /\ [Next]_vars => ShellInv'
<1> SUFFICES ASSUME ShellInv, [Next]_vars PROVE ShellInv'
  OBVIOUS
<1>1. CASE UNCHANGED vars
  <2>1. UNCHANGED <<line, shown, game, pc>>
    BY <1>1 DEF vars
  <2> QED BY <2>1, LineUnchanged, GameUnchanged DEF ShellInv
<1>2. CASE Next
  BY <1>2, EditCase, CommandCase, SnakeCase DEF Next, TaskStep
<1> QED BY <1>1, <1>2

(***************************************************************************)
(* The snake's cells are different and connected and a full board wins, on *)
(* boards of every size, whatever is typed and wherever food appears.      *)
(***************************************************************************)
THEOREM SnakeCorrect == Spec => []SnakeSound
<1>1. ShellInv => SnakeSound
  <2> SUFFICES ASSUME ShellInv, Playing PROVE SnakeSound
    BY DEF SnakeSound
  <2>1. /\ Path(Trail) /\ Len(body) >= 3 /\ (game_state = "WIN" <=> Len(body) = MaxLen)
        /\ body \in Seq(Cell)
    BY DEF ShellInv, GameInv, GameTypeOK
  <2>2. Trail \in Seq(Cell)
    BY <2>1, SubSeqProperties DEF Trail
  <2>3. DOMAIN Trail = 1 .. Len(Trail)
    BY <2>2
  <2> QED BY <2>1, <2>3 DEF SnakeSound, Path
<1> QED BY <1>1, ShellInit, ShellStep, PTL DEF Spec

(* One key within an interval between moves never turns the snake back.    *)
THEOREM NeckCorrect == Spec => []NeckNeedsTwoTurns
<1>1. ShellInv => NeckNeedsTwoTurns
  <2> SUFFICES ASSUME ShellInv, Playing, game_state # "WIN", NewHead = body[2]
               PROVE  turns = 2
    BY DEF NeckNeedsTwoTurns
  <2>1. direction \in Direction /\ turns \in 0 .. 2 /\ Ahead(body[1], direction) = body[2]
    BY DEF ShellInv, GameInv, GameTypeOK, NewHead
  <2>2. (turns = 0 => direction = Opposite[direction]) /\ (turns = 1 => direction # direction)
    BY <2>1 DEF ShellInv, GameInv, NeckInv
  <2> QED BY <2>1, <2>2 DEF Direction, Opposite
<1> QED BY <1>1, ShellInit, ShellStep, PTL DEF Spec

(***************************************************************************)
(* What return hands to the parser is the line on the terminal: the buffer *)
(* agrees with it up to the cursor, for buffers of every length.           *)
(***************************************************************************)
THEOREM LineCorrect == Spec => []BufferAsShown
<1>1. ShellInv => BufferAsShown
  BY DEF ShellInv
<1> QED BY <1>1, ShellInit, ShellStep, PTL DEF Spec

-----------------------------------------------------------------------------
(* Induction on a set of numbers takes the form of its least element. *)

LEMMA LeastNumber ==
    ASSUME NEW T, T \subseteq Nat, T # {}
    PROVE  \E n \in T : \A m \in T : n <= m
<1>1. PICK n \in T : \A m \in T : ~(<<m, n>> \in OpToRel(<, Nat))
  BY NatLessThanWellFounded, WFMin
<1>2. \A m \in T : ~(m < n)
  BY <1>1 DEF OpToRel
<1> QED BY <1>2

(* So a set of numbers with 0 and with the successor of each member below  *)
(* a bound has every number up to that bound.                              *)
LEMMA UpTo ==
    ASSUME NEW N \in Nat, NEW T, 0 \in T, \A n \in T : n \in Nat /\ n < N => n + 1 \in T
    PROVE  0 .. N \subseteq T
<1> SUFFICES ASSUME (0 .. N) \ T # {} PROVE FALSE
  OBVIOUS
<1>1. PICK n \in (0 .. N) \ T : \A m \in (0 .. N) \ T : n <= m
  <2>1. (0 .. N) \ T \subseteq Nat
    OBVIOUS
  <2> QED BY <2>1, LeastNumber
<1>2. n # 0 /\ n - 1 \in 0 .. N
  BY <1>1
<1>3. n - 1 \in T
  BY <1>1, <1>2
<1>4. (n - 1) + 1 \in T
  BY <1>1, <1>2, <1>3
<1> QED BY <1>1, <1>4

-----------------------------------------------------------------------------
(* shell_parse_command.                                                    *)

(* The recursive function of ParseLoop is the loop it describes. *)
LEMMA LoopSteps ==
    ASSUME NEW text \in Seq(Printable)
    PROVE  /\ ParseLoop(text)[0] = [words |-> <<>>, start |-> 0]
           /\ \A n \in 1 .. Len(text) :
                 ParseLoop(text)[n] = ParseChar(ParseLoop(text)[n - 1], text, n)
<1> DEFINE L == Len(text)
           Graph(f, k) == f = [n \in 0 .. k |-> IF n = 0 THEN [words |-> <<>>, start |-> 0]
                                                ELSE ParseChar(f[n - 1], text, n)]
           T == {k \in Nat : \E f : Graph(f, k)}
<1>0. L \in Nat
  OBVIOUS
<1>1. 0 \in T
  <2>1. Graph([n \in 0 .. 0 |-> [words |-> <<>>, start |-> 0]], 0)
    OBVIOUS
  <2> QED BY <2>1
<1>2. ASSUME NEW k \in T PROVE k + 1 \in T
  <2>1. PICK f : Graph(f, k)
    OBVIOUS
  <2> DEFINE g == [n \in 0 .. k + 1 |->
                      IF n = k + 1 THEN ParseChar(f[k], text, k + 1) ELSE f[n]]
  <2>2. \A n \in 0 .. k + 1 : g[n] = IF n = 0 THEN [words |-> <<>>, start |-> 0]
                                     ELSE ParseChar(g[n - 1], text, n)
    <3> TAKE n \in 0 .. k + 1
    <3>1. \A m \in 0 .. k : f[m] = IF m = 0 THEN [words |-> <<>>, start |-> 0]
                                   ELSE ParseChar(f[m - 1], text, m)
      BY <2>1
    <3>2. CASE n = k + 1
      BY <3>2
    <3>3. CASE n \in 0 .. k
      BY <3>1, <3>3
    <3> QED BY <3>2, <3>3
  <2>3. Graph(g, k + 1)
    BY <2>2
  <2>4. k + 1 \in Nat /\ \E w : Graph(w, k + 1)
    <3> HIDE DEF g, Graph
    <3> QED BY <2>3
  <2> QED BY <2>4
<1>3. L \in T
  <2> HIDE DEF T, L
  <2>1. 0 .. L \subseteq T
    BY <1>0, <1>1, <1>2, UpTo
  <2> QED BY <1>0, <2>1
<1>4. Graph(ParseLoop(text), L)
  <2>1. PICK f : Graph(f, L)
    BY <1>3
  <2>2. ParseLoop(text) = CHOOSE w : Graph(w, L)
    BY DEF ParseLoop
  <2> QED BY <2>1, <2>2
<1>5. \A f : Graph(f, L) =>
          /\ f[0] = [words |-> <<>>, start |-> 0]
          /\ \A n \in 1 .. L : f[n] = ParseChar(f[n - 1], text, n)
  BY <1>0
<1> QED BY <1>4, <1>5

(* How many words start up to i. *)
LEMMA CountSteps ==
    ASSUME NEW text \in Seq(Printable)
    PROVE  /\ WordCount(text, 0) = 0
           /\ \A i \in 1 .. Len(text) :
                 /\ WordCount(text, i - 1) \in Nat
                 /\ WordCount(text, i) = IF i \in WordStarts(text)
                                         THEN WordCount(text, i - 1) + 1
                                         ELSE WordCount(text, i - 1)
<1> DEFINE Up(i) == {j \in WordStarts(text) : j <= i}
<1>0. WordStarts(text) \subseteq 1 .. Len(text) /\ Len(text) \in Nat
  BY DEF WordStarts
<1>1. Up(0) = {}
  BY <1>0
<1>2. WordCount(text, 0) = 0
  BY <1>1, FS_EmptySet DEF WordCount
<1>3. ASSUME NEW i \in 1 .. Len(text)
      PROVE  /\ WordCount(text, i - 1) \in Nat
             /\ WordCount(text, i) = IF i \in WordStarts(text)
                                     THEN WordCount(text, i - 1) + 1
                                     ELSE WordCount(text, i - 1)
  <2>1. IsFiniteSet(Up(i - 1))
    <3>1. Up(i - 1) \subseteq 1 .. Len(text)
      BY <1>0
    <3>2. IsFiniteSet(1 .. Len(text))
      BY <1>0, FS_Interval
    <3> QED BY <3>1, <3>2, FS_Subset
  <2>2. Up(i) = IF i \in WordStarts(text) THEN Up(i - 1) \cup {i} ELSE Up(i - 1)
    BY <1>0
  <2>3. i \notin Up(i - 1)
    BY <1>0
  <2> HIDE DEF Up
  <2>4. Cardinality(Up(i - 1)) \in Nat
        /\ Cardinality(Up(i - 1) \cup {i}) = Cardinality(Up(i - 1)) + 1
    BY <2>1, <2>3, FS_AddElement, FS_CardinalityType
  <2>5. WordCount(text, i) = Cardinality(Up(i))
        /\ WordCount(text, i - 1) = Cardinality(Up(i - 1))
    BY DEF WordCount, Up
  <2> QED BY <2>2, <2>4, <2>5
<1> QED BY <1>2, <1>3

(* A word that nothing interrupts up to e is the whole word if the text or *)
(* the word ends there.                                                    *)
LEMMA WordEnds ==
    ASSUME NEW text \in Seq(Printable), NEW i \in 1 .. Len(text), NEW e \in i .. Len(text),
           \A k \in i .. e : text[k] # Space,
           e = Len(text) \/ text[e + 1] = Space
    PROVE  WordAt(text, i) = SubSeq(text, i, e)
<1> DEFINE S == {j \in i .. Len(text) : \A k \in i .. j : text[k] # Space}
<1>1. e \in S
  OBVIOUS
<1>2. \A j \in S : e >= j
  <2> SUFFICES ASSUME NEW j \in S, e < j PROVE FALSE
    OBVIOUS
  <2>1. e + 1 \in i .. j /\ e + 1 <= Len(text)
    OBVIOUS
  <2> QED BY <2>1
<1> HIDE DEF S
<1>3. S \subseteq Int
  BY DEF S
<1>4. Max(S) = e
  <2>1. Max(S) \in S /\ \A j \in S : Max(S) >= j
    BY <1>1, <1>2 DEF Max
  <2>2. Max(S) \in Int /\ e \in Int
    BY <1>1, <1>3, <2>1
  <2>3. e >= Max(S) /\ Max(S) >= e
    BY <1>1, <1>2, <2>1
  <2> HIDE DEF Max
  <2> QED BY <2>2, <2>3
<1> QED BY <1>4 DEF WordAt, S

(* What the loop holds after n characters. *)
Parsed(at, text, n) ==
    /\ at.words \in Seq(Seq(Printable)) /\ Len(at.words) <= MaxArgs
    /\ at.start \in 0 .. n
    /\ at = [words |-> at.words, start |-> at.start]
    /\ \A i \in WordStarts(text) : 
          i <= n /\ i # at.start /\ WordCount(text, i) <= MaxArgs =>
              /\ WordCount(text, i) \in 1 .. Len(at.words)
              /\ at.words[WordCount(text, i)] = WordAt(text, i)
    /\ Len(at.words) = MaxArgs => at.start = 0 /\ WordCount(text, n) >= MaxArgs
    /\ Len(at.words) < MaxArgs =>
          IF at.start = 0
          THEN /\ n > 0 => text[n] = Space
               /\ WordCount(text, n) = Len(at.words)
          ELSE /\ at.start \in WordStarts(text)
               /\ \A k \in at.start .. n : text[k] # Space
               /\ WordCount(text, n) = Len(at.words) + 1
               /\ WordCount(text, at.start) = Len(at.words) + 1

LEMMA ParseStep ==
    ASSUME NEW text \in Seq(Printable), NEW n \in 1 .. Len(text), NEW at,
           Parsed(at, text, n - 1)
    PROVE  Parsed(ParseChar(at, text, n), text, n)
<1> DEFINE new == ParseChar(at, text, n)
           R(i) == WordCount(text, i)
           full == Len(at.words) = MaxArgs
<1>0. /\ MaxArgs \in Nat \ {0} /\ Len(text) \in Nat /\ n \in Nat /\ n - 1 \in Nat
      /\ at.words \in Seq(Seq(Printable)) /\ Len(at.words) \in Nat
      /\ WordStarts(text) \subseteq 1 .. Len(text)
      /\ at.start \in Nat /\ at.start < n
      /\ Len(at.words) <= MaxArgs
  BY BufferAssumption DEF WordStarts, Parsed
<1>1. /\ R(n - 1) \in Nat
      /\ R(n) = IF n \in WordStarts(text) THEN R(n - 1) + 1 ELSE R(n - 1)
  BY CountSteps
<1>2. n \in WordStarts(text) <=> text[n] # Space /\ (n = 1 \/ text[n - 1] = Space)
  BY DEF WordStarts
<1>3. \A i \in WordStarts(text) : i <= n => i = n \/ i <= n - 1
  BY <1>0
<1> HIDE DEF R
<1>4. CASE full
  <2>1. new = at
    BY <1>4 DEF ParseChar
  <2>2. at.start = 0 /\ R(n - 1) >= MaxArgs
    BY <1>4 DEF Parsed, R
  <2>3. R(n) >= MaxArgs /\ (n \in WordStarts(text) => R(n) > MaxArgs)
    BY <1>0, <1>1, <2>2
  <2>4. ASSUME NEW i \in WordStarts(text), i <= n, R(i) <= MaxArgs
        PROVE  R(i) \in 1 .. Len(at.words) /\ at.words[R(i)] = WordAt(text, i)
    <3>1. i # n
      BY <1>0, <1>1, <2>3, <2>4
    <3>2. i <= n - 1 /\ i # at.start
      BY <1>0, <1>3, <2>2, <2>4, <3>1
    <3> QED BY <2>4, <3>2 DEF Parsed, R
  <2> QED BY <1>0, <1>4, <2>1, <2>2, <2>3, <2>4 DEF Parsed, R
<1>5. CASE ~full /\ text[n] # Space /\ at.start = 0
  <2>1. new = [words |-> at.words, start |-> n]
    BY <1>5 DEF ParseChar
  <2>2. n \in WordStarts(text) /\ R(n - 1) = Len(at.words)
    BY <1>0, <1>2, <1>5 DEF Parsed, R
  <2>3. R(n) = Len(at.words) + 1
    BY <1>1, <2>2
  <2>4. ASSUME NEW i \in WordStarts(text), i <= n, i # n, R(i) <= MaxArgs
        PROVE  R(i) \in 1 .. Len(at.words) /\ at.words[R(i)] = WordAt(text, i)
    <3>1. i <= n - 1 /\ i # at.start
      BY <1>0, <1>3, <1>5, <2>4
    <3> QED BY <2>4, <3>1 DEF Parsed, R
  <2>5. \A k \in n .. n : text[k] # Space
    BY <1>5
  <2> QED BY <1>0, <1>5, <2>1, <2>2, <2>3, <2>4, <2>5 DEF Parsed, R
<1>6. CASE ~full /\ text[n] # Space /\ at.start # 0
  <2>1. new = at
    BY <1>6 DEF ParseChar, Parsed
  <2>2. /\ at.start \in WordStarts(text) /\ R(n - 1) = Len(at.words) + 1
        /\ R(at.start) = Len(at.words) + 1
        /\ \A k \in at.start .. n - 1 : text[k] # Space
    BY <1>0, <1>6 DEF Parsed, R
  <2>3. n \notin WordStarts(text)
    BY <1>0, <1>2, <2>2
  <2>4. R(n) = Len(at.words) + 1
    BY <1>1, <2>2, <2>3
  <2>5. ASSUME NEW i \in WordStarts(text), i <= n, i # at.start, R(i) <= MaxArgs
        PROVE  R(i) \in 1 .. Len(at.words) /\ at.words[R(i)] = WordAt(text, i)
    <3>1. i <= n - 1
      BY <1>3, <2>3, <2>5
    <3> QED BY <2>5, <3>1 DEF Parsed, R
  <2>6. \A k \in at.start .. n : text[k] # Space
    BY <1>0, <1>6, <2>2
  <2>7. at.start \in 0 .. n
    BY <1>0
  <2> QED BY <1>0, <1>6, <2>1, <2>2, <2>4, <2>5, <2>6, <2>7 DEF Parsed, R
<1>7. CASE ~full /\ text[n] = Space /\ at.start = 0
  <2>1. new = at
    BY <1>7 DEF ParseChar
  <2>2. n \notin WordStarts(text) /\ R(n - 1) = Len(at.words)
    BY <1>0, <1>2, <1>7 DEF Parsed, R
  <2>3. R(n) = Len(at.words)
    BY <1>1, <2>2
  <2>4. ASSUME NEW i \in WordStarts(text), i <= n, R(i) <= MaxArgs
        PROVE  R(i) \in 1 .. Len(at.words) /\ at.words[R(i)] = WordAt(text, i)
    <3>1. i <= n - 1 /\ i # at.start
      BY <1>0, <1>3, <1>7, <2>2, <2>4
    <3> QED BY <2>4, <3>1 DEF Parsed, R
  <2> QED BY <1>0, <1>7, <2>1, <2>3, <2>4 DEF Parsed, R
<1>8. CASE ~full /\ text[n] = Space /\ at.start # 0
  <2> DEFINE word == SubSeq(text, at.start, n - 1)
  <2>1. new = [words |-> Append(at.words, word), start |-> 0]
    BY <1>8 DEF ParseChar
  <2>2. /\ at.start \in WordStarts(text) /\ R(n - 1) = Len(at.words) + 1
        /\ R(at.start) = Len(at.words) + 1
        /\ \A k \in at.start .. n - 1 : text[k] # Space
    BY <1>0, <1>8 DEF Parsed, R
  <2>3. n \notin WordStarts(text)
    BY <1>2, <1>8
  <2>4. R(n) = Len(at.words) + 1
    BY <1>1, <2>2, <2>3
  <2>5. word = WordAt(text, at.start)
    <3>1. at.start \in 1 .. Len(text) /\ n - 1 \in at.start .. Len(text) /\ (n - 1) + 1 = n
      BY <1>0, <2>2
    <3> QED BY <1>8, <2>2, <3>1, WordEnds
  <2>6. word \in Seq(Printable)
    <3>1. at.start \in 1 .. Len(text) + 1 /\ n - 1 \in at.start - 1 .. Len(text)
      BY <1>0, <2>2
    <3> QED BY <3>1, SubSeqProperties
  <2> HIDE DEF word
  <2>7. /\ Append(at.words, word) \in Seq(Seq(Printable))
        /\ Len(Append(at.words, word)) = Len(at.words) + 1
        /\ Append(at.words, word)[Len(at.words) + 1] = word
        /\ \A k \in 1 .. Len(at.words) : Append(at.words, word)[k] = at.words[k]
    BY <1>0, <2>6, AppendProperties
  <2>8. ASSUME NEW i \in WordStarts(text), i <= n, R(i) <= MaxArgs
        PROVE  /\ R(i) \in 1 .. Len(at.words) + 1
               /\ Append(at.words, word)[R(i)] = WordAt(text, i)
    <3>1. CASE i = at.start
      BY <1>0, <2>2, <2>5, <2>7, <3>1
    <3>2. CASE i # at.start
      <4>1. i <= n - 1
        BY <1>3, <2>3, <2>8
      <4>2. R(i) \in 1 .. Len(at.words) /\ at.words[R(i)] = WordAt(text, i)
        BY <2>8, <3>2, <4>1 DEF Parsed, R
      <4> QED BY <1>0, <2>7, <4>2
    <3> QED BY <3>1, <3>2
  <2>9. Len(at.words) + 1 <= MaxArgs
    BY <1>0, <1>8
  <2>10. new.words = Append(at.words, word) /\ new.start = 0 /\ 0 \in 0 .. n
         /\ new = [words |-> new.words, start |-> new.start]
    BY <1>0, <2>1
  <2> HIDE DEF new
  <2> QED BY <1>0, <1>8, <2>4, <2>7, <2>8, <2>9, <2>10 DEF Parsed, R, new
<1> QED BY <1>4, <1>5, <1>6, <1>7, <1>8

(* What shell_parse_command returns. *)
FirstWords(words, text) ==
    /\ words \in Seq(Seq(Printable)) /\ Len(words) <= MaxArgs
    /\ Len(words) = Min({MaxArgs, WordCount(text, Len(text))})
    /\ \A i \in WordStarts(text) :
          WordCount(text, i) <= MaxArgs => words[WordCount(text, i)] = WordAt(text, i)

LEMMA MinOfTwo ==
    ASSUME NEW x \in Nat, NEW y \in Nat
    PROVE  Min({x, y}) = IF x <= y THEN x ELSE y
<1>1. PICK m \in {x, y} : \A z \in {x, y} : m <= z
  <2>1. CASE x <= y
    BY <2>1
  <2>2. CASE y <= x
    BY <2>2
  <2> QED BY <2>1, <2>2
<1>2. /\ Min({x, y}) \in {x, y}
      /\ \A z \in {x, y} : Min({x, y}) <= z
  BY <1>1 DEF Min
<1> HIDE DEF Min
<1>3. Min({x, y}) \in Nat /\ Min({x, y}) <= x /\ Min({x, y}) <= y
  BY <1>2
<1> QED BY <1>2, <1>3

LEMMA ParseWords ==
    ASSUME NEW text \in Seq(Printable)
    PROVE  FirstWords(Parse(text), text)
<1> DEFINE L == Len(text)
           at == ParseLoop(text)
           T == {n \in Nat : n <= L => Parsed(at[n], text, n)}
           done == at[L]
           c == WordCount(text, L)
<1>0. L \in Nat /\ MaxArgs \in Nat \ {0} /\ WordStarts(text) \subseteq 1 .. L
  BY BufferAssumption DEF WordStarts
<1>1. 0 \in T
  <2> DEFINE none == [words |-> <<>>, start |-> 0]
  <2>1. at[0] = none
    BY LoopSteps
  <2>2. none.words = <<>> /\ none.start = 0 /\ 0 \in 0 .. 0
        /\ <<>> \in Seq(Seq(Printable)) /\ Len(<<>>) = 0
    OBVIOUS
  <2>3. \A i \in WordStarts(text) : ~(i <= 0)
    BY <1>0
  <2>4. Parsed(none, text, 0)
    BY <1>0, <2>2, <2>3, CountSteps DEF Parsed
  <2> QED BY <2>1, <2>4
<1>2. ASSUME NEW n \in T, n < L PROVE n + 1 \in T
  <2>1. n + 1 \in 1 .. L /\ (n + 1) - 1 = n /\ Parsed(at[n], text, n)
    BY <1>0, <1>2
  <2>2. at[n + 1] = ParseChar(at[n], text, n + 1)
    BY <2>1, LoopSteps
  <2>3. Parsed(at[n + 1], text, n + 1)
    BY <2>1, <2>2, ParseStep
  <2> QED BY <2>3
<1>3. Parsed(done, text, L)
  <2>1. 0 .. L \subseteq T
    <3> HIDE DEF T, L
    <3> QED BY <1>0, <1>1, <1>2, UpTo
  <2>2. L \in T
    BY <1>0, <2>1
  <2> QED BY <2>2
<1>4. c \in Nat
  <2>1. CASE L = 0
    <3>1. WordCount(text, 0) = 0
      BY CountSteps
    <3>2. c = WordCount(text, 0)
      BY <2>1
    <3> QED BY <3>1, <3>2
  <2>2. CASE L # 0
    <3>1. L \in 1 .. L
      BY <1>0, <2>2
    <3> QED BY <3>1, CountSteps
  <2> QED BY <2>1, <2>2
<1>5. Min({MaxArgs, c}) = IF MaxArgs <= c THEN MaxArgs ELSE c
  BY <1>0, <1>4, MinOfTwo
<1>6. Parse(text) = IF done.start # 0 /\ Len(done.words) < MaxArgs
                    THEN Append(done.words, SubSeq(text, done.start, L))
                    ELSE done.words
  BY DEF Parse
<1> HIDE DEF at, done, L, c
<1>7. done.words \in Seq(Seq(Printable)) /\ Len(done.words) \in Nat /\ Len(done.words) <= MaxArgs
  BY <1>3 DEF Parsed
<1>8. CASE Len(done.words) = MaxArgs
  <2>1. Parse(text) = done.words
    BY <1>6, <1>8
  <2>2. c >= MaxArgs /\ done.start = 0
    BY <1>3, <1>8 DEF Parsed, c
  <2>3. \A i \in WordStarts(text) :
            WordCount(text, i) <= MaxArgs => done.words[WordCount(text, i)] = WordAt(text, i)
    BY <1>0, <1>3, <2>2 DEF Parsed
  <2>4. Len(done.words) = Min({MaxArgs, c})
    BY <1>0, <1>4, <1>5, <1>8, <2>2
  <2> QED BY <1>7, <2>1, <2>3, <2>4 DEF FirstWords, c, L
<1>9. CASE Len(done.words) < MaxArgs /\ done.start = 0
  <2>1. Parse(text) = done.words
    BY <1>6, <1>9
  <2>2. c = Len(done.words)
    BY <1>3, <1>9 DEF Parsed, c
  <2>3. \A i \in WordStarts(text) :
            WordCount(text, i) <= MaxArgs => done.words[WordCount(text, i)] = WordAt(text, i)
    BY <1>0, <1>3, <1>9 DEF Parsed
  <2>4. Len(done.words) = Min({MaxArgs, c})
    BY <1>0, <1>4, <1>5, <1>9, <2>2
  <2> QED BY <1>7, <2>1, <2>3, <2>4 DEF FirstWords, c, L
<1>10. CASE Len(done.words) < MaxArgs /\ done.start # 0
  <2> DEFINE word == SubSeq(text, done.start, L)
  <2>1. Parse(text) = Append(done.words, word)
    BY <1>6, <1>10
  <2>2. /\ done.start \in WordStarts(text) /\ c = Len(done.words) + 1
        /\ WordCount(text, done.start) = Len(done.words) + 1
        /\ \A k \in done.start .. L : text[k] # Space
    BY <1>3, <1>10 DEF Parsed, c
  <2>3. done.start \in 1 .. L /\ L \in done.start .. L
    BY <1>0, <2>2
  <2>4. word = WordAt(text, done.start)
    BY <2>2, <2>3, WordEnds DEF L
  <2>5. word \in Seq(Printable)
    <3>1. done.start \in 1 .. L + 1 /\ L \in done.start - 1 .. L
      BY <1>0, <2>3
    <3> QED BY <3>1, SubSeqProperties DEF L
  <2> HIDE DEF word
  <2>6. /\ Append(done.words, word) \in Seq(Seq(Printable))
        /\ Len(Append(done.words, word)) = Len(done.words) + 1
        /\ Append(done.words, word)[Len(done.words) + 1] = word
        /\ \A k \in 1 .. Len(done.words) : Append(done.words, word)[k] = done.words[k]
    BY <1>7, <2>5, AppendProperties
  <2>7. ASSUME NEW i \in WordStarts(text), WordCount(text, i) <= MaxArgs
        PROVE  Append(done.words, word)[WordCount(text, i)] = WordAt(text, i)
    <3>1. CASE i = done.start
      BY <2>2, <2>4, <2>6, <3>1
    <3>2. CASE i # done.start
      <4>1. /\ WordCount(text, i) \in 1 .. Len(done.words)
            /\ done.words[WordCount(text, i)] = WordAt(text, i)
        BY <1>0, <1>3, <2>7, <3>2 DEF Parsed
      <4> QED BY <2>6, <4>1
    <3> QED BY <3>1, <3>2
  <2>8. Len(done.words) + 1 = Min({MaxArgs, c}) /\ Len(done.words) + 1 <= MaxArgs
    BY <1>0, <1>4, <1>5, <1>7, <1>10, <2>2
  <2> QED BY <2>1, <2>6, <2>7, <2>8 DEF FirstWords, c, L
<1> QED BY <1>7, <1>8, <1>9, <1>10, <1>0

(* What is terminated at the cursor is the line on the terminal. *)
LEMMA TerminatedLine ==
    ASSUME BufferAsShown
    PROVE  Terminated([input_buffer EXCEPT ![input_pos] = Nul]) = shown
<1> DEFINE buffer == [input_buffer EXCEPT ![input_pos] = Nul]
           nul == {i \in Index : buffer[i] = Nul}
<1>0. /\ shown \in Seq(Printable) /\ Len(shown) \in Nat /\ input_pos = Len(shown)
      /\ input_buffer \in [Index -> Printable \cup {Nul}] /\ input_pos \in Index
      /\ BufferSize \in Nat /\ Nul \notin Printable
      /\ \A i \in 1 .. Len(shown) : input_buffer[i - 1] = shown[i] /\ shown[i] \in Printable
  BY BufferAssumption, KeyAssumption DEF BufferAsShown, Key
<1>1. \A i \in 1 .. Len(shown) : /\ i - 1 \in Index /\ i - 1 # input_pos
                                 /\ buffer[i - 1] = shown[i]
  BY <1>0 DEF Index
<1>2. input_pos \in nul
  BY <1>0
<1>3. \A i \in nul : input_pos <= i
  <2> SUFFICES ASSUME NEW i \in nul, i < input_pos PROVE FALSE
    BY <1>0 DEF Index
  <2>1. i + 1 \in 1 .. Len(shown) /\ (i + 1) - 1 = i
    BY <1>0 DEF Index
  <2>2. buffer[i] \in Printable
    BY <1>0, <1>1, <2>1
  <2> QED BY <1>0, <2>2
<1>4. nul \subseteq Int /\ input_pos \in Int
  BY <1>0 DEF Index
<1> HIDE DEF nul, buffer
<1>5. Min(nul) = input_pos
  <2>1. Min(nul) \in nul /\ \A i \in nul : Min(nul) <= i
    BY <1>2, <1>3 DEF Min
  <2>2. Min(nul) \in Int /\ Min(nul) <= input_pos /\ input_pos <= Min(nul)
    BY <1>2, <1>3, <1>4, <2>1
  <2> HIDE DEF Min
  <2> QED BY <1>4, <2>2
<1>6. Terminated(buffer) = [i \in 1 .. Len(shown) |-> buffer[i - 1]]
  BY <1>0, <1>2, <1>5 DEF Terminated, nul
<1>7. shown = [i \in 1 .. Len(shown) |-> shown[i]]
  BY <1>0
<1>8. [i \in 1 .. Len(shown) |-> buffer[i - 1]] = [i \in 1 .. Len(shown) |-> shown[i]]
  BY <1>1
<1> QED BY <1>6, <1>7, <1>8 DEF buffer

-----------------------------------------------------------------------------
(* What is about to run, or runs, and the receive ring.                    *)
CommandInv ==
    /\ rx \in Seq(Key) /\ Len(rx) <= RxSize
    /\ pc \in {"read", "yield", "execute"} \cup InCommand
    /\ argv \in Seq(Seq(Printable)) /\ Len(argv) <= MaxArgs
    /\ session \in Session
    /\ pc = "execute" => FirstWords(argv, shown)

LEMMA CommandInit == Init => CommandInv
<1> SUFFICES ASSUME Init PROVE CommandInv
  OBVIOUS
<1>1. <<>> \in Seq(Key) /\ <<>> \in Seq(Seq(Printable)) /\ Len(<<>>) = 0
  OBVIOUS
<1> QED BY <1>1, BufferAssumption DEF Init, CommandInv

(* A key that is taken or typed leaves a ring of keys. *)
LEMMA GetcRing ==
    ASSUME CommandInv, NEW k, Getc(k)
    PROVE  rx' \in Seq(Key) /\ Len(rx') <= RxSize /\ k \in Key
<1>1. rx \in Seq(Key) /\ Len(rx) \in Nat /\ Len(rx) <= RxSize /\ rx # <<>>
      /\ RxSize \in Nat /\ rx' = Tail(rx) /\ k = Head(rx)
  BY BufferAssumption DEF CommandInv, Getc
<1>2. Tail(rx) \in Seq(Key) /\ Len(Tail(rx)) = Len(rx) - 1 /\ Head(rx) \in Key
  BY <1>1, HeadTailProperties
<1> QED BY <1>1, <1>2

LEMMA TypeRing ==
    ASSUME CommandInv, Type
    PROVE  rx' \in Seq(Key) /\ Len(rx') <= RxSize
<1>1. PICK k \in Key : rx' = IF Len(rx) < RxSize THEN Append(rx, k) ELSE rx
  <2>1. session.command \subseteq Key /\ session.prompt \subseteq Key
    BY KeyAssumption DEF CommandInv
  <2> QED BY <2>1 DEF Type
<1>2. rx \in Seq(Key) /\ Len(rx) \in Nat /\ Len(rx) <= RxSize /\ RxSize \in Nat
  BY BufferAssumption DEF CommandInv
<1>3. Append(rx, k) \in Seq(Key) /\ Len(Append(rx, k)) = Len(rx) + 1
  BY <1>2, AppendProperties
<1> QED BY <1>1, <1>2, <1>3

LEMMA PromptCommand ==
    ASSUME CommandInv, rx' \in Seq(Key) /\ Len(rx') <= RxSize, Prompt, session' = session
    PROVE  CommandInv'
<1>1. argv' = <<>> /\ pc' = "read"
  BY DEF Prompt
<1>2. <<>> \in Seq(Seq(Printable)) /\ Len(<<>>) = 0
  OBVIOUS
<1> QED BY <1>1, <1>2, BufferAssumption DEF CommandInv

(* A step that runs no new command. *)
LEMMA OtherCommand ==
    ASSUME CommandInv, rx' \in Seq(Key) /\ Len(rx') <= RxSize,
           UNCHANGED <<argv, session>>,
           \/ pc' \in {"read", "yield"} \cup InCommand
           \/ UNCHANGED <<pc, shown>>
    PROVE  CommandInv'
<1>1. "execute" \notin {"read", "yield"} \cup InCommand
  BY DEF InCommand
<1> QED BY <1>1 DEF CommandInv

LEMMA EnterCommand ==
    ASSUME ShellInv, CommandInv, Enter
    PROVE  CommandInv'
<1>1. rx' \in Seq(Key) /\ Len(rx') <= RxSize /\ session' = session
  BY GetcRing DEF Enter
<1>2. /\ input_buffer' = [input_buffer EXCEPT ![input_pos] = Nul]
      /\ \/ Prompt
         \/ argv' = Parse(Terminated(input_buffer')) /\ pc' = "execute"
            /\ UNCHANGED <<input_pos, shown>>
  BY DEF Enter
<1>3. CASE Prompt
  BY <1>1, <1>3, PromptCommand
<1>4. CASE argv' = Parse(Terminated(input_buffer')) /\ pc' = "execute"
           /\ UNCHANGED <<input_pos, shown>>
  <2>1. Terminated(input_buffer') = shown /\ shown \in Seq(Printable)
    BY <1>2, TerminatedLine DEF ShellInv, BufferAsShown
  <2>2. FirstWords(argv', shown)
    BY <1>4, <2>1, ParseWords
  <2>3. FirstWords(argv', shown')
    BY <1>4, <2>2
  <2>4. argv' \in Seq(Seq(Printable)) /\ Len(argv') <= MaxArgs
    BY <2>2 DEF FirstWords
  <2> QED BY <1>1, <1>4, <2>3, <2>4 DEF CommandInv
<1> QED BY <1>2, <1>3, <1>4

LEMMA CommandStep == ShellInv /\ CommandInv /\ [Next]_vars => CommandInv'
<1> SUFFICES ASSUME ShellInv, CommandInv, [Next]_vars PROVE CommandInv'
  OBVIOUS
<1>0. rx \in Seq(Key) /\ Len(rx) <= RxSize
  BY DEF CommandInv
<1>1. CASE UNCHANGED vars
  BY <1>0, <1>1, OtherCommand DEF vars
<1>2. CASE Type
  <2>1. UNCHANGED <<pc, argv, session, shown>>
    BY <1>2 DEF Type
  <2> QED BY <1>2, <2>1, TypeRing, OtherCommand
<1>3. CASE Enter
  BY <1>3, EnterCommand
<1>4. CASE EnterNothing \/ BufferFull
  <2>1. Prompt /\ session' = session /\ \E k : Getc(k)
    BY <1>4 DEF EnterNothing, BufferFull
  <2> QED BY <2>1, GetcRing, PromptCommand
<1>5. CASE Backspace \/ Insert \/ Ignore
  <2>1. pc = "read" /\ UNCHANGED <<pc, argv, session>> /\ \E k : Getc(k)
    BY <1>5 DEF Backspace, Insert, Ignore
  <2> QED BY <2>1, GetcRing, OtherCommand
<1>6. CASE RunAndReturn \/ StressEnds \/ LeaveSnake
  <2>1. Prompt /\ UNCHANGED <<rx, session>>
    BY <1>6 DEF RunAndReturn, StressEnds, LeaveSnake
  <2> QED BY <1>0, <2>1, PromptCommand
<1>7. CASE TimerTestEnds
  <2>1. Prompt /\ session' = session /\ (rx' = rx \/ \E k : Getc(k))
    BY <1>7 DEF TimerTestEnds
  <2> QED BY <1>0, <2>1, GetcRing, PromptCommand
<1>8. CASE \/ ReadNothing \/ RunTimerTest \/ TimerTestWaits \/ RunStress \/ StressWaits
           \/ RunSnake \/ PollNothing \/ Yield
  <2>1. UNCHANGED <<rx, argv, session>> /\ pc' \in {"read", "yield"} \cup InCommand
    BY <1>8 DEF ReadNothing, RunTimerTest, TimerTestWaits, RunStress, StressWaits,
                RunSnake, PollNothing, Yield, Resume, InCommand
  <2> QED BY <1>0, <2>1, OtherCommand
<1>9. CASE FirstKey \/ PollKey \/ PollQuit
  <2>1. /\ UNCHANGED <<argv, session>> /\ pc' \in InCommand
        /\ \E k : Getc(k)
    BY <1>9 DEF FirstKey, PollKey, PollQuit, InCommand
  <2> QED BY <2>1, GetcRing, OtherCommand
<1> QED BY <1>1, <1>2, <1>3, <1>4, <1>5, <1>6, <1>7, <1>8, <1>9 DEF Next, TaskStep

LEMMA CommandAlways == Spec => [](ShellInv /\ CommandInv)
BY ShellInit, ShellStep, CommandInit, CommandStep, PTL DEF Spec

(***************************************************************************)
(* Every variable of the shell keeps its type: the cursor never leaves the *)
(* buffer and there are never more words than argv has room for, for every *)
(* size of buffer, ring and board.                                         *)
(***************************************************************************)
THEOREM TypeCorrect == Spec => []TypeOK
<1>1. ShellInv /\ CommandInv => TypeOK
  BY DEF ShellInv, CommandInv, BufferAsShown, GameInv, TypeOK
<1> QED BY <1>1, CommandAlways, PTL

(***************************************************************************)
(* The one pass of shell_parse_command finds the words of the line that    *)
(* the terminal shows, the first MaxArgs of them, for every line.          *)
(***************************************************************************)
THEOREM CommandCorrect == Spec => []CommandAsShown
<1>1. CommandInv => CommandAsShown
  BY DEF CommandInv, FirstWords, CommandAsShown
<1> QED BY <1>1, CommandAlways, PTL
=============================================================================

----------------------------- MODULE BoardRules -----------------------------
(***************************************************************************)
(* The rules of the game as board.c has them: what a set of commands makes *)
(* of a position (BoardCloneAndApply) and which moves count as safe        *)
(* (BoardIsSafe).                                                          *)
(*                                                                         *)
(* A board is a record [width, height, snakes, food, hazards, constrictor, *)
(* hazard_damage]: snakes and food are sequences, in the order of the C    *)
(* arrays, hazards are a set of cells. A snake is [id, health, body,       *)
(* length] with its head first. A command gives every snake's id a move or *)
(* Invalid, which also stands for a snake that was given none.             *)
(***************************************************************************)
EXTENDS Integers, Sequences, FiniteSets, SequencesExt

Cell == Int \X Int
Snake == [id : STRING, health : Int, body : Seq(Cell), length : Int]
Board == [width : Nat, height : Nat, snakes : Seq(Snake), food : Seq(Cell),
          hazards : SUBSET Cell, constrictor : BOOLEAN, hazard_damage : Int]

Moves == {"up", "down", "left", "right"}
MoveOrder == <<"up", "down", "left", "right">>   \* in which all loops try them
Invalid == "invalid"

MoveStep(cell, move) ==
  CASE move = "up"    -> <<cell[1], cell[2] + 1>>
    [] move = "down"  -> <<cell[1], cell[2] - 1>>
    [] move = "left"  -> <<cell[1] - 1, cell[2]>>
    [] move = "right" -> <<cell[1] + 1, cell[2]>>

SnakeHead(snake) == IF snake.body = <<>> THEN <<0, 0>> ELSE Head(snake.body)
SnakeLength(snake) == IF snake.length > 0 THEN snake.length
                                          ELSE Len(snake.body)
InBounds(board, cell) == /\ cell[1] \in 0 .. board.width - 1
                         /\ cell[2] \in 0 .. board.height - 1
Cells(board) == (0 .. board.width - 1) \X (0 .. board.height - 1)
Food(board) == ToSet(board.food)
Indices(board) == DOMAIN board.snakes
Alive(board, i) == board.snakes[i].body # <<>>

-----------------------------------------------------------------------------
(* Changed forms, one plausible bug each. *)

\* takes the tail of every other snake for vacated, one that may eat included
VacatedTails_Always(board, i, cell) ==
  {Last(board.snakes[j].body) :
     j \in {k \in Indices(board) : board.snakes[k].body # <<>>}}

\* fears an opponent of any length
Contested_Anyone(board, i, cell) ==
  \E j \in Indices(board) \ {i} :
    board.snakes[j].body # <<>>
      /\ \E move \in Moves : MoveStep(SnakeHead(board.snakes[j]), move) = cell

\* a snake that has died in one encounter is spared the next one
HeadToHeadFrom_StopsWhenDead(snakes, dead, i) ==
  FoldLeft(LAMBDA d, j :
             IF i \in d \/ j <= i \/ j \in d
                  \/ SnakeHead(snakes[i]) # SnakeHead(snakes[j])
             THEN d
             ELSE d \cup {k \in {i, j} : SnakeLength(snakes[k])
                            <= SnakeLength(snakes[IF k = i THEN j ELSE i])},
           dead, [j \in 1 .. Len(snakes) |-> j])

-----------------------------------------------------------------------------
(* One turn. *)

\* The snake after it has taken its head to a cell, whether it survives or not.
MovedTo(board, snake, head, ate) ==
  LET kept == IF ate \/ board.constrictor THEN snake.body ELSE Front(snake.body)
      damage == IF head \in board.hazards THEN board.hazard_damage ELSE 0
  IN  [snake EXCEPT !.body = <<head>> \o kept, !.length = Len(kept) + 1,
                    !.health = IF ate THEN 100 ELSE @ - 1 - damage]

MovedSnake(board, snake, move) ==
  LET to(head) == MovedTo(board, snake, head, head \in Food(board))
  IN  to(MoveStep(SnakeHead(snake), move))

Commanded(board, command) ==
  {i \in Indices(board) : /\ command[board.snakes[i].id] # Invalid
                          /\ board.snakes[i].body # <<>>}

\* Snake i and the k-th snake after it: with their heads in one cell the
\* shorter is dead, or both.
HeadMeets(c, dead, k) ==
  LET i == c.snake
      j == i + k
      longer(a, b) == SnakeLength(c.snakes[a]) > SnakeLength(c.snakes[b])
  IN  IF j \in dead \/ SnakeHead(c.snakes[i]) # SnakeHead(c.snakes[j]) THEN dead
      ELSE dead \cup (IF longer(i, j) THEN {} ELSE {i})
                \cup (IF longer(j, i) THEN {} ELSE {j})

Meetings == INSTANCE Loops WITH Step <- HeadMeets

\* The loop over the later snakes j, for snake i.
HeadToHeadFrom(snakes, dead, i) ==
  Meetings!Run([snakes |-> snakes, snake |-> i], dead, Len(snakes) - i)

HeadRound(snakes, dead, i) ==
  IF i \in dead THEN dead ELSE HeadToHeadFrom(snakes, dead, i)

HeadRounds == INSTANCE Loops WITH Step <- HeadRound

\* The dead after all encounters of two heads in one cell.
HeadToHead(snakes, dead) == HeadRounds!Run(snakes, dead, Len(snakes))

HitsBody(snakes, i) ==
  \E j \in DOMAIN snakes : \E k \in 2 .. Len(snakes[j].body) :
    snakes[j].body[k] = SnakeHead(snakes[i])

\* The snakes that did not move, left the board or used up their health.
Out(board, snakes, moved) ==
  {i \in Indices(board) : \/ i \notin moved
                          \/ ~InBounds(board, SnakeHead(snakes[i]))
                          \/ snakes[i].health <= 0}

\* The dead, when it is known who is out before any collision.
Dead(snakes, out) ==
  HeadToHead(snakes, out \cup {i \in DOMAIN snakes \ out : HitsBody(snakes, i)})

Keep(c, kept, i) == IF i \in c.gone THEN kept ELSE Append(kept, c.seq[i])

Kept == INSTANCE Loops WITH Step <- Keep

\* The elements of a sequence whose place is not in gone, in their order.
Without(seq, gone) == Kept!Run([seq |-> seq, gone |-> gone], <<>>, Len(seq))

\* The board when these are its snakes after the move.
Resolve(board, snakes, moved) ==
  [board EXCEPT
     !.snakes = Without(snakes, Dead(snakes, Out(board, snakes, moved))),
     !.food = LET eaten == {SnakeHead(snakes[i]) : i \in moved}
              IN  Without(@, {k \in DOMAIN @ : @[k] \in eaten})]

BoardCloneAndApply(board, command) ==
  LET move(moved) ==
        Resolve(board,
                [i \in Indices(board) |->
                   IF i \in moved
                   THEN MovedSnake(board, board.snakes[i],
                                   command[board.snakes[i].id])
                   ELSE board.snakes[i]],
                moved)
  IN  move(Commanded(board, command))

-----------------------------------------------------------------------------
(* Safe moves. *)

CanEatNextTurn(board, snake) ==
  /\ snake.body # <<>>
  /\ \E move \in Moves : MoveStep(SnakeHead(snake), move) \in Food(board)

\* The cells that snake i counts on being left by a tail, when it goes to cell.
VacatedTails(board, i, cell) ==
  IF board.constrictor THEN {}
  ELSE {Last(board.snakes[j].body) :
          j \in {k \in Indices(board) :
                   /\ board.snakes[k].body # <<>>
                   /\ IF k = i THEN cell \notin Food(board)
                               ELSE ~CanEatNextTurn(board, board.snakes[k])}}

Occupied(board) ==
  UNION {ToSet(board.snakes[i].body) : i \in Indices(board)}

\* An opponent at least as long can go to the cell as well.
Contested(board, i, cell) ==
  \E j \in Indices(board) \ {i} :
    /\ board.snakes[j].body # <<>>
    /\ SnakeLength(board.snakes[j]) >= SnakeLength(board.snakes[i])
    /\ \E move \in Moves : MoveStep(SnakeHead(board.snakes[j]), move) = cell

Starving(board, i) == board.snakes[i].health <= board.hazard_damage + 1

DeadlyHazard(board, i, cell) ==
  /\ cell \in board.hazards \ Food(board)
  /\ Starving(board, i)

BoardIsSafe(board, cell, i) ==
  /\ InBounds(board, cell)
  /\ cell \notin Occupied(board) \ VacatedTails(board, i, cell)
  /\ ~DeadlyHazard(board, i, cell)
  /\ ~Contested(board, i, cell)

BoardSafeMoves(board, i) ==
  {move \in Moves :
     /\ board.snakes[i].body # <<>>
     /\ BoardIsSafe(board, MoveStep(SnakeHead(board.snakes[i]), move), i)}
=============================================================================

---------------------------- MODULE SearchState ----------------------------
(***************************************************************************)
(* The mutable position of the search (search_state.c): one board that the *)
(* search moves forward (make) and back (unmake) in place, with a stack of *)
(* undo frames. BoardCloneAndApply of BoardRules is what a make has to     *)
(* amount to.                                                              *)
(*                                                                         *)
(* A make moves one snake after the other on the board itself. When the    *)
(* allocation for a growing body fails in the middle, the frame is dropped *)
(* and the board stays as far as it was moved.                             *)
(***************************************************************************)
EXTENDS BoardRules

CONSTANTS
  Boards,       \* the positions a search may start from
  AllMoves,     \* the moves a command may give, Invalid included or not
  MaxDepth(_),  \* the makes in force at once on a board (a bound)
  MaxFailures   \* the failed makes in a run (a bound)

ASSUME SearchStateAssumption ==
  /\ \A b \in Boards : b \in Board
  /\ AllMoves \subseteq Moves \cup {Invalid}
  /\ \A b \in Boards : MaxDepth(b) \in Nat
  /\ MaxFailures \in Nat

VARIABLES
  board,          \* state->board
  food_capacity,
  undo_stack,     \* its frames in force, undo_count of them
  out_causes,     \* what the last successful make reported, by array index
  failures,       \* failed makes so far
  trail           \* the makes in force, [board, command], to compare with

vars == <<board, food_capacity, undo_stack, out_causes, failures, trail>>

\* What the search may command the snakes on the board to do.
SnakeIds(b) == {b.snakes[i].id : i \in Indices(b)}
Commands == [SnakeIds(board) -> AllMoves]

-----------------------------------------------------------------------------
(* Changed forms, one plausible bug each. *)

\* does not save the food
UndoFrame_KeepsNoFood(b) == [snakes |-> b.snakes, food |-> <<>>]

\* spares the later of two equals
Encounter_SparesLater(next, causes, i, j) ==
  IF /\ causes[j] = {}
     /\ SnakeHead(next.snakes[i]) = SnakeHead(next.snakes[j])
  THEN LET loser == IF SnakeLength(next.snakes[i]) > SnakeLength(next.snakes[j])
                    THEN j ELSE i
       IN  [causes EXCEPT ![loser] = @ \cup {"head_to_head"}]
  ELSE causes

-----------------------------------------------------------------------------
(* One make. *)

\* move_live_snake: the body shifted in place behind the new head
MoveLiveSnake(b, snake, move) ==
  LET new_head == MoveStep(SnakeHead(snake), move)
      ate_food == new_head \in Food(b)
      grew == ate_food \/ b.constrictor
      copy_count == IF grew THEN Len(snake.body) ELSE Len(snake.body) - 1
      body == <<new_head>> \o SubSeq(snake.body, 1, copy_count)
      tired == snake.health - 1
      hurt == IF new_head \in b.hazards THEN tired - b.hazard_damage ELSE tired
  IN  [snake EXCEPT !.body = body, !.length = Len(body),
                    !.health = IF ate_food THEN 100 ELSE hurt]

Grows(b, snake, move) ==
  b.constrictor \/ MoveStep(SnakeHead(snake), move) \in Food(b)

\* The board after the first n snakes of the array have moved.
MovedPrefix(b, command, n) ==
  [b EXCEPT !.snakes =
     [i \in Indices(b) |->
        IF i <= n /\ i \in Commanded(b, command)
        THEN MoveLiveSnake(b, b.snakes[i], command[b.snakes[i].id])
        ELSE b.snakes[i]]]

WallCauses(b, snake) ==
  IF InBounds(b, SnakeHead(snake)) THEN {} ELSE {"wall"}

HealthCauses(b, snake) ==
  IF snake.health > 0 THEN {}
  ELSE IF SnakeHead(snake) \in b.hazards THEN {"hazard"} ELSE {"starvation"}

\* What kills a snake on its own move; next is the board with all moved.
MoveCauses(b, next, command) ==
  [i \in Indices(b) |->
     IF i \notin Commanded(b, command) THEN {"invalid_command"}
     ELSE WallCauses(b, next.snakes[i]) \cup HealthCauses(b, next.snakes[i])]

\* resolve_body_collisions: the dead have no new collision, but their bodies
\* are still in the way.
BodyCauses(next, causes) ==
  [i \in DOMAIN causes |->
     IF causes[i] # {} THEN causes[i]
     ELSE {IF i = j THEN "self_body" ELSE "other_body" :
             j \in {j \in DOMAIN causes :
                      \E k \in 2 .. Len(next.snakes[j].body) :
                        next.snakes[j].body[k] = SnakeHead(next.snakes[i])}}]

\* Two heads in one cell: the shorter dies, or both.
Encounter(next, causes, i, j) ==
  LET left_len == SnakeLength(next.snakes[i])
      right_len == SnakeLength(next.snakes[j])
      meet == /\ causes[j] = {}
              /\ SnakeHead(next.snakes[i]) = SnakeHead(next.snakes[j])
  IN  [k \in DOMAIN causes |->
         IF meet /\ (\/ k = i /\ right_len >= left_len
                     \/ k = j /\ left_len >= right_len)
         THEN causes[k] \cup {"head_to_head"} ELSE causes[k]]

\* Snake i and the k-th snake after it.
LaterEncounter(c, causes, k) == Encounter(c.next, causes, c.snake, c.snake + k)

Encounters == INSTANCE Loops WITH Step <- LaterEncounter

CauseRound(next, causes, i) ==
  IF causes[i] # {} THEN causes
  ELSE Encounters!Run([next |-> next, snake |-> i], causes, Len(causes) - i)

CauseRounds == INSTANCE Loops WITH Step <- CauseRound

\* resolve_head_collisions
HeadCauses(next, causes) == CauseRounds!Run(next, causes, Len(causes))

TerminalCauses(b, next, command) ==
  HeadCauses(next, BodyCauses(next, MoveCauses(b, next, command)))

\* compact_live_snakes
LiveSnakes(next, causes) ==
  Without(next.snakes, {i \in DOMAIN causes : causes[i] # {}})

\* apply_food_removal: of the food in a snake's new cell, the first is marked.
FoodLeft(b, next, command) ==
  LET eaten == {k \in DOMAIN b.food :
                  /\ \A l \in 1 .. k - 1 : b.food[l] # b.food[k]
                  /\ \E i \in Commanded(b, command) :
                       SnakeHead(next.snakes[i]) = b.food[k]}
  IN  Without(b.food, eaten)

-----------------------------------------------------------------------------
(* CoreSearchStateInit, MakeMovesDetailed and Unmake. *)

\* undo_frame_capture
UndoFrame(b) == [snakes |-> b.snakes, food |-> b.food]

Init ==
  /\ board \in Boards
  /\ food_capacity = Len(board.food)
  /\ undo_stack = <<>> /\ trail = <<>>
  /\ out_causes = <<>> /\ failures = 0

Make(command) ==
  LET next == MovedPrefix(board, command, Len(board.snakes))
      causes == TerminalCauses(board, next, command)
  IN  /\ Len(undo_stack) < MaxDepth(board)
      /\ board' = [next EXCEPT !.snakes = LiveSnakes(next, causes),
                               !.food = FoodLeft(board, next, command)]
      /\ out_causes' = causes
      /\ undo_stack' = Append(undo_stack, UndoFrame(board))
      /\ trail' = Append(trail, [board |-> board, command |-> command])
      /\ UNCHANGED <<food_capacity, failures>>

\* The body of snake n + 1 cannot grow: the make returns false.
MakeFails(command, n) ==
  /\ failures < MaxFailures /\ Len(undo_stack) < MaxDepth(board)
  /\ n + 1 \in Commanded(board, command)
  /\ LET snake == board.snakes[n + 1]
     IN  Grows(board, snake, command[snake.id])
  /\ board' = MovedPrefix(board, command, n)
  /\ failures' = failures + 1
  /\ UNCHANGED <<food_capacity, undo_stack, out_causes, trail>>

Unmake ==
  /\ undo_stack # <<>>
  /\ Len(Last(undo_stack).food) <= food_capacity
  /\ board' = [board EXCEPT !.snakes = Last(undo_stack).snakes,
                            !.food = Last(undo_stack).food]
  /\ undo_stack' = Front(undo_stack)
  /\ trail' = Front(trail)
  /\ UNCHANGED <<food_capacity, out_causes, failures>>

Next == \/ \E command \in Commands :
             Make(command) \/ \E n \in 0 .. Len(board.snakes) - 1 :
                                MakeFails(command, n)
        \/ Unmake

Spec == Init /\ [][Next]_vars

-----------------------------------------------------------------------------
\* Whatever the search did since, failed makes included, an unmake brings back
\* the very board on which the make it takes back was called.
UnmakeRestores == [][Unmake => board' = Last(trail).board]_vars

DistinctFood == \A k, l \in DOMAIN board.food :
                  board.food[k] = board.food[l] => k = l

MakeStep == Len(trail') > Len(trail)
ByTheRules == BoardCloneAndApply(board, Last(trail').command)

\* A make in place amounts to BoardCloneAndApply of the same commands. (Where
\* two pieces of food share a cell it does not: FoodLeft removes one of them,
\* BoardCloneAndApply both. No game engine sends such a board.)
MakeFollowsRules == [][MakeStep /\ DistinctFood => board' = ByTheRules]_vars

Reversed(b) == [b EXCEPT !.snakes = Reverse(@)]

\* The outcome of a turn does not depend on the order of the snakes in the
\* array: the loop over pairs of heads decides every encounter of three or
\* more fairly.
OrderIndependent ==
  Len(board.snakes) > 2 => \A command \in Commands :
    BoardCloneAndApply(Reversed(board), command)
      = Reversed(BoardCloneAndApply(board, command))

\* The boards the game engine sends: every snake has an id of its own and is
\* as long as its body, no cell is in two bodies, and a body repeats no cell
\* but that of its tail, at its end.
Proper(b) ==
  /\ b.hazard_damage >= 0
  /\ \A i, j \in Indices(b) : b.snakes[i].id = b.snakes[j].id => i = j
  /\ \A i \in Indices(b) : b.snakes[i].length = Len(b.snakes[i].body)
  /\ \A i, j \in Indices(b) : i # j =>
       \A k \in DOMAIN b.snakes[i].body : \A l \in DOMAIN b.snakes[j].body :
         b.snakes[i].body[k] # b.snakes[j].body[l]
  /\ \A i \in Indices(b) : \A k, l \in DOMAIN b.snakes[i].body :
       k < l /\ b.snakes[i].body[k] = b.snakes[i].body[l]
         => \A m \in k .. Len(b.snakes[i].body) :
              b.snakes[i].body[m] = b.snakes[i].body[k]

\* The ways in which snake i may go to a cell, and what the others may do.
Responses(b, i, move) ==
  {command \in [SnakeIds(b) -> Moves] : command[b.snakes[i].id] = move}

\* A tail that stays although its snake does not eat: it ate the turn before,
\* and its last two segments are in one cell.
StackedTail(b, cell) ==
  \E i \in Indices(b) :
    LET body == b.snakes[i].body
    IN  Len(body) > 1 /\ body[Len(body)] = cell /\ body[Len(body) - 1] = cell

Starves(b, i, cell) ==
  b.snakes[i].health <= 1 /\ cell \notin Food(b) \cup b.hazards

Survives(b, i, command) ==
  b.snakes[i].id \in SnakeIds(BoardCloneAndApply(b, command))

\* A safe move survives whatever the others do, unless it goes to a stacked
\* tail or the snake starves: BoardIsSafe looks at neither.
SafeMoveSurvives ==
  failures = 0 =>
    \A i \in Indices(board) : \A move \in BoardSafeMoves(board, i) :
      LET cell == MoveStep(SnakeHead(board.snakes[i]), move)
      IN  StackedTail(board, cell) \/ Starves(board, i, cell)
            \/ \A command \in Responses(board, i, move) : Survives(board, i, command)

\* No opponent dies of its health by contesting a cell.
OpponentsHealthy(b, i) ==
  \A j \in Indices(b) \ {i} :
    b.snakes[j].health > b.hazard_damage + 1

\* A move is called unsafe only when some reply of the others refutes it,
\* unless the others are too weak to give it.
UnsafeMoveIsRefuted ==
  failures = 0 =>
    \A i \in Indices(board) : OpponentsHealthy(board, i) =>
      \A move \in Moves \ BoardSafeMoves(board, i) :
        \E command \in Responses(board, i, move) : ~Survives(board, i, command)

\* BoardIsSafe is right about a move both ways.
SafeMeansSafe == SafeMoveSurvives /\ UnsafeMoveIsRefuted
=============================================================================

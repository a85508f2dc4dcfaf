---------------------------- MODULE PositionEval ----------------------------
(***************************************************************************)
(* The position evaluation engine (position_eval.c): the probability that  *)
(* Me wins a duel, and how both should mix their moves. Every turn is a    *)
(* matrix game of all pairs of moves. The root is evaluated at depth 0, 1, *)
(* 2 and so on; what an interrupted depth has found is thrown away.        *)
(*                                                                         *)
(* The cells of the root's matrix are evaluated one after the other. In a  *)
(* build with OpenMP they are evaluated in any order, but a cell depends   *)
(* on nothing but the clock, and they are merged in this order up to the   *)
(* first that failed or is late: nothing else can come of it.              *)
(***************************************************************************)
EXTENDS SpaceMeasures, Duel, MatrixGame

CONSTANTS
  Evaluated,    \* the positions to evaluate
  MaxDepths,    \* config.max_depth
  Clocks        \* how many looks at the clock find time left

ASSUME PositionEvalAssumption ==
  MaxDepths \subseteq Nat /\ Clocks \subseteq Nat

VARIABLES
  eval_board,      \* the board, <<>> when none is evaluated
  eval_mode,       \* config.decision_mode, "matrix" or "pure_minimax"
  max_depth,       \* config.max_depth
  root_depth,      \* the depth that is being attempted
  cell_results,    \* its cells so far, in the order of MovePairs
  best_complete,   \* what the last complete depth has found
  completed_depth, \* and which that was
  timed_out,       \* result->timed_out
  eval_status      \* "idle", "running", or how it ended: "ok" or "error"

evalVars == <<eval_board, eval_mode, max_depth, root_depth, cell_results,
              best_complete, completed_depth, timed_out, eval_status>>

\* The row and the column of a cell, by its number.
RowOf(k) == (k + 3) \div 4
ColOf(k) == k - 4 * (RowOf(k) - 1)

MovePairs == [k \in 1 .. 16 |-> <<MoveOrder[RowOf(k)], MoveOrder[ColOf(k)]>>]
ChildAt(board, k) == Child(board, MovePairs[k][1], MovePairs[k][2])

-----------------------------------------------------------------------------
(* Values: a probability, the confidence in it, and the shares of the      *)
(* moves of both, none of which has a share in a leaf.                     *)

Leaf(p, confidence) ==
  Solution(p, confidence, <<Zero, Zero, Zero, Zero>>, <<Zero, Zero, Zero, Zero>>)

Terminal(board) ==
  Leaf(CASE DuelOutcome(board) = "win" -> One
         [] DuelOutcome(board) = "loss" -> Zero
         [] OTHER -> Half, One)

\* The score of the position, of which no more is kept than who is longer.
HeuristicProbability(board) ==
  LET length(id) == SnakeLength(board.snakes[IndexOf(board, id)])
  IN  CASE length(Me) > length(Foe) -> <<3, 4>>
        [] length(Me) < length(Foe) -> <<1, 4>>
        [] OTHER -> Half

Heuristic(board) == Leaf(HeuristicProbability(board), Zero)

\* The matrix of the probabilities of 16 values, as integers over a unit.
Lcm(a, b) == (a * b) \div Gcd(a, b)
UnitOf(values) == FoldLeft(LAMBDA unit, v : Lcm(unit, v.p[2]), 1, values)
InUnits(values, unit) ==
  FoldLeft(LAMBDA seq, v : Append(seq, v.p[1] * (unit \div v.p[2])), <<>>, values)
InRows(seq) == [r \in 1 .. 4 |-> SubSeq(seq, 4 * r - 3, 4 * r)]

ConfidencesOf(values) ==
  FoldLeft(LAMBDA seq, v : Append(seq, v.confidence), <<>>, values)

\* backup_root_matrix, and what nodes below the root do
Backup(mode, values) ==
  LET solve(unit) ==
        IF mode = "matrix"
        THEN MatrixSolution(InRows(InUnits(values, unit)), unit,
                            InRows(ConfidencesOf(values)))
        ELSE PureSolution(InRows(InUnits(values, unit)), unit,
                          InRows(ConfidencesOf(values)))
  IN  solve(UnitOf(values))

-----------------------------------------------------------------------------
(* A node, evaluate_node. With its value it yields how many more looks at  *)
(* the clock find time left, and whether some node below ran out of it.    *)

Node(value, clock, late) == [value |-> value, clock |-> clock, late |-> late]

\* The children so far and one more.
WithChild(acc, child) ==
  [values |-> Append(acc.values, child.value), clock |-> child.clock,
   late |-> acc.late \/ child.late]

BackedUp(mode, acc) == Node(Backup(mode, acc.values), acc.clock, acc.late)

RECURSIVE EvaluateNode(_, _, _, _)
EvaluateNode(mode, board, depth, clock) ==
  CASE DuelOutcome(board) # "unresolved" -> Node(Terminal(board), clock, FALSE)
    [] DuelOutcome(board) = "unresolved" /\ (depth = 0 \/ clock = 0)
         -> Node(Heuristic(board), clock, depth > 0)
    [] OTHER ->
         BackedUp(mode,
           FoldLeft(LAMBDA acc, k :
                      WithChild(acc,
                        IF acc.clock = 0 THEN Node(Heuristic(board), 0, TRUE)
                        ELSE EvaluateNode(mode, ChildAt(board, k), depth - 1,
                                          acc.clock - 1)),
                    [values |-> <<>>, clock |-> clock - 1, late |-> FALSE],
                    [k \in 1 .. 16 |-> k]))

\* evaluate_root_cell
RootCell(mode, board, k, depth, clock) ==
  IF clock = 0 THEN Node(Leaf(Half, Zero), 0, TRUE)
  ELSE EvaluateNode(mode, ChildAt(board, k), depth - 1, clock - 1)

-----------------------------------------------------------------------------
(* The root, evaluate_root_iterative. *)

EvalIdle ==
  /\ eval_board = <<>> /\ eval_mode = "matrix" /\ max_depth = 0
  /\ root_depth = 0 /\ cell_results = <<>>
  /\ best_complete = Leaf(Half, Zero)
  /\ completed_depth = 0 /\ timed_out = FALSE /\ eval_status = "idle"

\* CorePositionEvaluateDuel
EvalInit(board, mode, depth) ==
  /\ eval_board = board /\ eval_mode = mode /\ max_depth = depth
  /\ root_depth = 0 /\ cell_results = <<>>
  /\ best_complete = Leaf(Half, Zero)
  /\ completed_depth = 0 /\ timed_out = FALSE /\ eval_status = "running"

\* The attempt found value: it is what is published, unless the next is complete.
Complete(value) ==
  /\ best_complete' = value
  /\ completed_depth' = root_depth
  /\ cell_results' = <<>>
  /\ IF root_depth = max_depth
     THEN eval_status' = "ok" /\ UNCHANGED root_depth
     ELSE root_depth' = root_depth + 1 /\ UNCHANGED eval_status
  /\ UNCHANGED <<eval_board, eval_mode, max_depth, timed_out>>

\* An allocation fails: the result is cleared.
EvalFails ==
  /\ best_complete' = Leaf(Zero, Zero) /\ completed_depth' = 0
  /\ timed_out' = FALSE /\ cell_results' = <<>> /\ eval_status' = "error"
  /\ UNCHANGED <<eval_board, eval_mode, max_depth, root_depth>>

Resolved == DuelOutcome(eval_board) # "unresolved"

\* Depth 0, or a snake is missing, evaluate_no_command_terminal.
EvaluateWithoutMoves ==
  /\ eval_status = "running" /\ (root_depth = 0 \/ Resolved)
  /\ \/ Complete(IF Resolved THEN Terminal(eval_board) ELSE Heuristic(eval_board))
     \/ ~Resolved /\ EvalFails

Late(cells) == \E k \in DOMAIN cells : cells[k].late

\* What the clock may let a cell do; once it has run out it stays so.
ClocksLeft == IF Late(cell_results) THEN {0} ELSE Clocks

EvaluateRootCell ==
  /\ eval_status = "running" /\ root_depth > 0 /\ ~Resolved
  /\ Len(cell_results) < 16
  /\ \E clock \in ClocksLeft :
       \/ /\ cell_results' = Append(cell_results,
                [RootCell(eval_mode, eval_board, Len(cell_results) + 1, root_depth,
                          clock) EXCEPT !.clock = 0])
          /\ UNCHANGED <<eval_board, eval_mode, max_depth, root_depth,
                         best_complete, completed_depth, timed_out, eval_status>>
       \/ clock > 0 /\ EvalFails

\* The merge of the cells: all are needed.
MergeRootCells ==
  /\ eval_status = "running" /\ Len(cell_results) = 16
  /\ \/ /\ ~Late(cell_results)
        /\ Complete(Backup(eval_mode,
             FoldLeft(LAMBDA seq, cell : Append(seq, cell.value), <<>>, cell_results)))
     \/ /\ Late(cell_results)
        /\ timed_out' = TRUE /\ eval_status' = "ok" /\ cell_results' = <<>>
        /\ UNCHANGED <<eval_board, eval_mode, max_depth, root_depth,
                       best_complete, completed_depth>>

EvalNext == EvaluateWithoutMoves \/ EvaluateRootCell \/ MergeRootCells

-----------------------------------------------------------------------------
(* What is published.                                                      *)

Unlimited == 1000000

\* The values of the children as they are without a clock.
Below(board, depth) ==
  FoldLeft(LAMBDA seq, k :
             Append(seq, EvaluateNode(eval_mode, ChildAt(board, k), depth - 1,
                                      Unlimited).value),
           <<>>, [k \in 1 .. 16 |-> k])

IsMix(shares) == Sum(shares) = One /\ \A k \in DOMAIN shares : ~Less(shares[k], Zero)

Against(shares, column) == Sum([r \in 1 .. 4 |-> Product2(shares[r], column[r])])

\* First guarantees p, second concedes no more, and both are mixes.
Equilibrium(values, found) ==
  /\ IsMix(found.first) /\ IsMix(found.second)
  /\ \A k \in 1 .. 4 :
       /\ ~Less(Against(found.first, [r \in 1 .. 4 |-> values[4 * r - 4 + k].p]), found.p)
       /\ ~Less(found.p, Against(found.second, [c \in 1 .. 4 |-> values[4 * k - 4 + c].p]))

\* The best of the worst, the pair of moves that gives it.
Maximin(values, found) ==
  \E r, c \in 1 .. 4 :
    LET at(s, d) == values[4 * s - 4 + d].p
    IN  /\ found.first[r] = One /\ found.second[c] = One /\ found.p = at(r, c)
        /\ \A d \in 1 .. 4 : ~Less(at(r, d), at(r, c))
        /\ \A s \in 1 .. 4 : \E d \in 1 .. 4 : ~Less(at(r, c), at(s, d))

\* How much of the value comes from cells that are decided.
DecidedShare(values, found) ==
  Sum([k \in 1 .. 16 |->
         Product2(values[k].confidence,
                  Product2(found.first[RowOf(k)], found.second[ColOf(k)]))])

RECURSIVE Sound(_, _, _)
Sound(board, depth, found) ==
  IF depth = 0 \/ DuelOutcome(board) # "unresolved"
  THEN found = (IF DuelOutcome(board) = "unresolved" THEN Heuristic(board)
                                                     ELSE Terminal(board))
  ELSE LET all(values) ==
             /\ IF eval_mode = "matrix" THEN Equilibrium(values, found)
                                        ELSE Maximin(values, found)
             /\ found.confidence = DecidedShare(values, found)
             /\ \A k \in 1 .. 16 : Sound(ChildAt(board, k), depth - 1, values[k])
       IN  all(Below(board, depth))

\* Wherever the clock ran out, what is published is an equilibrium (or the
\* maximin) of the whole matrix of the last depth that was completed, and so is
\* every value in it; an interrupted depth leaves no trace but timed_out. If no
\* matrix was completed, no move has a share.
PublishedIsEquilibrium ==
  eval_status = "ok" =>
    /\ Sound(eval_board, completed_depth, best_complete)
    /\ timed_out = (completed_depth < max_depth)
=============================================================================

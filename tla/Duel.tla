-------------------------------- MODULE Duel --------------------------------
(***************************************************************************)
(* A position as a duel of two snakes, whatever others are on the board:   *)
(* its outcome, what a pair of moves makes of it, and what is asked about  *)
(* a first move.                                                           *)
(***************************************************************************)
EXTENDS BoardRules

CONSTANTS Me, Foe   \* the ids of the two snakes

ASSUME DuelAssumption == Me # Foe

\* Snakes by id. A snake that has died is gone from the board.
IsAlive(board, id) ==
  \E i \in Indices(board) : board.snakes[i].id = id /\ Alive(board, i)
IndexOf(board, id) == CHOOSE i \in Indices(board) : board.snakes[i].id = id

\* CoreClassifyDuelOutcome
DuelOutcome(board) ==
  CASE IsAlive(board, Me) /\ IsAlive(board, Foe)  -> "unresolved"
    [] IsAlive(board, Me) /\ ~IsAlive(board, Foe) -> "win"
    [] ~IsAlive(board, Me) /\ IsAlive(board, Foe) -> "loss"
    [] OTHER                                      -> "draw"

Child(board, own, reply) ==
  BoardCloneAndApply(board, [id \in {Me, Foe} |-> IF id = Me THEN own ELSE reply])

\* The moves that lead into the neck, where the neck does not leave.
IntoNeck(board, body) ==
  {m \in Moves : /\ Len(body) > 1 /\ MoveStep(body[1], m) = body[2]
                 /\ \/ Len(body) > 2
                    \/ board.constrictor
                    \/ body[2] \in Food(board)}

\* Every move but the one back into the neck, core_command_moves.
CommandMoves(board, id) ==
  LET back == IntoNeck(board, board.snakes[IndexOf(board, id)].body)
  IN  Without(MoveOrder, {k \in 1 .. 4 : MoveOrder[k] \in back})

-----------------------------------------------------------------------------
(* A first move of snake i. *)

\* How long the snake is after the move, should it die of it or not.
PostLength(board, i, own) ==
  SnakeLength(board.snakes[i])
    + IF MoveStep(SnakeHead(board.snakes[i]), own) \in Food(board) THEN 1 ELSE 0

\* How far a proof about it may reach, and what that is counted in before it is
\* done.
ProofHorizon(board, i, own) ==
  PostLength(board, i, own) + Cardinality(Cells(board))

\* What the structural prover answers.
Verdict(proof, cutoff, horizon) ==
  [proof |-> proof, cutoff |-> cutoff, proof_horizon |-> horizon]
=============================================================================

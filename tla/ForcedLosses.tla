---------------------------- MODULE ForcedLosses ----------------------------
(***************************************************************************)
(* Whether a first move of the duel can be refuted: an AND/OR search of    *)
(* given depth (core_forced_loss_node) that answers with a result and the  *)
(* nodes it has visited. It gives up when limit nodes are visited,         *)
(* wherever that is.                                                       *)
(*                                                                         *)
(* The search of depth n + 1 is written with the one of depth n, which is  *)
(* a function of the position and of the nodes visited before it.          *)
(***************************************************************************)
EXTENDS Duel

-----------------------------------------------------------------------------
(* Changed forms, one plausible bug each. *)

\* takes a proof that was cut short for a proof
Judge_Hasty(all_refuted, unknown) == IF all_refuted THEN "proven" ELSE "proven"

-----------------------------------------------------------------------------
(* The search. *)

\* What is known of a position when every own move has been tried.
Judge(all_refuted, unknown) ==
  IF all_refuted THEN "proven" ELSE IF unknown THEN "unknown" ELSE "not_proven"

\* A reply more, and what the position after it was judged to be.
Replied(move, child) ==
  [refuted |-> child.result = "proven",
   unknown |-> move.unknown \/ child.result = "unknown",
   nodes |-> child.nodes]

\* An own move more, and how the opponent's replies to it turned out.
Moved(acc, move) ==
  [escape |-> ~move.refuted /\ ~move.unknown,
   unknown |-> acc.unknown \/ ~move.refuted,
   nodes |-> move.nodes]

\* What a position is known to be before any move is tried in it.
Known(outcome, exhausted) ==
  CASE outcome = "loss" -> "proven"
    [] outcome \in {"win", "draw"} -> "not_proven"
    [] OTHER -> IF exhausted THEN "unknown" ELSE "open"

Concluded(tried) ==
  [result |-> IF tried.escape THEN "not_proven"
              ELSE Judge(~tried.unknown, tried.unknown),
   nodes |-> tried.nodes]

\* The replies to an own move, until one refutes it; deeper judges what is left.
TryReply(c, move, k) ==
  IF move.refuted THEN move
  ELSE Replied(move, c.deeper[<<Child(c.board, c.own, c.replies[k]), move.nodes + 1>>])

ReplyLoop == INSTANCE Loops WITH Step <- TryReply

TryReplies(deeper, board, own, nodes) ==
  LET replies == CommandMoves(board, Foe)
  IN  ReplyLoop!Run([deeper |-> deeper, board |-> board, own |-> own, replies |-> replies],
                    [refuted |-> FALSE, unknown |-> FALSE, nodes |-> nodes],
                    Len(replies))

\* The own moves, until one escapes.
TryMove(c, acc, k) ==
  IF acc.escape THEN acc
  ELSE Moved(acc, TryReplies(c.deeper, c.board, MoveOrder[k], acc.nodes))

MoveLoop == INSTANCE Loops WITH Step <- TryMove

TryMoves(deeper, board, nodes) ==
  MoveLoop!Run([deeper |-> deeper, board |-> board],
               [escape |-> FALSE, unknown |-> FALSE, nodes |-> nodes], 4)

\* The search of depth 0, and the search of one ply more than deeper.
Horizon ==
  [p \in Board \X Nat |-> [result |-> Known(DuelOutcome(p[1]), TRUE), nodes |-> p[2]]]

Deepen(limit, deeper, depth) ==
  [p \in Board \X Nat |->
     LET known == Known(DuelOutcome(p[1]), p[2] >= limit)
     IN  IF known # "open" THEN [result |-> known, nodes |-> p[2]]
         ELSE Concluded(TryMoves(deeper, p[1], p[2]))]

Deepening == INSTANCE Loops WITH Step <- Deepen

ForcedLoss(depth, limit) == Deepening!Run(limit, Horizon, depth)

\* core_refute_root_move: the replies to a first move.
RefuteRootMove(board, own, horizon, limit) ==
  LET move == TryReplies(ForcedLoss(horizon, limit), board, own, 0)
  IN  Judge(move.refuted, move.unknown)

-----------------------------------------------------------------------------
(* The duel as a game: what can be enforced in n turns.                    *)

After(board, own) == {Child(board, own, r) : r \in Moves}

\* The opponent can make us lose while it survives.
LostBy(c, sooner, n) ==
  [b \in Board |->
     \/ DuelOutcome(b) = "loss"
     \/ /\ DuelOutcome(b) = "unresolved"
        /\ \A m \in Moves : \E next \in After(b, m) : sooner[next]]

Losing == INSTANCE Loops WITH Step <- LostBy

Lost(board, n) ==
  Losing!Run({}, [b \in Board |-> DuelOutcome(b) = "loss"], n)[board]

\* We can bring about a win or a draw.
HeldBy(c, sooner, n) ==
  [b \in Board |->
     \/ DuelOutcome(b) \in {"win", "draw"}
     \/ /\ DuelOutcome(b) = "unresolved"
        /\ \E m \in Moves : \A next \in After(b, m) : sooner[next]]

Holding == INSTANCE Loops WITH Step <- HeldBy

Held(board, n) ==
  Holding!Run({}, [b \in Board |-> DuelOutcome(b) \in {"win", "draw"}], n)[board]
=============================================================================

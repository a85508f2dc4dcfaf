------------------------------ MODULE Fallback ------------------------------
(***************************************************************************)
(* The move the server answers with when there is no time for a search, or *)
(* the search has failed (BsChooseFallbackMove).                           *)
(***************************************************************************)
EXTENDS RootPolicy

CommandsOf(board) == ToSet(CommandMoves(board, Foe))

\* The moves that we survive with some reply of the opponent.
Contingent(board) ==
  {m \in Moves : Replies(board, m, {"win", "unresolved"}) # {}}

\* The moves after which nobody is left, whatever the reply.
Mutual(board) == {m \in Moves : Replies(board, m, {"draw"}) = CommandsOf(board)}

-----------------------------------------------------------------------------
(* Changed forms, one plausible bug each. *)

\* knows of no better move when none is safe
LeastBad_None(board) == {}

-----------------------------------------------------------------------------

\* In a duel: the moves to choose from when none counts as safe.
LeastBad(board) ==
  IF Contingent(board) # {} THEN Contingent(board) ELSE Mutual(board)

BsChooseFallbackMove(board) ==
  LET safe == BoardSafeMoves(board, IndexOf(board, Me))
  IN  CASE safe # {} -> FirstOf(safe)
        [] safe = {} /\ IsDuel(board) /\ LeastBad(board) # {}
             -> FirstOf(LeastBad(board))
        [] OTHER -> "up"

-----------------------------------------------------------------------------
\* One state for each position, before anything is decided.
Fresh == step = "start" /\ policy = "strict"

\* Some reply of the opponent lets us survive. A reply into its own neck is not
\* counted, in the code or here: the opponent would die for nothing.
MaySurvive(own) ==
  \E r \in CommandsOf(position) : IsAlive(Child(position, own, r), Me)

TakesItsChance ==
  MaySurvive(BsChooseFallbackMove(position)) \/ \A m \in Moves : ~MaySurvive(m)

\* The last two segments of some snake are in one cell, as they are after a
\* meal on the boards that game engines send.
StackedOn(board) ==
  \E i \in Indices(board) :
    LET body == board.snakes[i].body
    IN  Len(body) > 1 /\ body[Len(body)] = body[Len(body) - 1]

\* In a duel the fallback never takes certain death while another move has a
\* reply that it survives, even if no move counts as safe. (Of hunger, and of
\* stacked tails, it knows nothing.)
FallbackTakesItsChance ==
  Fresh /\ IsDuel(position) /\ ~StackedOn(position)
        /\ ~Starving(position, IndexOf(position, Me))
    => TakesItsChance

\* The same whatever the tails are like, as a plan of the repository has it: "A
\* guaranteed self-collision must not beat a contingent head-to-head risk."
NoSelfCollisionOverRisk ==
  Fresh /\ IsDuel(position) => TakesItsChance
=============================================================================

---------------------------- MODULE StandardFfa ----------------------------
(***************************************************************************)
(* The strategy for games of many snakes (standard_ffa.c): every move is   *)
(* classified by what it leads to, those that qualify are scored, and when *)
(* no opponent is near a move without a way to live on is refused. Of the  *)
(* scores only their order is kept: a ranking, best first, of the moves    *)
(* and of the score that stands for a loss.                                *)
(***************************************************************************)
EXTENDS SpaceMeasures, Duel

StandardMaxSnakes == 8          \* STANDARD_MAX_SNAKES
DeepeningDepth == 3             \* config.deepening_depth
DeepeningTopCandidates == 2
DeepeningInteractionRadius == 6

\* Every order of the scores in which none is below that of a loss.
Rankings == {Append(r, "loss") : r \in SetToSeqs(Moves)}

SnakeOfId(board, id) == board.snakes[IndexOf(board, id)]
Target(board, id, move) == MoveStep(SnakeHead(SnakeOfId(board, id)), move)

-----------------------------------------------------------------------------
(* Changed forms, one plausible bug each. *)

\* keeps the tail of a snake that has not eaten
Shifted_KeepsTail(board, snake, target) == <<target>> \o snake.body

-----------------------------------------------------------------------------
(* A turn in which nobody else moves, standard_board_after_own_static.     *)

Shifted(board, snake, target) ==
  <<target>> \o (IF target \in Food(board) \/ board.constrictor THEN snake.body
                                                               ELSE Front(snake.body))

HealthAt(board, snake, target) ==
  IF target \in Food(board) THEN 100
  ELSE snake.health - 1 - (IF target \in board.hazards THEN board.hazard_damage ELSE 0)

OwnMoved(board, snake, target) ==
  LET body == Shifted(board, snake, target)
  IN  [snake EXCEPT !.body = body, !.length = Len(body),
                    !.health = HealthAt(board, snake, target)]

AfterOwnStatic(board, id, move) ==
  LET target == Target(board, id, move)
      moved == OwnMoved(board, SnakeOfId(board, id), target)
      stays == InBounds(board, target) /\ moved.health > 0
      others(s) == s.id # id \/ stays
  IN  [board EXCEPT
         !.snakes = SelectSeq([j \in DOMAIN @ |-> IF @[j].id = id THEN moved ELSE @[j]],
                              others),
         !.food = SelectSeq(@, LAMBDA c : c # target)]

-----------------------------------------------------------------------------
(* Candidates, standard_classify_candidates.                               *)

\* How many safe moves, and how much room, a move leaves.
SafeCount(after, id) ==
  IF IsAlive(after, id) THEN Cardinality(BoardSafeMoves(after, IndexOf(after, id))) ELSE 0
Space(after, id) ==
  IF IsAlive(after, id)
  THEN ReachableSpace(after, SnakeHead(SnakeOfId(after, id)), IndexOf(after, id)) ELSE 0

Severity(board, i, target, safe_count, space) ==
  CASE ~InBounds(board, target) -> 50
    [] InBounds(board, target) /\ DeadlyHazard(board, i, target) -> 30
    [] BoardIsSafe(board, target, i) -> IF space <= 0 \/ safe_count <= 0 THEN 10 ELSE 0
    [] OTHER -> IF target \notin ToSet(board.snakes[i].body) /\ Contested(board, i, target)
                THEN 20 ELSE 40

Candidate(board, id, move) ==
  LET i == IndexOf(board, id)
      target == Target(board, id, move)
      after == AfterOwnStatic(board, id, move)
      safe == BoardIsSafe(board, target, i)
      count == IF safe THEN SafeCount(after, id) ELSE 0
      space == IF safe THEN Space(after, id) ELSE 0
  IN  [severity |-> Severity(board, i, target, count, space),
       space |-> space, safe_count |-> count]

Eligible(c) == c.severity = 0

\* standard_least_bad: the least severe, then the roomiest, then the first.
LessBad(c, d) ==
  \/ c.severity < d.severity
  \/ c.severity = d.severity /\ c.space > d.space
  \/ c.severity = d.severity /\ c.space = d.space /\ c.safe_count > d.safe_count

StandardLeastBad(candidates) ==
  FoldLeft(LAMBDA best, m : IF LessBad(candidates[m], candidates[best]) THEN m ELSE best,
           "up", Tail(MoveOrder))

-----------------------------------------------------------------------------
(* The guardrail. *)

OthersBodies(board, id) ==
  UNION {ToSet(board.snakes[j].body) : j \in {k \in Indices(board) : board.snakes[k].id # id}}

RECURSIVE SoloHasEscape(_, _, _)
SoloHasEscape(board, id, depth) ==
  IsAlive(board, id) /\
    \/ depth = 0
    \/ \E move \in BoardSafeMoves(board, IndexOf(board, id)) :
         /\ Target(board, id, move) \notin OthersBodies(board, id)
         /\ SoloHasEscape(AfterOwnStatic(board, id, move), id, depth - 1)

ActiveOpponents(board, id) ==
  {j \in Indices(board) :
     /\ board.snakes[j].id # id /\ Alive(board, j)
     /\ Manhattan(SnakeHead(SnakeOfId(board, id)), SnakeHead(board.snakes[j]))
          <= DeepeningInteractionRadius}

HasEscape(board, id, move) ==
  SoloHasEscape(AfterOwnStatic(board, id, move), id, DeepeningDepth - 1)

\* The best of the eligible moves that has not been refused is tried, so many
\* times; once it has an escape it is tried again.
Refused(board, id, eligible) ==
  IF ActiveOpponents(board, id) # {} THEN {}
  ELSE FoldLeft(LAMBDA refused, n :
                  LET left == SelectSeq(eligible, LAMBDA m : m \notin refused)
                  IN  IF left = <<>> \/ HasEscape(board, id, left[1]) THEN refused
                      ELSE refused \cup {left[1]},
                {}, [n \in 1 .. DeepeningTopCandidates |-> n])

\* The best score; what is refused has the score of a loss, and of those with
\* the same score the first one is taken.
BestOf(ranking, eligible, refused) ==
  LET scored == SelectSeq(ranking, LAMBDA m : \/ m \in ToSet(eligible) \ refused
                                              \/ m = "loss" /\ refused # {})
  IN  IF scored[1] # "loss" THEN scored[1]
      ELSE SelectSeq(MoveOrder, LAMBDA m : m \in refused)[1]

Chosen(board, id, ranking, candidates) ==
  LET eligible == SelectSeq(ranking, LAMBDA m : m # "loss" /\ Eligible(candidates[m]))
  IN  IF eligible = <<>> THEN StandardLeastBad(candidates)
      ELSE BestOf(ranking, eligible, Refused(board, id, eligible))

FirstSafe(board, id) ==
  LET safe == SelectSeq(MoveOrder,
                LAMBDA m : m \in BoardSafeMoves(board, IndexOf(board, id)))
  IN  IF safe = <<>> THEN "up" ELSE safe[1]

\* The moves it answers with when the scores are ranked in one of some ways.
CoreStandardFfaMoves(board, id, rankings) ==
  LET of(m) == Candidate(board, id, m)
      candidates == [up |-> of("up"), down |-> of("down"),
                     left |-> of("left"), right |-> of("right")]
  IN  IF Len(board.snakes) - 1 > StandardMaxSnakes THEN {FirstSafe(board, id)}
      ELSE {Chosen(board, id, r, candidates) : r \in rankings}
=============================================================================

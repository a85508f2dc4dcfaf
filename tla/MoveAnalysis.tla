---------------------------- MODULE MoveAnalysis ----------------------------
(***************************************************************************)
(* A thread's work on a position before, beside or instead of the search:  *)
(* the root policy; computations of the space-time measure on one position *)
(* after the other in the same scratch memory; an evaluation. Here are the *)
(* properties of the first two, and of what needs no state of its own: the *)
(* measures of room, the fallback move and the free-for-all strategy. Each *)
(* is stated by a definition that has nothing to do with how the code      *)
(* computes it.                                                            *)
(***************************************************************************)
EXTENDS SpaceTime, Fallback, StructuralProof, PositionEval, StandardFfa

CONSTANTS
  Solitary,     \* positions that are measured once
  Shared        \* positions that are measured after one another

ASSUME MoveAnalysisAssumption ==
  \A b \in Positions \cup Solitary \cup Shared :
    b.width \in Nat \ {0} /\ b.height \in Nat \ {0}

vars == <<policyVars, spaceVars, evalVars>>

Idle ==
  /\ position = <<>> /\ policy = "strict" /\ fixed_depth = FALSE
  /\ step = "idle"
  /\ looked = {} /\ expired = FALSE /\ candidate = <<>> /\ allowed = {}

Init ==
  /\ SpaceTimeInit
  /\ \/ Idle /\ EvalIdle
     \/ EvalIdle /\ \E board \in Positions : PolicyInit(board)
     \/ Idle /\ \E board \in Evaluated, depth \in MaxDepths,
                   mode \in {"matrix", "pure_minimax"} : EvalInit(board, mode, depth)

Decide == PolicyNext /\ UNCHANGED <<spaceVars, evalVars>>

Evaluate == EvalNext /\ UNCHANGED <<policyVars, spaceVars>>

Measure ==
  /\ step = "idle" /\ eval_status = "idle"
  /\ \E board \in IF computed = 0 THEN Solitary \cup Shared ELSE Shared :
       /\ computed > 0 => measured[1] \in Shared
       /\ \E i \in Indices(board) : \/ SpaceTimeCompute(board, i)
                                    \/ SpaceTimeOfNobody(board, i)
  /\ UNCHANGED <<policyVars, evalVars>>

Next == Decide \/ Measure \/ Evaluate

Spec == Init /\ [][Next]_vars

-----------------------------------------------------------------------------
(* What the space-time measure means, without marks.                       *)

\* The opponents' walks; they do not enter a cell before it is vacated.
OpponentWalks(board, i, vacate) ==
  Iterate(LAMBDA from, t : {c \in UNION {Adjacent(board, d) : d \in from} :
                              t >= vacate[c]},
          OpponentHeads(board, i, SnakeLength(board.snakes[i]), Never),
          MaxTime(board, vacate))

\* The snake's own walks, never where an opponent can already have been.
OwnWalks(board, i) ==
  LET vacate == VacateTimes(board, i)
      claimed == OpponentWalks(board, i, vacate)
  IN  Iterate(LAMBDA from, t : {c \in UNION {Adjacent(board, d) : d \in from} :
                                  /\ t >= vacate[c]
                                  /\ \A u \in 1 .. t + 1 : c \notin claimed[u]},
              {SnakeHead(board.snakes[i])}, MaxTime(board, vacate))

\* The metrics: the walks end when they have been everywhere.
TrueMetrics(board, i) ==
  LET walks == OwnWalks(board, i)
      been == Iterate(LAMBDA cells, t : cells \cup walks[t + 1], walks[1],
                      Len(walks) - 1)
      all == {t \in DOMAIN walks : been[t] = Cells(board)}
      last == IF all = {} THEN Len(walks) ELSE Min(all)
      cells == been[last] \ {SnakeHead(board.snakes[i])}
      first(c) == Min({t \in 1 .. last : c \in walks[t]}) - 1
      tail == \E t \in 2 .. last : Last(board.snakes[i].body) \in walks[t]
  IN  [reachable_cells |-> Cardinality(cells),
       max_arrival |-> Max({0} \cup {first(c) : c \in cells}),
       tail_reachable |-> tail,
       dead |-> ~tail /\ Cardinality(cells) < SnakeLength(board.snakes[i])]

\* Whatever computations on whatever positions came before, the metrics are
\* those of a search with a scratch memory of its own, as long as no stamp has
\* wrapped while part of the memory kept its marks.
SpaceTimeExact ==
  measured # <<>> /\ Alive(measured[1], measured[2]) =>
    \/ partly_cleared
    \/ measured[3] = TrueMetrics(measured[1], measured[2])

\* The boards a snake that is alone can bring about in n turns, alive.
Futures(board, n) ==
  LET turn(boards, k) == {b \in {BoardCloneAndApply(c, c.snakes[1].id :> m) :
                                    c \in boards, m \in Moves} : b.snakes # <<>>}
  IN  Last(Iterate(turn, {board}, n))

\* A snake that is alone and that the measure calls dead cannot live for more
\* turns than it is long. (When hazards are deadly, a meal can still save it:
\* the measure does not count on one.)
DeadMeansDoomed ==
  measured # <<>> /\ Len(measured[1].snakes) = 1 =>
    LET board == measured[1]
        length == SnakeLength(board.snakes[1])
    IN  measured[3].dead /\ (~Starving(board, 1) \/ board.food = <<>>)
          => Futures(board, length + 1) = {}

-----------------------------------------------------------------------------
(* Distances.                                                              *)

Distance(board, open, start) ==
  LET balls == Iterate(LAMBDA ball, n :
                         ball \cup (UNION {Adjacent(board, c) : c \in ball} \cap open),
                       {start}, Cardinality(Cells(board)))
  IN  [c \in Cells(board) |->
         LET n == {k \in DOMAIN balls : c \in balls[k]}
         IN  IF n = {} THEN Never ELSE Min(n) - 1]

IsWalk(board, path) ==
  \A n \in 1 .. Len(path) - 1 : path[n + 1] \in Adjacent(board, path[n])

\* The path to a cell is empty exactly if there is none, and otherwise a walk
\* over free cells that no other walk is shorter than.
PathIsShortest ==
  Fresh => \A i \in Indices(position) :
    LET start == SnakeHead(position.snakes[i])
        free == FreeFrom(position, start, i)
        distance == Distance(position, free, start)
    IN  \A goal \in Cells(position) :
          LET path == ShortestPath(position, start, goal, i)
          IN  IF goal \notin free \/ distance[goal] = Never THEN path = <<>>
              ELSE /\ path[1] = start /\ Last(path) = goal
                   /\ ToSet(path) \subseteq free /\ IsWalk(position, path)
                   /\ Len(path) = distance[goal] + 1

\* Where somebody can go: everywhere but into the bodies behind the heads.
Ground == Cells(position)
            \ UNION {ToSet(Tail(position.snakes[i].body)) : i \in Indices(position)}

Distances ==
  [i \in Indices(position) |->
     Distance(position, Ground, SnakeHead(position.snakes[i]))]

\* A snake owns the cells that it alone is nearest to, and of two snakes none
\* owns a cell that the other is nearer to. (A tie may go to one of them: the
\* other's ways there may all pass a cell that is tied as well.)
DuelTerritoryIsNearest ==
  Fresh =>
    LET distance == Distances
        territory == VoronoiTerritory(position)
        nearer(i, j, c) == distance[i][c] < distance[j][c]
    IN  \A c \in Cells(position) : \A i \in Indices(position) :
          LET others == Indices(position) \ {i}
          IN  /\ (\A j \in others : nearer(i, j, c)) => c \in territory[i]
              /\ c \in territory[i] /\ Cardinality(others) = 1
                   => \A j \in others : ~nearer(j, i, c)

\* The space within reach is all the free cells that a walk leads to.
ReachIsExact ==
  Fresh => \A i \in Indices(position) :
    LET start == SnakeHead(position.snakes[i])
        distance == Distance(position, FreeFrom(position, start, i), start)
    IN  ReachableSpace(position, start, i)
          = Cardinality({c \in Cells(position) : distance[c] # Never})

\* The measures of room agree with distances.
RoomIsExact == PathIsShortest /\ DuelTerritoryIsNearest /\ ReachIsExact

-----------------------------------------------------------------------------
(* The free-for-all strategy. *)

\* What becomes of any of the boards when id goes that way and the others
\* anywhere.
AfterOwn(boards, id, own) ==
  UNION {LET others == {b.snakes[j].id : j \in Indices(b)} \ {id}
         IN  {BoardCloneAndApply(b, (id :> own) @@ replies) : replies \in [others -> Moves]} :
         b \in boards}

\* The moves are a way to stay alive, whatever the others do.
Line(board, id, moves) ==
  LET turn(boards, k) ==
        IF \A b \in boards : IsAlive(b, id) THEN AfterOwn(boards, id, moves[k]) ELSE boards
  IN  \A b \in Last(Iterate(turn, {board}, Len(moves))) : IsAlive(b, id)

\* Such a way of n turns begins with the move.
LivesFor(board, id, own, n) ==
  \E rest \in [1 .. n - 1 -> Moves] : Line(board, id, <<own>> \o rest)

StandardPositions ==
  (IF Fresh THEN {position} ELSE {}) \cup (IF computed = 1 THEN {measured[1]} ELSE {})

\* If there is a safe move, the strategy takes one that it survives whatever the
\* others do. If nobody is near and one of the moves it scores has a way to live
\* on, the move it takes can be lived with for three turns, whatever the others
\* do. And on its own it never takes a move that it cannot live with for three
\* turns when there is one that it can.
StandardMoveIsSound ==
  \A board \in StandardPositions : \A i \in Indices(board) :
    LET id == board.snakes[i].id
        eligible == {m \in Moves : Eligible(Candidate(board, id, m))}
        alone == Len(board.snakes) = 1
    IN  Alive(board, i) /\ ~StackedOn(board) =>
          \A own \in CoreStandardFfaMoves(board, id, Rankings) :
            /\ BoardSafeMoves(board, i) # {} /\ ~Starving(board, i)
                 => LivesFor(board, id, own, 1)
            /\ /\ ActiveOpponents(board, id) = {}
               /\ \/ \E m \in eligible : HasEscape(board, id, m)
                  \/ alone /\ \E m \in Moves : LivesFor(board, id, m, DeepeningDepth)
               => LivesFor(board, id, own, DeepeningDepth)

-----------------------------------------------------------------------------
(* What the trap analysis and the structural prover promise. *)

\* The boards on which we are alive n turns after the move.
Survivals(board, own, n) ==
  LET alive(boards) == {b \in boards : IsAlive(b, Me)}
      turn(boards, k) == alive(UNION {After(c, m) : c \in boards, m \in Moves})
  IN  Last(Iterate(turn, alive(After(board, own)), n))

\* A move that is said to end in the snake's own body does so on the real
\* board too, within the turns counted, whatever both snakes do.
SelfTrapIsFatal ==
  step = "verdict" /\ looked = {} => \A m \in Moves :
    candidate[m].trap \in {"self_trap", "immediate_death"} =>
      Survivals(position, m, candidate[m].trap_horizon) = {}

\* The position without us, with some of its food, and where the opponent can
\* take it in t turns. The food it does not get is ours.
FoePlays(t) ==
  LET foe == position.snakes[IndexOf(position, Foe)]
      with(kept) == [position EXCEPT !.snakes = <<foe>>,
                       !.food = SelectSeq(@, LAMBDA c : c \in kept)]
  IN  UNION {Futures(with(kept), t) : kept \in SUBSET Food(position)}

\* The times at which the closure table is compared with the opponent's plays.
Arrivals == 1 .. 4

\* The lengths that our snake may have after its first move.
Lengths == {PostLength(position, IndexOf(position, Me), m) : m \in Moves}

\* Where the table lets us arrive at time t, whatever the opponent does and
\* eats, we do not lose a meeting of heads, and do not hit its neck or a segment
\* that it had at the start; if it is not shorter than we are, nothing of it is
\* there. (Of a shorter opponent, a segment behind the neck that it has grown
\* since the start can be there: the table looks back a single turn.)
ClosureCoversContests ==
  Fresh /\ StandardDuel => \A length \in Lengths :
    LET me == IndexOf(position, Me)
        timing == Timing(position, me, length, length + Cardinality(Cells(position)))
        longer == SnakeLength(position.snakes[IndexOf(position, Foe)]) >= length
        contested(foe, t) ==
          {foe.body[k] : k \in {n \in DOMAIN foe.body :
             longer \/ n = 2 \/ n > t \/ (n = 1 /\ SnakeLength(foe) >= length)}}
    IN  \A t \in Arrivals : \A b \in FoePlays(t) :
          \A cell \in contested(Head(b.snakes), t) : ClosesAt(timing, cell, t, t)

\* The position after our move without the opponent, which may have eaten.
Alone(own, kept) ==
  LET me == position.snakes[IndexOf(position, Me)]
  IN  BoardCloneAndApply([position EXCEPT !.snakes = <<me>>,
                            !.food = SelectSeq(@, LAMBDA c : c \in kept)], Me :> own)

\* For how many turns after the first a move is proved safe.
ProvedTurns(c) ==
  IF c.cutoff = "bounded_lasso" THEN c.proof_horizon - 1 ELSE c.post_length

\* A move that is proved safe can be lived with, left alone: with the food,
\* hazards and health that there really are, whatever food the opponent takes
\* first.
SafeIsSurvivable ==
  step = (IF policy = "ladder" THEN "reject" ELSE "done") /\ looked = {} /\ ~expired
    => \A m \in DOMAIN candidate : candidate[m].proof = "safe" =>
         LET to == MoveStep(SnakeHead(position.snakes[IndexOf(position, Me)]), m)
         IN  \A kept \in SUBSET Food(position) :
               to \in Food(position) \ kept
                 \/ Futures(Alone(m, kept), ProvedTurns(candidate[m])) # {}
=============================================================================

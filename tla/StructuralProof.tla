--------------------------- MODULE StructuralProof ---------------------------
(***************************************************************************)
(* The structural prover (core_analyze_self_trap): whether a snake that    *)
(* has made its first move can go on living in its own body's company,     *)
(* where the opponents, who do as they like, leave it alone. It answers    *)
(* "safe", "unsafe" or "unknown".                                          *)
(*                                                                         *)
(* The proof walks the snake alone on the board, without food or hunger.   *)
(* What the opponents can do is put in tables before it starts; food,      *)
(* hazards and health come back when a route is validated. A position of   *)
(* the walk is a board with one snake.                                     *)
(***************************************************************************)
EXTENDS SpaceMeasures, Duel

-----------------------------------------------------------------------------
(* Changed forms, one plausible bug each. *)

\* looks only at the squares next to the head: a tail never moves
RelaxedChildren_FixedTail(board) ==
  LET body == Head(board.snakes).body
  IN  {m \in Moves : LET cell == MoveStep(body[1], m)
                     IN  InBounds(board, cell) /\ cell \notin ToSet(body)}

\* a snake that eats leaves its cells as soon as one that does not
Delay_None(meals, base) == 0

\* hazards do no harm
Harm_Hunger(board, cell) == 1

-----------------------------------------------------------------------------
(* The snake alone, after its first move own.                              *)

\* core_relaxed_root_state: without hazards, hunger and food but what the
\* first move eats
RelaxedRoot(board, i, own) ==
  LET me == board.snakes[i]
      to == MoveStep(SnakeHead(me), own)
      alone == [board EXCEPT !.snakes = <<[me EXCEPT !.health = 1000000]>>,
                             !.food = IF to \in Food(board) THEN <<to>> ELSE <<>>,
                             !.hazards = {}, !.constrictor = FALSE,
                             !.hazard_damage = 0]
  IN  [BoardCloneAndApply(alone, me.id :> own) EXCEPT !.food = <<>>]

\* What a turn that ends on a cell costs, without food.
Harm(board, cell) == 1 + IF cell \in board.hazards THEN board.hazard_damage ELSE 0

Body(board) == Head(board.snakes).body
Step(board, m) == BoardCloneAndApply(board, Head(board.snakes).id :> m)

\* The moves after which the snake still lives.
RelaxedChildren(board) == {m \in Moves : Step(board, m).snakes # <<>>}

\* The cells the head reaches past its body, the head included
\* (core_relaxed_static_capacity).
Region(board) ==
  LET head == Head(Body(board))
  IN  Spread(board, Cells(board) \ ToSet(Body(board)), {head}, {head})

\* What is left of a region when its dead ends are taken away, one by one.
RECURSIVE Peel(_, _)
Peel(board, region) ==
  LET core == {c \in region : Cardinality(Adjacent(board, c) \cap region) >= 2}
  IN  IF core = region THEN core ELSE Peel(board, core)

Room(board) ==
  LET region == Region(board)
  IN  [capacity |-> Cardinality(region),
       cyclic |-> Head(Body(board)) \in Peel(board, region)]

\* The parts into which the free cells around the head fall without it.
Sides(board) ==
  LET free == Cells(board) \ ToSet(Body(board))
  IN  {Spread(board, free, {c}, {c}) :
         c \in Adjacent(board, Head(Body(board))) \cap free}

\* The cells of a side that no single cell cuts off from the head: with the
\* head its biconnected component there (core_biconnected_dfs).
Block(board, side) ==
  LET head == Head(Body(board))
      without(x) == Spread(board, side \ {x}, {head}, {head})
  IN  {c \in side : \A x \in side \ {c} : c \in without(x)} \cup {head}

-----------------------------------------------------------------------------
(* What the opponents can do, core_prepare_structural_opponent_arrival.    *)
(* They walk as if no body were in their way, and skip food or eat it,     *)
(* whichever brings them where they are feared.                            *)

\* The cells that heads from a set can be on after 0, 1, ..., horizon turns.
HeadWalks(board, heads, horizon) ==
  Iterate(LAMBDA from, t : UNION {Adjacent(board, c) : c \in from},
          heads, horizon)

\* When snake j can have reached the pieces of food, in ascending order.
Meals(board, j, horizon) ==
  LET walks == HeadWalks(board, {SnakeHead(board.snakes[j])}, horizon)
      times(cell) == {t \in 0 .. horizon : cell \in walks[t + 1]}
      reached == SelectSeq(board.food, LAMBDA cell : times(cell) # {})
  IN  SortSeq([k \in DOMAIN reached |-> Min(times(reached[k]))], <)

\* Meals are one turn apart at least.
MealTime(meals, n) == Max({meals[n], n})

\* core_distinct_food_promotion_time
Promotion(meals, n) ==
  CASE n <= 0 -> 0
    [] n > 0 /\ n > Len(meals) -> Never
    [] OTHER -> MealTime(meals, n)

\* For how many turns meals keep a segment that would leave at time base: as
\* many as there are meals until it leaves (core_food_delay_fixed_point).
Delay(meals, base) ==
  FoldLeft(LAMBDA delay, n :
             Cardinality({k \in DOMAIN meals :
                            MealTime(meals, k) <= base + delay}),
           0, meals)

\* Which cells the body of snake j lies on until when.
BodyTimes(board, j, horizon) ==
  LET body == board.snakes[j].body
      meals == Meals(board, j, horizon)
      base(k) == Len(body) - k + 1
  IN  {<<body[k], IF board.constrictor THEN Never
                  ELSE base(k) + Delay(meals, base(k))>> : k \in DOMAIN body}

\* The tables against a snake i that will be length long.
Timing(board, i, length, horizon) ==
  LET others == {j \in Indices(board) \ {i} : Alive(board, j)}
      shorter == {j \in others : SnakeLength(board.snakes[j]) < length}
      missing(j) == length - SnakeLength(board.snakes[j])
      equal == HeadWalks(board, OpponentHeads(board, i, length, Never), horizon)
  IN  [horizon |-> horizon,
       dangerous |-> Iterate(LAMBDA cells, t : cells \cup equal[t + 1],
                             equal[1], horizon),
       shorter |-> HeadWalks(board, OpponentHeads(board, i, 1, length), horizon),
       equal_promotion |->
         Min({Never} \cup {Promotion(Meals(board, j, horizon), missing(j)) :
                             j \in shorter}),
       body_promotion |->
         Min({Never} \cup {IF SnakeLength(board.snakes[j]) >= 2 THEN 0
                           ELSE Promotion(Meals(board, j, horizon), 1) :
                             j \in shorter}),
       bodies |-> UNION {BodyTimes(board, j, horizon) : j \in others}]

ShorterAt(timing, cell, time) ==
  time \in 0 .. timing.horizon /\ cell \in timing.shorter[time + 1]

\* The neck of a shorter snake whose head was there a turn ago.
NeckLies(timing, cell, arrival) ==
  arrival - 1 >= timing.body_promotion /\ ShorterAt(timing, cell, arrival - 1)

\* Whether an opponent can spoil an arrival at a cell
\* (core_structural_opponent_closes_at).
ClosesAt(timing, cell, arrival, deadline) ==
  \/ cell \in timing.dangerous[Min({deadline, timing.horizon}) + 1]
  \/ arrival >= timing.equal_promotion /\ ShorterAt(timing, cell, arrival)
  \/ NeckLies(timing, cell, arrival)
  \/ \E b \in timing.bodies : b[1] = cell /\ b[2] > arrival

-----------------------------------------------------------------------------
(* A route that ends where it was before: core_validate_bounded_lasso. The *)
(* route is played with all food that lies on it and no food for the       *)
(* health. path[k] is [head, closure]: where the head is at time k, and    *)
(* whether that must not be closed.                                        *)
(*                                                                         *)
(* c is what a proof is about: [board, length, body, health, timing,       *)
(* horizon, ancestors, max_states, require, early].                        *)

\* The piece of food that is eaten on a cell, of those left.
Meal(food, left, cell) ==
  LET here == {n \in left : food[n] = cell}
  IN  IF here = {} THEN {} ELSE {Min(here)}

Replay(c, path, r, k) ==
  LET cell == path[k].head
      health == r.health - Harm(c.board, cell)
      meal == Meal(c.board.food, r.left, cell)
      kept == IF meal # {} THEN r.body ELSE Front(r.body)
  IN  [alive |-> /\ r.alive /\ health > 0 /\ cell \notin ToSet(kept)
                 /\ ~(path[k].closure /\ ClosesAt(c.timing, cell, k, k)),
       health |-> health, left |-> r.left \ meal, body |-> <<cell>> \o kept]

Lasso(c, path, start) ==
  LET depth == Len(path)
      loop == {path[k].head : k \in start .. depth - 1}
      first == [alive |-> TRUE, health |-> c.health, body |-> c.body,
                left |-> {n \in DOMAIN c.board.food :
                            c.board.food[n] # path[1].head}]
      last == FoldLeft(LAMBDA r, k : IF r.alive THEN Replay(c, path, r, k) ELSE r,
                       first, [k \in 1 .. depth - 1 |-> k + 1])
  IN  IF depth - start <= c.length \/ Cardinality(loop) # depth - start
      THEN "none"
      ELSE IF /\ last.alive /\ Len(last.body) < depth - start
              /\ ToSet(last.body) \subseteq loop
           THEN "proved" ELSE "failed"

-----------------------------------------------------------------------------
(* The proof, core_prove_structural_node. A node n is [board, path,        *)
(* ancestors, steps, minimum, established, room, health]; steps counts     *)
(* down in an established region, is -1 before and -2 when the region was  *)
(* lost. What it found is [explored, lasso, failed].                       *)

\* Whether the head is in a region it can defend: large enough without any
\* doorway, and, if it has just come there, with two ways on that stay open.
Established(c, n) ==
  LET depth == Len(n.path)
      sides == Sides(n.board)
      block == UNION {Block(n.board, side) : side \in sides}
      to(m) == MoveStep(Head(Body(n.board)), m)
  IN  /\ n.room.capacity >= c.length /\ n.room.cyclic
      /\ Cardinality(sides) = 1 /\ Cardinality(block) >= c.length
      /\ \/ n.established
         \/ Cardinality({m \in RelaxedChildren(n.board) :
              /\ to(m) \in block
              /\ ~ClosesAt(c.timing, to(m), depth + 1, depth + 1)}) >= 2

Outcome(result, cutoff, capacity, found) ==
  [result |-> result, cutoff |-> cutoff, capacity |-> capacity] @@ found

\* The living children, the most promising first.
Ordered(children) ==
  LET rank(m) == (CHOOSE k \in 1 .. 4 : MoveOrder[k] = m)
      before(x, y) ==
        \/ x.room.cyclic /\ ~y.room.cyclic
        \/ x.room.cyclic = y.room.cyclic /\ x.room.capacity > y.room.capacity
        \/ x.room = y.room /\ rank(x.move) < rank(y.move)
  IN  SetToSortSeq(children, before)

\* How many turns the region still has to be defended, and how small it was.
Countdown(c, n, now) ==
  LET lost == n.established /\ ~now
      sufficient == n.room.capacity >= c.length
      steps == IF n.steps >= 0 /\ (lost \/ ~sufficient) THEN -2 ELSE n.steps
      begins == sufficient /\ c.require /\ steps = -1 /\ now
  IN  [steps |-> IF begins THEN c.horizon ELSE steps,
       minimum |-> CASE begins -> n.room.capacity
                     [] sufficient /\ ~begins ->
                          IF steps >= 0 THEN Min({n.minimum, n.room.capacity})
                          ELSE n.minimum
                     [] OTHER -> 0]

\* The nodes after n; a defended region has no doorways to be closed.
Children(c, n, path, now, count) ==
  LET time == Len(path) + 1
      open == {m \in RelaxedChildren(n.board) :
                 LET cell == MoveStep(Head(Body(n.board)), m)
                 IN  now \/ ~ClosesAt(c.timing, cell, time, time)}
      child(m) ==
        LET next == Step(n.board, m)
            head == Head(Body(next))
        IN  [move |-> m, board |-> next, room |-> Room(next),
             path |-> Append(path, [head |-> head, closure |-> ~now]),
             ancestors |-> n.ancestors \cup {Body(n.board)},
             steps |-> IF count.steps >= 0 THEN count.steps - 1 ELSE count.steps,
             minimum |-> count.minimum, established |-> now,
             health |-> n.health - Harm(c.board, head)]
  IN  Ordered({child(m) : m \in open})

\* The first safe child decides; if there is none, the first unknown one does.
Joined(sofar, tried) ==
  IF \/ tried.result = "safe"
     \/ tried.result = "unknown" /\ sofar.result = "unsafe"
  THEN tried
  ELSE [sofar EXCEPT !.explored = tried.explored, !.lasso = tried.lasso,
                     !.failed = tried.failed]

RECURSIVE ProveNode(_, _, _)
ProveNode(c, n, found) ==
  LET depth == Len(n.path)
      body == Body(n.board)
      now == Established(c, n)
      lost == n.established /\ ~now
      path == [n.path EXCEPT ![depth].closure = @ \/ lost]
      \* an earlier return to the head would have it on the loop twice
      returns == {k \in 1 .. depth - 1 : path[k].head = path[depth].head}
      lasso == IF returns = {} THEN "none" ELSE Lasso(c, path, Max(returns))
      seen == [explored |-> found.explored + 1,
               lasso |-> IF found.lasso = <<>> /\ lasso = "proved"
                         THEN <<depth, depth - Max(returns)>> ELSE found.lasso,
               failed |-> found.failed \/ lasso = "failed"]
      count == Countdown(c, n, now)
      try(sofar, next) ==
        LET known == [f \in DOMAIN found |-> sofar[f]]
        IN  IF sofar.result = "safe" THEN sofar
            ELSE Joined(sofar, IF next.health <= 0 /\ c.early
                               THEN Outcome("unknown", "survivability", 0, known)
                               ELSE ProveNode(c, next, known))
  IN  IF found.explored >= c.max_states
      THEN Outcome("unknown", "resource_limit", 0, found)
      ELSE IF lost /\ ClosesAt(c.timing, body[1], depth, depth)
      THEN Outcome("unsafe", "dead_end", 0, [found EXCEPT !.explored = @ + 1])
      ELSE IF lasso = "proved" /\ c.early
      THEN Outcome("safe", "bounded_lasso", depth - Max(returns), seen)
      ELSE IF n.room.capacity >= c.length /\ c.require /\ count.steps = 0
      THEN Outcome("safe", "horizon", count.minimum, seen)
      ELSE IF body \in n.ancestors
      THEN Outcome("safe", "cycle",
                   IF count.steps >= 0 THEN count.minimum ELSE n.room.capacity, seen)
      ELSE IF depth - 1 >= c.ancestors
      THEN Outcome("unknown", "horizon", 0, seen)
      ELSE FoldLeft(try, Outcome("unsafe", "dead_end", 0, seen),
                    Children(c, n, path, now, count))

-----------------------------------------------------------------------------
(* A shortcut, core_structural_bounded_cycle_capacity: a snake that lies   *)
(* on the edge of a rectangle and can go around it.                        *)

\* The edge of the least rectangle around the body, counterclockwise.
Perimeter(body) ==
  LET xs == {body[k][1] : k \in DOMAIN body}
      ys == {body[k][2] : k \in DOMAIN body}
      width == Max(xs) - Min(xs)
      height == Max(ys) - Min(ys)
  IN  IF width = 0 \/ height = 0 THEN <<>>
      ELSE [n \in 1 .. width |-> <<Min(xs) + n - 1, Min(ys)>>]
        \o [n \in 1 .. height |-> <<Max(xs), Min(ys) + n - 1>>]
        \o [n \in 1 .. width |-> <<Max(xs) - n + 1, Max(ys)>>]
        \o [n \in 1 .. height |-> <<Min(xs), Max(ys) - n + 1>>]

Turned(ring, k) == SubSeq(ring, k, Len(ring)) \o SubSeq(ring, 1, k - 1)

\* The rings that begin with the body and go on behind its tail.
Rings(body) ==
  LET edge == Perimeter(body)
  IN  {ring \in {Turned(r, k) : r \in {edge, Reverse(edge)}, k \in DOMAIN edge} :
         Len(body) < Len(ring) /\ SubSeq(ring, 1, Len(body)) = body}

\* Food that is left on the edge, the root's meal apart.
EdgeFood(board, ring, eaten) == (Food(board) \cap ToSet(ring)) \ {eaten}

\* The length of a ring that nobody contests and that has room for all food
\* on it, or 0.
CycleCapacity(board, body, timing, eaten) ==
  LET cap(ring) == Len(ring)
      arrival(ring, k) == 1 + ((cap(ring) - (k - 1)) % cap(ring))
      kept == {ring \in Rings(body) :
                 /\ \A k \in DOMAIN ring :
                      ~ClosesAt(timing, ring[k], arrival(ring, k), cap(ring))
                 /\ Cardinality(EdgeFood(board, ring, eaten))
                      <= cap(ring) - Len(body) - 1}
  IN  Max({0} \cup {cap(ring) : ring \in kept})

-----------------------------------------------------------------------------
(* The verdict on a first move, core_analyze_self_trap. skip is set when   *)
(* the policy has what it needs, early when a route that can be repeated   *)
(* is good enough.                                                         *)

\* A proof about the relaxed board disregards food and health; what these
\* put in doubt is unknown.
VerdictOf(outcome, optional_food, horizon) ==
  LET lasso == outcome.lasso # <<>>
      doubted == optional_food \/ outcome.failed
  IN  CASE outcome.result = "unknown" ->
             Verdict("unknown", outcome.cutoff, horizon)
        [] outcome.result = "unsafe" ->
             IF optional_food THEN Verdict("unknown", "survivability", horizon)
             ELSE Verdict("unsafe", outcome.cutoff, horizon)
        [] outcome.result = "safe" /\ ~lasso ->
             IF doubted THEN Verdict("unknown", "survivability", horizon)
             ELSE Verdict("safe", outcome.cutoff, horizon)
        [] outcome.result = "safe" /\ lasso ->
             IF doubted \/ outcome.cutoff = "bounded_lasso"
             THEN Verdict("safe", "bounded_lasso", outcome.lasso[1])
             ELSE Verdict("safe", outcome.cutoff, horizon)

\* The health after the first move, in the real game.
RootHealth(board, i, cell) ==
  IF cell \in Food(board) THEN 100
  ELSE board.snakes[i].health - Harm(board, cell)

\* What the worst turn costs, hazards included, wherever they are.
PerTurn(board) == 1 + IF board.hazards # {} THEN board.hazard_damage ELSE 0

\* The proof proper: of a root with room enough, or of one without, which can
\* only be saved by a cycle.
Proof(board, root, length, room, health, timing, early) ==
  LET deficit == room.capacity < length
      cells == Cardinality(Cells(board))
      horizon == length + cells
  IN  ProveNode([board |-> board, length |-> length, body |-> Body(root),
                 health |-> health, timing |-> timing, early |-> early,
                 horizon |-> IF deficit THEN length ELSE horizon,
                 ancestors |-> IF deficit THEN length ELSE 2 * horizon + 1,
                 max_states |-> cells * IF deficit THEN length
                                 ELSE length + board.width + board.height,
                 require |-> ~deficit],
                [board |-> root,
                 path |-> <<[head |-> Head(Body(root)), closure |-> TRUE]>>,
                 ancestors |-> {}, steps |-> -1, minimum |-> 0,
                 established |-> FALSE, room |-> room, health |-> health],
                [explored |-> 0, lasso |-> <<>>, failed |-> FALSE])

\* The verdict on a root with room and against timing.
Verified(board, root, length, room, health, timing, skip, early) ==
  LET to == Head(Body(root))
      horizon == length + Cardinality(Cells(board))
  IN  IF health <= PerTurn(board) * length
      THEN Verdict("unknown", "survivability", horizon)
      ELSE IF skip /\ room.capacity < length
      THEN Verdict("unknown", "policy_sufficient", horizon)
      ELSE IF ClosesAt(timing, to, 1, 1)
      THEN Verdict("unsafe", "dead_end", horizon)
      ELSE IF CycleCapacity(board, Body(root), timing, to) > 0
      THEN Verdict("safe", "capacity", horizon)
      ELSE VerdictOf(Proof(board, root, length, room, health, timing, early),
                     \E c \in Food(board) : c # to, horizon)

\* A root that is not alive needs no proof.
Survey(board, i, root, length, health, skip, early) ==
  IF root.snakes = <<>> \/ health <= 0
  THEN Verdict("unsafe", "dead_end", length + Cardinality(Cells(board)))
  ELSE Verified(board, root, length, Room(root), health,
                Timing(board, i, length, length + Cardinality(Cells(board))),
                skip, early)

AnalyzeSelfTrap(board, i, own, skip, early) ==
  Survey(board, i, RelaxedRoot(board, i, own), PostLength(board, i, own),
         RootHealth(board, i, MoveStep(SnakeHead(board.snakes[i]), own)),
         skip, early)

-----------------------------------------------------------------------------
(* The snake alone: where it has one way to go, and where that ends.       *)

\* Follows the snake while it has one way to go, core_analyze_legacy_self_trap.
RECURSIVE ForcedLine(_, _, _, _)
ForcedLine(board, horizon, length, seen) ==
  LET ways == RelaxedChildren(board)
      next == Step(board, CHOOSE m \in ways : TRUE)
      body == Body(next)
  IN  CASE horizon >= length - 1  -> <<"survives_horizon", horizon>>
        [] horizon < length - 1 /\ ways = {} -> <<"self_trap", horizon>>
        [] horizon < length - 1 /\ Cardinality(ways) > 1
                                  -> <<"open_branch", horizon>>
        [] OTHER -> IF Len(body) # length THEN <<"unknown", horizon + 1>>
                    ELSE IF body \in seen
                    THEN <<"survives_cycle", horizon + 1>>
                    ELSE ForcedLine(next, horizon + 1, length, seen \cup {body})

LegacySelfTrap(board, own) ==
  LET root == RelaxedRoot(board, IndexOf(board, Me), own)
      line == ForcedLine(root, 1, Len(Body(root)), {Body(root)})
      length == PostLength(board, IndexOf(board, Me), own)
  IN  IF root.snakes = <<>>
      THEN [trap |-> "immediate_death", trap_horizon |-> 0, capacity |-> 0,
            post_length |-> length]
      ELSE [trap |-> line[1], trap_horizon |-> line[2],
            capacity |-> Cardinality(Region(root)), post_length |-> length]
=============================================================================

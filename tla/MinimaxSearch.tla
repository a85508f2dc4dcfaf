--------------------------- MODULE MinimaxSearch ---------------------------
(***************************************************************************)
(* The duel search of core_algorithms.c: core_minimax_search, an alpha-beta *)
(* maximin over joint moves written as a recursion, and the iterative       *)
(* deepening of CoreMinimaxMoveWithStats around it.  The recursion is an    *)
(* explicit stack of frames, one action per stretch of code between two     *)
(* places where the search may be interrupted or calls itself.              *)
(*                                                                         *)
(* The board is abstract: a game is a table of positions, with the own      *)
(* moves and the replies of each, the position a joint move leads to, the   *)
(* duel's outcome and the evaluation's score.  The transition itself is     *)
(* module SearchState's, the choice among root moves RootSelection's.       *)
(***************************************************************************)
EXTENDS RootSelection, TranspositionTable, SequencesExt

CONSTANTS
    Games,          \* the games, by name
    Configs,        \* set of search configurations
    Directions,     \* the moves, in enumeration order (a sequence)
    MaxDepth,       \* CORE_MINIMAX_MAX_DEPTH
    TerminalWin, TerminalLoss, SurvivalStep,
    Infinity        \* DBL_MAX

Moves == ToSet(Directions)
Outcomes == {"WIN", "DRAW", "UNRESOLVED", "LOSS"}

\* A game names every position that the search can get to, and has a move and
\* a reply in each.  Its allowed moves are those the root policy left, in
\* enumeration order.
IsGame(g) ==
    /\ g.allowed \in Seq(Moves) \ {<<>>} /\ IsInjective(g.allowed)
    /\ g.root.position \in Positions
    /\ \A p \in Positions :
        /\ g.outcome[p] \in Outcomes /\ g.score[p] \in Int
        /\ g.moves[p] \in Seq(Moves) \ {<<>>}
        /\ g.replies[p] \in Seq(Moves \cup {NoMove}) \ {<<>>}
        /\ \A m \in Moves, r \in ToSet(g.replies[p]) : g.next[p][m][r] \in Positions
    /\ \A m \in Moves :
        /\ g.root.proof[m] \in {"SAFE", "UNKNOWN", "UNSAFE"}
        /\ {g.root.reachable[m], g.root.tail[m], g.root.corridor[m]} \subseteq Int

OwnMoves(g, p) == IF p = g.root.position THEN ToSet(g.allowed) ELSE ToSet(g.moves[p])

\* Positions tell how many moves they are from the root.  The hash has no turn
\* in it, but a snake's health, which falls by one with every move: a position
\* comes up at two distances only if every snake ate or met a hazard on the way.
Layered(g) ==
    /\ g.layer[g.root.position] = 0
    /\ \A p \in Positions :
        /\ g.layer[p] \in Nat
        /\ g.outcome[p] = "UNRESOLVED" /\ g.layer[p] < MaxDepth
              => \A m \in OwnMoves(g, p), r \in ToSet(g.replies[p]) :
                    g.layer[g.next[p][m][r]] = g.layer[p] + 1

ASSUME SearchAssumption ==
    /\ Directions \in Seq(Moves) /\ NoMove \notin Moves
    /\ {TerminalWin, TerminalLoss, SurvivalStep, Infinity} \subseteq Int
    /\ \A g \in DOMAIN Games : IsGame(Games[g])
    /\ MaxDepth \in Nat /\ \A c \in Configs : c.fixed \in 0..MaxDepth

\* The scores of forced ends, however far off, lie in two bands.
LossBand == TerminalLoss + SurvivalStep * MaxDepth
WinBand == TerminalWin - SurvivalStep * MaxDepth

\* core_terminal_survival_step keeps the bands apart, a win is weighed above a
\* loss, and the scores are finite.
ASSUME BandAssumption ==
    /\ SurvivalStep \in Nat /\ LossBand < WinBand
    /\ -Infinity < TerminalLoss /\ TerminalWin < Infinity
    /\ \A g \in DOMAIN Games : \A p \in Positions :
        -Infinity < Games[g].score[p] /\ Games[g].score[p] < Infinity

VARIABLES
    game,           \* in DOMAIN Games: the board the search was called on
    config,         \* [tt, ordering, fixed, nodeBudget]
    phase,          \* what the program does next
    depth,          \* depth of the iteration under way
    stack,          \* frames, the innermost last; ply is the distance from the root
    call,           \* arguments of the core_minimax_search being entered
    result,         \* what the search that last returned returned
    table,
    ordering,       \* [killers, history, rootReply]
    rootValues,     \* root_move_values on the moves whose value is valid
    rootBest,       \* [move, reason]: root_best_move and its reason
    preferred,      \* previous iteration's choice, NoMove before there is one
    completed,      \* CoreRootIterationSnapshot
    interruption    \* "none", "wall" (recorded), "nodes"

vars == <<game, config, phase, depth, stack, call, result, table, ordering,
          rootValues, rootBest, preferred, completed, interruption>>

G == Games[game]

----------------------------------------------------------------------------
(* Values. *)

Unresolved(score) ==
    [score |-> score, outcome |-> "UNRESOLVED", distance |-> 0, bound |-> "EXACT"]

\* core_terminal_value: losses are better the later, wins the sooner.
Terminal(outcome, distance) ==
    [score |-> CASE outcome = "WIN"  -> TerminalWin - SurvivalStep * distance
                 [] outcome = "LOSS" -> TerminalLoss + SurvivalStep * distance
                 [] outcome = "DRAW" -> (TerminalWin + TerminalLoss) \div 2,
     outcome |-> outcome, distance |-> distance, bound |-> "EXACT"]

\* core_backup_child_value: one move further away, the bound kept.
Backup(child) ==
    IF child.outcome = "UNRESOLVED" THEN child
    ELSE [Terminal(child.outcome, child.distance + 1) EXCEPT !.bound = child.bound]

Lesser(a, b) == IF a < b THEN a ELSE b

\* A score up to its place in a band.
Band(score) ==
    IF score >= WinBand THEN Infinity ELSE IF score <= LossBand THEN -Infinity ELSE score

Evaluation(g, p) ==
    IF g.outcome[p] = "UNRESOLVED" THEN Unresolved(g.score[p])
                                   ELSE Terminal(g.outcome[p], 0)

----------------------------------------------------------------------------
(* Move ordering. *)

MoveToFront(order, m) ==
    LET index == CHOOSE k \in DOMAIN order : order[k] = m
    IN IF m \in ToSet(order)
       THEN [k \in DOMAIN order |-> CASE k = 1 -> m
                                      [] k \in 2..index -> order[k - 1]
                                      [] OTHER -> order[k]]
       ELSE order

Weight(m, chosen, weight) == IF m = chosen THEN weight ELSE 0

\* core_move_order_score; a child is never given a preferred move, and the
\* principal variation of the iteration is in ordering.pv.
OrderScore(ply, m, ttBest) ==
    Weight(m, ttBest, 100000) + Weight(m, ordering.pv[ply], 25000)
    + Weight(m, ordering.killers[ply][1], 12000)
    + Weight(m, ordering.killers[ply][2], 8000)
    + ordering.history[m]

\* core_order_moves: the root keeps its order but for the move it prefers;
\* below, a stable sort by score.
OrderMoves(ply, own, ttBest, prefer) ==
    IF ~config.ordering THEN own
    ELSE IF ply = 0 THEN MoveToFront(own, IF ttBest # NoMove THEN ttBest ELSE prefer)
    ELSE LET score == [k \in DOMAIN own |-> OrderScore(ply, own[k], ttBest)]
             Precedes(j, k) == score[j] > score[k] \/ (score[j] = score[k] /\ j < k)
             rank == [k \in DOMAIN own |->
                        Cardinality({j \in DOMAIN own : Precedes(j, k)}) + 1]
         IN [i \in DOMAIN own |-> own[CHOOSE k \in DOMAIN own : rank[k] = i]]

\* A reply that refutes a move: remembered as killer of the ply, and in the
\* move's history.
Refuted(ply, m, d) ==
    IF ~config.ordering THEN ordering
    ELSE [ordering EXCEPT
            !.killers[ply] = IF m = @[1] THEN @ ELSE <<m, @[1]>>,
            !.history[m] = @ + d * d]

----------------------------------------------------------------------------
(* The state before the first iteration. *)

Allowed == ToSet(G.allowed)

\* The moves among which an unsearched answer is chosen.
Frontier ==
    IF G.root.policy = "LADDER"
    THEN StructuralMaximal(G.root, Allowed) ELSE Allowed

FallbackReason ==
    IF Frontier # Allowed THEN "STRUCTURAL_PROOF" ELSE "NOT_COMPARED"

NoCall == [pos |-> G.root.position, depth |-> 0, alpha |-> 0, beta |-> 0,
           preferred |-> NoMove]
NoResult == [value |-> Unresolved(0), best |-> NoMove]

Init ==
    /\ game \in DOMAIN Games
    /\ config \in Configs
    /\ phase = "iterate"
    /\ depth = 0
    /\ stack = <<>>
    /\ call = NoCall
    /\ result = NoResult
    /\ table = CoreTtInit
    /\ ordering = [killers |-> [p \in 0..MaxDepth |-> <<NoMove, NoMove>>],
                   history |-> [m \in Moves |-> 0],
                   pv |-> [p \in 0..MaxDepth |-> NoMove],
                   rootReply |-> [m \in Moves |-> NoMove]]
    /\ rootValues = << >>
    /\ rootBest = [move |-> FirstOf(Directions, Frontier), reason |-> FallbackReason]
    /\ preferred = NoMove
    /\ completed = [depth |-> 0, move |-> FirstOf(Directions, Frontier),
                    value |-> Unresolved(0), reason |-> FallbackReason,
                    source |-> "ALLOWED_FALLBACK", values |-> << >>]
    /\ interruption = "none"

----------------------------------------------------------------------------
(* core_minimax_search *)

Ply == Len(stack)
Top == stack[Len(stack)]
SetTop(frame) == [stack EXCEPT ![Len(stack)] = frame]

\* Return value r, with best move m, to the caller.
Return(r, m) ==
    /\ result' = [value |-> r, best |-> m]
    /\ phase' = IF Ply = 0 THEN "iterated" ELSE "returned"

\* Nodes of depth below two and finished games stay out of the table.
InTable(p, d) == config.tt /\ d >= 2 /\ G.outcome[p] = "UNRESOLVED"

Probe ==
    IF InTable(call.pos, call.depth)
    THEN CoreTtProbe(table, call.pos, call.depth, call.alpha, call.beta)
    ELSE Miss

EnterCutoff ==
    /\ phase = "enter"
    /\ Probe.result = "CUTOFF"
    /\ Return(Probe.value, Probe.best)
    /\ UNCHANGED <<game, config, depth, stack, call, table, ordering, rootValues,
                   rootBest, preferred, completed, interruption>>

IsLeaf(p, d) == d <= 0 \/ G.outcome[p] # "UNRESOLVED"

EnterLeaf ==
    /\ phase = "enter"
    /\ IsLeaf(call.pos, call.depth)
    /\ Return(Evaluation(G, call.pos), NoMove)
    /\ UNCHANGED <<game, config, depth, stack, call, table, ordering, rootValues,
                   rootBest, preferred, completed, interruption>>

EnterNode ==
    /\ phase = "enter"
    /\ Probe.result # "CUTOFF"
    /\ ~IsLeaf(call.pos, call.depth)
    /\ LET own == IF Ply = 0 THEN G.allowed ELSE G.moves[call.pos]
           order == OrderMoves(Ply, own, Probe.best, call.preferred)
       IN stack' = Append(stack,
            [pos |-> call.pos, depth |-> call.depth,
             alpha |-> call.alpha, beta |-> call.beta,
             window |-> <<call.alpha, call.beta>>, preferred |-> call.preferred,
             own |-> own, order |-> order, next |-> 1,
             replies |-> G.replies[call.pos], combo |-> 1,
             worst |-> Unresolved(Infinity), worstReply |-> NoMove,
             cutoff |-> FALSE,
             best |-> Unresolved(-Infinity), bestMove |-> order[1]])
    /\ phase' = "moves"
    /\ UNCHANGED <<game, config, depth, call, result, table, ordering, rootValues,
                   rootBest, preferred, completed, interruption>>

\* The next own move: at the root the reply that was worst last time goes
\* first, in the list the node keeps for all its moves.
OpenMove ==
    /\ phase = "moves"
    /\ LET m == Top.order[Top.next] IN
       stack' = SetTop([Top EXCEPT
            !.replies = IF Ply = 1 /\ config.ordering
                        THEN MoveToFront(@, ordering.rootReply[m]) ELSE @,
            !.combo = 1, !.worst = Unresolved(Infinity),
            !.worstReply = NoMove, !.cutoff = FALSE])
    /\ phase' = "replies"
    /\ UNCHANGED <<game, config, depth, call, result, table, ordering, rootValues,
                   rootBest, preferred, completed, interruption>>

ChildBeta(frame) == Lesser(frame.worst.score, frame.beta)

OpenReply ==
    /\ phase = "replies"
    /\ call' = [pos |-> G.next[Top.pos][Top.order[Top.next]][Top.replies[Top.combo]],
                depth |-> Top.depth - 1, alpha |-> Top.alpha,
                beta |-> ChildBeta(Top), preferred |-> NoMove]
    /\ phase' = "enter"
    /\ UNCHANGED <<game, config, depth, stack, result, table, ordering, rootValues,
                   rootBest, preferred, completed, interruption>>

\* A reply's value comes back: keep the worst, and stop at one that is no
\* better than what is already sure.
TakeReply ==
    /\ phase = "returned"
    /\ LET value == Backup(result.value)
           worse == value.score < Top.worst.score
           worst == IF worse THEN value ELSE Top.worst
           cutoff == worst.score <= Top.alpha
           last == Top.combo = Len(Top.replies)
       IN /\ stack' = SetTop([Top EXCEPT
                !.worst = worst,
                !.worstReply = IF worse THEN Top.replies[Top.combo] ELSE @,
                !.cutoff = cutoff,
                !.combo = IF cutoff \/ last THEN @ ELSE @ + 1])
          /\ ordering' = IF cutoff THEN Refuted(Ply - 1, Top.order[Top.next], Top.depth)
                                   ELSE ordering
          /\ phase' = IF cutoff \/ last THEN "close" ELSE "replies"
    /\ UNCHANGED <<game, config, depth, call, result, table, rootValues, rootBest,
                   preferred, completed, interruption>>

\* (Changed form: the refutation of a root move forgotten.)
RootValue_AlwaysExact(frame) == [frame.worst EXCEPT !.bound = "EXACT"]

\* What the root publishes for a move: an upper bound if its replies were
\* cut off, exact otherwise.
RootValue(frame) ==
    [frame.worst EXCEPT !.bound = IF frame.cutoff THEN "UPPER" ELSE "EXACT"]

\* core_equal_score_move_is_better orders equal scores by geometry; the
\* outcome is left open.  It decides the move a node remembers, never its score.
Improves(frame, tieWon) ==
    \/ frame.worst.score > frame.best.score
    \/ frame.worst.score = frame.best.score /\ tieWon

\* All replies to a move are in.
CloseMove ==
    /\ phase = "close"
    /\ \E tieWon \in IF Top.worst.score = Top.best.score THEN BOOLEAN ELSE {FALSE} :
        LET m == Top.order[Top.next]
            atRoot == Ply = 1
            settled == IF atRoot THEN RootValue(Top) ELSE Top.worst
            best == IF Improves(Top, tieWon) THEN settled ELSE Top.best
            alpha == IF best.score > Top.alpha THEN best.score ELSE Top.alpha
            done == alpha >= Top.beta \/ Top.next = Len(Top.order)
        IN /\ stack' = SetTop([Top EXCEPT
                 !.best = best, !.alpha = alpha,
                 !.bestMove = IF Improves(Top, tieWon) THEN m ELSE @,
                 !.next = IF done THEN @ ELSE @ + 1])
           /\ IF atRoot
              THEN /\ rootValues' = [x \in DOMAIN rootValues \cup {m} |->
                                        IF x = m THEN settled ELSE rootValues[x]]
                   /\ LET s == SelectRoot(G.root, rootValues', Top.preferred, Top.own)
                      IN rootBest' = [move |-> s.move, reason |-> s.reason]
                   /\ ordering' = [ordering EXCEPT !.rootReply[m] = Top.worstReply]
              ELSE UNCHANGED <<rootValues, rootBest, ordering>>
           /\ phase' = IF done THEN "finish" ELSE "moves"
    /\ UNCHANGED <<game, config, depth, call, result, table, preferred, completed,
                   interruption>>

\* (Changed form: a cut-off node taken for exact.)
NodeBound_ForgetsLower(frame) ==
    IF frame.best.score <= frame.window[1] THEN "UPPER" ELSE "EXACT"

\* The bound of a node is against the window it was entered with.
NodeBound(frame) ==
    IF frame.best.score <= frame.window[1] THEN "UPPER"
    ELSE IF frame.best.score >= frame.window[2] THEN "LOWER"
    ELSE "EXACT"

FinishNode ==
    /\ phase = "finish"
    /\ LET bound == NodeBound(Top)
           own == [value |-> [Top.best EXCEPT !.bound = bound], move |-> Top.bestMove]
           chosen == IF Ply = 1
                     THEN SelectRoot(G.root, rootValues, Top.preferred, Top.own)
                     ELSE own
       IN /\ result' = [value |-> chosen.value, best |-> chosen.move]
          /\ ordering' = IF config.ordering
                         THEN [ordering EXCEPT !.pv[Ply - 1] = chosen.move]
                         ELSE ordering
          /\ table' = IF InTable(Top.pos, Top.depth)
                      THEN CoreTtStore(table, Top.pos, Top.depth, own.value, bound,
                                       own.move)
                      ELSE table
          /\ stack' = SubSeq(stack, 1, Ply - 1)
          /\ phase' = IF Ply = 1 THEN "iterated" ELSE "returned"
    /\ UNCHANGED <<game, config, depth, call, rootValues, rootBest, preferred,
                   completed, interruption>>

----------------------------------------------------------------------------
(* CoreMinimaxMoveWithStats *)

DeepestIteration == IF config.fixed > 0 THEN config.fixed ELSE MaxDepth

StartIteration ==
    /\ phase = "iterate"
    /\ depth < DeepestIteration
    /\ depth' = depth + 1
    /\ rootValues' = << >>
    /\ call' = [pos |-> G.root.position, depth |-> depth + 1,
                alpha |-> -Infinity, beta |-> Infinity, preferred |-> preferred]
    /\ phase' = "enter"
    /\ UNCHANGED <<game, config, stack, result, table, ordering, rootBest, preferred,
                   completed, interruption>>

\* core_minimax_interrupted with record_wall_interruption: no frame of the
\* recursion does anything on its way out but undo its move.  A node budget
\* is positive and is not spent before the first node.
Interrupt ==
    /\ phase \in {"enter", "moves", "replies"}
    /\ config.nodeBudget => depth > 1 \/ Ply > 0
    /\ stack' = <<>>
    /\ interruption' = IF config.nodeBudget THEN "nodes" ELSE "wall"
    /\ phase' = "interrupted"
    /\ UNCHANGED <<game, config, depth, call, result, table, ordering, rootValues,
                   rootBest, preferred, completed>>

\* core_root_snapshot_complete.  A root that is a leaf names no move, and the
\* candidate stays what it was.
CompleteIteration ==
    /\ phase = "iterated"
    /\ LET candidate == IF result.best = NoMove THEN completed.move ELSE result.best
       IN /\ rootBest' = [rootBest EXCEPT !.move = candidate]
          /\ preferred' = candidate
          /\ completed' = [depth |-> depth, move |-> candidate, value |-> result.value,
                           reason |-> rootBest.reason, source |-> "MINIMAX",
                           values |-> rootValues]
          /\ ordering' = IF config.ordering THEN [ordering EXCEPT !.pv[0] = candidate]
                                            ELSE ordering
    /\ phase' = "between"
    /\ UNCHANGED <<game, config, depth, stack, call, result, table, rootValues,
                   interruption>>

\* Between iterations the clock is read once more, but an expiry found here
\* is not recorded as an interruption; the node budget's always is.  A search
\* of fixed depth does not look.
StopBetween ==
    /\ phase = "between"
    /\ config.fixed = 0
    /\ interruption' = IF config.nodeBudget THEN "nodes" ELSE interruption
    /\ phase' = "finalize"
    /\ UNCHANGED <<game, config, depth, stack, call, result, table, ordering,
                   rootValues, rootBest, preferred, completed>>

Deepen ==
    /\ phase = "between"
    /\ table' = IF config.tt THEN CoreTtNextGeneration(table) ELSE table
    /\ phase' = IF depth = DeepestIteration THEN "finalize" ELSE "iterate"
    /\ UNCHANGED <<game, config, depth, stack, call, result, ordering, rootValues,
                   rootBest, preferred, completed, interruption>>

RestrictTo(f, S) == [x \in DOMAIN f \cap S |-> f[x]]

\* (Changed form: the newest values win, finished or not.)
AdoptPartial_Always ==
    LET eligible == RestrictTo(rootValues, Frontier)
    IN IF DOMAIN eligible # {}
       THEN LET s == SelectRoot(G.root, eligible, completed.move, G.allowed)
            IN [completed EXCEPT !.move = s.move, !.value = s.value,
                                 !.values = rootValues, !.reason = s.reason]
       ELSE completed

\* (Changed form: the fallback frontier forgotten.)
AdoptPartial_AnyMove ==
    IF completed.depth = 0 /\ DOMAIN rootValues # {}
    THEN LET s == SelectRoot(G.root, rootValues, completed.move, G.allowed)
         IN [completed EXCEPT !.move = s.move, !.value = s.value,
                              !.values = rootValues, !.reason = s.reason]
    ELSE completed

\* core_root_snapshot_adopt_partial_if_empty: the values of an iteration that
\* did not finish are used only while no iteration has.
AdoptPartial ==
    LET eligible == RestrictTo(rootValues, Frontier)
        s == SelectRoot(G.root, eligible, completed.move, G.allowed)
        structural == /\ s.reason = "NOT_COMPARED"
                      /\ G.root.policy = "LADDER"
                      /\ DOMAIN rootValues \ Frontier # {}
    IN IF completed.depth = 0 /\ DOMAIN eligible # {}
       THEN [completed EXCEPT
                !.move = s.move, !.value = s.value, !.values = rootValues,
                !.reason = IF structural THEN "STRUCTURAL_PROOF" ELSE s.reason]
       ELSE completed

TakeInterrupted ==
    /\ phase = "interrupted"
    /\ completed' = AdoptPartial
    /\ phase' = "finalize"
    /\ UNCHANGED <<game, config, depth, stack, call, result, table, ordering,
                   rootValues, rootBest, preferred, interruption>>

Searched(snapshot) == snapshot.depth > 0 \/ snapshot.move \in DOMAIN snapshot.values

\* core_root_snapshot_finalize_source.
FinalSource ==
    IF interruption = "nodes" /\ Searched(completed) THEN "NODE_BUDGET_BEST_SO_FAR"
    ELSE IF interruption = "wall" /\ Searched(completed) THEN "TIMEOUT_BEST_SO_FAR"
    ELSE completed.source

\* The corridor guard may still exchange the move for an equal one, and the
\* answer is returned.
Finalize ==
    /\ phase = "finalize"
    /\ \E sameCause \in IF completed.value.outcome = "UNRESOLVED" THEN {TRUE} ELSE BOOLEAN :
        LET m == CorridorGuard(G.root, Allowed, completed.values, Directions,
                               completed.move, sameCause)
        IN completed' =
            IF m = completed.move THEN [completed EXCEPT !.source = FinalSource]
            ELSE [completed EXCEPT !.move = m, !.value = completed.values[m],
                    !.source = "CORRIDOR_GUARD", !.reason = "CORRIDOR_GUARD"]
    /\ phase' = "done"
    /\ UNCHANGED <<game, config, depth, stack, call, result, table, ordering,
                   rootValues, rootBest, preferred, interruption>>

Done == phase = "done" /\ UNCHANGED vars

----------------------------------------------------------------------------

Next ==
    \/ EnterCutoff \/ EnterLeaf \/ EnterNode \/ OpenMove \/ OpenReply
    \/ TakeReply \/ CloseMove \/ FinishNode
    \/ StartIteration \/ Interrupt \/ CompleteIteration \/ StopBetween \/ Deepen
    \/ TakeInterrupted \/ Finalize \/ Done

Spec == Init /\ [][Next]_vars

----------------------------------------------------------------------------
(* What the values are worth: maximin over the whole tree, without pruning, *)
(* table, ordering or interruption.                                         *)

Lowest(values) == CHOOSE v \in values : \A w \in values : v.score <= w.score
Highest(values) == CHOOSE v \in values : \A w \in values : v.score >= w.score

\* Value of own move m at p when positions are worth what level says.
MoveWorth(g, level, p, m) ==
    Lowest({Backup(level[g.next[p][m][r]]) : r \in ToSet(g.replies[p])})

\* Values one ply deeper than those of level.
Deeper(g, level) ==
    [p \in Positions |->
        IF g.outcome[p] # "UNRESOLVED" THEN Evaluation(g, p)
        ELSE Highest({MoveWorth(g, level, p, m) : m \in OwnMoves(g, p)})]

\* Worth[d][g][p]: position p of game g searched to depth d in full.
Worth[d \in 0..MaxDepth] ==
    [g \in DOMAIN Games |->
        IF d = 0 THEN [p \in Positions |-> Evaluation(Games[g], p)]
                 ELSE Deeper(Games[g], Worth[d - 1][g])]

RootWorth(d) == Worth[d][game][G.root.position]
RootMoveWorth(d, m) == MoveWorth(G, Worth[d - 1][game], G.root.position, m)

\* A value up to how far off a forced end is.  A leaf that the evaluation
\* takes for a region without a way out is scored as a loss.
Class(v) == Band(v.score)

\* The bound a value carries is true of the worth it stands for.
Honest(v, worth) ==
    CASE v.bound = "EXACT" -> Class(v) = Class(worth)
      [] v.bound = "UPPER" -> Class(worth) <= Class(v)
      [] v.bound = "LOWER" -> Class(worth) >= Class(v)

----------------------------------------------------------------------------
(* Properties *)

\* No table entry claims more than its position is worth at the entry's depth,
\* whichever iteration, window and neighbour in the slot it comes from: a
\* probe may answer from any of them.
TableIsHonest ==
    \A s \in Slots : table.entries[s] # Vacant =>
        LET e == table.entries[s]
        IN Honest(e.value, Worth[e.depth][game][e.hash])

\* What the root publishes for a move is true of the full-width search of the
\* iteration's depth, in every partial iteration too: a forced loss or win is
\* real, an exact score is the maximin score, an upper bound is one.
RootValuesAreHonest ==
    \A m \in DOMAIN rootValues : Honest(rootValues[m], RootMoveWorth(depth, m))

\* The answer and its value describe one branch, whatever interrupted the
\* search.  Without a completed depth the answer is one the structural analysis
\* left eligible, and with one it has a value.
AnswerIsOneBranch ==
    phase = "done" /\ G.outcome[G.root.position] = "UNRESOLVED" =>
        /\ completed.move \in Allowed
        /\ completed.move \in DOMAIN completed.values
              => completed.value = completed.values[completed.move]
        /\ completed.depth = 0 => completed.move \in Frontier
        /\ completed.depth > 0 => completed.move \in DOMAIN completed.values

\* A completed depth means that the whole tree was accounted for: some root
\* value is exact and as good as the best move of that depth.
DepthIsComplete ==
    phase = "done" /\ G.outcome[G.root.position] = "UNRESOLVED"
        /\ completed.depth > 0
        => \E m \in DOMAIN completed.values :
              /\ completed.values[m].bound = "EXACT"
              /\ Class(completed.values[m]) = Class(RootWorth(completed.depth))

AnswerIsComplete == AnswerIsOneBranch /\ DepthIsComplete

\* An interruption never takes back what a finished iteration established:
\* its depth, its values and the value of its answer stay until a deeper one
\* is finished.
CompletedNeverLost ==
    [][completed.depth > 0 =>
        \/ completed'.depth > completed.depth
        \/ /\ completed'.depth = completed.depth
           /\ completed'.values = completed.values
           /\ completed'.value = completed.value]_vars

\* An exact root value carries the real number of moves to the forced end, as
\* the test of issue 33 computes it with a full-window search of every child.
ExactMeansExact ==
    \A m \in DOMAIN rootValues :
        rootValues[m].bound = "EXACT"
            => rootValues[m].score = RootMoveWorth(depth, m).score

\* An upper bound is not taken for an exact value: a search with a completed
\* depth never answers with a move that this depth knows lost while another
\* is not.
AnswerNotLost ==
    phase = "done" /\ completed.depth > 0
        /\ G.outcome[G.root.position] = "UNRESOLVED"
        /\ Class(RootMoveWorth(completed.depth, completed.move)) = -Infinity
        => Class(RootWorth(completed.depth)) = -Infinity

=============================================================================

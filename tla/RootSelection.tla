--------------------------- MODULE RootSelection ---------------------------
(***************************************************************************)
(* How the search picks its command among the root moves it has values     *)
(* for: core_select_root_candidate of core_algorithms.c and the dominance   *)
(* tests it runs.  Every stage keeps a subset of the moves still active and *)
(* the first stage that leaves one move decides.                            *)
(*                                                                         *)
(* A value is [score, outcome, distance, bound]: CoreSearchValue without    *)
(* its cause, with integer scores (the code's doubles are finite).  What    *)
(* geometry says of the moves is the record root:                           *)
(*   policy       "LADDER" (standard_ladder_opportunity) or "STRICT"        *)
(*   proof        the structural proof of each move                         *)
(*   deficient    moves with less relaxed capacity than the snake is long   *)
(*   structure    the rest of the structural analysis, compared for equality *)
(*   reachable, tail, corridor  the fallback measures of each move; the     *)
(*                corridor metrics are compared lexicographically and stand *)
(*                here as their rank, -1 for a move without metrics         *)
(*   heading      the direction the snake already faces                     *)
(*   constrained  the snake fills a third of the board                      *)
(*   enclosed     it has less room than its length and is 12 or longer      *)
(***************************************************************************)
EXTENDS Integers, Sequences, FiniteSets

OutcomeRank == [WIN |-> 3, DRAW |-> 2, UNRESOLVED |-> 1, LOSS |-> 0]

\* core_outcome_interval: what a bounded value still allows.
LowestRank(v) == IF v.bound = "UPPER" THEN 0 ELSE OutcomeRank[v.outcome]
HighestRank(v) == IF v.bound = "LOWER" THEN 3 ELSE OutcomeRank[v.outcome]

OutcomeBeats(c, i) == LowestRank(c) > HighestRank(i)

\* core_structure_dominates.
StructureBeats(root, c, i) ==
    /\ root.proof[c] = "SAFE"
    /\ \/ root.proof[i] = "UNSAFE"
       \/ root.proof[i] = "UNKNOWN" /\ i \in root.deficient

\* core_remove_numerically_dominated_roots over core_numeric_interval.
NumericBeats(c, i) ==
    c.bound # "UPPER" /\ i.bound # "LOWER" /\ c.score > i.score

BothUnresolved(v, w) == v.outcome = "UNRESOLVED" /\ w.outcome = "UNRESOLVED"

----------------------------------------------------------------------------
(* CoreCompareRootCandidates, which the corridor guard asks. *)

\* c is better than i: by outcome, and among exact values of one outcome by
\* structure and score while unresolved, by distance when lost.
ComparesBetter(root, values, c, i) ==
    LET v == values[c]
        w == values[i]
        exactTwins == v.bound = "EXACT" /\ w.bound = "EXACT" /\ v.outcome = w.outcome
    IN \/ OutcomeBeats(v, w)
       \/ /\ exactTwins /\ v.outcome = "UNRESOLVED"
          /\ \/ StructureBeats(root, c, i)
             \/ ~StructureBeats(root, i, c) /\ v.score > w.score
       \/ exactTwins /\ v.outcome = "LOSS" /\ v.distance > w.distance

SameStructure(root, c, i) ==
    /\ root.proof[c] = root.proof[i]
    /\ c \in root.deficient <=> i \in root.deficient
    /\ root.structure[c] = root.structure[i]

CoreCompareRootCandidates(root, values, c, i) ==
    IF ComparesBetter(root, values, c, i) THEN "CANDIDATE"
    ELSE IF ComparesBetter(root, values, i, c) THEN "INCUMBENT"
    ELSE IF values[c] = values[i] /\ SameStructure(root, c, i) THEN "EQUAL"
    ELSE "INCOMPARABLE"

----------------------------------------------------------------------------
(* The filters: each maps the active moves S to those it keeps. *)

RemoveOutcomeDominated(values, S) ==
    {i \in S : \A c \in S : ~OutcomeBeats(values[c], values[i])}

RemoveStructurallyDominated(root, values, S, unresolvedFrontier) ==
    {i \in S : \A c \in S :
        BothUnresolved(values[c], values[i]) = unresolvedFrontier
            => ~StructureBeats(root, c, i)}

\* core_structural_maximal_root_mask, used before there are values.
StructuralMaximal(root, S) ==
    {i \in S : \A c \in S : ~StructureBeats(root, c, i)}

ExactLosses(values, S) ==
    {m \in S : values[m].bound = "EXACT" /\ values[m].outcome = "LOSS"}

\* Of the exact forced losses only the longest stay.  (With fewer than two
\* of them the code returns early, and there is nothing to drop.)
KeepLongestExactLosses(values, S) ==
    {i \in S : i \in ExactLosses(values, S) =>
        \A c \in ExactLosses(values, S) : values[c].distance <= values[i].distance}

RemoveNumericallyDominated(values, S) ==
    {i \in S : \A c \in S : ~NumericBeats(values[c], values[i])}

KeepStrictMaxima(values, S) ==
    {i \in S : \A c \in S : values[c].score <= values[i].score}

KeepMost(measure, S) == {i \in S : \A c \in S : measure[c] <= measure[i]}

\* core_keep_best_terminal_corridor_roots gives up if a move has no metrics.
KeepBestCorridor(root, S) ==
    IF \E m \in S : root.corridor[m] < 0 THEN S ELSE KeepMost(root.corridor, S)

KeepOnly(m, S) == IF m \in S THEN {m} ELSE S

FirstOf(order, S) ==
    LET k == CHOOSE k \in DOMAIN order :
                /\ order[k] \in S
                /\ \A j \in 1..(k - 1) : order[j] \notin S
    IN order[k]

----------------------------------------------------------------------------
(* The stages, as <<moves left, reason if exactly one is left>>. *)

AllExact(values, S) == \A m \in S : values[m].bound = "EXACT"

\* core_strict_numeric_singleton_reason.
StrictReason(values, S, m) ==
    LET others == S \ {m} IN
    IF ~AllExact(values, S) THEN "SEARCH_BOUND"
    ELSE IF \A s \in S : values[s].outcome = "UNRESOLVED" THEN "HEURISTIC_VALUE"
    ELSE IF \A s \in S : values[s].outcome = "LOSS"
         THEN IF \A s \in others : values[m].distance > values[s].distance
              THEN "TERMINAL_SURVIVAL" ELSE "NUMERIC_VALUE"
    ELSE IF \A s \in others : OutcomeRank[values[m].outcome]
                                > OutcomeRank[values[s].outcome]
         THEN "TERMINAL_OUTCOME" ELSE "NUMERIC_VALUE"

LadderStages(root, values, S0) ==
    LET S1 == RemoveOutcomeDominated(values, S0)
        S2 == RemoveStructurallyDominated(root, values, S1, TRUE)
        S3 == KeepLongestExactLosses(values, S2)
        S4 == RemoveNumericallyDominated(values, S3)
        S5 == RemoveStructurallyDominated(root, values, S4, FALSE)
        exactHeuristic == \A m \in S3 : /\ values[m].bound = "EXACT"
                                        /\ values[m].outcome = "UNRESOLVED"
    IN << <<S1, IF AllExact(values, S0) THEN "TERMINAL_OUTCOME" ELSE "SEARCH_BOUND">>,
          <<S2, "STRUCTURAL_PROOF">>,
          <<S3, "TERMINAL_SURVIVAL">>,
          <<S4, IF exactHeuristic THEN "HEURISTIC_VALUE" ELSE "SEARCH_BOUND">>,
          <<S5, "STRUCTURAL_PROOF">> >>

StrictStages(values, S0) ==
    LET S1 == KeepStrictMaxima(values, S0)
    IN << <<S1, StrictReason(values, S0, CHOOSE m \in S1 : TRUE)>> >>

\* The geometric fallback, the previous choice, and the first direction.
FallbackStages(root, values, preferred, order, S0) ==
    LET losing == \A m \in S0 : values[m].outcome = "LOSS"
        constrained == root.constrained \/ (losing /\ root.enclosed)
        S1 == IF constrained /\ losing THEN KeepBestCorridor(root, S0) ELSE S0
        S2 == IF constrained THEN KeepMost(root.tail, S1) ELSE S1
        S3 == IF constrained /\ losing THEN KeepOnly(root.heading, S2) ELSE S2
        S4 == KeepMost(root.reachable, S3)
        S5 == KeepOnly(preferred, S4)
    IN << <<S1, "STRUCTURAL_TIEBREAK">>, <<S2, "STRUCTURAL_TIEBREAK">>,
          <<S3, "STRUCTURAL_TIEBREAK">>, <<S4, "STRUCTURAL_TIEBREAK">>,
          <<S5, "PREVIOUS_PV">>,
          <<{FirstOf(order, S5)}, "STABLE_DIRECTION">> >>

SelectionStages(root, values, preferred, order) ==
    LET S == DOMAIN values
        ranked == IF root.policy = "LADDER" THEN LadderStages(root, values, S)
                                            ELSE StrictStages(values, S)
    IN << <<S, "NOT_COMPARED">> >> \o ranked
         \o FallbackStages(root, values, preferred, order,
                           ranked[Len(ranked)][1])

\* core_select_root_candidate: the first stage with one move left.
SelectRoot(root, values, preferred, order) ==
    LET stages == SelectionStages(root, values, preferred, order)
        k == CHOOSE k \in DOMAIN stages :
                /\ Cardinality(stages[k][1]) = 1
                /\ \A j \in 1..(k - 1) : Cardinality(stages[j][1]) # 1
        m == CHOOSE m \in stages[k][1] : TRUE
    IN [move |-> m, value |-> values[m], reason |-> stages[k][2]]

\* core_best_root_corridor_proposal and core_apply_corridor_guard_decision:
\* the move that replaces incumbent after the search, or incumbent itself.
\* The replacement has the same exact value and structure and a better
\* corridor; sameCause says that the causes of the two forced ends agree too.
CorridorGuard(root, allowed, values, order, incumbent, sameCause) ==
    LET exact == {m \in allowed \cap DOMAIN values :
                    values[m].bound = "EXACT" /\ root.corridor[m] >= 0}
        proposal == FirstOf(order, KeepMost(root.corridor, exact))
    IN IF /\ exact # {}
          /\ incumbent \in DOMAIN values
          /\ root.corridor[incumbent] >= 0
          /\ CoreCompareRootCandidates(root, values, proposal, incumbent) = "EQUAL"
          /\ values[incumbent].bound = "EXACT"
          /\ sameCause
          /\ root.corridor[proposal] > root.corridor[incumbent]
       THEN proposal ELSE incumbent

=============================================================================

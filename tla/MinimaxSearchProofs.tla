------------------------ MODULE MinimaxSearchProofs ------------------------
(***************************************************************************)
(* The duel search, for every game, every configuration and whenever it is *)
(* interrupted: what a finished iteration established is never lost, and   *)
(* the answer is one move with its own value.                              *)
(*                                                                         *)
(* The proof rests on three facts about operators: the choice among root   *)
(* moves always ends, with a move that has a value (SelectRootSound); the  *)
(* orders of the moves are orders of the same moves (OrderMovesReorders);  *)
(* and what the search computes with are values (BackupIsValue and its     *)
(* neighbours).  SearchInv is inductive, with one lemma for each action.   *)
(*                                                                         *)
(* The second half shows that pruning, table and move ordering lose        *)
(* nothing: whatever the search stores or publishes is true of the maximin *)
(* over the whole tree.  HonestInv is inductive, again with one lemma for  *)
(* each action.                                                            *)
(***************************************************************************)
EXTENDS MinimaxSearch, FiniteSetTheorems, WellFoundedInduction, SequenceTheorems, TLAPS

Bounds == {"EXACT", "UPPER", "LOWER"}
Value == [score : Int, outcome : Outcomes, distance : Nat, bound : Bounds]

-----------------------------------------------------------------------------
(* The choice among root moves. *)

\* Of finitely many things one measures most.
LEMMA GreatestMeasure ==
  ASSUME NEW S, IsFiniteSet(S), S # {}, NEW f, \A x \in S : f[x] \in Int
  PROVE  \E x \in S : \A y \in S : f[y] <= f[x]
<1> DEFINE Above(x) == {y \in S : f[y] > f[x]}
           R == StrictSubsetOrdering(S)
           T == {Above(x) : x \in S}
<1>1. T \subseteq FiniteSubsetsOf(S) /\ T # {}
  <2>1. ASSUME NEW x \in S PROVE Above(x) \in FiniteSubsetsOf(S)
    <3>1. Above(x) \in SUBSET S
      OBVIOUS
    <3>2. IsFiniteSet(Above(x))
      BY <3>1, FS_Subset
    <3> QED BY <3>1, <3>2 DEF FiniteSubsetsOf
  <2> HIDE DEF Above
  <2> QED BY <2>1
<1>2. IsWellFoundedOn(R, FiniteSubsetsOf(S))
  BY FS_StrictSubsetOrderingWellFounded
<1>3. PICK least \in T : \A U \in T : ~ (<<U, least>> \in R)
  <2> HIDE DEF R, T
  <2> QED BY <1>1, <1>2, WFMin
<1>4. PICK x \in S : least = Above(x)
  OBVIOUS
<1>5. ASSUME NEW y \in S PROVE f[y] <= f[x]
  <2> SUFFICES ASSUME f[y] > f[x] PROVE FALSE
    OBVIOUS
  <2>1. /\ Above(y) \subseteq Above(x) /\ Above(y) # Above(x)
        /\ Above(x) \in SUBSET S /\ Above(y) \in SUBSET S
    OBVIOUS
  <2>2. <<Above(y), Above(x)>> \in R
    <3> HIDE DEF Above
    <3> QED BY <2>1 DEF StrictSubsetOrdering
  <2>3. Above(y) \in T
    OBVIOUS
  <2> QED BY <1>3, <1>4, <2>2, <2>3
<1> QED BY <1>5

\* Of some positions in a list one comes first.
LEMMA LeastIndex ==
  ASSUME NEW n \in Nat, NEW K, K \subseteq 1 .. n, K # {}
  PROVE  \E k \in K : \A j \in 1 .. (k - 1) : j \notin K
<1> DEFINE before == [k \in K |-> 0 - k]
<1>1. IsFiniteSet(K) /\ \A k \in K : before[k] \in Int
  <2>1. IsFiniteSet(1 .. n)
    BY FS_Interval
  <2>2. IsFiniteSet(K)
    BY <2>1, FS_Subset
  <2> QED BY <2>2
<1>2. PICK k \in K : \A j \in K : before[j] <= before[k]
  <2> HIDE DEF before
  <2> QED BY <1>1, GreatestMeasure
<1> QED BY <1>2

\* The first move of a list that is in a set, when one is.
LEMMA FirstIsIn ==
  ASSUME NEW M, NEW order \in Seq(M), NEW S, ToSet(order) \cap S # {}
  PROVE  FirstOf(order, S) \in S /\ FirstOf(order, S) \in ToSet(order)
<1> DEFINE K == {k \in DOMAIN order : order[k] \in S}
<1>1. /\ Len(order) \in Nat /\ DOMAIN order = 1 .. Len(order)
      /\ K \subseteq 1 .. Len(order) /\ K # {}
  BY DEF ToSet
<1>2. PICK k \in K : \A j \in 1 .. (k - 1) : j \notin K
  <2> HIDE DEF K
  <2> QED BY <1>1, LeastIndex
<1>3. \E n \in DOMAIN order : /\ order[n] \in S
                              /\ \A j \in 1..(n - 1) : order[j] \notin S
  BY <1>1, <1>2
<1> QED BY <1>3 DEF FirstOf, ToSet

\* Moves with values, some of them still active.
Candidates(values, S) ==
  S # {} /\ IsFiniteSet(S) /\ \A m \in S : values[m] \in Value

\* A filter keeps some of the moves.
Keeps(kept, S) == kept \subseteq S /\ kept # {}

LEMMA KeepsFinite ==
  ASSUME NEW values, NEW S, NEW kept, Candidates(values, S), Keeps(kept, S)
  PROVE  Candidates(values, kept)
BY FS_Subset DEF Candidates, Keeps

\* A lower end of what a value allows is below its upper end.
LEMMA RankBounds ==
  ASSUME NEW v \in Value
  PROVE  /\ LowestRank(v) \in Int /\ HighestRank(v) \in Int
         /\ LowestRank(v) <= HighestRank(v)
<1> DEFINE r == OutcomeRank[v.outcome]
<1>1. v.outcome \in Outcomes
  BY DEF Value
<1>2. r \in 0 .. 3
  BY <1>1 DEF Outcomes, OutcomeRank
<1>3. /\ LowestRank(v) = 0 \/ LowestRank(v) = r
      /\ HighestRank(v) = 3 \/ HighestRank(v) = r
  BY DEF LowestRank, HighestRank
<1> HIDE DEF r
<1> QED BY <1>2, <1>3

LEMMA KeepsSome ==
  ASSUME NEW values, NEW S, Candidates(values, S)
  PROVE  /\ Keeps(RemoveOutcomeDominated(values, S), S)
         /\ Keeps(RemoveNumericallyDominated(values, S), S)
         /\ Keeps(KeepStrictMaxima(values, S), S)
         /\ Keeps(KeepLongestExactLosses(values, S), S)
<1> USE DEF Candidates, Keeps
<1>1. Keeps(RemoveOutcomeDominated(values, S), S)
  <2> DEFINE f == [m \in S |-> LowestRank(values[m])]
  <2>1. \A m \in S : /\ LowestRank(values[m]) \in Int
                     /\ HighestRank(values[m]) \in Int
                     /\ LowestRank(values[m]) <= HighestRank(values[m])
    BY RankBounds
  <2>2. PICK m \in S : \A c \in S : f[c] <= f[m]
    <3>1. \A m \in S : f[m] \in Int
      BY <2>1
    <3> HIDE DEF f
    <3> QED BY <3>1, GreatestMeasure
  <2>3. \A c \in S : ~ OutcomeBeats(values[c], values[m])
    BY <2>1, <2>2 DEF OutcomeBeats
  <2> QED BY <2>3 DEF RemoveOutcomeDominated
<1>2. \A m \in S : values[m].score \in Int /\ values[m].distance \in Int
  BY DEF Value
<1>3. \E m \in S : \A c \in S : values[c].score <= values[m].score
  <2> DEFINE f == [m \in S |-> values[m].score]
  <2>1. \A m \in S : f[m] \in Int
    BY <1>2
  <2>2. \E m \in S : \A c \in S : f[c] <= f[m]
    <3> HIDE DEF f
    <3> QED BY <2>1, GreatestMeasure
  <2> QED BY <2>2
<1>4. Keeps(RemoveNumericallyDominated(values, S), S)
  <2>1. PICK m \in S : \A c \in S : values[c].score <= values[m].score
    BY <1>3
  <2>2. \A c \in S : ~ NumericBeats(values[c], values[m])
    BY <1>2, <2>1 DEF NumericBeats
  <2> QED BY <2>2 DEF RemoveNumericallyDominated
<1>5. Keeps(KeepStrictMaxima(values, S), S)
  BY <1>3 DEF KeepStrictMaxima
<1>6. Keeps(KeepLongestExactLosses(values, S), S)
  <2> DEFINE L == ExactLosses(values, S)
  <2>1. CASE L = {}
    BY <2>1 DEF KeepLongestExactLosses
  <2>2. CASE L # {}
    <3> DEFINE f == [m \in L |-> values[m].distance]
    <3>1. L \subseteq S /\ IsFiniteSet(L)
      <4>1. L \subseteq S
        BY DEF ExactLosses
      <4> HIDE DEF L
      <4> QED BY <4>1, FS_Subset
    <3>2. \A m \in L : f[m] \in Int
      BY <1>2, <3>1
    <3>3. \E m \in L : \A c \in L : f[c] <= f[m]
      <4> HIDE DEF f, L
      <4> QED BY <2>2, <3>1, <3>2, GreatestMeasure
    <3> QED BY <3>1, <3>3 DEF KeepLongestExactLosses
  <2> QED BY <2>1, <2>2
<1> QED BY <1>1, <1>4, <1>5, <1>6

LEMMA KeepMostKeeps ==
  ASSUME NEW S, S # {}, IsFiniteSet(S), NEW measure,
         \A m \in S : measure[m] \in Int
  PROVE  Keeps(KeepMost(measure, S), S)
BY GreatestMeasure DEF Keeps, KeepMost

\* A move that is proved safe is beaten by none.
LEMMA StructureKeepsSome ==
  ASSUME NEW root, NEW values, NEW S, S # {}
  PROVE  /\ Keeps(StructuralMaximal(root, S), S)
         /\ \A b \in BOOLEAN :
              Keeps(RemoveStructurallyDominated(root, values, S, b), S)
<1>1. CASE \E c \in S : root.proof[c] = "SAFE"
  BY <1>1 DEF Keeps, StructureBeats, StructuralMaximal,
              RemoveStructurallyDominated
<1>2. CASE \A c \in S : root.proof[c] # "SAFE"
  BY <1>2 DEF Keeps, StructureBeats, StructuralMaximal,
              RemoveStructurallyDominated
<1> QED BY <1>1, <1>2

\* What the geometry measures of a set of moves.
Measured(root, S) ==
  \A m \in S : /\ root.reachable[m] \in Int /\ root.tail[m] \in Int
               /\ root.corridor[m] \in Int

\* A list of stages over the moves S.
Reasons ==
  {"NOT_COMPARED", "TERMINAL_OUTCOME", "SEARCH_BOUND", "STRUCTURAL_PROOF",
   "TERMINAL_SURVIVAL", "HEURISTIC_VALUE", "NUMERIC_VALUE",
   "STRUCTURAL_TIEBREAK", "PREVIOUS_PV", "STABLE_DIRECTION"}
Stages(S) == Seq((SUBSET S) \X Reasons)

LEMMA KeepsTrans ==
  ASSUME NEW S, NEW T, NEW U, Keeps(T, S), Keeps(U, T)
  PROVE  Keeps(U, S)
BY DEF Keeps

LEMMA LadderKeeps ==
  ASSUME NEW root, NEW values, NEW S, Candidates(values, S)
  PROVE  /\ LadderStages(root, values, S) \in Stages(S)
         /\ Len(LadderStages(root, values, S)) = 5
         /\ Keeps(LadderStages(root, values, S)[5][1], S)
<1> DEFINE S1 == RemoveOutcomeDominated(values, S)
           S2 == RemoveStructurallyDominated(root, values, S1, TRUE)
           S3 == KeepLongestExactLosses(values, S2)
           S4 == RemoveNumericallyDominated(values, S3)
           S5 == RemoveStructurallyDominated(root, values, S4, FALSE)
<1>1. Keeps(S1, S) /\ Candidates(values, S1)
  BY KeepsSome, KeepsFinite
<1>2. Keeps(S2, S1) /\ Candidates(values, S2)
  <2> HIDE DEF S1
  <2>1. S1 # {}
    BY <1>1 DEF Keeps
  <2> QED BY <1>1, <2>1, StructureKeepsSome, KeepsFinite
<1>3. Keeps(S3, S2) /\ Candidates(values, S3)
  <2> HIDE DEF S2
  <2> QED BY <1>2, KeepsSome, KeepsFinite
<1>4. Keeps(S4, S3) /\ Candidates(values, S4)
  <2> HIDE DEF S3
  <2> QED BY <1>3, KeepsSome, KeepsFinite
<1>5. Keeps(S5, S4)
  <2> HIDE DEF S4
  <2>1. S4 # {}
    BY <1>4 DEF Keeps
  <2> QED BY <2>1, StructureKeepsSome
<1> DEFINE exactHeuristic == \A m \in S3 : /\ values[m].bound = "EXACT"
                                           /\ values[m].outcome = "UNRESOLVED"
<1>6. LadderStages(root, values, S) =
        << <<S1, IF AllExact(values, S) THEN "TERMINAL_OUTCOME" ELSE "SEARCH_BOUND">>,
           <<S2, "STRUCTURAL_PROOF">>,
           <<S3, "TERMINAL_SURVIVAL">>,
           <<S4, IF exactHeuristic THEN "HEURISTIC_VALUE" ELSE "SEARCH_BOUND">>,
           <<S5, "STRUCTURAL_PROOF">> >>
  BY DEF LadderStages
<1> HIDE DEF S1, S2, S3, S4, S5, exactHeuristic
<1>7. /\ S1 \subseteq S /\ S2 \subseteq S /\ S3 \subseteq S /\ S4 \subseteq S
      /\ S5 \subseteq S /\ S5 # {}
  BY <1>1, <1>2, <1>3, <1>4, <1>5 DEF Keeps
<1> QED BY <1>6, <1>7 DEF Stages, Reasons, Keeps

LEMMA StrictKeeps ==
  ASSUME NEW values, NEW S, Candidates(values, S)
  PROVE  /\ StrictStages(values, S) \in Stages(S)
         /\ Len(StrictStages(values, S)) = 1
         /\ Keeps(StrictStages(values, S)[1][1], S)
<1> DEFINE S1 == KeepStrictMaxima(values, S)
           reason == StrictReason(values, S, CHOOSE m \in S1 : TRUE)
<1>1. Keeps(S1, S)
  BY KeepsSome
<1>2. reason \in Reasons
  BY DEF StrictReason, Reasons
<1>3. StrictStages(values, S) = << <<S1, reason>> >>
  BY DEF StrictStages
<1> HIDE DEF S1, reason
<1> QED BY <1>1, <1>2, <1>3 DEF Stages, Keeps

\* The last stage of the fallback leaves exactly one move.
Decisive(stages, S) ==
  /\ stages \in Stages(S) /\ Len(stages) = 6
  /\ \E m \in S : stages[6][1] = {m}

LEMMA FallbackKeeps ==
  ASSUME NEW root, NEW values, NEW favourite, NEW M, NEW order \in Seq(M),
         NEW S, S # {}, IsFiniteSet(S), Measured(root, S), S \subseteq ToSet(order)
  PROVE  Decisive(FallbackStages(root, values, favourite, order, S), S)
<1> DEFINE losing == \A m \in S : values[m].outcome = "LOSS"
           constrained == root.constrained \/ (losing /\ root.enclosed)
           S1 == IF constrained /\ losing THEN KeepBestCorridor(root, S) ELSE S
           S2 == IF constrained THEN KeepMost(root.tail, S1) ELSE S1
           S3 == IF constrained /\ losing THEN KeepOnly(root.heading, S2) ELSE S2
           S4 == KeepMost(root.reachable, S3)
           S5 == KeepOnly(favourite, S4)
           stages == FallbackStages(root, values, favourite, order, S)
<1>1. stages =
        << <<S1, "STRUCTURAL_TIEBREAK">>, <<S2, "STRUCTURAL_TIEBREAK">>,
           <<S3, "STRUCTURAL_TIEBREAK">>, <<S4, "STRUCTURAL_TIEBREAK">>,
           <<S5, "PREVIOUS_PV">>,
           <<{FirstOf(order, S5)}, "STABLE_DIRECTION">> >>
  BY DEF FallbackStages
<1> HIDE DEF losing, constrained, stages
<1>2. Keeps(S1, S)
  BY KeepMostKeeps DEF KeepBestCorridor, Keeps, Measured
<1>3. Keeps(S2, S)
  <2> HIDE DEF S1
  <2>1. S1 # {} /\ IsFiniteSet(S1) /\ Measured(root, S1)
    BY <1>2, FS_Subset DEF Keeps, Measured
  <2>2. Keeps(KeepMost(root.tail, S1), S1)
    BY <2>1, KeepMostKeeps DEF Measured
  <2> QED BY <1>2, <2>2 DEF Keeps
<1>4. Keeps(S3, S)
  <2> HIDE DEF S2
  <2> QED BY <1>3 DEF Keeps, KeepOnly
<1>5. Keeps(S4, S)
  <2> HIDE DEF S3
  <2>1. S3 # {} /\ IsFiniteSet(S3) /\ Measured(root, S3)
    BY <1>4, FS_Subset DEF Keeps, Measured
  <2>2. Keeps(KeepMost(root.reachable, S3), S3)
    BY <2>1, KeepMostKeeps DEF Measured
  <2> QED BY <1>4, <2>2 DEF Keeps
<1>6. Keeps(S5, S)
  <2> HIDE DEF S4
  <2> QED BY <1>5 DEF Keeps, KeepOnly
<1>7. FirstOf(order, S5) \in S
  <2> HIDE DEF S5
  <2>1. ToSet(order) \cap S5 # {}
    BY <1>6 DEF Keeps
  <2> QED BY <1>6, <2>1, FirstIsIn DEF Keeps
<1> HIDE DEF S1, S2, S3, S4, S5
<1>8. /\ S1 \subseteq S /\ S2 \subseteq S /\ S3 \subseteq S /\ S4 \subseteq S
      /\ S5 \subseteq S
  BY <1>2, <1>3, <1>4, <1>5, <1>6 DEF Keeps
<1>9. stages \in Stages(S) /\ Len(stages) = 6 /\ stages[6][1] = {FirstOf(order, S5)}
  BY <1>1, <1>7, <1>8 DEF Stages, Reasons
<1> QED BY <1>7, <1>9 DEF stages, Decisive

\* Whatever the geometry says, the stages of core_select_root_candidate
\* (core_algorithms.c:5077) come to an end with one of the moves that have a
\* value, and with its value.
THEOREM SelectRootSound ==
  ASSUME NEW root, NEW values, Candidates(values, DOMAIN values), NEW favourite,
         NEW M, NEW order \in Seq(M), Measured(root, DOMAIN values),
         DOMAIN values \subseteq ToSet(order)
  PROVE  LET s == SelectRoot(root, values, favourite, order)
         IN  s.move \in DOMAIN values /\ s.value = values[s.move]
<1> DEFINE S == DOMAIN values
           ranked == IF root.policy = "LADDER" THEN LadderStages(root, values, S)
                                               ELSE StrictStages(values, S)
           best == ranked[Len(ranked)][1]
           first == << <<S, "NOT_COMPARED">> >>
           fallback == FallbackStages(root, values, favourite, order, best)
           stages == SelectionStages(root, values, favourite, order)
<1>1. ranked \in Stages(S) /\ Keeps(best, S)
  BY LadderKeeps, StrictKeeps
<1>2. stages = first \o ranked \o fallback
  BY DEF SelectionStages
<1>3. first \in Stages(S) /\ Len(first) = 1
  BY DEF Stages, Reasons
<1> HIDE DEF ranked, first, stages
<1>4. /\ fallback \in Stages(S) /\ Len(fallback) = 6
      /\ \E m \in S : fallback[6][1] = {m}
  <2> HIDE DEF best
  <2>1. /\ best \subseteq S /\ best # {} /\ IsFiniteSet(best)
        /\ Measured(root, best) /\ best \subseteq ToSet(order)
    BY <1>1, FS_Subset DEF Keeps, Candidates, Measured
  <2>2. Decisive(fallback, best)
    BY <2>1, FallbackKeeps
  <2> HIDE DEF fallback
  <2>3. Stages(best) \subseteq Stages(S)
    BY <2>1 DEF Stages
  <2> QED BY <2>1, <2>2, <2>3 DEF Decisive
<1> HIDE DEF fallback, best
<1> DEFINE T == (SUBSET S) \X Reasons
<1>5. /\ first \o ranked \in Seq(T)
      /\ Len(first \o ranked) = Len(first) + Len(ranked)
  BY <1>1, <1>3, ConcatProperties DEF Stages
<1>6. /\ stages \in Seq(T) /\ Len(stages) = Len(first \o ranked) + 6
      /\ stages[Len(first \o ranked) + 6] = fallback[6]
  <2> DEFINE head == first \o ranked
  <2>1. head \in Seq(T) /\ fallback \in Seq(T)
    BY <1>4, <1>5 DEF Stages
  <2> HIDE DEF head, T
  <2>2. /\ head \o fallback \in Seq(T)
        /\ Len(head \o fallback) = Len(head) + Len(fallback)
        /\ \A i \in 1 .. Len(head) + Len(fallback) :
             (head \o fallback)[i] =
               IF i <= Len(head) THEN head[i] ELSE fallback[i - Len(head)]
    BY <2>1, ConcatProperties
  <2>3. Len(head) \in Nat
    BY <2>1, LenProperties
  <2> QED BY <1>2, <1>4, <2>2, <2>3 DEF head
<1>7. IsFiniteSet(S)
  BY DEF Candidates
<1> DEFINE K == {k \in DOMAIN stages : Cardinality(stages[k][1]) = 1}
<1>8. Len(stages) \in Nat /\ DOMAIN stages = 1 .. Len(stages)
  <2> HIDE DEF T
  <2> QED BY <1>6, LenProperties
<1>9. K \subseteq 1 .. Len(stages) /\ K # {}
  <2>1. PICK m \in S : fallback[6][1] = {m}
    BY <1>4
  <2>2. Cardinality({m}) = 1
    BY FS_Singleton
  <2>3. Len(stages) >= 1
    <3>1. Len(first \o ranked) \in Nat
      <4> HIDE DEF T
      <4> QED BY <1>5, LenProperties
    <3> QED BY <1>6, <3>1
  <2>4. stages[Len(stages)] = fallback[6] /\ Len(stages) \in DOMAIN stages
    BY <1>6, <1>8, <2>3
  <2>5. Cardinality(stages[Len(stages)][1]) = 1
    BY <2>1, <2>2, <2>4
  <2> QED BY <1>8, <2>4, <2>5
<1>10. \E k \in K : \A j \in 1 .. (k - 1) : j \notin K
  <2> HIDE DEF K
  <2> QED BY <1>8, <1>9, LeastIndex
<1> DEFINE Decides(k) == /\ Cardinality(stages[k][1]) = 1
                         /\ \A j \in 1..(k - 1) : Cardinality(stages[j][1]) # 1
           k0 == CHOOSE k \in DOMAIN stages : Decides(k)
           m0 == CHOOSE m \in stages[k0][1] : TRUE
<1>11. \E k \in DOMAIN stages : Decides(k)
  BY <1>8, <1>10
<1>12. k0 \in DOMAIN stages /\ Cardinality(stages[k0][1]) = 1
  BY <1>11
<1>13. SelectRoot(root, values, favourite, order) =
         [move |-> m0, value |-> values[m0], reason |-> stages[k0][2]]
  BY DEF SelectRoot, stages
<1> HIDE DEF k0
<1>14. stages[k0][1] \subseteq S
  BY <1>6, <1>12
<1>15. m0 \in S
  <2>1. IsFiniteSet(stages[k0][1])
    BY <1>7, <1>14, FS_Subset
  <2>2. \E x : stages[k0][1] = {x}
    BY <1>12, <2>1, FS_Singleton
  <2> QED BY <1>14, <2>2
<1> HIDE DEF m0
<1> QED BY <1>13, <1>15

-----------------------------------------------------------------------------
(* The order of moves: a list is put into another order, nothing is added. *)

\* A list with the members of another, and as long.
Reorders(new, old) ==
  new \in Seq(ToSet(old)) /\ Len(new) = Len(old) /\ ToSet(new) = ToSet(old)

LEMMA SeqOfItself ==
  ASSUME NEW M, NEW order \in Seq(M)
  PROVE  /\ Reorders(order, order) /\ IsFiniteSet(ToSet(order))
         /\ ToSet(order) \subseteq M
<1>1. /\ Len(order) \in Nat /\ DOMAIN order = 1 .. Len(order)
      /\ order \in [1 .. Len(order) -> M]
  BY LenProperties
<1>2. order \in [1 .. Len(order) -> ToSet(order)]
  BY <1>1 DEF ToSet
<1>3. order \in Seq(ToSet(order))
  BY <1>1, <1>2, SeqDef
<1>4. IsFiniteSet(ToSet(order))
  <2>1. IsFiniteSet(1 .. Len(order))
    BY <1>1, FS_Interval
  <2>2. order \in Surjection(1 .. Len(order), ToSet(order))
    BY <1>1, <1>2 DEF Surjection, ToSet
  <2> QED BY <2>1, <2>2, FS_Surjection
<1> QED BY <1>1, <1>3, <1>4 DEF Reorders, ToSet

LEMMA MoveToFrontReorders ==
  ASSUME NEW M, NEW order \in Seq(M), NEW m
  PROVE  Reorders(MoveToFront(order, m), order)
<1>1. Reorders(order, order)
  BY SeqOfItself
<1>2. CASE m \notin ToSet(order)
  BY <1>1, <1>2 DEF MoveToFront
<1>3. CASE m \in ToSet(order)
  <2> DEFINE index == CHOOSE k \in DOMAIN order : order[k] = m
             front == [k \in DOMAIN order |-> CASE k = 1 -> m
                                                [] k \in 2..index -> order[k - 1]
                                                [] OTHER -> order[k]]
  <2>1. MoveToFront(order, m) = front
    BY <1>3 DEF MoveToFront
  <2>2. Len(order) \in Nat /\ DOMAIN order = 1 .. Len(order)
    BY LenProperties
  <2>3. index \in 1 .. Len(order)
    BY <1>3, <2>2 DEF ToSet
  <2>9. order[index] = m
    BY <1>3, <2>2 DEF ToSet
  <2> HIDE DEF index
  <2>4. ASSUME NEW k \in 1 .. Len(order) PROVE front[k] \in ToSet(order)
    <3>1. CASE k = 1
      BY <1>3, <2>2, <3>1
    <3>2. CASE k \in 2 .. index
      <4>1. k - 1 \in DOMAIN order /\ k # 1
        BY <2>2, <2>3, <3>2
      <4>2. front[k] = order[k - 1]
        BY <2>2, <3>2, <4>1
      <4> QED BY <4>1, <4>2 DEF ToSet
    <3>3. CASE k # 1 /\ k \notin 2 .. index
      BY <2>2, <3>3 DEF ToSet
    <3> QED BY <3>1, <3>2, <3>3
  <2>5. DOMAIN front = 1 .. Len(order)
    BY <2>2
  <2>10. ASSUME NEW k \in 1 .. Len(order)
         PROVE  \E j \in 1 .. Len(order) : front[j] = order[k]
    <3>1. CASE k < index
      <4>1. k + 1 \in 1 .. Len(order) /\ k + 1 \in 2 .. index /\ k + 1 # 1
            /\ (k + 1) - 1 = k
        BY <2>2, <2>3, <3>1
      <4>2. front[k + 1] = order[(k + 1) - 1]
        BY <2>2, <4>1
      <4> QED BY <4>1, <4>2
    <3>2. CASE k = index
      <4>1. 1 \in 1 .. Len(order)
        BY <2>2
      <4>2. front[1] = m
        BY <2>2, <4>1
      <4> QED BY <2>9, <3>2, <4>1, <4>2
    <3>3. CASE k > index
      <4>1. k # 1 /\ k \notin 2 .. index
        BY <2>3, <3>3
      <4> QED BY <2>2, <4>1
    <3>4. k < index \/ k = index \/ k > index
      BY <2>2, <2>3
    <3> HIDE DEF front
    <3> QED BY <3>1, <3>2, <3>3, <3>4
  <2> HIDE DEF front
  <2>6. front \in [1 .. Len(order) -> ToSet(order)]
    <3>1. front = [k \in 1 .. Len(order) |-> front[k]]
      BY <2>2 DEF front
    <3> QED BY <2>4, <3>1
  <2>7. front \in Seq(ToSet(order))
    BY <2>2, <2>6, SeqDef
  <2>8. Len(front) = Len(order)
    BY <2>2, <2>5, <2>7, LenProperties
  <2>11. ToSet(front) = ToSet(order)
    BY <2>2, <2>4, <2>5, <2>10 DEF ToSet
  <2> QED BY <2>1, <2>7, <2>8, <2>11 DEF Reorders
<1> QED BY <1>2, <1>3

\* A stable sort by descending score puts an element after those that precede it.
Before(score, k) ==
  {j \in DOMAIN score : score[j] > score[k] \/ (score[j] = score[k] /\ j < k)}
RankOf(score, k) == Cardinality(Before(score, k)) + 1

LEMMA RanksDiffer ==
  ASSUME NEW n \in Nat, NEW score \in [1 .. n -> Int]
  PROVE  /\ \A k \in 1 .. n : RankOf(score, k) \in 1 .. n
         /\ \A j, k \in 1 .. n : RankOf(score, j) = RankOf(score, k) => j = k
<1> DEFINE Precedes(j, k) == score[j] > score[k] \/ (score[j] = score[k] /\ j < k)
           B(k) == Before(score, k)
<1>1. IsFiniteSet(1 .. n) /\ Cardinality(1 .. n) = n
  BY FS_Interval
<1>2. ASSUME NEW k \in 1 .. n
      PROVE  /\ B(k) \in SUBSET (1 .. n) /\ k \notin B(k)
             /\ IsFiniteSet(B(k)) /\ Cardinality(B(k)) \in Nat
             /\ Cardinality(B(k)) < n
  <2>1. B(k) \in SUBSET (1 .. n) /\ k \notin B(k) /\ B(k) # 1 .. n
    BY DEF Before
  <2> HIDE DEF B
  <2>2. /\ IsFiniteSet(B(k)) /\ Cardinality(B(k)) <= n /\ Cardinality(B(k)) # n
    BY <1>1, <2>1, FS_Subset
  <2>3. Cardinality(B(k)) \in Nat
    BY <2>2, FS_CardinalityType
  <2> QED BY <2>1, <2>2, <2>3
<1>3. ASSUME NEW j \in 1 .. n, NEW k \in 1 .. n, Precedes(j, k)
      PROVE  RankOf(score, j) < RankOf(score, k)
  <2>1. B(j) \cup {j} \subseteq B(k)
    BY <1>3 DEF Before
  <2>2. j \notin B(j)
    BY <1>2
  <2>3. /\ IsFiniteSet(B(j)) /\ IsFiniteSet(B(k))
        /\ Cardinality(B(j)) \in Nat /\ Cardinality(B(k)) \in Nat
    BY <1>2
  <2>4. RankOf(score, j) = Cardinality(B(j)) + 1 /\ RankOf(score, k) = Cardinality(B(k)) + 1
    BY DEF RankOf
  <2> HIDE DEF B
  <2>5. Cardinality(B(j) \cup {j}) = Cardinality(B(j)) + 1
    BY <2>2, <2>3, FS_AddElement
  <2>6. Cardinality(B(j) \cup {j}) <= Cardinality(B(k))
    BY <2>1, <2>3, FS_Subset
  <2> QED BY <2>3, <2>4, <2>5, <2>6
<1>4. \A k \in 1 .. n : RankOf(score, k) \in 1 .. n
  <2>1. ASSUME NEW k \in 1 .. n PROVE Cardinality(B(k)) + 1 \in 1 .. n
    BY <1>2
  <2> QED BY <2>1 DEF RankOf
<1>5. ASSUME NEW j \in 1 .. n, NEW k \in 1 .. n, RankOf(score, j) = RankOf(score, k), j # k
      PROVE  FALSE
  <2>1. Precedes(j, k) \/ Precedes(k, j)
    BY <1>5
  <2>2. RankOf(score, j) \in Int /\ RankOf(score, k) \in Int
    BY <1>4
  <2> HIDE DEF Precedes
  <2> QED BY <1>3, <1>5, <2>1, <2>2
<1> QED BY <1>4, <1>5

\* For every place in the sorted list some element has that rank.
LEMMA EveryRankTaken ==
  ASSUME NEW n \in Nat, NEW score \in [1 .. n -> Int], NEW i \in 1 .. n
  PROVE  \E k \in 1 .. n : RankOf(score, k) = i
<1> DEFINE rank == [k \in 1 .. n |-> RankOf(score, k)]
           T == (1 .. n) \ {i}
<1>1. /\ \A k \in 1 .. n : RankOf(score, k) \in 1 .. n
      /\ \A j, k \in 1 .. n : RankOf(score, j) = RankOf(score, k) => j = k
  BY RanksDiffer
<1> SUFFICES ASSUME \A k \in 1 .. n : RankOf(score, k) # i PROVE FALSE
  OBVIOUS
<1>2. IsFiniteSet(1 .. n) /\ Cardinality(1 .. n) = n
  BY FS_Interval
<1>3. IsFiniteSet(T) /\ Cardinality(T) = n - 1
  BY <1>2, FS_RemoveElement
<1>4. rank \in [1 .. n -> T]
  BY <1>1
<1> HIDE DEF T, rank
<1>5. PICK x \in 1 .. n, y \in 1 .. n : x # y /\ rank[x] = rank[y]
  <2>1. Cardinality(T) < Cardinality(1 .. n)
    BY <1>2, <1>3
  <2> QED BY <1>2, <1>3, <1>4, <2>1, FS_PigeonHole, Zenon
<1> QED BY <1>1, <1>5 DEF rank

LEMMA OrderMovesReorders ==
  ASSUME ordering.history \in [Moves -> Int], NEW own \in Seq(Moves),
         NEW ply, NEW ttBest, NEW prefer
  PROVE  Reorders(OrderMoves(ply, own, ttBest, prefer), own)
<1>1. CASE ~ config.ordering
  BY <1>1, SeqOfItself DEF OrderMoves
<1>2. CASE config.ordering /\ ply = 0
  <2> DEFINE m == IF ttBest # NoMove THEN ttBest ELSE prefer
  <2>1. OrderMoves(ply, own, ttBest, prefer) = MoveToFront(own, m)
    BY <1>2 DEF OrderMoves
  <2> HIDE DEF m
  <2> QED BY <2>1, MoveToFrontReorders
<1>3. CASE config.ordering /\ ply # 0
  <2> DEFINE score == [k \in DOMAIN own |-> OrderScore(ply, own[k], ttBest)]
             Precedes(j, k) == score[j] > score[k] \/ (score[j] = score[k] /\ j < k)
             rank == [k \in DOMAIN own |->
                        Cardinality({j \in DOMAIN own : Precedes(j, k)}) + 1]
             at(i) == CHOOSE k \in DOMAIN own : rank[k] = i
             sorted == [i \in DOMAIN own |-> own[at(i)]]
             n == Len(own)
  <2>1. OrderMoves(ply, own, ttBest, prefer) = sorted
    BY <1>3 DEF OrderMoves
  <2>2. n \in Nat /\ DOMAIN own = 1 .. n /\ own \in [1 .. n -> Moves]
    BY LenProperties
  <2>3. ASSUME NEW k \in 1 .. n PROVE OrderScore(ply, own[k], ttBest) \in Int
    <3>1. ordering.history[own[k]] \in Int
      BY <2>2
    <3> QED BY <3>1 DEF OrderScore, Weight
  <2>4. score \in [1 .. n -> Int]
    BY <2>2, <2>3
  <2>5. \A k \in 1 .. n : rank[k] = RankOf(score, k)
    <3> SUFFICES ASSUME NEW k \in 1 .. n PROVE rank[k] = RankOf(score, k)
      OBVIOUS
    <3>1. {j \in DOMAIN own : Precedes(j, k)} = Before(score, k)
      BY <2>2, <2>4 DEF Before
    <3> QED BY <2>2, <3>1 DEF RankOf
  <2> HIDE DEF score, rank
  <2>6. /\ \A k \in 1 .. n : rank[k] \in 1 .. n
        /\ \A j, k \in 1 .. n : rank[j] = rank[k] => j = k
        /\ \A i \in 1 .. n : \E k \in 1 .. n : rank[k] = i
    <3>1. /\ \A k \in 1 .. n : RankOf(score, k) \in 1 .. n
          /\ \A j, k \in 1 .. n : RankOf(score, j) = RankOf(score, k) => j = k
      BY <2>2, <2>4, RanksDiffer
    <3>2. \A i \in 1 .. n : \E k \in 1 .. n : RankOf(score, k) = i
      BY <2>2, <2>4, EveryRankTaken
    <3>3. \A k \in 1 .. n : rank[k] \in 1 .. n
      BY <2>5, <3>1
    <3>4. ASSUME NEW j \in 1 .. n, NEW k \in 1 .. n, rank[j] = rank[k] PROVE j = k
      <4>1. RankOf(score, j) = RankOf(score, k)
        BY <2>5, <3>4
      <4> QED BY <3>1, <4>1
    <3>5. ASSUME NEW i \in 1 .. n PROVE \E k \in 1 .. n : rank[k] = i
      <4>1. PICK k \in 1 .. n : RankOf(score, k) = i
        BY <3>2
      <4> QED BY <2>5, <4>1
    <3> QED BY <3>3, <3>4, <3>5
  <2>7. \A i \in 1 .. n : at(i) \in 1 .. n /\ rank[at(i)] = i
    BY <2>2, <2>6
  <2> HIDE DEF at
  <2>8. sorted = [i \in 1 .. n |-> own[at(i)]]
    BY <2>2
  <2>9. \A i \in 1 .. n : own[at(i)] \in ToSet(own)
    BY <2>2, <2>7 DEF ToSet
  <2>10. ASSUME NEW k \in 1 .. n PROVE \E i \in 1 .. n : own[at(i)] = own[k]
    <3>1. rank[k] \in 1 .. n
      BY <2>6
    <3>2. at(rank[k]) = k
      BY <2>6, <2>7, <3>1
    <3> QED BY <3>1, <3>2
  <2> HIDE DEF sorted
  <2>11. sorted \in [1 .. n -> ToSet(own)] /\ DOMAIN sorted = 1 .. n
    BY <2>8, <2>9
  <2>12. sorted \in Seq(ToSet(own))
    BY <2>2, <2>11, SeqDef
  <2>13. Len(sorted) = n
    BY <2>2, <2>11, <2>12, LenProperties
  <2>14. ToSet(sorted) = ToSet(own)
    <3>1. ASSUME NEW i \in 1 .. n PROVE sorted[i] \in ToSet(own)
      BY <2>8, <2>9
    <3>2. ASSUME NEW k \in 1 .. n PROVE \E i \in 1 .. n : sorted[i] = own[k]
      BY <2>8, <2>10
    <3> QED BY <2>2, <2>11, <3>1, <3>2 DEF ToSet
  <2> QED BY <2>1, <2>12, <2>13, <2>14 DEF Reorders
<1> QED BY <1>1, <1>2, <1>3

LEMMA ReordersKeeps ==
  ASSUME NEW M, NEW old \in Seq(M), NEW new, Reorders(new, old)
  PROVE  /\ new \in Seq(M) /\ ToSet(new) \subseteq ToSet(old)
         /\ new = <<>> <=> old = <<>>
<1>1. ToSet(old) \subseteq M
  BY SeqOfItself
<1>2. /\ Len(new) \in Nat /\ new \in [1 .. Len(new) -> ToSet(old)]
      /\ DOMAIN new = 1 .. Len(new)
  BY LenProperties DEF Reorders
<1>3. new \in Seq(M)
  BY <1>1, SeqMonotonic DEF Reorders
<1>4. ToSet(new) \subseteq ToSet(old)
  BY <1>2 DEF ToSet
<1>5. new = <<>> <=> old = <<>>
  BY <1>3, EmptySeq DEF Reorders
<1> QED BY <1>3, <1>4, <1>5

-----------------------------------------------------------------------------
(* The states of the search. *)

Values(f) == \A m \in DOMAIN f : f[m] \in Value

\* What a frame holds: the position it searches and its replies, an order of
\* its own moves and where it is in it, and two values.
FrameFields ==
  {"pos", "depth", "alpha", "beta", "window", "preferred", "own", "order",
   "next", "replies", "combo", "worst", "worstReply", "cutoff", "best",
   "bestMove"}
IsFrame(g, d, f) ==
  /\ DOMAIN f = FrameFields
  /\ f.pos \in Positions /\ f.depth \in 1 .. d
  /\ f.own \in Seq(Moves) /\ f.order \in Seq(ToSet(f.own))
  /\ f.next \in 1 .. Len(f.order)
  /\ f.replies \in Seq(ToSet(g.replies[f.pos]))
  /\ f.combo \in 1 .. Len(f.replies)
  /\ f.worst \in Value /\ f.best \in Value

Inside == {"moves", "replies", "returned", "close", "finish"}
Outside == {"iterate", "iterated", "between", "interrupted", "finalize", "done"}

\* The stack is empty outside the recursion; its first frame searches the
\* moves that the root policy left.
StackInv ==
  /\ game \in DOMAIN Games /\ depth \in Nat
  /\ phase \in Inside \cup Outside \cup {"enter"}
  /\ stack \in Seq(ToSet(stack))
  /\ \A k \in DOMAIN stack : IsFrame(G, depth, stack[k])
  /\ phase \in Inside => stack # <<>>
  /\ phase \in Outside => stack = <<>>
  /\ stack # <<>> => stack[1].own = G.allowed

\* Every value that is kept anywhere is one, and what is kept in the table or
\* for a root move is of a depth and a move the search has seen.
OrderingInv ==
  /\ DOMAIN ordering = {"killers", "history", "pv", "rootReply"}
  /\ ordering.history \in [Moves -> Int]
ResultInv == DOMAIN result = {"value", "best"} /\ result.value \in Value
TableInv ==
  /\ DOMAIN table = {"entries", "generation"} /\ DOMAIN table.entries = Slots
  /\ \A s \in Slots : table.entries[s] # Vacant =>
       table.entries[s].value \in Value /\ table.entries[s].depth \in 0 .. depth
RootInv == DOMAIN rootValues \subseteq Allowed /\ Values(rootValues)
ValueInv == OrderingInv /\ ResultInv /\ TableInv /\ RootInv

\* What is being entered. When that is the root, nothing in the table is as
\* deep as the iteration, and no root move has a value.
CallInv ==
  /\ call.pos \in Positions /\ call.depth \in 0 .. depth
  /\ phase = "enter" /\ stack = <<>> =>
       /\ call.pos = G.root.position /\ call.depth = depth /\ depth > 0
       /\ DOMAIN rootValues = {}
       /\ \A s \in Slots : table.entries[s] # Vacant =>
            table.entries[s].depth < depth

Decided == G.outcome[G.root.position] # "UNRESOLVED"

\* What comes out of an iteration: a root move and its value, or none when
\* the game is over at the root.
IterationInv ==
  /\ phase = "finish" /\ Len(stack) = 1 => DOMAIN rootValues # {}
  /\ stack # <<>> => ~ Decided
  /\ phase = "iterated" =>
       IF Decided
       THEN result.best = NoMove /\ DOMAIN rootValues = {}
       ELSE result.best \in DOMAIN rootValues /\ result.value = rootValues[result.best]

\* The snapshot is behind the iteration under way, and is of one branch.
SnapshotInv ==
  /\ DOMAIN completed = {"depth", "move", "value", "reason", "source", "values"}
  /\ completed.depth \in 0 .. depth
  /\ phase \in Inside \cup {"enter", "iterated"} => completed.depth < depth
  /\ DOMAIN completed.values \subseteq Allowed /\ Values(completed.values)
  /\ completed.move \in Allowed
  /\ completed.move \in DOMAIN completed.values =>
       completed.value = completed.values[completed.move]
  /\ completed.depth = 0 => completed.move \in Frontier
  /\ completed.depth > 0 /\ ~ Decided => completed.move \in DOMAIN completed.values

SearchInv == StackInv /\ ValueInv /\ CallInv /\ IterationInv /\ SnapshotInv


\* What the assumptions say of the game that is played.
LEMMA GameFacts ==
  ASSUME game \in DOMAIN Games
  PROVE  /\ IsGame(G) /\ G.allowed \in Seq(Moves) /\ G.allowed # <<>>
         /\ Allowed \subseteq Moves /\ Allowed # {} /\ IsFiniteSet(Allowed)
         /\ Allowed \subseteq ToSet(Directions) /\ NoMove \notin Moves
<1>1. IsGame(G) /\ Directions \in Seq(Moves) /\ NoMove \notin Moves
  BY SearchAssumption DEF G
<1>2. G.allowed \in Seq(Moves) /\ G.allowed # <<>>
  BY <1>1 DEF IsGame
<1>3. Allowed \subseteq Moves /\ IsFiniteSet(Allowed)
  BY <1>2, SeqOfItself DEF Allowed
<1>4. Allowed # {}
  <2>1. /\ Len(G.allowed) \in Nat /\ DOMAIN G.allowed = 1 .. Len(G.allowed)
    BY <1>2, LenProperties
  <2>2. Len(G.allowed) # 0
    BY <1>2, EmptySeq
  <2>3. 1 \in DOMAIN G.allowed
    BY <2>1, <2>2
  <2> QED BY <2>3 DEF Allowed, ToSet
<1> QED BY <1>1, <1>2, <1>3, <1>4 DEF Moves

LEMMA SameGame ==
  ASSUME game' = game
  PROVE  /\ G' = G /\ Allowed' = Allowed /\ Frontier' = Frontier
         /\ Decided' = Decided
BY DEF G, Allowed, Frontier, Decided

\* The values a search computes are values.
LEMMA ValueFields ==
  ASSUME NEW v \in Value
  PROVE  /\ v.score \in Int /\ v.outcome \in Outcomes /\ v.distance \in Nat
         /\ v.bound \in Bounds
         /\ \A b \in Bounds : [v EXCEPT !.bound = b] \in Value
BY DEF Value

LEMMA TerminalIsValue ==
  ASSUME NEW o \in Outcomes \ {"UNRESOLVED"}, NEW n \in Nat
  PROVE  Terminal(o, n) \in Value
<1> DEFINE score == CASE o = "WIN"  -> TerminalWin - SurvivalStep * n
                      [] o = "LOSS" -> TerminalLoss + SurvivalStep * n
                      [] o = "DRAW" -> (TerminalWin + TerminalLoss) \div 2
<1>1. TerminalWin \in Int /\ TerminalLoss \in Int /\ SurvivalStep \in Int
  BY SearchAssumption
<1>2. SurvivalStep * n \in Int
  BY <1>1
<1>3. (TerminalWin + TerminalLoss) \div 2 \in Int
  BY <1>1
<1>4. score \in Int
  <2> DEFINE step == SurvivalStep * n
             middle == (TerminalWin + TerminalLoss) \div 2
  <2>1. step \in Int /\ middle \in Int
    BY <1>2, <1>3
  <2>2. score = CASE o = "WIN" -> TerminalWin - step
                  [] o = "LOSS" -> TerminalLoss + step
                  [] o = "DRAW" -> middle
    OBVIOUS
  <2>3. o = "WIN" \/ o = "LOSS" \/ o = "DRAW"
    BY DEF Outcomes
  <2> HIDE DEF step, middle
  <2> QED BY <1>1, <2>1, <2>2, <2>3
<1>5. Terminal(o, n) = [score |-> score, outcome |-> o, distance |-> n,
                        bound |-> "EXACT"]
  BY DEF Terminal
<1> HIDE DEF score
<1> QED BY <1>4, <1>5 DEF Value, Bounds

LEMMA BackupIsValue ==
  ASSUME NEW v \in Value PROVE Backup(v) \in Value
<1>1. CASE v.outcome = "UNRESOLVED"
  BY <1>1 DEF Backup
<1>2. CASE v.outcome # "UNRESOLVED"
  <2>1. v.outcome \in Outcomes \ {"UNRESOLVED"} /\ v.distance + 1 \in Nat
        /\ v.bound \in Bounds
    BY <1>2, ValueFields
  <2>2. Terminal(v.outcome, v.distance + 1) \in Value
    BY <2>1, TerminalIsValue
  <2> DEFINE t == Terminal(v.outcome, v.distance + 1)
  <2>3. Backup(v) = [t EXCEPT !.bound = v.bound]
    BY <1>2 DEF Backup
  <2> HIDE DEF t
  <2> QED BY <2>1, <2>2, <2>3, ValueFields DEF t
<1> QED BY <1>1, <1>2

LEMMA UnresolvedIsValue ==
  ASSUME NEW n \in Int PROVE Unresolved(n) \in Value
BY DEF Unresolved, Value, Outcomes, Bounds

LEMMA EvaluationIsValue ==
  ASSUME game \in DOMAIN Games, NEW p \in Positions
  PROVE  Evaluation(G, p) \in Value
<1>1. G.outcome[p] \in Outcomes /\ G.score[p] \in Int
  BY GameFacts DEF IsGame
<1>2. CASE G.outcome[p] = "UNRESOLVED"
  BY <1>1, <1>2, UnresolvedIsValue DEF Evaluation
<1>3. CASE G.outcome[p] # "UNRESOLVED"
  BY <1>1, <1>3, TerminalIsValue DEF Evaluation
<1> QED BY <1>2, <1>3

-----------------------------------------------------------------------------
(* The stack. *)

LEMMA Push ==
  ASSUME NEW s, s \in Seq(ToSet(s)), NEW f
  PROVE  /\ Append(s, f) \in Seq(ToSet(Append(s, f)))
         /\ Len(s) \in Nat /\ Len(Append(s, f)) = Len(s) + 1
         /\ Append(s, f)[Len(s) + 1] = f
         /\ \A k \in 1 .. Len(s) : Append(s, f)[k] = s[k]
<1> DEFINE S == ToSet(s) \cup {f}
<1>1. s \in Seq(S) /\ f \in S
  BY SeqMonotonic
<1> HIDE DEF S
<1>2. Append(s, f) \in Seq(S)
  BY <1>1, AppendProperties
<1>3. Append(s, f) \in Seq(ToSet(Append(s, f)))
  BY <1>2, SeqOfItself DEF Reorders
<1>4. /\ Len(s) \in Nat /\ Len(Append(s, f)) = Len(s) + 1
      /\ Append(s, f)[Len(s) + 1] = f
      /\ \A k \in 1 .. Len(s) : Append(s, f)[k] = s[k]
  BY <1>1, AppendProperties, LenProperties
<1> QED BY <1>3, <1>4

LEMMA Pop ==
  ASSUME NEW s, s \in Seq(ToSet(s)), s # <<>>
  PROVE  LET t == SubSeq(s, 1, Len(s) - 1)
         IN  /\ t \in Seq(ToSet(t)) /\ Len(s) \in Nat \ {0}
             /\ Len(t) = Len(s) - 1
             /\ \A k \in 1 .. Len(s) - 1 : t[k] = s[k]
<1> DEFINE S == ToSet(s)
           t == SubSeq(s, 1, Len(s) - 1)
<1>1. Len(s) \in Nat \ {0} /\ DOMAIN s = 1 .. Len(s)
  BY LenProperties, EmptySeq
<1>2. \A i \in 1 .. Len(s) - 1 : s[i] \in S
  BY <1>1 DEF ToSet
<1> HIDE DEF S
<1>3. /\ t \in Seq(S)
      /\ Len(t) = IF 1 <= Len(s) - 1 THEN Len(s) - 1 - 1 + 1 ELSE 0
      /\ \A i \in 1 .. Len(s) - 1 - 1 + 1 : t[i] = s[1 + i - 1]
  BY <1>1, <1>2, SubSeqProperties
<1> HIDE DEF t
<1>4. t \in Seq(ToSet(t))
  BY <1>3, SeqOfItself DEF Reorders
<1> QED BY <1>1, <1>3, <1>4 DEF t

\* Only the last frame of the stack is another.
LastIs(t, s, f) ==
  /\ t \in Seq(ToSet(t)) /\ Len(s) \in Nat \ {0}
  /\ Len(t) = Len(s) /\ t[Len(s)] = f
  /\ \A k \in 1 .. Len(s) - 1 : t[k] = s[k]

LEMMA Put ==
  ASSUME NEW s, s \in Seq(ToSet(s)), s # <<>>, NEW f
  PROVE  LastIs([s EXCEPT ![Len(s)] = f], s, f)
<1> DEFINE S == ToSet(s) \cup {f}
           t == [s EXCEPT ![Len(s)] = f]
<1>1. Len(s) \in Nat \ {0} /\ DOMAIN s = 1 .. Len(s)
  BY LenProperties, EmptySeq
<1>2. s \in Seq(S) /\ f \in S
  BY SeqMonotonic
<1> HIDE DEF S
<1>3. t \in Seq(S) /\ Len(t) = Len(s)
  BY <1>1, <1>2, ExceptSeq
<1>4. t[Len(s)] = f /\ \A k \in 1 .. Len(s) - 1 : t[k] = s[k]
  BY <1>1
<1> HIDE DEF t
<1>5. t \in Seq(ToSet(t))
  BY <1>3, SeqOfItself DEF Reorders
<1>6. LastIs(t, s, f)
  BY <1>1, <1>3, <1>4, <1>5 DEF LastIs
<1> QED BY <1>6 DEF t


LEMMA TopFrame ==
  ASSUME StackInv, stack # <<>>
  PROVE  /\ Len(stack) \in Nat \ {0} /\ DOMAIN stack = 1 .. Len(stack)
         /\ IsFrame(G, depth, Top)
         /\ Top.order[Top.next] \in ToSet(Top.own) /\ ToSet(Top.own) \subseteq Moves
         /\ Top.replies[Top.combo] \in ToSet(G.replies[Top.pos])
         /\ Ply = 1 => Top.own = G.allowed
<1>1. Len(stack) \in Nat \ {0} /\ DOMAIN stack = 1 .. Len(stack)
  BY LenProperties, EmptySeq DEF StackInv
<1>2. IsFrame(G, depth, Top)
  BY <1>1 DEF StackInv, Top
<1>3. Top.order[Top.next] \in ToSet(Top.own)
  BY <1>2, ElementOfSeq DEF IsFrame
<1>4. ToSet(Top.own) \subseteq Moves
  BY <1>2, SeqOfItself DEF IsFrame
<1>5. Top.replies[Top.combo] \in ToSet(G.replies[Top.pos])
  BY <1>2, ElementOfSeq DEF IsFrame
<1>6. Ply = 1 => Top.own = G.allowed
  BY DEF StackInv, Ply, Top
<1> QED BY <1>1, <1>2, <1>3, <1>4, <1>5, <1>6

LEMMA StackKept ==
  ASSUME StackInv, UNCHANGED <<game, depth, stack>>,
         phase' \in Inside \cup Outside \cup {"enter"},
         phase' \in Inside => stack # <<>>, phase' \in Outside => stack = <<>>
  PROVE  StackInv'
BY SameGame DEF StackInv

LEMMA StackPut ==
  ASSUME StackInv, stack # <<>>, UNCHANGED <<game, depth>>, NEW f,
         IsFrame(G, depth, f), f.own = Top.own, stack' = SetTop(f),
         phase' \in Inside
  PROVE  StackInv' /\ Len(stack') = Len(stack) /\ stack' # <<>>
<1>1. Len(stack) \in Nat \ {0} /\ DOMAIN stack = 1 .. Len(stack)
  BY TopFrame
<1>2. /\ stack' \in Seq(ToSet(stack')) /\ Len(stack') = Len(stack)
      /\ stack'[Len(stack)] = f
      /\ \A k \in 1 .. Len(stack) - 1 : stack'[k] = stack[k]
  <2>1. stack \in Seq(ToSet(stack))
    BY DEF StackInv
  <2>2. LastIs([stack EXCEPT ![Len(stack)] = f], stack, f)
    BY <2>1, Put
  <2>3. LastIs(stack', stack, f)
    BY <2>2 DEF SetTop
  <2> QED BY <2>3 DEF LastIs
<1>3. DOMAIN stack' = 1 .. Len(stack)
  BY <1>2, LenProperties
<1>4. \A k \in DOMAIN stack' : IsFrame(G, depth, stack'[k])
  <2> SUFFICES ASSUME NEW k \in DOMAIN stack' PROVE IsFrame(G, depth, stack'[k])
    OBVIOUS
  <2>1. CASE k = Len(stack)
    BY <1>2, <2>1
  <2>2. CASE k \in 1 .. Len(stack) - 1
    BY <1>1, <1>2, <2>2 DEF StackInv
  <2> QED BY <1>1, <1>3, <2>1, <2>2
<1>5. stack'[1].own = G.allowed
  <2>1. stack[1].own = G.allowed
    BY DEF StackInv
  <2>2. CASE Len(stack) = 1
    BY <1>2, <2>1, <2>2 DEF Top
  <2>3. CASE Len(stack) # 1
    BY <1>1, <1>2, <2>1, <2>3
  <2> QED BY <2>2, <2>3
<1>6. stack' # <<>>
  BY <1>1, <1>2, EmptySeq
<1>7. phase' \notin Outside
  BY DEF Inside, Outside
<1> QED BY <1>2, <1>4, <1>5, <1>6, <1>7, SameGame DEF StackInv

LEMMA StackPush ==
  ASSUME StackInv, UNCHANGED <<game, depth>>, NEW f,
         IsFrame(G, depth, f), stack = <<>> => f.own = G.allowed,
         stack' = Append(stack, f), phase' \in Inside
  PROVE  StackInv' /\ stack' # <<>>
<1>1. Len(stack) \in Nat /\ DOMAIN stack = 1 .. Len(stack)
  BY LenProperties DEF StackInv
<1>2. /\ stack' \in Seq(ToSet(stack')) /\ Len(stack') = Len(stack) + 1
      /\ stack'[Len(stack) + 1] = f
      /\ \A k \in 1 .. Len(stack) : stack'[k] = stack[k]
  BY Push DEF StackInv
<1>3. DOMAIN stack' = 1 .. Len(stack) + 1
  BY <1>2, LenProperties
<1>4. \A k \in DOMAIN stack' : IsFrame(G, depth, stack'[k])
  <2> SUFFICES ASSUME NEW k \in DOMAIN stack' PROVE IsFrame(G, depth, stack'[k])
    OBVIOUS
  <2>1. CASE k = Len(stack) + 1
    BY <1>2, <2>1
  <2>2. CASE k \in 1 .. Len(stack)
    BY <1>1, <1>2, <2>2 DEF StackInv
  <2> QED BY <1>1, <1>3, <2>1, <2>2
<1>5. stack'[1].own = G.allowed
  <2>1. CASE stack = <<>>
    BY <1>2, <2>1, EmptySeq
  <2>2. CASE stack # <<>>
    BY <1>1, <1>2, <2>2, EmptySeq, TopFrame DEF StackInv
  <2> QED BY <2>1, <2>2
<1>6. stack' # <<>>
  BY <1>1, <1>2, EmptySeq
<1>7. phase' \notin Outside
  BY DEF Inside, Outside
<1> QED BY <1>2, <1>4, <1>5, <1>6, <1>7, SameGame DEF StackInv

LEMMA StackPop ==
  ASSUME StackInv, stack # <<>>, UNCHANGED <<game, depth>>,
         stack' = SubSeq(stack, 1, Ply - 1),
         phase' = IF Ply = 1 THEN "iterated" ELSE "returned"
  PROVE  StackInv'
<1>1. Len(stack) \in Nat \ {0} /\ DOMAIN stack = 1 .. Len(stack)
  BY TopFrame
<1>2. /\ stack' \in Seq(ToSet(stack')) /\ Len(stack') = Len(stack) - 1
      /\ \A k \in 1 .. Len(stack) - 1 : stack'[k] = stack[k]
  BY Pop DEF StackInv, Ply
<1>3. DOMAIN stack' = 1 .. Len(stack) - 1
  BY <1>2, LenProperties
<1>4. \A k \in DOMAIN stack' : IsFrame(G, depth, stack'[k])
  BY <1>1, <1>2, <1>3 DEF StackInv
<1>5. stack' # <<>> => stack'[1].own = G.allowed
  <2>1. stack' # <<>> => 1 \in 1 .. Len(stack) - 1
    BY <1>1, <1>2, EmptySeq
  <2> QED BY <1>2, <2>1 DEF StackInv
<1>6. stack' = <<>> <=> Ply = 1
  <2>1. stack' = <<>> <=> Len(stack') = 0
    BY <1>2, EmptySeq
  <2> QED BY <1>1, <1>2, <2>1 DEF Ply
<1>7. /\ phase' \in Inside \cup Outside
      /\ phase' \in Inside => stack' # <<>>
      /\ phase' \in Outside => stack' = <<>>
  BY <1>6 DEF Inside, Outside
<1> QED BY <1>2, <1>4, <1>5, <1>7, SameGame DEF StackInv

LEMMA StackCleared ==
  ASSUME game \in DOMAIN Games, game' = game, depth' \in Nat, stack' = <<>>,
         phase' \in Outside \cup {"enter"}
  PROVE  StackInv'
<1>1. stack' \in Seq(ToSet(stack')) /\ DOMAIN stack' = {}
  BY EmptySeq, LenProperties
<1>2. phase' \notin Inside
  BY DEF Inside, Outside
<1> QED BY <1>1, <1>2, SameGame DEF StackInv

-----------------------------------------------------------------------------
(* Each action keeps the invariant. *)

LEMMA CallKept ==
  ASSUME CallInv, UNCHANGED <<game, call, depth>>, phase' # "enter"
  PROVE  CallInv'
BY SameGame DEF CallInv

Running == Inside \cup {"enter", "iterated"}

LEMMA SnapshotKept ==
  ASSUME SnapshotInv, UNCHANGED <<game, depth, completed>>,
         phase' \in Running => phase \in Running
  PROVE  SnapshotInv'
BY SameGame DEF SnapshotInv, Values, Running

LEMMA RootKept ==
  ASSUME RootInv, UNCHANGED <<game, rootValues>>
  PROVE  RootInv'
BY SameGame DEF RootInv, Values

LEMMA TableKept ==
  ASSUME TableInv, UNCHANGED <<depth, table>>
  PROVE  TableInv'
BY DEF TableInv

\* What entering a position returns at once: a value, and at the root only
\* that of a game that is over.
LEMMA ProbeIsValue ==
  ASSUME SearchInv, phase = "enter", Probe.result = "CUTOFF"
  PROVE  Probe.value \in Value /\ stack # <<>>
<1> DEFINE entry == table.entries[Slot[call.pos]]
<1>1. Probe = CoreTtProbe(table, call.pos, call.depth, call.alpha, call.beta)
  BY DEF Probe, Miss
<1>2. entry # Vacant /\ Settles(entry, call.depth, call.alpha, call.beta)
      /\ Probe.value = entry.value
  BY <1>1 DEF CoreTtProbe, Miss
<1>3. Slot[call.pos] \in Slots
  BY DEF SearchInv, CallInv, Slots
<1>4. entry.value \in Value /\ entry.depth \in 0 .. depth
  BY <1>2, <1>3 DEF SearchInv, ValueInv, TableInv
<1>5. entry.depth >= call.depth
  BY <1>2 DEF Settles
<1>6. stack = <<>> => entry.depth < call.depth
  BY <1>2, <1>3 DEF SearchInv, CallInv
<1>7. call.depth \in Int /\ entry.depth \in Int
  BY <1>4 DEF SearchInv, CallInv
<1> QED BY <1>2, <1>4, <1>5, <1>6, <1>7

LEMMA EnterCutoffKeeps ==
  ASSUME SearchInv, EnterCutoff PROVE SearchInv'
<1> USE DEF SearchInv
<1>1. phase = "enter" /\ Probe.value \in Value /\ stack # <<>>
  BY ProbeIsValue DEF EnterCutoff
<1>2. Ply # 0
  BY <1>1, EmptySeq DEF StackInv, Ply
<1>3. /\ UNCHANGED <<game, depth, stack, call, table, ordering, rootValues, completed>>
      /\ phase' = "returned" /\ result' = [value |-> Probe.value, best |-> Probe.best]
  BY <1>2 DEF EnterCutoff, Return
<1>4. StackInv'
  BY <1>1, <1>3, StackKept DEF Inside, Outside
<1>5. ValueInv'
  BY <1>1, <1>3, RootKept, TableKept DEF ValueInv, OrderingInv, ResultInv
<1>6. CallInv' /\ SnapshotInv'
  BY <1>1, <1>3, CallKept, SnapshotKept DEF Running
<1>7. IterationInv'
  BY <1>1, <1>3, SameGame DEF IterationInv
<1> QED BY <1>4, <1>5, <1>6, <1>7

LEMMA EnterLeafKeeps ==
  ASSUME SearchInv, EnterLeaf PROVE SearchInv'
<1> USE DEF SearchInv
<1>1. /\ phase = "enter" /\ IsLeaf(call.pos, call.depth)
      /\ UNCHANGED <<game, depth, stack, call, table, ordering, rootValues, completed>>
      /\ result' = [value |-> Evaluation(G, call.pos), best |-> NoMove]
      /\ phase' = IF Ply = 0 THEN "iterated" ELSE "returned"
  BY DEF EnterLeaf, Return
<1>2. Evaluation(G, call.pos) \in Value
  BY EvaluationIsValue DEF StackInv, CallInv
<1>3. Ply = 0 <=> stack = <<>>
  BY EmptySeq DEF StackInv, Ply
<1>4. StackInv'
  BY <1>1, <1>3, StackKept DEF Inside, Outside
<1>5. ValueInv'
  BY <1>1, <1>2, RootKept, TableKept DEF ValueInv, OrderingInv, ResultInv
<1>6. CallInv' /\ SnapshotInv'
  BY <1>1, CallKept, SnapshotKept DEF Running
<1>7. stack = <<>> => Decided /\ DOMAIN rootValues = {}
  BY <1>1 DEF CallInv, StackInv, IsLeaf, Decided
<1>8. IterationInv'
  BY <1>1, <1>3, <1>7, SameGame DEF IterationInv
<1> QED BY <1>4, <1>5, <1>6, <1>8

LEMMA EnterNodeKeeps ==
  ASSUME SearchInv, EnterNode PROVE SearchInv'
<1> USE DEF SearchInv
<1> DEFINE own == IF Ply = 0 THEN G.allowed ELSE G.moves[call.pos]
           order == OrderMoves(Ply, own, Probe.best, call.preferred)
           replies == G.replies[call.pos]
           f == [pos |-> call.pos, depth |-> call.depth,
                 alpha |-> call.alpha, beta |-> call.beta,
                 window |-> <<call.alpha, call.beta>>, preferred |-> call.preferred,
                 own |-> own, order |-> order, next |-> 1,
                 replies |-> replies, combo |-> 1,
                 worst |-> Unresolved(Infinity), worstReply |-> NoMove,
                 cutoff |-> FALSE,
                 best |-> Unresolved(-Infinity), bestMove |-> order[1]]
<1>1. /\ phase = "enter" /\ ~ IsLeaf(call.pos, call.depth) /\ phase' = "moves"
      /\ UNCHANGED <<game, depth, call, result, table, ordering, rootValues, completed>>
      /\ stack' = Append(stack, f)
  BY DEF EnterNode
<1>2. call.pos \in Positions /\ call.depth \in 1 .. depth
      /\ G.outcome[call.pos] = "UNRESOLVED"
  BY <1>1 DEF IsLeaf, CallInv, StackInv
<1>3. Ply = 0 <=> stack = <<>>
  BY EmptySeq DEF StackInv, Ply
<1>4. own \in Seq(Moves) /\ own # <<>>
      /\ replies \in Seq(Moves \cup {NoMove}) /\ replies # <<>>
  BY <1>2, GameFacts DEF IsGame, StackInv
<1>5. Reorders(order, own)
  <2> HIDE DEF own
  <2> QED BY <1>4, OrderMovesReorders DEF ValueInv, OrderingInv
<1>6. stack = <<>> => own = G.allowed
  BY <1>3
<1> HIDE DEF own, order, replies
<1>7. Len(own) \in Nat \ {0} /\ Len(replies) \in Nat \ {0}
  BY <1>4, EmptySeq, LenProperties
<1>8. replies \in Seq(ToSet(replies))
  BY <1>4, SeqOfItself DEF Reorders
<1>9. Unresolved(Infinity) \in Value /\ Unresolved(-Infinity) \in Value
  BY SearchAssumption, UnresolvedIsValue
<1>10. IsFrame(G, depth, f)
  <2> DEFINE high == Unresolved(Infinity)
             low == Unresolved(-Infinity)
  <2>1. high \in Value /\ low \in Value
    BY <1>9
  <2> HIDE DEF high, low
  <2>2. DOMAIN f = FrameFields
    BY DEF FrameFields
  <2>3. order \in Seq(ToSet(own)) /\ 1 \in 1 .. Len(order) /\ 1 \in 1 .. Len(replies)
    BY <1>5, <1>7 DEF Reorders
  <2>4. replies \in Seq(ToSet(G.replies[call.pos]))
    BY <1>8 DEF replies
  <2> QED BY <1>2, <1>4, <2>1, <2>2, <2>3, <2>4 DEF IsFrame, high, low
<1>11. f.own = own
  OBVIOUS
<1> HIDE DEF f
<1>12. StackInv' /\ stack' # <<>>
  BY <1>1, <1>6, <1>10, <1>11, StackPush DEF Inside
<1>13. ValueInv'
  BY <1>1, RootKept, TableKept DEF ValueInv, OrderingInv, ResultInv
<1>14. CallInv' /\ SnapshotInv'
  BY <1>1, CallKept, SnapshotKept DEF Running
<1>15. ~ Decided
  BY <1>1, <1>2 DEF CallInv, IterationInv, Decided
<1>16. IterationInv'
  BY <1>1, <1>15, SameGame DEF IterationInv
<1> QED BY <1>12, <1>13, <1>14, <1>16

LEMMA OpenMoveKeeps ==
  ASSUME SearchInv, OpenMove PROVE SearchInv'
<1> USE DEF SearchInv
<1> DEFINE m == Top.order[Top.next]
           replies == IF Ply = 1 /\ config.ordering
                      THEN MoveToFront(Top.replies, ordering.rootReply[m])
                      ELSE Top.replies
           f == [Top EXCEPT !.replies = replies, !.combo = 1,
                            !.worst = Unresolved(Infinity),
                            !.worstReply = NoMove, !.cutoff = FALSE]
<1>1. /\ phase = "moves" /\ phase' = "replies"
      /\ UNCHANGED <<game, depth, call, result, table, ordering, rootValues, completed>>
      /\ stack # <<>>
  BY DEF OpenMove, StackInv, Inside
<1>2. IsFrame(G, depth, Top)
  BY <1>1, TopFrame
<1>3. stack' = SetTop(f)
  BY <1>2 DEF OpenMove, IsFrame, FrameFields
<1>4. Reorders(replies, Top.replies)
  <2>1. Top.replies \in Seq(ToSet(G.replies[Top.pos]))
    BY <1>2 DEF IsFrame
  <2> QED BY <2>1, MoveToFrontReorders, SeqOfItself
<1> HIDE DEF replies, m
<1>5. replies \in Seq(ToSet(G.replies[Top.pos])) /\ 1 \in 1 .. Len(replies)
  <2>1. ToSet(Top.replies) \subseteq ToSet(G.replies[Top.pos])
    BY <1>2, SeqOfItself DEF IsFrame
  <2>2. replies \in Seq(ToSet(G.replies[Top.pos]))
    BY <1>4, <2>1, SeqMonotonic DEF Reorders
  <2>3. Len(Top.replies) \in Nat /\ Top.combo \in 1 .. Len(Top.replies)
    BY <1>2, LenProperties DEF IsFrame
  <2> QED BY <1>4, <2>2, <2>3 DEF Reorders
<1>6. Unresolved(Infinity) \in Value
  BY SearchAssumption, UnresolvedIsValue
<1>7. IsFrame(G, depth, f) /\ f.own = Top.own
  BY <1>2, <1>5, <1>6 DEF IsFrame, FrameFields
<1> HIDE DEF f
<1>8. StackInv' /\ stack' # <<>>
  BY <1>1, <1>3, <1>7, StackPut DEF Inside
<1>9. ValueInv'
  BY <1>1, RootKept, TableKept DEF ValueInv, OrderingInv, ResultInv
<1>10. CallInv' /\ SnapshotInv'
  BY <1>1, CallKept, SnapshotKept DEF Running, Inside
<1>11. IterationInv'
  BY <1>1, SameGame DEF IterationInv
<1> QED BY <1>8, <1>9, <1>10, <1>11

LEMMA OpenReplyKeeps ==
  ASSUME SearchInv, OpenReply PROVE SearchInv'
<1> USE DEF SearchInv
<1>1. /\ phase = "replies" /\ phase' = "enter" /\ stack # <<>>
      /\ UNCHANGED <<game, depth, stack, result, table, ordering, rootValues, completed>>
  BY DEF OpenReply, StackInv, Inside
<1> DEFINE child == G.next[Top.pos][Top.order[Top.next]][Top.replies[Top.combo]]
<1>2. call'.pos = child /\ call'.depth = Top.depth - 1
  BY DEF OpenReply
<1> HIDE DEF SearchInv
<1>3. /\ StackInv /\ ValueInv /\ IterationInv /\ SnapshotInv
  BY DEF SearchInv
<1>4. StackInv'
  BY <1>1, <1>3, StackKept DEF Inside, Outside
<1>5. ValueInv'
  <2>1. TableInv' /\ RootInv'
    BY <1>1, <1>3, RootKept, TableKept DEF ValueInv
  <2> QED BY <1>1, <1>3, <2>1 DEF ValueInv, OrderingInv, ResultInv
<1>6. CallInv'
  <2>1. Top.pos \in Positions /\ Top.depth \in 1 .. depth
        /\ Top.order[Top.next] \in Moves
        /\ Top.replies[Top.combo] \in ToSet(G.replies[Top.pos])
    BY <1>1, <1>3, TopFrame DEF IsFrame
  <2>2. child \in Positions
    <3>1. IsGame(G)
      BY <1>3, GameFacts DEF StackInv
    <3> QED BY <2>1, <3>1 DEF IsGame
  <2> HIDE DEF child
  <2>3. depth \in Int
    BY <1>3 DEF StackInv
  <2>4. call'.depth \in 0 .. depth'
    BY <1>1, <1>2, <2>1, <2>3
  <2> QED BY <1>1, <1>2, <2>2, <2>4 DEF CallInv
<1>7. SnapshotInv'
  BY <1>1, <1>3, SnapshotKept DEF Running, Inside
<1>8. IterationInv'
  BY <1>1, <1>3, SameGame DEF IterationInv
<1> QED BY <1>4, <1>5, <1>6, <1>7, <1>8, Zenon DEF SearchInv

LEMMA TakeReplyKeeps ==
  ASSUME SearchInv, TakeReply PROVE SearchInv'
<1> USE DEF SearchInv
<1> DEFINE value == Backup(result.value)
           worse == value.score < Top.worst.score
           worst == IF worse THEN value ELSE Top.worst
           cutoff == worst.score <= Top.alpha
           last == Top.combo = Len(Top.replies)
           m == Top.order[Top.next]
           f == [Top EXCEPT !.worst = worst,
                   !.worstReply = IF worse THEN Top.replies[Top.combo] ELSE @,
                   !.cutoff = cutoff,
                   !.combo = IF cutoff \/ last THEN @ ELSE @ + 1]
<1>1. /\ phase = "returned" /\ stack # <<>> /\ stack' = SetTop(f)
      /\ UNCHANGED <<game, depth, call, result, table, rootValues, completed>>
      /\ phase' = IF cutoff \/ last THEN "close" ELSE "replies"
      /\ ordering' = IF cutoff THEN Refuted(Ply - 1, m, Top.depth) ELSE ordering
  BY DEF TakeReply, StackInv, Inside
<1>2. IsFrame(G, depth, Top) /\ m \in Moves
  BY <1>1, TopFrame
<1>3. worst \in Value
  BY <1>2, BackupIsValue DEF ValueInv, ResultInv, IsFrame
<1>4. Len(Top.replies) \in Nat /\ Top.combo \in 1 .. Len(Top.replies)
  BY <1>2, LenProperties DEF IsFrame
<1> HIDE DEF value, worse, worst, cutoff, m
<1>5. IsFrame(G, depth, f) /\ f.own = Top.own
  <2> DEFINE combo == IF cutoff \/ last THEN Top.combo ELSE Top.combo + 1
             reply == IF worse THEN Top.replies[Top.combo] ELSE Top.worstReply
  <2>1. combo \in 1 .. Len(Top.replies)
    BY <1>4
  <2>2. f = [Top EXCEPT !.worst = worst, !.worstReply = reply, !.cutoff = cutoff,
                        !.combo = combo]
    BY <1>2 DEF IsFrame, FrameFields
  <2> HIDE DEF combo, reply, f
  <2> QED BY <1>2, <1>3, <2>1, <2>2 DEF IsFrame, FrameFields
<1> HIDE DEF f
<1>6. phase' \in {"close", "replies"}
  BY <1>1
<1>7. StackInv' /\ stack' # <<>>
  BY <1>1, <1>5, <1>6, StackPut DEF Inside
<1>8. OrderingInv'
  <2>1. Top.depth \in Nat
    BY <1>2 DEF IsFrame, StackInv
  <2>2. Top.depth * Top.depth \in Int
    BY <2>1
  <2> DEFINE square == Top.depth * Top.depth
  <2>3. square \in Int
    BY <2>2
  <2>4. DOMAIN ordering = {"killers", "history", "pv", "rootReply"}
        /\ ordering.history \in [Moves -> Int]
    BY DEF ValueInv, OrderingInv
  <2>5. CASE ordering' = ordering
    BY <2>4, <2>5 DEF OrderingInv
  <2>6. CASE ordering' # ordering
    <3>1. ordering' = [ordering EXCEPT
              !.killers[Ply - 1] = IF m = @[1] THEN @ ELSE <<m, @[1]>>,
              !.history[m] = @ + square]
      BY <1>1, <2>6 DEF Refuted
    <3> HIDE DEF square
    <3>2. DOMAIN ordering' = {"killers", "history", "pv", "rootReply"}
      BY <2>4, <3>1
    <3>3. ordering'.history = [ordering.history EXCEPT ![m] = @ + square]
      BY <2>4, <3>1
    <3>4. ordering'.history \in [Moves -> Int]
      BY <1>2, <2>3, <2>4, <3>3
    <3> QED BY <3>2, <3>4 DEF OrderingInv
  <2> QED BY <2>5, <2>6
<1>9. ValueInv'
  BY <1>1, <1>8, RootKept, TableKept DEF ValueInv, ResultInv
<1>10. CallInv' /\ SnapshotInv'
  BY <1>1, <1>6, CallKept, SnapshotKept DEF Running, Inside
<1>11. IterationInv'
  BY <1>1, <1>6, SameGame DEF IterationInv
<1> QED BY <1>7, <1>9, <1>10, <1>11

LEMMA CloseMoveKeeps ==
  ASSUME SearchInv, CloseMove PROVE SearchInv'
<1> USE DEF SearchInv
<1>1. PICK tieWon \in IF Top.worst.score = Top.best.score THEN BOOLEAN ELSE {FALSE} :
        LET m == Top.order[Top.next]
            atRoot == Ply = 1
            settled == IF atRoot THEN RootValue(Top) ELSE Top.worst
            best == IF Improves(Top, tieWon) THEN settled ELSE Top.best
            alpha == IF best.score > Top.alpha THEN best.score ELSE Top.alpha
            done == alpha >= Top.beta \/ Top.next = Len(Top.order)
        IN /\ stack' = SetTop([Top EXCEPT
                 !.best = best, !.alpha = alpha,
                 !.bestMove = IF Improves(Top, tieWon) THEN m ELSE @,
                 !.next = IF done THEN @ ELSE @ + 1])
           /\ IF atRoot
              THEN /\ rootValues' = [x \in DOMAIN rootValues \cup {m} |->
                                        IF x = m THEN settled ELSE rootValues[x]]
                   /\ LET s == SelectRoot(G.root, rootValues', Top.preferred, Top.own)
                      IN rootBest' = [move |-> s.move, reason |-> s.reason]
                   /\ ordering' = [ordering EXCEPT !.rootReply[m] = Top.worstReply]
              ELSE UNCHANGED <<rootValues, rootBest, ordering>>
           /\ phase' = IF done THEN "finish" ELSE "moves"
  BY Zenon DEF CloseMove
<1> DEFINE m == Top.order[Top.next]
           settled == IF Ply = 1 THEN RootValue(Top) ELSE Top.worst
           improves == Improves(Top, tieWon)
           best == IF improves THEN settled ELSE Top.best
           alpha == IF best.score > Top.alpha THEN best.score ELSE Top.alpha
           done == alpha >= Top.beta \/ Top.next = Len(Top.order)
           next == IF done THEN Top.next ELSE Top.next + 1
           bestMove == IF improves THEN m ELSE Top.bestMove
           f == [Top EXCEPT !.best = best, !.alpha = alpha,
                   !.bestMove = IF improves THEN m ELSE @,
                   !.next = IF done THEN @ ELSE @ + 1]
<1>2. /\ phase = "close" /\ stack # <<>>
      /\ UNCHANGED <<game, depth, call, result, table, completed>>
  BY DEF CloseMove, StackInv, Inside
<1>3. stack' = SetTop(f) /\ phase' \in {"finish", "moves"}
  BY <1>1
<1>4. Ply = 1 => /\ rootValues' = [x \in DOMAIN rootValues \cup {m} |->
                                     IF x = m THEN settled ELSE rootValues[x]]
                 /\ ordering' = [ordering EXCEPT !.rootReply[m] = Top.worstReply]
  BY <1>1
<1>5. Ply # 1 => UNCHANGED <<rootValues, ordering>>
  BY <1>1
<1>6. IsFrame(G, depth, Top) /\ m \in ToSet(Top.own) /\ m \in Moves
      /\ (Ply = 1 => Top.own = G.allowed)
  BY <1>2, TopFrame
<1>7. settled \in Value
  BY <1>6, ValueFields DEF IsFrame, RootValue, Bounds
<1>8. best \in Value
  BY <1>6, <1>7 DEF IsFrame
<1> HIDE DEF m, settled, improves, best, alpha, done
<1>9. IsFrame(G, depth, f) /\ f.own = Top.own
  <2>1. Len(Top.order) \in Nat /\ Top.next \in 1 .. Len(Top.order)
    BY <1>6, LenProperties DEF IsFrame
  <2>2. next \in 1 .. Len(Top.order)
    BY <2>1 DEF done
  <2>3. f = [Top EXCEPT !.best = best, !.alpha = alpha, !.bestMove = bestMove,
                        !.next = next]
    BY <1>6 DEF IsFrame, FrameFields
  <2> HIDE DEF next, bestMove, f
  <2> QED BY <1>6, <1>8, <2>2, <2>3 DEF IsFrame, FrameFields
<1> HIDE DEF f
<1>10. StackInv' /\ Len(stack') = Len(stack) /\ stack' # <<>>
  BY <1>2, <1>3, <1>9, StackPut DEF Inside
<1>11. RootInv' /\ (Ply = 1 => DOMAIN rootValues' # {})
  <2>1. CASE Ply # 1
    BY <1>2, <1>5, <2>1, RootKept DEF ValueInv
  <2>2. CASE Ply = 1
    <3>1. m \in Allowed
      BY <1>6, <2>2 DEF Allowed
    <3> QED BY <1>2, <1>4, <1>7, <2>2, <3>1, SameGame
            DEF ValueInv, RootInv, Values
  <2> QED BY <2>1, <2>2
<1>12. OrderingInv'
  BY <1>4, <1>5 DEF ValueInv, OrderingInv
<1>13. ValueInv'
  BY <1>2, <1>11, <1>12, TableKept DEF ValueInv, ResultInv
<1>14. CallInv' /\ SnapshotInv'
  BY <1>2, <1>3, CallKept, SnapshotKept DEF Running, Inside
<1>15. IterationInv'
  BY <1>2, <1>3, <1>10, <1>11, SameGame DEF IterationInv, Ply
<1> QED BY <1>10, <1>13, <1>14, <1>15

\* At the root the selection's choice has a value, and that is what the
\* iteration returns.
LEMMA RootChoice ==
  ASSUME StackInv, RootInv, NEW values, Values(values), DOMAIN values \subseteq Allowed,
         DOMAIN values # {}, NEW favourite
  PROVE  LET s == SelectRoot(G.root, values, favourite, G.allowed)
         IN  s.move \in DOMAIN values /\ s.value = values[s.move]
<1>1. game \in DOMAIN Games
  BY DEF StackInv
<1>2. G.allowed \in Seq(Moves) /\ IsFiniteSet(Allowed) /\ Allowed \subseteq Moves
      /\ IsGame(G)
  BY <1>1, GameFacts
<1>3. IsFiniteSet(DOMAIN values) /\ DOMAIN values \subseteq ToSet(G.allowed)
  BY <1>2, FS_Subset DEF Allowed
<1>4. Candidates(values, DOMAIN values)
  BY <1>3 DEF Candidates, Values
<1>5. Measured(G.root, DOMAIN values)
  BY <1>2 DEF Measured, IsGame
<1> QED BY <1>2, <1>3, <1>4, <1>5, SelectRootSound

LEMMA FinishNodeKeeps ==
  ASSUME SearchInv, FinishNode PROVE SearchInv'
<1> USE DEF SearchInv
<1> DEFINE bound == NodeBound(Top)
           own == [value |-> [Top.best EXCEPT !.bound = bound], move |-> Top.bestMove]
           chosen == IF Ply = 1
                     THEN SelectRoot(G.root, rootValues, Top.preferred, Top.own)
                     ELSE own
<1>1. /\ phase = "finish" /\ stack # <<>>
      /\ UNCHANGED <<game, depth, call, rootValues, completed>>
      /\ result' = [value |-> chosen.value, best |-> chosen.move]
      /\ ordering' = IF config.ordering
                     THEN [ordering EXCEPT !.pv[Ply - 1] = chosen.move]
                     ELSE ordering
      /\ table' = IF InTable(Top.pos, Top.depth)
                  THEN CoreTtStore(table, Top.pos, Top.depth, own.value, bound, own.move)
                  ELSE table
      /\ stack' = SubSeq(stack, 1, Ply - 1)
      /\ phase' = IF Ply = 1 THEN "iterated" ELSE "returned"
  BY DEF FinishNode, StackInv, Inside
<1>2. IsFrame(G, depth, Top) /\ (Ply = 1 => Top.own = G.allowed)
  BY <1>1, TopFrame
<1>3. bound \in Bounds
  BY DEF NodeBound, Bounds
<1> HIDE DEF bound
<1>4. own.value \in Value
  BY <1>2, <1>3, ValueFields DEF IsFrame
<1>5. Ply = 1 => chosen.move \in DOMAIN rootValues /\ chosen.value = rootValues[chosen.move]
  BY <1>1, <1>2, RootChoice DEF IterationInv, Ply, ValueInv, RootInv
<1>6. chosen.value \in Value
  <2>1. CASE Ply = 1
    BY <1>5, <2>1 DEF ValueInv, RootInv, Values
  <2>2. CASE Ply # 1
    BY <1>4, <2>2
  <2> QED BY <2>1, <2>2
<1> HIDE DEF chosen
<1>7. StackInv'
  BY <1>1, StackPop
<1>8. OrderingInv' /\ ResultInv'
  BY <1>1, <1>6 DEF ValueInv, OrderingInv, ResultInv
<1> DEFINE v == own.value
<1>9. v \in Value
  BY <1>4
<1>10. TableInv'
  <2>1. CASE table' = table
    BY <1>1, <2>1, TableKept DEF ValueInv
  <2>2. CASE table' # table
    <3> DEFINE e == [hash |-> Top.pos, value |-> [v EXCEPT !.bound = bound],
                     depth |-> Top.depth, generation |-> table.generation,
                     bound |-> bound, best |-> own.move]
    <3>1. table' = [table EXCEPT !.entries[Slot[Top.pos]] = e]
      BY <1>1, <2>2 DEF CoreTtStore
    <3>2. Top.depth \in 0 .. depth
      BY <1>2 DEF IsFrame, StackInv
    <3>3. e.value = [v EXCEPT !.bound = bound] /\ e.depth = Top.depth
      OBVIOUS
    <3> HIDE DEF e, v
    <3>4. e.value \in Value /\ e.depth \in 0 .. depth
      BY <1>3, <1>9, <3>2, <3>3, ValueFields
    <3> QED BY <1>1, <3>1, <3>4 DEF ValueInv, TableInv
  <2> QED BY <2>1, <2>2
<1>11. ValueInv'
  BY <1>1, <1>8, <1>10, RootKept DEF ValueInv
<1>12. CallInv' /\ SnapshotInv'
  BY <1>1, CallKept, SnapshotKept DEF Running, Inside
<1>13. IterationInv'
  <2>1. ~ Decided
    BY <1>1 DEF IterationInv
  <2>2. phase' = "iterated" => Ply = 1
    BY <1>1
  <2>3. phase' = "iterated" =>
          result'.best \in DOMAIN rootValues' /\ result'.value = rootValues'[result'.best]
    BY <1>1, <1>5, <2>2
  <2>4. phase' # "finish"
    BY <1>1
  <2> QED BY <1>1, <2>1, <2>3, <2>4, SameGame DEF IterationInv
<1> QED BY <1>7, <1>11, <1>12, <1>13

LEMMA StartIterationKeeps ==
  ASSUME SearchInv, StartIteration PROVE SearchInv'
<1> USE DEF SearchInv
<1>1. /\ phase = "iterate" /\ phase' = "enter" /\ stack = <<>> /\ stack' = <<>>
      /\ UNCHANGED <<game, result, table, ordering, completed>>
      /\ depth \in Nat /\ depth' = depth + 1 /\ rootValues' = << >>
      /\ call' = [pos |-> G.root.position, depth |-> depth + 1,
                  alpha |-> -Infinity, beta |-> Infinity, preferred |-> preferred]
  BY DEF StartIteration, StackInv, Outside
<1>2. StackInv'
  BY <1>1, StackCleared DEF StackInv
<1>3. DOMAIN rootValues' = {}
  BY <1>1, EmptySeq, LenProperties
<1>4. \A s \in Slots : table'.entries[s] # Vacant =>
        /\ table'.entries[s].value \in Value
        /\ table'.entries[s].depth \in 0 .. depth' /\ table'.entries[s].depth < depth'
  BY <1>1 DEF ValueInv, TableInv
<1>5. ValueInv'
  BY <1>1, <1>3, <1>4
     DEF ValueInv, OrderingInv, ResultInv, TableInv, RootInv, Values
<1>6. CallInv'
  <2>1. G.root.position \in Positions
    BY GameFacts DEF IsGame, StackInv
  <2> QED BY <1>1, <1>3, <1>4, <2>1, SameGame DEF CallInv
<1>7. SnapshotInv'
  BY <1>1, SameGame DEF SnapshotInv, Values
<1>8. IterationInv'
  BY <1>1, SameGame DEF IterationInv
<1> QED BY <1>2, <1>5, <1>6, <1>7, <1>8

LEMMA InterruptKeeps ==
  ASSUME SearchInv, Interrupt PROVE SearchInv'
<1> USE DEF SearchInv
<1>1. /\ phase' = "interrupted" /\ stack' = <<>>
      /\ UNCHANGED <<game, depth, call, result, table, ordering, rootValues, completed>>
  BY DEF Interrupt
<1>2. StackInv'
  BY <1>1, StackCleared DEF StackInv, Outside
<1>3. ValueInv'
  BY <1>1, RootKept, TableKept DEF ValueInv, OrderingInv, ResultInv
<1>4. CallInv' /\ SnapshotInv'
  BY <1>1, CallKept, SnapshotKept DEF Running, Inside
<1>5. IterationInv'
  BY <1>1 DEF IterationInv
<1> QED BY <1>2, <1>3, <1>4, <1>5

LEMMA CompleteIterationKeeps ==
  ASSUME SearchInv, CompleteIteration PROVE SearchInv'
<1> USE DEF SearchInv
<1> DEFINE candidate == IF result.best = NoMove THEN completed.move ELSE result.best
<1>1. /\ phase = "iterated" /\ phase' = "between" /\ stack = <<>>
      /\ UNCHANGED <<game, depth, stack, call, result, table, rootValues>>
      /\ completed' = [depth |-> depth, move |-> candidate, value |-> result.value,
                       reason |-> rootBest.reason, source |-> "MINIMAX",
                       values |-> rootValues]
      /\ ordering' = IF config.ordering THEN [ordering EXCEPT !.pv[0] = candidate]
                                        ELSE ordering
  BY DEF CompleteIteration, StackInv, Outside
<1>2. StackInv'
  BY <1>1, StackKept DEF Inside, Outside
<1>3. ValueInv'
  BY <1>1, RootKept, TableKept DEF ValueInv, OrderingInv, ResultInv
<1>4. CallInv'
  BY <1>1, CallKept
<1>5. IterationInv'
  BY <1>1 DEF IterationInv
<1>6. DOMAIN rootValues \subseteq Allowed /\ Values(rootValues)
  BY DEF ValueInv, RootInv
<1>7. candidate \in Allowed
      /\ (candidate \in DOMAIN rootValues => result.value = rootValues[candidate])
      /\ (~ Decided => candidate \in DOMAIN rootValues)
  <2>1. CASE Decided
    BY <1>1, <2>1 DEF IterationInv, SnapshotInv
  <2>2. CASE ~ Decided
    <3>1. result.best \in DOMAIN rootValues /\ result.value = rootValues[result.best]
      BY <1>1, <2>2 DEF IterationInv
    <3>2. NoMove \notin Allowed
      BY GameFacts DEF StackInv
    <3> QED BY <1>6, <3>1, <3>2
  <2> QED BY <2>1, <2>2
<1>8. SnapshotInv'
  <2>1. completed.depth \in Nat /\ depth \in Nat /\ completed.depth < depth
    BY <1>1 DEF SnapshotInv, StackInv
  <2>2. /\ DOMAIN completed' = {"depth", "move", "value", "reason", "source", "values"}
        /\ completed'.depth = depth /\ completed'.move = candidate
        /\ completed'.value = result.value /\ completed'.values = rootValues
    BY <1>1
  <2> HIDE DEF candidate
  <2>3. completed'.depth \in 0 .. depth' /\ completed'.depth # 0
    BY <1>1, <2>1, <2>2
  <2>4. phase' \notin Running
    BY <1>1 DEF Running, Inside
  <2> QED BY <1>1, <1>6, <1>7, <2>2, <2>3, <2>4, SameGame
          DEF SnapshotInv, Running, Values
<1> QED BY <1>2, <1>3, <1>4, <1>5, <1>8

LEMMA StopBetweenKeeps ==
  ASSUME SearchInv, StopBetween PROVE SearchInv'
<1> USE DEF SearchInv
<1>1. /\ phase' = "finalize" /\ phase = "between"
      /\ UNCHANGED <<game, depth, stack, call, result, table, ordering, rootValues, completed>>
  BY DEF StopBetween
<1>2. StackInv'
  BY <1>1, StackKept DEF StackInv, Inside, Outside
<1>3. ValueInv'
  BY <1>1, RootKept, TableKept DEF ValueInv, OrderingInv, ResultInv
<1>4. CallInv' /\ SnapshotInv'
  BY <1>1, CallKept, SnapshotKept DEF Running, Inside
<1>5. IterationInv'
  BY <1>1, SameGame DEF IterationInv
<1> QED BY <1>2, <1>3, <1>4, <1>5

LEMMA DeepenKeeps ==
  ASSUME SearchInv, Deepen PROVE SearchInv'
<1> USE DEF SearchInv
<1>1. /\ phase' \in {"finalize", "iterate"} /\ phase = "between"
      /\ UNCHANGED <<game, depth, stack, call, result, ordering, rootValues, completed>>
      /\ table' = IF config.tt THEN CoreTtNextGeneration(table) ELSE table
  BY DEF Deepen
<1>2. StackInv'
  BY <1>1, StackKept DEF StackInv, Inside, Outside
<1>3. TableInv'
  <2>1. CASE table' = CoreTtInit
    BY <2>1 DEF TableInv, CoreTtInit
  <2>2. CASE table' = table
    BY <1>1, <2>2, TableKept DEF ValueInv
  <2>3. CASE table' = [table EXCEPT !.generation = @ + 1]
    BY <1>1, <2>3 DEF ValueInv, TableInv
  <2> QED BY <1>1, <2>1, <2>2, <2>3 DEF CoreTtNextGeneration
<1>4. ValueInv'
  BY <1>1, <1>3, RootKept DEF ValueInv, OrderingInv, ResultInv
<1>5. CallInv' /\ SnapshotInv'
  BY <1>1, CallKept, SnapshotKept DEF Running, Inside
<1>6. IterationInv'
  BY <1>1, SameGame DEF IterationInv
<1> QED BY <1>2, <1>4, <1>5, <1>6

\* Values of an iteration that did not finish are taken only while none has,
\* and only for a move of the frontier.
LEMMA AdoptionIsSound ==
  ASSUME SearchInv
  PROVE  \/ AdoptPartial = completed
         \/ /\ completed.depth = 0 /\ AdoptPartial.depth = 0
            /\ DOMAIN AdoptPartial = DOMAIN completed
            /\ AdoptPartial.move \in DOMAIN rootValues \cap Frontier
            /\ AdoptPartial.value = rootValues[AdoptPartial.move]
            /\ AdoptPartial.values = rootValues
<1> USE DEF SearchInv
<1> DEFINE eligible == RestrictTo(rootValues, Frontier)
           s == SelectRoot(G.root, eligible, completed.move, G.allowed)
           structural == /\ s.reason = "NOT_COMPARED"
                         /\ G.root.policy = "LADDER"
                         /\ DOMAIN rootValues \ Frontier # {}
<1>1. CASE ~ (completed.depth = 0 /\ DOMAIN eligible # {})
  BY <1>1 DEF AdoptPartial
<1>2. CASE completed.depth = 0 /\ DOMAIN eligible # {}
  <2>1. /\ DOMAIN eligible = DOMAIN rootValues \cap Frontier
        /\ \A m \in DOMAIN eligible : eligible[m] = rootValues[m]
    BY DEF RestrictTo
  <2> DEFINE reason == IF structural THEN "STRUCTURAL_PROOF" ELSE s.reason
             move == s.move
             value == s.value
  <2>2. AdoptPartial = [completed EXCEPT !.move = move, !.value = value,
                                         !.values = rootValues, !.reason = reason]
    BY <1>2 DEF AdoptPartial, SnapshotInv
  <2> HIDE DEF eligible
  <2>3. Values(eligible) /\ DOMAIN eligible \subseteq Allowed
    BY <2>1 DEF ValueInv, RootInv, Values
  <2>4. move \in DOMAIN eligible /\ value = eligible[move]
    BY <1>2, <2>3, RootChoice DEF ValueInv
  <2> HIDE DEF reason, move, value
  <2> QED BY <1>2, <2>1, <2>2, <2>4 DEF SnapshotInv
<1> QED BY <1>1, <1>2

LEMMA TakeInterruptedKeeps ==
  ASSUME SearchInv, TakeInterrupted PROVE SearchInv'
<1> USE DEF SearchInv
<1>1. /\ phase = "interrupted" /\ phase' = "finalize" /\ completed' = AdoptPartial
      /\ UNCHANGED <<game, depth, stack, call, result, table, ordering, rootValues>>
  BY DEF TakeInterrupted
<1>2. StackInv'
  BY <1>1, StackKept DEF StackInv, Inside, Outside
<1>3. ValueInv'
  BY <1>1, RootKept, TableKept DEF ValueInv, OrderingInv, ResultInv
<1>4. CallInv'
  BY <1>1, CallKept
<1>5. IterationInv'
  BY <1>1, SameGame DEF IterationInv
<1>6. phase' \notin Running
  BY <1>1 DEF Running, Inside
<1>7. SnapshotInv'
  <2>1. CASE AdoptPartial = completed
    BY <1>1, <1>6, <2>1, SnapshotKept
  <2>2. CASE AdoptPartial # completed
    <3>1. /\ completed'.depth = 0 /\ DOMAIN completed' = DOMAIN completed
          /\ completed'.move \in DOMAIN rootValues \cap Frontier
          /\ completed'.value = rootValues[completed'.move]
          /\ completed'.values = rootValues
      BY <1>1, <2>2, AdoptionIsSound
    <3>2. DOMAIN rootValues \subseteq Allowed /\ Values(rootValues) /\ depth \in Nat
      BY DEF ValueInv, RootInv, StackInv
    <3> QED BY <1>1, <1>6, <3>1, <3>2, SameGame DEF SnapshotInv, Running, Values
  <2> QED BY <2>1, <2>2
<1> QED BY <1>2, <1>3, <1>4, <1>5, <1>7

\* The corridor guard exchanges the answer only for a move that the search
\* gave the same value and the structure ranks the same.
LEMMA GuardIsSound ==
  ASSUME SearchInv, NEW sameCause,
         NEW m, m = CorridorGuard(G.root, Allowed, completed.values, Directions,
                                  completed.move, sameCause),
         m # completed.move
  PROVE  /\ m \in Allowed /\ m \in DOMAIN completed.values
         /\ completed.move \in DOMAIN completed.values
         /\ completed.values[m] = completed.values[completed.move]
         /\ completed.move \in Frontier => m \in Frontier
<1> USE DEF SearchInv
<1> DEFINE values == completed.values
           incumbent == completed.move
           exact == {x \in Allowed \cap DOMAIN values :
                       values[x].bound = "EXACT" /\ G.root.corridor[x] >= 0}
<1>1. /\ exact # {} /\ incumbent \in DOMAIN values
      /\ m = FirstOf(Directions, KeepMost(G.root.corridor, exact))
      /\ CoreCompareRootCandidates(G.root, values, m, incumbent) = "EQUAL"
  BY DEF CorridorGuard
<1>2. /\ IsGame(G) /\ Allowed \subseteq Moves /\ IsFiniteSet(Allowed)
      /\ Allowed \subseteq ToSet(Directions) /\ Directions \in Seq(Moves)
  BY GameFacts, SearchAssumption DEF StackInv
<1>3. exact \subseteq Allowed /\ exact \subseteq DOMAIN values /\ IsFiniteSet(exact)
  BY <1>2, FS_Subset
<1> DEFINE corridor == G.root.corridor
<1>4. \A x \in exact : corridor[x] \in Int
  BY <1>2, <1>3 DEF IsGame
<1> HIDE DEF exact, corridor
<1>5. Keeps(KeepMost(corridor, exact), exact)
  BY <1>1, <1>3, <1>4, KeepMostKeeps
<1> DEFINE most == KeepMost(corridor, exact)
<1>6. most \subseteq exact /\ ToSet(Directions) \cap most # {}
  BY <1>2, <1>3, <1>5 DEF Keeps
<1>7. m = FirstOf(Directions, most)
  BY <1>1 DEF corridor
<1> HIDE DEF most
<1>8. m \in exact
  BY <1>2, <1>6, <1>7, FirstIsIn
<1>9. values[m] = values[incumbent] /\ SameStructure(G.root, m, incumbent)
  BY <1>1 DEF CoreCompareRootCandidates
<1>10. incumbent \in Frontier => m \in Frontier
  BY <1>3, <1>8, <1>9 DEF Frontier, StructuralMaximal, StructureBeats, SameStructure
<1> QED BY <1>1, <1>3, <1>8, <1>9, <1>10

LEMMA FinalizeKeeps ==
  ASSUME SearchInv, Finalize PROVE SearchInv'
<1> USE DEF SearchInv
<1>1. /\ phase = "finalize" /\ phase' = "done"
      /\ UNCHANGED <<game, depth, stack, call, result, table, ordering, rootValues>>
  BY DEF Finalize
<1>2. PICK sameCause \in BOOLEAN :
        LET m == CorridorGuard(G.root, Allowed, completed.values, Directions,
                               completed.move, sameCause)
        IN completed' =
            IF m = completed.move THEN [completed EXCEPT !.source = FinalSource]
            ELSE [completed EXCEPT !.move = m, !.value = completed.values[m],
                    !.source = "CORRIDOR_GUARD", !.reason = "CORRIDOR_GUARD"]
  BY DEF Finalize
<1>3. StackInv'
  BY <1>1, StackKept DEF StackInv, Inside, Outside
<1>4. ValueInv'
  BY <1>1, RootKept, TableKept DEF ValueInv, OrderingInv, ResultInv
<1>5. CallInv'
  BY <1>1, CallKept
<1>6. IterationInv'
  BY <1>1, SameGame DEF IterationInv
<1>7. phase' \notin Running
  BY <1>1 DEF Running, Inside
<1> DEFINE m == CorridorGuard(G.root, Allowed, completed.values, Directions,
                              completed.move, sameCause)
<1>8. SnapshotInv'
  <2>1. CASE m = completed.move
    <3>1. completed' = [completed EXCEPT !.source = FinalSource]
      BY <1>2, <2>1
    <3> QED BY <1>1, <1>7, <3>1, SameGame DEF SnapshotInv, Running, Values
  <2>2. CASE m # completed.move
    <3>1. completed' = [completed EXCEPT !.move = m, !.value = completed.values[m],
                          !.source = "CORRIDOR_GUARD", !.reason = "CORRIDOR_GUARD"]
      BY <1>2, <2>2
    <3>2. /\ m \in Allowed /\ m \in DOMAIN completed.values
          /\ completed.move \in Frontier => m \in Frontier
      BY <2>2, GuardIsSound
    <3> HIDE DEF m
    <3> QED BY <1>1, <1>7, <3>1, <3>2, SameGame DEF SnapshotInv, Running, Values
  <2> QED BY <2>1, <2>2
<1> QED BY <1>3, <1>4, <1>5, <1>6, <1>8

-----------------------------------------------------------------------------
(* The search. *)

\* Some allowed move is left for an answer that no search backs.
LEMMA FrontierInAllowed ==
  ASSUME game \in DOMAIN Games
  PROVE  Frontier \subseteq Allowed /\ Frontier # {}
<1>1. Allowed # {}
  BY GameFacts
<1> QED BY <1>1, StructureKeepsSome DEF Frontier, Keeps

LEMMA SearchInit ==
  ASSUME Init PROVE SearchInv
<1>1. /\ game \in DOMAIN Games /\ phase = "iterate" /\ depth = 0 /\ stack = <<>>
      /\ call = NoCall /\ result = NoResult /\ table = CoreTtInit
      /\ ordering = [killers |-> [p \in 0..MaxDepth |-> <<NoMove, NoMove>>],
                     history |-> [m \in Moves |-> 0],
                     pv |-> [p \in 0..MaxDepth |-> NoMove],
                     rootReply |-> [m \in Moves |-> NoMove]]
      /\ rootValues = << >>
      /\ completed = [depth |-> 0, move |-> FirstOf(Directions, Frontier),
                      value |-> Unresolved(0), reason |-> FallbackReason,
                      source |-> "ALLOWED_FALLBACK", values |-> << >>]
  BY DEF Init
<1> DEFINE first == FirstOf(Directions, Frontier)
<1>2. first \in Frontier /\ first \in Allowed
  <2>1. Frontier \subseteq Allowed /\ Frontier # {}
        /\ Allowed \subseteq ToSet(Directions) /\ Directions \in Seq(Moves)
    BY <1>1, FrontierInAllowed, GameFacts, SearchAssumption
  <2> QED BY <2>1, FirstIsIn
<1> HIDE DEF first
<1>3. << >> \in Seq({}) /\ ToSet(<< >>) = {} /\ DOMAIN << >> = {}
  BY EmptySeq, LenProperties DEF ToSet
<1>4. StackInv
  BY <1>1, <1>3 DEF StackInv, Inside, Outside
<1>5. ValueInv
  <2>1. Unresolved(0) \in Value
    BY UnresolvedIsValue
  <2>2. OrderingInv /\ ResultInv
    BY <1>1, <2>1 DEF OrderingInv, ResultInv, NoResult
  <2>3. TableInv
    BY <1>1 DEF TableInv, CoreTtInit
  <2> QED BY <1>1, <1>3, <2>2, <2>3 DEF ValueInv, RootInv, Values
<1>6. CallInv
  <2>1. G.root.position \in Positions
    BY <1>1, GameFacts DEF IsGame
  <2> QED BY <1>1, <2>1 DEF CallInv, NoCall
<1>7. IterationInv
  BY <1>1 DEF IterationInv
<1>8. SnapshotInv
  <2>1. completed.depth = 0 /\ completed.move = first /\ completed.values = << >>
        /\ DOMAIN completed = {"depth", "move", "value", "reason", "source", "values"}
    BY <1>1 DEF first
  <2> QED BY <1>1, <1>2, <1>3, <2>1
          DEF SnapshotInv, Running, Inside, Values
<1> QED BY <1>4, <1>5, <1>6, <1>7, <1>8 DEF SearchInv

LEMMA SearchStep ==
  ASSUME SearchInv, [Next]_vars PROVE SearchInv'
<1>1. CASE UNCHANGED vars
  BY <1>1, SameGame
     DEF vars, SearchInv, StackInv, ValueInv, OrderingInv, ResultInv, TableInv,
         RootInv, CallInv, IterationInv, SnapshotInv, Values
<1>2. CASE Next
  BY <1>1, <1>2, EnterCutoffKeeps, EnterLeafKeeps, EnterNodeKeeps, OpenMoveKeeps,
     OpenReplyKeeps, TakeReplyKeeps, CloseMoveKeeps, FinishNodeKeeps,
     StartIterationKeeps, InterruptKeeps, CompleteIterationKeeps,
     StopBetweenKeeps, DeepenKeeps, TakeInterruptedKeeps, FinalizeKeeps
     DEF Next, Done
<1> QED BY <1>1, <1>2

\* The invariant of the search: its stack is that of a recursion on positions
\* of the game, every value anywhere is one, nothing in the table is as deep
\* as an iteration that has not begun, and the snapshot is of one branch.
LEMMA SearchAlways == Spec => []SearchInv
<1>1. Init => SearchInv
  BY SearchInit
<1>2. SearchInv /\ [Next]_vars => SearchInv'
  BY SearchStep
<1> QED BY <1>1, <1>2, PTL DEF Spec

\* An interruption never takes back what a finished iteration established: a
\* step leaves its depth, its values and the value of its answer alone or
\* replaces them by those of a deeper iteration.
LEMMA NothingLost ==
  ASSUME SearchInv, [Next]_vars, completed.depth > 0
  PROVE  \/ completed'.depth > completed.depth
         \/ /\ completed'.depth = completed.depth
            /\ completed'.values = completed.values
            /\ completed'.value = completed.value
<1> USE DEF SearchInv
<1>1. CASE UNCHANGED completed
  BY <1>1
<1>2. CASE CompleteIteration
  <2>1. phase = "iterated" /\ completed'.depth = depth
    BY <1>2 DEF CompleteIteration
  <2>2. completed.depth < depth /\ completed.depth \in Int /\ depth \in Int
    BY <2>1 DEF SnapshotInv, StackInv, Running
  <2> QED BY <2>1, <2>2
<1>3. CASE TakeInterrupted
  <2>1. AdoptPartial = completed
    BY AdoptionIsSound
  <2> QED BY <1>3, <2>1 DEF TakeInterrupted
<1>4. CASE Finalize
  <2>1. PICK sameCause \in BOOLEAN :
          LET m == CorridorGuard(G.root, Allowed, completed.values, Directions,
                                 completed.move, sameCause)
          IN completed' =
              IF m = completed.move THEN [completed EXCEPT !.source = FinalSource]
              ELSE [completed EXCEPT !.move = m, !.value = completed.values[m],
                      !.source = "CORRIDOR_GUARD", !.reason = "CORRIDOR_GUARD"]
    BY <1>4 DEF Finalize
  <2> DEFINE m == CorridorGuard(G.root, Allowed, completed.values, Directions,
                                completed.move, sameCause)
  <2>2. CASE m = completed.move
    BY <2>1, <2>2 DEF SnapshotInv
  <2>3. CASE m # completed.move
    <3>1. completed' = [completed EXCEPT !.move = m, !.value = completed.values[m],
                          !.source = "CORRIDOR_GUARD", !.reason = "CORRIDOR_GUARD"]
      BY <2>1, <2>3
    <3>2. completed.values[m] = completed.value
      BY <2>3, GuardIsSound DEF SnapshotInv
    <3> HIDE DEF m
    <3> QED BY <3>1, <3>2 DEF SnapshotInv
  <2> QED BY <2>2, <2>3
<1>5. CASE EnterCutoff \/ EnterLeaf \/ EnterNode \/ OpenMove \/ OpenReply
             \/ TakeReply \/ CloseMove \/ FinishNode
  <2>1. UNCHANGED completed
    BY <1>5, Zenon DEF EnterCutoff, EnterLeaf, EnterNode, OpenMove, OpenReply,
                       TakeReply, CloseMove, FinishNode
  <2> QED BY <1>1, <2>1, Zenon
<1>6. CASE StartIteration \/ Interrupt \/ StopBetween \/ Deepen \/ Done \/ UNCHANGED vars
  <2>1. UNCHANGED completed
    BY <1>6, Zenon DEF StartIteration, Interrupt, StopBetween, Deepen, Done, vars
  <2> QED BY <1>1, <2>1, Zenon
<1> QED BY <1>2, <1>3, <1>4, <1>5, <1>6, Zenon DEF Next

\* Whatever interrupts the search, and whatever the guard of the corridors
\* does with its answer (core_algorithms.c:5907, 5946), the depth, the values
\* and the value that a finished iteration established stay until a deeper one
\* is finished: for every game, every order of the moves and every table.
THEOREM CompletedNeverLostAlways == Spec => CompletedNeverLost
<1>1. SearchInv /\ [Next]_vars =>
        [completed.depth > 0 =>
          \/ completed'.depth > completed.depth
          \/ /\ completed'.depth = completed.depth
             /\ completed'.values = completed.values
             /\ completed'.value = completed.value]_vars
  BY NothingLost
<1> QED BY <1>1, SearchAlways, PTL DEF Spec, CompletedNeverLost

\* The answer of CoreMinimaxMoveWithStats (core_algorithms.c:6174) is a move
\* that the root policy allows, its value is the value of that very move, and
\* without a finished iteration it is a move of the frontier that the
\* structural analysis left.
THEOREM AnswerIsOneBranchAlways == Spec => []AnswerIsOneBranch
<1>1. SearchInv => AnswerIsOneBranch
  BY DEF SearchInv, SnapshotInv, AnswerIsOneBranch, StackInv, Decided
<1> QED BY <1>1, SearchAlways, PTL

-----------------------------------------------------------------------------
(* Pruning, table and ordering lose nothing. *)

(* Scores. *)

\* What the assumptions say of the scores.
LEMMA Scores ==
  /\ TerminalWin \in Int /\ TerminalLoss \in Int /\ Infinity \in Int
  /\ SurvivalStep \in Nat /\ MaxDepth \in Nat
  /\ LossBand \in Int /\ WinBand \in Int /\ LossBand < WinBand
  /\ -Infinity < TerminalLoss /\ TerminalLoss <= LossBand
  /\ WinBand <= TerminalWin /\ TerminalWin < Infinity
<1>1. /\ TerminalWin \in Int /\ TerminalLoss \in Int /\ Infinity \in Int
      /\ SurvivalStep \in Nat /\ MaxDepth \in Nat
  BY SearchAssumption, BandAssumption
<1>2. SurvivalStep * MaxDepth \in Nat
  BY <1>1
<1> DEFINE width == SurvivalStep * MaxDepth
<1>3. width \in Nat /\ LossBand = TerminalLoss + width /\ WinBand = TerminalWin - width
  BY <1>2 DEF LossBand, WinBand
<1> HIDE DEF width
<1> QED BY <1>1, <1>3, BandAssumption

\* Taking a score to its place in a band keeps the order of scores.
LEMMA BandOrder ==
  /\ \A x \in Int : /\ Band(x) \in Int
                    /\ -Infinity <= Band(x) /\ Band(x) <= Infinity
  /\ \A x, y \in Int : x <= y => Band(x) <= Band(y)
  /\ Band(Infinity) = Infinity /\ Band(-Infinity) = -Infinity
<1>1. /\ Infinity \in Int /\ LossBand \in Int /\ WinBand \in Int /\ LossBand < WinBand
      /\ -Infinity < LossBand /\ WinBand < Infinity
  BY Scores
<1> HIDE DEF LossBand, WinBand
<1> QED BY <1>1 DEF Band

\* The score of an end n moves away.
EndScore(outcome, n) ==
  CASE outcome = "WIN"  -> TerminalWin - SurvivalStep * n
    [] outcome = "LOSS" -> TerminalLoss + SurvivalStep * n
    [] outcome = "DRAW" -> (TerminalWin + TerminalLoss) \div 2

\* A value as a search of depth n returns it: an end is at most n moves away
\* and scored for its distance.
Fair(v, n) ==
  /\ v \in Value /\ v.distance <= n
  /\ -Infinity < v.score /\ v.score <= Infinity
  /\ v.outcome # "UNRESOLVED" => v.score = EndScore(v.outcome, v.distance)

LEMMA StepsGrow ==
  ASSUME NEW i \in Nat, NEW j \in Nat, i <= j
  PROVE  /\ SurvivalStep * i \in Nat /\ SurvivalStep * j \in Nat
         /\ SurvivalStep * i <= SurvivalStep * j
<1>1. SurvivalStep \in Nat
  BY Scores
<1>2. PICK k \in Nat : j = i + k
  <2>1. j - i \in Nat /\ j = i + (j - i)
    OBVIOUS
  <2> QED BY <2>1
<1>3. SurvivalStep * (i + k) = SurvivalStep * i + SurvivalStep * k
  BY <1>1
<1>4. SurvivalStep * k \in Nat /\ SurvivalStep * i \in Nat /\ SurvivalStep * j \in Nat
  BY <1>1
<1> DEFINE a == SurvivalStep * i
           b == SurvivalStep * j
           c == SurvivalStep * k
<1>5. b = a + c /\ a \in Nat /\ b \in Nat /\ c \in Nat
  BY <1>2, <1>3, <1>4
<1> HIDE DEF a, b, c
<1>6. a <= b
  BY <1>5
<1> QED BY <1>4, <1>6 DEF a, b

LEMMA EndScores ==
  ASSUME NEW n \in Nat, n <= MaxDepth
  PROVE  /\ EndScore("LOSS", n) \in Int /\ EndScore("WIN", n) \in Int
         /\ EndScore("DRAW", n) \in Int
         /\ TerminalLoss <= EndScore("LOSS", n) /\ EndScore("LOSS", n) <= LossBand
         /\ WinBand <= EndScore("WIN", n) /\ EndScore("WIN", n) <= TerminalWin
         /\ TerminalLoss <= EndScore("DRAW", n) /\ EndScore("DRAW", n) <= TerminalWin
<1>1. /\ TerminalWin \in Int /\ TerminalLoss \in Int /\ MaxDepth \in Nat
      /\ LossBand < WinBand /\ LossBand \in Int /\ WinBand \in Int
      /\ TerminalLoss <= LossBand /\ WinBand <= TerminalWin
  BY Scores
<1>2. /\ SurvivalStep * n \in Nat /\ SurvivalStep * MaxDepth \in Nat
      /\ SurvivalStep * n <= SurvivalStep * MaxDepth
  BY <1>1, StepsGrow
<1> DEFINE a == SurvivalStep * n
           b == SurvivalStep * MaxDepth
           c == (TerminalWin + TerminalLoss) \div 2
<1>3. /\ LossBand = TerminalLoss + b /\ WinBand = TerminalWin - b
      /\ EndScore("LOSS", n) = TerminalLoss + a /\ EndScore("WIN", n) = TerminalWin - a
      /\ EndScore("DRAW", n) = c
  BY DEF LossBand, WinBand, EndScore
<1>4. a \in Nat /\ b \in Nat /\ a <= b
  BY <1>2
<1>5. c \in Int /\ TerminalLoss <= c /\ c <= TerminalWin
  <2>1. TerminalLoss <= TerminalWin
    BY <1>1
  <2> QED BY <1>1, <2>1
<1> HIDE DEF a, b, c
<1> QED BY <1>1, <1>3, <1>4, <1>5

LEMMA FairScore ==
  ASSUME NEW n \in Nat, NEW v, Fair(v, n)
  PROVE  /\ v \in Value /\ v.score \in Int /\ v.distance \in Nat /\ v.distance <= n
         /\ -Infinity < v.score /\ v.score <= Infinity
         /\ Class(v) = Band(v.score)
         /\ Class(v) \in Int /\ -Infinity <= Class(v) /\ Class(v) <= Infinity
BY ValueFields, BandOrder DEF Fair, Class

LEMMA FairLonger ==
  ASSUME NEW i \in Nat, NEW n \in Nat, i <= n, NEW v, Fair(v, i)
  PROVE  Fair(v, n)
<1>1. v.distance \in Nat
  BY FairScore
<1> QED BY <1>1 DEF Fair

LEMMA FairBound ==
  ASSUME NEW n, NEW v, Fair(v, n), NEW b \in Bounds
  PROVE  /\ Fair([v EXCEPT !.bound = b], n)
         /\ [v EXCEPT !.bound = b].score = v.score
         /\ [v EXCEPT !.bound = b].bound = b
<1>1. v \in Value
  BY DEF Fair
<1>2. [v EXCEPT !.bound = b] \in Value
  BY <1>1, ValueFields
<1>3. /\ [v EXCEPT !.bound = b].score = v.score
      /\ [v EXCEPT !.bound = b].outcome = v.outcome
      /\ [v EXCEPT !.bound = b].distance = v.distance
      /\ [v EXCEPT !.bound = b].bound = b
  BY <1>1 DEF Value
<1> QED BY <1>2, <1>3 DEF Fair

LEMMA TerminalIsFair ==
  ASSUME NEW n \in Nat, n <= MaxDepth, NEW o \in Outcomes \ {"UNRESOLVED"}
  PROVE  Fair(Terminal(o, n), n)
<1> DEFINE t == Terminal(o, n)
<1>1. t \in Value
  BY TerminalIsValue
<1>2. t.outcome = o /\ t.distance = n /\ t.score = EndScore(o, n)
  BY DEF Terminal, EndScore
<1> HIDE DEF t
<1>3. o = "WIN" \/ o = "LOSS" \/ o = "DRAW"
  BY DEF Outcomes
<1>4. -Infinity < EndScore(o, n) /\ EndScore(o, n) <= Infinity
  <2>1. /\ -Infinity < TerminalLoss /\ TerminalWin < Infinity /\ Infinity \in Int
        /\ TerminalLoss \in Int /\ TerminalWin \in Int
        /\ LossBand \in Int /\ WinBand \in Int /\ LossBand < WinBand
        /\ TerminalLoss <= LossBand /\ WinBand <= TerminalWin
    BY Scores
  <2> QED BY <1>3, <2>1, EndScores
<1>5. Fair(t, n)
  BY <1>1, <1>2, <1>4 DEF Fair
<1> QED BY <1>5 DEF t

\* Taking a value one move further away keeps it fair and in its band: its
\* score rises only if it is lost, and falls only if it is won.
LEMMA BackupIsFair ==
  ASSUME NEW n \in Nat, n < MaxDepth, NEW v, Fair(v, n)
  PROVE  /\ Fair(Backup(v), n + 1) /\ Backup(v).bound = v.bound
         /\ Backup(v).score \in Int /\ v.score \in Int
         /\ Band(Backup(v).score) = Band(v.score)
         /\ Backup(v).score > v.score => Band(v.score) = -Infinity
         /\ Backup(v).score < v.score => Band(v.score) = Infinity
<1>1. /\ v \in Value /\ v.distance \in Nat /\ v.distance <= n /\ v.score \in Int
      /\ v.bound \in Bounds /\ v.outcome \in Outcomes /\ MaxDepth \in Nat
  BY FairScore, ValueFields, Scores
<1>2. CASE v.outcome = "UNRESOLVED"
  <2>1. Backup(v) = v
    BY <1>2 DEF Backup
  <2>2. Fair(v, n + 1)
    BY FairLonger
  <2> QED BY <1>1, <2>1, <2>2
<1>3. CASE v.outcome # "UNRESOLVED"
  <2> DEFINE t == Terminal(v.outcome, v.distance + 1)
             w == [t EXCEPT !.bound = v.bound]
             i == v.distance
             j == v.distance + 1
  <2>1. Backup(v) = w
    BY <1>3 DEF Backup
  <2>2. Fair(t, j)
    <3>1. v.distance + 1 \in Nat /\ v.distance + 1 <= MaxDepth
      BY <1>1
    <3> QED BY <1>1, <1>3, <3>1, TerminalIsFair
  <2>3. t.score = EndScore(v.outcome, j)
    BY DEF Terminal, EndScore
  <2> HIDE DEF t
  <2>4. Fair(w, j) /\ w.score = t.score /\ w.bound = v.bound
    BY <1>1, <2>2, FairBound
  <2> HIDE DEF w
  <2>5. Fair(w, n + 1)
    BY <1>1, <2>4, FairLonger
  <2>6. v.score = EndScore(v.outcome, i)
    BY <1>3 DEF Fair
  <2>7. v.outcome = "WIN" \/ v.outcome = "LOSS" \/ v.outcome = "DRAW"
    BY <1>1, <1>3 DEF Outcomes
  <2>8. i \in Nat /\ j \in Nat /\ i <= j /\ j <= MaxDepth /\ i <= MaxDepth
    BY <1>1
  <2>9. Infinity \in Int /\ LossBand \in Int /\ WinBand \in Int /\ LossBand < WinBand
    BY Scores
  <2> HIDE DEF i, j
  <2>10. CASE v.outcome = "LOSS"
    <3> DEFINE x == EndScore("LOSS", i)
               y == EndScore("LOSS", j)
    <3>1. x \in Int /\ y \in Int /\ x <= LossBand /\ y <= LossBand
      BY <2>8, EndScores
    <3>2. x <= y
      <4>1. /\ SurvivalStep * i \in Nat /\ SurvivalStep * j \in Nat
            /\ SurvivalStep * i <= SurvivalStep * j
        BY <2>8, StepsGrow
      <4> DEFINE a == SurvivalStep * i
                 b == SurvivalStep * j
      <4>2. /\ a \in Nat /\ b \in Nat /\ a <= b
            /\ x = TerminalLoss + a /\ y = TerminalLoss + b
        BY <4>1 DEF EndScore
      <4> HIDE DEF a, b, x, y
      <4> QED BY <4>2, Scores
    <3>3. v.score = x /\ w.score = y
      BY <2>3, <2>4, <2>6, <2>10
    <3> HIDE DEF x, y
    <3> QED BY <2>1, <2>4, <2>5, <2>9, <3>1, <3>2, <3>3 DEF Band
  <2>11. CASE v.outcome = "WIN"
    <3> DEFINE x == EndScore("WIN", i)
               y == EndScore("WIN", j)
    <3>1. x \in Int /\ y \in Int /\ x >= WinBand /\ y >= WinBand
      BY <2>8, EndScores, Scores
    <3>2. y <= x
      <4>1. /\ SurvivalStep * i \in Nat /\ SurvivalStep * j \in Nat
            /\ SurvivalStep * i <= SurvivalStep * j
        BY <2>8, StepsGrow
      <4> DEFINE a == SurvivalStep * i
                 b == SurvivalStep * j
      <4>2. /\ a \in Nat /\ b \in Nat /\ a <= b
            /\ x = TerminalWin - a /\ y = TerminalWin - b
        BY <4>1 DEF EndScore
      <4> HIDE DEF a, b, x, y
      <4> QED BY <4>2, Scores
    <3>3. v.score = x /\ w.score = y
      BY <2>3, <2>4, <2>6, <2>11
    <3> HIDE DEF x, y
    <3> QED BY <2>1, <2>4, <2>5, <2>9, <3>1, <3>2, <3>3 DEF Band
  <2>12. CASE v.outcome = "DRAW"
    <3>1. v.score = w.score
      BY <2>3, <2>4, <2>6, <2>12 DEF EndScore
    <3> QED BY <1>1, <2>1, <2>4, <2>5, <3>1
  <2> QED BY <2>7, <2>10, <2>11, <2>12
<1> QED BY <1>2, <1>3

LEMMA EvaluationIsFair ==
  ASSUME NEW g \in DOMAIN Games, NEW p \in Positions
  PROVE  Fair(Evaluation(Games[g], p), 0) /\ Evaluation(Games[g], p).bound = "EXACT"
<1>1. /\ Games[g].outcome[p] \in Outcomes /\ Games[g].score[p] \in Int
      /\ -Infinity < Games[g].score[p] /\ Games[g].score[p] < Infinity
  BY SearchAssumption, BandAssumption DEF IsGame
<1>2. CASE Games[g].outcome[p] = "UNRESOLVED"
  <2> DEFINE x == Games[g].score[p]
  <2>1. Unresolved(x) \in Value /\ Evaluation(Games[g], p) = Unresolved(x)
    BY <1>1, <1>2, UnresolvedIsValue DEF Evaluation
  <2>2. Infinity \in Int
    BY Scores
  <2> QED BY <1>1, <2>1, <2>2 DEF Fair, Unresolved
<1>3. CASE Games[g].outcome[p] # "UNRESOLVED"
  <2>1. 0 \in Nat /\ 0 <= MaxDepth
    BY Scores
  <2>2. Fair(Terminal(Games[g].outcome[p], 0), 0)
    BY <1>1, <1>3, <2>1, TerminalIsFair
  <2> QED BY <1>3, <2>2 DEF Evaluation, Terminal
<1> QED BY <1>2, <1>3

-----------------------------------------------------------------------------
(* What positions are worth. *)

\* Some of the elements of M, finitely many.
Some(S, M) == IsFiniteSet(S) /\ S # {} /\ S \subseteq M

LEMMA ListSet ==
  ASSUME NEW M, NEW s \in Seq(M), s # <<>>
  PROVE  Some(ToSet(s), M)
<1>1. Len(s) \in Nat \ {0} /\ DOMAIN s = 1 .. Len(s)
  BY LenProperties, EmptySeq
<1>2. s[1] \in ToSet(s)
  BY <1>1 DEF ToSet
<1> QED BY <1>2, SeqOfItself DEF Some

LEMMA GameLists ==
  ASSUME NEW g \in DOMAIN Games, NEW p \in Positions
  PROVE  /\ IsFiniteSet(OwnMoves(Games[g], p)) /\ OwnMoves(Games[g], p) # {}
         /\ OwnMoves(Games[g], p) \subseteq Moves
         /\ IsFiniteSet(ToSet(Games[g].replies[p])) /\ ToSet(Games[g].replies[p]) # {}
         /\ \A m \in Moves, r \in ToSet(Games[g].replies[p]) :
              Games[g].next[p][m][r] \in Positions
<1>1. /\ IsGame(Games[g])
      /\ Games[g].allowed \in Seq(Moves) /\ Games[g].allowed # <<>>
      /\ Games[g].moves[p] \in Seq(Moves) /\ Games[g].moves[p] # <<>>
      /\ Games[g].replies[p] \in Seq(Moves \cup {NoMove}) /\ Games[g].replies[p] # <<>>
  BY SearchAssumption DEF IsGame
<1>3. /\ IsFiniteSet(ToSet(Games[g].allowed)) /\ ToSet(Games[g].allowed) # {}
      /\ ToSet(Games[g].allowed) \subseteq Moves
      /\ IsFiniteSet(ToSet(Games[g].moves[p])) /\ ToSet(Games[g].moves[p]) # {}
      /\ ToSet(Games[g].moves[p]) \subseteq Moves
      /\ IsFiniteSet(ToSet(Games[g].replies[p])) /\ ToSet(Games[g].replies[p]) # {}
  <2>1. Some(ToSet(Games[g].allowed), Moves)
    BY <1>1, ListSet
  <2>2. Some(ToSet(Games[g].moves[p]), Moves)
    BY <1>1, ListSet
  <2>3. Some(ToSet(Games[g].replies[p]), Moves \cup {NoMove})
    BY <1>1, ListSet
  <2> QED BY <2>1, <2>2, <2>3 DEF Some
<1>4. \A m \in Moves, r \in ToSet(Games[g].replies[p]) :
         Games[g].next[p][m][r] \in Positions
  BY <1>1 DEF IsGame
<1> QED BY <1>3, <1>4 DEF OwnMoves

\* Of finitely many values one is lowest and one is highest.
LEMMA Extremes ==
  ASSUME NEW S, IsFiniteSet(S), S # {}, NEW f, \A x \in S : f[x].score \in Int,
         NEW V, \A x \in S : f[x] \in V, \A v \in V : \E x \in S : v = f[x]
  PROVE  /\ \E x \in S : Lowest(V) = f[x]
         /\ \A x \in S : Lowest(V).score <= f[x].score
         /\ \E x \in S : Highest(V) = f[x]
         /\ \A x \in S : f[x].score <= Highest(V).score
<1> DEFINE up == [x \in S |-> f[x].score]
           down == [x \in S |-> 0 - f[x].score]
<1>1. \A x \in S : up[x] \in Int /\ down[x] \in Int
  OBVIOUS
<1>2. \E v \in V : \A w \in V : v.score >= w.score
  <2>1. PICK x \in S : \A y \in S : up[y] <= up[x]
    <3> HIDE DEF up
    <3> QED BY <1>1, GreatestMeasure
  <2>2. \A y \in S : f[x].score >= f[y].score
    BY <2>1
  <2> QED BY <2>2
<1>3. \E v \in V : \A w \in V : v.score <= w.score
  <2>1. PICK x \in S : \A y \in S : down[y] <= down[x]
    <3> HIDE DEF down
    <3> QED BY <1>1, GreatestMeasure
  <2>2. \A y \in S : f[x].score <= f[y].score
    BY <2>1
  <2> QED BY <2>2
<1>4. /\ Lowest(V) \in V /\ \A w \in V : Lowest(V).score <= w.score
      /\ Highest(V) \in V /\ \A w \in V : Highest(V).score >= w.score
  BY <1>2, <1>3 DEF Lowest, Highest
<1>5. \A x \in S : f[x] \in V
  OBVIOUS
<1>6. (\E x \in S : Lowest(V) = f[x]) /\ (\E x \in S : Highest(V) = f[x])
  BY <1>4
<1>7. \A x \in S : Lowest(V).score <= f[x].score /\ f[x].score <= Highest(V).score
  <2> SUFFICES ASSUME NEW x \in S
               PROVE  Lowest(V).score <= f[x].score /\ f[x].score <= Highest(V).score
    OBVIOUS
  <2>1. Highest(V).score \in Int /\ f[x].score \in Int
    <3>1. PICK y \in S : Highest(V) = f[y]
      BY <1>6
    <3> QED BY <3>1
  <2>2. Lowest(V).score <= f[x].score /\ Highest(V).score >= f[x].score
    BY <1>4, <1>5
  <2> QED BY <2>1, <2>2
<1> QED BY <1>6, <1>7, Zenon

\* Values of the positions that a search of depth n could return.
Level(level, n) == \A p \in Positions : Fair(level[p], n)

\* The value of a move is that of its worst reply.
LEMMA MoveWorthIs ==
  ASSUME NEW g \in DOMAIN Games, NEW p \in Positions, NEW m \in Moves,
         NEW n \in Nat, n < MaxDepth, NEW level, Level(level, n)
  PROVE  /\ \E r \in ToSet(Games[g].replies[p]) :
              MoveWorth(Games[g], level, p, m) = Backup(level[Games[g].next[p][m][r]])
         /\ \A r \in ToSet(Games[g].replies[p]) :
              MoveWorth(Games[g], level, p, m).score
                <= Backup(level[Games[g].next[p][m][r]]).score
<1> DEFINE R == ToSet(Games[g].replies[p])
           at(r) == Backup(level[Games[g].next[p][m][r]])
           V == {at(r) : r \in R}
<1>1. IsFiniteSet(R) /\ R # {} /\ \A r \in R : Games[g].next[p][m][r] \in Positions
  BY GameLists
<1>2. \A r \in R : at(r).score \in Int
  BY <1>1, BackupIsFair DEF Level
<1>3. MoveWorth(Games[g], level, p, m) = Lowest(V)
  BY DEF MoveWorth
<1> HIDE DEF R, at
<1> DEFINE f == [r \in R |-> at(r)]
<1>4. (\A r \in R : f[r].score \in Int) /\ (\A r \in R : f[r] \in V)
      /\ \A v \in V : \E r \in R : v = f[r]
  BY <1>2
<1>5. /\ \E r \in R : Lowest(V) = f[r]
      /\ \A r \in R : Lowest(V).score <= f[r].score
  <2> HIDE DEF V, f
  <2> QED BY <1>1, <1>4, Extremes
<1>6. /\ \E r \in R : MoveWorth(Games[g], level, p, m) = at(r)
      /\ \A r \in R : MoveWorth(Games[g], level, p, m).score <= at(r).score
  BY <1>3, <1>5
<1> QED BY <1>6 DEF R, at

LEMMA MoveWorthFair ==
  ASSUME NEW g \in DOMAIN Games, NEW p \in Positions, NEW m \in Moves,
         NEW n \in Nat, n < MaxDepth, NEW level, Level(level, n)
  PROVE  Fair(MoveWorth(Games[g], level, p, m), n + 1)
<1>1. PICK r \in ToSet(Games[g].replies[p]) :
        MoveWorth(Games[g], level, p, m) = Backup(level[Games[g].next[p][m][r]])
  BY MoveWorthIs
<1>2. Games[g].next[p][m][r] \in Positions
  BY GameLists
<1>3. Fair(level[Games[g].next[p][m][r]], n)
  BY <1>2 DEF Level
<1> QED BY <1>1, <1>3, BackupIsFair

\* The value of a position is that of its best move.
LEMMA DeeperIs ==
  ASSUME NEW g \in DOMAIN Games, NEW p \in Positions,
         NEW n \in Nat, n < MaxDepth, NEW level, Level(level, n),
         Games[g].outcome[p] = "UNRESOLVED"
  PROVE  /\ \E m \in OwnMoves(Games[g], p) :
              Deeper(Games[g], level)[p] = MoveWorth(Games[g], level, p, m)
         /\ \A m \in OwnMoves(Games[g], p) :
              MoveWorth(Games[g], level, p, m).score <= Deeper(Games[g], level)[p].score
<1> DEFINE M == OwnMoves(Games[g], p)
           at(m) == MoveWorth(Games[g], level, p, m)
           V == {at(m) : m \in M}
<1>1. IsFiniteSet(M) /\ M # {} /\ M \subseteq Moves
  BY GameLists
<1>2. \A m \in M : at(m).score \in Int
  <2>1. n + 1 \in Nat
    OBVIOUS
  <2> QED BY <1>1, <2>1, MoveWorthFair, FairScore
<1>3. Deeper(Games[g], level)[p] = Highest(V)
  BY DEF Deeper
<1> HIDE DEF M, at
<1> DEFINE f == [m \in M |-> at(m)]
<1>4. (\A m \in M : f[m].score \in Int) /\ (\A m \in M : f[m] \in V)
      /\ \A v \in V : \E m \in M : v = f[m]
  BY <1>2
<1>5. /\ \E m \in M : Highest(V) = f[m]
      /\ \A m \in M : f[m].score <= Highest(V).score
  <2> HIDE DEF V, f
  <2> QED BY <1>1, <1>4, Extremes
<1>6. /\ \E m \in M : Deeper(Games[g], level)[p] = at(m)
      /\ \A m \in M : at(m).score <= Deeper(Games[g], level)[p].score
  BY <1>3, <1>5
<1> QED BY <1>6 DEF M, at

LEMMA DeeperFair ==
  ASSUME NEW g \in DOMAIN Games, NEW n \in Nat, n < MaxDepth,
         NEW level, Level(level, n)
  PROVE  Level(Deeper(Games[g], level), n + 1)
<1> SUFFICES ASSUME NEW p \in Positions
             PROVE  Fair(Deeper(Games[g], level)[p], n + 1)
  BY DEF Level
<1>1. CASE Games[g].outcome[p] = "UNRESOLVED"
  <2>1. PICK m \in OwnMoves(Games[g], p) :
          Deeper(Games[g], level)[p] = MoveWorth(Games[g], level, p, m)
    BY <1>1, DeeperIs
  <2>2. m \in Moves
    BY GameLists
  <2> QED BY <2>1, <2>2, MoveWorthFair
<1>2. CASE Games[g].outcome[p] # "UNRESOLVED"
  <2>1. Deeper(Games[g], level)[p] = Evaluation(Games[g], p)
    BY <1>2 DEF Deeper
  <2>2. 0 \in Nat /\ n + 1 \in Nat /\ 0 <= n + 1
    OBVIOUS
  <2> QED BY <2>1, <2>2, EvaluationIsFair, FairLonger
<1> QED BY <1>1, <1>2

\* The worth of a depth is computed from that of the depth before.
LEMMA WorthIs ==
  /\ Worth[0] = [g \in DOMAIN Games |-> [p \in Positions |-> Evaluation(Games[g], p)]]
  /\ \A n \in 1 .. MaxDepth :
       Worth[n] = [g \in DOMAIN Games |-> Deeper(Games[g], Worth[n - 1][g])]
<1> DEFINE Base == [g \in DOMAIN Games |-> [p \in Positions |-> Evaluation(Games[g], p)]]
           After(prev) == [g \in DOMAIN Games |-> Deeper(Games[g], prev[g])]
           At(f, n) == [g \in DOMAIN Games |->
                          IF n = 0 THEN [p \in Positions |-> Evaluation(Games[g], p)]
                                   ELSE Deeper(Games[g], f[n - 1][g])]
           Upto(f, n) == f = [i \in 0 .. n |-> At(f, i)]
           W == CHOOSE f : Upto(f, MaxDepth)
<1>1. Worth = W
  BY DEF Worth
<1>2. MaxDepth \in Nat
  BY Scores
<1>3. /\ \A f : At(f, 0) = Base
      /\ \A f : \A n \in Nat \ {0} : At(f, n) = After(f[n - 1])
  OBVIOUS
<1> HIDE DEF At, Base, After
<1>4. \A n \in 0 .. MaxDepth : \E f : Upto(f, n)
  <2> DEFINE K == {k \in 1 .. MaxDepth + 1 : ~ \E f : Upto(f, k - 1)}
  <2> SUFFICES ASSUME K # {} PROVE FALSE
    <3> SUFFICES ASSUME NEW n \in 0 .. MaxDepth PROVE \E f : Upto(f, n)
      OBVIOUS
    <3>1. n + 1 \in 1 .. MaxDepth + 1 /\ (n + 1) - 1 = n
      BY <1>2
    <3>2. n + 1 \notin K
      OBVIOUS
    <3>3. \E f : Upto(f, (n + 1) - 1)
      BY <3>1, <3>2
    <3> QED BY <3>1, <3>3
  <2>1. MaxDepth + 1 \in Nat /\ K \subseteq 1 .. MaxDepth + 1
    BY <1>2
  <2>2. PICK k \in K : \A j \in 1 .. (k - 1) : j \notin K
    <3> HIDE DEF K
    <3> QED BY <2>1, LeastIndex
  <2>3. k \in 1 .. MaxDepth + 1 /\ ~ \E f : Upto(f, k - 1)
    OBVIOUS
  <2>4. CASE k = 1
    <3> DEFINE h == [i \in 0 .. 0 |-> Base]
    <3>1. 0 .. (k - 1) = 0 .. 0 /\ \A i \in 0 .. 0 : i = 0
      BY <2>4
    <3>2. h = [i \in 0 .. 0 |-> At(h, i)]
      <4>1. \A i \in 0 .. 0 : At(h, i) = Base
        BY <1>3, <3>1
      <4> QED BY <4>1
    <3> HIDE DEF h
    <3>3. Upto(h, k - 1)
      BY <3>1, <3>2
    <3> QED BY <2>3, <3>3
  <2>5. CASE k # 1
    <3>1. k - 1 \in 1 .. (k - 1) /\ k - 1 \in 1 .. MaxDepth + 1 /\ (k - 1) - 1 = k - 2
      BY <1>2, <2>3, <2>5
    <3>2. k - 1 \notin K
      BY <2>2, <3>1
    <3>3. PICK f : Upto(f, k - 2)
      BY <3>1, <3>2
    <3> DEFINE h == [i \in 0 .. k - 1 |-> IF i = k - 1 THEN After(f[k - 2]) ELSE f[i]]
    <3>4. ASSUME NEW i \in 0 .. k - 1 PROVE h[i] = At(h, i)
      <4>1. CASE i = k - 1
        <5>1. i \in Nat \ {0} /\ i - 1 = k - 2 /\ k - 2 \in 0 .. k - 1 /\ k - 2 # k - 1
          BY <2>3, <2>5, <4>1
        <5>2. h[i - 1] = f[k - 2] /\ h[i] = After(f[k - 2])
          BY <4>1, <5>1
        <5> HIDE DEF h
        <5> QED BY <1>3, <5>1, <5>2
      <4>2. CASE i # k - 1 /\ i = 0
        <5>1. h[i] = f[i] /\ 0 \in 0 .. k - 2
          BY <2>3, <2>5, <4>2
        <5>2. f[i] = At(f, i)
          BY <3>3, <4>2, <5>1
        <5> HIDE DEF h
        <5> QED BY <1>3, <4>2, <5>1, <5>2
      <4>3. CASE i # k - 1 /\ i # 0
        <5>1. /\ i \in Nat \ {0} /\ i \in 0 .. k - 2 /\ i - 1 \in 0 .. k - 1
              /\ i - 1 # k - 1
          BY <2>3, <4>3
        <5>2. h[i] = f[i] /\ h[i - 1] = f[i - 1]
          BY <4>3, <5>1
        <5>3. f[i] = At(f, i)
          BY <3>3, <5>1
        <5> HIDE DEF h
        <5> QED BY <1>3, <5>1, <5>2, <5>3
      <4> QED BY <4>1, <4>2, <4>3
    <3>5. h = [i \in 0 .. k - 1 |-> h[i]]
      OBVIOUS
    <3> HIDE DEF h
    <3>6. Upto(h, k - 1)
      BY <3>4, <3>5
    <3> QED BY <2>3, <3>6
  <2> QED BY <2>4, <2>5
<1>5. Upto(W, MaxDepth)
  <2>1. MaxDepth \in 0 .. MaxDepth
    BY <1>2
  <2>2. \E f : Upto(f, MaxDepth)
    BY <1>4, <2>1
  <2> QED BY <2>2
<1> HIDE DEF W
<1>6. \A n \in 0 .. MaxDepth : Worth[n] = At(Worth, n)
  BY <1>1, <1>5
<1>7. Worth[0] = Base /\ \A n \in 1 .. MaxDepth : Worth[n] = After(Worth[n - 1])
  BY <1>2, <1>3, <1>6
<1> QED BY <1>7 DEF Base, After

\* Every worth is a value that a search of its depth could return.
LEMMA WorthIsFair ==
  ASSUME NEW g \in DOMAIN Games, NEW n \in 0 .. MaxDepth
  PROVE  Level(Worth[n][g], n)
<1> DEFINE K == {k \in 1 .. MaxDepth + 1 : ~ Level(Worth[k - 1][g], k - 1)}
<1>1. MaxDepth \in Nat
  BY Scores
<1> SUFFICES ASSUME K # {} PROVE FALSE
  <2>1. n + 1 \in 1 .. MaxDepth + 1 /\ (n + 1) - 1 = n
    BY <1>1
  <2>2. n + 1 \notin K
    OBVIOUS
  <2>3. Level(Worth[(n + 1) - 1][g], (n + 1) - 1)
    BY <2>1, <2>2
  <2> QED BY <2>1, <2>3
<1>2. MaxDepth + 1 \in Nat /\ K \subseteq 1 .. MaxDepth + 1
  BY <1>1
<1>3. PICK k \in K : \A j \in 1 .. (k - 1) : j \notin K
  <2> HIDE DEF K
  <2> QED BY <1>2, LeastIndex
<1>4. k \in 1 .. MaxDepth + 1 /\ ~ Level(Worth[k - 1][g], k - 1)
  OBVIOUS
<1>5. CASE k = 1
  <2>1. k - 1 = 0
    BY <1>5
  <2>2. Worth[0][g] = [p \in Positions |-> Evaluation(Games[g], p)]
    BY WorthIs
  <2>3. Level(Worth[0][g], 0)
    BY <2>2, EvaluationIsFair DEF Level
  <2> QED BY <1>4, <2>1, <2>3
<1>6. CASE k # 1
  <2>1. /\ k - 1 \in 1 .. (k - 1) /\ k - 1 \in 1 .. MaxDepth + 1 /\ (k - 1) - 1 = k - 2
        /\ k - 2 \in Nat /\ k - 2 < MaxDepth /\ (k - 2) + 1 = k - 1
        /\ k - 1 \in 1 .. MaxDepth
    BY <1>1, <1>4, <1>6
  <2>2. Level(Worth[k - 2][g], k - 2)
    BY <1>3, <2>1
  <2>3. Worth[k - 1][g] = Deeper(Games[g], Worth[k - 2][g])
    <3>1. Worth[k - 1] = [x \in DOMAIN Games |-> Deeper(Games[x], Worth[(k - 1) - 1][x])]
      <4> HIDE DEF K
      <4> QED BY <2>1, WorthIs
    <3> QED BY <2>1, <3>1
  <2>4. Level(Deeper(Games[g], Worth[k - 2][g]), (k - 2) + 1)
    <3> HIDE DEF K
    <3> QED BY <2>1, <2>2, DeeperFair
  <2> QED BY <1>4, <2>1, <2>3, <2>4
<1> QED BY <1>5, <1>6

\* The class of a position searched to depth n, and of one of its moves.
ClassAt(g, n, p) == Class(Worth[n][g][p])
MoveClass(g, n, p, m) == Class(MoveWorth(Games[g], Worth[n - 1][g], p, m))

LEMMA ClassRange ==
  ASSUME NEW g \in DOMAIN Games, NEW p \in Positions, NEW n \in 0 .. MaxDepth
  PROVE  /\ ClassAt(g, n, p) \in Int
         /\ -Infinity <= ClassAt(g, n, p) /\ ClassAt(g, n, p) <= Infinity
<1>1. Fair(Worth[n][g][p], n) /\ n \in Nat
  BY WorthIsFair, Scores DEF Level
<1> QED BY <1>1, FairScore DEF ClassAt

\* A move is in the class of its lowest reply.
LEMMA MoveIsLowest ==
  ASSUME NEW g \in DOMAIN Games, NEW p \in Positions, NEW m \in Moves,
         NEW n \in 1 .. MaxDepth
  PROVE  /\ MoveClass(g, n, p, m) \in Int
         /\ -Infinity <= MoveClass(g, n, p, m) /\ MoveClass(g, n, p, m) <= Infinity
         /\ \A r \in ToSet(Games[g].replies[p]) :
              MoveClass(g, n, p, m) <= ClassAt(g, n - 1, Games[g].next[p][m][r])
         /\ \A x \in Int :
              (\A r \in ToSet(Games[g].replies[p]) :
                 x <= ClassAt(g, n - 1, Games[g].next[p][m][r]))
              => x <= MoveClass(g, n, p, m)
<1> DEFINE level == Worth[n - 1][g]
           w == MoveWorth(Games[g], level, p, m)
           R == ToSet(Games[g].replies[p])
           q(r) == Games[g].next[p][m][r]
<1>1. /\ n - 1 \in Nat /\ n - 1 < MaxDepth /\ n - 1 \in 0 .. MaxDepth
      /\ (n - 1) + 1 = n /\ n \in Nat
  BY Scores
<1>2. Level(level, n - 1)
  BY <1>1, WorthIsFair
<1>3. \A r \in R : q(r) \in Positions
  BY GameLists, Zenon
<1>4. ASSUME NEW x \in R
      PROVE  /\ Backup(level[q(x)]).score \in Int
             /\ ClassAt(g, n - 1, q(x)) = Band(Backup(level[q(x)]).score)
  <2>1. Fair(level[q(x)], n - 1)
    BY <1>2, <1>3 DEF Level
  <2>2. ClassAt(g, n - 1, q(x)) = Band(level[q(x)].score)
    BY Zenon DEF ClassAt, Class
  <2> DEFINE y == q(x)
  <2> HIDE DEF level, q, w, R, y
  <2>3. /\ Backup(level[q(x)]).score \in Int
        /\ Band(Backup(level[q(x)]).score) = Band(level[q(x)].score)
    BY <1>1, <2>1, BackupIsFair
  <2>4. ClassAt(g, n - 1, q(x)) = Band(Backup(level[q(x)]).score)
    BY <2>2, <2>3
  <2> QED BY <2>3, <2>4
<1>5. /\ \E r \in R : w = Backup(level[q(r)])
      /\ \A r \in R : w.score <= Backup(level[q(r)]).score
  <2> HIDE DEF level
  <2> QED BY <1>1, <1>2, MoveWorthIs
<1>6. MoveClass(g, n, p, m) = Band(w.score)
  BY DEF MoveClass, Class
<1> HIDE DEF w, level, R, q
<1>7. w.score \in Int
  BY <1>4, <1>5
<1>8. \A r \in R : Band(w.score) <= ClassAt(g, n - 1, q(r))
  BY <1>4, <1>5, <1>7, BandOrder
<1>9. \E r \in R : Band(w.score) = ClassAt(g, n - 1, q(r))
  BY <1>4, <1>5
<1>10. \A x \in Int : (\A r \in R : x <= ClassAt(g, n - 1, q(r))) => x <= Band(w.score)
  BY <1>9
<1> QED BY <1>6, <1>7, <1>8, <1>10, BandOrder DEF R, q

\* A position is in the class of its highest move.
LEMMA NodeIsHighest ==
  ASSUME NEW g \in DOMAIN Games, NEW p \in Positions, NEW n \in 1 .. MaxDepth,
         Games[g].outcome[p] = "UNRESOLVED"
  PROVE  /\ \A m \in OwnMoves(Games[g], p) : MoveClass(g, n, p, m) <= ClassAt(g, n, p)
         /\ \A x \in Int :
              (\A m \in OwnMoves(Games[g], p) : MoveClass(g, n, p, m) <= x)
              => ClassAt(g, n, p) <= x
<1> DEFINE level == Worth[n - 1][g]
           M == OwnMoves(Games[g], p)
           w == Deeper(Games[g], level)[p]
           at(m) == MoveWorth(Games[g], level, p, m)
<1>1. /\ n - 1 \in Nat /\ n - 1 < MaxDepth /\ n - 1 \in 0 .. MaxDepth
      /\ (n - 1) + 1 = n /\ n \in Nat
  BY Scores
<1>2. Level(level, n - 1)
  BY <1>1, WorthIsFair
<1>3. M \subseteq Moves
  BY GameLists
<1>4. ClassAt(g, n, p) = Band(w.score)
  <2>1. Worth[n][g] = Deeper(Games[g], level)
    BY WorthIs
  <2> QED BY <2>1 DEF ClassAt, Class
<1>5. \A m \in M : MoveClass(g, n, p, m) = Band(at(m).score)
  BY DEF MoveClass, Class
<1>6. \A m \in M : at(m).score \in Int
  <2> HIDE DEF level
  <2> QED BY <1>1, <1>2, <1>3, MoveWorthFair, FairScore
<1>7. /\ \E m \in M : w = at(m)
      /\ \A m \in M : at(m).score <= w.score
  <2> HIDE DEF level
  <2> QED BY <1>1, <1>2, DeeperIs
<1> HIDE DEF w, level, at, M
<1>8. w.score \in Int
  BY <1>6, <1>7
<1>9. \A m \in M : Band(at(m).score) <= Band(w.score)
  BY <1>6, <1>7, <1>8, BandOrder
<1>10. \E m \in M : Band(w.score) = Band(at(m).score)
  BY <1>7
<1> QED BY <1>4, <1>5, <1>9, <1>10 DEF M

-----------------------------------------------------------------------------
(* What a frame knows. *)

\* A list of distinct moves stays one in another order.
LEMMA ReordersDistinct ==
  ASSUME NEW M, NEW old \in Seq(M), NEW new, Reorders(new, old), IsInjective(old)
  PROVE  IsInjective(new)
<1> DEFINE n == Len(old)
           S == ToSet(old)
<1>1. n \in Nat /\ DOMAIN old = 1 .. n /\ old \in [1 .. n -> S]
  BY SeqOfItself, LenProperties DEF Reorders
<1>2. new \in Seq(S) /\ Len(new) = n /\ ToSet(new) = S
  BY DEF Reorders
<1>3. DOMAIN new = 1 .. n /\ new \in [1 .. n -> S]
  BY <1>2, LenProperties
<1>4. old \in Surjection(1 .. n, S) /\ old \in Injection(1 .. n, S)
  BY <1>1 DEF Injection, Surjection, ToSet, IsInjective
<1>5. new \in Surjection(1 .. n, S)
  BY <1>2, <1>3 DEF Surjection, ToSet
<1> HIDE DEF S, n
<1>6. IsFiniteSet(1 .. n)
  BY <1>1, FS_Interval
<1>7. Cardinality(1 .. n) = Cardinality(S)
  BY <1>4, <1>6, FS_Surjection
<1>8. new \in Injection(1 .. n, S)
  BY <1>5, <1>6, <1>7, FS_SurjSameCardinalityImpliesInj
<1> QED BY <1>3, <1>8 DEF Injection, IsInjective

\* The position that reply c to the move at hand leads to.
Child(g, f, c) == Games[g].next[f.pos][f.order[f.next]][f.replies[c]]

\* The class of the move at hand.
MoveAtHand(g, f) == MoveClass(g, f.depth, f.pos, f.order[f.next])

\* A frame of iteration d searches an open position to the depth that is left,
\* and none of its moves and replies is missing.
Searches(g, d, f) ==
  /\ f.depth + Games[g].layer[f.pos] = d
  /\ Games[g].outcome[f.pos] = "UNRESOLVED"
  /\ ToSet(f.order) = OwnMoves(Games[g], f.pos)
  /\ ToSet(f.replies) = ToSet(Games[g].replies[f.pos])

\* alpha is what the caller or a move so far makes sure.
Windowed(f) ==
  /\ f.window[1] \in Int /\ f.beta \in Int /\ f.window[2] = f.beta
  /\ -Infinity <= f.window[1] /\ f.window[1] < f.beta /\ f.beta <= Infinity
  /\ f.alpha = IF f.best.score > f.window[1] THEN f.best.score ELSE f.window[1]

\* The best value so far is reached when it is above the window, and bounds
\* the moves so far when it is below.
BestKnown(g, f) ==
  /\ \/ Fair(f.best, f.depth)
     \/ f.next = 1 /\ f.best = Unresolved(-Infinity)
  /\ f.best.score > f.window[1]
       => Band(f.best.score) <= ClassAt(g, f.depth, f.pos)
  /\ f.best.score < f.beta =>
       \A j \in 1 .. f.next - 1 :
         MoveClass(g, f.depth, f.pos, f.order[j]) <= Band(f.best.score)

Node(g, d, f) == Searches(g, d, f) /\ Windowed(f) /\ BestKnown(g, f)

\* The worst value bounds the move at hand when it is below the window, ...
MoveBounded(g, f) ==
  f.worst.score < f.beta => MoveAtHand(g, f) <= Band(f.worst.score)

\* ... and is reached by the first n replies when it is above.
RepliesReach(g, f, n) ==
  \A c \in 1 .. n : Band(f.worst.score) <= ClassAt(g, f.depth - 1, Child(g, f, c))

\* A frame that waits for its next reply.
Waiting(g, f) ==
  /\ f.alpha < f.beta /\ Fair(f.worst, f.depth) /\ f.alpha < f.worst.score
  /\ MoveBounded(g, f) /\ RepliesReach(g, f, f.combo - 1)

\* A frame whose replies are all in.
Closing(g, f) ==
  /\ f.alpha < f.beta /\ Fair(f.worst, f.depth)
  /\ MoveBounded(g, f)
  /\ IF f.cutoff THEN f.worst.score <= f.alpha
                 ELSE f.alpha < f.worst.score /\ RepliesReach(g, f, Len(f.replies))

\* A frame whose moves are settled.
Settled(g, f) ==
  /\ Fair(f.best, f.depth)
  /\ \/ f.best.score >= f.beta
     \/ \A m \in OwnMoves(Games[g], f.pos) :
          MoveClass(g, f.depth, f.pos, m) <= Band(f.best.score)
  /\ f.best.score > f.window[1]
       => Band(f.best.score) <= ClassAt(g, f.depth, f.pos)

\* The value v with its bound is true of position p at depth n.
TrueOf(g, v, n, p) == Fair(v, n) /\ Honest(v, Worth[n][g][p])

\* The value v answers a call with window [a, b]: it is true of the position,
\* and if it is only a bound, then one that settles the window.
Answers(g, v, n, p, a, b) ==
  /\ TrueOf(g, v, n, p)
  /\ v.bound = "UPPER" => v.score <= a
  /\ v.bound = "LOWER" => v.score >= b

\* What SearchInv says of a frame, in numbers.
LEMMA FrameNumbers ==
  ASSUME NEW g \in DOMAIN Games, NEW d \in 0 .. MaxDepth, NEW f,
         IsFrame(Games[g], d, f)
  PROVE  /\ f.pos \in Positions /\ f.depth \in 1 .. MaxDepth
         /\ f.depth \in Nat /\ f.depth - 1 \in Nat /\ f.depth - 1 < MaxDepth
         /\ f.depth - 1 \in 0 .. MaxDepth /\ (f.depth - 1) + 1 = f.depth
         /\ Len(f.order) \in Nat /\ f.next \in 1 .. Len(f.order)
         /\ Len(f.replies) \in Nat /\ f.combo \in 1 .. Len(f.replies)
         /\ f.worst \in Value /\ f.best \in Value
         /\ f.worst.score \in Int /\ f.best.score \in Int
         /\ f.order \in Seq(Moves) /\ f.order[f.next] \in Moves
         /\ DOMAIN f.order = 1 .. Len(f.order)
         /\ \A c \in 1 .. Len(f.replies) :
              /\ f.replies[c] \in ToSet(Games[g].replies[f.pos])
              /\ Child(g, f, c) \in Positions
<1>1. /\ f.pos \in Positions /\ f.depth \in 1 .. d /\ MaxDepth \in Nat
      /\ f.own \in Seq(Moves) /\ f.order \in Seq(ToSet(f.own))
      /\ f.next \in 1 .. Len(f.order)
      /\ f.replies \in Seq(ToSet(Games[g].replies[f.pos]))
      /\ f.combo \in 1 .. Len(f.replies)
      /\ f.worst \in Value /\ f.best \in Value
  BY Scores DEF IsFrame
<1>2. f.order \in Seq(Moves)
  BY <1>1, SeqOfItself, SeqMonotonic
<1>3. Len(f.order) \in Nat /\ Len(f.replies) \in Nat
  BY <1>1, LenProperties
<1>4. f.order[f.next] \in Moves
  BY <1>1, <1>2, ElementOfSeq
<1>5. \A c \in 1 .. Len(f.replies) : f.replies[c] \in ToSet(Games[g].replies[f.pos])
  BY <1>1, ElementOfSeq
<1>6. \A c \in 1 .. Len(f.replies) : Child(g, f, c) \in Positions
  BY <1>1, <1>4, <1>5, GameLists DEF Child
<1>7. f.worst.score \in Int /\ f.best.score \in Int
  BY <1>1, ValueFields
<1>8. DOMAIN f.order = 1 .. Len(f.order)
  BY <1>2, LenProperties
<1>9. /\ f.depth \in 1 .. MaxDepth /\ f.depth \in Nat /\ f.depth - 1 \in Nat
      /\ f.depth - 1 < MaxDepth /\ f.depth - 1 \in 0 .. MaxDepth
      /\ (f.depth - 1) + 1 = f.depth
  <2> HIDE DEF IsFrame
  <2> QED BY <1>1
<1> QED BY <1>1, <1>2, <1>3, <1>4, <1>5, <1>6, <1>7, <1>8, <1>9, Zenon

\* A frame with the same position, order, window and best value is as good.
SameNode(h, f) ==
  /\ h.pos = f.pos /\ h.depth = f.depth /\ h.own = f.own /\ h.order = f.order
  /\ h.next = f.next /\ h.window = f.window /\ h.beta = f.beta
  /\ h.alpha = f.alpha /\ h.best = f.best

LEMMA NodeSame ==
  ASSUME NEW g, NEW d, NEW f, NEW h, Node(g, d, f), SameNode(h, f),
         ToSet(h.replies) = ToSet(f.replies)
  PROVE  Node(g, d, h)
BY DEF SameNode, Node, Searches, Windowed, BestKnown

\* A frame that starts on a move waits.
LEMMA StartsWaiting ==
  ASSUME NEW g \in DOMAIN Games, NEW d, NEW f, Node(g, d, f), f.alpha < f.beta,
         f.best.score \in Int,
         f.worst = Unresolved(Infinity), f.combo = 1, f.depth \in Nat
  PROVE  Waiting(g, f)
<1>1. Infinity \in Int /\ -Infinity < Infinity
  BY Scores
<1>2. /\ f.window[1] \in Int /\ f.beta \in Int /\ f.beta <= Infinity
      /\ f.alpha \in Int
  BY DEF Node, Windowed
<1>3. f.worst.score = Infinity
  BY DEF Unresolved
<1>4. Fair(f.worst, f.depth)
  <2>1. Unresolved(Infinity) \in Value
    BY <1>1, UnresolvedIsValue
  <2> QED BY <1>1, <2>1 DEF Fair, Unresolved
<1>5. MoveBounded(g, f)
  BY <1>1, <1>2, <1>3 DEF MoveBounded
<1>6. RepliesReach(g, f, f.combo - 1)
  BY DEF RepliesReach
<1> QED BY <1>1, <1>2, <1>3, <1>4, <1>5, <1>6 DEF Waiting

\* The heart of the pruning.  A frame takes the answer to a reply: its worst
\* value still bounds the move from above when below the window, and still is
\* reached by every reply so far when above alpha.  A value that gets into or
\* out of the window only by being one move further away is won or lost.
LEMMA TakesAnswer ==
  ASSUME NEW g \in DOMAIN Games, NEW d \in 0 .. MaxDepth, NEW f,
         IsFrame(Games[g], d, f), Node(g, d, f), Waiting(g, f),
         NEW v, Answers(g, v, f.depth - 1, Child(g, f, f.combo), f.alpha, ChildBeta(f)),
         NEW h, SameNode(h, f), h.replies = f.replies,
         h.worst = IF Backup(v).score < f.worst.score THEN Backup(v) ELSE f.worst
  PROVE  /\ Fair(h.worst, h.depth) /\ MoveBounded(g, h)
         /\ h.alpha < h.worst.score => RepliesReach(g, h, f.combo)
<1> DEFINE n == f.depth - 1
           p == Child(g, f, f.combo)
           w == Backup(v)
           class == ClassAt(g, n, p)
           move == MoveAtHand(g, f)
<1>1. /\ n \in Nat /\ n < MaxDepth /\ n \in 0 .. MaxDepth /\ n + 1 = f.depth
      /\ f.combo \in 1 .. Len(f.replies) /\ Len(f.replies) \in Nat
      /\ f.worst.score \in Int /\ f.best.score \in Int /\ p \in Positions
      /\ f.pos \in Positions /\ f.depth \in 1 .. MaxDepth
      /\ f.order[f.next] \in Moves
      /\ f.replies[f.combo] \in ToSet(Games[g].replies[f.pos])
  BY FrameNumbers
<1>2. /\ f.alpha \in Int /\ f.beta \in Int
  BY <1>1 DEF Node, Windowed
<1>3. /\ Fair(v, n) /\ Honest(v, Worth[n][g][p])
      /\ v.bound = "UPPER" => v.score <= f.alpha
      /\ v.bound = "LOWER" => v.score >= ChildBeta(f)
  BY DEF Answers, TrueOf
<1>4. /\ v.score \in Int /\ v.bound \in Bounds /\ Class(v) = Band(v.score)
  BY <1>1, <1>3, FairScore, ValueFields
<1>5. /\ Fair(w, f.depth) /\ w.score \in Int
      /\ Band(w.score) = Band(v.score)
      /\ w.score > v.score => Band(v.score) = -Infinity
      /\ w.score < v.score => Band(v.score) = Infinity
  <2> HIDE DEF n
  <2>1. /\ Fair(w, n + 1) /\ w.score \in Int /\ Band(w.score) = Band(v.score)
        /\ w.score > v.score => Band(v.score) = -Infinity
        /\ w.score < v.score => Band(v.score) = Infinity
    BY <1>1, <1>3, BackupIsFair
  <2> QED BY <1>1, <2>1, Zenon
<1>6. class \in Int /\ -Infinity <= class /\ class <= Infinity
  BY <1>1, ClassRange
<1>7. move \in Int /\ move <= class /\ move <= Infinity
  <2>1. /\ MoveClass(g, f.depth, f.pos, f.order[f.next]) \in Int
        /\ MoveClass(g, f.depth, f.pos, f.order[f.next]) <= Infinity
        /\ MoveClass(g, f.depth, f.pos, f.order[f.next]) <=
             ClassAt(g, f.depth - 1,
                     Games[g].next[f.pos][f.order[f.next]][f.replies[f.combo]])
    BY <1>1, MoveIsLowest
  <2> QED BY <2>1, Zenon DEF MoveAtHand, Child
<1>8. /\ v.bound = "EXACT" => class = Band(v.score)
      /\ v.bound = "UPPER" => class <= Band(v.score)
      /\ v.bound = "LOWER" => class >= Band(v.score)
  BY <1>3, <1>4, Zenon DEF Honest, ClassAt
<1>9. Infinity \in Int /\ -Infinity < Infinity
  BY Scores
<1>10. /\ Fair(f.worst, f.depth) /\ f.alpha < f.worst.score
       /\ f.worst.score < f.beta => move <= Band(f.worst.score)
       /\ \A c \in 1 .. f.combo - 1 :
            Band(f.worst.score) <= ClassAt(g, n, Child(g, f, c))
  BY DEF Waiting, MoveBounded, RepliesReach
<1>11. ChildBeta(f) = IF f.worst.score < f.beta THEN f.worst.score ELSE f.beta
  BY DEF ChildBeta, Lesser
<1>12. /\ MoveAtHand(g, h) = move /\ h.depth = f.depth /\ h.alpha = f.alpha
       /\ h.beta = f.beta
       /\ \A c : Child(g, h, c) = Child(g, f, c)
  BY DEF SameNode, MoveAtHand, Child
<1>13. \A c \in 1 .. f.combo : ClassAt(g, n, Child(g, f, c)) \in Int
  <2> SUFFICES ASSUME NEW c \in 1 .. f.combo
               PROVE  ClassAt(g, n, Child(g, f, c)) \in Int
    OBVIOUS
  <2>1. c \in 1 .. Len(f.replies)
    BY <1>1
  <2>2. Child(g, f, c) \in Positions
    BY <2>1, FrameNumbers
  <2> QED BY <1>1, <2>2, ClassRange
<1> HIDE DEF n, p, w, class, move
<1>14. h.worst = (IF w.score < f.worst.score THEN w ELSE f.worst) /\ h.worst.score \in Int
       /\ h.worst.score <= w.score /\ h.worst.score <= f.worst.score
  BY <1>1, <1>5 DEF w
<1>15. Fair(h.worst, h.depth)
  BY <1>5, <1>10, <1>12, <1>14
<1>16. h.worst.score < h.beta => move <= Band(h.worst.score)
  <2>1. CASE w.score < f.worst.score
    <3>1. h.worst = w
      BY <1>14, <2>1
    <3>2. CASE v.bound = "LOWER" /\ w.score < f.beta
      <4>1. ChildBeta(f) > w.score /\ ChildBeta(f) \in Int
        BY <1>1, <1>2, <1>5, <1>11, <2>1, <3>2
      <4>2. w.score < v.score
        BY <1>3, <1>4, <1>5, <3>2, <4>1
      <4> QED BY <1>5, <1>7, <3>1, <4>2
    <3>3. CASE v.bound # "LOWER"
      <4>1. class <= Band(w.score)
        BY <1>4, <1>5, <1>6, <1>8, <3>3 DEF Bounds
      <4>2. Band(w.score) \in Int
        BY <1>5, BandOrder
      <4> QED BY <1>6, <1>7, <3>1, <4>1, <4>2
    <3> QED BY <1>12, <3>1, <3>2, <3>3
  <2>2. CASE ~ (w.score < f.worst.score)
    BY <1>10, <1>12, <1>14, <2>2
  <2> QED BY <2>1, <2>2
<1>17. h.alpha < h.worst.score => \A c \in 1 .. f.combo : 
         Band(h.worst.score) <= ClassAt(g, n, Child(g, f, c))
  <2> SUFFICES ASSUME h.alpha < h.worst.score, NEW c \in 1 .. f.combo
               PROVE  Band(h.worst.score) <= ClassAt(g, n, Child(g, f, c))
    OBVIOUS
  <2>1. CASE c = f.combo
    <3>1. Child(g, f, c) = p
      BY <2>1 DEF p
    <3>2. Band(h.worst.score) <= Band(w.score) /\ Band(h.worst.score) \in Int
          /\ Band(w.score) \in Int
      BY <1>5, <1>14, BandOrder
    <3>3. Band(w.score) <= class
      <4>1. CASE v.bound = "UPPER"
        <5>1. w.score > v.score
          BY <1>2, <1>3, <1>4, <1>5, <1>12, <1>14, <4>1
        <5> QED BY <1>5, <1>6, <1>9, <5>1
      <4>2. CASE v.bound # "UPPER"
        BY <1>4, <1>5, <1>6, <1>8, <3>2, <4>2 DEF Bounds
      <4> QED BY <4>1, <4>2
    <3> QED BY <1>6, <3>1, <3>2, <3>3 DEF class
  <2>2. CASE c # f.combo
    <3>1. c \in 1 .. f.combo - 1
      BY <1>1, <2>2
    <3>2. Band(f.worst.score) <= ClassAt(g, n, Child(g, f, c))
      BY <1>10, <3>1
    <3>3. /\ Band(h.worst.score) <= Band(f.worst.score)
          /\ Band(h.worst.score) \in Int /\ Band(f.worst.score) \in Int
      BY <1>1, <1>14, BandOrder
    <3> QED BY <1>13, <3>2, <3>3
  <2> QED BY <2>1, <2>2
<1> QED BY <1>12, <1>15, <1>16, <1>17 DEF MoveBounded, RepliesReach, n

\* When all replies reach a value, the move does.
LEMMA AllRepliesReach ==
  ASSUME NEW g \in DOMAIN Games, NEW d \in 0 .. MaxDepth, NEW f,
         IsFrame(Games[g], d, f), Searches(g, d, f),
         RepliesReach(g, f, Len(f.replies))
  PROVE  Band(f.worst.score) <= MoveAtHand(g, f)
<1>1. /\ f.pos \in Positions /\ f.depth \in 1 .. MaxDepth /\ f.order[f.next] \in Moves
      /\ f.worst.score \in Int /\ Len(f.replies) \in Nat
  BY FrameNumbers
<1>2. Band(f.worst.score) \in Int
  BY <1>1, BandOrder
<1>3. DOMAIN f.replies = 1 .. Len(f.replies)
  BY LenProperties DEF IsFrame
<1>4. \A r \in ToSet(Games[g].replies[f.pos]) :
        Band(f.worst.score)
          <= ClassAt(g, f.depth - 1, Games[g].next[f.pos][f.order[f.next]][r])
  BY <1>3 DEF Searches, RepliesReach, Child, ToSet
<1>5. Band(f.worst.score) <= MoveClass(g, f.depth, f.pos, f.order[f.next])
  BY <1>1, <1>2, <1>4, MoveIsLowest
<1> QED BY <1>5 DEF MoveAtHand

\* A move is closed: the better of its worst value and the best so far is
\* reached if it is above the window and bounds the moves so far if below.
LEMMA ClosesMove ==
  ASSUME NEW g \in DOMAIN Games, NEW d \in 0 .. MaxDepth, NEW f,
         IsFrame(Games[g], d, f), Node(g, d, f), Closing(g, f),
         NEW h, h.pos = f.pos, h.depth = f.depth, h.own = f.own, h.order = f.order,
         h.replies = f.replies, h.window = f.window, h.beta = f.beta,
         NEW b, Fair(b, f.depth), b.score = f.worst.score,
         \/ h.best = b /\ f.best.score <= f.worst.score
         \/ h.best = f.best /\ f.worst.score <= f.best.score,
         h.alpha = IF h.best.score > f.alpha THEN h.best.score ELSE f.alpha,
         h.next = IF h.alpha >= f.beta \/ f.next = Len(f.order)
                  THEN f.next ELSE f.next + 1
  PROVE  /\ Node(g, d, h)
         /\ IF h.alpha >= f.beta \/ f.next = Len(f.order)
            THEN Settled(g, h) ELSE h.alpha < h.beta
<1> DEFINE x == h.best.score
           fb == f.best.score
           fw == f.worst.score
           low == f.window[1]
           class == ClassAt(g, f.depth, f.pos)
           move == MoveAtHand(g, f)
           done == h.alpha >= f.beta \/ f.next = Len(f.order)
<1>1. /\ f.pos \in Positions /\ f.depth \in 1 .. MaxDepth /\ f.depth \in Nat
      /\ Len(f.order) \in Nat /\ f.next \in 1 .. Len(f.order)
      /\ f.order \in Seq(Moves) /\ f.order[f.next] \in Moves
      /\ DOMAIN f.order = 1 .. Len(f.order)
      /\ fw \in Int /\ fb \in Int
  BY FrameNumbers
<1>2. /\ Searches(g, d, f)
      /\ low \in Int /\ f.beta \in Int /\ f.window[2] = f.beta
      /\ -Infinity <= low /\ low < f.beta /\ f.beta <= Infinity
      /\ f.alpha = IF fb > low THEN fb ELSE low
      /\ fb > low => Band(fb) <= class
      /\ fb < f.beta =>
           \A j \in 1 .. f.next - 1 :
             MoveClass(g, f.depth, f.pos, f.order[j]) <= Band(fb)
  BY DEF Node, Windowed, BestKnown
<1>3. /\ f.alpha < f.beta /\ Fair(f.worst, f.depth)
      /\ fw < f.beta => move <= Band(fw)
      /\ fw > f.alpha => Band(fw) <= move
  <2>1. CASE f.cutoff
    <3>1. /\ f.alpha < f.beta /\ Fair(f.worst, f.depth) /\ fw <= f.alpha
          /\ fw < f.beta => move <= Band(fw)
      BY <1>2, <2>1 DEF Closing, MoveBounded
    <3>2. f.alpha \in Int /\ fw \in Int
      BY <1>1, <1>2
    <3> QED BY <3>1, <3>2
  <2>2. CASE ~ f.cutoff
    BY <1>2, <2>2, AllRepliesReach DEF Closing, MoveBounded
  <2> QED BY <2>1, <2>2
<1>4. /\ f.order[f.next] \in OwnMoves(Games[g], f.pos)
      /\ OwnMoves(Games[g], f.pos) \subseteq Moves
      /\ Games[g].outcome[f.pos] = "UNRESOLVED"
      /\ ToSet(f.order) = OwnMoves(Games[g], f.pos)
  BY <1>1, <1>2, GameLists DEF Searches, ToSet
<1>5. /\ class \in Int /\ move \in Int /\ move <= class
      /\ \A m \in Moves : MoveClass(g, f.depth, f.pos, m) \in Int
  <2>1. f.depth \in 0 .. MaxDepth
    BY <1>1, Scores
  <2>2. class \in Int
    BY <1>1, <2>1, ClassRange
  <2>3. \A m \in Moves : MoveClass(g, f.depth, f.pos, m) \in Int
    BY <1>1, MoveIsLowest
  <2>4. MoveClass(g, f.depth, f.pos, f.order[f.next]) <= class
    BY <1>1, <1>4, NodeIsHighest
  <2> QED BY <1>1, <2>2, <2>3, <2>4 DEF MoveAtHand
<1>6. /\ x \in Int /\ x >= fb /\ x >= fw /\ (x = fb \/ x = fw)
      /\ Fair(h.best, h.depth)
  <2>1. fw > -Infinity /\ Infinity \in Int
    BY <1>3, Scores DEF Fair
  <2>2. f.best = Unresolved(-Infinity) => fb = -Infinity
    BY DEF Unresolved
  <2>3. Fair(f.best, f.depth) \/ f.best = Unresolved(-Infinity)
    BY DEF Node, BestKnown
  <2> QED BY <1>1, <2>1, <2>2, <2>3
<1> HIDE DEF fb, fw, low, class, move
<1>7. h.alpha = (IF x > low THEN x ELSE low) /\ h.alpha \in Int
  BY <1>1, <1>2, <1>6
<1>8. x > low => Band(x) <= class
  <2> SUFFICES ASSUME x > low PROVE Band(x) <= class
    OBVIOUS
  <2>1. CASE x = fb
    BY <1>2, <2>1
  <2>2. CASE x # fb
    <3>1. x = fw /\ fw > f.alpha
      BY <1>1, <1>2, <1>6, <2>2
    <3>2. Band(fw) \in Int
      BY <1>1, BandOrder
    <3> HIDE DEF x
    <3> QED BY <1>3, <1>5, <3>1, <3>2
  <2> QED BY <2>1, <2>2
<1>9. x < f.beta => \A j \in 1 .. f.next :
        MoveClass(g, f.depth, f.pos, f.order[j]) <= Band(x)
  <2> SUFFICES ASSUME x < f.beta, NEW j \in 1 .. f.next
               PROVE  MoveClass(g, f.depth, f.pos, f.order[j]) <= Band(x)
    OBVIOUS
  <2>1. /\ Band(fb) <= Band(x) /\ Band(fw) <= Band(x)
        /\ Band(fb) \in Int /\ Band(fw) \in Int /\ Band(x) \in Int
    BY <1>1, <1>6, BandOrder
  <2>2. f.order[j] \in Moves /\ MoveClass(g, f.depth, f.pos, f.order[j]) \in Int
    <3>1. j \in 1 .. Len(f.order)
      BY <1>1
    <3>2. f.order[j] \in Moves
      BY <1>1, <3>1, ElementOfSeq
    <3> QED BY <1>5, <3>2
  <2>3. CASE j = f.next
    <3>1. MoveClass(g, f.depth, f.pos, f.order[j]) = move
      BY <2>3 DEF move, MoveAtHand
    <3>2. move <= Band(fw)
      BY <1>1, <1>2, <1>3, <1>6
    <3> QED BY <1>5, <2>1, <3>1, <3>2
  <2>4. CASE j # f.next
    <3>1. j \in 1 .. f.next - 1
      BY <1>1, <2>4
    <3>2. fb < f.beta
      BY <1>1, <1>2, <1>6
    <3>3. MoveClass(g, f.depth, f.pos, f.order[j]) <= Band(fb)
      BY <1>2, <3>1, <3>2
    <3> QED BY <2>1, <2>2, <3>3
  <2> QED BY <2>3, <2>4
<1>10. Node(g, d, h)
  <2>1. Searches(g, d, h)
    BY <1>2 DEF Searches
  <2>2. Windowed(h)
    BY <1>2, <1>7 DEF Windowed, low
  <2>3. \A j \in 1 .. h.next - 1 : j \in 1 .. f.next
    BY <1>1
  <2>4. BestKnown(g, h)
    <3>1. h.best.score > h.window[1]
            => Band(h.best.score) <= ClassAt(g, h.depth, h.pos)
      BY <1>8 DEF low, class
    <3>2. h.best.score < h.beta =>
            \A j \in 1 .. h.next - 1 :
              MoveClass(g, h.depth, h.pos, h.order[j]) <= Band(h.best.score)
      BY <1>9, <2>3
    <3>3. Fair(h.best, h.depth)
      BY <1>6
    <3> HIDE DEF x
    <3> QED BY <3>1, <3>2, <3>3 DEF BestKnown
  <2> QED BY <2>1, <2>2, <2>4 DEF Node
<1>11. ASSUME done PROVE Settled(g, h)
  <2>1. x > h.window[1] => Band(x) <= ClassAt(g, h.depth, h.pos)
    BY <1>8 DEF low, class
  <2>2. x >= h.beta \/ \A m \in OwnMoves(Games[g], h.pos) :
                         MoveClass(g, h.depth, h.pos, m) <= Band(x)
    <3>1. CASE x >= f.beta
      BY <3>1
    <3>2. CASE x < f.beta
      <4>1. f.next = Len(f.order)
        BY <1>2, <1>6, <1>7, <1>11, <3>2
      <4>2. \A m \in ToSet(f.order) : \E j \in 1 .. f.next : m = f.order[j]
        BY <1>1, <4>1 DEF ToSet
      <4> QED BY <1>4, <1>9, <3>2, <4>2
    <3> QED BY <1>2, <1>6, <3>1, <3>2
  <2> QED BY <1>6, <2>1, <2>2 DEF Settled
<1>12. ASSUME ~ done PROVE h.alpha < h.beta
  BY <1>2, <1>7, <1>12
<1> QED BY <1>10, <1>11, <1>12

\* A settled frame answers its call: its best value with the bound of
\* NodeBound is true of its position and settles its window.
LEMMA NodeAnswers ==
  ASSUME NEW g \in DOMAIN Games, NEW d \in 0 .. MaxDepth, NEW f,
         IsFrame(Games[g], d, f), Node(g, d, f), Settled(g, f)
  PROVE  Answers(g, [f.best EXCEPT !.bound = NodeBound(f)], f.depth, f.pos,
                 f.window[1], f.window[2])
<1> DEFINE v == [f.best EXCEPT !.bound = NodeBound(f)]
           x == f.best.score
           low == f.window[1]
           class == ClassAt(g, f.depth, f.pos)
<1>1. /\ f.pos \in Positions /\ f.depth \in 1 .. MaxDepth /\ f.depth \in Nat
      /\ x \in Int /\ f.depth \in 0 .. MaxDepth
  BY FrameNumbers, Scores
<1>2. /\ low \in Int /\ f.beta \in Int /\ f.window[2] = f.beta /\ low < f.beta
      /\ Games[g].outcome[f.pos] = "UNRESOLVED"
  BY DEF Node, Windowed, Searches
<1>3. /\ Fair(f.best, f.depth)
      /\ \/ x >= f.beta
         \/ \A m \in OwnMoves(Games[g], f.pos) :
              MoveClass(g, f.depth, f.pos, m) <= Band(x)
      /\ x > low => Band(x) <= class
  BY DEF Settled
<1>4. /\ NodeBound(f) \in Bounds
      /\ NodeBound(f) = "UPPER" => x <= low
      /\ NodeBound(f) = "LOWER" => x > low /\ x >= f.beta
      /\ NodeBound(f) = "EXACT" => x > low /\ x < f.beta
  BY <1>1, <1>2 DEF NodeBound, Bounds
<1>5. class \in Int /\ Band(x) \in Int
  BY <1>1, ClassRange, BandOrder
<1>6. x < f.beta => class <= Band(x)
  BY <1>1, <1>2, <1>3, <1>5, NodeIsHighest
<1>7. Fair(v, f.depth) /\ v.score = x /\ v.bound = NodeBound(f)
  <2> DEFINE b == NodeBound(f)
  <2>1. b \in Bounds
    BY <1>4
  <2> HIDE DEF b
  <2>2. Fair([f.best EXCEPT !.bound = b], f.depth)
        /\ [f.best EXCEPT !.bound = b].score = f.best.score
        /\ [f.best EXCEPT !.bound = b].bound = b
    BY <1>3, <2>1, FairBound
  <2> QED BY <2>2 DEF b
<1>8. Class(v) = Band(x)
  BY <1>7 DEF Class
<1> HIDE DEF v
<1>9. Honest(v, Worth[f.depth][g][f.pos])
  <2>1. Class(Worth[f.depth][g][f.pos]) = class
    BY DEF ClassAt
  <2> HIDE DEF x, class
  <2>2. CASE NodeBound(f) = "EXACT"
    BY <1>3, <1>4, <1>5, <1>6, <1>7, <1>8, <2>1, <2>2 DEF Honest
  <2>3. CASE NodeBound(f) = "UPPER"
    <3>1. x < f.beta
      BY <1>1, <1>2, <1>4, <2>3
    <3> QED BY <1>6, <1>7, <1>8, <2>1, <2>3, <3>1 DEF Honest
  <2>4. CASE NodeBound(f) = "LOWER"
    BY <1>3, <1>4, <1>5, <1>7, <1>8, <2>1, <2>4 DEF Honest
  <2> QED BY <1>4, <2>2, <2>3, <2>4 DEF Bounds
<1> QED BY <1>1, <1>2, <1>4, <1>7, <1>9 DEF Answers, TrueOf, v

\* What the root publishes for the move at hand is true of the move.
LEMMA RootValueTrue ==
  ASSUME NEW g \in DOMAIN Games, NEW d \in 0 .. MaxDepth, NEW f,
         IsFrame(Games[g], d, f), Node(g, d, f), Closing(g, f), f.beta = Infinity
  PROVE  /\ Fair(RootValue(f), f.depth) /\ RootValue(f).score = f.worst.score
         /\ RootValue(f).bound = IF f.cutoff THEN "UPPER" ELSE "EXACT"
         /\ Honest(RootValue(f),
                   MoveWorth(Games[g], Worth[f.depth - 1][g], f.pos, f.order[f.next]))
<1> DEFINE b == IF f.cutoff THEN "UPPER" ELSE "EXACT"
           fw == f.worst.score
           move == MoveAtHand(g, f)
           v == RootValue(f)
<1>1. b \in Bounds /\ v = [f.worst EXCEPT !.bound = b]
  BY DEF RootValue, Bounds
<1>2. Fair(f.worst, f.depth)
  BY DEF Closing
<1> HIDE DEF b, v
<1>3. Fair(v, f.depth) /\ v.score = fw /\ v.bound = b
  BY <1>1, <1>2, FairBound
<1>4. /\ fw \in Int /\ fw <= Infinity /\ Infinity \in Int /\ f.alpha < f.beta
      /\ f.alpha \in Int
      /\ f.pos \in Positions /\ f.depth \in 1 .. MaxDepth /\ f.order[f.next] \in Moves
  BY <1>2, FrameNumbers, Scores DEF Closing, Fair, Node, Windowed
<1>5. move \in Int /\ move <= Infinity
  <2>1. /\ MoveClass(g, f.depth, f.pos, f.order[f.next]) \in Int
        /\ MoveClass(g, f.depth, f.pos, f.order[f.next]) <= Infinity
    BY <1>4, MoveIsLowest
  <2> QED BY <2>1 DEF MoveAtHand
<1>6. Band(fw) \in Int /\ Band(Infinity) = Infinity
  BY <1>4, BandOrder
<1>7. move <= Band(fw)
  <2>1. fw < Infinity => move <= Band(fw)
    BY DEF Closing, MoveBounded
  <2>2. CASE fw = Infinity
    BY <1>5, <1>6, <2>2
  <2> QED BY <1>4, <2>1, <2>2
<1>8. ~ f.cutoff => Band(fw) <= move
  BY AllRepliesReach DEF Closing, Node
<1>9. Class(v) = Band(fw)
  BY <1>3 DEF Class
<1>10. Class(MoveWorth(Games[g], Worth[f.depth - 1][g], f.pos, f.order[f.next])) = move
  BY DEF MoveAtHand, MoveClass
<1> HIDE DEF fw, move
<1>11. Honest(v, MoveWorth(Games[g], Worth[f.depth - 1][g], f.pos, f.order[f.next]))
  <2>1. CASE f.cutoff
    BY <1>3, <1>7, <1>9, <1>10, <2>1 DEF Honest, b
  <2>2. CASE ~ f.cutoff
    BY <1>3, <1>5, <1>6, <1>7, <1>8, <1>9, <1>10, <2>2 DEF Honest, b
  <2> QED BY <2>1, <2>2
<1> QED BY <1>3, <1>11 DEF v, b, fw

-----------------------------------------------------------------------------
(* The recursion. *)

\* A call for position p at depth n with window [a, b] is for the reply at hand.
Passes(g, f, p, n, a, b) ==
  p = Child(g, f, f.combo) /\ n = f.depth - 1 /\ a = f.alpha /\ b = ChildBeta(f)

\* The stack: the first frame searches the root with an open window, and each
\* frame answers the call of the frame below, which waits for it.
Chain(g, d, s) ==
  /\ \A k \in 1 .. Len(s) : Node(g, d, s[k])
  /\ \A k \in 1 .. Len(s) - 1 :
       /\ Waiting(g, s[k])
       /\ Passes(g, s[k], s[k + 1].pos, s[k + 1].depth,
                 s[k + 1].window[1], s[k + 1].window[2])
  /\ s # <<>> =>
       /\ s[1].pos = Games[g].root.position /\ s[1].depth = d
       /\ s[1].window = <<-Infinity, Infinity>>
       /\ IsInjective(s[1].order)

\* What the innermost frame has got to.
Stage(g, ph, f) ==
  /\ ph = "moves" => f.alpha < f.beta
  /\ ph \in {"enter", "replies", "returned"} => Waiting(g, f)
  /\ ph = "close" => Closing(g, f)
  /\ ph = "finish" => Settled(g, f)

\* What a table entry says is true, and no deeper than the iteration allows.
Entry(g, d, e) ==
  /\ e.hash \in Positions /\ e.value.bound = e.bound
  /\ e.depth + Games[g].layer[e.hash] <= d
  /\ TrueOf(g, e.value, e.depth, e.hash)
Entries(g, d, t) == \A s \in Slots : t.entries[s] # Vacant => Entry(g, d, t.entries[s])

\* What the root publishes is true of its moves.
RootTrue(g, d, values) ==
  \A m \in DOMAIN values :
    /\ Fair(values[m], d)
    /\ Honest(values[m],
              MoveWorth(Games[g], Worth[d - 1][g], Games[g].root.position, m))

\* Once a root move is closed, some exact value is as high as the best so far.
Led(f, values) ==
  IF DOMAIN values = {} THEN f.best = Unresolved(-Infinity)
  ELSE \E m \in DOMAIN values :
         values[m].bound = "EXACT" /\ values[m].score = f.best.score
Behind(f, values) ==
  \A m \in DOMAIN values : \E j \in 1 .. f.next - 1 : m = f.order[j]

\* The values of a finished iteration account for the whole tree.
Complete(g, n, values) ==
  \E m \in DOMAIN values :
    /\ values[m].bound = "EXACT"
    /\ Class(values[m]) = ClassAt(g, n, Games[g].root.position)

DepthInv == config \in Configs /\ depth \in 0 .. MaxDepth /\ Layered(Games[game])
ChainInv == Chain(game, depth, stack)
StageInv == stack # <<>> => Stage(game, phase, Top)
PassInv ==
  phase = "enter" =>
    /\ stack = <<>> => call.alpha = -Infinity /\ call.beta = Infinity
    /\ stack # <<>> => Passes(game, Top, call.pos, call.depth, call.alpha, call.beta)
AnswerInv ==
  phase = "returned" =>
    Answers(game, result.value, Top.depth - 1, Child(game, Top, Top.combo),
            Top.alpha, ChildBeta(Top))
EntriesInv == Entries(game, depth, table)
RootTrueInv == RootTrue(game, depth, rootValues)
LedInv ==
  stack # <<>> =>
    /\ Led(stack[1], rootValues)
    /\ Behind(stack[1], rootValues) \/ (phase = "finish" /\ Len(stack) = 1)
IteratedInv == phase = "iterated" /\ ~ Decided => Complete(game, depth, rootValues)
FinishedInv ==
  completed.depth > 0 /\ ~ Decided =>
    Complete(game, completed.depth, completed.values)

HonestInv ==
  /\ DepthInv /\ ChainInv /\ StageInv /\ PassInv /\ AnswerInv
  /\ EntriesInv /\ RootTrueInv /\ LedInv /\ IteratedInv /\ FinishedInv

\* A child is one layer further down, so that it is searched to just the depth
\* that its layer leaves, and it is not the root.
LEMMA ChildLayer ==
  ASSUME NEW g \in DOMAIN Games, NEW d \in 0 .. MaxDepth, NEW f,
         IsFrame(Games[g], d, f), Searches(g, d, f), Layered(Games[g])
  PROVE  /\ Child(g, f, f.combo) \in Positions
         /\ Games[g].layer[Child(g, f, f.combo)] \in Nat
         /\ (f.depth - 1) + Games[g].layer[Child(g, f, f.combo)] = d
         /\ Child(g, f, f.combo) # Games[g].root.position
<1>1. /\ f.pos \in Positions /\ f.depth \in 1 .. MaxDepth
      /\ f.combo \in 1 .. Len(f.replies) /\ Len(f.replies) \in Nat
      /\ f.next \in 1 .. Len(f.order) /\ DOMAIN f.order = 1 .. Len(f.order)
      /\ f.replies[f.combo] \in ToSet(Games[g].replies[f.pos])
      /\ Child(g, f, f.combo) \in Positions
  BY FrameNumbers
<1>2. f.order[f.next] \in OwnMoves(Games[g], f.pos)
  BY <1>1 DEF Searches, ToSet
<1>3. /\ Games[g].outcome[f.pos] = "UNRESOLVED"
      /\ f.depth + Games[g].layer[f.pos] = d
  BY DEF Searches
<1>4. Games[g].layer[f.pos] \in Nat /\ Games[g].layer[f.pos] < MaxDepth
  <2>1. Games[g].layer[f.pos] \in Nat
    BY <1>1 DEF Layered
  <2> QED BY <1>1, <1>3, <2>1, Scores
<1>5. Games[g].layer[Child(g, f, f.combo)] = Games[g].layer[f.pos] + 1
  <2>1. \A m \in OwnMoves(Games[g], f.pos), r \in ToSet(Games[g].replies[f.pos]) :
          Games[g].layer[Games[g].next[f.pos][m][r]] = Games[g].layer[f.pos] + 1
    BY <1>1, <1>3, <1>4 DEF Layered
  <2> QED BY <1>1, <1>2, <2>1, Zenon DEF Child
<1>6. Games[g].layer[Games[g].root.position] = 0
  BY DEF Layered
<1> DEFINE c == Child(g, f, f.combo)
           layer == Games[g].layer
           n == f.depth
<1>7. /\ layer[f.pos] \in Nat /\ layer[c] = layer[f.pos] + 1
      /\ n \in Int /\ n + layer[f.pos] = d /\ layer[Games[g].root.position] = 0
  BY <1>1, <1>3, <1>4, <1>5, <1>6
<1> HIDE DEF c, layer, n
<1>8. layer[c] \in Nat /\ (n - 1) + layer[c] = d /\ c # Games[g].root.position
  BY <1>7
<1> QED BY <1>1, <1>8 DEF c, layer, n

LEMMA ChainPut ==
  ASSUME NEW g, NEW d, NEW s, Chain(g, d, s), s # <<>>, NEW t, NEW f, LastIs(t, s, f),
         Node(g, d, f), f.pos = s[Len(s)].pos, f.depth = s[Len(s)].depth,
         f.window = s[Len(s)].window, f.order = s[Len(s)].order
  PROVE  /\ Chain(g, d, t) /\ t # <<>> /\ t[Len(t)] = f
         /\ t[1] = IF Len(s) = 1 THEN f ELSE s[1]
<1>1. /\ Len(s) \in Nat \ {0} /\ Len(t) = Len(s) /\ t[Len(s)] = f
      /\ \A k \in 1 .. Len(s) - 1 : t[k] = s[k]
      /\ t \in Seq(ToSet(t))
  BY DEF LastIs
<1>2. t # <<>>
  BY <1>1, EmptySeq
<1>3. t[1] = IF Len(s) = 1 THEN f ELSE s[1]
  BY <1>1
<1>4. \A k \in 1 .. Len(t) : Node(g, d, t[k])
  <2> SUFFICES ASSUME NEW k \in 1 .. Len(t) PROVE Node(g, d, t[k])
    OBVIOUS
  <2>1. CASE k = Len(s)
    BY <1>1, <2>1
  <2>2. CASE k # Len(s)
    BY <1>1, <2>2 DEF Chain
  <2> QED BY <2>1, <2>2
<1>5. \A k \in 1 .. Len(t) - 1 :
        /\ Waiting(g, t[k])
        /\ Passes(g, t[k], t[k + 1].pos, t[k + 1].depth,
                  t[k + 1].window[1], t[k + 1].window[2])
  <2> SUFFICES ASSUME NEW k \in 1 .. Len(s) - 1
               PROVE  /\ Waiting(g, t[k])
                      /\ Passes(g, t[k], t[k + 1].pos, t[k + 1].depth,
                                t[k + 1].window[1], t[k + 1].window[2])
    BY <1>1
  <2>1. /\ Waiting(g, s[k])
        /\ Passes(g, s[k], s[k + 1].pos, s[k + 1].depth,
                  s[k + 1].window[1], s[k + 1].window[2])
    BY DEF Chain
  <2>2. t[k] = s[k]
    BY <1>1
  <2>3. /\ t[k + 1].pos = s[k + 1].pos /\ t[k + 1].depth = s[k + 1].depth
        /\ t[k + 1].window = s[k + 1].window
    <3>1. CASE k + 1 = Len(s)
      BY <1>1, <3>1
    <3>2. CASE k + 1 # Len(s)
      <4>1. k + 1 \in 1 .. Len(s) - 1
        BY <1>1, <3>2
      <4> QED BY <1>1, <4>1
    <3> QED BY <3>1, <3>2
  <2> QED BY <2>1, <2>2, <2>3
<1>6. /\ t[1].pos = Games[g].root.position /\ t[1].depth = d
      /\ t[1].window = <<-Infinity, Infinity>> /\ IsInjective(t[1].order)
  <2>1. /\ s[1].pos = Games[g].root.position /\ s[1].depth = d
        /\ s[1].window = <<-Infinity, Infinity>> /\ IsInjective(s[1].order)
    BY DEF Chain
  <2> QED BY <1>3, <2>1
<1> QED BY <1>1, <1>2, <1>3, <1>4, <1>5, <1>6 DEF Chain

LEMMA ChainPush ==
  ASSUME NEW g, NEW d, NEW s, s \in Seq(ToSet(s)), Chain(g, d, s), NEW f, Node(g, d, f),
         IF s = <<>>
         THEN /\ f.pos = Games[g].root.position /\ f.depth = d
              /\ f.window = <<-Infinity, Infinity>> /\ IsInjective(f.order)
         ELSE /\ Waiting(g, s[Len(s)])
              /\ Passes(g, s[Len(s)], f.pos, f.depth, f.window[1], f.window[2])
  PROVE  LET t == Append(s, f)
         IN  /\ Chain(g, d, t) /\ t # <<>> /\ t[Len(t)] = f
             /\ t[1] = IF s = <<>> THEN f ELSE s[1]
<1> DEFINE t == Append(s, f)
<1>1. /\ t \in Seq(ToSet(t)) /\ Len(s) \in Nat /\ Len(t) = Len(s) + 1
      /\ t[Len(s) + 1] = f /\ \A k \in 1 .. Len(s) : t[k] = s[k]
  BY Push
<1>2. s = <<>> <=> Len(s) = 0
  BY EmptySeq
<1> HIDE DEF t
<1>3. t # <<>>
  BY <1>1, EmptySeq
<1>4. t[1] = IF s = <<>> THEN f ELSE s[1]
  BY <1>1, <1>2
<1>5. \A k \in 1 .. Len(t) : Node(g, d, t[k])
  <2> SUFFICES ASSUME NEW k \in 1 .. Len(t) PROVE Node(g, d, t[k])
    OBVIOUS
  <2>1. CASE k = Len(s) + 1
    BY <1>1, <2>1
  <2>2. CASE k # Len(s) + 1
    BY <1>1, <2>2 DEF Chain
  <2> QED BY <2>1, <2>2
<1>6. \A k \in 1 .. Len(t) - 1 :
        /\ Waiting(g, t[k])
        /\ Passes(g, t[k], t[k + 1].pos, t[k + 1].depth,
                  t[k + 1].window[1], t[k + 1].window[2])
  <2> SUFFICES ASSUME NEW k \in 1 .. Len(s)
               PROVE  /\ Waiting(g, t[k])
                      /\ Passes(g, t[k], t[k + 1].pos, t[k + 1].depth,
                                t[k + 1].window[1], t[k + 1].window[2])
    <3>1. Len(t) - 1 = Len(s)
      BY <1>1
    <3> QED BY <3>1
  <2>1. CASE k = Len(s)
    <3>1. s # <<>> /\ t[k] = s[Len(s)] /\ t[k + 1] = f
      BY <1>1, <1>2, <2>1
    <3> QED BY <3>1, Zenon
  <2>2. CASE k # Len(s)
    <3>1. k \in 1 .. Len(s) - 1 /\ k + 1 \in 1 .. Len(s)
      BY <1>1, <2>2
    <3>2. t[k] = s[k] /\ t[k + 1] = s[k + 1]
      BY <1>1, <3>1
    <3> QED BY <3>1, <3>2 DEF Chain
  <2> QED BY <2>1, <2>2
<1>7. /\ t[1].pos = Games[g].root.position /\ t[1].depth = d
      /\ t[1].window = <<-Infinity, Infinity>> /\ IsInjective(t[1].order)
  <2>1. CASE s = <<>>
    BY <1>4, <2>1
  <2>2. CASE s # <<>>
    BY <1>4, <2>2 DEF Chain
  <2> QED BY <2>1, <2>2
<1>8. Chain(g, d, t) /\ t[Len(t)] = f
  BY <1>1, <1>5, <1>6, <1>7 DEF Chain
<1> QED BY <1>3, <1>4, <1>8 DEF t

LEMMA ChainPop ==
  ASSUME NEW g, NEW d, NEW s, s \in Seq(ToSet(s)), s # <<>>, Chain(g, d, s)
  PROVE  LET t == SubSeq(s, 1, Len(s) - 1)
         IN  /\ Chain(g, d, t) /\ Len(s) \in Nat \ {0} /\ Len(t) = Len(s) - 1
             /\ t = <<>> <=> Len(s) = 1
             /\ Len(s) # 1 =>
                  /\ t[Len(t)] = s[Len(s) - 1] /\ t[1] = s[1]
                  /\ Waiting(g, s[Len(s) - 1])
                  /\ Passes(g, s[Len(s) - 1], s[Len(s)].pos, s[Len(s)].depth,
                            s[Len(s)].window[1], s[Len(s)].window[2])
<1> DEFINE t == SubSeq(s, 1, Len(s) - 1)
<1>1. /\ t \in Seq(ToSet(t)) /\ Len(s) \in Nat \ {0} /\ Len(t) = Len(s) - 1
      /\ \A k \in 1 .. Len(s) - 1 : t[k] = s[k]
  BY Pop
<1> HIDE DEF t
<1>2. t = <<>> <=> Len(s) = 1
  <2>1. t = <<>> <=> Len(t) = 0
    BY <1>1, EmptySeq
  <2> QED BY <1>1, <2>1
<1>3. \A k \in 1 .. Len(t) : Node(g, d, t[k])
  BY <1>1 DEF Chain
<1>4. \A k \in 1 .. Len(t) - 1 :
        /\ Waiting(g, t[k])
        /\ Passes(g, t[k], t[k + 1].pos, t[k + 1].depth,
                  t[k + 1].window[1], t[k + 1].window[2])
  <2> SUFFICES ASSUME NEW k \in 1 .. Len(t) - 1
               PROVE  /\ Waiting(g, t[k])
                      /\ Passes(g, t[k], t[k + 1].pos, t[k + 1].depth,
                                t[k + 1].window[1], t[k + 1].window[2])
    OBVIOUS
  <2>1. k \in 1 .. Len(s) - 1 /\ k + 1 \in 1 .. Len(s) - 1
    BY <1>1
  <2>2. t[k] = s[k] /\ t[k + 1] = s[k + 1]
    BY <1>1, <2>1
  <2> QED BY <2>1, <2>2 DEF Chain
<1>5. t # <<>> => t[1] = s[1]
  BY <1>1, <1>2
<1>6. Chain(g, d, t)
  BY <1>3, <1>4, <1>5 DEF Chain
<1>7. ASSUME Len(s) # 1
      PROVE  /\ t[Len(t)] = s[Len(s) - 1] /\ t[1] = s[1]
             /\ Waiting(g, s[Len(s) - 1])
             /\ Passes(g, s[Len(s) - 1], s[Len(s)].pos, s[Len(s)].depth,
                       s[Len(s)].window[1], s[Len(s)].window[2])
  <2>1. Len(s) - 1 \in 1 .. Len(s) - 1 /\ (Len(s) - 1) + 1 = Len(s)
    BY <1>1, <1>7
  <2>2. /\ Waiting(g, s[Len(s) - 1])
        /\ Passes(g, s[Len(s) - 1], s[(Len(s) - 1) + 1].pos, s[(Len(s) - 1) + 1].depth,
                  s[(Len(s) - 1) + 1].window[1], s[(Len(s) - 1) + 1].window[2])
    BY <2>1 DEF Chain
  <2> QED BY <1>1, <1>2, <1>5, <1>7, <2>1, <2>2
<1> QED BY <1>1, <1>2, <1>6, <1>7 DEF t

-----------------------------------------------------------------------------
(* Every step keeps it. *)

LEMMA HonestTop ==
  ASSUME SearchInv, HonestInv, stack # <<>>
  PROVE  /\ game \in DOMAIN Games /\ depth \in 0 .. MaxDepth
         /\ Layered(Games[game])
         /\ stack \in Seq(ToSet(stack)) /\ Ply \in Nat \ {0} /\ Ply = Len(stack)
         /\ IsFrame(Games[game], depth, Top) /\ Top = stack[Len(stack)]
         /\ Node(game, depth, Top) /\ Searches(game, depth, Top)
         /\ Stage(game, phase, Top)
         /\ Ply = 1 =>
              /\ Top = stack[1]
              /\ Top.pos = Games[game].root.position /\ Top.depth = depth
              /\ Top.window = <<-Infinity, Infinity>> /\ Top.beta = Infinity
              /\ IsInjective(Top.order)
<1>1. /\ game \in DOMAIN Games /\ depth \in 0 .. MaxDepth /\ Layered(Games[game])
      /\ stack \in Seq(ToSet(stack)) /\ Top = stack[Len(stack)] /\ Ply = Len(stack)
      /\ Stage(game, phase, Top)
  BY DEF SearchInv, StackInv, HonestInv, DepthInv, StageInv, Top, Ply
<1>2. Len(stack) \in Nat \ {0} /\ IsFrame(Games[game], depth, Top)
  BY TopFrame DEF SearchInv, G
<1>3. Node(game, depth, Top)
  BY <1>1, <1>2 DEF HonestInv, ChainInv, Chain
<1>4. Searches(game, depth, Top) /\ Top.window[2] = Top.beta
  BY <1>3 DEF Node, Windowed
<1>5. /\ stack[1].pos = Games[game].root.position /\ stack[1].depth = depth
      /\ stack[1].window = <<-Infinity, Infinity>> /\ IsInjective(stack[1].order)
  BY DEF HonestInv, ChainInv, Chain
<1>6. Ply = 1 => Top = stack[1]
  BY <1>1
<1>7. Ply = 1 => Top.beta = Infinity
  BY <1>4, <1>5, <1>6
<1> QED BY <1>1, <1>2, <1>3, <1>4, <1>5, <1>6, <1>7

\* What a step leaves alone stays true.
LEMMA HonestKept ==
  ASSUME SearchInv, HonestInv, UNCHANGED <<game, config, depth>>
  PROVE  /\ DepthInv'
         /\ stack' = stack => ChainInv'
         /\ table' = table => EntriesInv'
         /\ rootValues' = rootValues => RootTrueInv'
         /\ stack' = stack /\ rootValues' = rootValues /\ phase # "finish" => LedInv'
         /\ completed' = completed => FinishedInv'
         /\ phase' # "enter" => PassInv'
         /\ phase' # "returned" => AnswerInv'
         /\ phase' # "iterated" => IteratedInv'
         /\ stack' = <<>> => ChainInv' /\ StageInv' /\ LedInv'
<1>1. Decided' = Decided
  BY SameGame
<1>2. stack' = <<>> => ChainInv'
  <2>1. stack' = <<>> => Len(stack') = 0
    BY EmptySeq
  <2> QED BY <2>1 DEF ChainInv, Chain
<1>3. stack' = <<>> => StageInv' /\ LedInv'
  BY DEF StageInv, LedInv
<1>4. completed' = completed => FinishedInv'
  BY <1>1 DEF HonestInv, FinishedInv
<1>5. stack' = stack /\ rootValues' = rootValues /\ phase # "finish" => LedInv'
  BY DEF HonestInv, LedInv
<1> QED BY <1>2, <1>3, <1>4, <1>5
        DEF HonestInv, DepthInv, ChainInv, EntriesInv, RootTrueInv, PassInv,
            AnswerInv, IteratedInv

\* The answer of the table is of the depth that was asked for: an entry for the
\* position that is deeper would have been searched too near the root.
LEMMA EnterCutoffHonest ==
  ASSUME SearchInv, HonestInv, EnterCutoff PROVE HonestInv'
<1> DEFINE e == table.entries[Slot[call.pos]]
<1>1. phase = "enter" /\ stack # <<>> /\ Probe.result = "CUTOFF"
  BY ProbeIsValue DEF EnterCutoff
<1>2. /\ game \in DOMAIN Games /\ depth \in 0 .. MaxDepth /\ Layered(Games[game])
      /\ IsFrame(Games[game], depth, Top) /\ Searches(game, depth, Top)
      /\ Stage(game, phase, Top) /\ Ply # 0
  BY <1>1, HonestTop
<1>3. /\ UNCHANGED <<game, config, depth, stack, call, table, rootValues, completed>>
      /\ phase' = "returned" /\ result'.value = Probe.value
  BY <1>2 DEF EnterCutoff, Return
<1>4. Top' = Top
  BY <1>3 DEF Top
<1>5. /\ call.pos = Child(game, Top, Top.combo) /\ call.depth = Top.depth - 1
      /\ call.alpha = Top.alpha /\ call.beta = ChildBeta(Top)
  BY <1>1 DEF HonestInv, PassInv, Passes
<1>6. Probe = CoreTtProbe(table, call.pos, call.depth, call.alpha, call.beta)
  BY <1>1 DEF Probe, Miss
<1>7. /\ e # Vacant /\ e.hash = call.pos /\ Probe.value = e.value
      /\ Settles(e, call.depth, call.alpha, call.beta)
  BY <1>1, <1>6 DEF CoreTtProbe, Miss
<1>8. Slot[call.pos] \in Slots
  BY DEF SearchInv, CallInv, Slots
<1>9. e.depth \in 0 .. depth
  BY <1>7, <1>8 DEF SearchInv, ValueInv, TableInv
<1>10. Entry(game, depth, e)
  BY <1>7, <1>8 DEF HonestInv, EntriesInv, Entries
<1> HIDE DEF e
<1>11. e.depth = call.depth
  <2>1. /\ Games[game].layer[call.pos] \in Nat
        /\ call.depth + Games[game].layer[call.pos] = depth
    BY <1>2, <1>5, ChildLayer
  <2>2. e.depth + Games[game].layer[call.pos] <= depth /\ e.depth >= call.depth
    BY <1>7, <1>10 DEF Entry, Settles
  <2>3. call.depth \in Nat
    BY DEF SearchInv, CallInv
  <2> QED BY <1>2, <1>9, <2>1, <2>2, <2>3
<1>12. Answers(game, e.value, call.depth, call.pos, call.alpha, call.beta)
  <2>1. TrueOf(game, e.value, call.depth, call.pos) /\ e.value.bound = e.bound
    BY <1>7, <1>10, <1>11 DEF Entry
  <2> QED BY <1>7, <2>1 DEF Answers, Settles
<1>13. AnswerInv'
  BY <1>3, <1>4, <1>5, <1>7, <1>12 DEF AnswerInv
<1>14. StageInv'
  BY <1>1, <1>2, <1>3, <1>4 DEF StageInv, Stage
<1> QED BY <1>1, <1>3, <1>13, <1>14, HonestKept DEF HonestInv

\* A leaf is worth its evaluation at every depth.
LEMMA LeafWorth ==
  ASSUME NEW g \in DOMAIN Games, NEW n \in 0 .. MaxDepth, NEW p \in Positions,
         n = 0 \/ Games[g].outcome[p] # "UNRESOLVED"
  PROVE  Worth[n][g][p] = Evaluation(Games[g], p)
<1>1. CASE n = 0
  BY <1>1, WorthIs
<1>2. CASE n # 0
  <2>1. n \in 1 .. MaxDepth
    BY <1>2, Scores
  <2>2. Worth[n] = [h \in DOMAIN Games |-> Deeper(Games[h], Worth[n - 1][h])]
    BY <2>1, WorthIs
  <2> QED BY <1>2, <2>2 DEF Deeper
<1> QED BY <1>1, <1>2

LEMMA EnterLeafHonest ==
  ASSUME SearchInv, HonestInv, EnterLeaf PROVE HonestInv'
<1>1. /\ phase = "enter" /\ IsLeaf(call.pos, call.depth)
      /\ UNCHANGED <<game, config, depth, stack, call, table, rootValues, completed>>
      /\ result'.value = Evaluation(G, call.pos)
      /\ phase' = IF Ply = 0 THEN "iterated" ELSE "returned"
  BY DEF EnterLeaf, Return
<1>2. Ply = 0 <=> stack = <<>>
  BY EmptySeq DEF SearchInv, StackInv, Ply
<1>3. /\ game \in DOMAIN Games /\ call.pos \in Positions /\ call.depth \in 0 .. depth
      /\ depth \in 0 .. MaxDepth
  BY DEF SearchInv, StackInv, CallInv, HonestInv, DepthInv
<1>4. CASE stack = <<>>
  <2>1. Decided
    BY <1>1, <1>3, <1>4 DEF SearchInv, CallInv, IsLeaf, Decided
  <2>2. IteratedInv'
    BY <1>1, <2>1, SameGame DEF IteratedInv
  <2> QED BY <1>1, <1>2, <1>4, <2>2, HonestKept DEF HonestInv
<1>5. CASE stack # <<>>
  <2>1. phase' = "returned"
    BY <1>1, <1>2, <1>5
  <2>2. Top' = Top
    BY <1>1 DEF Top
  <2>3. /\ call.pos = Child(game, Top, Top.combo) /\ call.depth = Top.depth - 1
        /\ call.alpha = Top.alpha /\ call.beta = ChildBeta(Top)
    BY <1>1, <1>5 DEF HonestInv, PassInv, Passes
  <2>4. Stage(game, phase, Top)
    BY <1>5, HonestTop
  <2> DEFINE v == Evaluation(Games[game], call.pos)
  <2>5. Fair(v, 0) /\ v.bound = "EXACT"
    BY <1>3, EvaluationIsFair
  <2>6. call.depth \in Nat /\ call.depth \in 0 .. MaxDepth /\ 0 <= call.depth
    BY <1>3, Scores
  <2>7. Worth[call.depth][game][call.pos] = v
    <3>1. call.depth = 0 \/ Games[game].outcome[call.pos] # "UNRESOLVED"
      BY <1>1, <2>6 DEF IsLeaf, G
    <3> QED BY <1>3, <2>6, <3>1, LeafWorth
  <2>8. result'.value = v
    BY <1>1 DEF G
  <2> HIDE DEF v
  <2>9. Fair(v, call.depth)
    BY <2>5, <2>6, FairLonger
  <2>10. Answers(game, v, call.depth, call.pos, call.alpha, call.beta)
    BY <2>5, <2>7, <2>9 DEF Answers, TrueOf, Honest
  <2>11. AnswerInv'
    BY <1>1, <2>1, <2>2, <2>3, <2>8, <2>10 DEF AnswerInv
  <2>12. StageInv'
    BY <1>1, <2>1, <2>2, <2>4 DEF StageInv, Stage
  <2> QED BY <1>1, <2>1, <2>11, <2>12, HonestKept DEF HonestInv
<1> QED BY <1>4, <1>5

\* A new frame knows nothing yet, within the window it is given.
LEMMA NewNode ==
  ASSUME NEW g \in DOMAIN Games, NEW d, NEW f, Searches(g, d, f),
         NEW a \in Int, NEW b \in Int, -Infinity <= a, a < b, b <= Infinity,
         f.alpha = a, f.beta = b, f.window = <<a, b>>, f.next = 1,
         f.best = Unresolved(-Infinity)
  PROVE  Node(g, d, f) /\ f.alpha < f.beta
<1>1. f.best.score = -Infinity /\ -Infinity \in Int
  BY Scores DEF Unresolved
<1>2. Windowed(f)
  BY <1>1 DEF Windowed
<1>3. BestKnown(g, f)
  BY <1>1 DEF BestKnown
<1> QED BY <1>2, <1>3 DEF Node

\* The window passed on to a reply is open and within the caller's.
LEMMA PassedWindow ==
  ASSUME NEW g \in DOMAIN Games, NEW d \in 0 .. MaxDepth, NEW f,
         IsFrame(Games[g], d, f), Node(g, d, f), Waiting(g, f)
  PROVE  /\ f.alpha \in Int /\ ChildBeta(f) \in Int
         /\ -Infinity <= f.alpha /\ f.alpha < ChildBeta(f) /\ ChildBeta(f) <= Infinity
<1>1. /\ f.depth \in Nat /\ f.worst.score \in Int /\ f.best.score \in Int
  BY FrameNumbers
<1>2. f.worst.score <= Infinity /\ f.alpha < f.worst.score /\ f.alpha < f.beta
  BY DEF Waiting, Fair
<1>3. /\ f.window[1] \in Int /\ f.beta \in Int
      /\ -Infinity <= f.window[1] /\ f.beta <= Infinity
      /\ f.alpha = IF f.best.score > f.window[1] THEN f.best.score ELSE f.window[1]
  BY DEF Node, Windowed
<1>4. -Infinity <= f.alpha /\ f.alpha \in Int
  BY <1>1, <1>3, Scores
<1> QED BY <1>1, <1>2, <1>3, <1>4 DEF ChildBeta, Lesser

LEMMA EnterNodeHonest ==
  ASSUME SearchInv, HonestInv, EnterNode PROVE HonestInv'
<1> DEFINE own == IF Ply = 0 THEN G.allowed ELSE G.moves[call.pos]
           order == OrderMoves(Ply, own, Probe.best, call.preferred)
           replies == G.replies[call.pos]
           f == [pos |-> call.pos, depth |-> call.depth,
                 alpha |-> call.alpha, beta |-> call.beta,
                 window |-> <<call.alpha, call.beta>>, preferred |-> call.preferred,
                 own |-> own, order |-> order, next |-> 1,
                 replies |-> replies, combo |-> 1,
                 worst |-> Unresolved(Infinity), worstReply |-> NoMove,
                 cutoff |-> FALSE,
                 best |-> Unresolved(-Infinity), bestMove |-> order[1]]
<1>1. /\ phase = "enter" /\ ~ IsLeaf(call.pos, call.depth) /\ phase' = "moves"
      /\ UNCHANGED <<game, config, depth, call, result, table, rootValues, completed>>
      /\ stack' = Append(stack, f)
  BY DEF EnterNode
<1>2. /\ game \in DOMAIN Games /\ depth \in 0 .. MaxDepth /\ Layered(Games[game])
      /\ call.pos \in Positions /\ call.depth \in 0 .. depth
      /\ stack \in Seq(ToSet(stack))
  BY DEF SearchInv, StackInv, CallInv, HonestInv, DepthInv
<1>3. Games[game].outcome[call.pos] = "UNRESOLVED"
  BY <1>1, <1>2 DEF IsLeaf, G
<1>4. Ply = 0 <=> stack = <<>>
  BY EmptySeq DEF SearchInv, StackInv, Ply
<1>5. own \in Seq(Moves)
  BY <1>2, GameFacts DEF IsGame
<1>6. Reorders(order, own)
  <2> HIDE DEF own
  <2> QED BY <1>5, OrderMovesReorders DEF SearchInv, ValueInv, OrderingInv
<1>7. /\ call.alpha \in Int /\ call.beta \in Int /\ -Infinity <= call.alpha
      /\ call.alpha < call.beta /\ call.beta <= Infinity
      /\ call.depth + Games[game].layer[call.pos] = depth
      /\ ToSet(own) = OwnMoves(Games[game], call.pos)
      /\ IF stack = <<>>
         THEN /\ call.pos = Games[game].root.position /\ call.depth = depth
              /\ call.alpha = -Infinity /\ call.beta = Infinity
              /\ DOMAIN rootValues = {} /\ IsInjective(own)
         ELSE /\ Waiting(game, Top)
              /\ Passes(game, Top, call.pos, call.depth, call.alpha, call.beta)
  <2>1. CASE stack = <<>>
    <3>1. /\ call.pos = Games[game].root.position /\ call.depth = depth
          /\ DOMAIN rootValues = {}
      BY <1>1, <2>1 DEF SearchInv, CallInv, G
    <3>2. call.alpha = -Infinity /\ call.beta = Infinity
      BY <1>1, <2>1 DEF HonestInv, PassInv
    <3>3. own = Games[game].allowed
      BY <1>4, <2>1 DEF G
    <3>4. IsInjective(own)
      BY <1>2, <3>3, SearchAssumption DEF IsGame
    <3>5. Games[game].layer[call.pos] = 0
      BY <1>2, <3>1 DEF Layered
    <3>6. ToSet(own) = OwnMoves(Games[game], call.pos)
      BY <3>1, <3>3 DEF OwnMoves
    <3> QED BY <1>2, <2>1, <3>1, <3>2, <3>4, <3>5, <3>6, Scores
  <2>2. CASE stack # <<>>
    <3>1. /\ IsFrame(Games[game], depth, Top) /\ Node(game, depth, Top)
          /\ Searches(game, depth, Top) /\ Stage(game, phase, Top)
      BY <2>2, HonestTop
    <3>2. Waiting(game, Top)
      BY <1>1, <3>1 DEF Stage
    <3>3. Passes(game, Top, call.pos, call.depth, call.alpha, call.beta)
      BY <1>1, <2>2 DEF HonestInv, PassInv
    <3>4. /\ call.alpha \in Int /\ call.beta \in Int /\ -Infinity <= call.alpha
          /\ call.alpha < call.beta /\ call.beta <= Infinity
      BY <1>2, <3>1, <3>2, <3>3, PassedWindow DEF Passes
    <3>5. /\ call.depth + Games[game].layer[call.pos] = depth
          /\ call.pos # Games[game].root.position
      BY <1>2, <3>1, <3>3, ChildLayer DEF Passes
    <3>6. ToSet(own) = OwnMoves(Games[game], call.pos)
      BY <1>4, <2>2, <3>5 DEF OwnMoves, G
    <3> QED BY <2>2, <3>2, <3>3, <3>4, <3>5, <3>6
  <2> QED BY <2>1, <2>2
<1>8. ToSet(order) = OwnMoves(Games[game], call.pos)
  BY <1>6, <1>7 DEF Reorders
<1>9. stack = <<>> => IsInjective(order)
  <2> HIDE DEF own, order
  <2> QED BY <1>5, <1>6, <1>7, ReordersDistinct
<1>10. replies = Games[game].replies[call.pos]
  BY DEF G
<1> HIDE DEF own, order, replies
<1>11. /\ f.pos = call.pos /\ f.depth = call.depth /\ f.alpha = call.alpha
       /\ f.beta = call.beta /\ f.window = <<call.alpha, call.beta>> /\ f.next = 1
       /\ f.order = order /\ f.replies = replies /\ f.best = Unresolved(-Infinity)
  OBVIOUS
<1> HIDE DEF f
<1>12. Searches(game, depth, f)
  BY <1>3, <1>7, <1>8, <1>10, <1>11 DEF Searches
<1>13. Node(game, depth, f) /\ f.alpha < f.beta
  BY <1>2, <1>7, <1>11, <1>12, NewNode
<1>14. f.window[1] = call.alpha /\ f.window[2] = call.beta
  BY <1>11
<1>15. /\ Chain(game, depth, stack') /\ stack' # <<>> /\ stack'[Len(stack')] = f
       /\ stack'[1] = IF stack = <<>> THEN f ELSE stack[1]
  <2>1. Chain(game, depth, stack)
    BY DEF HonestInv, ChainInv
  <2>2. IF stack = <<>>
        THEN /\ f.pos = Games[game].root.position /\ f.depth = depth
             /\ f.window = <<-Infinity, Infinity>> /\ IsInjective(f.order)
        ELSE /\ Waiting(game, stack[Len(stack)])
             /\ Passes(game, stack[Len(stack)], f.pos, f.depth,
                       f.window[1], f.window[2])
    BY <1>7, <1>9, <1>11, <1>14 DEF Top
  <2> QED BY <1>1, <1>2, <1>13, <2>1, <2>2, ChainPush
<1>16. ChainInv' /\ StageInv'
  BY <1>1, <1>13, <1>15 DEF ChainInv, StageInv, Stage, Top
<1>17. LedInv'
  <2>1. CASE stack = <<>>
    <3>1. stack'[1] = f /\ DOMAIN rootValues = {}
      BY <1>7, <1>15, <2>1
    <3> QED BY <1>1, <1>11, <3>1 DEF LedInv, Led, Behind
  <2>2. CASE stack # <<>>
    <3>1. stack'[1] = stack[1]
      BY <1>15, <2>2
    <3> QED BY <1>1, <2>2, <3>1 DEF HonestInv, LedInv
  <2> QED BY <2>1, <2>2
<1> QED BY <1>1, <1>16, <1>17, HonestKept DEF HonestInv

\* A step on the innermost frame that leaves its moves and best value alone.
LEMMA TopReplaced ==
  ASSUME SearchInv, HonestInv, stack # <<>>,
         UNCHANGED <<game, config, depth, rootValues>>,
         NEW f, stack' = SetTop(f), SameNode(f, Top),
         ToSet(f.replies) = ToSet(Top.replies), phase # "finish",
         Stage(game, phase', f)
  PROVE  ChainInv' /\ StageInv' /\ LedInv'
<1>1. /\ stack \in Seq(ToSet(stack)) /\ Top = stack[Len(stack)]
      /\ Node(game, depth, Top) /\ Ply = Len(stack)
      /\ Ply = 1 => Top = stack[1]
  BY HonestTop
<1>2. Node(game, depth, f)
  BY <1>1, NodeSame
<1>3. LastIs(stack', stack, f)
  <2>1. LastIs([stack EXCEPT ![Len(stack)] = f], stack, f)
    BY <1>1, Put
  <2> QED BY <2>1 DEF SetTop
<1>4. /\ f.pos = stack[Len(stack)].pos /\ f.depth = stack[Len(stack)].depth
      /\ f.window = stack[Len(stack)].window /\ f.order = stack[Len(stack)].order
  BY <1>1 DEF SameNode
<1>5. Chain(game, depth, stack)
  BY DEF HonestInv, ChainInv
<1>6. /\ Chain(game, depth, stack') /\ stack' # <<>> /\ stack'[Len(stack')] = f
      /\ stack'[1] = IF Len(stack) = 1 THEN f ELSE stack[1]
  BY <1>2, <1>3, <1>4, <1>5, ChainPut
<1>7. ChainInv' /\ StageInv'
  BY <1>6 DEF ChainInv, StageInv, Top
<1>8. LedInv'
  <2>1. /\ stack'[1].best = stack[1].best /\ stack'[1].next = stack[1].next
        /\ stack'[1].order = stack[1].order
    BY <1>1, <1>6 DEF SameNode
  <2>2. Led(stack[1], rootValues) /\ Behind(stack[1], rootValues)
    BY DEF HonestInv, LedInv
  <2> QED BY <2>1, <2>2 DEF LedInv, Led, Behind
<1> QED BY <1>7, <1>8

LEMMA OpenMoveHonest ==
  ASSUME SearchInv, HonestInv, OpenMove PROVE HonestInv'
<1> DEFINE m == Top.order[Top.next]
           replies == IF Ply = 1 /\ config.ordering
                      THEN MoveToFront(Top.replies, ordering.rootReply[m])
                      ELSE Top.replies
           f == [Top EXCEPT !.replies = replies, !.combo = 1,
                            !.worst = Unresolved(Infinity),
                            !.worstReply = NoMove, !.cutoff = FALSE]
<1>1. /\ phase = "moves" /\ phase' = "replies" /\ stack # <<>>
      /\ UNCHANGED <<game, config, depth, call, result, table, rootValues, completed>>
  BY DEF OpenMove, SearchInv, StackInv, Inside
<1>2. /\ game \in DOMAIN Games /\ depth \in 0 .. MaxDepth
      /\ IsFrame(Games[game], depth, Top) /\ Node(game, depth, Top)
      /\ Stage(game, phase, Top)
  BY <1>1, HonestTop
<1>3. DOMAIN Top = FrameFields
  BY <1>2 DEF IsFrame
<1>4. stack' = SetTop(f)
  BY <1>3 DEF OpenMove, FrameFields
<1>5. Reorders(replies, Top.replies)
  <2>1. Top.replies \in Seq(ToSet(Games[game].replies[Top.pos]))
    BY <1>2 DEF IsFrame
  <2> QED BY <2>1, MoveToFrontReorders, SeqOfItself
<1> HIDE DEF replies, m
<1>6. ToSet(replies) = ToSet(Top.replies)
  BY <1>5 DEF Reorders
<1>7. /\ SameNode(f, Top) /\ f.replies = replies /\ f.combo = 1
      /\ f.worst = Unresolved(Infinity)
  BY <1>3 DEF SameNode, FrameFields
<1> HIDE DEF f
<1>8. Node(game, depth, f)
  BY <1>2, <1>6, <1>7, NodeSame
<1>9. Top.best.score \in Int /\ Top.depth \in Nat
  BY <1>2, FrameNumbers
<1>10. f.best.score \in Int /\ f.depth \in Nat /\ f.alpha < f.beta
  BY <1>1, <1>2, <1>7, <1>9 DEF SameNode, Stage
<1>11. Waiting(game, f)
  BY <1>2, <1>7, <1>8, <1>10, StartsWaiting
<1>12. Stage(game, phase', f)
  BY <1>1, <1>11 DEF Stage
<1>13. ChainInv' /\ StageInv' /\ LedInv'
  <2>1. phase # "finish" /\ ToSet(f.replies) = ToSet(Top.replies)
    BY <1>1, <1>6, <1>7
  <2> QED BY <1>1, <1>4, <1>7, <1>12, <2>1, TopReplaced, Zenon
<1> QED BY <1>1, <1>13, HonestKept DEF HonestInv

LEMMA OpenReplyHonest ==
  ASSUME SearchInv, HonestInv, OpenReply PROVE HonestInv'
<1>1. /\ phase = "replies" /\ phase' = "enter" /\ stack # <<>>
      /\ UNCHANGED <<game, config, depth, stack, result, table, rootValues, completed>>
  BY DEF OpenReply, SearchInv, StackInv, Inside
<1>2. Top' = Top /\ Stage(game, phase, Top)
  <2>1. Top' = Top
    BY <1>1, Zenon DEF Top
  <2> QED BY <1>1, <2>1, HonestTop, Zenon
<1>3. StageInv'
  <2>1. Waiting(game, Top)
    BY <1>1, <1>2 DEF Stage
  <2>2. Stage(game, "enter", Top)
    BY <2>1 DEF Stage
  <2> QED BY <1>1, <1>2, <2>2, Zenon DEF StageInv
<1>4. PassInv'
  <2> DEFINE passes == Passes(game, Top, call.pos, call.depth, call.alpha, call.beta)
  <2>1. /\ call'.pos = Child(game, Top, Top.combo) /\ call'.depth = Top.depth - 1
        /\ call'.alpha = Top.alpha /\ call'.beta = ChildBeta(Top)
    BY DEF OpenReply, Child, G
  <2>2. Passes(game, Top, call'.pos, call'.depth, call'.alpha, call'.beta)
    BY <2>1, Zenon DEF Passes
  <2>3. passes'
    BY <1>1, <1>2, <2>2, Zenon
  <2>4. stack' # <<>>
    BY <1>1
  <2> QED BY <2>3, <2>4, SMT DEF PassInv
<1>5. phase' # "returned" /\ phase' # "iterated" /\ phase # "finish"
  BY <1>1
<1> QED BY <1>1, <1>3, <1>4, <1>5, HonestKept, Zenon DEF HonestInv

LEMMA TakeReplyHonest ==
  ASSUME SearchInv, HonestInv, TakeReply PROVE HonestInv'
<1> DEFINE value == Backup(result.value)
           worse == value.score < Top.worst.score
           worst == IF worse THEN value ELSE Top.worst
           cutoff == worst.score <= Top.alpha
           last == Top.combo = Len(Top.replies)
           combo == IF cutoff \/ last THEN Top.combo ELSE Top.combo + 1
           reply == IF worse THEN Top.replies[Top.combo] ELSE Top.worstReply
           f == [Top EXCEPT !.worst = worst, !.worstReply = reply,
                            !.cutoff = cutoff, !.combo = combo]
<1>1. /\ phase = "returned" /\ stack # <<>>
      /\ UNCHANGED <<game, config, depth, call, result, table, rootValues, completed>>
      /\ phase' = IF cutoff \/ last THEN "close" ELSE "replies"
  BY DEF TakeReply, SearchInv, StackInv, Inside
<1>2. /\ game \in DOMAIN Games /\ depth \in 0 .. MaxDepth
      /\ IsFrame(Games[game], depth, Top) /\ Node(game, depth, Top)
      /\ Stage(game, phase, Top)
  BY <1>1, HonestTop
<1>3. DOMAIN Top = FrameFields
  BY <1>2 DEF IsFrame
<1>4. stack' = SetTop(f)
  BY <1>3 DEF TakeReply, FrameFields
<1>5. Waiting(game, Top)
  BY <1>1, <1>2 DEF Stage
<1>6. Answers(game, result.value, Top.depth - 1, Child(game, Top, Top.combo),
              Top.alpha, ChildBeta(Top))
  BY <1>1 DEF HonestInv, AnswerInv
<1>7. Top.combo \in 1 .. Len(Top.replies) /\ Len(Top.replies) \in Nat
      /\ Top.worst.score \in Int /\ Top.best.score \in Int
  BY <1>2, FrameNumbers
<1>8. worst = IF Backup(result.value).score < Top.worst.score
              THEN Backup(result.value) ELSE Top.worst
  OBVIOUS
<1>9. cutoff \in BOOLEAN /\ (cutoff <=> worst.score <= Top.alpha)
  OBVIOUS
<1>10. combo = IF cutoff \/ last THEN Top.combo ELSE Top.combo + 1
  OBVIOUS
<1> HIDE DEF value, worse, worst, cutoff, reply, combo
<1>11. /\ SameNode(f, Top) /\ f.replies = Top.replies /\ f.worst = worst
       /\ f.cutoff = cutoff /\ f.combo = combo
  BY <1>3 DEF SameNode, FrameFields
<1> HIDE DEF f
<1>12. /\ Fair(f.worst, f.depth) /\ MoveBounded(game, f)
       /\ f.alpha < f.worst.score => RepliesReach(game, f, Top.combo)
  BY <1>2, <1>5, <1>6, <1>8, <1>11, TakesAnswer
<1>13. f.alpha = Top.alpha /\ f.alpha < f.beta
  BY <1>5, <1>11 DEF SameNode, Waiting
<1>14. f.worst.score \in Int /\ f.alpha \in Int
  <2>1. f.worst.score \in Int
    BY <1>12, ValueFields DEF Fair
  <2>2. Top.alpha \in Int
    BY <1>2, <1>7 DEF Node, Windowed
  <2> QED BY <1>13, <2>1, <2>2
<1>15. ~ cutoff => f.alpha < f.worst.score
  BY <1>9, <1>11, <1>13, <1>14
<1>16. Stage(game, phase', f)
  <2>1. CASE cutoff
    <3>1. Closing(game, f)
      BY <1>9, <1>11, <1>12, <1>13, <2>1 DEF Closing
    <3> QED BY <1>1, <2>1, <3>1 DEF Stage
  <2>2. CASE ~ cutoff /\ last
    <3>1. Closing(game, f)
      BY <1>11, <1>12, <1>13, <1>15, <2>2 DEF Closing
    <3> QED BY <1>1, <2>2, <3>1 DEF Stage
  <2>3. CASE ~ cutoff /\ ~ last
    <3>1. f.combo - 1 = Top.combo
      BY <1>7, <1>10, <1>11, <2>3
    <3>2. Waiting(game, f)
      BY <1>12, <1>13, <1>15, <2>3, <3>1 DEF Waiting
    <3> QED BY <1>1, <2>3, <3>2 DEF Stage
  <2> QED BY <2>1, <2>2, <2>3
<1>17. ChainInv' /\ StageInv' /\ LedInv'
  BY <1>1, <1>4, <1>11, <1>16, TopReplaced
<1>18. phase' \in {"close", "replies"}
  BY <1>1
<1> QED BY <1>1, <1>17, <1>18, HonestKept DEF HonestInv

\* The root publishes value b for move m.
Published(new, values, m, b) ==
  /\ DOMAIN new = DOMAIN values \cup {m} /\ new[m] = b
  /\ \A x \in DOMAIN values : x # m => new[x] = values[x]

\* At the root, the best so far stays the score of some exact value: a move that
\* was cut off is no better than the best before it.
LEMMA LedOn ==
  ASSUME NEW g \in DOMAIN Games, NEW d \in 0 .. MaxDepth, NEW f,
         IsFrame(Games[g], d, f), Node(g, d, f), Closing(g, f),
         f.window[1] = -Infinity, IsInjective(f.order),
         NEW values, Led(f, values), Behind(f, values),
         NEW b, b.score = f.worst.score, b.bound = (IF f.cutoff THEN "UPPER" ELSE "EXACT"),
         NEW new, Published(new, values, f.order[f.next], b),
         NEW h, \/ h.best = b /\ f.best.score <= f.worst.score
                \/ h.best = f.best /\ f.worst.score <= f.best.score
  PROVE  Led(h, new)
<1> DEFINE m == f.order[f.next]
<1>1. /\ f.next \in 1 .. Len(f.order) /\ Len(f.order) \in Nat
      /\ DOMAIN f.order = 1 .. Len(f.order)
      /\ f.worst.score \in Int /\ f.best.score \in Int /\ f.depth \in Nat
  BY FrameNumbers
<1>2. -Infinity < f.worst.score /\ -Infinity \in Int
  BY Scores DEF Closing, Fair
<1>3. f.alpha = IF f.best.score > -Infinity THEN f.best.score ELSE -Infinity
  BY DEF Node, Windowed
<1>4. f.cutoff => f.worst.score <= f.alpha
  BY DEF Closing
<1>5. DOMAIN new # {} /\ m \in DOMAIN new /\ new[m] = b
  BY DEF Published
<1>6. CASE h.best = b /\ ~ f.cutoff
  BY <1>5, <1>6 DEF Led
<1>7. CASE ~ (h.best = b /\ ~ f.cutoff)
  <2>1. h.best.score = f.best.score /\ f.best.score # -Infinity
    <3>1. CASE h.best = f.best /\ f.worst.score <= f.best.score
      BY <1>1, <1>2, <3>1
    <3>2. CASE h.best = b /\ f.best.score <= f.worst.score /\ f.cutoff
      BY <1>1, <1>2, <1>3, <1>4, <3>2
    <3> QED BY <1>7, <3>1, <3>2
  <2>2. f.best # Unresolved(-Infinity)
    BY <2>1 DEF Unresolved
  <2>3. PICK x \in DOMAIN values : values[x].bound = "EXACT" /\ values[x].score = f.best.score
    BY <2>2 DEF Led
  <2>4. PICK j \in 1 .. f.next - 1 : x = f.order[j]
    BY DEF Behind
  <2>5. x # m
    BY <1>1, <2>4 DEF IsInjective
  <2>6. x \in DOMAIN new /\ new[x] = values[x]
    BY <2>5 DEF Published
  <2> QED BY <1>5, <2>1, <2>3, <2>6 DEF Led
<1> QED BY <1>6, <1>7

LEMMA CloseMoveHonest ==
  ASSUME SearchInv, HonestInv, CloseMove PROVE HonestInv'
<1>1. /\ phase = "close" /\ stack # <<>>
      /\ UNCHANGED <<game, config, depth, call, result, table, completed>>
  BY DEF CloseMove, SearchInv, StackInv, Inside
<1>2. PICK tieWon \in IF Top.worst.score = Top.best.score THEN BOOLEAN ELSE {FALSE} :
        LET m == Top.order[Top.next]
            atRoot == Ply = 1
            settled == IF atRoot THEN RootValue(Top) ELSE Top.worst
            best == IF Improves(Top, tieWon) THEN settled ELSE Top.best
            alpha == IF best.score > Top.alpha THEN best.score ELSE Top.alpha
            done == alpha >= Top.beta \/ Top.next = Len(Top.order)
        IN /\ stack' = SetTop([Top EXCEPT
                 !.best = best, !.alpha = alpha,
                 !.bestMove = IF Improves(Top, tieWon) THEN m ELSE @,
                 !.next = IF done THEN @ ELSE @ + 1])
           /\ IF atRoot
              THEN /\ rootValues' = [x \in DOMAIN rootValues \cup {m} |->
                                        IF x = m THEN settled ELSE rootValues[x]]
                   /\ LET s == SelectRoot(G.root, rootValues', Top.preferred, Top.own)
                      IN rootBest' = [move |-> s.move, reason |-> s.reason]
                   /\ ordering' = [ordering EXCEPT !.rootReply[m] = Top.worstReply]
              ELSE UNCHANGED <<rootValues, rootBest, ordering>>
           /\ phase' = IF done THEN "finish" ELSE "moves"
  BY Zenon DEF CloseMove
<1> DEFINE m == Top.order[Top.next]
           settled == IF Ply = 1 THEN RootValue(Top) ELSE Top.worst
           best == IF Improves(Top, tieWon) THEN settled ELSE Top.best
           bestMove == IF Improves(Top, tieWon) THEN m ELSE Top.bestMove
           alpha == IF best.score > Top.alpha THEN best.score ELSE Top.alpha
           done == alpha >= Top.beta \/ Top.next = Len(Top.order)
           next == IF done THEN Top.next ELSE Top.next + 1
           h == [Top EXCEPT !.best = best, !.alpha = alpha, !.bestMove = bestMove,
                            !.next = next]
<1>3. /\ game \in DOMAIN Games /\ depth \in 0 .. MaxDepth
      /\ stack \in Seq(ToSet(stack)) /\ Ply \in Nat \ {0} /\ Ply = Len(stack)
      /\ IsFrame(Games[game], depth, Top) /\ Top = stack[Len(stack)]
      /\ Node(game, depth, Top) /\ Stage(game, phase, Top)
      /\ Ply = 1 =>
           /\ Top = stack[1]
           /\ Top.pos = Games[game].root.position /\ Top.depth = depth
           /\ Top.window = <<-Infinity, Infinity>> /\ Top.beta = Infinity
           /\ IsInjective(Top.order)
  BY <1>1, HonestTop
<1>4. Closing(game, Top)
  BY <1>1, <1>3 DEF Stage
<1>5. DOMAIN Top = FrameFields
  BY <1>3 DEF IsFrame
<1>6. stack' = SetTop(h)
  BY <1>2, <1>5 DEF FrameFields
<1>7. /\ Fair(settled, Top.depth) /\ settled.score = Top.worst.score
      /\ Ply = 1 =>
           /\ settled.bound = IF Top.cutoff THEN "UPPER" ELSE "EXACT"
           /\ Honest(settled,
                     MoveWorth(Games[game], Worth[depth - 1][game],
                               Games[game].root.position, m))
  <2>1. CASE Ply = 1
    BY <1>3, <1>4, <2>1, RootValueTrue
  <2>2. CASE Ply # 1
    BY <1>4, <2>2 DEF Closing
  <2> QED BY <2>1, <2>2
<1>8. Top.worst.score \in Int /\ Top.best.score \in Int
      /\ Top.next \in 1 .. Len(Top.order) /\ Len(Top.order) \in Nat
  BY <1>3, FrameNumbers
<1>9. \/ best = settled /\ Top.best.score <= Top.worst.score
      \/ best = Top.best /\ Top.worst.score <= Top.best.score
  BY <1>8 DEF Improves
<1>10. /\ Ply = 1 => rootValues' = [x \in DOMAIN rootValues \cup {m} |->
                                       IF x = m THEN settled ELSE rootValues[x]]
       /\ Ply # 1 => rootValues' = rootValues
       /\ phase' = IF done THEN "finish" ELSE "moves"
  BY <1>2
<1>11. /\ alpha = IF best.score > Top.alpha THEN best.score ELSE Top.alpha
       /\ done <=> alpha >= Top.beta \/ Top.next = Len(Top.order)
       /\ next = IF done THEN Top.next ELSE Top.next + 1
       /\ m = Top.order[Top.next]
  OBVIOUS
<1> HIDE DEF m, settled, best, bestMove, alpha, done, next
<1>12. /\ h.pos = Top.pos /\ h.depth = Top.depth /\ h.own = Top.own
       /\ h.order = Top.order /\ h.replies = Top.replies
       /\ h.window = Top.window /\ h.beta = Top.beta
       /\ h.best = best /\ h.alpha = alpha /\ h.next = next
  BY <1>5 DEF FrameFields
<1> HIDE DEF h
<1>13. /\ Node(game, depth, h)
       /\ IF done THEN Settled(game, h) ELSE h.alpha < h.beta
  <2>1. \/ h.best = settled /\ Top.best.score <= Top.worst.score
        \/ h.best = Top.best /\ Top.worst.score <= Top.best.score
    BY <1>9, <1>12
  <2>2. /\ h.alpha = IF h.best.score > Top.alpha THEN h.best.score ELSE Top.alpha
        /\ h.next = IF h.alpha >= Top.beta \/ Top.next = Len(Top.order)
                    THEN Top.next ELSE Top.next + 1
    BY <1>11, <1>12
  <2>3. /\ Node(game, depth, h)
        /\ IF h.alpha >= Top.beta \/ Top.next = Len(Top.order)
           THEN Settled(game, h) ELSE h.alpha < h.beta
    BY <1>3, <1>4, <1>7, <1>12, <2>1, <2>2, ClosesMove
  <2> QED BY <1>11, <1>12, <2>3
<1>14. /\ Chain(game, depth, stack') /\ stack' # <<>> /\ stack'[Len(stack')] = h
       /\ stack'[1] = (IF Len(stack) = 1 THEN h ELSE stack[1])
       /\ Len(stack') = Len(stack)
  <2>1. LastIs([stack EXCEPT ![Len(stack)] = h], stack, h)
    BY <1>1, <1>3, Put
  <2>2. LastIs(stack', stack, h)
    BY <1>6, <2>1 DEF SetTop
  <2>3. /\ h.pos = stack[Len(stack)].pos /\ h.depth = stack[Len(stack)].depth
        /\ h.window = stack[Len(stack)].window /\ h.order = stack[Len(stack)].order
    BY <1>3, <1>12
  <2>4. Chain(game, depth, stack)
    BY DEF HonestInv, ChainInv
  <2>5. /\ Chain(game, depth, stack') /\ stack' # <<>> /\ stack'[Len(stack')] = h
        /\ stack'[1] = IF Len(stack) = 1 THEN h ELSE stack[1]
    BY <1>1, <1>13, <2>2, <2>3, <2>4, ChainPut
  <2> QED BY <2>2, <2>5 DEF LastIs
<1>15. ChainInv' /\ StageInv'
  BY <1>1, <1>10, <1>13, <1>14 DEF ChainInv, StageInv, Stage, Top
<1>16. RootTrueInv'
  <2>1. RootTrue(game, depth, rootValues)
    BY DEF HonestInv, RootTrueInv
  <2>2. CASE Ply = 1
    BY <1>1, <1>3, <1>7, <1>10, <2>1, <2>2 DEF RootTrueInv, RootTrue
  <2>3. CASE Ply # 1
    BY <1>1, <1>10, <2>1, <2>3 DEF RootTrueInv
  <2> QED BY <2>2, <2>3
<1>17. LedInv'
  <2>1. Led(stack[1], rootValues) /\ Behind(stack[1], rootValues)
    BY <1>1 DEF HonestInv, LedInv
  <2>2. CASE Ply # 1
    BY <1>3, <1>10, <1>14, <2>1, <2>2 DEF LedInv
  <2>3. CASE Ply = 1
    <3>1. Led(Top, rootValues) /\ Behind(Top, rootValues) /\ Top.window[1] = -Infinity
      BY <1>3, <2>1, <2>3
    <3>2. stack'[1] = h /\ Len(stack') = 1
      BY <1>3, <1>14, <2>3
    <3>3. Led(h, rootValues')
      <4> DEFINE new == rootValues'
      <4>1. Published(new, rootValues, Top.order[Top.next], settled)
        BY <1>10, <1>11, <2>3 DEF Published
      <4>2. \/ h.best = settled /\ Top.best.score <= Top.worst.score
            \/ h.best = Top.best /\ Top.worst.score <= Top.best.score
        BY <1>9, <1>12
      <4> HIDE DEF new
      <4>3. Led(h, new)
        BY <1>3, <1>4, <1>7, <2>3, <3>1, <4>1, <4>2, LedOn
      <4> QED BY <4>3 DEF new
    <3>4. Behind(h, rootValues') \/ phase' = "finish"
      <4>1. CASE done
        BY <1>10, <4>1
      <4>2. CASE ~ done
        <5>1. h.next - 1 = Top.next /\ h.order = Top.order
          BY <1>8, <1>11, <1>12, <4>2
        <5>2. \A x \in DOMAIN rootValues' : x = m \/ x \in DOMAIN rootValues
          BY <1>10, <2>3
        <5>3. Top.next \in 1 .. Top.next
          BY <1>8
        <5>4. \A x \in DOMAIN rootValues : \E j \in 1 .. Top.next : x = Top.order[j]
          BY <1>8, <3>1 DEF Behind
        <5> QED BY <1>11, <5>1, <5>2, <5>3, <5>4 DEF Behind
      <4> QED BY <4>1, <4>2
    <3> QED BY <3>2, <3>3, <3>4 DEF LedInv
  <2> QED BY <2>2, <2>3
<1>18. phase' \in {"finish", "moves"}
  BY <1>10
<1> QED BY <1>1, <1>15, <1>16, <1>17, <1>18, HonestKept DEF HonestInv

\* What a finished node stores and returns is true; at the root, the values of
\* all moves account for the whole tree.
LEMMA FinishNodeHonest ==
  ASSUME SearchInv, HonestInv, FinishNode PROVE HonestInv'
<1> DEFINE b == NodeBound(Top)
           v == [Top.best EXCEPT !.bound = b]
           m == Top.bestMove
           below == SubSeq(stack, 1, Len(stack) - 1)
           caller == stack[Len(stack) - 1]
<1>1. /\ phase = "finish" /\ stack # <<>>
      /\ UNCHANGED <<game, config, depth, call, rootValues, completed>>
      /\ phase' = IF Ply = 1 THEN "iterated" ELSE "returned"
      /\ Ply # 1 => result'.value = v
      /\ stack' = SubSeq(stack, 1, Ply - 1)
      /\ table' = IF InTable(Top.pos, Top.depth)
                  THEN CoreTtStore(table, Top.pos, Top.depth, v, b, m)
                  ELSE table
  BY DEF FinishNode, SearchInv, StackInv, Inside
<1>2. /\ game \in DOMAIN Games /\ depth \in 0 .. MaxDepth /\ depth \in Int
      /\ stack \in Seq(ToSet(stack)) /\ Ply \in Nat \ {0} /\ Ply = Len(stack)
      /\ IsFrame(Games[game], depth, Top) /\ Top = stack[Len(stack)]
      /\ Node(game, depth, Top) /\ Searches(game, depth, Top)
      /\ Stage(game, phase, Top)
      /\ Ply = 1 =>
           /\ Top = stack[1]
           /\ Top.pos = Games[game].root.position /\ Top.depth = depth
           /\ Top.window = <<-Infinity, Infinity>> /\ Top.beta = Infinity
  BY <1>1, HonestTop
<1>3. Settled(game, Top)
  BY <1>1, <1>2 DEF Stage
<1>4. Answers(game, v, Top.depth, Top.pos, Top.window[1], Top.window[2])
  BY <1>2, <1>3, NodeAnswers
<1>5. Top.pos \in Positions /\ Top.depth \in 1 .. MaxDepth /\ Top.depth \in Nat
      /\ Top.best \in Value /\ Top.best.score \in Int
  BY <1>2, FrameNumbers
<1>6. b \in Bounds /\ v.bound = b /\ [v EXCEPT !.bound = b] = v
  BY <1>5 DEF NodeBound, Bounds, Value
<1> HIDE DEF b, v, m
<1>7. EntriesInv'
  <2>1. /\ DOMAIN table = {"entries", "generation"} /\ DOMAIN table.entries = Slots
        /\ Entries(game, depth, table)
    BY DEF SearchInv, ValueInv, TableInv, HonestInv, EntriesInv
  <2> DEFINE e == [hash |-> Top.pos, value |-> [v EXCEPT !.bound = b],
                   depth |-> Top.depth, generation |-> table.generation,
                   bound |-> b, best |-> m]
  <2>2. Entry(game, depth, e)
    <3>1. TrueOf(game, v, Top.depth, Top.pos)
      BY <1>4 DEF Answers
    <3>2. Top.depth + Games[game].layer[Top.pos] <= depth
      BY <1>2 DEF Searches
    <3>3. /\ e.hash = Top.pos /\ e.value = v /\ e.depth = Top.depth /\ e.bound = b
      BY <1>6
    <3> HIDE DEF e
    <3> QED BY <1>5, <1>6, <3>1, <3>2, <3>3 DEF Entry
  <2>3. CASE table' = table
    BY <1>1, <2>1, <2>3 DEF EntriesInv
  <2>4. CASE table' # table
    <3>1. table' = [table EXCEPT !.entries[Slot[Top.pos]] = e]
      BY <1>1, <2>4 DEF CoreTtStore
    <3> HIDE DEF e
    <3>2. \A s \in Slots : table'.entries[s] = e \/ table'.entries[s] = table.entries[s]
      BY <2>1, <3>1
    <3> QED BY <1>1, <2>1, <2>2, <3>2 DEF EntriesInv, Entries
  <2> QED BY <2>3, <2>4
<1>8. /\ Chain(game, depth, stack')
      /\ stack' = <<>> <=> Ply = 1
      /\ Ply # 1 =>
           /\ stack'[Len(stack')] = caller /\ stack'[1] = stack[1]
           /\ Waiting(game, caller)
           /\ Passes(game, caller, Top.pos, Top.depth, Top.window[1], Top.window[2])
  <2>1. Chain(game, depth, stack)
    BY DEF HonestInv, ChainInv
  <2>2. stack' = below
    BY <1>1, <1>2
  <2>3. /\ Chain(game, depth, below)
        /\ below = <<>> <=> Len(stack) = 1
        /\ Len(stack) # 1 =>
             /\ below[Len(below)] = caller /\ below[1] = stack[1]
             /\ Waiting(game, caller)
             /\ Passes(game, caller, stack[Len(stack)].pos, stack[Len(stack)].depth,
                       stack[Len(stack)].window[1], stack[Len(stack)].window[2])
    BY <1>1, <1>2, <2>1, ChainPop
  <2> HIDE DEF below, caller
  <2> QED BY <1>2, <2>2, <2>3
<1> HIDE DEF caller
<1>9. CASE Ply # 1
  <2>1. Top' = caller /\ stack' # <<>>
    BY <1>8, <1>9 DEF Top
  <2>2. ChainInv' /\ StageInv'
    BY <1>1, <1>8, <1>9, <2>1 DEF ChainInv, StageInv, Stage
  <2>3. AnswerInv'
    BY <1>1, <1>4, <1>8, <1>9, <2>1 DEF AnswerInv, Passes
  <2>4. LedInv'
    BY <1>1, <1>2, <1>8, <1>9 DEF HonestInv, LedInv
  <2> QED BY <1>1, <1>7, <1>9, <2>2, <2>3, <2>4, HonestKept DEF HonestInv
<1>10. CASE Ply = 1
  <2> DEFINE class == ClassAt(game, depth, Games[game].root.position)
  <2>1. Led(Top, rootValues) /\ DOMAIN rootValues # {}
    BY <1>1, <1>2, <1>10 DEF HonestInv, LedInv, SearchInv, IterationInv
  <2>2. PICK x \in DOMAIN rootValues :
          rootValues[x].bound = "EXACT" /\ rootValues[x].score = Top.best.score
    BY <2>1 DEF Led
  <2>3. Class(rootValues[x]) = Band(Top.best.score)
    BY <2>2 DEF Class
  <2>4. /\ -Infinity < Top.best.score /\ Top.best.score <= Infinity
        /\ Top.window[1] = -Infinity
    BY <1>2, <1>3, <1>10 DEF Settled, Fair
  <2>5. Band(Top.best.score) <= class
    BY <1>2, <1>3, <1>10, <2>4 DEF Settled
  <2>6. class <= Band(Top.best.score)
    <3>1. CASE Top.best.score >= Infinity
      <4>1. Top.best.score = Infinity
        BY <1>5, <2>4, <3>1, Scores
      <4> QED BY <1>2, <1>5, <1>10, <4>1, BandOrder, ClassRange
    <3>2. CASE ~ (Top.best.score >= Infinity)
      <4>1. \A y \in OwnMoves(Games[game], Top.pos) :
              MoveClass(game, Top.depth, Top.pos, y) <= Band(Top.best.score)
        BY <1>2, <1>3, <1>10, <3>2 DEF Settled
      <4>2. Band(Top.best.score) \in Int
        BY <1>5, BandOrder
      <4>3. ClassAt(game, Top.depth, Top.pos) <= Band(Top.best.score)
        BY <1>2, <1>5, <4>1, <4>2, NodeIsHighest DEF Searches
      <4> QED BY <1>2, <1>10, <4>3
    <3> QED BY <3>1, <3>2
  <2>7. class \in Int /\ Band(Top.best.score) \in Int
    BY <1>2, <1>5, <1>10, ClassRange, BandOrder
  <2>8. Complete(game, depth, rootValues)
    BY <2>2, <2>3, <2>5, <2>6, <2>7 DEF Complete
  <2>9. IteratedInv'
    BY <1>1, <2>8 DEF IteratedInv
  <2> QED BY <1>1, <1>7, <1>8, <1>10, <2>9, HonestKept DEF HonestInv
<1> QED BY <1>9, <1>10

LEMMA StartIterationHonest ==
  ASSUME SearchInv, HonestInv, StartIteration PROVE HonestInv'
<1>1. /\ phase = "iterate" /\ phase' = "enter" /\ stack = <<>> /\ stack' = <<>>
      /\ UNCHANGED <<game, config, table, completed>>
      /\ depth \in Nat /\ depth' = depth + 1 /\ rootValues' = << >>
      /\ depth < DeepestIteration
      /\ call'.alpha = -Infinity /\ call'.beta = Infinity
  BY DEF StartIteration, SearchInv, StackInv, Outside
<1>2. DOMAIN rootValues' = {}
  BY <1>1, EmptySeq, LenProperties
<1>3. Len(stack') = 0
  BY <1>1, EmptySeq
<1>4. DepthInv'
  <2>1. config \in Configs /\ Layered(Games[game])
    BY DEF HonestInv, DepthInv
  <2>2. DeepestIteration \in 0 .. MaxDepth
    BY <2>1, SearchAssumption DEF DeepestIteration
  <2>3. depth' \in 0 .. MaxDepth
    BY <1>1, <2>2, Scores
  <2> QED BY <1>1, <2>1, <2>3 DEF DepthInv
<1>5. ChainInv' /\ StageInv' /\ LedInv'
  BY <1>1, <1>3 DEF ChainInv, Chain, StageInv, LedInv
<1>6. EntriesInv'
  <2> SUFFICES ASSUME NEW s \in Slots, table.entries[s] # Vacant
               PROVE  Entry(game, depth', table.entries[s])
    BY <1>1 DEF EntriesInv, Entries
  <2> DEFINE e == table.entries[s]
  <2>1. Entry(game, depth, e) /\ e.depth \in 0 .. depth
    BY DEF HonestInv, EntriesInv, Entries, SearchInv, ValueInv, TableInv
  <2>2. Games[game].layer[e.hash] \in Nat
    BY <2>1 DEF HonestInv, DepthInv, Layered, Entry
  <2> HIDE DEF e
  <2>3. e.depth + Games[game].layer[e.hash] <= depth'
    BY <1>1, <2>1, <2>2 DEF Entry
  <2>4. Entry(game, depth', e)
    BY <2>1, <2>3 DEF Entry
  <2> QED BY <2>4 DEF e
<1>7. RootTrueInv'
  BY <1>2 DEF RootTrueInv, RootTrue
<1>8. PassInv' /\ AnswerInv' /\ IteratedInv'
  BY <1>1 DEF PassInv, AnswerInv, IteratedInv
<1>9. FinishedInv'
  BY <1>1, SameGame DEF HonestInv, FinishedInv
<1> QED BY <1>4, <1>5, <1>6, <1>7, <1>8, <1>9 DEF HonestInv

LEMMA InterruptHonest ==
  ASSUME SearchInv, HonestInv, Interrupt PROVE HonestInv'
<1>1. /\ phase' = "interrupted" /\ stack' = <<>>
      /\ UNCHANGED <<game, config, depth, table, rootValues, completed>>
  BY DEF Interrupt
<1> QED BY <1>1, HonestKept DEF HonestInv

LEMMA CompleteIterationHonest ==
  ASSUME SearchInv, HonestInv, CompleteIteration PROVE HonestInv'
<1>1. /\ phase = "iterated" /\ phase' = "between" /\ stack' = <<>>
      /\ UNCHANGED <<game, config, depth, table, rootValues>>
      /\ completed'.depth = depth /\ completed'.values = rootValues
  BY DEF CompleteIteration, SearchInv, StackInv, Outside
<1>2. FinishedInv'
  BY <1>1, SameGame DEF HonestInv, IteratedInv, FinishedInv
<1> QED BY <1>1, <1>2, HonestKept DEF HonestInv

LEMMA DeepenHonest ==
  ASSUME SearchInv, HonestInv, Deepen PROVE HonestInv'
<1>1. /\ phase' \in {"finalize", "iterate"} /\ stack' = <<>>
      /\ UNCHANGED <<game, config, depth, rootValues, completed>>
      /\ table' = IF config.tt THEN CoreTtNextGeneration(table) ELSE table
  BY DEF Deepen, SearchInv, StackInv, Outside
<1>2. EntriesInv'
  <2>1. CASE table' = CoreTtInit
    BY <1>1, <2>1 DEF EntriesInv, Entries, CoreTtInit
  <2>2. CASE table' = table
    BY <1>1, <2>2 DEF HonestInv, EntriesInv
  <2>3. CASE table' = [table EXCEPT !.generation = @ + 1]
    <3>1. table'.entries = table.entries
      BY <2>3 DEF SearchInv, ValueInv, TableInv
    <3> QED BY <1>1, <3>1 DEF HonestInv, EntriesInv, Entries
  <2> QED BY <1>1, <2>1, <2>2, <2>3 DEF CoreTtNextGeneration
<1> QED BY <1>1, <1>2, HonestKept DEF HonestInv

\* Where the stack is empty and only the snapshot changes.
LEMMA StopBetweenHonest ==
  ASSUME SearchInv, HonestInv, StopBetween PROVE HonestInv'
<1>1. /\ phase' = "finalize" /\ stack' = <<>>
      /\ UNCHANGED <<game, config, depth, table, rootValues, completed>>
  BY DEF StopBetween, SearchInv, StackInv, Outside
<1> QED BY <1>1, HonestKept DEF HonestInv

LEMMA TakeInterruptedHonest ==
  ASSUME SearchInv, HonestInv, TakeInterrupted PROVE HonestInv'
<1>1. /\ phase' = "finalize" /\ stack' = <<>> /\ completed' = AdoptPartial
      /\ UNCHANGED <<game, config, depth, table, rootValues>>
  BY DEF TakeInterrupted, SearchInv, StackInv, Outside
<1>2. FinishedInv'
  <2>1. CASE AdoptPartial = completed
    BY <1>1, <2>1, SameGame DEF HonestInv, FinishedInv
  <2>2. CASE AdoptPartial # completed
    <3>1. completed'.depth = 0
      BY <1>1, <2>2, AdoptionIsSound
    <3> QED BY <3>1 DEF FinishedInv
  <2> QED BY <2>1, <2>2
<1> QED BY <1>1, <1>2, HonestKept DEF HonestInv

LEMMA FinalizeHonest ==
  ASSUME SearchInv, HonestInv, Finalize PROVE HonestInv'
<1>1. /\ phase' = "done" /\ stack' = <<>>
      /\ UNCHANGED <<game, config, depth, table, rootValues>>
  BY DEF Finalize, SearchInv, StackInv, Outside
<1>2. completed'.depth = completed.depth /\ completed'.values = completed.values
  <2>1. PICK sameCause \in BOOLEAN :
          LET m == CorridorGuard(G.root, Allowed, completed.values, Directions,
                                 completed.move, sameCause)
          IN completed' =
              IF m = completed.move THEN [completed EXCEPT !.source = FinalSource]
              ELSE [completed EXCEPT !.move = m, !.value = completed.values[m],
                      !.source = "CORRIDOR_GUARD", !.reason = "CORRIDOR_GUARD"]
    BY DEF Finalize
  <2> DEFINE m == CorridorGuard(G.root, Allowed, completed.values, Directions,
                                completed.move, sameCause)
  <2>2. completed' = IF m = completed.move THEN [completed EXCEPT !.source = FinalSource]
              ELSE [completed EXCEPT !.move = m, !.value = completed.values[m],
                      !.source = "CORRIDOR_GUARD", !.reason = "CORRIDOR_GUARD"]
    BY <2>1
  <2> HIDE DEF m
  <2> QED BY <2>2 DEF SearchInv, SnapshotInv
<1>3. FinishedInv'
  BY <1>1, <1>2, SameGame DEF HonestInv, FinishedInv
<1> QED BY <1>1, <1>3, HonestKept DEF HonestInv

LEMMA HonestInit ==
  ASSUME Init, Layered(G) PROVE HonestInv
<1>1. /\ game \in DOMAIN Games /\ config \in Configs /\ phase = "iterate" /\ depth = 0
      /\ stack = <<>> /\ table = CoreTtInit /\ rootValues = << >>
      /\ completed.depth = 0
  BY DEF Init
<1>2. DOMAIN rootValues = {} /\ Len(stack) = 0
  BY <1>1, EmptySeq, LenProperties
<1>3. DepthInv
  BY <1>1, Scores DEF DepthInv, G
<1>4. ChainInv /\ StageInv /\ LedInv
  BY <1>1, <1>2 DEF ChainInv, Chain, StageInv, LedInv
<1>5. EntriesInv
  BY <1>1 DEF EntriesInv, Entries, CoreTtInit
<1>6. RootTrueInv
  BY <1>2 DEF RootTrueInv, RootTrue
<1>7. PassInv /\ AnswerInv /\ IteratedInv /\ FinishedInv
  BY <1>1 DEF PassInv, AnswerInv, IteratedInv, FinishedInv
<1> QED BY <1>3, <1>4, <1>5, <1>6, <1>7 DEF HonestInv

LEMMA HonestStep ==
  ASSUME SearchInv, HonestInv, [Next]_vars PROVE HonestInv'
<1>1. CASE UNCHANGED vars
  <2>1. /\ UNCHANGED <<game, config, depth, stack, phase, call, result, table,
                       rootValues, completed>>
    BY <1>1, Zenon DEF vars
  <2>2. Top' = Top /\ Decided' = Decided /\ G' = G
    BY <2>1, SameGame, Zenon DEF Top
  <2>3. DepthInv' /\ ChainInv' /\ EntriesInv' /\ RootTrueInv'
    BY <2>1, Zenon DEF HonestInv, DepthInv, ChainInv, EntriesInv, RootTrueInv
  <2>4. StageInv' /\ PassInv' /\ AnswerInv'
    BY <2>1, <2>2, Zenon DEF HonestInv, StageInv, PassInv, AnswerInv
  <2>5. LedInv' /\ IteratedInv' /\ FinishedInv'
    BY <2>1, <2>2, Zenon DEF HonestInv, LedInv, IteratedInv, FinishedInv
  <2> QED BY <2>3, <2>4, <2>5, Zenon DEF HonestInv
<1>2. CASE Next
  BY <1>1, <1>2, Zenon, EnterCutoffHonest, EnterLeafHonest, EnterNodeHonest, OpenMoveHonest,
     OpenReplyHonest, TakeReplyHonest, CloseMoveHonest, FinishNodeHonest,
     StartIterationHonest, InterruptHonest, CompleteIterationHonest,
     StopBetweenHonest, DeepenHonest, TakeInterruptedHonest, FinalizeHonest
     DEF Next, Done
<1> QED BY <1>1, <1>2

-----------------------------------------------------------------------------
(* The theorems. *)

\* The invariant of the pruning, for every game whose positions tell how far
\* they are from the root.
LEMMA HonestAlways == Spec => [](Layered(G) => HonestInv)
<1>1. Init => (Layered(G) => HonestInv)
  BY HonestInit
<1>2. SearchInv /\ (Layered(G) => HonestInv) /\ [Next]_vars
        => (Layered(G) => HonestInv)'
  <2> SUFFICES ASSUME SearchInv, Layered(G) => HonestInv, [Next]_vars, Layered(G)'
               PROVE  HonestInv'
    OBVIOUS
  <2>1. game' = game
    <3>1. CASE EnterCutoff \/ EnterLeaf \/ EnterNode \/ OpenMove \/ OpenReply
                 \/ TakeReply \/ CloseMove \/ FinishNode
      BY <3>1, Zenon DEF EnterCutoff, EnterLeaf, EnterNode, OpenMove, OpenReply,
                         TakeReply, CloseMove, FinishNode
    <3>2. CASE StartIteration \/ Interrupt \/ CompleteIteration \/ StopBetween
                 \/ Deepen \/ TakeInterrupted \/ Finalize \/ Done \/ UNCHANGED vars
      BY <3>2, Zenon DEF StartIteration, Interrupt, CompleteIteration, StopBetween,
                         Deepen, TakeInterrupted, Finalize, Done, vars
    <3> QED BY <3>1, <3>2, Zenon DEF Next
  <2>2. Layered(G)
    BY <2>1, SameGame, Zenon
  <2> QED BY <2>2, HonestStep
<1> QED BY <1>1, <1>2, SearchAlways, PTL DEF Spec

\* In every game whose positions tell how far they are from the root: whatever
\* window, iteration, order of moves and neighbour in its slot an entry of the
\* table comes from (core_algorithms.c:5823, transposition_table.c:105), its
\* value with its bound is true of the maximin over the whole tree of the
\* entry's depth.
THEOREM TableIsHonestAlways == Spec => [](Layered(G) => TableIsHonest)
<1>1. HonestInv => TableIsHonest
  BY DEF HonestInv, EntriesInv, Entries, Entry, TrueOf, TableIsHonest
<1> QED BY <1>1, HonestAlways, PTL

\* In such a game, what the root publishes for a move (core_algorithms.c:5764)
\* is true of the full-width search of the move to the iteration's depth, also
\* in an iteration that is interrupted.
THEOREM RootValuesAreHonestAlways == Spec => [](Layered(G) => RootValuesAreHonest)
<1>1. HonestInv => RootValuesAreHonest
  BY DEF HonestInv, RootTrueInv, RootTrue, RootValuesAreHonest, RootMoveWorth, G
<1> QED BY <1>1, HonestAlways, PTL

\* In such a game, a search with a completed depth has accounted for the whole
\* tree of that depth: some root value is exact and as good as the best move
\* there is, and the answer has a value (core_algorithms.c:6372, 5907).
THEOREM AnswerIsCompleteAlways == Spec => [](Layered(G) => AnswerIsComplete)
<1>1. HonestInv => DepthIsComplete
  BY DEF HonestInv, FinishedInv, Complete, DepthIsComplete, Decided, RootWorth,
         ClassAt, G
<1>2. AnswerIsOneBranch /\ (Layered(G) => HonestInv) => (Layered(G) => AnswerIsComplete)
  BY <1>1 DEF AnswerIsComplete
<1> QED BY <1>2, AnswerIsOneBranchAlways, HonestAlways, PTL
=============================================================================

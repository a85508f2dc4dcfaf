---------------------------- MODULE LoopsProofs ----------------------------
(***************************************************************************)
(* What can be said of every loop that counts. Its lemmas are used through *)
(* an instance of this module for the loop's body.                         *)
(***************************************************************************)
EXTENDS Loops, Integers, WellFoundedInduction, TLAPS

-----------------------------------------------------------------------------
\* A set of numbers with 0 and with the successor of each of its elements has
\* all numbers: induction, for a property that is written as a set.
LEMMA Induction ==
  ASSUME NEW S, 0 \in S, \A n \in Nat : n \in S => n + 1 \in S
  PROVE  Nat \subseteq S
<1> DEFINE Less == {p \in Nat \X Nat : p[1] < p[2]}
           T == Nat \ S
<1> SUFFICES ASSUME T # {} PROVE FALSE
  OBVIOUS
<1>1. Less = OpToRel(<, Nat)
  BY DEF OpToRel
<1>2. IsWellFoundedOn(Less, Nat)
  <2> HIDE DEF Less
  <2> QED BY <1>1, NatLessThanWellFounded, Zenon
<1>3. PICK n \in T : \A m \in T : ~ (<<m, n>> \in Less)
  <2>1. T \subseteq Nat
    OBVIOUS
  <2> HIDE DEF T, Less
  <2> QED BY <2>1, <1>2, WFMin
<1>4. n \in Nat \ {0} /\ n - 1 \in Nat /\ n - 1 < n /\ (n - 1) + 1 = n
  OBVIOUS
<1>5. n - 1 \notin T
  BY <1>3, <1>4
<1>6. n \in S
  BY <1>4, <1>5
<1> QED BY <1>6

\* The states of a loop follow each other by its body.
LEMMA RunSteps ==
  ASSUME NEW context, NEW base
  PROVE  /\ Run(context, base, 0) = base
         /\ \A n \in Nat :
              Run(context, base, n + 1) = Step(context, Run(context, base, n), n + 1)
<1> DEFINE After(f, k) == IF k = 0 THEN base ELSE Step(context, f[k - 1], k)
           Upto(f, n) == \A k \in 0 .. n : f[k] = After(f, k)
           Whole(f) == f = [k \in Nat |-> After(f, k)]
           W == CHOOSE f : Whole(f)
<1>1. /\ \A f : After(f, 0) = base
      /\ \A f : \A n \in Nat : After(f, n + 1) = Step(context, f[n], n + 1)
      /\ \A f, g : \A k \in Nat \ {0} : f[k - 1] = g[k - 1] => After(f, k) = After(g, k)
  OBVIOUS
<1>2. \A n : Run(context, base, n) = W[n]
  BY DEF Run
<1> HIDE DEF After
<1>3. \A n \in Nat : \E f : Upto(f, n)
  <2> DEFINE S == {n \in Nat : \E f : Upto(f, n)}
  <2>1. 0 \in S
    <3>1. Upto([k \in {0} |-> base], 0)
      BY <1>1
    <3> QED BY <3>1
  <2>2. ASSUME NEW n \in Nat, n \in S PROVE n + 1 \in S
    <3>1. PICK f : Upto(f, n)
      BY <2>2
    <3> DEFINE g == [k \in 0 .. n + 1 |-> IF k = n + 1 THEN Step(context, f[n], n + 1)
                                                       ELSE f[k]]
    <3>2. ASSUME NEW k \in 0 .. n + 1 PROVE g[k] = After(g, k)
      <4>1. CASE k = n + 1
        <5>1. g[n] = f[n] /\ g[k] = Step(context, f[n], n + 1)
          BY <4>1
        <5> HIDE DEF g
        <5> QED BY <1>1, <4>1, <5>1
      <4>2. CASE k = 0
        <5>1. g[k] = f[k] /\ f[k] = After(f, k)
          BY <3>1, <4>2
        <5> HIDE DEF g
        <5> QED BY <1>1, <4>2, <5>1
      <4>3. CASE k \in 1 .. n
        <5>1. g[k] = f[k] /\ g[k - 1] = f[k - 1] /\ k \in Nat \ {0}
          BY <4>3
        <5>2. f[k] = After(f, k)
          BY <3>1, <4>3
        <5> HIDE DEF g
        <5> QED BY <1>1, <5>1, <5>2
      <4> QED BY <4>1, <4>2, <4>3
    <3> HIDE DEF g
    <3>3. Upto(g, n + 1)
      BY <3>2
    <3> QED BY <3>3
  <2> HIDE DEF S
  <2>3. Nat \subseteq S
    BY <2>1, <2>2, Induction
  <2> QED BY <2>3 DEF S
<1>4. ASSUME NEW f, NEW g, NEW n \in Nat, Upto(f, n), Upto(g, n)
      PROVE  f[n] = g[n]
  <2> DEFINE S == {k \in Nat : k <= n => f[k] = g[k]}
  <2>1. 0 \in S
    <3>1. f[0] = After(f, 0) /\ g[0] = After(g, 0)
      BY <1>4
    <3> QED BY <3>1, <1>1
  <2>2. ASSUME NEW k \in Nat, k \in S PROVE k + 1 \in S
    <3> SUFFICES ASSUME k + 1 <= n PROVE f[k + 1] = g[k + 1]
      OBVIOUS
    <3>1. f[k + 1] = After(f, k + 1) /\ g[k + 1] = After(g, k + 1)
      BY <1>4
    <3>2. f[k] = g[k]
      BY <2>2
    <3> QED BY <1>1, <3>1, <3>2
  <2> HIDE DEF S
  <2>3. Nat \subseteq S
    BY <2>1, <2>2, Induction
  <2> QED BY <2>3 DEF S
<1>5. \E f : Whole(f)
  <2> DEFINE Part(n) == CHOOSE f : Upto(f, n)
             w == [n \in Nat |-> Part(n)[n]]
  <2>1. \A n \in Nat : Upto(Part(n), n)
    BY <1>3
  <2> HIDE DEF Part
  <2>2. ASSUME NEW n \in Nat PROVE w[n] = After(w, n)
    <3>1. w[n] = Part(n)[n] /\ Part(n)[n] = After(Part(n), n)
      BY <2>1
    <3>2. CASE n = 0
      BY <1>1, <3>1, <3>2
    <3>3. CASE n # 0
      <4>1. n \in Nat \ {0} /\ n - 1 \in Nat /\ w[n - 1] = Part(n - 1)[n - 1]
        BY <3>3
      <4>2. Upto(Part(n), n - 1) /\ Upto(Part(n - 1), n - 1)
        BY <2>1, <4>1
      <4>3. Part(n)[n - 1] = Part(n - 1)[n - 1]
        BY <1>4, <4>1, <4>2
      <4> HIDE DEF w
      <4> QED BY <1>1, <3>1, <4>1, <4>3
    <3> QED BY <3>2, <3>3
  <2>3. w = [n \in Nat |-> w[n]]
    OBVIOUS
  <2> HIDE DEF w
  <2>4. Whole(w)
    BY <2>2, <2>3
  <2> QED BY <2>4
<1>6. Whole(W)
  BY <1>5
<1> HIDE DEF W
<1>7. \A n \in Nat : W[n] = After(W, n)
  BY <1>6
<1>8. \A n \in Nat : n + 1 \in Nat
  OBVIOUS
<1> QED BY <1>1, <1>2, <1>7, <1>8

\* What holds before the first round and stays in every round holds after all.
LEMMA RunKeeps ==
  ASSUME NEW context, NEW base, NEW N \in Nat, NEW Holds, <<base, 0>> \in Holds,
         \A state : \A k \in 1 .. N :
           <<state, k - 1>> \in Holds => <<Step(context, state, k), k>> \in Holds
  PROVE  \A n \in 0 .. N : <<Run(context, base, n), n>> \in Holds
<1> DEFINE S == {n \in Nat : n <= N => <<Run(context, base, n), n>> \in Holds}
<1>1. 0 \in S
  BY RunSteps
<1>2. ASSUME NEW n \in Nat, n \in S PROVE n + 1 \in S
  <2> SUFFICES ASSUME n + 1 <= N
               PROVE  <<Run(context, base, n + 1), n + 1>> \in Holds
    OBVIOUS
  <2>1. n + 1 \in 1 .. N /\ (n + 1) - 1 = n /\ <<Run(context, base, n), n>> \in Holds
    BY <1>2
  <2>2. Run(context, base, n + 1) = Step(context, Run(context, base, n), n + 1)
    BY RunSteps
  <2> QED BY <2>1, <2>2
<1> HIDE DEF S
<1>3. Nat \subseteq S
  BY <1>1, <1>2, Induction
<1> QED BY <1>3 DEF S
=============================================================================

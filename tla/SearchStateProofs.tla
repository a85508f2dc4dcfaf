------------------------- MODULE SearchStateProofs -------------------------
(***************************************************************************)
(* The search's position for every board, every command and every sequence *)
(* of makes, failed makes and unmakes: an unmake restores the board on     *)
(* which its make was called, a make in place amounts to the rules on a    *)
(* copy, the rules do not depend on the order of the snakes, and a move is *)
(* called safe just when no reply of the others kills the snake.           *)
(*                                                                         *)
(* On the rules rests the second part: in a duel the search for forced     *)
(* losses concludes what is so in the game, at whatever node it was cut    *)
(* short, the root policy decides by what is so, and the fallback never    *)
(* takes certain death for a chance.                                       *)
(*                                                                         *)
(* The loops of the code are instances of Loops; what is proved of them by *)
(* induction rests on LoopsProofs. HeadToHeadIs says in a formula who dies *)
(* in the loop over pairs of heads, and the rest of the rules needs only   *)
(* that formula.                                                           *)
(***************************************************************************)
EXTENDS SearchState, Fallback, SequenceTheorems, TLAPS

-----------------------------------------------------------------------------
(* The loops, and what the sequences built by them are. *)

KeptP == INSTANCE LoopsProofs WITH Step <- Keep
MeetingsP == INSTANCE LoopsProofs WITH Step <- HeadMeets
RoundsP == INSTANCE LoopsProofs WITH Step <- HeadRound
EncountersP == INSTANCE LoopsProofs WITH Step <- LaterEncounter
CauseRoundsP == INSTANCE LoopsProofs WITH Step <- CauseRound

\* The rules run their loops as instances of Loops, the proofs as instances of
\* LoopsProofs: the same loops.
LEMMA TheSameLoops ==
  ASSUME NEW c, NEW base, NEW n
  PROVE  /\ Kept!Run(c, base, n) = KeptP!Run(c, base, n)
         /\ Meetings!Run(c, base, n) = MeetingsP!Run(c, base, n)
         /\ HeadRounds!Run(c, base, n) = RoundsP!Run(c, base, n)
         /\ Encounters!Run(c, base, n) = EncountersP!Run(c, base, n)
         /\ CauseRounds!Run(c, base, n) = CauseRoundsP!Run(c, base, n)
BY DEF Kept!Run, KeptP!Run, Meetings!Run, MeetingsP!Run, HeadRounds!Run,
       RoundsP!Run, Encounters!Run, EncountersP!Run, CauseRounds!Run,
       CauseRoundsP!Run

\* What is kept of the first n elements.
KeptOf(seq, gone, n) == Kept!Run([seq |-> seq, gone |-> gone], <<>>, n)

\* Each round of Without keeps one more element or none.
LEMMA KeptSteps ==
  ASSUME NEW seq, NEW gone
  PROVE  /\ KeptOf(seq, gone, 0) = <<>>
         /\ \A n \in Nat :
              KeptOf(seq, gone, n + 1)
                = IF n + 1 \in gone THEN KeptOf(seq, gone, n)
                  ELSE Append(KeptOf(seq, gone, n), seq[n + 1])
         /\ Without(seq, gone) = KeptOf(seq, gone, Len(seq))
<1> DEFINE c == [seq |-> seq, gone |-> gone]
<1>1. KeptP!Run(c, <<>>, 0) = <<>>
  BY KeptP!RunSteps
<1>2. ASSUME NEW n \in Nat
      PROVE  KeptP!Run(c, <<>>, n + 1) = Keep(c, KeptP!Run(c, <<>>, n), n + 1)
  BY KeptP!RunSteps
<1>3. \A n : KeptOf(seq, gone, n) = KeptP!Run(c, <<>>, n)
  BY TheSameLoops DEF KeptOf
<1>4. c.seq = seq /\ c.gone = gone
  OBVIOUS
<1> HIDE DEF c
<1>5. \A kept, i : Keep(c, kept, i) = IF i \in gone THEN kept ELSE Append(kept, seq[i])
  BY <1>4 DEF Keep
<1>6. Without(seq, gone) = KeptOf(seq, gone, Len(seq))
  BY DEF Without, KeptOf
<1> QED BY <1>1, <1>2, <1>3, <1>5, <1>6

\* The k-th of the elements kept is at place at[k], and the places go up.
Places(at, kept, seq, gone, n) ==
  /\ at \in [1 .. Len(kept) -> (1 .. n) \ gone]
  /\ \A k \in 1 .. Len(kept) : kept[k] = seq[at[k]]
  /\ \A k, l \in 1 .. Len(kept) : k < l => at[k] < at[l]
  /\ \A p \in (1 .. n) \ gone : \E k \in 1 .. Len(kept) : at[k] = p

\* After every round, the elements kept so far are at places of their own.
LEMMA KeptPlaces ==
  ASSUME NEW S, NEW seq \in Seq(S), NEW gone
  PROVE  \A n \in 0 .. Len(seq) :
           /\ KeptOf(seq, gone, n) \in Seq(S)
           /\ \E at : Places(at, KeptOf(seq, gone, n), seq, gone, n)
<1> DEFINE K(n) == KeptOf(seq, gone, n)
           Good(n) == n <= Len(seq) =>
                        K(n) \in Seq(S) /\ \E at : Places(at, K(n), seq, gone, n)
           T == {n \in Nat : Good(n)}
<1>1. 0 \in T
  <2>1. K(0) = <<>>
    BY KeptSteps
  <2>2. Places([k \in 1 .. 0 |-> 0], <<>>, seq, gone, 0)
    BY DEF Places
  <2>3. <<>> \in Seq(S)
    OBVIOUS
  <2> HIDE DEF K
  <2>4. Good(0)
    BY <2>1, <2>2, <2>3, Zenon
  <2> HIDE DEF Good
  <2> QED BY <2>4
<1>2. ASSUME NEW n \in Nat, n \in T PROVE n + 1 \in T
  <2> SUFFICES ASSUME n + 1 <= Len(seq) PROVE Good(n + 1)
    OBVIOUS
  <2>1. PICK at : K(n) \in Seq(S) /\ Places(at, K(n), seq, gone, n)
    <3>1. n <= Len(seq) /\ Good(n)
      BY <1>2
    <3> HIDE DEF K
    <3> QED BY <3>1
  <2> DEFINE kept == K(n)
  <2>2. K(n + 1) = IF n + 1 \in gone THEN kept ELSE Append(kept, seq[n + 1])
    <3>1. \A i \in Nat : KeptOf(seq, gone, i + 1)
                           = IF i + 1 \in gone THEN KeptOf(seq, gone, i)
                             ELSE Append(KeptOf(seq, gone, i), seq[i + 1])
      BY ONLY KeptSteps, ZenonT(30)
    <3> QED BY <3>1
  <2>3. kept \in Seq(S) /\ Places(at, kept, seq, gone, n)
    BY <2>1
  <2>4. seq[n + 1] \in S
    <3>1. n + 1 \in 1 .. Len(seq)
      OBVIOUS
    <3> QED BY <3>1
  <2> HIDE DEF K
  <2>5. CASE n + 1 \in gone
    <3>1. (1 .. n + 1) \ gone = (1 .. n) \ gone
      BY <2>5
    <3>2. Places(at, kept, seq, gone, n + 1)
      BY <2>3, <3>1, Zenon DEF Places
    <3> QED BY <2>2, <2>3, <2>5, <3>2
  <2>6. CASE n + 1 \notin gone
    <3> DEFINE new == Append(kept, seq[n + 1])
               m == Len(kept)
               to == [k \in 1 .. m + 1 |-> IF k = m + 1 THEN n + 1 ELSE at[k]]
    <3>1. m \in Nat /\ new \in Seq(S) /\ Len(new) = m + 1
      BY <2>3, <2>4
    <3>2. new[m + 1] = seq[n + 1] /\ \A k \in 1 .. m : new[k] = kept[k]
      BY <2>3, <2>4
    <3>3. /\ at \in [1 .. m -> (1 .. n) \ gone]
          /\ \A k \in 1 .. m : kept[k] = seq[at[k]]
          /\ \A k, l \in 1 .. m : k < l => at[k] < at[l]
          /\ \A p \in (1 .. n) \ gone : \E k \in 1 .. m : at[k] = p
      BY <2>3 DEF Places
    <3> HIDE DEF kept, new, m
    <3>4. to \in [1 .. m + 1 -> (1 .. n + 1) \ gone]
      BY <2>6, <3>1, <3>3
    <3>5. ASSUME NEW k \in 1 .. m + 1 PROVE new[k] = seq[to[k]]
      BY <3>1, <3>2, <3>3
    <3>6. ASSUME NEW k \in 1 .. m + 1, NEW l \in 1 .. m + 1, k < l PROVE to[k] < to[l]
      <4>1. k \in 1 .. m /\ to[k] = at[k] /\ at[k] < n + 1
        BY <3>1, <3>3, <3>6
      <4> QED BY <3>1, <3>3, <3>6, <4>1
    <3>7. ASSUME NEW p \in (1 .. n + 1) \ gone PROVE \E k \in 1 .. m + 1 : to[k] = p
      <4>1. CASE p = n + 1
        BY <3>1, <4>1
      <4>2. CASE p # n + 1
        <5>1. PICK k \in 1 .. m : at[k] = p
          BY <3>3, <4>2
        <5>2. k \in 1 .. m + 1 /\ to[k] = at[k]
          BY <3>1
        <5> QED BY <5>1, <5>2
      <4> QED BY <4>1, <4>2
    <3>8. Places(to, new, seq, gone, n + 1)
      <4> HIDE DEF to
      <4> QED BY <3>1, <3>4, <3>5, <3>6, <3>7 DEF Places
    <3>9. K(n + 1) = new
      BY <2>2, <2>6 DEF new
    <3> QED BY <3>1, <3>8, <3>9
  <2> QED BY <2>5, <2>6
<1> HIDE DEF T, Good
<1>3. Nat \subseteq T
  BY <1>1, <1>2, KeptP!Induction
<1>4. ASSUME NEW n \in 0 .. Len(seq)
      PROVE  K(n) \in Seq(S) /\ \E at : Places(at, K(n), seq, gone, n)
  <2>1. n \in Nat /\ n <= Len(seq) /\ n \in T
    BY <1>3
  <2> QED BY <2>1 DEF T, Good
<1> QED BY <1>4

\* The elements of a sequence that are not gone, each at a place of its own.
LEMMA WithoutPlaces ==
  ASSUME NEW S, NEW seq \in Seq(S), NEW gone
  PROVE  /\ Without(seq, gone) \in Seq(S)
         /\ \E at : Places(at, Without(seq, gone), seq, gone, Len(seq))
<1>1. Len(seq) \in 0 .. Len(seq)
  OBVIOUS
<1>2. Without(seq, gone) = KeptOf(seq, gone, Len(seq))
  BY KeptSteps
<1> QED BY <1>1, <1>2, KeptPlaces

\* A reversed sequence by its places.
LEMMA ReverseFacts ==
  ASSUME NEW S, NEW seq \in Seq(S)
  PROVE  /\ Reverse(seq) \in Seq(S) /\ Len(Reverse(seq)) = Len(seq)
         /\ \A i \in 1 .. Len(seq) : /\ Reverse(seq)[i] = seq[Len(seq) + 1 - i]
                                     /\ Len(seq) + 1 - i \in 1 .. Len(seq)
<1> DEFINE n == Len(seq)
           back == [i \in 1 .. n |-> seq[(n - i) + 1]]
<1>1. n \in Nat /\ \A i \in 1 .. n : seq[i] \in S
  OBVIOUS
<1>2. Reverse(seq) = back
  BY DEF Reverse
<1> HIDE DEF n
<1>3. \A i \in 1 .. n : (n - i) + 1 = n + 1 - i /\ n + 1 - i \in 1 .. n
  BY <1>1
<1>4. back \in [1 .. n -> S]
  BY <1>1, <1>3
<1>5. \A i \in 1 .. n : back[i] = seq[n + 1 - i]
  BY <1>3
<1> HIDE DEF back
<1>6. back \in Seq(S) /\ Len(back) = n
  BY <1>1, <1>4
<1> QED BY <1>2, <1>3, <1>5, <1>6 DEF n

\* A concatenation by its places.
LEMMA Joined ==
  ASSUME NEW S, NEW left \in Seq(S), NEW right \in Seq(S)
  PROVE  /\ left \o right \in Seq(S)
         /\ Len(left \o right) = Len(left) + Len(right)
         /\ \A i \in 1 .. Len(left) : (left \o right)[i] = left[i]
         /\ \A i \in 1 .. Len(right) : (left \o right)[Len(left) + i] = right[i]
<1> DEFINE s == left \o right
           m == Len(left)
           n == Len(right)
<1>1. /\ s \in Seq(S) /\ Len(s) = m + n
      /\ \A i \in 1 .. m + n : s[i] = IF i <= m THEN left[i] ELSE right[i - m]
  BY ConcatProperties
<1>2. m \in Nat /\ n \in Nat
  OBVIOUS
<1> HIDE DEF s, m, n
<1>3. \A i \in 1 .. m : s[i] = left[i]
  BY <1>1, <1>2
<1>4. ASSUME NEW i \in 1 .. n PROVE s[m + i] = right[i]
  <2>1. m + i \in 1 .. m + n /\ ~(m + i <= m) /\ (m + i) - m = i
    BY <1>2
  <2> QED BY <1>1, <2>1
<1> QED BY <1>1, <1>3, <1>4 DEF s, m, n

\* Of two parts end to end, the last element of one may be the next of the other.
LEMMA ReverseOneMore ==
  ASSUME NEW S, NEW left \in Seq(S), NEW right \in Seq(S), NEW x \in S
  PROVE  Append(left, x) \o Reverse(right) = left \o Reverse(Append(right, x))
<1> DEFINE a == Append(left, x)
           b == Append(right, x)
           c == Reverse(right)
           d == Reverse(b)
           l == Len(left)
           r == Len(right)
<1>1. /\ l \in Nat /\ r \in Nat /\ a \in Seq(S) /\ b \in Seq(S)
      /\ Len(a) = l + 1 /\ Len(b) = r + 1
      /\ a[l + 1] = x /\ \A i \in 1 .. l : a[i] = left[i]
      /\ b[r + 1] = x /\ \A i \in 1 .. r : b[i] = right[i]
  OBVIOUS
<1> HIDE DEF a, b
<1>2. c \in Seq(S) /\ Len(c) = r /\ \A i \in 1 .. r : c[i] = right[r + 1 - i]
  BY ReverseFacts
<1>3. d \in Seq(S) /\ Len(d) = r + 1 /\ \A i \in 1 .. r + 1 : d[i] = b[r + 2 - i]
  <2>1. d \in Seq(S) /\ Len(d) = Len(b) /\ \A i \in 1 .. Len(b) : d[i] = b[Len(b) + 1 - i]
    BY <1>1, ReverseFacts
  <2>2. \A i \in 1 .. r + 1 : Len(b) + 1 - i = r + 2 - i
    BY <1>1
  <2> QED BY <1>1, <2>1, <2>2
<1> HIDE DEF c, d
<1> DEFINE s == a \o c
           t == left \o d
<1>4. /\ s \in Seq(S) /\ Len(s) = (l + 1) + r
      /\ \A i \in 1 .. l + 1 : s[i] = a[i]
      /\ \A i \in 1 .. r : s[(l + 1) + i] = c[i]
  <2>1. /\ s \in Seq(S) /\ Len(s) = Len(a) + Len(c)
        /\ \A i \in 1 .. Len(a) : s[i] = a[i]
        /\ \A i \in 1 .. Len(c) : s[Len(a) + i] = c[i]
    <3>1. a \in Seq(S) /\ c \in Seq(S)
      BY <1>1, <1>2
    <3> QED BY ONLY <3>1, Joined
  <2> HIDE DEF s, l, r
  <2> QED BY <1>1, <1>2, <2>1
<1>5. /\ t \in Seq(S) /\ Len(t) = l + (r + 1)
      /\ \A i \in 1 .. l : t[i] = left[i]
      /\ \A i \in 1 .. r + 1 : t[l + i] = d[i]
  <2>1. /\ t \in Seq(S) /\ Len(t) = l + Len(d)
        /\ \A i \in 1 .. l : t[i] = left[i]
        /\ \A i \in 1 .. Len(d) : t[l + i] = d[i]
    <3>1. left \in Seq(S) /\ d \in Seq(S)
      BY <1>3
    <3> QED BY ONLY <3>1, Joined
  <2> HIDE DEF t, l, r
  <2> QED BY <1>1, <1>3, <2>1
<1> HIDE DEF s, t, l, r
<1>6. ASSUME NEW i \in 1 .. l + (r + 1) PROVE s[i] = t[i]
  <2>1. CASE i \in 1 .. l
    <3>1. i \in 1 .. l + 1
      BY <1>1, <2>1
    <3> QED BY <1>1, <1>4, <1>5, <2>1, <3>1
  <2>2. CASE i = l + 1
    <3>1. s[i] = x
      BY <1>1, <1>4, <2>2
    <3>2. 1 \in 1 .. r + 1 /\ r + 2 - 1 = r + 1
      BY <1>1
    <3>3. t[l + 1] = b[r + 1]
      BY <1>3, <1>5, <3>2
    <3> QED BY <1>1, <2>2, <3>1, <3>3
  <2>3. CASE i \in l + 2 .. l + r + 1
    <3> DEFINE k == i - (l + 1)
    <3>1. k \in 1 .. r /\ k + 1 \in 1 .. r + 1 /\ (l + 1) + k = i /\ l + (k + 1) = i
          /\ r + 2 - (k + 1) = r + 1 - k /\ r + 1 - k \in 1 .. r
      BY <1>1, <2>3
    <3> HIDE DEF k
    <3>2. s[i] = right[r + 1 - k]
      BY <1>2, <1>4, <3>1
    <3>3. t[i] = b[r + 1 - k]
      BY <1>3, <1>5, <3>1
    <3> QED BY <1>1, <3>1, <3>2, <3>3
  <2> QED BY <1>1, <2>1, <2>2, <2>3
<1>7. (l + 1) + r = l + (r + 1)
  BY <1>1
<1>8. s = t
  BY <1>4, <1>5, <1>6, <1>7, SeqEqual
<1> QED BY <1>8 DEF s, t, a, b, c, d

\* Reversed twice is not reversed.
LEMMA ReverseTwice ==
  ASSUME NEW S, NEW seq \in Seq(S)
  PROVE  Reverse(Reverse(seq)) = seq
<1> DEFINE n == Len(seq)
           b == Reverse(seq)
           c == Reverse(b)
<1>1. n \in Nat
  OBVIOUS
<1>2. /\ b \in Seq(S) /\ Len(b) = n
      /\ \A i \in 1 .. n : b[i] = seq[n + 1 - i] /\ n + 1 - i \in 1 .. n
  BY ReverseFacts
<1> HIDE DEF b
<1>3. c \in Seq(S) /\ Len(c) = n /\ \A i \in 1 .. n : c[i] = b[n + 1 - i]
  BY <1>2, ReverseFacts
<1> HIDE DEF c, n
<1>4. \A i \in 1 .. n : n + 1 - (n + 1 - i) = i
  BY <1>1
<1>5. \A i \in 1 .. n : c[i] = seq[i]
  BY <1>2, <1>3, <1>4
<1>6. c = seq
  BY <1>3, <1>5, SeqEqual DEF n
<1> QED BY <1>6 DEF c, b

\* What is kept does not depend on the end from which one looks.
LEMMA WithoutReversed ==
  ASSUME NEW S, NEW seq \in Seq(S), NEW gone, NEW back,
         \A i \in 1 .. Len(seq) : i \in back <=> Len(seq) + 1 - i \in gone
  PROVE  Without(Reverse(seq), back) = Reverse(Without(seq, gone))
<1> DEFINE n == Len(seq)
           rev == Reverse(seq)
           K(k) == KeptOf(seq, gone, k)
           R(k) == KeptOf(rev, back, k)
           Whole == K(n)
           T == {k \in Nat : k <= n => Whole = K(n - k) \o Reverse(R(k))}
<1>1. n \in Nat
  OBVIOUS
<1>2. rev \in Seq(S) /\ Len(rev) = n /\ \A i \in 1 .. n : rev[i] = seq[n + 1 - i]
  BY ReverseFacts
<1>3. /\ K(0) = <<>> /\ R(0) = <<>>
      /\ \A k \in Nat : K(k + 1) = IF k + 1 \in gone THEN K(k) ELSE Append(K(k), seq[k + 1])
      /\ \A k \in Nat : R(k + 1) = IF k + 1 \in back THEN R(k) ELSE Append(R(k), rev[k + 1])
  BY KeptSteps
<1>4. \A k \in 0 .. n : K(k) \in Seq(S)
  BY KeptPlaces
<1>5. Without(rev, back) = R(n) /\ Without(seq, gone) = K(n)
  <2>1. Without(rev, back) = R(Len(rev)) /\ Without(seq, gone) = K(n)
    BY KeptSteps
  <2> HIDE DEF R, rev
  <2> QED BY <2>1, <1>2
<1>11. \A i \in 1 .. n : i \in back <=> n + 1 - i \in gone
  OBVIOUS
<1>12. \A i \in 1 .. n : seq[i] \in S
  OBVIOUS
<1> HIDE DEF rev, K, n
<1>6. \A k \in 0 .. n : R(k) \in Seq(S)
  BY <1>2, KeptPlaces
<1> HIDE DEF R
<1>7. 0 \in T
  <2>1. Reverse(<<>>) = <<>>
    BY DEF Reverse
  <2>2. Whole \in Seq(S) /\ n - 0 = n
    BY <1>1, <1>4
  <2>3. Whole \o <<>> = Whole
    BY <2>2
  <2> QED BY <1>3, <2>1, <2>2, <2>3
<1>8. ASSUME NEW k \in Nat, k \in T PROVE k + 1 \in T
  <2> SUFFICES ASSUME k + 1 <= n PROVE Whole = K(n - (k + 1)) \o Reverse(R(k + 1))
    OBVIOUS
  <2>1. Whole = K(n - k) \o Reverse(R(k))
    BY <1>1, <1>8
  <2> DEFINE p == n - (k + 1)
  <2>2. /\ p \in Nat /\ p + 1 = n - k /\ p + 1 \in 1 .. n /\ k + 1 \in 1 .. n
        /\ p \in 0 .. n /\ k \in 0 .. n /\ n + 1 - (k + 1) = p + 1
    BY <1>1
  <2> HIDE DEF p
  <2>3. rev[k + 1] = seq[p + 1] /\ (k + 1 \in back <=> p + 1 \in gone)
    BY <1>2, <1>11, <2>2
  <2>4. /\ K(p) \in Seq(S) /\ R(k) \in Seq(S) /\ seq[p + 1] \in S
    BY <1>4, <1>6, <1>12, <2>2
  <2>5. /\ K(n - k) = IF p + 1 \in gone THEN K(p) ELSE Append(K(p), seq[p + 1])
        /\ R(k + 1) = IF p + 1 \in gone THEN R(k) ELSE Append(R(k), seq[p + 1])
    BY <1>3, <2>2, <2>3
  <2> HIDE DEF Whole
  <2>6. Whole = K(p) \o Reverse(R(k + 1))
    <3>1. CASE p + 1 \in gone
      BY <2>1, <2>5, <3>1, Zenon
    <3>2. CASE p + 1 \notin gone
      <4>1. K(n - k) = Append(K(p), seq[p + 1]) /\ R(k + 1) = Append(R(k), seq[p + 1])
        BY <2>5, <3>2, Zenon
      <4>2. Append(K(p), seq[p + 1]) \o Reverse(R(k))
              = K(p) \o Reverse(Append(R(k), seq[p + 1]))
        BY <2>4, ReverseOneMore
      <4> QED BY <2>1, <4>1, <4>2
    <3> QED BY <3>1, <3>2
  <2> QED BY <2>6 DEF p
<1> HIDE DEF T
<1>9. n \in T
  BY <1>1, <1>7, <1>8, KeptP!Induction
<1>10. Whole = Reverse(R(n))
  <2>1. n - n = 0 /\ n <= n /\ n \in 0 .. n
    BY <1>1
  <2>2. Whole = K(0) \o Reverse(R(n))
    <3>1. n <= n => Whole = K(n - n) \o Reverse(R(n))
      BY <1>9 DEF T
    <3> QED BY <2>1, <3>1
  <2>3. Reverse(R(n)) \in Seq(S)
    BY <1>6, <2>1, ReverseFacts
  <2>4. <<>> \o Reverse(R(n)) = Reverse(R(n))
    BY <2>3
  <2> QED BY <1>3, <2>2, <2>4
<1>13. Reverse(Whole) = R(n)
  BY <1>1, <1>6, <1>10, ReverseTwice
<1>14. Without(rev, back) = Reverse(Without(seq, gone))
  BY <1>5, <1>13
<1> QED BY <1>14 DEF rev

-----------------------------------------------------------------------------
(* Who dies where heads meet. *)

\* Snake j decides an encounter with snake i.
Beats(snakes, j, i) ==
  /\ j # i
  /\ SnakeHead(snakes[j]) = SnakeHead(snakes[i])
  /\ SnakeLength(snakes[j]) >= SnakeLength(snakes[i])

\* The length that decides encounters is a number.
LEMMA LengthType ==
  ASSUME NEW snake \in Snake
  PROVE  SnakeLength(snake) \in Int
<1>1. snake.length \in Int /\ snake.body \in Seq(Cell)
  BY DEF Snake
<1>2. Len(snake.body) \in Int
  BY <1>1
<1> QED BY <1>1, <1>2 DEF SnakeLength

\* One pair of heads.
LEMMA MeetingOfTwo ==
  ASSUME NEW snakes \in Seq(Snake), NEW i \in 1 .. Len(snakes), NEW k,
         i + k \in 1 .. Len(snakes), i + k # i, NEW dead
  PROVE  HeadMeets([snakes |-> snakes, snake |-> i], dead, k)
           = IF i + k \in dead THEN dead
             ELSE dead \cup {x \in {i} : Beats(snakes, i + k, i)}
                       \cup {x \in {i + k} : Beats(snakes, i, i + k)}
<1> DEFINE c == [snakes |-> snakes, snake |-> i]
           j == i + k
           Longer(a, b) == SnakeLength(snakes[a]) > SnakeLength(snakes[b])
<1>1. c.snakes = snakes /\ c.snake = i
  OBVIOUS
<1> HIDE DEF c
<1>2. SnakeLength(snakes[i]) \in Int /\ SnakeLength(snakes[j]) \in Int
  <2>1. snakes[i] \in Snake /\ snakes[j] \in Snake
    OBVIOUS
  <2> QED BY <2>1, LengthType
<1>3. HeadMeets(c, dead, k)
        = IF j \in dead \/ SnakeHead(snakes[i]) # SnakeHead(snakes[j]) THEN dead
          ELSE dead \cup (IF Longer(i, j) THEN {} ELSE {i})
                    \cup (IF Longer(j, i) THEN {} ELSE {j})
  BY <1>1 DEF HeadMeets
<1>4. /\ Beats(snakes, j, i) <=> SnakeHead(snakes[i]) = SnakeHead(snakes[j]) /\ ~Longer(i, j)
      /\ Beats(snakes, i, j) <=> SnakeHead(snakes[i]) = SnakeHead(snakes[j]) /\ ~Longer(j, i)
  BY <1>2 DEF Beats
<1> HIDE DEF Longer, j
<1>5. HeadMeets(c, dead, k) = IF j \in dead THEN dead
                              ELSE dead \cup {x \in {i} : Beats(snakes, j, i)}
                                        \cup {x \in {j} : Beats(snakes, i, j)}
  BY <1>3, <1>4
<1> QED BY <1>5 DEF c, j

\* The dead after snake i has met the k snakes after it.
AfterMeetings(snakes, dead, i, k) ==
  dead \cup {j \in i + 1 .. i + k : j \notin dead /\ Beats(snakes, i, j)}
       \cup {x \in {i} : \E j \in i + 1 .. i + k : j \notin dead /\ Beats(snakes, j, i)}

\* The inner loop: who dies in it is known from the dead before it.
LEMMA HeadToHeadFromIs ==
  ASSUME NEW snakes \in Seq(Snake), NEW i \in 1 .. Len(snakes), NEW dead, i \notin dead
  PROVE  HeadToHeadFrom(snakes, dead, i)
           = AfterMeetings(snakes, dead, i, Len(snakes) - i)
<1> DEFINE c == [snakes |-> snakes, snake |-> i]
           N == Len(snakes)
           R(k) == MeetingsP!Run(c, dead, k)
           A(k) == AfterMeetings(snakes, dead, i, k)
           T == {k \in Nat : k <= N - i => R(k) = A(k)}
<1>1. N \in Nat /\ i \in 1 .. N
  OBVIOUS
<1>2. R(0) = dead /\ \A k \in Nat : R(k + 1) = HeadMeets(c, R(k), k + 1)
  BY MeetingsP!RunSteps
<1>3. \A k, d : i + k \in 1 .. N /\ i + k # i =>
        HeadMeets(c, d, k) = IF i + k \in d THEN d
                             ELSE d \cup {x \in {i} : Beats(snakes, i + k, i)}
                                    \cup {x \in {i + k} : Beats(snakes, i, i + k)}
  BY MeetingOfTwo
<1>4. HeadToHeadFrom(snakes, dead, i) = R(N - i)
  BY TheSameLoops DEF HeadToHeadFrom
<1> HIDE DEF R, c, N
<1>5. 0 \in T
  <2>1. i + 1 .. i + 0 = {}
    BY <1>1
  <2>2. A(0) = dead
    BY <2>1 DEF AfterMeetings
  <2> HIDE DEF A
  <2> QED BY <1>2, <2>2
<1>6. ASSUME NEW k \in Nat, k \in T PROVE k + 1 \in T
  <2> SUFFICES ASSUME k + 1 <= N - i PROVE R(k + 1) = A(k + 1)
    OBVIOUS
  <2> DEFINE j == i + (k + 1)
  <2>1. R(k) = A(k)
    BY <1>1, <1>6
  <2>2. j \in 1 .. N /\ j # i /\ i + 1 .. j = (i + 1 .. i + k) \cup {j} /\ j \notin i + 1 .. i + k
    BY <1>1
  <2>3. R(k + 1) = IF j \in A(k) THEN A(k)
                   ELSE A(k) \cup {x \in {i} : Beats(snakes, j, i)}
                             \cup {x \in {j} : Beats(snakes, i, j)}
    <3>1. R(k + 1) = HeadMeets(c, A(k), k + 1)
      BY <1>2, <2>1
    <3> HIDE DEF A
    <3>2. HeadMeets(c, A(k), k + 1)
            = IF j \in A(k) THEN A(k)
              ELSE A(k) \cup {x \in {i} : Beats(snakes, j, i)}
                        \cup {x \in {j} : Beats(snakes, i, j)}
      BY ONLY <1>3, <2>2
    <3> QED BY <3>1, <3>2
  <2> HIDE DEF j
  <2>4. j \in A(k) <=> j \in dead
    BY <2>2 DEF AfterMeetings
  <2>5. A(k + 1) = dead \cup {l \in (i + 1 .. i + k) \cup {j} : l \notin dead /\ Beats(snakes, i, l)}
                \cup {x \in {i} : \E l \in (i + 1 .. i + k) \cup {j} :
                                    l \notin dead /\ Beats(snakes, l, i)}
    BY <2>2 DEF AfterMeetings, j
  <2>6. A(k) = dead \cup {l \in i + 1 .. i + k : l \notin dead /\ Beats(snakes, i, l)}
                \cup {x \in {i} : \E l \in i + 1 .. i + k :
                                    l \notin dead /\ Beats(snakes, l, i)}
    BY DEF AfterMeetings
  <2> HIDE DEF A
  <2>7. CASE j \in dead
    BY <2>3, <2>4, <2>5, <2>6, <2>7
  <2>8. CASE j \notin dead
    <3> DEFINE D == i + 1 .. i + k
    <3>1. {l \in D \cup {j} : l \notin dead /\ Beats(snakes, i, l)}
            = {l \in D : l \notin dead /\ Beats(snakes, i, l)}
                \cup {x \in {j} : Beats(snakes, i, j)}
      BY <2>8
    <3>2. {x \in {i} : \E l \in D \cup {j} : l \notin dead /\ Beats(snakes, l, i)}
            = {x \in {i} : \E l \in D : l \notin dead /\ Beats(snakes, l, i)}
                \cup {x \in {i} : Beats(snakes, j, i)}
      BY <2>8
    <3> QED BY <2>3, <2>4, <2>5, <2>6, <2>8, <3>1, <3>2
  <2> QED BY <2>7, <2>8
<1> HIDE DEF T
<1>7. N - i \in T
  BY <1>1, <1>5, <1>6, MeetingsP!Induction
<1>8. R(N - i) = A(N - i)
  BY <1>7, <1>1 DEF T
<1> QED BY <1>4, <1>8 DEF N

\* The dead after all encounters: those of before, and everyone whom a snake
\* beats that was alive before.
AfterEncounters(snakes, dead) ==
  dead \cup {i \in DOMAIN snakes \ dead : \E j \in DOMAIN snakes \ dead : Beats(snakes, j, i)}

\* What is known of the dead after the rounds of the first n snakes: nobody is
\* dead without reason; of two of whom one has had its round the beaten one is
\* dead; and who is dead before its round was beaten by one that has had it.
Settled(snakes, out, n, dead) ==
  /\ out \subseteq dead /\ dead \subseteq AfterEncounters(snakes, out)
  /\ \A x, y \in 1 .. Len(snakes) :
       x \notin out /\ y \notin out /\ Beats(snakes, y, x) /\ (x <= n \/ y <= n)
         => x \in dead
  /\ \A x \in dead \ out :
       x > n => \E k \in 1 .. n : k \notin out /\ Beats(snakes, k, x)

\* Who beats the one that beats another beats that one too.
LEMMA BeatsTransitive ==
  ASSUME NEW snakes \in Seq(Snake), NEW a \in 1 .. Len(snakes),
         NEW b \in 1 .. Len(snakes), NEW c \in 1 .. Len(snakes), a # c,
         Beats(snakes, a, b), Beats(snakes, b, c)
  PROVE  Beats(snakes, a, c)
<1>1. /\ SnakeLength(snakes[a]) \in Int /\ SnakeLength(snakes[b]) \in Int
      /\ SnakeLength(snakes[c]) \in Int
  <2>1. snakes[a] \in Snake /\ snakes[b] \in Snake /\ snakes[c] \in Snake
    OBVIOUS
  <2> QED BY <2>1, LengthType
<1> QED BY <1>1 DEF Beats

\* The round of the next snake keeps what is known of the dead.
LEMMA RoundSettles ==
  ASSUME NEW snakes \in Seq(Snake), NEW out, NEW n \in Nat, n + 1 <= Len(snakes),
         NEW dead, Settled(snakes, out, n, dead)
  PROVE  Settled(snakes, out, n + 1, HeadRound(snakes, dead, n + 1))
<1> DEFINE N == Len(snakes)
           i == n + 1
           next == HeadRound(snakes, dead, i)
           B(y, x) == Beats(snakes, y, x)
           All == AfterEncounters(snakes, out)
<1>1. N \in Nat /\ i \in 1 .. N /\ i > n /\ i # n
      /\ \A x \in 1 .. N : ~(x <= n) /\ x # i => x > i
  OBVIOUS
<1>2. \A a, b, c \in 1 .. N : a # c /\ B(a, b) /\ B(b, c) => B(a, c)
  BY BeatsTransitive
<1>3. \A a, b : B(a, b) => a # b
  BY DEF Beats
<1>4. All = out \cup {x \in 1 .. N : x \notin out /\ \E y \in 1 .. N : y \notin out /\ B(y, x)}
  BY DEF AfterEncounters
<1>5. /\ out \subseteq dead /\ dead \subseteq All
      /\ \A x, y \in 1 .. N : x \notin out /\ y \notin out /\ B(y, x) /\ (x <= n \/ y <= n)
                                => x \in dead
      /\ \A x \in dead \ out : x > n => \E k \in 1 .. n : k \notin out /\ B(k, x)
  BY DEF Settled
<1>6. next = IF i \in dead THEN dead
             ELSE dead \cup {j \in i + 1 .. N : j \notin dead /\ B(i, j)}
                       \cup {x \in {i} : \E j \in i + 1 .. N : j \notin dead /\ B(j, x)}
  <2>1. i + (N - i) = N
    BY <1>1
  <2>2. next = IF i \in dead THEN dead ELSE HeadToHeadFrom(snakes, dead, i)
    BY DEF HeadRound
  <2>3. CASE i \in dead
    BY <2>2, <2>3
  <2>4. CASE i \notin dead
    <3>1. next = AfterMeetings(snakes, dead, i, N - i)
      BY <1>1, <2>2, <2>4, HeadToHeadFromIs
    <3> HIDE DEF next, i, N
    <3> QED BY <2>1, <2>4, <3>1 DEF AfterMeetings
  <2> QED BY <2>3, <2>4
<1>7. \A k : k \in i + 1 .. N <=> k \in 1 .. N /\ k > i
  BY <1>1
<1>8. \A k \in 1 .. n : k \in 1 .. N /\ k \in 1 .. i /\ k # i /\ k < i /\ k <= n
  BY <1>1
<1>9. \A x \in 1 .. N : (x <= i => x <= n \/ x = i) /\ (x > i => x > n /\ x # i)
                        /\ \A k \in 1 .. n : x > i => k # x
  BY <1>1
<1> HIDE DEF next, i, N, B, All
<1>10. out \subseteq next /\ next \subseteq All
  <2>1. CASE i \in dead
    BY <1>5, <1>6, <2>1
  <2>2. CASE i \notin dead
    BY <1>1, <1>4, <1>5, <1>6, <1>7, <2>2
  <2> QED BY <2>1, <2>2
<1>11. ASSUME NEW x \in 1 .. N, NEW y \in 1 .. N, x \notin out, y \notin out, B(y, x),
              x <= i \/ y <= i
       PROVE  x \in next
  <2>1. dead \subseteq next
    BY <1>6
  <2>2. CASE x <= n \/ y <= n
    BY <1>5, <1>11, <2>1, <2>2
  <2>3. CASE ~(x <= n \/ y <= n) /\ x = i
    <3>1. y > i /\ y > n
      BY <1>1, <1>3, <1>9, <1>11, <2>3
    <3>2. CASE i \in dead
      BY <2>1, <2>3, <3>2
    <3>3. CASE i \notin dead /\ y \in dead
      <4>1. PICK k \in 1 .. n : k \notin out /\ B(k, y)
        BY <1>5, <1>11, <3>1, <3>3
      <4>2. B(k, i)
        BY <1>1, <1>2, <1>8, <1>11, <2>3, <4>1
      <4>3. i \in dead
        BY <1>1, <1>5, <1>8, <1>11, <2>3, <4>1, <4>2
      <4> QED BY <2>1, <2>3, <4>3
    <3>4. CASE i \notin dead /\ y \notin dead
      BY <1>6, <1>7, <1>11, <2>3, <3>1, <3>4
    <3> QED BY <3>2, <3>3, <3>4
  <2>4. CASE ~(x <= n \/ y <= n) /\ y = i
    <3>1. x > i /\ x > n
      BY <1>1, <1>3, <1>9, <1>11, <2>4
    <3>2. CASE i \in dead
      <4>1. PICK k \in 1 .. n : k \notin out /\ B(k, i)
        BY <1>1, <1>5, <1>11, <2>4, <3>2
      <4>2. B(k, x)
        BY <1>1, <1>2, <1>8, <1>9, <1>11, <2>4, <3>1, <4>1
      <4>3. x \in dead
        BY <1>5, <1>8, <1>11, <4>1, <4>2
      <4> QED BY <2>1, <4>3
    <3>3. CASE i \notin dead
      BY <1>6, <1>7, <1>11, <2>4, <3>1, <3>3
    <3> QED BY <3>2, <3>3
  <2> QED BY <1>9, <1>11, <2>2, <2>3, <2>4
<1>12. ASSUME NEW x \in next \ out, x > i
       PROVE  \E k \in 1 .. i : k \notin out /\ B(k, x)
  <2>1. x \in 1 .. N
    BY <1>4, <1>10
  <2>2. CASE x \in dead
    <3>1. PICK k \in 1 .. n : k \notin out /\ B(k, x)
      BY <1>5, <1>9, <1>12, <2>1, <2>2
    <3> QED BY <1>8, <3>1
  <2>3. CASE x \notin dead
    <3>1. i \notin dead /\ B(i, x)
      BY <1>6, <1>9, <1>12, <2>1, <2>3
    <3>2. i \in 1 .. i /\ i \notin out
      BY <1>1, <1>5, <3>1
    <3> QED BY <3>1, <3>2
  <2> QED BY <2>2, <2>3
<1> QED BY <1>10, <1>11, <1>12 DEF Settled, All, B, N, i, next

\* What the loop over pairs of heads computes, in whatever order it meets them.
LEMMA HeadToHeadIs ==
  ASSUME NEW snakes \in Seq(Snake), NEW out
  PROVE  HeadToHead(snakes, out) = AfterEncounters(snakes, out)
<1> DEFINE N == Len(snakes)
           R(n) == RoundsP!Run(snakes, out, n)
           T == {n \in Nat : n <= N => Settled(snakes, out, n, R(n))}
<1>1. N \in Nat
  OBVIOUS
<1>2. R(0) = out /\ \A n \in Nat : R(n + 1) = HeadRound(snakes, R(n), n + 1)
  BY RoundsP!RunSteps
<1>3. HeadToHead(snakes, out) = R(N)
  BY TheSameLoops DEF HeadToHead
<1> HIDE DEF R
<1>4. 0 \in T
  <2>1. Settled(snakes, out, 0, out)
    <3>1. \A x \in 1 .. N : ~(x <= 0)
      OBVIOUS
    <3> QED BY <3>1 DEF Settled, AfterEncounters
  <2> QED BY <1>2, <2>1
<1>5. ASSUME NEW n \in Nat, n \in T PROVE n + 1 \in T
  <2> SUFFICES ASSUME n + 1 <= N PROVE Settled(snakes, out, n + 1, R(n + 1))
    OBVIOUS
  <2>1. Settled(snakes, out, n, R(n))
    BY <1>1, <1>5
  <2>2. R(n + 1) = HeadRound(snakes, R(n), n + 1)
    BY <1>2
  <2> QED BY <2>1, <2>2, RoundSettles
<1> HIDE DEF T
<1>6. N \in T
  BY <1>1, <1>4, <1>5, RoundsP!Induction
<1>7. Settled(snakes, out, N, R(N))
  BY <1>1, <1>6 DEF T
<1>8. DOMAIN snakes = 1 .. N /\ \A x \in 1 .. N : x <= N
  OBVIOUS
<1> HIDE DEF N
<1>9. R(N) = AfterEncounters(snakes, out)
  <2>1. AfterEncounters(snakes, out) \subseteq R(N)
    BY <1>7, <1>8 DEF Settled, AfterEncounters, N
  <2> QED BY <1>7, <2>1 DEF Settled
<1> QED BY <1>3, <1>9

-----------------------------------------------------------------------------
(* The causes a make records, and the dead by the rules. *)

\* The dead in a record of causes.
DeadOf(causes) == {i \in DOMAIN causes : causes[i] # {}}

CauseSets == SUBSET {"invalid_command", "wall", "hazard", "starvation",
                     "self_body", "other_body", "head_to_head"}

\* A function on 1 .. n is a sequence.
LEMMA FunctionIsSeq ==
  ASSUME NEW S, NEW n \in Nat, NEW f \in [1 .. n -> S]
  PROVE  f \in Seq(S) /\ Len(f) = n
OBVIOUS

\* One encounter, by its causes and by its dead.
LEMMA EncounterKills ==
  ASSUME NEW next, next.snakes \in Seq(Snake),
         NEW causes \in [1 .. Len(next.snakes) -> CauseSets],
         NEW i \in 1 .. Len(next.snakes), NEW k,
         i + k \in 1 .. Len(next.snakes), i + k # i
  PROVE  LET later == LaterEncounter([next |-> next, snake |-> i], causes, k)
         IN  /\ later \in [1 .. Len(next.snakes) -> CauseSets]
             /\ DeadOf(later) = HeadMeets([snakes |-> next.snakes, snake |-> i],
                                          DeadOf(causes), k)
<1> DEFINE N == Len(next.snakes)
           snakes == next.snakes
           j == i + k
           c == [next |-> next, snake |-> i]
           later == LaterEncounter(c, causes, k)
           meet == causes[j] = {} /\ SnakeHead(snakes[i]) = SnakeHead(snakes[j])
           Struck(x) == meet /\ (\/ x = i /\ SnakeLength(snakes[j]) >= SnakeLength(snakes[i])
                                 \/ x = j /\ SnakeLength(snakes[i]) >= SnakeLength(snakes[j]))
<1>1. later = [x \in 1 .. N |-> IF Struck(x) THEN causes[x] \cup {"head_to_head"} ELSE causes[x]]
  <2>1. c.next = next /\ c.snake = i /\ DOMAIN causes = 1 .. N
    OBVIOUS
  <2>2. later = Encounter(next, causes, i, j)
    <3> HIDE DEF c
    <3> QED BY <2>1 DEF LaterEncounter
  <2> QED BY <2>1, <2>2 DEF Encounter
<1>2. \A x \in 1 .. N : later[x] = IF Struck(x) THEN causes[x] \cup {"head_to_head"} ELSE causes[x]
  BY <1>1, Zenon
<1>3. DOMAIN later = 1 .. N
  BY <1>1
<1>4. \A x \in 1 .. N : Struck(x) <=>
        /\ j \notin DeadOf(causes)
        /\ (x = i /\ Beats(snakes, j, i)) \/ (x = j /\ Beats(snakes, i, j))
  BY DEF Beats, DeadOf
<1>5. \A x \in 1 .. N : (x \in DeadOf(causes) <=> causes[x] # {}) /\ causes[x] \in CauseSets
  BY DEF DeadOf
<1>6. HeadMeets([snakes |-> snakes, snake |-> i], DeadOf(causes), k)
        = IF j \in DeadOf(causes) THEN DeadOf(causes)
          ELSE DeadOf(causes) \cup {x \in {i} : Beats(snakes, j, i)}
                              \cup {x \in {j} : Beats(snakes, i, j)}
  BY MeetingOfTwo
<1>7. later = [x \in 1 .. N |-> later[x]]
  BY <1>1
<1>8. j \in 1 .. N /\ DeadOf(causes) \subseteq 1 .. N
  BY DEF DeadOf
<1> HIDE DEF later, Struck, j, N
<1>9. \A x \in 1 .. N : later[x] \in CauseSets
  BY <1>2, <1>5 DEF CauseSets
<1>10. \A x \in 1 .. N : later[x] # {} <=> x \in DeadOf(causes) \/ Struck(x)
  BY <1>2, <1>5
<1>11. later \in [1 .. N -> CauseSets]
  BY <1>7, <1>9
<1>12. DeadOf(later) = {x \in 1 .. N : x \in DeadOf(causes) \/ Struck(x)}
  BY <1>3, <1>10 DEF DeadOf
<1>13. DeadOf(later) = HeadMeets([snakes |-> snakes, snake |-> i], DeadOf(causes), k)
  <2> DEFINE E == DeadOf(causes)
  <2> HIDE DEF E
  <2>1. i \in 1 .. N
    BY DEF N
  <2>2. E \subseteq 1 .. N /\ j \in 1 .. N
    BY <1>8 DEF E
  <2>3. \A x \in 1 .. N : Struck(x) <=>
          /\ j \notin E
          /\ (x = i /\ Beats(snakes, j, i)) \/ (x = j /\ Beats(snakes, i, j))
    BY <1>4 DEF E
  <2>4. {x \in 1 .. N : x \in E \/ Struck(x)}
          = IF j \in E THEN E ELSE E \cup {x \in {i} : Beats(snakes, j, i)}
                                     \cup {x \in {j} : Beats(snakes, i, j)}
    <3>1. CASE j \in E
      BY <2>2, <2>3, <3>1
    <3>2. CASE j \notin E
      BY <2>1, <2>2, <2>3, <3>2
    <3> QED BY <3>1, <3>2
  <2> QED BY <1>6, <1>12, <2>4 DEF E
<1> QED BY <1>11, <1>13 DEF later, N

\* One snake's round, by its causes and by its dead.
LEMMA CauseRoundKills ==
  ASSUME NEW next, next.snakes \in Seq(Snake),
         NEW causes \in [1 .. Len(next.snakes) -> CauseSets],
         NEW i \in 1 .. Len(next.snakes)
  PROVE  /\ CauseRound(next, causes, i) \in [1 .. Len(next.snakes) -> CauseSets]
         /\ DeadOf(CauseRound(next, causes, i))
              = HeadRound(next.snakes, DeadOf(causes), i)
<1> DEFINE N == Len(next.snakes)
           c == [next |-> next, snake |-> i]
           d == [snakes |-> next.snakes, snake |-> i]
           C(k) == EncountersP!Run(c, causes, k)
           M(k) == MeetingsP!Run(d, DeadOf(causes), k)
           T == {k \in Nat : k <= N - i => C(k) \in [1 .. N -> CauseSets] /\ DeadOf(C(k)) = M(k)}
<1>1. N \in Nat /\ i \in 1 .. N /\ Len(causes) = N /\ (i \in DeadOf(causes) <=> causes[i] # {})
  <2>1. N \in Nat /\ i \in 1 .. N
    OBVIOUS
  <2>2. Len(causes) = N
    BY <2>1, FunctionIsSeq
  <2> QED BY <2>1, <2>2 DEF DeadOf
<1>2. /\ C(0) = causes /\ \A k \in Nat : C(k + 1) = LaterEncounter(c, C(k), k + 1)
      /\ M(0) = DeadOf(causes) /\ \A k \in Nat : M(k + 1) = HeadMeets(d, M(k), k + 1)
  BY EncountersP!RunSteps, MeetingsP!RunSteps
<1>3. \A b \in [1 .. N -> CauseSets] : \A k : i + k \in 1 .. N /\ i + k # i =>
        /\ LaterEncounter(c, b, k) \in [1 .. N -> CauseSets]
        /\ DeadOf(LaterEncounter(c, b, k)) = HeadMeets(d, DeadOf(b), k)
  BY EncounterKills
<1>4. /\ CauseRound(next, causes, i) = IF i \in DeadOf(causes) THEN causes ELSE C(N - i)
      /\ HeadRound(next.snakes, DeadOf(causes), i)
           = IF i \in DeadOf(causes) THEN DeadOf(causes) ELSE M(N - i)
  BY <1>1, TheSameLoops DEF CauseRound, HeadRound, HeadToHeadFrom
<1> HIDE DEF C, M, c, d
<1>5. 0 \in T
  BY <1>2
<1>6. ASSUME NEW k \in Nat, k \in T PROVE k + 1 \in T
  <2> SUFFICES ASSUME k + 1 <= N - i
               PROVE  C(k + 1) \in [1 .. N -> CauseSets] /\ DeadOf(C(k + 1)) = M(k + 1)
    OBVIOUS
  <2>1. C(k) \in [1 .. N -> CauseSets] /\ DeadOf(C(k)) = M(k)
    BY <1>1, <1>6
  <2>2. i + (k + 1) \in 1 .. N /\ i + (k + 1) # i
    BY <1>1
  <2> HIDE DEF N
  <2>3. C(k + 1) = LaterEncounter(c, C(k), k + 1) /\ M(k + 1) = HeadMeets(d, M(k), k + 1)
    BY <1>2
  <2>4. /\ LaterEncounter(c, C(k), k + 1) \in [1 .. N -> CauseSets]
        /\ DeadOf(LaterEncounter(c, C(k), k + 1)) = HeadMeets(d, DeadOf(C(k)), k + 1)
    BY <1>3, <2>1, <2>2
  <2> QED BY <2>1, <2>3, <2>4
<1> HIDE DEF T
<1>7. N - i \in T
  BY <1>1, <1>5, <1>6, MeetingsP!Induction
<1>8. C(N - i) \in [1 .. N -> CauseSets] /\ DeadOf(C(N - i)) = M(N - i)
  BY <1>7, <1>1 DEF T
<1> HIDE DEF N
<1> QED BY <1>4, <1>8 DEF N

\* resolve_head_collisions kills those whom the loop of the rules kills.
LEMMA HeadCausesKill ==
  ASSUME NEW next, next.snakes \in Seq(Snake),
         NEW causes \in [1 .. Len(next.snakes) -> CauseSets]
  PROVE  /\ HeadCauses(next, causes) \in [1 .. Len(next.snakes) -> CauseSets]
         /\ DeadOf(HeadCauses(next, causes)) = HeadToHead(next.snakes, DeadOf(causes))
<1> DEFINE N == Len(next.snakes)
           C(k) == CauseRoundsP!Run(next, causes, k)
           H(k) == RoundsP!Run(next.snakes, DeadOf(causes), k)
           T == {k \in Nat : k <= N => C(k) \in [1 .. N -> CauseSets] /\ DeadOf(C(k)) = H(k)}
<1>1. N \in Nat /\ Len(causes) = N
  <2>1. N \in Nat
    OBVIOUS
  <2> QED BY <2>1, FunctionIsSeq
<1>2. /\ C(0) = causes /\ \A k \in Nat : C(k + 1) = CauseRound(next, C(k), k + 1)
      /\ H(0) = DeadOf(causes)
      /\ \A k \in Nat : H(k + 1) = HeadRound(next.snakes, H(k), k + 1)
  BY CauseRoundsP!RunSteps, RoundsP!RunSteps
<1>3. HeadCauses(next, causes) = C(N) /\ HeadToHead(next.snakes, DeadOf(causes)) = H(N)
  BY <1>1, TheSameLoops DEF HeadCauses, HeadToHead
<1>4. \A b \in [1 .. N -> CauseSets] : \A k \in 1 .. N :
        /\ CauseRound(next, b, k) \in [1 .. N -> CauseSets]
        /\ DeadOf(CauseRound(next, b, k)) = HeadRound(next.snakes, DeadOf(b), k)
  BY CauseRoundKills
<1> HIDE DEF C, H
<1>5. 0 \in T
  BY <1>2
<1>6. ASSUME NEW k \in Nat, k \in T PROVE k + 1 \in T
  <2> SUFFICES ASSUME k + 1 <= N
               PROVE  C(k + 1) \in [1 .. N -> CauseSets] /\ DeadOf(C(k + 1)) = H(k + 1)
    OBVIOUS
  <2>1. C(k) \in [1 .. N -> CauseSets] /\ DeadOf(C(k)) = H(k)
    BY <1>1, <1>6
  <2>2. k + 1 \in 1 .. N
    BY <1>1
  <2> HIDE DEF N
  <2>3. C(k + 1) = CauseRound(next, C(k), k + 1) /\ H(k + 1) = HeadRound(next.snakes, H(k), k + 1)
    BY <1>2
  <2>4. /\ CauseRound(next, C(k), k + 1) \in [1 .. N -> CauseSets]
        /\ DeadOf(CauseRound(next, C(k), k + 1)) = HeadRound(next.snakes, DeadOf(C(k)), k + 1)
    BY <1>4, <2>1, <2>2
  <2> QED BY <2>1, <2>3, <2>4
<1> HIDE DEF T
<1>7. N \in T
  BY <1>1, <1>5, <1>6, MeetingsP!Induction
<1>8. C(N) \in [1 .. N -> CauseSets] /\ DeadOf(C(N)) = H(N)
  BY <1>7, <1>1 DEF T
<1> HIDE DEF N
<1> QED BY <1>3, <1>8 DEF N

\* A head is a cell.
LEMMA HeadType ==
  ASSUME NEW snake \in Snake
  PROVE  SnakeHead(snake) \in Cell
<1>1. snake.body \in Seq(Cell)
  BY DEF Snake
<1>2. <<0, 0>> \in Cell
  BY DEF Cell
<1>3. snake.body # <<>> => Head(snake.body) \in Cell
  BY <1>1, HeadTailProperties
<1> QED BY <1>2, <1>3 DEF SnakeHead

\* A step leads from a cell to a cell.
LEMMA StepType ==
  ASSUME NEW cell \in Cell, NEW move \in Moves
  PROVE  MoveStep(cell, move) \in Cell
<1>1. cell[1] \in Int /\ cell[2] \in Int
  BY DEF Cell
<1> QED BY <1>1 DEF MoveStep, Moves, Cell

\* The parts of a board and their types.
LEMMA BoardFields ==
  ASSUME NEW b \in Board
  PROVE  /\ b.snakes \in Seq(Snake) /\ b.food \in Seq(Cell) /\ b.hazard_damage \in Int
         /\ b.width \in Nat /\ b.height \in Nat /\ b.constrictor \in BOOLEAN
         /\ b.hazards \subseteq Cell
         /\ Indices(b) = 1 .. Len(b.snakes) /\ Len(b.snakes) \in Nat
BY DEF Board, Indices

\* The body behind a new head, by its places.
LEMMA BodyShift ==
  ASSUME NEW body \in Seq(Cell), NEW head \in Cell, NEW n \in 0 .. Len(body)
  PROVE  LET moved == <<head>> \o SubSeq(body, 1, n)
         IN  /\ moved \in Seq(Cell) /\ Len(moved) = n + 1 /\ moved[1] = head
             /\ \A k \in 1 .. n : moved[k + 1] = body[k]
<1> DEFINE part == SubSeq(body, 1, n)
           moved == <<head>> \o part
<1>1. n \in Nat /\ n \in Int /\ 1 \in Int /\ \A i \in 1 .. n : body[i] \in Cell
  OBVIOUS
<1>2. part \in Seq(Cell) /\ Len(part) = n /\ \A k \in 1 .. n : part[k] = body[k]
  <2>1. /\ part \in Seq(Cell)
        /\ Len(part) = IF 1 <= n THEN n - 1 + 1 ELSE 0
        /\ \A i \in 1 .. n - 1 + 1 : part[i] = body[1 + i - 1]
    BY <1>1, SubSeqProperties
  <2> HIDE DEF part
  <2>2. \A k \in 1 .. n : k \in 1 .. n - 1 + 1 /\ 1 + k - 1 = k
    BY <1>1
  <2>3. Len(part) = n
    BY <1>1, <2>1
  <2> QED BY <2>1, <2>2, <2>3
<1> HIDE DEF part
<1>3. <<head>> \in Seq(Cell) /\ Len(<<head>>) = 1 /\ <<head>>[1] = head
  OBVIOUS
<1>4. /\ moved \in Seq(Cell) /\ Len(moved) = 1 + n
      /\ \A i \in 1 .. 1 + n : moved[i] = IF i <= 1 THEN <<head>>[i] ELSE part[i - 1]
  <2> DEFINE one == <<head>>
  <2>1. one \in Seq(Cell) /\ Len(one) = 1
    BY <1>3
  <2> HIDE DEF one
  <2>2. /\ one \o part \in Seq(Cell) /\ Len(one \o part) = Len(one) + Len(part)
        /\ \A i \in 1 .. Len(one) + Len(part) :
             (one \o part)[i] = IF i <= Len(one) THEN one[i] ELSE part[i - Len(one)]
    BY <1>2, <2>1, ConcatProperties
  <2>3. moved = one \o part
    BY DEF one
  <2> HIDE DEF moved
  <2>4. QED BY <1>2, <2>1, <2>2, <2>3 DEF one
<1> HIDE DEF moved
<1>5. moved[1] = head /\ \A k \in 1 .. n : moved[k + 1] = part[k]
  <2>1. 1 \in 1 .. 1 + n /\ 1 <= 1
    BY <1>1
  <2>2. \A k \in 1 .. n : k + 1 \in 1 .. 1 + n /\ ~(k + 1 <= 1) /\ (k + 1) - 1 = k
    BY <1>1
  <2> QED BY <1>3, <1>4, <2>1, <2>2
<1> QED BY <1>1, <1>2, <1>4, <1>5 DEF moved, part

\* A snake moved in place and a snake moved on a copy are the same snake.
LEMMA SameMove ==
  ASSUME NEW b \in Board, NEW snake \in Snake, snake.body # <<>>, NEW move \in Moves
  PROVE  /\ MoveLiveSnake(b, snake, move) = MovedSnake(b, snake, move)
         /\ MovedSnake(b, snake, move) \in Snake
<1> DEFINE head == MoveStep(SnakeHead(snake), move)
           ate == head \in Food(b)
           n == Len(snake.body)
           kept == IF ate \/ b.constrictor THEN snake.body ELSE SubSeq(snake.body, 1, n - 1)
           m == IF ate \/ b.constrictor THEN n ELSE n - 1
           body == <<head>> \o kept
           hurt == IF head \in b.hazards THEN snake.health - 1 - b.hazard_damage
                                         ELSE snake.health - 1
           health == IF ate THEN 100 ELSE hurt
           moved == [snake EXCEPT !.body = body, !.length = m + 1, !.health = health]
<1>1. /\ snake.body \in Seq(Cell) /\ snake.health \in Int /\ b.hazard_damage \in Int
      /\ n \in Nat \ {0} /\ b.constrictor \in BOOLEAN
  BY EmptySeq DEF Snake, Board
<1>2. head \in Cell
  BY HeadType, StepType
<1>3. m \in 0 .. n /\ kept = SubSeq(snake.body, 1, m)
  <2>1. SubSeq(snake.body, 1, n) = snake.body
    BY <1>1, SubSeqFull
  <2> QED BY <1>1, <2>1
<1>4. body \in Seq(Cell) /\ Len(body) = m + 1
  BY <1>1, <1>2, <1>3, BodyShift
<1>5. Len(kept) = m
  <2>1. \A i \in 1 .. m : snake.body[i] \in Cell
    BY <1>1, <1>3
  <2>2. m \in Int /\ 1 \in Int /\ m \in Nat
    BY <1>1, <1>3
  <2>3. Len(SubSeq(snake.body, 1, m)) = IF 1 <= m THEN m - 1 + 1 ELSE 0
    BY <2>1, <2>2, SubSeqProperties
  <2> HIDE DEF m
  <2> QED BY <1>3, <2>2, <2>3
<1>6. MovedSnake(b, snake, move) = moved
  <2>1. kept = IF ate \/ b.constrictor THEN snake.body ELSE Front(snake.body)
    BY DEF Front
  <2>2. MovedSnake(b, snake, move) = MovedTo(b, snake, head, ate)
    BY DEF MovedSnake
  <2>3. health = IF ate THEN 100 ELSE snake.health - 1
                   - (IF head \in b.hazards THEN b.hazard_damage ELSE 0)
    BY <1>1
  <2> HIDE DEF health, kept, ate, head, m
  <2> QED BY <1>5, <2>1, <2>2, <2>3, Zenon DEF MovedTo
<1>7. MoveLiveSnake(b, snake, move) = moved
  <2>1. MoveLiveSnake(b, snake, move)
          = [snake EXCEPT !.body = <<head>> \o SubSeq(snake.body, 1, m),
                          !.length = Len(<<head>> \o SubSeq(snake.body, 1, m)),
                          !.health = health]
    BY DEF MoveLiveSnake
  <2> HIDE DEF health, kept, head, m
  <2> QED BY <1>3, <1>4, <2>1
<1>8. moved \in Snake
  <2>1. health \in Int
    BY <1>1
  <2>2. m + 1 \in Int
    BY <1>1
  <2> HIDE DEF health, body, m
  <2> QED BY <1>4, <2>1, <2>2 DEF Snake
<1> QED BY <1>6, <1>7, <1>8

\* The commands a make may be given on a board.
Orders(b) == [SnakeIds(b) -> Moves \cup {Invalid}]

\* The snakes of a board after all of them have moved.
AllMoved(b, command) == MovedPrefix(b, command, Len(b.snakes)).snakes

\* A snake that is commanded has a body and a move.
LEMMA OrdersMove ==
  ASSUME NEW b \in Board, NEW command \in Orders(b), NEW i \in Commanded(b, command)
  PROVE  /\ i \in 1 .. Len(b.snakes) /\ b.snakes[i] \in Snake /\ b.snakes[i].body # <<>>
         /\ command[b.snakes[i].id] \in Moves
<1>1. i \in Indices(b) /\ command[b.snakes[i].id] # Invalid /\ b.snakes[i].body # <<>>
  BY DEF Commanded
<1>2. i \in 1 .. Len(b.snakes) /\ b.snakes \in Seq(Snake)
  BY <1>1, BoardFields
<1>3. b.snakes[i].id \in SnakeIds(b)
  BY <1>1 DEF SnakeIds
<1>4. command[b.snakes[i].id] \in Moves \cup {Invalid}
  BY <1>3 DEF Orders
<1> QED BY <1>1, <1>2, <1>4

\* However far a make has moved the snakes: it has a board, of as many snakes.
LEMMA PrefixType ==
  ASSUME NEW b \in Board, NEW command \in Orders(b), NEW n
  PROVE  /\ MovedPrefix(b, command, n) \in Board
         /\ MovedPrefix(b, command, n).snakes \in Seq(Snake)
         /\ Len(MovedPrefix(b, command, n).snakes) = Len(b.snakes)
<1> DEFINE N == Len(b.snakes)
           s == [i \in 1 .. N |-> IF i <= n /\ i \in Commanded(b, command)
                                  THEN MoveLiveSnake(b, b.snakes[i], command[b.snakes[i].id])
                                  ELSE b.snakes[i]]
<1>1. N \in Nat /\ Indices(b) = 1 .. N /\ \A i \in 1 .. N : b.snakes[i] \in Snake
  BY BoardFields
<1>2. MovedPrefix(b, command, n) = [b EXCEPT !.snakes = s]
  BY <1>1 DEF MovedPrefix
<1>3. \A i \in Commanded(b, command) :
        MoveLiveSnake(b, b.snakes[i], command[b.snakes[i].id]) \in Snake
  BY OrdersMove, SameMove
<1>4. s \in [1 .. N -> Snake]
  BY <1>1, <1>3
<1> HIDE DEF s, N
<1>5. s \in Seq(Snake) /\ Len(s) = N
  BY <1>1, <1>4, FunctionIsSeq
<1>6. [b EXCEPT !.snakes = s] \in Board /\ [b EXCEPT !.snakes = s].snakes = s
  BY <1>5 DEF Board
<1> QED BY <1>2, <1>5, <1>6 DEF N

\* All moved, in place and by the rules.
LEMMA AllMovedIs ==
  ASSUME NEW b \in Board, NEW command \in Orders(b)
  PROVE  /\ AllMoved(b, command)
              = [i \in Indices(b) |-> IF i \in Commanded(b, command)
                                      THEN MovedSnake(b, b.snakes[i], command[b.snakes[i].id])
                                      ELSE b.snakes[i]]
         /\ MovedPrefix(b, command, Len(b.snakes)) = [b EXCEPT !.snakes = AllMoved(b, command)]
         /\ AllMoved(b, command) \in Seq(Snake)
         /\ Len(AllMoved(b, command)) = Len(b.snakes)
<1> DEFINE N == Len(b.snakes)
           s == [i \in Indices(b) |-> IF i <= N /\ i \in Commanded(b, command)
                                  THEN MoveLiveSnake(b, b.snakes[i], command[b.snakes[i].id])
                                  ELSE b.snakes[i]]
<1>1. N \in Nat /\ Indices(b) = 1 .. N /\ \A i \in 1 .. N : i <= N
  BY BoardFields
<1>2. MovedPrefix(b, command, N) = [b EXCEPT !.snakes = s]
  BY DEF MovedPrefix
<1>3. \A i \in Commanded(b, command) :
        MoveLiveSnake(b, b.snakes[i], command[b.snakes[i].id])
          = MovedSnake(b, b.snakes[i], command[b.snakes[i].id])
  BY OrdersMove, SameMove
<1>4. s = [i \in Indices(b) |-> IF i \in Commanded(b, command)
                                THEN MovedSnake(b, b.snakes[i], command[b.snakes[i].id])
                                ELSE b.snakes[i]]
  BY <1>1, <1>3
<1> HIDE DEF s
<1>5. [b EXCEPT !.snakes = s].snakes = s
  BY DEF Board
<1>6. AllMoved(b, command) = s
  BY <1>2, <1>5 DEF AllMoved
<1> QED BY <1>2, <1>4, <1>6, PrefixType DEF AllMoved

\* Who is out before any collision, by the causes and by the rules.
LEMMA MoveCausesKill ==
  ASSUME NEW b \in Board, NEW command \in Orders(b),
         NEW next, next.snakes = AllMoved(b, command)
  PROVE  /\ MoveCauses(b, next, command) \in [1 .. Len(b.snakes) -> CauseSets]
         /\ DeadOf(MoveCauses(b, next, command))
              = Out(b, next.snakes, Commanded(b, command))
<1> DEFINE N == Len(b.snakes)
           causes == MoveCauses(b, next, command)
           snakes == next.snakes
<1>1. Indices(b) = 1 .. N /\ snakes \in Seq(Snake) /\ Len(snakes) = N
  BY AllMovedIs, BoardFields
<1>2. \A i \in 1 .. N : snakes[i].health \in Int
  <2>1. \A i \in 1 .. N : snakes[i] \in Snake
    BY <1>1
  <2> QED BY <2>1 DEF Snake
<1>3. causes = [i \in 1 .. N |->
                  IF i \notin Commanded(b, command) THEN {"invalid_command"}
                  ELSE WallCauses(b, snakes[i]) \cup HealthCauses(b, snakes[i])]
  BY <1>1 DEF MoveCauses
<1>4. \A i \in 1 .. N :
        /\ WallCauses(b, snakes[i]) \in CauseSets /\ HealthCauses(b, snakes[i]) \in CauseSets
        /\ WallCauses(b, snakes[i]) # {} <=> ~InBounds(b, SnakeHead(snakes[i]))
        /\ HealthCauses(b, snakes[i]) # {} <=> snakes[i].health <= 0
  BY <1>2 DEF WallCauses, HealthCauses, CauseSets
<1> HIDE DEF causes, snakes, N
<1>5. \A i \in 1 .. N :
        causes[i] = IF i \notin Commanded(b, command) THEN {"invalid_command"}
                    ELSE WallCauses(b, snakes[i]) \cup HealthCauses(b, snakes[i])
  BY <1>3
<1>6. \A i \in 1 .. N : causes[i] \in CauseSets
  BY <1>4, <1>5 DEF CauseSets
<1>7. causes \in [1 .. N -> CauseSets]
  BY <1>3, <1>6
<1>8. \A i \in 1 .. N : causes[i] # {} <=> \/ i \notin Commanded(b, command)
                                           \/ ~InBounds(b, SnakeHead(snakes[i]))
                                           \/ snakes[i].health <= 0
  BY <1>4, <1>5
<1>9. DeadOf(causes) = {i \in 1 .. N : causes[i] # {}}
  BY <1>7 DEF DeadOf
<1>10. DeadOf(causes) = Out(b, snakes, Commanded(b, command))
  BY <1>1, <1>8, <1>9 DEF Out
<1> QED BY <1>7, <1>10 DEF causes, snakes, N

\* resolve_body_collisions kills those whom the rules let run into a body.
LEMMA BodyCausesKill ==
  ASSUME NEW next, next.snakes \in Seq(Snake),
         NEW causes \in [1 .. Len(next.snakes) -> CauseSets]
  PROVE  /\ BodyCauses(next, causes) \in [1 .. Len(next.snakes) -> CauseSets]
         /\ DeadOf(BodyCauses(next, causes))
              = DeadOf(causes) \cup {i \in DOMAIN next.snakes \ DeadOf(causes) :
                                       HitsBody(next.snakes, i)}
<1> DEFINE snakes == next.snakes
           N == Len(snakes)
           later == BodyCauses(next, causes)
           Hit(i, j) == \E k \in 2 .. Len(snakes[j].body) :
                          snakes[j].body[k] = SnakeHead(snakes[i])
           New(i) == {IF i = j THEN "self_body" ELSE "other_body" :
                        j \in {j \in 1 .. N : Hit(i, j)}}
<1>1. DOMAIN snakes = 1 .. N
  OBVIOUS
<1>2. later = [i \in 1 .. N |-> IF causes[i] # {} THEN causes[i] ELSE New(i)]
  BY DEF BodyCauses
<1>3. \A i \in 1 .. N : HitsBody(snakes, i) <=> \E j \in 1 .. N : Hit(i, j)
  BY <1>1 DEF HitsBody
<1> HIDE DEF Hit
<1>4. \A i \in 1 .. N : New(i) \in CauseSets /\ (New(i) # {} <=> \E j \in 1 .. N : Hit(i, j))
  <2> TAKE i \in 1 .. N
  <2>1. New(i) \in CauseSets
    BY DEF CauseSets
  <2>2. (\E j \in 1 .. N : Hit(i, j)) <=> {j \in 1 .. N : Hit(i, j)} # {}
    OBVIOUS
  <2>3. New(i) # {} <=> {j \in 1 .. N : Hit(i, j)} # {}
    OBVIOUS
  <2> QED BY <2>1, <2>2, <2>3
<1> HIDE DEF New, later, N, snakes
<1>5. \A i \in 1 .. N : later[i] = IF causes[i] # {} THEN causes[i] ELSE New(i)
  BY <1>2
<1>6. \A i \in 1 .. N : causes[i] \in CauseSets
  BY DEF N, snakes
<1>7. \A i \in 1 .. N : later[i] \in CauseSets
  BY <1>4, <1>5, <1>6
<1>8. later \in [1 .. N -> CauseSets]
  BY <1>2, <1>7
<1>9. DeadOf(later) = {i \in 1 .. N : later[i] # {}}
  BY <1>8 DEF DeadOf
<1>10. DeadOf(causes) = {i \in 1 .. N : causes[i] # {}}
  BY DEF DeadOf, N, snakes
<1>11. DeadOf(later) = DeadOf(causes) \cup {i \in DOMAIN snakes \ DeadOf(causes) :
                                              HitsBody(snakes, i)}
  BY <1>1, <1>3, <1>4, <1>5, <1>9, <1>10
<1> QED BY <1>8, <1>11 DEF later, N, snakes

\* The causes of a make kill whom the rules kill.
LEMMA TerminalCausesKill ==
  ASSUME NEW b \in Board, NEW command \in Orders(b),
         NEW next, next.snakes = AllMoved(b, command)
  PROVE  /\ TerminalCauses(b, next, command) \in [1 .. Len(b.snakes) -> CauseSets]
         /\ DeadOf(TerminalCauses(b, next, command))
              = Dead(next.snakes, Out(b, next.snakes, Commanded(b, command)))
<1> DEFINE snakes == next.snakes
           N == Len(b.snakes)
           first == MoveCauses(b, next, command)
           second == BodyCauses(next, first)
           out == Out(b, snakes, Commanded(b, command))
<1>1. snakes \in Seq(Snake) /\ Len(snakes) = N
  BY AllMovedIs
<1>2. first \in [1 .. N -> CauseSets] /\ DeadOf(first) = out
  BY MoveCausesKill
<1> HIDE DEF first, out
<1>3. /\ second \in [1 .. N -> CauseSets]
      /\ DeadOf(second) = out \cup {i \in DOMAIN snakes \ out : HitsBody(snakes, i)}
  <2>1. next.snakes \in Seq(Snake) /\ first \in [1 .. Len(next.snakes) -> CauseSets]
    BY <1>1, <1>2
  <2> QED BY <1>1, <1>2, <2>1, BodyCausesKill
<1> HIDE DEF second
<1>4. /\ HeadCauses(next, second) \in [1 .. N -> CauseSets]
      /\ DeadOf(HeadCauses(next, second)) = HeadToHead(snakes, DeadOf(second))
  <2>1. next.snakes \in Seq(Snake) /\ second \in [1 .. Len(next.snakes) -> CauseSets]
    BY <1>1, <1>3
  <2> QED BY <1>1, <2>1, HeadCausesKill
<1>5. TerminalCauses(b, next, command) = HeadCauses(next, second)
  BY DEF TerminalCauses, second, first
<1>6. Dead(snakes, out) = HeadToHead(snakes, DeadOf(second))
  BY <1>3 DEF Dead
<1> HIDE DEF snakes
<1> QED BY <1>4, <1>5, <1>6 DEF out, snakes

\* No two of the food are in one cell.
DistinctCells(food) == \A k, l \in DOMAIN food : food[k] = food[l] => k = l

\* The places of the food in the cells to which a snake has moved.
Eaten(b, snakes, moved) ==
  {k \in DOMAIN b.food : b.food[k] \in {SnakeHead(snakes[i]) : i \in moved}}

\* The food left by a make and by the rules, when no two pieces share a cell.
LEMMA SameFood ==
  ASSUME NEW b \in Board, NEW command, NEW next, DistinctCells(b.food)
  PROVE  FoodLeft(b, next, command)
           = Without(b.food, Eaten(b, next.snakes, Commanded(b, command)))
<1> DEFINE food == b.food
           moved == Commanded(b, command)
<1>1. food \in Seq(Cell) /\ DOMAIN food = 1 .. Len(food) /\ Len(food) \in Nat
  BY BoardFields
<1>2. \A k \in DOMAIN food : \A l \in 1 .. k - 1 : food[l] # food[k]
  <2>1. \A k \in DOMAIN food : \A l \in 1 .. k - 1 : l \in DOMAIN food /\ l # k
    BY <1>1
  <2> QED BY <2>1 DEF DistinctCells
<1>3. {k \in DOMAIN food : /\ \A l \in 1 .. k - 1 : food[l] # food[k]
                           /\ \E i \in moved : SnakeHead(next.snakes[i]) = food[k]}
        = Eaten(b, next.snakes, moved)
  BY <1>2 DEF Eaten
<1> QED BY <1>3, Zenon DEF FoodLeft

\* What a make leaves is a board.
LEMMA MakeType ==
  ASSUME NEW b \in Board, NEW command \in Orders(b), NEW next,
         next = MovedPrefix(b, command, Len(b.snakes)), NEW causes, NEW c,
         c = [next EXCEPT !.snakes = LiveSnakes(next, causes),
                          !.food = FoodLeft(b, next, command)]
  PROVE  c \in Board
<1>1. next \in Board /\ next.snakes \in Seq(Snake) /\ b.food \in Seq(Cell)
  BY PrefixType, BoardFields
<1>2. LiveSnakes(next, causes) \in Seq(Snake)
  BY <1>1, WithoutPlaces DEF LiveSnakes
<1>3. FoodLeft(b, next, command) \in Seq(Cell)
  BY <1>1, WithoutPlaces DEF FoodLeft
<1> QED BY <1>1, <1>2, <1>3 DEF Board

\* The snakes that a make leaves on the board.
LEMMA MakeLeaves ==
  ASSUME NEW b \in Board, NEW command \in Orders(b), NEW next,
         next = MovedPrefix(b, command, Len(b.snakes))
  PROVE  LiveSnakes(next, TerminalCauses(b, next, command))
           = Without(AllMoved(b, command),
                     Dead(AllMoved(b, command),
                          Out(b, AllMoved(b, command), Commanded(b, command))))
<1> DEFINE m == AllMoved(b, command)
           dead == Dead(m, Out(b, m, Commanded(b, command)))
           causes == TerminalCauses(b, next, command)
<1>1. next.snakes = m
  BY DEF AllMoved
<1>2. DeadOf(causes) = dead
  BY <1>1, TerminalCausesKill
<1> HIDE DEF m, dead, causes
<1>3. LiveSnakes(next, causes) = Without(m, dead)
  BY <1>1, <1>2 DEF LiveSnakes, DeadOf
<1> QED BY <1>3 DEF m, dead, causes

\* The board a make writes is the board BoardCloneAndApply returns.
LEMMA MakeIsTheRules ==
  ASSUME NEW b \in Board, NEW command \in Orders(b), NEW next,
         next = MovedPrefix(b, command, Len(b.snakes)), DistinctCells(b.food)
  PROVE  [next EXCEPT !.snakes = LiveSnakes(next, TerminalCauses(b, next, command)),
                      !.food = FoodLeft(b, next, command)]
           = BoardCloneAndApply(b, command)
<1> DEFINE snakes == next.snakes
           moved == Commanded(b, command)
           dead == Dead(snakes, Out(b, snakes, moved))
           eaten == Eaten(b, snakes, moved)
           live == Without(snakes, dead)
           left == Without(b.food, eaten)
<1>1. next.snakes = AllMoved(b, command) /\ next = [b EXCEPT !.snakes = AllMoved(b, command)]
  BY AllMovedIs DEF AllMoved
<1>2. LiveSnakes(next, TerminalCauses(b, next, command)) = live
  BY <1>1, MakeLeaves
<1>3. FoodLeft(b, next, command) = left
  BY SameFood
<1>4. BoardCloneAndApply(b, command) = Resolve(b, AllMoved(b, command), moved)
  BY AllMovedIs DEF BoardCloneAndApply
<1>5. Resolve(b, snakes, moved) = [b EXCEPT !.snakes = live, !.food = left]
  <2> HIDE DEF snakes, moved
  <2> QED BY DEF Resolve, Eaten
<1> HIDE DEF live, left, snakes
<1>6. [next EXCEPT !.snakes = live, !.food = left] = [b EXCEPT !.snakes = live, !.food = left]
  BY <1>1 DEF Board
<1> QED BY <1>1, <1>2, <1>3, <1>4, <1>5, <1>6 DEF snakes

-----------------------------------------------------------------------------
(* The stack of undo frames. Nothing is needed of the rules here. *)

Stack(s) == \E S : s \in Seq(S)
Fields == {"width", "height", "snakes", "food", "hazards", "constrictor",
           "hazard_damage"}
IsBoard(b) == DOMAIN b = Fields /\ b = [f \in Fields |-> b[f]]

\* Two boards that differ in nothing but snakes and food.
SameGround(b, c) ==
  \A f \in Fields \ {"snakes", "food"} : b[f] = c[f]

UndoInv ==
  /\ IsBoard(board)
  /\ Stack(undo_stack) /\ Stack(trail)
  /\ Len(undo_stack) = Len(trail)
  /\ \A d \in 1 .. Len(trail) :
       /\ undo_stack[d] = UndoFrame(trail[d].board)
       /\ IsBoard(trail[d].board)
       /\ SameGround(trail[d].board, board)

\* Pushing one more element on any stack.
LEMMA PushStack ==
  ASSUME NEW s, NEW e, Stack(s)
  PROVE  /\ Stack(Append(s, e))
         /\ Len(s) \in Nat
         /\ Len(Append(s, e)) = Len(s) + 1
         /\ \A d \in 1 .. Len(s) : Append(s, e)[d] = s[d]
         /\ Append(s, e)[Len(s) + 1] = e
<1>1. PICK S : s \in Seq(S)
  BY DEF Stack
<1> DEFINE T == S \cup {e}
<1>2. s \in Seq(T) /\ e \in T
  BY <1>1, SeqMonotonic
<1>3. Append(s, e) \in Seq(T)
  BY <1>2
<1>4. Stack(Append(s, e))
  BY <1>3 DEF Stack
<1>5. QED
  BY <1>2, <1>4

\* Popping an element of a stack that is not empty.
LEMMA PopStack ==
  ASSUME NEW s, Stack(s), s # <<>>
  PROVE  /\ Stack(Front(s))
         /\ Len(s) \in Nat \ {0}
         /\ Len(Front(s)) = Len(s) - 1
         /\ \A d \in 1 .. Len(s) - 1 : Front(s)[d] = s[d]
<1>1. PICK S : s \in Seq(S)
  BY DEF Stack
<1>2. Len(s) \in Nat \ {0}
  BY <1>1, EmptySeq
<1>3. Front(s) = SubSeq(s, 1, Len(s) - 1)
  BY DEF Front
<1>4. Front(s) \in Seq(S)
  BY <1>1, <1>2, <1>3
<1>5. Stack(Front(s))
  BY <1>4 DEF Stack
<1>6. /\ Len(Front(s)) = Len(s) - 1
      /\ \A d \in 1 .. Len(s) - 1 : Front(s)[d] = s[d]
  <2> DEFINE m == Len(s) - 1
             f == SubSeq(s, 1, m)
  <2>1. m \in Nat /\ m \in Int /\ 1 \in Int
    BY <1>2
  <2>2. \A d \in 1 .. m : s[d] \in S
    BY <1>1, <1>2
  <2> HIDE DEF m
  <2>3. /\ Len(f) = IF 1 <= m THEN m - 1 + 1 ELSE 0
        /\ \A d \in 1 .. m - 1 + 1 : f[d] = s[1 + d - 1]
    BY <2>1, <2>2, SubSeqProperties
  <2>4. Len(f) = m /\ \A d \in 1 .. m : f[d] = s[d]
    <3> HIDE DEF f
    <3>1. Len(f) = m
      BY <2>1, <2>3
    <3>2. ASSUME NEW d \in 1 .. m PROVE f[d] = s[d]
      <4>1. d \in 1 .. m - 1 + 1 /\ 1 + d - 1 = d
        BY <2>1
      <4>2. f[d] = s[1 + d - 1]
        BY <2>3, <4>1
      <4>3. QED
        BY <4>1, <4>2
    <3>3. QED
      BY <3>1, <3>2
  <2>5. QED
    BY <1>3, <2>4 DEF m
<1>7. QED
  BY <1>2, <1>5, <1>6

\* Changing snakes and food leaves a board a board, on the same ground.
LEMMA BoardChange ==
  ASSUME NEW b, IsBoard(b), NEW snakes, NEW food,
         NEW c, c = [b EXCEPT !.snakes = snakes, !.food = food]
  PROVE  IsBoard(c) /\ SameGround(b, c)
BY DEF IsBoard, SameGround, Fields

\* Changing the snakes alone leaves a board a board, too.
LEMMA SnakesChange ==
  ASSUME NEW b, IsBoard(b), NEW snakes, NEW c, c = [b EXCEPT !.snakes = snakes]
  PROVE  IsBoard(c) /\ SameGround(b, c)
BY DEF IsBoard, SameGround, Fields

\* A board is known by its ground, its snakes and its food.
LEMMA BoardEquality ==
  ASSUME NEW b, NEW c, IsBoard(b), IsBoard(c), SameGround(b, c),
         b.snakes = c.snakes, b.food = c.food
  PROVE  b = c
<1>1. \A f \in Fields : b[f] = c[f]
  BY DEF SameGround, Fields
<1>2. QED
  BY <1>1 DEF IsBoard

\* A board on the same ground as another's ground.
LEMMA SameGroundTransitive ==
  ASSUME NEW a, NEW b, NEW c, SameGround(a, b), SameGround(b, c)
  PROVE  SameGround(a, c)
BY DEF SameGround

\* The stack is in order at the start.
LEMMA UndoInit == Init => UndoInv
<1> SUFFICES ASSUME Init PROVE UndoInv
  OBVIOUS
<1>1. IsBoard(board)
  BY SearchStateAssumption DEF Init, IsBoard, Board, Fields
<1>2. Stack(<<>>)
  BY EmptySeq DEF Stack
<1>3. Len(<<>>) = 0
  BY EmptySeq
<1>4. QED
  BY <1>1, <1>2, <1>3 DEF Init, UndoInv

\* A make pushes the frame of the board it was called on.
LEMMA UndoMake ==
  ASSUME UndoInv, NEW command \in Commands, Make(command)
  PROVE  UndoInv'
<1> DEFINE next == MovedPrefix(board, command, Len(board.snakes))
           entry == [board |-> board, command |-> command]
<1>1. /\ undo_stack' = Append(undo_stack, UndoFrame(board))
      /\ trail' = Append(trail, entry)
  BY DEF Make
<1>2. IsBoard(next) /\ SameGround(board, next)
  BY SnakesChange DEF UndoInv, MovedPrefix
<1>3. PICK snakes, food : board' = [next EXCEPT !.snakes = snakes, !.food = food]
  BY DEF Make
<1> HIDE DEF next
<1>4. IsBoard(board') /\ SameGround(next, board')
  BY <1>2, <1>3, BoardChange
<1>5. SameGround(board, board')
  BY <1>2, <1>4, SameGroundTransitive
<1>6. /\ Stack(undo_stack') /\ Stack(trail')
      /\ Len(trail) \in Nat
      /\ Len(undo_stack') = Len(trail') /\ Len(trail') = Len(trail) + 1
  BY <1>1, PushStack DEF UndoInv
<1>7. ASSUME NEW d \in 1 .. Len(trail')
      PROVE  /\ undo_stack'[d] = UndoFrame(trail'[d].board)
             /\ IsBoard(trail'[d].board)
             /\ SameGround(trail'[d].board, board')
  <2>1. CASE d = Len(trail) + 1
    <3>1. undo_stack'[d] = UndoFrame(board) /\ trail'[d] = entry
      BY <1>1, <2>1, PushStack DEF UndoInv
    <3>2. QED
      BY <1>5, <3>1 DEF UndoInv
  <2>2. CASE d \in 1 .. Len(trail)
    <3>1. undo_stack'[d] = undo_stack[d] /\ trail'[d] = trail[d]
      BY <1>1, <2>2, PushStack DEF UndoInv
    <3>2. SameGround(trail[d].board, board)
      BY <2>2 DEF UndoInv
    <3>3. SameGround(trail[d].board, board')
      BY <1>5, <3>2, SameGroundTransitive
    <3>4. QED
      BY <2>2, <3>1, <3>3 DEF UndoInv
  <2>3. QED
    BY <1>6, <2>1, <2>2
<1>8. QED
  BY <1>4, <1>6, <1>7 DEF UndoInv

\* A make that fails half way has moved some snakes and nothing else.
LEMMA UndoMakeFails ==
  ASSUME UndoInv, NEW command \in Commands, NEW n, MakeFails(command, n)
  PROVE  UndoInv'
<1>1. /\ board' = MovedPrefix(board, command, n)
      /\ undo_stack' = undo_stack /\ trail' = trail
  BY DEF MakeFails
<1>2. IsBoard(board') /\ SameGround(board, board')
  BY <1>1, SnakesChange DEF UndoInv, MovedPrefix
<1>3. \A d \in 1 .. Len(trail) : SameGround(trail[d].board, board')
  BY <1>2, SameGroundTransitive DEF UndoInv
<1>4. QED
  BY <1>1, <1>2, <1>3 DEF UndoInv

\* An unmake writes the frame over the board, whatever the board was.
LEMMA UndoUnmake ==
  ASSUME UndoInv, Unmake
  PROVE  UndoInv' /\ board' = Last(trail).board
<1> DEFINE n == Len(trail)
           frame == Last(undo_stack)
<1>1. /\ board' = [board EXCEPT !.snakes = frame.snakes, !.food = frame.food]
      /\ undo_stack' = Front(undo_stack) /\ trail' = Front(trail)
  BY DEF Unmake
<1>2. /\ n \in Nat \ {0} /\ Stack(undo_stack') /\ Stack(trail')
      /\ Len(undo_stack') = n - 1 /\ Len(trail') = n - 1
      /\ \A d \in 1 .. n - 1 : undo_stack'[d] = undo_stack[d]
                                 /\ trail'[d] = trail[d]
  <2>1. undo_stack # <<>>
    BY DEF Unmake
  <2>2. Len(undo_stack) \in Nat \ {0}
    BY <2>1, PopStack DEF UndoInv
  <2>3. trail # <<>>
    BY <2>2, EmptySeq DEF UndoInv
  <2>4. QED
    BY <1>1, <2>1, <2>3, PopStack DEF UndoInv
<1>3. frame = UndoFrame(trail[n].board) /\ Last(trail) = trail[n]
  <2>1. frame = undo_stack[n] /\ Last(trail) = trail[n]
    BY DEF UndoInv, Last
  <2>2. n \in 1 .. Len(trail)
    BY <1>2
  <2>3. undo_stack[n] = UndoFrame(trail[n].board)
    BY <2>2 DEF UndoInv
  <2>4. QED
    BY <2>1, <2>3
<1>4. /\ IsBoard(trail[n].board) /\ SameGround(trail[n].board, board)
  BY <1>2 DEF UndoInv
<1>5. /\ IsBoard(board') /\ SameGround(board, board')
      /\ board'.snakes = trail[n].board.snakes
      /\ board'.food = trail[n].board.food
  <2>1. /\ frame.snakes = trail[n].board.snakes
        /\ frame.food = trail[n].board.food
    BY <1>3 DEF UndoFrame
  <2>2. IsBoard(board)
    BY DEF UndoInv
  <2>3. PICK snakes, food :
          /\ snakes = frame.snakes /\ food = frame.food
          /\ board' = [board EXCEPT !.snakes = snakes, !.food = food]
    BY <1>1
  <2> HIDE DEF frame, n
  <2>4. /\ IsBoard(board') /\ SameGround(board, board')
        /\ board'.snakes = snakes /\ board'.food = food
    <3> DEFINE c == [board EXCEPT !.snakes = snakes, !.food = food]
    <3>1. IsBoard(c) /\ SameGround(board, c)
      BY <2>2, BoardChange
    <3>2. c.snakes = snakes /\ c.food = food
      BY <2>2 DEF IsBoard, Fields
    <3>3. board' = c
      BY <2>3
    <3> HIDE DEF c
    <3>4. QED
      BY <3>1, <3>2, <3>3
  <2>5. QED
    BY <2>1, <2>3, <2>4
<1>6. board' = trail[n].board
  <2>1. SameGround(trail[n].board, board')
    BY <1>4, <1>5, SameGroundTransitive
  <2>2. QED
    BY <1>4, <1>5, <2>1, BoardEquality
<1>7. ASSUME NEW d \in 1 .. n - 1
      PROVE  /\ undo_stack'[d] = UndoFrame(trail'[d].board)
             /\ IsBoard(trail'[d].board)
             /\ SameGround(trail'[d].board, board')
  <2>1. d \in 1 .. n
    BY <1>2
  <2>2. SameGround(trail[d].board, board')
    BY <1>5, <2>1, SameGroundTransitive DEF UndoInv
  <2>3. QED
    BY <1>2, <2>1, <2>2 DEF UndoInv
<1>8. UndoInv'
  BY <1>2, <1>5, <1>7 DEF UndoInv
<1>9. QED
  BY <1>3, <1>6, <1>8

\* However makes, failed makes and unmakes follow each other, an unmake
\* restores the very board on which its make was called.
THEOREM UnmakeRestoresAlways == Spec => UnmakeRestores
<1>1. Init => UndoInv
  BY UndoInit
<1>2. UndoInv /\ [Next]_vars => UndoInv'
  <2> SUFFICES ASSUME UndoInv, [Next]_vars PROVE UndoInv'
    OBVIOUS
  <2>1. CASE Next
    BY <2>1, UndoMake, UndoMakeFails, UndoUnmake DEF Next
  <2>2. CASE UNCHANGED vars
    BY <2>2 DEF UndoInv, vars
  <2>3. QED
    BY <2>1, <2>2
<1>3. UndoInv => (Unmake => board' = Last(trail).board)
  BY UndoUnmake, Zenon
<1>4. QED
  BY <1>1, <1>2, <1>3, PTL DEF Spec, UnmakeRestores

-----------------------------------------------------------------------------
(* A make follows the rules. *)

\* The board in play and the boards to come back to are boards.
BoardsInv ==
  /\ UndoInv
  /\ board \in Board
  /\ \A d \in 1 .. Len(trail) : trail[d].board \in Board

\* What the search may command is an order to the snakes on the board.
LEMMA CommandsAreOrders == Commands \subseteq Orders(board)
BY SearchStateAssumption DEF Commands, Orders

\* The search starts from a board.
LEMMA BoardsInit == Init => BoardsInv
<1> SUFFICES ASSUME Init PROVE BoardsInv
  OBVIOUS
<1>1. board \in Board
  BY SearchStateAssumption DEF Init
<1>2. trail = <<>> /\ Len(<<>>) = 0
  BY EmptySeq DEF Init
<1> QED BY <1>1, <1>2, UndoInit DEF BoardsInv

\* A make writes a board.
LEMMA BoardsMake ==
  ASSUME BoardsInv, NEW command \in Commands, Make(command)
  PROVE  BoardsInv'
<1> DEFINE next == MovedPrefix(board, command, Len(board.snakes))
           causes == TerminalCauses(board, next, command)
<1>1. board \in Board /\ command \in Orders(board) /\ UndoInv
  BY CommandsAreOrders DEF BoardsInv
<1>2. board' = [next EXCEPT !.snakes = LiveSnakes(next, causes),
                            !.food = FoodLeft(board, next, command)]
  BY DEF Make
<1>3. board' \in Board
  <2> HIDE DEF causes
  <2> QED BY <1>1, <1>2, MakeType
<1>4. UndoInv'
  BY <1>1, UndoMake
<1>5. /\ trail' = Append(trail, [board |-> board, command |-> command])
      /\ Stack(trail)
  BY <1>1 DEF Make, UndoInv
<1>6. ASSUME NEW d \in 1 .. Len(trail') PROVE trail'[d].board \in Board
  <2>1. /\ Len(trail) \in Nat /\ Len(trail') = Len(trail) + 1
        /\ \A e \in 1 .. Len(trail) : trail'[e] = trail[e]
        /\ trail'[Len(trail) + 1] = [board |-> board, command |-> command]
    BY <1>5, PushStack
  <2>2. CASE d = Len(trail) + 1
    BY <1>1, <2>1, <2>2
  <2>3. CASE d \in 1 .. Len(trail)
    BY <2>1, <2>3 DEF BoardsInv
  <2> QED BY <2>1, <2>2, <2>3
<1> QED BY <1>3, <1>4, <1>6 DEF BoardsInv

\* A make that fails leaves a board, moved as far as it went.
LEMMA BoardsMakeFails ==
  ASSUME BoardsInv, NEW command \in Commands, NEW n, MakeFails(command, n)
  PROVE  BoardsInv'
<1>1. board \in Board /\ command \in Orders(board) /\ UndoInv
  BY CommandsAreOrders DEF BoardsInv
<1>2. board' = MovedPrefix(board, command, n) /\ trail' = trail
  BY DEF MakeFails
<1>3. board' \in Board
  BY <1>1, <1>2, PrefixType
<1>4. UndoInv'
  BY <1>1, UndoMakeFails
<1> QED BY <1>2, <1>3, <1>4 DEF BoardsInv

\* An unmake brings back a board.
LEMMA BoardsUnmake ==
  ASSUME BoardsInv, Unmake
  PROVE  BoardsInv'
<1>1. UndoInv /\ UndoInv' /\ board' = Last(trail).board
  BY UndoUnmake DEF BoardsInv
<1>2. /\ Len(trail) \in Nat \ {0} /\ Len(trail') = Len(trail) - 1
      /\ \A d \in 1 .. Len(trail) - 1 : trail'[d] = trail[d]
  <2>1. undo_stack # <<>> /\ trail' = Front(trail)
    BY DEF Unmake
  <2>2. Len(undo_stack) \in Nat \ {0} /\ Len(undo_stack) = Len(trail)
    BY <1>1, <2>1, PopStack DEF UndoInv
  <2>3. trail # <<>> /\ Stack(trail)
    BY <1>1, <2>2, EmptySeq DEF UndoInv
  <2> QED BY <2>1, <2>3, PopStack
<1>3. board' \in Board
  <2>1. Last(trail) = trail[Len(trail)] /\ Len(trail) \in 1 .. Len(trail)
    BY <1>2 DEF Last
  <2> QED BY <1>1, <2>1 DEF BoardsInv
<1>4. \A d \in 1 .. Len(trail') : trail'[d].board \in Board
  <2>1. \A d \in 1 .. Len(trail') : d \in 1 .. Len(trail) - 1 /\ d \in 1 .. Len(trail)
    BY <1>2
  <2> QED BY <1>2, <2>1 DEF BoardsInv
<1> QED BY <1>1, <1>3, <1>4 DEF BoardsInv

\* Every step of the search leaves a board.
LEMMA BoardsNext == BoardsInv /\ [Next]_vars => BoardsInv'
<1> SUFFICES ASSUME BoardsInv, [Next]_vars PROVE BoardsInv'
  OBVIOUS
<1>1. CASE Next
  BY <1>1, BoardsMake, BoardsMakeFails, BoardsUnmake DEF Next
<1>2. CASE UNCHANGED vars
  <2>1. UndoInv'
    BY <1>2 DEF BoardsInv, UndoInv, vars
  <2> QED BY <1>2, <2>1 DEF BoardsInv, vars
<1> QED BY <1>1, <1>2

\* Whatever CoreSearchStateMakeMovesDetailed and Unmake do, makes that fail
\* half-way included, the search and every frame it may go back to hold a board:
\* each snake and each piece of food in its type, on the ground it began with.
THEOREM BoardsAlways == Spec => []BoardsInv
<1>1. BoardsInv /\ [Next]_vars => BoardsInv'
  BY BoardsNext, Zenon
<1> QED BY <1>1, BoardsInit, PTL DEF Spec

\* A step that deepens the stack writes what the rules say.
LEMMA StepFollowsRules ==
  ASSUME BoardsInv, [Next]_vars
  PROVE  MakeStep /\ DistinctFood => board' = ByTheRules
<1> SUFFICES ASSUME MakeStep, DistinctFood PROVE board' = ByTheRules
  OBVIOUS
<1>1. Len(trail) \in Nat
  <2>1. Stack(trail)
    BY DEF BoardsInv, UndoInv
  <2> QED BY <2>1, PushStack
<1>2. ~UNCHANGED vars
  BY <1>1 DEF MakeStep, vars
<1>3. ASSUME NEW command \in Commands, NEW n, MakeFails(command, n) PROVE FALSE
  <2>1. trail' = trail
    BY <1>3 DEF MakeFails
  <2> QED BY <1>1, <2>1 DEF MakeStep
<1>4. ASSUME Unmake PROVE FALSE
  <2>1. undo_stack # <<>> /\ trail' = Front(trail)
    BY <1>4 DEF Unmake
  <2>2. Len(undo_stack) \in Nat \ {0} /\ Len(undo_stack) = Len(trail)
    BY <2>1, PopStack DEF BoardsInv, UndoInv
  <2>3. trail # <<>> /\ Stack(trail)
    BY <2>2, EmptySeq DEF BoardsInv, UndoInv
  <2>4. Len(trail') = Len(trail) - 1
    BY <2>1, <2>3, PopStack
  <2> QED BY <1>1, <2>4 DEF MakeStep
<1>5. PICK command \in Commands : Make(command)
  BY <1>2, <1>3, <1>4 DEF Next
<1>6. board \in Board /\ command \in Orders(board) /\ DistinctCells(board.food)
  BY CommandsAreOrders DEF BoardsInv, DistinctFood, DistinctCells
<1>7. Last(trail').command = command
  <2>1. trail' = Append(trail, [board |-> board, command |-> command]) /\ Stack(trail)
    BY <1>5 DEF Make, BoardsInv, UndoInv
  <2>2. /\ Len(trail') = Len(trail) + 1
        /\ trail'[Len(trail) + 1] = [board |-> board, command |-> command]
    BY <2>1, PushStack
  <2> QED BY <2>2 DEF Last
<1>8. board' = BoardCloneAndApply(board, command)
  <2> DEFINE next == MovedPrefix(board, command, Len(board.snakes))
  <2>1. board' = [next EXCEPT !.snakes = LiveSnakes(next, TerminalCauses(board, next, command)),
                              !.food = FoodLeft(board, next, command)]
    BY <1>5 DEF Make
  <2>2. next = MovedPrefix(board, command, Len(board.snakes))
    OBVIOUS
  <2> HIDE DEF next
  <2> QED BY <1>6, <2>1, <2>2, MakeIsTheRules
<1> QED BY <1>7, <1>8 DEF ByTheRules

\* CoreSearchStateMakeMovesDetailed, which moves the snakes in place, records
\* why each one dies and compacts the arrays, leaves the very board that
\* BoardCloneAndApply returns for the same commands: for every board, any number
\* of snakes, and all that was made, failed and unmade before.
THEOREM MakeFollowsRulesAlways == Spec => MakeFollowsRules
<1>1. BoardsInv /\ [Next]_vars => (MakeStep /\ DistinctFood => board' = ByTheRules)
  BY StepFollowsRules, Zenon
<1> QED BY <1>1, BoardsAlways, PTL DEF Spec, MakeFollowsRules

-----------------------------------------------------------------------------
(* The order of the snakes. *)

\* One turn by the rules, from the board and the orders alone.
LEMMA TurnIs ==
  ASSUME NEW b \in Board, NEW command \in Orders(b)
  PROVE  BoardCloneAndApply(b, command)
           = [b EXCEPT !.snakes = Without(AllMoved(b, command),
                                    Dead(AllMoved(b, command),
                                         Out(b, AllMoved(b, command), Commanded(b, command)))),
                       !.food = Without(b.food, Eaten(b, AllMoved(b, command),
                                                      Commanded(b, command)))]
<1>1. BoardCloneAndApply(b, command) = Resolve(b, AllMoved(b, command), Commanded(b, command))
  BY AllMovedIs DEF BoardCloneAndApply
<1>2. \A snakes, moved :
        Resolve(b, snakes, moved)
          = [b EXCEPT !.snakes = Without(snakes, Dead(snakes, Out(b, snakes, moved))),
                      !.food = Without(b.food, Eaten(b, snakes, moved))]
  BY DEF Resolve, Eaten
<1> QED BY <1>1, <1>2

\* The snakes of t are those of s, in the opposite order.
Mirrored(s, t) ==
  /\ s \in Seq(Snake) /\ t \in Seq(Snake) /\ Len(t) = Len(s)
  /\ \A i \in 1 .. Len(s) : t[i] = s[Len(s) + 1 - i]

\* Counting from the other end, twice.
LEMMA MirrorIndex ==
  ASSUME NEW n \in Nat
  PROVE  \A i \in 1 .. n : n + 1 - i \in 1 .. n /\ n + 1 - (n + 1 - i) = i
OBVIOUS

\* Who dies does not depend on the end from which one counts.
LEMMA MirroredDead ==
  ASSUME NEW s, NEW t, Mirrored(s, t), NEW out, NEW outBack,
         out \subseteq 1 .. Len(s), outBack \subseteq 1 .. Len(s),
         \A i \in 1 .. Len(s) : i \in outBack <=> Len(s) + 1 - i \in out
  PROVE  \A i \in 1 .. Len(s) : i \in Dead(t, outBack) <=> Len(s) + 1 - i \in Dead(s, out)
<1> DEFINE N == Len(s)
           M(i) == N + 1 - i
           hit == out \cup {i \in DOMAIN s \ out : HitsBody(s, i)}
           hitBack == outBack \cup {i \in DOMAIN t \ outBack : HitsBody(t, i)}
<1>1. /\ N \in Nat /\ DOMAIN s = 1 .. N /\ DOMAIN t = 1 .. N
      /\ s \in Seq(Snake) /\ t \in Seq(Snake)
      /\ \A i \in 1 .. N : t[i] = s[M(i)]
  BY DEF Mirrored
<1>2. \A i \in 1 .. N : M(i) \in 1 .. N /\ M(M(i)) = i
  BY <1>1, MirrorIndex
<1>3. Dead(s, out) = AfterEncounters(s, hit) /\ Dead(t, outBack) = AfterEncounters(t, hitBack)
  BY <1>1, HeadToHeadIs DEF Dead
<1>4. \A i \in 1 .. N : i \in outBack <=> M(i) \in out
  OBVIOUS
<1>8. hit = out \cup {i \in 1 .. N \ out : HitsBody(s, i)}
      /\ hitBack = outBack \cup {i \in 1 .. N \ outBack : HitsBody(t, i)}
  BY <1>1
<1> HIDE DEF N, M, hit, hitBack
<1>5. \A i \in 1 .. N : HitsBody(t, i) <=> HitsBody(s, M(i))
  <2> TAKE i \in 1 .. N
  <2>1. t[i] = s[M(i)]
    BY <1>1
  <2>2. ASSUME HitsBody(t, i) PROVE HitsBody(s, M(i))
    <3>1. PICK j \in 1 .. N : \E k \in 2 .. Len(t[j].body) : t[j].body[k] = SnakeHead(t[i])
      BY <1>1, <2>2 DEF HitsBody
    <3>2. t[j] = s[M(j)] /\ M(j) \in DOMAIN s
      BY <1>1, <1>2
    <3> QED BY <2>1, <3>1, <3>2 DEF HitsBody
  <2>3. ASSUME HitsBody(s, M(i)) PROVE HitsBody(t, i)
    <3>1. PICK j \in 1 .. N : \E k \in 2 .. Len(s[j].body) : s[j].body[k] = SnakeHead(s[M(i)])
      BY <1>1, <2>3 DEF HitsBody
    <3>2. t[M(j)] = s[j] /\ M(j) \in DOMAIN t
      BY <1>1, <1>2
    <3> QED BY <2>1, <3>1, <3>2 DEF HitsBody
  <2> QED BY <2>2, <2>3
<1>6. \A i \in 1 .. N : i \in hitBack <=> M(i) \in hit
  BY <1>2, <1>4, <1>5, <1>8
<1>7. \A i, j \in 1 .. N : Beats(t, j, i) <=> Beats(s, M(j), M(i))
  <2> TAKE i, j \in 1 .. N
  <2>1. t[i] = s[M(i)] /\ t[j] = s[M(j)] /\ (j # i <=> M(j) # M(i))
    BY <1>1, <1>2
  <2> QED BY <2>1 DEF Beats
<1>9. ASSUME NEW i \in 1 .. N
      PROVE  i \in AfterEncounters(t, hitBack) <=> M(i) \in AfterEncounters(s, hit)
  <2>1. ASSUME NEW j \in 1 .. N, j \notin hitBack, Beats(t, j, i)
        PROVE  \E k \in 1 .. N : k \notin hit /\ Beats(s, k, M(i))
    BY <1>2, <1>6, <1>7, <2>1
  <2>2. ASSUME NEW j \in 1 .. N, j \notin hit, Beats(s, j, M(i))
        PROVE  \E k \in 1 .. N : k \notin hitBack /\ Beats(t, k, i)
    <3>1. M(j) \in 1 .. N /\ M(M(j)) = j
      BY <1>2
    <3>2. M(j) \notin hitBack /\ Beats(t, M(j), i)
      BY <1>6, <1>7, <2>2, <3>1
    <3> QED BY <3>1, <3>2
  <2>3. /\ i \in AfterEncounters(t, hitBack)
             <=> i \in hitBack \/ \E j \in 1 .. N : j \notin hitBack /\ Beats(t, j, i)
        /\ M(i) \in AfterEncounters(s, hit)
             <=> M(i) \in hit \/ \E j \in 1 .. N : j \notin hit /\ Beats(s, j, M(i))
    BY <1>1, <1>2 DEF AfterEncounters
  <2> QED BY <1>6, <2>1, <2>2, <2>3
<1> QED BY <1>3, <1>9 DEF N, M

\* The reversed board differs in nothing but the order of its snakes.
LEMMA ReversedBoard ==
  ASSUME NEW b \in Board
  PROVE  /\ Reversed(b) \in Board
         /\ Reversed(b) = [b EXCEPT !.snakes = Reverse(b.snakes)]
         /\ Reversed(b).snakes = Reverse(b.snakes) /\ Reversed(b).food = b.food
         /\ \A snake, move : MovedSnake(Reversed(b), snake, move) = MovedSnake(b, snake, move)
         /\ \A cell : InBounds(Reversed(b), cell) <=> InBounds(b, cell)
<1>1. Reversed(b) = [b EXCEPT !.snakes = Reverse(b.snakes)]
  BY DEF Reversed
<1>2. Reverse(b.snakes) \in Seq(Snake)
  BY BoardFields, ReverseFacts
<1>3. /\ Reversed(b).snakes = Reverse(b.snakes) /\ Reversed(b).food = b.food
      /\ Reversed(b).constrictor = b.constrictor /\ Reversed(b).hazards = b.hazards
      /\ Reversed(b).hazard_damage = b.hazard_damage
      /\ Reversed(b).width = b.width /\ Reversed(b).height = b.height
  BY <1>1 DEF Board
<1>4. Reversed(b) \in Board
  BY <1>1, <1>2 DEF Board
<1> DEFINE r == Reversed(b)
<1> HIDE DEF r
<1>5. \A snake, move : MovedSnake(r, snake, move) = MovedSnake(b, snake, move)
  BY <1>3 DEF MovedSnake, MovedTo, Food, r
<1>6. \A cell : InBounds(r, cell) <=> InBounds(b, cell)
  BY <1>3 DEF InBounds, r
<1> QED BY <1>1, <1>3, <1>4, <1>5, <1>6 DEF r

\* The snakes of the reversed board move as they did.
LEMMA ReversedMoves ==
  ASSUME NEW b \in Board, NEW command \in Orders(b)
  PROVE  /\ command \in Orders(Reversed(b))
         /\ Commanded(Reversed(b), command) \subseteq 1 .. Len(b.snakes)
         /\ \A i \in 1 .. Len(b.snakes) :
              i \in Commanded(Reversed(b), command)
                <=> Len(b.snakes) + 1 - i \in Commanded(b, command)
         /\ AllMoved(Reversed(b), command) = Reverse(AllMoved(b, command))
         /\ Mirrored(AllMoved(b, command), AllMoved(Reversed(b), command))
<1> DEFINE N == Len(b.snakes)
           s == b.snakes
           r == Reversed(b)
           t == r.snakes
           M(i) == N + 1 - i
           m == AllMoved(b, command)
           n == AllMoved(r, command)
<1>1. s \in Seq(Snake) /\ N \in Nat /\ Indices(b) = 1 .. N
  BY BoardFields
<1>2. /\ r \in Board /\ t \in Seq(Snake) /\ Len(t) = N /\ Indices(r) = 1 .. N
      /\ \A i \in 1 .. N : t[i] = s[M(i)]
  <2>1. r \in Board /\ t = Reverse(s)
    BY ReversedBoard
  <2>2. Reverse(s) \in Seq(Snake) /\ Len(Reverse(s)) = N
        /\ \A i \in 1 .. N : Reverse(s)[i] = s[M(i)]
    BY <1>1, ReverseFacts
  <2>3. Indices(r) = 1 .. Len(t)
    BY <2>1, BoardFields
  <2> HIDE DEF r, M, N
  <2> QED BY <2>1, <2>2, <2>3
<1>3. \A i \in 1 .. N : M(i) \in 1 .. N /\ M(M(i)) = i
  BY <1>1, MirrorIndex
<1>4. \A snake, move : MovedSnake(r, snake, move) = MovedSnake(b, snake, move)
  BY ReversedBoard
<1> HIDE DEF r, M, N, s
<1>5. SnakeIds(r) = SnakeIds(b)
  <2>1. SnakeIds(r) = {t[i].id : i \in 1 .. N} /\ SnakeIds(b) = {s[i].id : i \in 1 .. N}
    BY <1>1, <1>2 DEF SnakeIds, s
  <2>2. {t[i].id : i \in 1 .. N} \subseteq {s[i].id : i \in 1 .. N}
    BY <1>2, <1>3
  <2>3. {s[i].id : i \in 1 .. N} \subseteq {t[i].id : i \in 1 .. N}
    BY <1>2, <1>3
  <2> QED BY <2>1, <2>2, <2>3
<1>6. command \in Orders(r)
  BY <1>5 DEF Orders
<1>7. /\ Commanded(r, command) \subseteq 1 .. N /\ Commanded(b, command) \subseteq 1 .. N
      /\ \A i \in 1 .. N : i \in Commanded(r, command)
                             <=> command[t[i].id] # Invalid /\ t[i].body # <<>>
      /\ \A i \in 1 .. N : i \in Commanded(b, command)
                             <=> command[s[i].id] # Invalid /\ s[i].body # <<>>
  BY <1>1, <1>2 DEF Commanded, s
<1>8. \A i \in 1 .. N : i \in Commanded(r, command) <=> M(i) \in Commanded(b, command)
  BY <1>2, <1>3, <1>7
<1>9. /\ m \in Seq(Snake) /\ Len(m) = N /\ n \in Seq(Snake) /\ Len(n) = N
      /\ \A i \in 1 .. N : m[i] = IF i \in Commanded(b, command)
                                  THEN MovedSnake(b, s[i], command[s[i].id]) ELSE s[i]
      /\ \A i \in 1 .. N : n[i] = IF i \in Commanded(r, command)
                                  THEN MovedSnake(r, t[i], command[t[i].id]) ELSE t[i]
  <2>1. /\ m = [i \in 1 .. N |-> IF i \in Commanded(b, command)
                                 THEN MovedSnake(b, s[i], command[s[i].id]) ELSE s[i]]
        /\ m \in Seq(Snake) /\ Len(m) = N
    BY <1>1, AllMovedIs DEF s, N
  <2>2. /\ n = [i \in 1 .. N |-> IF i \in Commanded(r, command)
                                 THEN MovedSnake(r, t[i], command[t[i].id]) ELSE t[i]]
        /\ n \in Seq(Snake) /\ Len(n) = Len(t)
    <3>1. r \in Board
      BY <1>2
    <3>2. /\ n = [i \in Indices(r) |-> IF i \in Commanded(r, command)
                                       THEN MovedSnake(r, t[i], command[t[i].id]) ELSE t[i]]
          /\ n \in Seq(Snake) /\ Len(n) = Len(t)
      BY ONLY <1>6, <3>1, AllMovedIs
    <3> HIDE DEF n
    <3> QED BY <1>2, <3>2
  <2> HIDE DEF m, n
  <2> QED BY <1>2, <2>1, <2>2
<1> HIDE DEF m, n
<1>10. \A i \in 1 .. N : n[i] = m[M(i)]
  BY <1>2, <1>3, <1>4, <1>8, <1>9
<1>11. Mirrored(m, n)
  BY <1>9, <1>10 DEF Mirrored, M
<1>12. n = Reverse(m)
  <2>1. /\ Reverse(m) \in Seq(Snake) /\ Len(Reverse(m)) = N
        /\ \A i \in 1 .. N : Reverse(m)[i] = m[M(i)]
    BY <1>9, ReverseFacts DEF M
  <2> QED BY <1>9, <1>10, <2>1, SeqEqual
<1> QED BY <1>6, <1>7, <1>8, <1>11, <1>12 DEF m, n, r, N, M

\* A turn of the reversed board is the reversed turn.
LEMMA TurnReversed ==
  ASSUME NEW b \in Board, NEW command \in Orders(b)
  PROVE  BoardCloneAndApply(Reversed(b), command) = Reversed(BoardCloneAndApply(b, command))
<1> DEFINE N == Len(b.snakes)
           r == Reversed(b)
           M(i) == N + 1 - i
           m == AllMoved(b, command)
           n == AllMoved(r, command)
           moved == Commanded(b, command)
           movedBack == Commanded(r, command)
           out == Out(b, m, moved)
           outBack == Out(r, n, movedBack)
           gone == Dead(m, out)
           goneBack == Dead(n, outBack)
<1>1. /\ r \in Board /\ command \in Orders(r) /\ r.food = b.food
      /\ r = [b EXCEPT !.snakes = Reverse(b.snakes)]
      /\ \A cell : InBounds(r, cell) <=> InBounds(b, cell)
  BY ReversedBoard, ReversedMoves
<1>2. /\ m \in Seq(Snake) /\ Len(m) = N /\ n \in Seq(Snake) /\ Len(n) = N
      /\ n = Reverse(m) /\ Mirrored(m, n) /\ \A i \in 1 .. N : n[i] = m[M(i)]
  <2>1. Mirrored(m, n) /\ n = Reverse(m)
    BY ReversedMoves
  <2>2. Len(m) = N
    BY AllMovedIs
  <2> HIDE DEF m, n, N
  <2> QED BY <2>1, <2>2 DEF Mirrored
<1>3. /\ moved \subseteq 1 .. N /\ movedBack \subseteq 1 .. N
      /\ \A i \in 1 .. N : i \in movedBack <=> M(i) \in moved
  <2>1. moved \subseteq 1 .. N
    BY BoardFields DEF Commanded
  <2> QED BY <2>1, ReversedMoves
<1>4. N \in Nat /\ Indices(b) = 1 .. N /\ Indices(r) = 1 .. N
  <2>1. N \in Nat /\ Indices(b) = 1 .. N
    BY BoardFields
  <2>2. r.snakes = Reverse(b.snakes) /\ Indices(r) = 1 .. Len(r.snakes)
    BY <1>1, BoardFields, ReversedBoard
  <2>3. Len(Reverse(b.snakes)) = N
    BY BoardFields, ReverseFacts
  <2> HIDE DEF r, N
  <2> QED BY <2>1, <2>2, <2>3
<1>5. \A i \in 1 .. N : M(i) \in 1 .. N /\ M(M(i)) = i
  BY <1>4, MirrorIndex
<1>6. Dead(m, out) = gone /\ Dead(n, outBack) = goneBack
  OBVIOUS
<1>7. BoardCloneAndApply(b, command)
        = [b EXCEPT !.snakes = Without(m, gone), !.food = Without(b.food, Eaten(b, m, moved))]
  BY TurnIs
<1>8. BoardCloneAndApply(r, command)
        = [r EXCEPT !.snakes = Without(n, goneBack),
                    !.food = Without(r.food, Eaten(r, n, movedBack))]
  BY <1>1, TurnIs
<1> HIDE DEF r, m, n, moved, movedBack, N, M, gone, goneBack
<1>9. /\ out \subseteq 1 .. N /\ outBack \subseteq 1 .. N
      /\ \A i \in 1 .. N : i \in outBack <=> M(i) \in out
  <2>1. /\ out = {i \in 1 .. N : \/ i \notin moved \/ ~InBounds(b, SnakeHead(m[i]))
                                 \/ m[i].health <= 0}
        /\ outBack = {i \in 1 .. N : \/ i \notin movedBack \/ ~InBounds(r, SnakeHead(n[i]))
                                     \/ n[i].health <= 0}
    BY <1>4 DEF Out
  <2> HIDE DEF out, outBack
  <2> QED BY <1>1, <1>2, <1>3, <1>5, <2>1
<1> HIDE DEF out, outBack
<1>10. \A i \in 1 .. N : i \in goneBack <=> M(i) \in gone
  <2>1. \A i \in 1 .. Len(m) : i \in outBack <=> Len(m) + 1 - i \in out
    BY <1>2, <1>9 DEF M
  <2>2. Len(m) = N /\ \A i \in 1 .. N : M(i) = Len(m) + 1 - i
    BY <1>2 DEF M
  <2>3. out \subseteq 1 .. Len(m) /\ outBack \subseteq 1 .. Len(m) /\ Mirrored(m, n)
    BY <1>2, <1>9
  <2>4. \A i \in 1 .. Len(m) : i \in Dead(n, outBack) <=> Len(m) + 1 - i \in Dead(m, out)
    BY <2>1, <2>3, MirroredDead
  <2> QED BY <1>6, <2>2, <2>4
<1>11. Without(n, goneBack) = Reverse(Without(m, gone))
  <2>1. \A i \in 1 .. Len(m) : i \in goneBack <=> Len(m) + 1 - i \in gone
    BY <1>2, <1>10 DEF M
  <2>2. Without(Reverse(m), goneBack) = Reverse(Without(m, gone))
    BY <1>2, <2>1, WithoutReversed
  <2> QED BY <1>2, <2>2
<1>12. Eaten(r, n, movedBack) = Eaten(b, m, moved)
  <2>1. \A i \in movedBack : M(i) \in moved /\ n[i] = m[M(i)]
    BY <1>2, <1>3
  <2>2. \A i \in moved : M(i) \in movedBack /\ n[M(i)] = m[i]
    BY <1>2, <1>3, <1>5
  <2>3. {SnakeHead(n[i]) : i \in movedBack} = {SnakeHead(m[i]) : i \in moved}
    BY <2>1, <2>2
  <2> QED BY <1>1, <2>3 DEF Eaten
<1> DEFINE live == Without(m, gone)
           left == Without(b.food, Eaten(b, m, moved))
<1>13. BoardCloneAndApply(r, command) = [r EXCEPT !.snakes = Reverse(live), !.food = left]
  BY <1>1, <1>8, <1>11, <1>12
<1>14. BoardCloneAndApply(b, command) = [b EXCEPT !.snakes = live, !.food = left]
  BY <1>7
<1> HIDE DEF live, left
<1>15. Reversed([b EXCEPT !.snakes = live, !.food = left])
         = [b EXCEPT !.snakes = Reverse(live), !.food = left]
  BY DEF Reversed, Board
<1>16. [r EXCEPT !.snakes = Reverse(live), !.food = left]
         = [b EXCEPT !.snakes = Reverse(live), !.food = left]
  BY <1>1 DEF Board
<1> QED BY <1>13, <1>14, <1>15, <1>16 DEF r

\* The loop of BoardCloneAndApply over pairs of heads skips the dead and kills
\* as it goes, and yet the order of the snakes in the array decides nothing: the
\* turn of the reversed board is the reversed turn.
THEOREM OrderIndependentAlways == Spec => []OrderIndependent
<1>1. BoardsInv => OrderIndependent
  <2> SUFFICES ASSUME BoardsInv, NEW command \in Commands
               PROVE  BoardCloneAndApply(Reversed(board), command)
                        = Reversed(BoardCloneAndApply(board, command))
    BY DEF OrderIndependent
  <2>1. board \in Board /\ command \in Orders(board)
    BY CommandsAreOrders DEF BoardsInv
  <2> QED BY <2>1, TurnReversed
<1> QED BY <1>1, BoardsAlways, PTL

-----------------------------------------------------------------------------
(* What a turn makes of a proper board. *)

\* The lengths by which a body that moves may change.
Grew(b, head) == head \in Food(b) \/ b.constrictor

KeptLength(b, snake, head) == IF Grew(b, head) THEN Len(snake.body) ELSE Len(snake.body) - 1

\* Snake s has become snake t by taking its head to a cell.
MovesTo(b, s, head, t) ==
  LET m == KeptLength(b, s, head)
  IN  /\ t.id = s.id /\ m \in Nat /\ m <= Len(s.body)
      /\ t.body \in Seq(Cell) /\ Len(t.body) = m + 1 /\ t.length = m + 1
      /\ t.body[1] = head /\ SnakeHead(t) = head
      /\ \A k \in 1 .. m : t.body[k + 1] = s.body[k]
      /\ t.health = IF head \in Food(b) THEN 100
                    ELSE IF head \in b.hazards THEN s.health - 1 - b.hazard_damage
                                               ELSE s.health - 1

\* A snake that moves has gone to its cell.
LEMMA MovedParts ==
  ASSUME NEW b \in Board, NEW snake \in Snake, snake.body # <<>>, NEW move \in Moves
  PROVE  /\ MoveStep(SnakeHead(snake), move) \in Cell
         /\ MovesTo(b, snake, MoveStep(SnakeHead(snake), move), MovedSnake(b, snake, move))
<1> DEFINE head == MoveStep(SnakeHead(snake), move)
           moved == MovedSnake(b, snake, move)
           n == Len(snake.body)
           m == KeptLength(b, snake, head)
           body == <<head>> \o SubSeq(snake.body, 1, m)
           health == IF head \in Food(b) THEN 100
                     ELSE IF head \in b.hazards THEN snake.health - 1 - b.hazard_damage
                                                ELSE snake.health - 1
<1>1. /\ snake.body \in Seq(Cell) /\ snake.health \in Int /\ n \in Nat \ {0}
      /\ b.constrictor \in BOOLEAN
  BY EmptySeq DEF Snake, Board
<1>2. head \in Cell
  BY HeadType, StepType
<1>3. m \in 0 .. n /\ m \in Nat /\ m <= n
  BY <1>1 DEF KeptLength
<1>4. /\ body \in Seq(Cell) /\ Len(body) = m + 1 /\ body[1] = head
      /\ \A k \in 1 .. m : body[k + 1] = snake.body[k]
  BY <1>1, <1>2, <1>3, BodyShift
<1>5. moved = [snake EXCEPT !.body = body, !.length = Len(body), !.health = health]
  <2>1. MoveLiveSnake(b, snake, move)
          = [snake EXCEPT !.body = body, !.length = Len(body), !.health = health]
    BY DEF MoveLiveSnake, KeptLength, Grew
  <2> HIDE DEF moved, body, health
  <2>2. MoveLiveSnake(b, snake, move) = moved
    BY SameMove DEF moved
  <2> QED BY <2>1, <2>2
<1> HIDE DEF body, health, moved, m, head, n
<1>6. /\ moved.id = snake.id /\ moved.body = body /\ moved.length = m + 1
      /\ moved.health = health
  BY <1>4, <1>5 DEF Snake
<1>7. SnakeHead(moved) = head
  <2>1. body # <<>> /\ Head(body) = body[1]
    BY <1>3, <1>4
  <2> QED BY <1>4, <1>6, <2>1 DEF SnakeHead
<1>8. /\ head \in Cell /\ moved.id = snake.id
      /\ m \in Nat /\ m <= n
      /\ moved.body \in Seq(Cell) /\ Len(moved.body) = m + 1 /\ moved.length = m + 1
      /\ moved.body[1] = head /\ SnakeHead(moved) = head
      /\ \A k \in 1 .. m : moved.body[k + 1] = snake.body[k]
      /\ moved.health = health
  BY <1>2, <1>3, <1>4, <1>6, <1>7
<1> QED BY <1>8 DEF MovesTo, moved, m, head, health, n

\* Every snake has an id of its own.
DistinctIds(b) == \A i, j \in Indices(b) : b.snakes[i].id = b.snakes[j].id => i = j

LEMMA ProperIds ==
  ASSUME NEW b, Proper(b)
  PROVE  DistinctIds(b)
BY DEF Proper, DistinctIds

\* A snake keeps its id when it moves.
LEMMA IdsStay ==
  ASSUME NEW b \in Board, NEW command \in Orders(b), NEW j \in 1 .. Len(b.snakes)
  PROVE  AllMoved(b, command)[j].id = b.snakes[j].id
<1> DEFINE m == AllMoved(b, command)
<1>1. m[j] = IF j \in Commanded(b, command)
             THEN MovedSnake(b, b.snakes[j], command[b.snakes[j].id]) ELSE b.snakes[j]
  <2>1. m = [k \in 1 .. Len(b.snakes) |->
               IF k \in Commanded(b, command)
               THEN MovedSnake(b, b.snakes[k], command[b.snakes[k].id])
               ELSE b.snakes[k]]
    BY BoardFields, AllMovedIs
  <2> HIDE DEF m
  <2> QED BY <2>1
<1>2. CASE j \in Commanded(b, command)
  <2>1. /\ b.snakes[j] \in Snake /\ b.snakes[j].body # <<>>
        /\ command[b.snakes[j].id] \in Moves
    BY <1>2, OrdersMove
  <2> HIDE DEF m
  <2>2. m[j].id = b.snakes[j].id
    BY <1>1, <1>2, <2>1, MovedParts DEF MovesTo
  <2> QED BY <2>2 DEF m
<1>3. CASE j \notin Commanded(b, command)
  BY <1>1, <1>3
<1> QED BY <1>2, <1>3

\* What a turn leaves: a board, with the snakes that the rules do not kill.
LEMMA TurnLeaves ==
  ASSUME NEW b \in Board, NEW command \in Orders(b)
  PROVE  /\ BoardCloneAndApply(b, command) \in Board
         /\ BoardCloneAndApply(b, command).snakes
              = Without(AllMoved(b, command),
                        Dead(AllMoved(b, command),
                             Out(b, AllMoved(b, command), Commanded(b, command))))
<1> DEFINE m == AllMoved(b, command)
           live == Without(m, Dead(m, Out(b, m, Commanded(b, command))))
           left == Without(b.food, Eaten(b, m, Commanded(b, command)))
           c == BoardCloneAndApply(b, command)
<1>1. c = [b EXCEPT !.snakes = live, !.food = left]
  BY TurnIs
<1>2. live \in Seq(Snake)
  <2>1. m \in Seq(Snake)
    BY AllMovedIs
  <2> QED BY <2>1, WithoutPlaces
<1>3. left \in Seq(Cell)
  BY BoardFields, WithoutPlaces
<1> HIDE DEF live, left, c
<1>4. c \in Board /\ c.snakes = live
  BY <1>1, <1>2, <1>3 DEF Board
<1> QED BY <1>4 DEF c, live

\* Who survives a turn: those the rules do not kill.
LEMMA SurvivesIs ==
  ASSUME NEW b \in Board, DistinctIds(b), NEW command \in Orders(b),
         NEW i \in 1 .. Len(b.snakes)
  PROVE  b.snakes[i].id \in SnakeIds(BoardCloneAndApply(b, command))
           <=> i \notin Dead(AllMoved(b, command),
                             Out(b, AllMoved(b, command), Commanded(b, command)))
<1> DEFINE N == Len(b.snakes)
           m == AllMoved(b, command)
           gone == Dead(m, Out(b, m, Commanded(b, command)))
           live == Without(m, gone)
           c == BoardCloneAndApply(b, command)
<1>1. N \in Nat /\ Indices(b) = 1 .. N
  BY BoardFields
<1>2. m \in Seq(Snake) /\ Len(m) = N
  BY AllMovedIs
<1>3. \A j \in 1 .. N : m[j].id = b.snakes[j].id
  BY IdsStay
<1>4. c.snakes = live
  BY TurnLeaves
<1> HIDE DEF c, m, gone
<1>5. /\ live \in Seq(Snake)
      /\ \E at : Places(at, live, m, gone, N)
  BY <1>2, WithoutPlaces
<1>6. PICK at : Places(at, live, m, gone, N)
  BY <1>5
<1> HIDE DEF live
<1>7. SnakeIds(c) = {live[k].id : k \in 1 .. Len(live)}
  <2>1. DOMAIN live = 1 .. Len(live)
    BY <1>5
  <2> QED BY <1>4, <2>1 DEF SnakeIds, Indices
<1>8. ASSUME i \notin gone PROVE b.snakes[i].id \in SnakeIds(c)
  <2>1. PICK k \in 1 .. Len(live) : at[k] = i
    BY <1>6, <1>8 DEF Places
  <2>2. live[k] = m[i]
    BY <1>6, <2>1 DEF Places
  <2> QED BY <1>3, <1>7, <2>1, <2>2
<1>9. ASSUME b.snakes[i].id \in SnakeIds(c) PROVE i \notin gone
  <2>1. PICK k \in 1 .. Len(live) : live[k].id = b.snakes[i].id
    BY <1>7, <1>9
  <2>2. at[k] \in (1 .. N) \ gone /\ live[k] = m[at[k]]
    BY <1>6, <2>1 DEF Places
  <2>3. b.snakes[at[k]].id = b.snakes[i].id
    BY <1>3, <2>1, <2>2
  <2>4. at[k] = i
    BY <1>1, <2>2, <2>3 DEF DistinctIds
  <2> QED BY <2>2, <2>4
<1> QED BY <1>8, <1>9 DEF c, gone, m

\* The snakes that a turn leaves have the ids they had, each its own.
LEMMA TurnKeepsIds ==
  ASSUME NEW b \in Board, DistinctIds(b), NEW command \in Orders(b)
  PROVE  /\ DistinctIds(BoardCloneAndApply(b, command))
         /\ SnakeIds(BoardCloneAndApply(b, command)) \subseteq SnakeIds(b)
<1> DEFINE N == Len(b.snakes)
           m == AllMoved(b, command)
           gone == Dead(m, Out(b, m, Commanded(b, command)))
           live == Without(m, gone)
           n == Len(live)
           c == BoardCloneAndApply(b, command)
<1>1. N \in Nat /\ Indices(b) = 1 .. N
  BY BoardFields
<1>2. m \in Seq(Snake) /\ Len(m) = N
  BY AllMovedIs
<1>3. \A j \in 1 .. N : m[j].id = b.snakes[j].id
  BY IdsStay
<1>4. c.snakes = live
  BY TurnLeaves
<1> HIDE DEF c, m, gone
<1>5. /\ live \in Seq(Snake)
      /\ \E at : Places(at, live, m, gone, N)
  BY <1>2, WithoutPlaces
<1>6. PICK at : Places(at, live, m, gone, N)
  BY <1>5
<1> HIDE DEF live
<1>7. Indices(c) = 1 .. n /\ n \in Nat
  BY <1>4, <1>5 DEF Indices
<1>8. \A k \in 1 .. n : at[k] \in 1 .. N /\ live[k] = m[at[k]]
  BY <1>6 DEF Places
<1>9. \A k, l \in 1 .. n : k < l => at[k] < at[l]
  BY <1>6 DEF Places
<1> HIDE DEF n, N
<1>10. \A k \in 1 .. n : c.snakes[k].id = b.snakes[at[k]].id
  BY <1>3, <1>4, <1>8
<1>11. ASSUME NEW k \in 1 .. n, NEW l \in 1 .. n, c.snakes[k].id = c.snakes[l].id
       PROVE  k = l
  <2>1. at[k] = at[l]
    BY <1>1, <1>8, <1>10, <1>11 DEF DistinctIds
  <2>2. ~(at[k] < at[l]) /\ ~(at[l] < at[k])
    <3>1. at[k] \in Int
      BY <1>1, <1>8
    <3> QED BY <2>1, <3>1
  <2> QED BY <1>7, <1>9, <2>2
<1>12. DistinctIds(c)
  BY <1>7, <1>11 DEF DistinctIds
<1>13. SnakeIds(c) \subseteq SnakeIds(b)
  BY <1>1, <1>7, <1>8, <1>10 DEF SnakeIds
<1> QED BY <1>12, <1>13 DEF c

\* How a snake dies, told without the loop over pairs.
LEMMA DeadIs ==
  ASSUME NEW b \in Board, NEW command \in Orders(b), NEW i \in 1 .. Len(b.snakes)
  PROVE  LET m == AllMoved(b, command)
             out == Out(b, m, Commanded(b, command))
             Gone(j) == j \in out \/ HitsBody(m, j)
         IN  i \in Dead(m, out)
               <=> Gone(i) \/ \E j \in 1 .. Len(b.snakes) : ~Gone(j) /\ Beats(m, j, i)
<1> DEFINE m == AllMoved(b, command)
           N == Len(b.snakes)
           out == Out(b, m, Commanded(b, command))
           hit == out \cup {j \in DOMAIN m \ out : HitsBody(m, j)}
<1>1. m \in Seq(Snake) /\ DOMAIN m = 1 .. N
  <2>1. m \in Seq(Snake) /\ Len(m) = N
    BY AllMovedIs
  <2> HIDE DEF m
  <2> QED BY <2>1
<1>2. out \subseteq 1 .. N
  BY BoardFields DEF Out
<1>3. Dead(m, out) = AfterEncounters(m, hit)
  BY <1>1, HeadToHeadIs DEF Dead
<1> HIDE DEF m, out, N
<1>4. \A j \in 1 .. N : j \in hit <=> j \in out \/ HitsBody(m, j)
  BY <1>1
<1> HIDE DEF hit
<1>5. i \in 1 .. N
  BY DEF N
<1> QED BY <1>1, <1>3, <1>4, <1>5 DEF AfterEncounters, m, out, N

\* The cell to which snake j is sent.
Target(b, command, j) == MoveStep(SnakeHead(b.snakes[j]), command[b.snakes[j].id])

\* A snake that is commanded has gone to the cell it was sent to.
LEMMA MovedOne ==
  ASSUME NEW b \in Board, NEW command \in Orders(b), NEW j \in Commanded(b, command)
  PROVE  /\ j \in 1 .. Len(b.snakes) /\ b.snakes[j] \in Snake
         /\ b.snakes[j].body # <<>> /\ b.snakes[j].body \in Seq(Cell)
         /\ command[b.snakes[j].id] \in Moves /\ Target(b, command, j) \in Cell
         /\ MovesTo(b, b.snakes[j], Target(b, command, j), AllMoved(b, command)[j])
<1> DEFINE all == AllMoved(b, command)
           s == b.snakes[j]
<1>1. j \in 1 .. Len(b.snakes) /\ s \in Snake /\ s.body # <<>> /\ command[s.id] \in Moves
  BY OrdersMove
<1>2. all[j] = MovedSnake(b, s, command[s.id])
  <2>1. all = [k \in 1 .. Len(b.snakes) |->
                 IF k \in Commanded(b, command)
                 THEN MovedSnake(b, b.snakes[k], command[b.snakes[k].id])
                 ELSE b.snakes[k]]
    BY AllMovedIs, BoardFields
  <2> HIDE DEF all
  <2> QED BY <1>1, <2>1
<1> DEFINE head == MoveStep(SnakeHead(s), command[s.id])
<1>3. head \in Cell /\ MovesTo(b, s, head, MovedSnake(b, s, command[s.id]))
  BY <1>1, MovedParts
<1>4. s.body \in Seq(Cell)
  BY <1>1 DEF Snake
<1> HIDE DEF all, s
<1> QED BY <1>1, <1>2, <1>3, <1>4 DEF Target, all, s

\* A head that meets no body: no part of a body but its head is in the cell.
LEMMA MeetsNoBody ==
  ASSUME NEW b \in Board, NEW command \in Orders(b), NEW i \in 1 .. Len(b.snakes),
         NEW j \in 1 .. Len(b.snakes), ~HitsBody(AllMoved(b, command), i),
         NEW k \in 2 .. Len(AllMoved(b, command)[j].body)
  PROVE  AllMoved(b, command)[j].body[k] # SnakeHead(AllMoved(b, command)[i])
<1> DEFINE m == AllMoved(b, command)
<1>1. DOMAIN m = 1 .. Len(b.snakes)
  <2>1. m \in Seq(Snake) /\ Len(m) = Len(b.snakes)
    BY AllMovedIs
  <2> HIDE DEF m
  <2> QED BY <2>1
<1>2. \A l \in DOMAIN m : \A x \in 2 .. Len(m[l].body) : m[l].body[x] # SnakeHead(m[i])
  BY DEF HitsBody
<1> HIDE DEF m
<1> QED BY <1>1, <1>2 DEF m

\* On a proper board two bodies share no cell.
LEMMA ProperApart ==
  ASSUME NEW b \in Board, Proper(b), NEW p \in 1 .. Len(b.snakes),
         NEW q \in 1 .. Len(b.snakes), p # q
  PROVE  \A k \in DOMAIN b.snakes[p].body : \A l \in DOMAIN b.snakes[q].body :
           b.snakes[p].body[k] # b.snakes[q].body[l]
<1>1. p \in Indices(b) /\ q \in Indices(b)
  BY BoardFields
<1> QED BY <1>1 DEF Proper

\* A turn leaves bodies apart that were apart.
LEMMA MovedApart ==
  ASSUME NEW b \in Board, Proper(b), NEW command \in Orders(b),
         NEW p \in 1 .. Len(b.snakes), NEW q \in 1 .. Len(b.snakes), p # q,
         p \notin Dead(AllMoved(b, command),
                       Out(b, AllMoved(b, command), Commanded(b, command))),
         q \notin Dead(AllMoved(b, command),
                       Out(b, AllMoved(b, command), Commanded(b, command)))
  PROVE  \A k \in DOMAIN AllMoved(b, command)[p].body :
           \A l \in DOMAIN AllMoved(b, command)[q].body :
             AllMoved(b, command)[p].body[k] # AllMoved(b, command)[q].body[l]
<1> DEFINE m == AllMoved(b, command)
           out == Out(b, m, Commanded(b, command))
           N == Len(b.snakes)
           Gone(j) == j \in out \/ HitsBody(m, j)
<1>1. /\ ~Gone(p) /\ ~Gone(q)
      /\ \A j \in 1 .. N : Gone(j) \/ (~Beats(m, j, p) /\ ~Beats(m, j, q))
  BY DeadIs
<1>2. p \in Commanded(b, command) /\ q \in Commanded(b, command)
  BY <1>1, BoardFields DEF Out
<1> DEFINE np == KeptLength(b, b.snakes[p], Target(b, command, p))
           nq == KeptLength(b, b.snakes[q], Target(b, command, q))
<1>3. /\ np \in Nat /\ np <= Len(b.snakes[p].body) /\ m[p].body \in Seq(Cell)
      /\ Len(m[p].body) = np + 1 /\ m[p].length = np + 1 /\ m[p].body[1] = SnakeHead(m[p])
      /\ \A k \in 1 .. np : m[p].body[k + 1] = b.snakes[p].body[k]
  <2>1. MovesTo(b, b.snakes[p], Target(b, command, p), m[p])
    BY <1>2, MovedOne
  <2> HIDE DEF m
  <2> QED BY <2>1 DEF MovesTo
<1>4. /\ nq \in Nat /\ nq <= Len(b.snakes[q].body) /\ m[q].body \in Seq(Cell)
      /\ Len(m[q].body) = nq + 1 /\ m[q].length = nq + 1 /\ m[q].body[1] = SnakeHead(m[q])
      /\ \A k \in 1 .. nq : m[q].body[k + 1] = b.snakes[q].body[k]
  <2>1. MovesTo(b, b.snakes[q], Target(b, command, q), m[q])
    BY <1>2, MovedOne
  <2> HIDE DEF m
  <2> QED BY <2>1 DEF MovesTo
<1>5. SnakeHead(m[p]) # SnakeHead(m[q])
  <2>2. ~Beats(m, q, p) /\ ~Beats(m, p, q)
    BY <1>1
  <2> HIDE DEF m
  <2>1. SnakeLength(m[p]) \in Int /\ SnakeLength(m[q]) \in Int
    BY <1>3, <1>4 DEF SnakeLength
  <2> QED BY <2>1, <2>2 DEF Beats
<1>6. /\ \A k \in 2 .. Len(m[q].body) : m[q].body[k] # SnakeHead(m[p])
      /\ \A k \in 2 .. Len(m[p].body) : m[p].body[k] # SnakeHead(m[q])
  BY <1>1, MeetsNoBody
<1>7. /\ b.snakes[p].body \in Seq(Cell) /\ b.snakes[q].body \in Seq(Cell)
      /\ \A k \in 1 .. Len(b.snakes[p].body) : \A l \in 1 .. Len(b.snakes[q].body) :
           b.snakes[p].body[k] # b.snakes[q].body[l]
  <2>1. b.snakes[p] \in Snake /\ b.snakes[q] \in Snake /\ Indices(b) = 1 .. N
    BY BoardFields
  <2>2. b.snakes[p].body \in Seq(Cell) /\ b.snakes[q].body \in Seq(Cell)
    BY <2>1 DEF Snake
  <2>3. \A k \in DOMAIN b.snakes[p].body : \A l \in DOMAIN b.snakes[q].body :
           b.snakes[p].body[k] # b.snakes[q].body[l]
    BY ProperApart
  <2>4. /\ DOMAIN b.snakes[p].body = 1 .. Len(b.snakes[p].body)
        /\ DOMAIN b.snakes[q].body = 1 .. Len(b.snakes[q].body)
    BY <2>2
  <2> QED BY <2>2, <2>3, <2>4
<1> HIDE DEF m, np, nq
<1>8. ASSUME NEW k \in 1 .. np + 1, NEW l \in 1 .. nq + 1 PROVE m[p].body[k] # m[q].body[l]
  <2>1. CASE k = 1 /\ l = 1
    BY <1>3, <1>4, <1>5, <2>1
  <2>2. CASE k = 1 /\ l # 1
    <3>1. l \in 2 .. Len(m[q].body)
      BY <1>4, <2>2
    <3> QED BY <1>3, <1>6, <2>2, <3>1
  <2>3. CASE k # 1 /\ l = 1
    <3>1. k \in 2 .. Len(m[p].body)
      BY <1>3, <2>3
    <3> QED BY <1>4, <1>6, <2>3, <3>1
  <2>4. CASE k # 1 /\ l # 1
    <3>1. k - 1 \in 1 .. np /\ l - 1 \in 1 .. nq /\ (k - 1) + 1 = k /\ (l - 1) + 1 = l
      BY <1>3, <1>4, <2>4
    <3>2. m[p].body[k] = b.snakes[p].body[k - 1] /\ m[q].body[l] = b.snakes[q].body[l - 1]
      BY <1>3, <1>4, <3>1
    <3>3. k - 1 \in 1 .. Len(b.snakes[p].body) /\ l - 1 \in 1 .. Len(b.snakes[q].body)
      <4>1. Len(b.snakes[p].body) \in Nat /\ Len(b.snakes[q].body) \in Nat
        <5>1. b.snakes[p].body \in Seq(Cell) /\ b.snakes[q].body \in Seq(Cell)
          BY <1>7
        <5> QED BY <5>1, LenProperties, Zenon
      <4>2. np <= Len(b.snakes[p].body) /\ np \in Nat
        BY ONLY <1>3
      <4>3. nq <= Len(b.snakes[q].body) /\ nq \in Nat
        BY ONLY <1>4
      <4> QED BY ONLY <3>1, <4>1, <4>2, <4>3
    <3> QED BY <1>7, <3>2, <3>3
  <2> QED BY <2>1, <2>2, <2>3, <2>4
<1>9. DOMAIN m[p].body = 1 .. np + 1 /\ DOMAIN m[q].body = 1 .. nq + 1
  <2>1. DOMAIN m[p].body = 1 .. np + 1
    BY <1>3
  <2>2. DOMAIN m[q].body = 1 .. nq + 1
    BY <1>4
  <2> QED BY <2>1, <2>2
<1> QED BY <1>8, <1>9 DEF m

\* A body that lives repeats no cell but that of its tail.
LEMMA MovedStacks ==
  ASSUME NEW b \in Board, Proper(b), NEW command \in Orders(b),
         NEW p \in 1 .. Len(b.snakes), p \in Commanded(b, command),
         ~HitsBody(AllMoved(b, command), p)
  PROVE  LET body == AllMoved(b, command)[p].body
         IN  \A k, l \in DOMAIN body :
               k < l /\ body[k] = body[l] => \A x \in k .. Len(body) : body[x] = body[k]
<1> DEFINE all == AllMoved(b, command)
           body == all[p].body
           s == b.snakes[p]
           n == KeptLength(b, s, Target(b, command, p))
<1>1. /\ n \in Nat /\ n <= Len(s.body) /\ body \in Seq(Cell) /\ Len(body) = n + 1
      /\ body[1] = SnakeHead(all[p]) /\ \A k \in 1 .. n : body[k + 1] = s.body[k]
      /\ s \in Snake
  <2>1. MovesTo(b, s, Target(b, command, p), all[p]) /\ s \in Snake
    BY MovedOne
  <2> HIDE DEF all, s
  <2> QED BY <2>1 DEF MovesTo
<1>2. \A k \in 2 .. Len(body) : body[k] # body[1]
  <2>1. \A k \in 2 .. Len(body) : body[k] # SnakeHead(all[p])
    BY MeetsNoBody
  <2> QED BY <1>1, <2>1
<1>3. /\ s.body \in Seq(Cell)
      /\ \A k, l \in 1 .. Len(s.body) : k < l /\ s.body[k] = s.body[l] =>
           \A x \in k .. Len(s.body) : s.body[x] = s.body[k]
  <2>1. p \in Indices(b) /\ s.body \in Seq(Cell)
    BY <1>1, BoardFields DEF Snake
  <2>2. \A k, l \in DOMAIN s.body : k < l /\ s.body[k] = s.body[l] =>
           \A x \in k .. Len(s.body) : s.body[x] = s.body[k]
    BY <2>1 DEF Proper
  <2> HIDE DEF s
  <2> QED BY <2>1, <2>2
<1> HIDE DEF all, body, s, n
<1>4. ASSUME NEW k \in 1 .. n + 1, NEW l \in 1 .. n + 1, k < l, body[k] = body[l],
             NEW x \in k .. n + 1
      PROVE  body[x] = body[k]
  <2>1. k # 1
    <3>1. k = 1 => l \in 2 .. Len(body)
      BY <1>1, <1>4
    <3> QED BY <1>2, <1>4, <3>1
  <2>2. /\ k - 1 \in 1 .. n /\ l - 1 \in 1 .. n /\ x - 1 \in 1 .. n
        /\ (k - 1) + 1 = k /\ (l - 1) + 1 = l /\ (x - 1) + 1 = x
        /\ k - 1 < l - 1 /\ k - 1 <= x - 1
    BY <1>1, <1>4, <2>1
  <2>3. body[k] = s.body[k - 1] /\ body[l] = s.body[l - 1] /\ body[x] = s.body[x - 1]
    BY <1>1, <2>2
  <2>4. /\ k - 1 \in 1 .. Len(s.body) /\ l - 1 \in 1 .. Len(s.body)
        /\ x - 1 \in k - 1 .. Len(s.body)
    BY <1>1, <1>3, <2>2
  <2> QED BY <1>3, <1>4, <2>2, <2>3, <2>4
<1>5. DOMAIN body = 1 .. n + 1 /\ Len(body) = n + 1
  BY <1>1
<1> QED BY <1>4, <1>5 DEF body, all

\* A turn leaves a proper board.
LEMMA TurnIsProper ==
  ASSUME NEW b \in Board, Proper(b), NEW command \in Orders(b), NEW c,
         c.hazard_damage = b.hazard_damage,
         c.snakes = Without(AllMoved(b, command),
                            Dead(AllMoved(b, command),
                                 Out(b, AllMoved(b, command), Commanded(b, command))))
  PROVE  Proper(c)
<1> DEFINE m == AllMoved(b, command)
           N == Len(b.snakes)
           out == Out(b, m, Commanded(b, command))
           gone == Dead(m, out)
           live == c.snakes
           n == Len(live)
<1>1. m \in Seq(Snake) /\ Len(m) = N
  BY AllMovedIs
<1>2. live = Without(m, gone)
  OBVIOUS
<1>3. live \in Seq(Snake) /\ \E at : Places(at, live, m, gone, N)
  <2> HIDE DEF m, gone, live, N
  <2> QED BY <1>1, <1>2, WithoutPlaces
<1>4. PICK at : Places(at, live, m, gone, N)
  BY <1>3
<1>5. /\ Indices(b) = 1 .. N /\ b.hazard_damage >= 0
      /\ \A i, j \in 1 .. N : b.snakes[i].id = b.snakes[j].id => i = j
  BY BoardFields DEF Proper
<1>6. \A i \in (1 .. N) \ gone : /\ i \in Commanded(b, command) /\ ~HitsBody(m, i)
                                 /\ m[i].id = b.snakes[i].id
                                 /\ m[i].length = Len(m[i].body)
  <2> TAKE i \in (1 .. N) \ gone
  <2>1. ~(i \in out \/ HitsBody(m, i))
    BY DeadIs
  <2>2. i \in Commanded(b, command)
    BY <1>5, <2>1 DEF Out
  <2>3. MovesTo(b, b.snakes[i], Target(b, command, i), m[i])
    BY <2>2, MovedOne
  <2> HIDE DEF m, out
  <2> QED BY <2>1, <2>2, <2>3 DEF MovesTo
<1>7. \A p, q \in (1 .. N) \ gone : p # q =>
        \A k \in DOMAIN m[p].body : \A l \in DOMAIN m[q].body : m[p].body[k] # m[q].body[l]
  BY MovedApart
<1>8. \A p \in (1 .. N) \ gone : \A k, l \in DOMAIN m[p].body :
        k < l /\ m[p].body[k] = m[p].body[l] =>
          \A x \in k .. Len(m[p].body) : m[p].body[x] = m[p].body[k]
  BY <1>6, MovedStacks
<1> HIDE DEF m, gone, live, N
<1>9. Indices(c) = 1 .. n /\ n \in Nat
  BY <1>3 DEF Indices, live
<1>10. \A k \in 1 .. n : at[k] \in (1 .. N) \ gone /\ live[k] = m[at[k]]
  BY <1>4 DEF Places
<1>11. \A k, l \in 1 .. n : at[k] = at[l] => k = l
  <2> TAKE k, l \in 1 .. n
  <2>1. k < l => at[k] < at[l]
    BY <1>4 DEF Places
  <2>2. l < k => at[l] < at[k]
    BY <1>4 DEF Places
  <2>3. at[k] \in Nat /\ at[l] \in Nat /\ k \in Nat /\ l \in Nat
    BY <1>9, <1>10, <1>1
  <2> QED BY <2>1, <2>2, <2>3
<1>12. \A k, l \in 1 .. n : live[k].id = live[l].id => k = l
  BY <1>5, <1>6, <1>10, <1>11
<1>13. \A k \in 1 .. n : live[k].length = Len(live[k].body)
  BY <1>6, <1>10
<1>14. \A p, q \in 1 .. n : p # q =>
         \A k \in DOMAIN live[p].body : \A l \in DOMAIN live[q].body :
           live[p].body[k] # live[q].body[l]
  BY <1>7, <1>10, <1>11
<1>15. \A p \in 1 .. n : \A k, l \in DOMAIN live[p].body :
         k < l /\ live[p].body[k] = live[p].body[l] =>
           \A x \in k .. Len(live[p].body) : live[p].body[x] = live[p].body[k]
  <2> TAKE p \in 1 .. n
  <2>1. at[p] \in (1 .. N) \ gone /\ live[p] = m[at[p]]
    BY <1>10
  <2> QED BY <1>8, <2>1
<1>16. c.snakes = live /\ c.hazard_damage >= 0
  BY <1>5 DEF live
<1> HIDE DEF n
<1> QED BY ONLY <1>9, <1>12, <1>13, <1>14, <1>15, <1>16, SMTT(60) DEF Proper

\* A safe cell that a body may have left is clear after the turn, but for a
\* stacked tail.
LEMMA SafeCellIsClear ==
  ASSUME NEW b \in Board, Proper(b), NEW command \in Orders(b),
         NEW i \in Commanded(b, command),
         Target(b, command, i) \notin
           Occupied(b) \ VacatedTails(b, i, Target(b, command, i)),
         ~StackedTail(b, Target(b, command, i)),
         NEW j \in Commanded(b, command),
         NEW k \in 1 .. KeptLength(b, b.snakes[j], Target(b, command, j))
  PROVE  b.snakes[j].body[k] # Target(b, command, i)
<1> DEFINE cell == Target(b, command, i)
           body == b.snakes[j].body
           n == Len(body)
           N == Len(b.snakes)
           grew == Grew(b, Target(b, command, j))
<1> SUFFICES ASSUME body[k] = cell PROVE FALSE
  OBVIOUS
<1>1. /\ j \in 1 .. N /\ i \in 1 .. N /\ Indices(b) = 1 .. N /\ body \in Seq(Cell)
      /\ body # <<>>
  BY MovedOne, BoardFields
<1>2. n \in Nat \ {0} /\ DOMAIN body = 1 .. n /\ k \in 1 .. n /\ (k = n => grew)
  <2>1. n \in Nat \ {0} /\ DOMAIN body = 1 .. n
    BY <1>1, EmptySeq
  <2> QED BY <2>1 DEF KeptLength
<1>3. cell \in Occupied(b)
  <2>1. cell \in ToSet(body)
    BY <1>2 DEF ToSet
  <2> HIDE DEF cell, body
  <2>2. j \in Indices(b) /\ cell \in ToSet(b.snakes[j].body)
    BY <1>1, <2>1 DEF body
  <2> QED BY <2>2 DEF Occupied
<1>4. cell \in VacatedTails(b, i, cell)
  BY <1>3
<1>5. PICK t \in 1 .. N :
        /\ ~b.constrictor /\ cell = Last(b.snakes[t].body)
        /\ b.snakes[t].body # <<>>
        /\ IF t = i THEN cell \notin Food(b) ELSE ~CanEatNextTurn(b, b.snakes[t])
  <2>1. ~b.constrictor
    BY <1>4 DEF VacatedTails
  <2>2. cell \in {Last(b.snakes[x].body) :
                    x \in {y \in Indices(b) :
                             /\ b.snakes[y].body # <<>>
                             /\ IF y = i THEN cell \notin Food(b)
                                         ELSE ~CanEatNextTurn(b, b.snakes[y])}}
    <3> HIDE DEF cell
    <3> QED BY <1>4, <2>1 DEF VacatedTails
  <2> HIDE DEF cell
  <2> QED BY <1>1, <2>1, <2>2
<1>6. t = j
  <2> DEFINE other == b.snakes[t].body
  <2>1. other \in Seq(Cell)
    <3>1. b.snakes[t] \in Snake
      BY <1>5, BoardFields
    <3> QED BY <3>1 DEF Snake
  <2>2. Len(other) \in DOMAIN other /\ other[Len(other)] = cell
    <3>1. other # <<>> /\ cell = Last(other)
      BY <1>5
    <3> HIDE DEF other, cell
    <3> QED BY <2>1, <3>1, EmptySeq DEF Last
  <2>3. t # j => \A x \in DOMAIN other : \A y \in DOMAIN body : other[x] # body[y]
    BY <1>1, ProperApart
  <2> HIDE DEF other
  <2> QED BY <1>2, <2>2, <2>3
<1>7. k # n
  <2>1. grew => Target(b, command, j) \in Food(b)
    BY <1>5 DEF Grew
  <2>2. CASE j = i
    BY <1>2, <1>5, <1>6, <2>1, <2>2
  <2>3. CASE j # i
    <3>1. ~CanEatNextTurn(b, b.snakes[j])
      BY <1>5, <1>6, <2>3
    <3>2. command[b.snakes[j].id] \in Moves
      BY MovedOne
    <3>3. Target(b, command, j) \notin Food(b)
      BY <1>1, <3>1, <3>2 DEF CanEatNextTurn, Target
    <3> QED BY <1>2, <2>1, <3>3
  <2> QED BY <2>2, <2>3
<1>8. body[n] = cell
  BY <1>5, <1>6 DEF Last
<1>9. k < n /\ k \in DOMAIN body /\ n \in DOMAIN body /\ n - 1 \in k .. n
  <2> HIDE DEF body, n, grew, cell
  <2> QED BY <1>2, <1>7
<1>10. body[n - 1] = cell
  <2>1. \A x \in k .. n : body[x] = body[k]
    <3>1. \A u, v \in DOMAIN body : u < v /\ body[u] = body[v] =>
            \A x \in u .. n : body[x] = body[u]
      BY <1>1 DEF Proper
    <3> HIDE DEF body, n, cell
    <3> QED BY <1>8, <1>9, <3>1
  <2> HIDE DEF body, n, cell
  <2> QED BY <1>9, <2>1
<1>11. n > 1
  BY <1>2, <1>9
<1>12. StackedTail(b, cell)
  <2> HIDE DEF cell
  <2> QED BY <1>1, <1>8, <1>10, <1>11 DEF StackedTail
<1> QED BY <1>12

-----------------------------------------------------------------------------
(* Safe moves. *)

\* What all replies to a move have in common.
LEMMA RepliesAreOrders ==
  ASSUME NEW b \in Board, NEW i \in Indices(b), NEW move \in Moves,
         NEW command \in Responses(b, i, move)
  PROVE  /\ command \in Orders(b) /\ command[b.snakes[i].id] = move
         /\ \A j \in Indices(b) : command[b.snakes[j].id] \in Moves
<1>1. command \in [SnakeIds(b) -> Moves] /\ command[b.snakes[i].id] = move
  BY DEF Responses
<1>2. \A j \in Indices(b) : b.snakes[j].id \in SnakeIds(b)
  BY DEF SnakeIds
<1> QED BY <1>1, <1>2 DEF Orders

\* A command in Moves moves every snake that has a body.
LEMMA RepliesMove ==
  ASSUME NEW b \in Board, NEW i \in Indices(b), NEW move \in Moves,
         NEW command \in Responses(b, i, move),
         NEW j \in Indices(b)
  PROVE  j \in Commanded(b, command) <=> b.snakes[j].body # <<>>
<1>1. command[b.snakes[j].id] \in Moves
  BY RepliesAreOrders
<1>2. command[b.snakes[j].id] # Invalid
  BY <1>1 DEF Moves, Invalid
<1> QED BY <1>2 DEF Commanded

\* On a proper board the length that decides encounters is the body's.
LEMMA ProperLength ==
  ASSUME NEW b \in Board, Proper(b), NEW i \in 1 .. Len(b.snakes)
  PROVE  SnakeLength(b.snakes[i]) = Len(b.snakes[i].body)
<1>1. i \in Indices(b)
  BY BoardFields
<1>2. b.snakes[i].length = Len(b.snakes[i].body)
  BY <1>1 DEF Proper
<1> QED BY <1>2 DEF SnakeLength

\* A safe move: no reply of the others kills the snake.
LEMMA SafeMoveLives ==
  ASSUME NEW b \in Board, Proper(b), NEW i \in Indices(b),
         NEW move \in BoardSafeMoves(b, i), NEW command \in Responses(b, i, move),
         ~StackedTail(b, MoveStep(SnakeHead(b.snakes[i]), move)),
         ~Starves(b, i, MoveStep(SnakeHead(b.snakes[i]), move))
  PROVE  Survives(b, i, command)
<1> DEFINE s == b.snakes[i]
           cell == MoveStep(SnakeHead(s), move)
           m == AllMoved(b, command)
           N == Len(b.snakes)
           moved == Commanded(b, command)
           out == Out(b, m, moved)
           Gone(j) == j \in out \/ HitsBody(m, j)
<1>1. /\ i \in 1 .. N /\ Indices(b) = 1 .. N /\ N \in Nat /\ s \in Snake
      /\ b.hazard_damage \in Int /\ s.health \in Int
  <2>1. /\ i \in 1 .. N /\ Indices(b) = 1 .. N /\ N \in Nat /\ s \in Snake
        /\ b.hazard_damage \in Int
    BY BoardFields
  <2> QED BY <2>1 DEF Snake
<1>2. /\ move \in Moves /\ s.body # <<>> /\ InBounds(b, cell)
      /\ cell \notin Occupied(b) \ VacatedTails(b, i, cell)
      /\ ~DeadlyHazard(b, i, cell) /\ ~Contested(b, i, cell)
  BY DEF BoardSafeMoves, BoardIsSafe
<1>3. /\ command \in Orders(b) /\ command[s.id] = move
      /\ \A j \in 1 .. N : command[b.snakes[j].id] \in Moves
  BY <1>1, <1>2, RepliesAreOrders
<1>4. i \in moved /\ \A j \in 1 .. N : j \in moved <=> b.snakes[j].body # <<>>
  BY <1>1, <1>2, RepliesMove
<1>5. Target(b, command, i) = cell
  BY <1>3 DEF Target
<1>6. \A j \in moved : /\ b.snakes[j] \in Snake
                       /\ MovesTo(b, b.snakes[j], Target(b, command, j), m[j])
  BY <1>3, MovedOne
<1>7. DOMAIN m = 1 .. N
  <2>1. m \in Seq(Snake) /\ Len(m) = N
    BY <1>3, AllMovedIs
  <2> HIDE DEF m
  <2> QED BY <2>1
<1>8. \A j \in 1 .. N : j \in out <=> \/ j \notin moved \/ ~InBounds(b, SnakeHead(m[j]))
                                      \/ m[j].health <= 0
  BY <1>1 DEF Out
<1>9. \A j \in 1 .. N \ moved : m[j].body = <<>>
  <2> TAKE j \in 1 .. N \ moved
  <2>1. m = [k \in Indices(b) |-> IF k \in moved
                       THEN MovedSnake(b, b.snakes[k], command[b.snakes[k].id])
                       ELSE b.snakes[k]]
    BY <1>3, AllMovedIs
  <2> HIDE DEF m
  <2>2. m[j] = b.snakes[j]
    BY <1>1, <2>1
  <2> QED BY <1>4, <2>2
<1> HIDE DEF m, moved, out
<1>10. SnakeHead(m[i]) = cell /\ ~(m[i].health <= 0)
  <2>1. MovesTo(b, s, cell, m[i])
    BY <1>4, <1>5, <1>6
  <2>2. SnakeHead(m[i]) = cell
    BY <2>1 DEF MovesTo
  <2>3. m[i].health = IF cell \in Food(b) THEN 100
                      ELSE IF cell \in b.hazards THEN s.health - 1 - b.hazard_damage
                                                     ELSE s.health - 1
    BY <2>1 DEF MovesTo
  <2> HIDE DEF cell
  <2>4. cell \in b.hazards \ Food(b) => ~(s.health <= b.hazard_damage + 1)
    BY <1>2 DEF DeadlyHazard, Starving
  <2>5. cell \notin b.hazards \cup Food(b) => ~(s.health <= 1)
    BY DEF Starves, cell
  <2> HIDE DEF s
  <2>6. ~(m[i].health <= 0)
    BY <1>1, <2>3, <2>4, <2>5
  <2> QED BY <2>2, <2>6
<1>11. i \notin out
  <2> HIDE DEF cell, s, N
  <2>1. i \in moved /\ InBounds(b, SnakeHead(m[i]))
    BY <1>2, <1>4, <1>10
  <2>2. ~(m[i].health <= 0)
    BY <1>10
  <2> QED BY <1>1, <1>8, <2>1, <2>2
<1>12. ~HitsBody(m, i)
  <2> SUFFICES ASSUME NEW j \in 1 .. N, NEW k \in 2 .. Len(m[j].body),
                      m[j].body[k] = cell
               PROVE  FALSE
    <3> HIDE DEF cell, N
    <3> QED BY <1>7, <1>10 DEF HitsBody
  <2>1. j \in moved
    <3>1. Len(<<>>) = 0
      OBVIOUS
    <3>2. j \notin moved => Len(m[j].body) = 0
      BY <1>9, <3>1
    <3>3. Len(m[j].body) = 0 => FALSE
      OBVIOUS
    <3> QED BY <3>2, <3>3
  <2> DEFINE n == KeptLength(b, b.snakes[j], Target(b, command, j))
  <2>2. MovesTo(b, b.snakes[j], Target(b, command, j), m[j])
    BY <1>6, <2>1
  <2>3. /\ n \in Nat /\ Len(m[j].body) = n + 1
        /\ \A l \in 1 .. n : m[j].body[l + 1] = b.snakes[j].body[l]
    BY <2>2 DEF MovesTo
  <2> HIDE DEF n
  <2>4. k - 1 \in 1 .. n /\ (k - 1) + 1 = k
    BY <2>3
  <2>5. b.snakes[j].body[k - 1] = cell
    BY <2>3, <2>4
  <2>6. \A l \in 1 .. n : b.snakes[j].body[l] # Target(b, command, i)
    <3>1. i \in Commanded(b, command) /\ j \in Commanded(b, command)
      BY <1>4, <2>1 DEF moved
    <3>2. /\ cell \notin Occupied(b) \ VacatedTails(b, i, cell)
          /\ ~StackedTail(b, cell)
      BY <1>2
    <3> HIDE DEF cell
    <3> QED BY <1>3, <1>5, <3>1, <3>2, SafeCellIsClear DEF n
  <2> QED BY <1>5, <2>4, <2>5, <2>6
<1>13. ASSUME NEW j \in 1 .. N, ~Gone(j), Beats(m, j, i) PROVE FALSE
  <2>1. j \in moved /\ j # i /\ SnakeHead(m[j]) = cell
        /\ SnakeLength(m[j]) >= SnakeLength(m[i])
    BY <1>8, <1>10, <1>13 DEF Beats
  <2>2. MovesTo(b, b.snakes[j], Target(b, command, j), m[j])
        /\ MovesTo(b, s, cell, m[i])
    BY <1>4, <1>5, <1>6, <2>1
  <2>3. Target(b, command, j) = cell
    BY <2>1, <2>2 DEF MovesTo
  <2>4. /\ m[j].length = KeptLength(b, b.snakes[j], cell) + 1
        /\ m[i].length = KeptLength(b, s, cell) + 1
        /\ KeptLength(b, b.snakes[j], cell) \in Nat
        /\ KeptLength(b, s, cell) \in Nat
    BY <2>2, <2>3 DEF MovesTo
  <2>5. SnakeLength(m[j]) = m[j].length /\ SnakeLength(m[i]) = m[i].length
    BY <2>4 DEF SnakeLength
  <2>6. Len(b.snakes[j].body) >= Len(s.body)
    <3>1. Len(b.snakes[j].body) \in Nat /\ Len(s.body) \in Nat
      <4>1. b.snakes[j].body \in Seq(Cell) /\ s.body \in Seq(Cell)
        BY <1>1, <1>6, <2>1 DEF Snake
      <4> HIDE DEF s
      <4> QED BY <4>1
    <3>2. KeptLength(b, b.snakes[j], cell) >= KeptLength(b, s, cell)
      BY <2>1, <2>4, <2>5
    <3> QED BY <3>1, <3>2 DEF KeptLength
  <2>7. SnakeLength(b.snakes[j]) >= SnakeLength(s)
    BY <1>1, <2>6, ProperLength
  <2>8. b.snakes[j].body # <<>>
    BY <1>4, <2>1
  <2>9. MoveStep(SnakeHead(b.snakes[j]), command[b.snakes[j].id]) = cell
    BY <2>3 DEF Target
  <2>10. Contested(b, i, cell)
    <3>1. j \in Indices(b) \ {i} /\ command[b.snakes[j].id] \in Moves
      BY <1>1, <1>3, <2>1
    <3> HIDE DEF cell
    <3> QED BY <2>7, <2>8, <2>9, <3>1 DEF Contested
  <2> QED BY <1>2, <2>10
<1>14. i \notin Dead(m, out)
  BY <1>1, <1>3, <1>11, <1>12, <1>13, DeadIs DEF m, out, moved
<1>15. s.id \in SnakeIds(BoardCloneAndApply(b, command))
  BY <1>1, <1>3, <1>14, SurvivesIs, ProperIds DEF m, out, moved
<1> QED BY <1>15 DEF Survives

\* The reply in which snake j goes one way and all the others go up.
Against(b, i, move, j, reply) ==
  [id \in SnakeIds(b) |-> IF id = b.snakes[i].id THEN move
                              ELSE IF id = b.snakes[j].id THEN reply ELSE "up"]

\* That is a reply, and snake j does go that way.
LEMMA AgainstIs ==
  ASSUME NEW b \in Board, Proper(b), NEW i \in Indices(b), NEW j \in Indices(b),
         NEW move \in Moves, NEW reply \in Moves
  PROVE  /\ Against(b, i, move, j, reply) \in Responses(b, i, move)
         /\ j # i => Against(b, i, move, j, reply)[b.snakes[j].id] = reply
<1> DEFINE command == Against(b, i, move, j, reply)
<1>1. b.snakes[i].id \in SnakeIds(b) /\ b.snakes[j].id \in SnakeIds(b)
  BY DEF SnakeIds
<1>2. "up" \in Moves
  BY DEF Moves
<1>3. command \in [SnakeIds(b) -> Moves]
  BY <1>2 DEF Against
<1>4. command[b.snakes[i].id] = move
  BY <1>1 DEF Against
<1>5. j # i => command[b.snakes[j].id] = reply
  <2>1. j # i => b.snakes[j].id # b.snakes[i].id
    BY DEF Proper
  <2> QED BY <1>1, <2>1 DEF Against
<1> HIDE DEF command
<1> QED BY <1>3, <1>4, <1>5 DEF Responses, command

\* What kills a snake in a turn.
LEMMA Refutes ==
  ASSUME NEW b \in Board, DistinctIds(b), NEW i \in 1 .. Len(b.snakes),
         NEW command \in Orders(b),
         LET m == AllMoved(b, command)
             out == Out(b, m, Commanded(b, command))
             Gone(j) == j \in out \/ HitsBody(m, j)
         IN  Gone(i) \/ \E j \in 1 .. Len(b.snakes) : ~Gone(j) /\ Beats(m, j, i)
  PROVE  ~Survives(b, i, command)
<1> DEFINE m == AllMoved(b, command)
           out == Out(b, m, Commanded(b, command))
<1>1. i \in Dead(m, out)
  BY DeadIs
<1> QED BY <1>1, SurvivesIs DEF Survives

\* A snake that goes to a cell which a body has not left.
LEMMA StayingBodyKills ==
  ASSUME NEW b \in Board, DistinctIds(b), NEW command \in Orders(b),
         NEW i \in Commanded(b, command), NEW j \in Commanded(b, command),
         NEW k \in 1 .. KeptLength(b, b.snakes[j], Target(b, command, j)),
         b.snakes[j].body[k] = Target(b, command, i)
  PROVE  ~Survives(b, i, command)
<1> DEFINE m == AllMoved(b, command)
           n == KeptLength(b, b.snakes[j], Target(b, command, j))
<1>1. /\ i \in 1 .. Len(b.snakes) /\ j \in 1 .. Len(b.snakes)
      /\ MovesTo(b, b.snakes[i], Target(b, command, i), m[i])
      /\ MovesTo(b, b.snakes[j], Target(b, command, j), m[j])
  BY MovedOne
<1>2. DOMAIN m = 1 .. Len(b.snakes)
  <2>1. m \in Seq(Snake) /\ Len(m) = Len(b.snakes)
    BY AllMovedIs
  <2> HIDE DEF m
  <2> QED BY <2>1
<1>3. /\ n \in Nat /\ Len(m[j].body) = n + 1
      /\ \A l \in 1 .. n : m[j].body[l + 1] = b.snakes[j].body[l]
      /\ SnakeHead(m[i]) = Target(b, command, i)
  BY <1>1 DEF MovesTo
<1> HIDE DEF m
<1>4. k \in 1 .. n
  OBVIOUS
<1> HIDE DEF n
<1>5. k + 1 \in 2 .. Len(m[j].body) /\ m[j].body[k + 1] = SnakeHead(m[i])
  BY <1>3, <1>4
<1>6. HitsBody(m, i)
  BY <1>1, <1>2, <1>5 DEF HitsBody
<1> QED BY <1>1, <1>6, Refutes DEF m

\* A tail that is not counted on to leave its cell.
LEMMA TailStays ==
  ASSUME NEW b, NEW i, NEW cell, NEW j \in Indices(b), b.snakes[j].body # <<>>,
         cell = Last(b.snakes[j].body), cell \notin VacatedTails(b, i, cell),
         ~b.constrictor
  PROVE  IF j = i THEN cell \in Food(b) ELSE CanEatNextTurn(b, b.snakes[j])
<1> DEFINE Leaves(t) == /\ b.snakes[t].body # <<>>
                        /\ IF t = i THEN cell \notin Food(b)
                                    ELSE ~CanEatNextTurn(b, b.snakes[t])
<1>1. VacatedTails(b, i, cell)
        = {Last(b.snakes[t].body) : t \in {u \in Indices(b) : Leaves(u)}}
  BY DEF VacatedTails
<1> HIDE DEF Leaves
<1>2. ~Leaves(j)
  BY <1>1
<1> QED BY <1>2 DEF Leaves

\* A cell that is still some body's: the owner can always see to that.
LEMMA OccupiedIsRefuted ==
  ASSUME NEW b \in Board, Proper(b), NEW i \in 1 .. Len(b.snakes),
         NEW move \in Moves, b.snakes[i].body # <<>>,
         NEW cell, cell = MoveStep(SnakeHead(b.snakes[i]), move),
         cell \in Occupied(b) \ VacatedTails(b, i, cell)
  PROVE  \E command \in Responses(b, i, move) : ~Survives(b, i, command)
<1> DEFINE N == Len(b.snakes)
           Body(j) == b.snakes[j].body
           Sent(command, j) == Target(b, command, j)
<1>1. /\ N \in Nat /\ Indices(b) = 1 .. N
      /\ \A j \in 1 .. N : Body(j) \in Seq(Cell)
  <2>1. N \in Nat /\ Indices(b) = 1 .. N /\ \A j \in 1 .. N : b.snakes[j] \in Snake
    BY BoardFields
  <2> QED BY <2>1 DEF Snake
<1>2. PICK j \in 1 .. N : \E k \in 1 .. Len(Body(j)) : Body(j)[k] = cell
  <2>1. PICK j \in 1 .. N : cell \in ToSet(Body(j))
    BY <1>1 DEF Occupied
  <2>2. \E k \in DOMAIN Body(j) : Body(j)[k] = cell
    BY <2>1 DEF ToSet
  <2>3. DOMAIN Body(j) = 1 .. Len(Body(j))
    BY <1>1
  <2> QED BY <2>2, <2>3
<1>3. PICK k \in 1 .. Len(Body(j)) : Body(j)[k] = cell
  BY <1>2
<1> DEFINE n == Len(Body(j))
<1>4. n \in Nat \ {0} /\ k \in 1 .. n /\ Body(j) # <<>>
  <2>1. n \in Nat
    BY <1>1
  <2> HIDE DEF n
  <2>2. n \in Nat \ {0} /\ k \in 1 .. n
    BY <2>1 DEF n
  <2>3. Len(<<>>) = 0
    BY EmptySeq
  <2> QED BY <2>2, <2>3 DEF n
<1>5. ASSUME NEW command \in Responses(b, i, move), k = n => Grew(b, Sent(command, j))
      PROVE  ~Survives(b, i, command)
  <2>1. command \in Orders(b) /\ command[b.snakes[i].id] = move
    BY <1>1, RepliesAreOrders
  <2>2. i \in Commanded(b, command) /\ j \in Commanded(b, command)
    BY <1>1, <1>4, RepliesMove
  <2>3. k \in 1 .. KeptLength(b, b.snakes[j], Sent(command, j))
    <3> HIDE DEF Sent
    <3> QED BY <1>4, <1>5 DEF KeptLength
  <2>4. Sent(command, i) = cell
    BY <2>1 DEF Target
  <2> QED BY <1>3, <2>1, <2>2, <2>3, <2>4, StayingBodyKills, ProperIds
<1>9. ASSUME NEW reply \in Moves
      PROVE  /\ Against(b, i, move, j, reply) \in Responses(b, i, move)
             /\ Against(b, i, move, j, reply)[b.snakes[i].id] = move
             /\ j # i => Against(b, i, move, j, reply)[b.snakes[j].id] = reply
  <2>1. i \in Indices(b) /\ j \in Indices(b)
    BY <1>1
  <2> HIDE DEF N, Body, Sent, n
  <2>2. /\ Against(b, i, move, j, reply) \in Responses(b, i, move)
        /\ j # i => Against(b, i, move, j, reply)[b.snakes[j].id] = reply
    BY <2>1, AgainstIs
  <2> QED BY <2>2 DEF Responses
<1>6. \E reply \in Moves : k = n => Grew(b, Sent(Against(b, i, move, j, reply), j))
  <2>1. "up" \in Moves
    BY DEF Moves
  <2>2. CASE k # n
    BY <2>1, <2>2
  <2>3. CASE k = n
    <3>1. cell = Last(Body(j))
      BY <1>3, <2>3 DEF Last
    <3>5. ~b.constrictor =>
            IF j = i THEN cell \in Food(b) ELSE CanEatNextTurn(b, b.snakes[j])
      <4>1. cell \notin VacatedTails(b, i, cell) /\ j \in Indices(b)
        BY <1>1
      <4> QED BY <1>4, <3>1, <4>1, TailStays
    <3>2. CASE b.constrictor
      BY <2>1, <3>2 DEF Grew
    <3>3. CASE ~b.constrictor /\ j = i
      <4>1. cell \in Food(b)
        BY <3>3, <3>5
      <4>3. Sent(Against(b, i, move, j, "up"), j) = cell
        BY <1>9, <2>1, <3>3 DEF Target
      <4> QED BY <2>1, <4>1, <4>3 DEF Grew
    <3>4. CASE ~b.constrictor /\ j # i
      <4>1. CanEatNextTurn(b, b.snakes[j])
        BY <3>4, <3>5
      <4>2. PICK reply \in Moves : MoveStep(SnakeHead(b.snakes[j]), reply) \in Food(b)
        BY <4>1 DEF CanEatNextTurn
      <4>3. Against(b, i, move, j, reply)[b.snakes[j].id] = reply
        BY <1>9, <3>4
      <4>4. Sent(Against(b, i, move, j, reply), j) \in Food(b)
        BY <4>2, <4>3 DEF Target
      <4> QED BY <4>4 DEF Grew
    <3> QED BY <3>2, <3>3, <3>4
  <2> QED BY <2>2, <2>3
<1>7. PICK reply \in Moves : k = n => Grew(b, Sent(Against(b, i, move, j, reply), j))
  BY <1>6
<1>8. Against(b, i, move, j, reply) \in Responses(b, i, move)
  BY <1>9
<1> QED BY <1>5, <1>7, <1>8

\* A cell off the board, or one whose hazard takes the rest of the health.
LEMMA OutIsRefuted ==
  ASSUME NEW b \in Board, Proper(b), NEW i \in 1 .. Len(b.snakes),
         NEW move \in Moves, NEW cell, cell = MoveStep(SnakeHead(b.snakes[i]), move),
         \/ b.snakes[i].body = <<>> \/ ~InBounds(b, cell)
         \/ DeadlyHazard(b, i, cell)
  PROVE  \E command \in Responses(b, i, move) : ~Survives(b, i, command)
<1> DEFINE command == Against(b, i, move, i, move)
           m == AllMoved(b, command)
           moved == Commanded(b, command)
           s == b.snakes[i]
<1>1. /\ i \in Indices(b) /\ s \in Snake /\ s.health \in Int
      /\ b.hazard_damage \in Int
  <2>1. i \in Indices(b) /\ s \in Snake /\ b.hazard_damage \in Int
    BY BoardFields
  <2> QED BY <2>1 DEF Snake
<1>2. command \in Responses(b, i, move)
  BY <1>1, AgainstIs
<1>3. command \in Orders(b) /\ command[s.id] = move
  BY <1>1, <1>2, RepliesAreOrders
<1>4. ASSUME i \in moved
      PROVE  ~InBounds(b, SnakeHead(m[i])) \/ m[i].health <= 0
  <2>1. MovesTo(b, s, Target(b, command, i), m[i]) /\ s.body # <<>>
    BY <1>3, <1>4, MovedOne
  <2>2. Target(b, command, i) = cell
    BY <1>3 DEF Target
  <2>3. SnakeHead(m[i]) = cell
    BY <2>1, <2>2 DEF MovesTo
  <2>4. CASE DeadlyHazard(b, i, cell)
    <3>1. /\ cell \in b.hazards \ Food(b)
          /\ s.health <= b.hazard_damage + 1
      BY <2>4 DEF DeadlyHazard, Starving
    <3>2. m[i].health = s.health - 1 - b.hazard_damage
      BY <2>1, <2>2, <3>1 DEF MovesTo
    <3> HIDE DEF m, s
    <3> QED BY <1>1, <3>1, <3>2
  <2> QED BY <2>1, <2>3, <2>4
<1>5. i \in Out(b, m, moved)
  <2> HIDE DEF m, moved
  <2> QED BY <1>1, <1>4 DEF Out
<1>6. ~Survives(b, i, command)
  BY <1>3, <1>5, Refutes, ProperIds
<1> HIDE DEF command
<1> QED BY <1>2, <1>6

\* A cell that an opponent as long can reach: it comes, and meets the head.
LEMMA ContestedIsRefuted ==
  ASSUME NEW b \in Board, Proper(b), NEW i \in 1 .. Len(b.snakes),
         OpponentsHealthy(b, i), NEW move \in Moves, b.snakes[i].body # <<>>,
         NEW cell, cell = MoveStep(SnakeHead(b.snakes[i]), move),
         Contested(b, i, cell)
  PROVE  \E command \in Responses(b, i, move) : ~Survives(b, i, command)
<1> DEFINE N == Len(b.snakes)
           s == b.snakes[i]
<1>1. /\ N \in Nat /\ Indices(b) = 1 .. N /\ \A j \in 1 .. N : b.snakes[j] \in Snake
      /\ b.hazard_damage \in Int
  BY BoardFields
<1>2. PICK j \in 1 .. N \ {i} :
        /\ b.snakes[j].body # <<>> /\ SnakeLength(b.snakes[j]) >= SnakeLength(s)
        /\ \E reply \in Moves : MoveStep(SnakeHead(b.snakes[j]), reply) = cell
  <2> HIDE DEF N
  <2> QED BY <1>1 DEF Contested
<1>3. PICK reply \in Moves : MoveStep(SnakeHead(b.snakes[j]), reply) = cell
  BY <1>2
<1> DEFINE command == Against(b, i, move, j, reply)
           m == AllMoved(b, command)
           moved == Commanded(b, command)
           out == Out(b, m, moved)
           Gone(x) == x \in out \/ HitsBody(m, x)
           t == b.snakes[j]
<1>4. /\ command \in Responses(b, i, move) /\ command \in Orders(b)
      /\ command[s.id] = move /\ command[t.id] = reply
  <2>1. command \in Responses(b, i, move) /\ command[t.id] = reply
    BY <1>1, <1>2, AgainstIs
  <2> HIDE DEF command
  <2> QED BY <1>1, <2>1, RepliesAreOrders
<1>5. Target(b, command, i) = cell /\ Target(b, command, j) = cell
  BY <1>3, <1>4 DEF Target
<1> HIDE DEF command
<1>6. i \in moved /\ j \in moved
  BY <1>1, <1>2, <1>4, RepliesMove
<1>7. MovesTo(b, s, cell, m[i]) /\ MovesTo(b, t, cell, m[j])
  BY <1>4, <1>5, <1>6, MovedOne
<1>8. SnakeHead(m[i]) = cell /\ SnakeHead(m[j]) = cell
  BY <1>7 DEF MovesTo
<1>9. Beats(m, j, i)
  <2>1. /\ KeptLength(b, s, cell) \in Nat /\ KeptLength(b, t, cell) \in Nat
        /\ m[i].length = KeptLength(b, s, cell) + 1
        /\ m[j].length = KeptLength(b, t, cell) + 1
    BY <1>7 DEF MovesTo
  <2>2. SnakeLength(m[i]) = m[i].length /\ SnakeLength(m[j]) = m[j].length
    BY <2>1 DEF SnakeLength
  <2>3. SnakeLength(s) = Len(s.body) /\ SnakeLength(t) = Len(t.body)
    BY <1>1, ProperLength
  <2>4. Len(s.body) \in Nat /\ Len(t.body) \in Nat
    <3>1. s.body \in Seq(Cell) /\ t.body \in Seq(Cell)
      BY <1>1, <1>2 DEF Snake
    <3> HIDE DEF s, t
    <3> QED BY <3>1
  <2>5. KeptLength(b, t, cell) >= KeptLength(b, s, cell)
    <3>1. Len(t.body) >= Len(s.body)
      BY <1>2, <2>3
    <3> HIDE DEF s, t
    <3> QED BY <2>4, <3>1 DEF KeptLength
  <2>6. SnakeLength(m[j]) >= SnakeLength(m[i])
    <3> HIDE DEF m, s, t
    <3> QED BY <2>1, <2>2, <2>5
  <2> QED BY <1>2, <1>8, <2>6 DEF Beats
<1>10. m[j].health > 0
  <2>1. t.health > b.hazard_damage + 1 /\ t.health \in Int
    <3>1. t.health > b.hazard_damage + 1
      BY <1>1, <1>2 DEF OpponentsHealthy
    <3>2. t.health \in Int
      BY <1>1, <1>2 DEF Snake
    <3> QED BY <3>1, <3>2
  <2>2. b.hazard_damage >= 0
    BY DEF Proper
  <2>3. m[j].health = IF cell \in Food(b) THEN 100
                      ELSE IF cell \in b.hazards THEN t.health - 1 - b.hazard_damage
                                                     ELSE t.health - 1
    BY <1>7 DEF MovesTo
  <2> HIDE DEF m, t
  <2> QED BY <1>1, <2>1, <2>2, <2>3
<1>11. ~Gone(i) => ~Gone(j)
  <2>1. \A x \in 1 .. N : x \in out <=> \/ x \notin moved \/ ~InBounds(b, SnakeHead(m[x]))
                                        \/ m[x].health <= 0
    BY <1>1 DEF Out
  <2>2. HitsBody(m, i) = HitsBody(m, j)
    BY <1>8 DEF HitsBody
  <2>3. ~(m[j].health <= 0)
    <3>1. m[j].health > 0
      BY <1>10
    <3>2. m[j].health \in Int
      <4>1. m \in Seq(Snake) /\ Len(m) = N
        BY <1>4, AllMovedIs
      <4>2. m[j] \in Snake
        <5> HIDE DEF m
        <5> QED BY <1>2, <4>1
      <4> QED BY <4>2 DEF Snake
    <3> HIDE DEF m
    <3> QED BY <3>1, <3>2
  <2> HIDE DEF m, out, moved
  <2> QED BY <1>2, <1>6, <1>8, <2>1, <2>2, <2>3
<1>12. ~Survives(b, i, command)
  <2>1. Gone(i) \/ \E x \in 1 .. N : ~Gone(x) /\ Beats(m, x, i)
    BY <1>2, <1>9, <1>11
  <2> QED BY <1>4, <2>1, Refutes, ProperIds
<1> QED BY <1>4, <1>12

\* An unsafe move: some reply of the others kills the snake.
LEMMA UnsafeMoveDies ==
  ASSUME NEW b \in Board, Proper(b), NEW i \in Indices(b),
         OpponentsHealthy(b, i), NEW move \in Moves \ BoardSafeMoves(b, i)
  PROVE  \E command \in Responses(b, i, move) : ~Survives(b, i, command)
<1> DEFINE cell == MoveStep(SnakeHead(b.snakes[i]), move)
<1>1. i \in 1 .. Len(b.snakes)
  BY BoardFields
<1>2. \/ b.snakes[i].body = <<>> \/ ~InBounds(b, cell)
      \/ DeadlyHazard(b, i, cell)
      \/ /\ b.snakes[i].body # <<>>
         /\ cell \in Occupied(b) \ VacatedTails(b, i, cell) \/ Contested(b, i, cell)
  BY DEF BoardSafeMoves, BoardIsSafe
<1> HIDE DEF cell
<1>3. cell = MoveStep(SnakeHead(b.snakes[i]), move)
  BY DEF cell
<1> QED BY <1>1, <1>2, <1>3, OutIsRefuted, OccupiedIsRefuted, ContestedIsRefuted

\* From a board of the engine's, and as long as no make has failed.
ProperInv ==
  /\ BoardsInv
  /\ failures \in Nat
  /\ failures = 0 => /\ Proper(board)
                     /\ \A d \in 1 .. Len(trail) : Proper(trail[d].board)

\* The search starts from one of the engine's boards.
LEMMA ProperInit ==
  ASSUME \A b \in Boards : Proper(b)
  PROVE  Init => ProperInv
<1> SUFFICES ASSUME Init PROVE ProperInv
  OBVIOUS
<1>1. board \in Boards /\ trail = <<>> /\ failures = 0 /\ Len(<<>>) = 0
  BY EmptySeq DEF Init
<1> QED BY <1>1, BoardsInit DEF ProperInv

\* A make leaves a proper board.
LEMMA ProperMake ==
  ASSUME ProperInv, NEW command \in Commands, Make(command)
  PROVE  ProperInv'
<1> DEFINE next == MovedPrefix(board, command, Len(board.snakes))
           causes == TerminalCauses(board, next, command)
           live == LiveSnakes(next, causes)
           left == FoodLeft(board, next, command)
<1>1. BoardsInv /\ board \in Board /\ command \in Orders(board)
  BY CommandsAreOrders DEF ProperInv, BoardsInv
<1>2. /\ board' = [next EXCEPT !.snakes = live, !.food = left]
      /\ trail' = Append(trail, [board |-> board, command |-> command])
      /\ failures' = failures
  BY DEF Make
<1>3. BoardsInv'
  BY <1>1, BoardsMake
<1>4. ASSUME Proper(board) PROVE Proper(board')
  <2>1. live = Without(AllMoved(board, command),
                 Dead(AllMoved(board, command),
                      Out(board, AllMoved(board, command), Commanded(board, command))))
    BY <1>1, MakeLeaves
  <2>2. next = [board EXCEPT !.snakes = AllMoved(board, command)]
    BY <1>1, AllMovedIs DEF AllMoved
  <2> HIDE DEF next, live, left
  <2>3. board'.snakes = live /\ board'.hazard_damage = board.hazard_damage
    BY <1>1, <1>2, <2>2 DEF Board
  <2> QED BY <1>1, <1>4, <2>1, <2>3, TurnIsProper
<1>5. /\ Len(trail) \in Nat /\ Len(trail') = Len(trail) + 1
      /\ \A e \in 1 .. Len(trail) : trail'[e] = trail[e]
      /\ trail'[Len(trail) + 1].board = board
  <2>1. Stack(trail)
    BY <1>1 DEF BoardsInv, UndoInv
  <2> QED BY <1>2, <2>1, PushStack
<1>6. ASSUME failures' = 0 PROVE Proper(board') /\ \A d \in 1 .. Len(trail') : Proper(trail'[d].board)
  <2>1. Proper(board) /\ \A d \in 1 .. Len(trail) : Proper(trail[d].board)
    BY <1>2, <1>6 DEF ProperInv
  <2>2. ASSUME NEW d \in 1 .. Len(trail') PROVE Proper(trail'[d].board)
    <3>1. d = Len(trail) + 1 \/ d \in 1 .. Len(trail)
      BY <1>5
    <3> QED BY <1>5, <2>1, <3>1
  <2> QED BY <1>4, <2>1, <2>2
<1> QED BY <1>2, <1>3, <1>6 DEF ProperInv

\* After a make that fails nothing more is claimed.
LEMMA ProperMakeFails ==
  ASSUME ProperInv, NEW command \in Commands, NEW n, MakeFails(command, n)
  PROVE  ProperInv'
<1>1. BoardsInv'
  BY BoardsMakeFails DEF ProperInv
<1>2. failures' \in Nat /\ failures' # 0
  BY DEF MakeFails, ProperInv
<1> QED BY <1>1, <1>2 DEF ProperInv

\* An unmake brings back a proper board.
LEMMA ProperUnmake ==
  ASSUME ProperInv, Unmake
  PROVE  ProperInv'
<1>1. BoardsInv /\ BoardsInv' /\ UndoInv
  BY BoardsUnmake DEF ProperInv, BoardsInv
<1>2. board' = Last(trail).board
  BY <1>1, UndoUnmake
<1>3. /\ Len(trail) \in Nat \ {0} /\ Len(trail') = Len(trail) - 1
      /\ \A d \in 1 .. Len(trail) - 1 : trail'[d] = trail[d]
  <2>1. undo_stack # <<>> /\ trail' = Front(trail)
    BY DEF Unmake
  <2>2. Len(undo_stack) \in Nat \ {0} /\ Len(undo_stack) = Len(trail)
    BY <1>1, <2>1, PopStack DEF UndoInv
  <2>3. trail # <<>> /\ Stack(trail)
    BY <1>1, <2>2, EmptySeq DEF UndoInv
  <2> QED BY <2>1, <2>3, PopStack
<1>4. failures' = failures
  BY DEF Unmake
<1>5. ASSUME failures = 0 PROVE Proper(board') /\ \A d \in 1 .. Len(trail') : Proper(trail'[d].board)
  <2>1. \A d \in 1 .. Len(trail) : Proper(trail[d].board)
    BY <1>5 DEF ProperInv
  <2>2. Last(trail) = trail[Len(trail)] /\ Len(trail) \in 1 .. Len(trail)
    BY <1>3 DEF Last
  <2>3. \A d \in 1 .. Len(trail') : d \in 1 .. Len(trail) - 1 /\ d \in 1 .. Len(trail)
    BY <1>3
  <2>4. Proper(board')
    BY <1>2, <2>1, <2>2
  <2>5. \A d \in 1 .. Len(trail') : Proper(trail'[d].board)
    BY <1>3, <2>1, <2>3
  <2> QED BY <2>4, <2>5
<1> QED BY <1>1, <1>4, <1>5 DEF ProperInv

\* Every step of the search leaves a proper board, as long as no make fails.
LEMMA ProperNext == ProperInv /\ [Next]_vars => ProperInv'
<1> SUFFICES ASSUME ProperInv, [Next]_vars PROVE ProperInv'
  OBVIOUS
<1>1. CASE Next
  BY <1>1, ProperMake, ProperMakeFails, ProperUnmake DEF Next
<1>2. CASE UNCHANGED vars
  <2>1. BoardsInv'
    BY <1>2, BoardsNext DEF ProperInv
  <2> QED BY <1>2, <2>1 DEF ProperInv, vars
<1> QED BY <1>1, <1>2

\* On a proper board BoardIsSafe is right both ways.
LEMMA ProperIsSafe == ProperInv => SafeMeansSafe
<1> SUFFICES ASSUME ProperInv, failures = 0 PROVE SafeMeansSafe
  BY DEF SafeMeansSafe, SafeMoveSurvives, UnsafeMoveIsRefuted
<1>1. board \in Board /\ Proper(board)
  BY DEF ProperInv, BoardsInv
<1>2. SafeMoveSurvives
  BY <1>1, SafeMoveLives DEF SafeMoveSurvives
<1>3. UnsafeMoveIsRefuted
  BY <1>1, UnsafeMoveDies DEF UnsafeMoveIsRefuted
<1> QED BY <1>2, <1>3 DEF SafeMeansSafe

\* From boards as the engine sends them, makes and unmakes lead to nothing but
\* such boards: no two snakes in one cell, no body through itself, each length
\* its body's. A make that fails half-way ends that.
THEOREM ProperAlways ==
  (\A b \in Boards : Proper(b)) => (Spec => []ProperInv)
<1> SUFFICES ASSUME \A b \in Boards : Proper(b) PROVE Spec => []ProperInv
  OBVIOUS
<1>1. Init => ProperInv
  BY ProperInit
<1>2. ProperInv /\ [Next]_vars => ProperInv'
  BY ProperNext, Zenon
<1> QED BY <1>1, <1>2, PTL DEF Spec

\* BoardIsSafe is right both ways, for every board the engine may send and all
\* that the search makes of it: a safe move survives whatever the others do, but
\* for a stacked tail and starvation, and a move called unsafe is refuted by
\* some reply of the others, unless they are too weak to give it.
THEOREM SafeMeansSafeAlways ==
  (\A b \in Boards : Proper(b)) => (Spec => []SafeMeansSafe)
<1> SUFFICES ASSUME \A b \in Boards : Proper(b) PROVE Spec => []SafeMeansSafe
  OBVIOUS
<1>1. Spec => []ProperInv
  BY ProperAlways
<1>2. ProperInv => SafeMeansSafe
  BY ProperIsSafe
<1> QED BY <1>1, <1>2, PTL

-----------------------------------------------------------------------------
(* The duel, and the loops of its search for forced losses. *)

RepliesP == INSTANCE LoopsProofs WITH Step <- TryReply
MovesP == INSTANCE LoopsProofs WITH Step <- TryMove
DeepeningP == INSTANCE LoopsProofs WITH Step <- Deepen
LosingP == INSTANCE LoopsProofs WITH Step <- LostBy
HoldingP == INSTANCE LoopsProofs WITH Step <- HeldBy

\* The same for the loops of the search for forced losses.
LEMMA TheSameSearches ==
  ASSUME NEW c, NEW base, NEW n
  PROVE  /\ ReplyLoop!Run(c, base, n) = RepliesP!Run(c, base, n)
         /\ MoveLoop!Run(c, base, n) = MovesP!Run(c, base, n)
         /\ Deepening!Run(c, base, n) = DeepeningP!Run(c, base, n)
         /\ Losing!Run(c, base, n) = LosingP!Run(c, base, n)
         /\ Holding!Run(c, base, n) = HoldingP!Run(c, base, n)
BY DEF ReplyLoop!Run, RepliesP!Run, MoveLoop!Run, MovesP!Run, Deepening!Run,
       DeepeningP!Run, Losing!Run, LosingP!Run, Holding!Run, HoldingP!Run

\* A board with both snakes, each with its id, and a board that such a one may
\* lead to.
Both(b) == b \in Board /\ DistinctIds(b) /\ SnakeIds(b) = {Me, Foe}
AtMostBoth(b) == b \in Board /\ DistinctIds(b) /\ SnakeIds(b) \subseteq {Me, Foe}

\* The moves of the two snakes, as a command.
LEMMA PairIs ==
  ASSUME NEW b, Both(b), NEW own \in Moves, NEW reply \in Moves
  PROVE  \E command \in Orders(b) :
           /\ command[Me] = own /\ command[Foe] = reply
           /\ Child(b, own, reply) = BoardCloneAndApply(b, command)
<1> DEFINE command == [id \in {Me, Foe} |-> IF id = Me THEN own ELSE reply]
<1>1. command = [id \in {Me, Foe} |-> IF id = Me THEN own ELSE reply]
  OBVIOUS
<1>2. Child(b, own, reply) = BoardCloneAndApply(b, command)
  BY DEF Child
<1> HIDE DEF command
<1>3. command[Me] = own /\ command[Foe] = reply
  BY <1>1, DuelAssumption
<1>4. \A id \in {Me, Foe} : (IF id = Me THEN own ELSE reply) \in Moves \cup {Invalid}
  OBVIOUS
<1>5. command \in [{Me, Foe} -> Moves \cup {Invalid}]
  BY <1>1, <1>4, Zenon
<1>6. command \in Orders(b)
  BY <1>5, Zenon DEF Orders, Both
<1> QED BY <1>2, <1>3, <1>6

\* A turn of the duel leads to a board of the duel.
LEMMA ChildIs ==
  ASSUME NEW b, Both(b), NEW own \in Moves, NEW reply \in Moves
  PROVE  AtMostBoth(Child(b, own, reply))
<1>1. PICK command \in Orders(b) : Child(b, own, reply) = BoardCloneAndApply(b, command)
  BY PairIs
<1>2. b \in Board /\ DistinctIds(b) /\ SnakeIds(b) = {Me, Foe}
  BY DEF Both
<1>3. BoardCloneAndApply(b, command) \in Board
  BY <1>2, TurnLeaves
<1>4. /\ DistinctIds(BoardCloneAndApply(b, command))
      /\ SnakeIds(BoardCloneAndApply(b, command)) \subseteq SnakeIds(b)
  BY <1>2, TurnKeepsIds
<1> QED BY <1>1, <1>2, <1>3, <1>4 DEF AtMostBoth

\* The outcomes of a duel: while it is open both are on the board, and without
\* the opponent it is no loss.
LEMMA OutcomeIs ==
  ASSUME NEW b
  PROVE  /\ DuelOutcome(b) \in {"unresolved", "win", "loss", "draw"}
         /\ DuelOutcome(b) = "unresolved" /\ AtMostBoth(b) => Both(b)
         /\ Foe \notin SnakeIds(b) => DuelOutcome(b) \in {"win", "draw"}
<1>1. DuelOutcome(b) \in {"unresolved", "win", "loss", "draw"}
  BY DEF DuelOutcome
<1>2. DuelOutcome(b) = "unresolved" => IsAlive(b, Me) /\ IsAlive(b, Foe)
  BY DEF DuelOutcome
<1>3. \A id : IsAlive(b, id) => id \in SnakeIds(b)
  BY DEF IsAlive, SnakeIds
<1>4. ~IsAlive(b, Foe) => DuelOutcome(b) \in {"win", "draw"}
  BY DEF DuelOutcome
<1>5. DuelOutcome(b) = "unresolved" /\ AtMostBoth(b) => Both(b)
  BY <1>2, <1>3 DEF AtMostBoth, Both
<1> QED BY <1>1, <1>3, <1>4, <1>5

\* The moves by index.
LEMMA MoveOrderIs ==
  /\ MoveOrder \in Seq(Moves) /\ Len(MoveOrder) = 4
  /\ \A k \in 1 .. 4 : MoveOrder[k] \in Moves
  /\ \A m \in Moves : \E k \in 1 .. 4 : MoveOrder[k] = m
<1>1. MoveOrder \in Seq(Moves) /\ Len(MoveOrder) = 4
  BY DEF MoveOrder, Moves
<1>2. MoveOrder[1] = "up" /\ MoveOrder[2] = "down" /\ MoveOrder[3] = "left"
      /\ MoveOrder[4] = "right"
  BY DEF MoveOrder
<1>3. 1 \in 1 .. 4 /\ 2 \in 1 .. 4 /\ 3 \in 1 .. 4 /\ 4 \in 1 .. 4
  OBVIOUS
<1>4. \A m \in Moves : \E k \in 1 .. 4 : MoveOrder[k] = m
  BY <1>2, <1>3, Zenon DEF Moves
<1>5. \A k \in 1 .. 4 : MoveOrder[k] \in Moves
  BY <1>1, SMTT(30)
<1> QED BY <1>1, <1>4, <1>5

\* The moves that are tried are all but those into the neck.
LEMMA CommandMovesAre ==
  ASSUME NEW b, NEW id
  PROVE  LET moves == CommandMoves(b, id)
             back == IntoNeck(b, b.snakes[IndexOf(b, id)].body)
         IN  /\ moves \in Seq(Moves)
             /\ \A m \in Moves \ back : \E k \in 1 .. Len(moves) : moves[k] = m
<1> DEFINE moves == CommandMoves(b, id)
           back == IntoNeck(b, b.snakes[IndexOf(b, id)].body)
           gone == {k \in 1 .. 4 : MoveOrder[k] \in back}
<1>1. moves = Without(MoveOrder, gone)
  BY DEF CommandMoves
<1> HIDE DEF moves, back
<1>2. moves \in Seq(Moves) /\ \E at : Places(at, moves, MoveOrder, gone, 4)
  <2> HIDE DEF gone
  <2> QED BY <1>1, MoveOrderIs, WithoutPlaces
<1>3. PICK at : Places(at, moves, MoveOrder, gone, 4)
  BY <1>2
<1>4. ASSUME NEW m \in Moves \ back PROVE \E k \in 1 .. Len(moves) : moves[k] = m
  <2>1. PICK p \in 1 .. 4 : MoveOrder[p] = m
    BY MoveOrderIs
  <2>2. p \in (1 .. 4) \ gone
    BY <1>4, <2>1
  <2>3. PICK k \in 1 .. Len(moves) : at[k] = p
    BY <1>3, <2>2 DEF Places
  <2>4. moves[k] = MoveOrder[p]
    BY <1>3, <2>3 DEF Places
  <2> QED BY <2>1, <2>4
<1> QED BY <1>2, <1>4 DEF moves, back

\* A reply into the neck is the opponent's death.
LEMMA NeckKills ==
  ASSUME NEW b, Both(b), NEW own \in Moves, NEW reply \in Moves,
         reply \in IntoNeck(b, b.snakes[IndexOf(b, Foe)].body)
  PROVE  Foe \notin SnakeIds(Child(b, own, reply))
<1> DEFINE j == IndexOf(b, Foe)
           s == b.snakes[j]
           body == s.body
<1>1. PICK command \in Orders(b) :
        /\ command[Foe] = reply
        /\ Child(b, own, reply) = BoardCloneAndApply(b, command)
  BY PairIs
<1>2. b \in Board /\ DistinctIds(b) /\ Foe \in SnakeIds(b)
  BY DEF Both
<1>3. j \in Indices(b) /\ s.id = Foe
  <2>1. \E i \in Indices(b) : b.snakes[i].id = Foe
    BY <1>2 DEF SnakeIds
  <2> QED BY <2>1 DEF IndexOf
<1> HIDE DEF j
<1>4. body \in Seq(Cell)
  <2>1. s \in Snake
    BY <1>2, <1>3, BoardFields
  <2> QED BY <2>1 DEF Snake
<1>5. /\ Len(body) > 1 /\ MoveStep(body[1], reply) = body[2]
      /\ Len(body) > 2 \/ b.constrictor \/ body[2] \in Food(b)
  BY DEF IntoNeck, j
<1>6. body # <<>> /\ SnakeHead(s) = body[1]
  BY <1>4, <1>5 DEF SnakeHead
<1>7. j \in Commanded(b, command)
  <2>1. command[s.id] # Invalid
    BY <1>1, <1>3 DEF Moves, Invalid
  <2> HIDE DEF s
  <2> QED BY <1>3, <1>6, <2>1 DEF Commanded, s
<1>8. Target(b, command, j) = body[2]
  BY <1>1, <1>3, <1>5, <1>6 DEF Target
<1>9. 2 \in 1 .. KeptLength(b, s, Target(b, command, j))
  <2>1. Len(s.body) \in Nat
    BY <1>4
  <2>2. Len(s.body) > 2 \/ (Len(s.body) > 1 /\ Grew(b, s.body[2]))
    BY <1>5 DEF Grew
  <2> HIDE DEF s
  <2>3. KeptLength(b, s, s.body[2]) \in Nat /\ KeptLength(b, s, s.body[2]) >= 2
    BY <2>1, <2>2 DEF KeptLength
  <2> QED BY <1>8, <2>3
<1>10. ~Survives(b, j, command)
  BY <1>2, <1>7, <1>8, <1>9, StayingBodyKills
<1> QED BY <1>1, <1>3, <1>10 DEF Survives

-----------------------------------------------------------------------------
(* The game of the duel, turn by turn. *)

\* What it is to lose, and to hold, in n + 1 turns.
LEMMA LostIs ==
  ASSUME NEW b \in Board
  PROVE  /\ Lost(b, 0) <=> DuelOutcome(b) = "loss"
         /\ \A n \in Nat :
              Lost(b, n + 1)
                <=> \/ DuelOutcome(b) = "loss"
                    \/ /\ DuelOutcome(b) = "unresolved"
                       /\ \A m \in Moves : \E next \in After(b, m) : Lost(next, n)
<1> DEFINE base == [x \in Board |-> DuelOutcome(x) = "loss"]
           L(n) == LosingP!Run({}, base, n)
<1>1. \A x, n : Lost(x, n) = L(n)[x]
  BY TheSameSearches, Zenon DEF Lost
<1>2. L(0) = base
  BY LosingP!RunSteps
<1>3. \A n \in Nat : L(n + 1) = LostBy({}, L(n), n + 1)
  BY ONLY LosingP!RunSteps
<1> HIDE DEF L
<1>4. \A n \in Nat :
        L(n + 1)[b] = (\/ DuelOutcome(b) = "loss"
                       \/ /\ DuelOutcome(b) = "unresolved"
                          /\ \A m \in Moves : \E next \in After(b, m) : L(n)[next])
  BY <1>3 DEF LostBy
<1> QED BY <1>1, <1>2, <1>4

\* The same for holding: some move holds against every reply.
LEMMA HeldIs ==
  ASSUME NEW b \in Board
  PROVE  /\ Held(b, 0) <=> DuelOutcome(b) \in {"win", "draw"}
         /\ \A n \in Nat :
              Held(b, n + 1)
                <=> \/ DuelOutcome(b) \in {"win", "draw"}
                    \/ /\ DuelOutcome(b) = "unresolved"
                       /\ \E m \in Moves : \A next \in After(b, m) : Held(next, n)
<1> DEFINE base == [x \in Board |-> DuelOutcome(x) \in {"win", "draw"}]
           H(n) == HoldingP!Run({}, base, n)
<1>1. \A x, n : Held(x, n) = H(n)[x]
  BY TheSameSearches, Zenon DEF Held
<1>2. H(0) = base
  BY HoldingP!RunSteps
<1>3. \A n \in Nat : H(n + 1) = HeldBy({}, H(n), n + 1)
  BY ONLY HoldingP!RunSteps
<1> HIDE DEF H
<1>4. \A n \in Nat :
        H(n + 1)[b] = (\/ DuelOutcome(b) \in {"win", "draw"}
                       \/ /\ DuelOutcome(b) = "unresolved"
                          /\ \E m \in Moves : \A next \in After(b, m) : H(n)[next])
  BY <1>3 DEF HeldBy
<1> QED BY <1>1, <1>2, <1>4

\* A duel that is over is lost, or held, for any number of turns.
LEMMA OverIsOver ==
  ASSUME NEW b \in Board, NEW n \in Nat
  PROVE  /\ DuelOutcome(b) = "loss" => Lost(b, n)
         /\ DuelOutcome(b) \in {"win", "draw"} => Held(b, n)
<1>1. CASE n = 0
  BY <1>1, LostIs, HeldIs
<1>2. CASE n # 0
  <2>1. n - 1 \in Nat /\ (n - 1) + 1 = n
    BY <1>2
  <2>2. /\ DuelOutcome(b) = "loss" => Lost(b, (n - 1) + 1)
        /\ DuelOutcome(b) \in {"win", "draw"} => Held(b, (n - 1) + 1)
    BY <2>1, LostIs, HeldIs
  <2> QED BY <2>1, <2>2
<1> QED BY <1>1, <1>2

-----------------------------------------------------------------------------
(* The search for forced losses. *)

Results == {"proven", "not_proven", "unknown"}

\* A search that is right about n turns, wherever it was cut short.
RightFor(search, n) ==
  \A b \in Board : AtMostBoth(b) => \A nodes \in Nat :
    LET found == search[<<b, nodes>>]
    IN  /\ found.nodes \in Nat /\ found.result \in Results
        /\ found.result = "proven" => Lost(b, n)
        /\ found.result = "not_proven" => Held(b, n)

\* The replies to an own move: when one of them is said to refute it, one does,
\* and when none is unknown and none refutes it, it holds against all.
LEMMA RepliesAreRight ==
  ASSUME NEW search, NEW n \in Nat, RightFor(search, n),
         NEW b, Both(b), NEW own \in Moves, NEW nodes \in Nat
  PROVE  LET tried == TryReplies(search, b, own, nodes)
         IN  /\ tried \in [refuted : BOOLEAN, unknown : BOOLEAN, nodes : Nat]
             /\ tried.refuted => \E next \in After(b, own) : Lost(next, n)
             /\ ~tried.refuted /\ ~tried.unknown =>
                  \A next \in After(b, own) : Held(next, n)
<1> DEFINE replies == CommandMoves(b, Foe)
           N == Len(replies)
           c == [deeper |-> search, board |-> b, own |-> own, replies |-> replies]
           base == [refuted |-> FALSE, unknown |-> FALSE, nodes |-> nodes]
           State == [refuted : BOOLEAN, unknown : BOOLEAN, nodes : Nat]
           Right(s, k) == /\ s.refuted => \E next \in After(b, own) : Lost(next, n)
                          /\ ~s.refuted /\ ~s.unknown =>
                               \A l \in 1 .. k : Held(Child(b, own, replies[l]), n)
           Holds == {p \in State \X Nat : Right(p[1], p[2])}
           R(k) == RepliesP!Run(c, base, k)
           tried == TryReplies(search, b, own, nodes)
<1>1. tried = R(N)
  BY TheSameSearches DEF TryReplies
<1>2. replies \in Seq(Moves) /\ N \in Nat
  <2>1. replies \in Seq(Moves)
    BY CommandMovesAre
  <2> HIDE DEF replies
  <2> QED BY <2>1
<1>3. /\ c.deeper = search /\ c.board = b /\ c.own = own /\ c.replies = replies
      /\ base \in State /\ ~base.refuted /\ ~base.unknown
  OBVIOUS
<1>4. <<base, 0>> \in Holds
  <2>1. \A l \in 1 .. 0 : Held(Child(b, own, replies[l]), n)
    OBVIOUS
  <2> HIDE DEF base, State, replies
  <2> QED BY <1>3, <2>1
<1> HIDE DEF tried, R, base, c
<1>5. ASSUME NEW state, NEW k \in 1 .. N, <<state, k - 1>> \in Holds
      PROVE  <<TryReply(c, state, k), k>> \in Holds
  <2>1. state \in State /\ Right(state, k - 1) /\ k \in Nat /\ k - 1 \in Nat
    BY <1>2, <1>5
  <2>2. CASE state.refuted
    <3>1. TryReply(c, state, k) = state
      BY <2>2 DEF TryReply
    <3> HIDE DEF State, replies
    <3> QED BY <2>1, <2>2, <3>1
  <2>3. CASE ~state.refuted
    <3> DEFINE child == Child(b, own, replies[k])
               found == search[<<child, state.nodes + 1>>]
               next == Replied(state, found)
    <3>1. TryReply(c, state, k) = next
      BY <1>3, <2>3 DEF TryReply
    <3>2. replies[k] \in Moves
      BY <1>2
    <3>3. AtMostBoth(child)
      BY <3>2, ChildIs
    <3>4. child \in After(b, own)
      BY <3>2 DEF After
    <3> HIDE DEF child, replies, N
    <3>5. state.nodes + 1 \in Nat
      BY <2>1
    <3>6. /\ found.nodes \in Nat /\ found.result \in Results
          /\ found.result = "proven" => Lost(child, n)
          /\ found.result = "not_proven" => Held(child, n)
      BY <3>3, <3>5 DEF RightFor, AtMostBoth
    <3> HIDE DEF found
    <3>7. /\ next \in State
          /\ next.refuted <=> found.result = "proven"
          /\ next.unknown <=> state.unknown \/ found.result = "unknown"
      BY <2>1, <3>6 DEF Replied
    <3> HIDE DEF next, State
    <3>8. next.refuted => \E x \in After(b, own) : Lost(x, n)
      BY <3>4, <3>6, <3>7
    <3>9. ASSUME ~next.refuted, ~next.unknown, NEW l \in 1 .. k
          PROVE  Held(Child(b, own, replies[l]), n)
      <4>1. CASE l = k
        BY <3>6, <3>7, <3>9, <4>1 DEF Results, child
      <4>2. CASE l # k
        <5>1. l \in 1 .. k - 1
          BY <2>1, <4>2
        <5> QED BY <2>1, <2>3, <3>7, <3>9, <5>1
      <4> QED BY <4>1, <4>2
    <3>10. Right(next, k)
      BY <3>8, <3>9
    <3> HIDE DEF Right
    <3> QED BY <2>1, <3>1, <3>7, <3>10
  <2> QED BY <2>2, <2>3
<1>6. <<R(N), N>> \in Holds
  <2>1. N \in 0 .. N
    BY <1>2
  <2> HIDE DEF Holds, N
  <2> QED BY <1>2, <1>4, <1>5, <2>1, RepliesP!RunKeeps DEF R
<1>7. tried \in State /\ Right(tried, N)
  BY <1>1, <1>6
<1>8. ASSUME ~tried.refuted, ~tried.unknown, NEW next \in After(b, own)
      PROVE  Held(next, n)
  <2>1. PICK reply \in Moves : next = Child(b, own, reply)
    BY DEF After
  <2>2. CASE reply \in IntoNeck(b, b.snakes[IndexOf(b, Foe)].body)
    <3>1. next \in Board
      BY <2>1, ChildIs DEF AtMostBoth
    <3>2. DuelOutcome(next) \in {"win", "draw"}
      BY <2>1, <2>2, NeckKills, OutcomeIs
    <3> QED BY <3>1, <3>2, OverIsOver
  <2>3. CASE reply \notin IntoNeck(b, b.snakes[IndexOf(b, Foe)].body)
    <3>1. \E l \in 1 .. N : replies[l] = reply
      BY <2>3, CommandMovesAre
    <3> HIDE DEF State, N, replies
    <3> QED BY <1>7, <1>8, <2>1, <3>1
  <2> QED BY <2>2, <2>3
<1> HIDE DEF State
<1>9. tried \in State /\ (tried.refuted => \E next \in After(b, own) : Lost(next, n))
  BY <1>7
<1> QED BY <1>8, <1>9 DEF tried, State

\* The own moves: when one is said to escape, one holds, and when none does and
\* none is unknown, each loses against some reply.
LEMMA MovesAreRight ==
  ASSUME NEW search, NEW n \in Nat, RightFor(search, n), NEW b, Both(b), NEW nodes \in Nat
  PROVE  LET tried == TryMoves(search, b, nodes)
         IN  /\ tried \in [escape : BOOLEAN, unknown : BOOLEAN, nodes : Nat]
             /\ tried.escape =>
                  \E m \in Moves : \A next \in After(b, m) : Held(next, n)
             /\ ~tried.escape /\ ~tried.unknown =>
                  \A m \in Moves : \E next \in After(b, m) : Lost(next, n)
<1> DEFINE c == [deeper |-> search, board |-> b]
           base == [escape |-> FALSE, unknown |-> FALSE, nodes |-> nodes]
           State == [escape : BOOLEAN, unknown : BOOLEAN, nodes : Nat]
           Tried == [refuted : BOOLEAN, unknown : BOOLEAN, nodes : Nat]
           Right(s, k) == /\ s.escape => \E m \in Moves :
                                           \A next \in After(b, m) : Held(next, n)
                          /\ ~s.escape /\ ~s.unknown =>
                               \A l \in 1 .. k :
                                 \E next \in After(b, MoveOrder[l]) : Lost(next, n)
           Holds == {p \in State \X Nat : Right(p[1], p[2])}
           R(k) == MovesP!Run(c, base, k)
           tried == TryMoves(search, b, nodes)
<1>1. tried = R(4)
  BY TheSameSearches DEF TryMoves
<1>2. /\ c.deeper = search /\ c.board = b
      /\ base \in State /\ ~base.escape /\ ~base.unknown
  OBVIOUS
<1>3. <<base, 0>> \in Holds
  <2>1. \A l \in 1 .. 0 : \E next \in After(b, MoveOrder[l]) : Lost(next, n)
    OBVIOUS
  <2> HIDE DEF base, State
  <2> QED BY <1>2, <2>1
<1> HIDE DEF tried, R, base, c
<1>4. ASSUME NEW state, NEW k \in 1 .. 4, <<state, k - 1>> \in Holds
      PROVE  <<TryMove(c, state, k), k>> \in Holds
  <2>1. state \in State /\ Right(state, k - 1) /\ k \in Nat /\ k - 1 \in Nat
    BY <1>4
  <2>2. CASE state.escape
    <3>1. TryMove(c, state, k) = state
      BY <2>2 DEF TryMove
    <3> HIDE DEF State
    <3> QED BY <2>1, <2>2, <3>1
  <2>3. CASE ~state.escape
    <3> DEFINE own == MoveOrder[k]
               move == TryReplies(search, b, own, state.nodes)
               next == Moved(state, move)
    <3>1. TryMove(c, state, k) = next
      BY <1>2, <2>3 DEF TryMove
    <3>2. own \in Moves
      BY MoveOrderIs, Zenon
    <3> HIDE DEF own
    <3>3. state.nodes \in Nat
      BY <2>1
    <3>4. /\ move \in Tried
          /\ move.refuted => \E x \in After(b, own) : Lost(x, n)
          /\ ~move.refuted /\ ~move.unknown => \A x \in After(b, own) : Held(x, n)
      BY <3>2, <3>3, RepliesAreRight
    <3> HIDE DEF move
    <3>5. /\ next \in State
          /\ next.escape <=> ~move.refuted /\ ~move.unknown
          /\ next.unknown <=> state.unknown \/ ~move.refuted
      BY <2>1, <3>4 DEF Moved
    <3> HIDE DEF next, State
    <3>6. next.escape => \E m \in Moves : \A x \in After(b, m) : Held(x, n)
      BY <3>2, <3>4, <3>5
    <3>7. ASSUME ~next.escape, ~next.unknown, NEW l \in 1 .. k
          PROVE  \E x \in After(b, MoveOrder[l]) : Lost(x, n)
      <4>1. CASE l = k
        BY <3>4, <3>5, <3>7, <4>1 DEF own
      <4>2. CASE l # k
        <5>1. l \in 1 .. k - 1
          BY <2>1, <4>2
        <5> QED BY <2>1, <2>3, <3>5, <3>7, <5>1
      <4> QED BY <4>1, <4>2
    <3>8. Right(next, k)
      BY <3>6, <3>7
    <3> HIDE DEF Right
    <3> QED BY <2>1, <3>1, <3>5, <3>8
  <2> QED BY <2>2, <2>3
<1>5. <<R(4), 4>> \in Holds
  <2>1. 4 \in Nat /\ 4 \in 0 .. 4
    OBVIOUS
  <2> HIDE DEF Holds
  <2> QED BY <1>3, <1>4, <2>1, MovesP!RunKeeps DEF R
<1>6. tried \in State /\ Right(tried, 4)
  BY <1>1, <1>5
<1>7. ASSUME ~tried.escape, ~tried.unknown, NEW m \in Moves
      PROVE  \E next \in After(b, m) : Lost(next, n)
  <2>1. PICK k \in 1 .. 4 : MoveOrder[k] = m
    BY MoveOrderIs
  <2> HIDE DEF State
  <2> QED BY <1>6, <1>7, <2>1
<1> HIDE DEF State
<1>8. tried \in State /\ (tried.escape => \E m \in Moves :
                                            \A next \in After(b, m) : Held(next, n))
  BY <1>6
<1> QED BY <1>7, <1>8 DEF tried, State

\* What the outcome alone says of a position.
LEMMA KnownIsRight ==
  ASSUME NEW b \in Board, NEW n \in Nat, NEW exhausted \in BOOLEAN
  PROVE  LET known == Known(DuelOutcome(b), exhausted)
         IN  /\ known \in Results \cup {"open"}
             /\ known = "proven" => Lost(b, n)
             /\ known = "not_proven" => Held(b, n)
             /\ known = "open" => DuelOutcome(b) = "unresolved"
             /\ exhausted => known # "open"
<1> DEFINE outcome == DuelOutcome(b)
           known == Known(outcome, exhausted)
<1>1. outcome \in {"unresolved", "win", "loss", "draw"}
  BY OutcomeIs
<1>2. /\ outcome = "loss" => Lost(b, n)
      /\ outcome \in {"win", "draw"} => Held(b, n)
  BY OverIsOver
<1> HIDE DEF outcome
<1>3. CASE outcome = "loss"
  <2>1. known = "proven"
    BY <1>3 DEF Known
  <2> QED BY <1>2, <1>3, <2>1 DEF Results, outcome
<1>4. CASE outcome \in {"win", "draw"}
  <2>1. known = "not_proven"
    BY <1>4 DEF Known
  <2> QED BY <1>2, <1>4, <2>1 DEF Results, outcome
<1>5. CASE outcome = "unresolved"
  <2>1. known = IF exhausted THEN "unknown" ELSE "open"
    BY <1>5 DEF Known
  <2> QED BY <1>5, <2>1 DEF Results, outcome
<1> QED BY <1>1, <1>3, <1>4, <1>5

\* A search of a turn more is right about a turn more.
LEMMA DeepenIsRight ==
  ASSUME NEW search, NEW n \in Nat, RightFor(search, n), NEW limit \in Nat, NEW k
  PROVE  RightFor(Deepen(limit, search, k), n + 1)
<1> SUFFICES ASSUME NEW b \in Board, AtMostBoth(b), NEW nodes \in Nat
             PROVE  LET found == Deepen(limit, search, k)[<<b, nodes>>]
                    IN  /\ found.nodes \in Nat /\ found.result \in Results
                        /\ found.result = "proven" => Lost(b, n + 1)
                        /\ found.result = "not_proven" => Held(b, n + 1)
  BY DEF RightFor
<1> DEFINE found == Deepen(limit, search, k)[<<b, nodes>>]
           known == Known(DuelOutcome(b), nodes >= limit)
           tried == TryMoves(search, b, nodes)
<1>1. found = IF known # "open" THEN [result |-> known, nodes |-> nodes]
              ELSE Concluded(tried)
  <2>1. <<b, nodes>> \in Board \X Nat /\ <<b, nodes>>[1] = b /\ <<b, nodes>>[2] = nodes
    OBVIOUS
  <2> QED BY <2>1 DEF Deepen
<1> HIDE DEF found
<1>2. n + 1 \in Nat /\ (nodes >= limit) \in BOOLEAN
  OBVIOUS
<1>3. /\ known \in Results \cup {"open"}
      /\ known = "proven" => Lost(b, n + 1)
      /\ known = "not_proven" => Held(b, n + 1)
      /\ known = "open" => DuelOutcome(b) = "unresolved"
  BY <1>2, KnownIsRight
<1> HIDE DEF known
<1>4. CASE known # "open"
  <2>1. found.result = known /\ found.nodes = nodes
    BY <1>1, <1>4
  <2> QED BY <1>3, <1>4, <2>1 DEF found
<1>5. CASE known = "open"
  <2>1. DuelOutcome(b) = "unresolved" /\ Both(b)
    BY <1>3, <1>5, OutcomeIs
  <2>2. /\ tried \in [escape : BOOLEAN, unknown : BOOLEAN, nodes : Nat]
        /\ tried.escape => \E m \in Moves : \A next \in After(b, m) : Held(next, n)
        /\ ~tried.escape /\ ~tried.unknown =>
             \A m \in Moves : \E next \in After(b, m) : Lost(next, n)
    BY <2>1, MovesAreRight
  <2> HIDE DEF tried
  <2>3. /\ found.nodes = tried.nodes
        /\ found.result = IF tried.escape THEN "not_proven"
                          ELSE IF tried.unknown THEN "unknown" ELSE "proven"
    BY <1>1, <1>5, <2>2 DEF Concluded, Judge
  <2>4. tried.escape => Held(b, n + 1)
    BY <2>1, <2>2, HeldIs
  <2>5. ~tried.escape /\ ~tried.unknown => Lost(b, n + 1)
    BY <2>1, <2>2, LostIs
  <2>6. tried.nodes \in Nat
    BY <2>2
  <2> QED BY <2>3, <2>4, <2>5, <2>6 DEF Results, found
<1> QED BY <1>4, <1>5

\* A search of depth 0 knows what is over.
LEMMA HorizonIsRight == RightFor(Horizon, 0)
<1> SUFFICES ASSUME NEW b \in Board, AtMostBoth(b), NEW nodes \in Nat
             PROVE  LET found == Horizon[<<b, nodes>>]
                    IN  /\ found.nodes \in Nat /\ found.result \in Results
                        /\ found.result = "proven" => Lost(b, 0)
                        /\ found.result = "not_proven" => Held(b, 0)
  BY DEF RightFor
<1> DEFINE found == Horizon[<<b, nodes>>]
           known == Known(DuelOutcome(b), TRUE)
<1>1. found = [result |-> known, nodes |-> nodes]
  <2>1. <<b, nodes>> \in Board \X Nat /\ <<b, nodes>>[1] = b /\ <<b, nodes>>[2] = nodes
    OBVIOUS
  <2> QED BY <2>1 DEF Horizon
<1>2. /\ known \in Results \cup {"open"} /\ known # "open"
      /\ known = "proven" => Lost(b, 0)
      /\ known = "not_proven" => Held(b, 0)
  <2>1. 0 \in Nat /\ TRUE \in BOOLEAN
    OBVIOUS
  <2> QED BY <2>1, KnownIsRight
<1> HIDE DEF known, found
<1>3. found.result = known /\ found.nodes = nodes
  BY <1>1
<1> QED BY <1>2, <1>3 DEF found

\* The search of any depth and any limit is right about as many turns.
LEMMA ForcedLossIsRight ==
  ASSUME NEW limit \in Nat
  PROVE  \A n \in Nat : RightFor(ForcedLoss(n, limit), n)
<1> DEFINE F(n) == DeepeningP!Run(limit, Horizon, n)
           S == {n \in Nat : RightFor(F(n), n)}
<1>1. \A n : ForcedLoss(n, limit) = F(n)
  BY TheSameSearches DEF ForcedLoss
<1>2. F(0) = Horizon /\ \A n \in Nat : F(n + 1) = Deepen(limit, F(n), n + 1)
  BY ONLY DeepeningP!RunSteps
<1> HIDE DEF F
<1>3. 0 \in S
  BY <1>2, HorizonIsRight
<1>4. ASSUME NEW n \in Nat, n \in S PROVE n + 1 \in S
  <2>1. RightFor(F(n), n) /\ n + 1 \in Nat
    BY <1>4
  <2>2. RightFor(F(n + 1), n + 1)
    BY <1>2, <2>1, DeepenIsRight
  <2> QED BY <2>1, <2>2
<1> HIDE DEF S
<1>5. Nat \subseteq S
  BY <1>3, <1>4, DeepeningP!Induction
<1> QED BY <1>1, <1>5 DEF S

\* core_refute_root_move is right about the game, whatever the board, the turns it
\* looks ahead and the node at which it is cut short: a move that it calls proven
\* has a reply after which every own play loses within those turns, and one that
\* it calls not proven holds against every reply.
THEOREM RefuteIsRight ==
  ASSUME NEW b, Both(b), NEW own \in Moves, NEW horizon \in Nat, NEW limit \in Nat
  PROVE  LET found == RefuteRootMove(b, own, horizon, limit)
         IN  /\ found \in Results
             /\ found = "proven" => \E next \in After(b, own) : Lost(next, horizon)
             /\ found = "not_proven" => \A next \in After(b, own) : Held(next, horizon)
<1> DEFINE search == ForcedLoss(horizon, limit)
           tried == TryReplies(search, b, own, 0)
           found == RefuteRootMove(b, own, horizon, limit)
<1>1. RightFor(search, horizon)
  BY ForcedLossIsRight
<1>2. found = Judge(tried.refuted, tried.unknown)
  BY DEF RefuteRootMove
<1> HIDE DEF search, found
<1>3. 0 \in Nat
  OBVIOUS
<1>4. /\ tried \in [refuted : BOOLEAN, unknown : BOOLEAN, nodes : Nat]
      /\ tried.refuted => \E next \in After(b, own) : Lost(next, horizon)
      /\ ~tried.refuted /\ ~tried.unknown => \A next \in After(b, own) : Held(next, horizon)
  BY <1>1, <1>3, RepliesAreRight
<1> HIDE DEF tried
<1>5. found = IF tried.refuted THEN "proven"
              ELSE IF tried.unknown THEN "unknown" ELSE "not_proven"
  BY <1>2, <1>4 DEF Judge
<1> QED BY <1>4, <1>5 DEF Results, found

-----------------------------------------------------------------------------
(* The policy. *)

\* A candidate, whatever the analyses say of it.
Candidates(S) ==
  [safe_by_rules : S, alive_replies : S, both_alive : S, loss_replies : S,
   trap : S, trap_horizon : S, capacity : S, post_length : S,
   proof : S, cutoff : S, proof_horizon : S, refutation : S, rejection : S]

IsCandidate(c) == \E S : c \in Candidates(S)

\* The profile of a position: what is known of each move from the rules.
ProfileOf(b, cs) ==
  /\ Both(b)
  /\ cs = [m \in Moves |-> cs[m]]
  /\ \A m \in Moves :
       /\ IsCandidate(cs[m])
       /\ cs[m].alive_replies = Replies(b, m, {"win", "unresolved"})
       /\ cs[m].loss_replies = Replies(b, m, {"loss"})
       /\ cs[m].trap_horizon \in Nat

\* What is said of a move in the game is so.
RefutationsRight(b, cs) ==
  \A m \in Moves :
    /\ cs[m].refutation = "proven" =>
         \E next \in After(b, m) : Lost(next, cs[m].trap_horizon)
    /\ cs[m].refutation = "not_proven" =>
         \A next \in After(b, m) : Held(next, cs[m].trap_horizon)

\* And so are the reasons for which a move is dropped.
DropsRight(b, cs, mask) ==
  /\ mask \subseteq Moves
  /\ \A m \in Moves \ mask :
       /\ \E next \in After(b, m) : Lost(next, cs[m].trap_horizon)
       /\ \E k \in mask : cs[k].alive_replies # {}

\* The same of a move, but for what was found of it.
SameProfile(c, d) ==
  /\ IsCandidate(d)
  /\ d.alive_replies = c.alive_replies /\ d.loss_replies = c.loss_replies

LEMMA CandidatesGrow ==
  ASSUME NEW S, NEW T, S \subseteq T
  PROVE  Candidates(S) \subseteq Candidates(T)
BY DEF Candidates

\* A look for a trap leaves the rest of a candidate.
LEMMA TrapFields ==
  ASSUME NEW c, IsCandidate(c), NEW found
  PROVE  /\ SameProfile(c, WithTrap(c, found))
         /\ WithTrap(c, found).trap_horizon = found.trap_horizon
         /\ WithTrap(c, found).refutation = c.refutation
<1>1. PICK S : c \in Candidates(S)
  BY DEF IsCandidate
<1> DEFINE T == S \cup {found.trap, found.trap_horizon, found.capacity, found.post_length}
<1>2. /\ c \in Candidates(T) /\ found.trap \in T /\ found.trap_horizon \in T
      /\ found.capacity \in T /\ found.post_length \in T
  BY <1>1, CandidatesGrow
<1> HIDE DEF T
<1>3. /\ WithTrap(c, found) \in Candidates(T)
      /\ WithTrap(c, found).alive_replies = c.alive_replies
      /\ WithTrap(c, found).loss_replies = c.loss_replies
      /\ WithTrap(c, found).trap_horizon = found.trap_horizon
      /\ WithTrap(c, found).refutation = c.refutation
  BY <1>2 DEF Candidates, WithTrap
<1> QED BY <1>3 DEF SameProfile, IsCandidate

\* So does a structural verdict.
LEMMA VerdictFields ==
  ASSUME NEW c, IsCandidate(c), NEW found
  PROVE  /\ SameProfile(c, WithVerdict(c, found))
         /\ WithVerdict(c, found).trap_horizon = c.trap_horizon
         /\ WithVerdict(c, found).refutation = c.refutation
<1>1. PICK S : c \in Candidates(S)
  BY DEF IsCandidate
<1> DEFINE T == S \cup {found.proof, found.cutoff, found.proof_horizon}
<1>2. /\ c \in Candidates(T) /\ found.proof \in T /\ found.cutoff \in T
      /\ found.proof_horizon \in T
  BY <1>1, CandidatesGrow
<1> HIDE DEF T
<1>3. /\ WithVerdict(c, found) \in Candidates(T)
      /\ WithVerdict(c, found).alive_replies = c.alive_replies
      /\ WithVerdict(c, found).loss_replies = c.loss_replies
      /\ WithVerdict(c, found).trap_horizon = c.trap_horizon
      /\ WithVerdict(c, found).refutation = c.refutation
  BY <1>2 DEF Candidates, WithVerdict
<1> QED BY <1>3 DEF SameProfile, IsCandidate

\* So does an attempt to refute the move.
LEMMA RefutationFields ==
  ASSUME NEW c, IsCandidate(c), NEW found
  PROVE  /\ SameProfile(c, WithRefutation(c, found))
         /\ WithRefutation(c, found).trap_horizon = c.trap_horizon
         /\ WithRefutation(c, found).refutation = found
<1>1. PICK S : c \in Candidates(S)
  BY DEF IsCandidate
<1> DEFINE T == S \cup {found, "short_self_trap"}
<1>2. c \in Candidates(T) /\ found \in T /\ "short_self_trap" \in T
  BY <1>1, CandidatesGrow
<1> HIDE DEF T
<1>3. /\ WithRefutation(c, found) \in Candidates(T)
      /\ WithRefutation(c, found).alive_replies = c.alive_replies
      /\ WithRefutation(c, found).loss_replies = c.loss_replies
      /\ WithRefutation(c, found).trap_horizon = c.trap_horizon
      /\ WithRefutation(c, found).refutation = found
  BY <1>2 DEF Candidates, WithRefutation
<1> QED BY <1>3 DEF SameProfile, IsCandidate

\* And so does a rejection.
LEMMA RejectionFields ==
  ASSUME NEW c, IsCandidate(c)
  PROVE  LET d == [c EXCEPT !.rejection = "no_surviving_reply"]
         IN  /\ SameProfile(c, d) /\ d.trap_horizon = c.trap_horizon
             /\ d.refutation = c.refutation
<1> DEFINE d == [c EXCEPT !.rejection = "no_surviving_reply"]
<1>1. PICK S : c \in Candidates(S)
  BY DEF IsCandidate
<1> DEFINE T == S \cup {"no_surviving_reply"}
<1>2. c \in Candidates(T) /\ "no_surviving_reply" \in T
  BY <1>1, CandidatesGrow
<1> HIDE DEF T
<1>3. /\ d \in Candidates(T)
      /\ d.alive_replies = c.alive_replies /\ d.loss_replies = c.loss_replies
      /\ d.trap_horizon = c.trap_horizon /\ d.refutation = c.refutation
  BY <1>2 DEF Candidates
<1> HIDE DEF d
<1>4. SameProfile(c, d)
  BY <1>3 DEF SameProfile, IsCandidate
<1> QED BY <1>3, <1>4 DEF d

\* A profile, with another candidate for one of the moves.
LEMMA ProfileChange ==
  ASSUME NEW b, NEW cs, ProfileOf(b, cs), NEW move \in Moves, NEW c,
         SameProfile(cs[move], c), c.trap_horizon \in Nat,
         NEW ds, ds = [cs EXCEPT ![move] = c]
  PROVE  /\ ProfileOf(b, ds) /\ ds[move] = c
         /\ \A m \in Moves : m # move => ds[m] = cs[m]
<1>1. cs = [m \in Moves |-> cs[m]]
  BY DEF ProfileOf
<1>2. DOMAIN cs = Moves
  BY <1>1
<1>3. /\ ds = [m \in Moves |-> ds[m]] /\ ds[move] = c
      /\ \A m \in Moves : m # move => ds[m] = cs[m]
  BY <1>2
<1>4. ASSUME NEW m \in Moves
      PROVE  /\ IsCandidate(ds[m])
             /\ ds[m].alive_replies = Replies(b, m, {"win", "unresolved"})
             /\ ds[m].loss_replies = Replies(b, m, {"loss"})
             /\ ds[m].trap_horizon \in Nat
  <2>1. CASE m = move
    <3>1. ds[m] = c
      BY <1>3, <2>1
    <3> QED BY <2>1, <3>1, Zenon DEF ProfileOf, SameProfile
  <2>2. CASE m # move
    <3>1. ds[m] = cs[m]
      BY <1>3, <2>2
    <3> QED BY <3>1, Zenon DEF ProfileOf
  <2> QED BY <2>1, <2>2
<1>5. ProfileOf(b, ds)
  BY <1>3, <1>4, Zenon DEF ProfileOf
<1> QED BY <1>3, <1>5

\* What holds between the steps of the policy.
PolicyInv ==
  /\ position \in Positions
  /\ step \in {"start", "trap", "verdict", "reject", "refute", "done"}
  /\ step \in {"start", "reject"} => looked = {}
  /\ step \in {"trap", "refute"} => looked \subseteq Moves /\ looked # Moves
  /\ step \in {"trap", "verdict", "reject", "refute"} =>
       StandardDuel /\ ProfileOf(position, candidate)
  /\ step \in {"trap", "verdict", "reject"} =>
       \A m \in Moves : candidate[m].refutation = "none"
  /\ step = "start" => candidate = <<>>
  /\ step = "done" => \/ candidate = <<>> /\ policy = "strict"
                      \/ ProfileOf(position, candidate)
  /\ step \in {"refute", "done"} /\ candidate # <<>> =>
       RefutationsRight(position, candidate)
  /\ step = "refute" \/ (step = "done" /\ policy = "ladder") =>
       DropsRight(position, candidate, allowed)

\* Of some moves one is the first.
LEMMA FirstOfIs ==
  ASSUME NEW S \in SUBSET Moves, S # {}
  PROVE  FirstOf(S) \in S
<1> DEFINE First(m) == \A k \in 1 .. 4 :
                         MoveOrder[k] \in S => \E l \in 1 .. k : MoveOrder[l] = m
<1>1. /\ MoveOrder[1] = "up" /\ MoveOrder[2] = "down"
      /\ MoveOrder[3] = "left" /\ MoveOrder[4] = "right"
  BY DEF MoveOrder
<1>2. /\ \A k \in 1 .. 4 : k = 1 \/ k = 2 \/ k = 3 \/ k = 4
      /\ \A k \in 1 .. 4 : 1 \in 1 .. k
      /\ \A k \in 1 .. 4 : k = 1 \/ 2 \in 1 .. k
      /\ 3 \in 1 .. 3 /\ 3 \in 1 .. 4 /\ 4 \in 1 .. 4
  OBVIOUS
<1>3. CASE "up" \in S
  <2>1. First("up")
    BY <1>1, <1>2
  <2> QED BY <1>3, <2>1, Zenon DEF FirstOf
<1>4. CASE "up" \notin S /\ "down" \in S
  <2>1. First("down")
    BY <1>1, <1>2, <1>4
  <2> QED BY <1>4, <2>1, Zenon DEF FirstOf
<1>5. CASE "up" \notin S /\ "down" \notin S /\ "left" \in S
  <2>1. First("left")
    BY <1>1, <1>2, <1>5
  <2> QED BY <1>5, <2>1, Zenon DEF FirstOf
<1>6. CASE "up" \notin S /\ "down" \notin S /\ "left" \notin S
  <2>1. "right" \in S
    BY <1>6 DEF Moves
  <2>2. First("right")
    BY <1>1, <1>2, <1>6
  <2> QED BY <2>1, <2>2, Zenon DEF FirstOf
<1> QED BY <1>3, <1>4, <1>5, <1>6

LEMMA NextMoveIs ==
  ASSUME looked \subseteq Moves, looked # Moves
  PROVE  NextMove \in Moves \ looked
<1>1. Moves \ looked \in SUBSET Moves /\ Moves \ looked # {}
  OBVIOUS
<1> QED BY ONLY <1>1, FirstOfIs DEF NextMove

\* What the assumption says of a duel that the policy is asked about.
LEMMA DuelIs ==
  ASSUME position \in Positions, IsDuel(position)
  PROVE  /\ Both(position)
         /\ ~position.constrictor => \A m \in Moves :
              TrapAnalysis(position, m) \in [trap : STRING, trap_horizon : Nat,
                                             capacity : Nat, post_length : Int]
<1>1. /\ position \in Board /\ Len(position.snakes) = 2
      /\ SnakeIds(position) = {Me, Foe}
      /\ ~position.constrictor => \A m \in Moves :
           TrapAnalysis(position, m) \in [trap : STRING, trap_horizon : Nat,
                                          capacity : Nat, post_length : Int]
  BY RootPolicyAssumption DEF IsDuel, SnakeIds
<1>2. Indices(position) = 1 .. 2
  BY <1>1, BoardFields
<1>3. SnakeIds(position) = {position.snakes[1].id, position.snakes[2].id}
  BY <1>2 DEF SnakeIds
<1>4. position.snakes[1].id # position.snakes[2].id
  BY <1>1, <1>3, DuelAssumption
<1>5. DistinctIds(position)
  BY <1>2, <1>4 DEF DistinctIds
<1> QED BY <1>1, <1>5 DEF Both

\* The policy starts so, and every step of it keeps it so: the strict mask of
\* another game, the profile, the looks for a trap and for a proof, the moves
\* rejected for having no survivor, and the refutations.
LEMMA PolicyStarts ==
  ASSUME NEW b \in Positions, PolicyInit(b)
  PROVE  PolicyInv
BY DEF PolicyInit, PolicyInv

\* The strict mask records no candidate.
LEMMA StrictStep == PolicyInv /\ KeepStrictMask => PolicyInv'
BY DEF PolicyInv, KeepStrictMask

\* The profile is what the rules say of each move.
LEMMA ProfileStep == PolicyInv /\ Profile => PolicyInv'
<1> SUFFICES ASSUME PolicyInv, Profile PROVE PolicyInv'
  OBVIOUS
<1>1. /\ position' = position /\ StandardDuel /\ position \in Positions
      /\ looked = {} /\ looked' = looked
      /\ step' = "trap" /\ candidate' = [m \in Moves |-> NewCandidate(position, m)]
  BY DEF PolicyInv, Profile
<1>2. Both(position)
  BY <1>1, DuelIs DEF StandardDuel
<1> DEFINE new(m) == NewCandidate(position, m)
           S == {new(m).safe_by_rules : m \in Moves} \cup {new(m).alive_replies : m \in Moves}
                  \cup {new(m).both_alive : m \in Moves}
                  \cup {new(m).loss_replies : m \in Moves}
                  \cup {"not_analyzed", "none", 0}
<1>3. \A m \in Moves :
        /\ NewCandidate(position, m) \in Candidates(S)
        /\ NewCandidate(position, m).alive_replies = Replies(position, m, {"win", "unresolved"})
        /\ NewCandidate(position, m).loss_replies = Replies(position, m, {"loss"})
        /\ NewCandidate(position, m).trap_horizon = 0
        /\ NewCandidate(position, m).refutation = "none"
  <2> TAKE m \in Moves
  <2> DEFINE safe == m \in BoardSafeMoves(position, IndexOf(position, Me))
             alive == Replies(position, m, {"win", "unresolved"})
             both == Replies(position, m, {"unresolved"})
             lost == Replies(position, m, {"loss"})
             c == NewCandidate(position, m)
  <2>1. c = [safe_by_rules |-> safe, alive_replies |-> alive, both_alive |-> both,
             loss_replies |-> lost, trap |-> "not_analyzed", trap_horizon |-> 0,
             capacity |-> 0, post_length |-> 0, proof |-> "not_analyzed",
             cutoff |-> "none", proof_horizon |-> 0, refutation |-> "none",
             rejection |-> "none"]
    BY DEF NewCandidate
  <2> HIDE DEF safe, alive, both, lost, c
  <2>2. /\ c.safe_by_rules = safe /\ c.alive_replies = alive /\ c.both_alive = both
        /\ c.loss_replies = lost /\ c.trap_horizon = 0 /\ c.refutation = "none"
    BY <2>1
  <2>3. /\ c.safe_by_rules \in S /\ c.alive_replies \in S /\ c.both_alive \in S
        /\ c.loss_replies \in S /\ "not_analyzed" \in S /\ "none" \in S /\ 0 \in S
    <3>1. c = new(m)
      BY DEF c
    <3> HIDE DEF new
    <3> QED BY <3>1, Zenon
  <2> HIDE DEF S
  <2>4. c \in Candidates(S)
    BY <2>1, <2>2, <2>3 DEF Candidates
  <2> QED BY <2>2, <2>4 DEF c, alive, lost
<1> HIDE DEF S
<1>4. \A m \in Moves : candidate'[m] = NewCandidate(position, m)
  BY <1>1
<1>5. candidate' = [m \in Moves |-> candidate'[m]]
  BY <1>1
<1>6. ProfileOf(position', candidate')
  <2>1. 0 \in Nat
    OBVIOUS
  <2>2. \A m \in Moves : IsCandidate(candidate'[m])
    BY <1>3, <1>4 DEF IsCandidate
  <2> QED BY <1>1, <1>2, <1>3, <1>4, <1>5, <2>1, <2>2, Zenon DEF ProfileOf
<1>7. \A m \in Moves : candidate'[m].refutation = "none"
  BY <1>3, <1>4
<1>8. StandardDuel'
  BY <1>1 DEF StandardDuel
<1>9. looked' \subseteq Moves /\ looked' # Moves
  BY <1>1 DEF Moves
<1> QED BY <1>1, <1>6, <1>7, <1>8, <1>9 DEF PolicyInv

\* What a look for a trap may find.
LEMMA TrapFound ==
  ASSUME NEW line \in [trap : STRING, trap_horizon : Nat, capacity : Nat, post_length : Int],
         NEW found \in CutShort(line) \cup {line, NotAnalyzed}
  PROVE  found.trap_horizon \in Nat
<1>1. NotAnalyzed.trap_horizon = 0
  BY DEF NotAnalyzed
<1>2. CASE found = NotAnalyzed
  BY <1>1, <1>2
<1>3. CASE found = line
  BY <1>3
<1>4. ASSUME NEW h \in 0 .. line.trap_horizon,
             found = [line EXCEPT !.trap = "unknown", !.trap_horizon = h]
      PROVE  found.trap_horizon \in Nat
  <2>1. found.trap_horizon = h /\ line.trap_horizon \in Nat
    BY <1>4
  <2> QED BY <2>1
<1> QED BY <1>2, <1>3, <1>4 DEF CutShort

\* A look for a trap changes the horizon that later proofs are about, and no proof
\* has been made yet.
LEMMA TrapStep == PolicyInv /\ AnalyzeTrap => PolicyInv'
<1> SUFFICES ASSUME PolicyInv, AnalyzeTrap PROVE PolicyInv'
  OBVIOUS
<1>1. /\ position' = position /\ StandardDuel /\ position \in Positions
      /\ looked \subseteq Moves /\ looked # Moves /\ step = "trap"
      /\ ProfileOf(position, candidate) /\ Proceed(NextMove, "verdict")
      /\ \A m \in Moves : candidate[m].refutation = "none"
  BY DEF PolicyInv, AnalyzeTrap
<1>2. NextMove \in Moves \ looked
  BY <1>1, NextMoveIs
<1> DEFINE line == TrapAnalysis(position, NextMove)
<1> DEFINE own == NextMove
<1>3. PICK found \in CutShort(line) \cup {line, NotAnalyzed} :
        candidate' = [candidate EXCEPT ![own] = WithTrap(candidate[own], found)]
  BY DEF AnalyzeTrap
<1>4. line \in [trap : STRING, trap_horizon : Nat, capacity : Nat, post_length : Int]
  BY <1>1, <1>2, DuelIs DEF StandardDuel
<1> HIDE DEF line, own
<1>5. found.trap_horizon \in Nat
  BY <1>3, <1>4, TrapFound
<1>6. /\ ProfileOf(position, candidate')
      /\ \A m \in Moves : candidate'[m].refutation = "none"
  <2> DEFINE c == WithTrap(candidate[own], found)
  <2>1. own \in Moves /\ IsCandidate(candidate[own])
    BY <1>1, <1>2 DEF ProfileOf, own
  <2>2. /\ SameProfile(candidate[own], c) /\ c.trap_horizon \in Nat
        /\ c.refutation = "none"
    BY <1>1, <1>5, <2>1, TrapFields
  <2>3. candidate' = [candidate EXCEPT ![own] = c]
    BY <1>3
  <2> HIDE DEF c
  <2>4. /\ own \in Moves /\ ProfileOf(position, candidate)
        /\ SameProfile(candidate[own], c) /\ c.trap_horizon \in Nat
    BY <1>1, <2>1, <2>2
  <2>5. ProfileOf(position, candidate')
    BY ONLY <2>4, <2>3, ProfileChange
  <2>6. candidate'[own] = c
    BY ONLY <2>4, <2>3 DEF ProfileOf
  <2>7. \A m \in Moves : m # own => candidate'[m] = candidate[m]
    BY ONLY <2>4, <2>3 DEF ProfileOf
  <2> QED BY <1>1, <2>2, <2>5, <2>6, <2>7
<1>7. \/ step' = "verdict"
      \/ step' = "trap" /\ looked' \subseteq Moves /\ looked' # Moves
  BY <1>1, <1>2 DEF Proceed, own
<1>8. StandardDuel'
  BY <1>1 DEF StandardDuel
<1> QED BY <1>1, <1>6, <1>7, <1>8 DEF PolicyInv

\* A structural verdict says nothing of the game; the policy may ask for one of a
\* move of which there is no candidate, and then nothing is recorded.
LEMMA StructureStep == PolicyInv /\ AnalyzeStructure => PolicyInv'
<1> SUFFICES ASSUME PolicyInv, AnalyzeStructure PROVE PolicyInv'
  OBVIOUS
<1>1. /\ position' = position /\ policy' = policy /\ position \in Positions
      /\ StandardDuel /\ step = "verdict" /\ ProfileOf(position, candidate)
      /\ \A m \in Moves : candidate[m].refutation = "none"
  BY DEF PolicyInv, AnalyzeStructure
<1>2. PICK move, found :
        /\ candidate' = [candidate EXCEPT ![move] = WithVerdict(candidate[move], found)]
        /\ Proceed(move, IF policy = "ladder" THEN "reject" ELSE "done")
  BY DEF AnalyzeStructure
<1>3. /\ ProfileOf(position, candidate')
      /\ \A m \in Moves : candidate'[m].refutation = "none"
  <2>1. CASE move \in Moves
    <3> DEFINE c == WithVerdict(candidate[move], found)
    <3>1. IsCandidate(candidate[move]) /\ candidate[move].trap_horizon \in Nat
      BY <1>1, <2>1 DEF ProfileOf
    <3>2. /\ SameProfile(candidate[move], c) /\ c.trap_horizon \in Nat
          /\ c.refutation = "none"
      BY <1>1, <2>1, <3>1, VerdictFields
    <3>3. candidate' = [candidate EXCEPT ![move] = c]
      BY <1>2
    <3> HIDE DEF c
    <3>4. /\ move \in Moves /\ ProfileOf(position, candidate)
          /\ SameProfile(candidate[move], c) /\ c.trap_horizon \in Nat
      BY <1>1, <2>1, <3>2
    <3>5. ProfileOf(position, candidate')
      BY ONLY <3>4, <3>3, ProfileChange
    <3>6. candidate'[move] = c
      BY ONLY <3>4, <3>3 DEF ProfileOf
    <3>7. \A m \in Moves : m # move => candidate'[m] = candidate[m]
      BY ONLY <3>4, <3>3 DEF ProfileOf
    <3> QED BY <1>1, <3>2, <3>5, <3>6, <3>7
  <2>2. CASE move \notin Moves
    <3>1. candidate' = candidate
      <4>1. candidate = [m \in Moves |-> candidate[m]]
        BY <1>1 DEF ProfileOf
      <4>2. DOMAIN candidate = Moves
        BY <4>1
      <4> QED BY <1>2, <2>2, <4>1, <4>2
    <3> QED BY <1>1, <3>1
  <2> QED BY <2>1, <2>2
<1>4. \/ step' = "verdict"
      \/ step' = "reject" /\ policy = "ladder" /\ looked' = {}
      \/ step' = "done" /\ policy # "ladder"
  BY <1>1, <1>2 DEF Proceed
<1>6. RefutationsRight(position', candidate')
  BY <1>3 DEF RefutationsRight
<1>7. StandardDuel'
  BY <1>1 DEF StandardDuel
<1> QED BY <1>1, <1>3, <1>4, <1>6, <1>7 DEF PolicyInv

\* A move that no reply lets survive, and that one reply loses, is lost.
LEMMA NoSurvivorIsLost ==
  ASSUME NEW b, NEW cs, ProfileOf(b, cs), NEW m \in Moves, NoSurvivor(cs[m])
  PROVE  \E next \in After(b, m) : Lost(next, cs[m].trap_horizon)
<1>1. Both(b) /\ cs[m].loss_replies = Replies(b, m, {"loss"}) /\ cs[m].trap_horizon \in Nat
  BY DEF ProfileOf
<1>2. PICK r \in ToSet(CommandMoves(b, Foe)) : DuelOutcome(Child(b, m, r)) \in {"loss"}
  BY <1>1 DEF NoSurvivor, Replies
<1>3. r \in Moves
  <2>1. CommandMoves(b, Foe) \in Seq(Moves)
    BY CommandMovesAre
  <2> QED BY <1>2, <2>1 DEF ToSet
<1>4. Child(b, m, r) \in Board
  BY <1>1, <1>3, ChildIs DEF AtMostBoth
<1>5. Lost(Child(b, m, r), cs[m].trap_horizon)
  BY <1>1, <1>2, <1>4, OverIsOver
<1> QED BY <1>3, <1>5 DEF After

\* A move without survivors is lost at once to some reply.
LEMMA RejectStep == PolicyInv /\ RejectUnsurvivable => PolicyInv'
<1> SUFFICES ASSUME PolicyInv, RejectUnsurvivable PROVE PolicyInv'
  OBVIOUS
<1>1. /\ position' = position /\ position \in Positions /\ StandardDuel
      /\ step' = "refute" /\ looked' = {} /\ ProfileOf(position, candidate)
      /\ \A m \in Moves : candidate[m].refutation = "none"
  BY DEF PolicyInv, RejectUnsurvivable
<1> DEFINE rejected == IF \E m \in Moves : candidate[m].alive_replies # {}
                       THEN {m \in Moves : NoSurvivor(candidate[m])} ELSE {}
           Rejected(c) == [c EXCEPT !.rejection = "no_surviving_reply"]
<1>2. /\ allowed' = Moves \ rejected
      /\ candidate' = [m \in Moves |-> IF m \in rejected THEN Rejected(candidate[m])
                                                         ELSE candidate[m]]
  BY DEF RejectUnsurvivable
<1>3. ASSUME NEW m \in Moves
      PROVE  /\ SameProfile(candidate[m], Rejected(candidate[m]))
             /\ Rejected(candidate[m]).trap_horizon = candidate[m].trap_horizon
             /\ Rejected(candidate[m]).refutation = candidate[m].refutation
  <2>1. IsCandidate(candidate[m])
    BY <1>1 DEF ProfileOf
  <2> HIDE DEF Rejected
  <2> QED BY <2>1, RejectionFields DEF Rejected
<1> HIDE DEF rejected, Rejected
<1>4. ASSUME NEW m \in Moves
      PROVE  /\ SameProfile(candidate[m], candidate'[m])
             /\ candidate'[m].trap_horizon = candidate[m].trap_horizon
             /\ candidate'[m].refutation = candidate[m].refutation
  <2>1. CASE m \in rejected
    <3>1. candidate'[m] = Rejected(candidate[m])
      BY <1>2, <2>1
    <3> QED BY <1>3, <3>1
  <2>2. CASE m \notin rejected
    <3>1. candidate'[m] = candidate[m]
      BY <1>2, <2>2
    <3> QED BY <1>1, <3>1 DEF ProfileOf, SameProfile
  <2> QED BY <2>1, <2>2
<1>7. \A m \in Moves :
        /\ IsCandidate(candidate'[m])
        /\ candidate'[m].alive_replies = candidate[m].alive_replies
        /\ candidate'[m].loss_replies = candidate[m].loss_replies
        /\ candidate'[m].trap_horizon = candidate[m].trap_horizon
        /\ candidate'[m].refutation = candidate[m].refutation
  BY <1>4 DEF SameProfile
<1>8. ProfileOf(position, candidate')
  <2>1. candidate' = [m \in Moves |-> candidate'[m]]
    BY <1>2
  <2> QED BY <1>1, <1>7, <2>1 DEF ProfileOf
<1>9. RefutationsRight(position', candidate')
  BY <1>1, <1>7 DEF RefutationsRight
<1>10. DropsRight(position', candidate', allowed')
  <2> SUFFICES ASSUME NEW m \in rejected, m \in Moves
               PROVE  /\ \E next \in After(position, m) :
                           Lost(next, candidate[m].trap_horizon)
                      /\ \E k \in allowed' : candidate'[k].alive_replies # {}
    BY <1>1, <1>2, <1>7 DEF DropsRight
  <2>1. NoSurvivor(candidate[m]) /\ \E k \in Moves : candidate[k].alive_replies # {}
    BY DEF rejected
  <2>2. PICK k \in Moves : candidate[k].alive_replies # {}
    BY <2>1
  <2>3. k \in allowed'
    BY <1>2, <2>2 DEF rejected, NoSurvivor
  <2>4. \E next \in After(position, m) : Lost(next, candidate[m].trap_horizon)
    BY <1>1, <2>1, NoSurvivorIsLost
  <2> QED BY <1>7, <2>2, <2>3, <2>4
<1>11. StandardDuel'
  BY <1>1 DEF StandardDuel
<1>12. looked' \subseteq Moves /\ looked' # Moves
  BY <1>1 DEF Moves
<1> QED BY <1>1, <1>8, <1>9, <1>10, <1>11, <1>12 DEF PolicyInv

\* A refutation is right about the horizon of the trap, and a move is dropped for
\* one only while another stays that some reply lets survive.
LEMMA RefuteStep == PolicyInv /\ Refute => PolicyInv'
<1> SUFFICES ASSUME PolicyInv, Refute PROVE PolicyInv'
  OBVIOUS
<1>1. /\ position' = position /\ position \in Positions /\ StandardDuel
      /\ policy' = policy /\ step = "refute" /\ ProfileOf(position, candidate)
      /\ looked \subseteq Moves /\ looked # Moves /\ Proceed(NextMove, "done")
      /\ DropsRight(position, candidate, allowed)
  BY DEF PolicyInv, Refute
<1>2. NextMove \in Moves \ looked
  BY <1>1, NextMoveIs
<1>3. candidate # <<>> /\ RefutationsRight(position, candidate)
  <2>1. "up" \in Moves
    BY DEF Moves
  <2>2. DOMAIN candidate = Moves
    <3>1. candidate = [m \in Moves |-> candidate[m]]
      BY <1>1 DEF ProfileOf
    <3> QED BY <3>1
  <2>3. candidate # <<>>
    BY <2>1, <2>2
  <2> QED BY <1>1, <2>3 DEF PolicyInv
<1>4. /\ ProfileOf(position, candidate')
      /\ RefutationsRight(position, candidate')
      /\ DropsRight(position, candidate', allowed')
  <2>1. CASE Refutable(NextMove)
    <3>1. PICK limit \in (IF expired THEN {0} ELSE NodeLimits) :
            LET found == RefuteRootMove(position, NextMove,
                           candidate[NextMove].trap_horizon, limit)
            IN  /\ candidate' = [candidate EXCEPT ![NextMove] =
                                   WithRefutation(candidate[NextMove], found)]
                /\ allowed' = IF found = "proven" THEN allowed \ {NextMove} ELSE allowed
      BY <2>1 DEF Refute
    <3> DEFINE own == NextMove
               horizon == candidate[own].trap_horizon
               found == RefuteRootMove(position, own, horizon, limit)
    <3>2. /\ candidate' = [candidate EXCEPT ![own] = WithRefutation(candidate[own], found)]
          /\ allowed' = IF found = "proven" THEN allowed \ {own} ELSE allowed
      BY <3>1
    <3>3. /\ Both(position) /\ own \in Moves /\ horizon \in Nat /\ limit \in Nat
          /\ StructuralAlternative(own)
      <4>1. limit \in Nat
        BY RootPolicyAssumption
      <4> QED BY <1>1, <1>2, <2>1, <4>1 DEF ProfileOf, Refutable
    <3> HIDE DEF own
    <3>4. /\ found = "proven" =>
               \E next \in After(position, own) : Lost(next, horizon)
          /\ found = "not_proven" =>
               \A next \in After(position, own) : Held(next, horizon)
      BY <3>3, RefuteIsRight
    <3> HIDE DEF found
    <3>5. /\ ProfileOf(position, candidate')
          /\ \A m \in Moves :
               /\ candidate'[m].trap_horizon = candidate[m].trap_horizon
               /\ candidate'[m].alive_replies = candidate[m].alive_replies
               /\ candidate'[m].refutation = IF m = own THEN found
                                             ELSE candidate[m].refutation
      <4> DEFINE c == WithRefutation(candidate[own], found)
      <4>1. IsCandidate(candidate[own])
        BY <1>1, <3>3 DEF ProfileOf
      <4>2. /\ SameProfile(candidate[own], c) /\ c.trap_horizon = candidate[own].trap_horizon
            /\ c.refutation = found
        BY <4>1, RefutationFields
      <4>3. candidate' = [candidate EXCEPT ![own] = c]
        BY <3>2
      <4> HIDE DEF c
      <4>4. /\ own \in Moves /\ ProfileOf(position, candidate)
            /\ SameProfile(candidate[own], c) /\ c.trap_horizon \in Nat
        BY <1>1, <3>3, <4>1, <4>2 DEF IsCandidate, ProfileOf
      <4>5. ProfileOf(position, candidate')
        BY ONLY <4>4, <4>3, ProfileChange
      <4>6. candidate'[own] = c
        BY ONLY <4>4, <4>3 DEF ProfileOf
      <4>7. \A m \in Moves : m # own => candidate'[m] = candidate[m]
        BY ONLY <4>4, <4>3 DEF ProfileOf
      <4> QED BY <4>2, <4>5, <4>6, <4>7 DEF SameProfile
    <3>6. RefutationsRight(position, candidate')
      BY <1>3, <3>4, <3>5 DEF RefutationsRight
    <3>7. DropsRight(position, candidate', allowed')
      <4> SUFFICES ASSUME NEW m \in Moves \ allowed'
                   PROVE  /\ \E next \in After(position, m) :
                               Lost(next, candidate[m].trap_horizon)
                          /\ \E k \in allowed' : candidate[k].alive_replies # {}
        BY <1>1, <3>2, <3>5 DEF DropsRight
      <4>1. PICK k \in allowed \ {own} : candidate[k].alive_replies # {}
        BY <3>3 DEF StructuralAlternative
      <4>2. \E next \in After(position, m) : Lost(next, candidate[m].trap_horizon)
        <5>1. CASE m \notin allowed
          BY <1>1, <5>1 DEF DropsRight
        <5>2. CASE m \in allowed
          BY <3>2, <3>4, <5>2
        <5> QED BY <5>1, <5>2
      <4> QED BY <3>2, <4>1, <4>2
    <3> QED BY <3>5, <3>6, <3>7
  <2>2. CASE ~Refutable(NextMove)
    <3>1. candidate' = candidate /\ allowed' = allowed
      BY <2>2 DEF Refute
    <3> QED BY <1>1, <1>3, <3>1
  <2> QED BY <2>1, <2>2
<1>5. \/ step' = "done"
      \/ step' = "refute" /\ looked' \subseteq Moves /\ looked' # Moves
  BY <1>1, <1>2 DEF Proceed
<1>6. StandardDuel'
  BY <1>1 DEF StandardDuel
<1> QED BY <1>1, <1>4, <1>5, <1>6 DEF PolicyInv

\* Every step of the policy keeps what holds between its steps.
LEMMA PolicyNextStep == PolicyInv /\ [PolicyNext]_policyVars => PolicyInv'
<1> SUFFICES ASSUME PolicyInv, [PolicyNext]_policyVars PROVE PolicyInv'
  OBVIOUS
<1>1. CASE UNCHANGED policyVars
  BY <1>1 DEF PolicyInv, policyVars, StandardDuel
<1>2. CASE KeepStrictMask
  BY <1>2, StrictStep
<1>3. CASE Profile
  BY <1>3, ProfileStep
<1>4. CASE AnalyzeTrap
  BY <1>4, TrapStep
<1>5. CASE AnalyzeStructure
  BY <1>5, StructureStep
<1>6. CASE RejectUnsurvivable
  BY <1>6, RejectStep
<1>7. CASE Refute
  BY <1>7, RefuteStep
<1> QED BY <1>1, <1>2, <1>3, <1>4, <1>5, <1>6, <1>7, Zenon DEF PolicyNext

\* What holds between the steps says that the policy is honest: a dropped move
\* has its reason, and the reason names a move that is kept.
LEMMA PolicyInvMeansHonest == PolicyInv => PolicyIsHonest
<1> SUFFICES ASSUME PolicyInv PROVE ProofsAreHonest /\ OnlyLosersAreDropped
  BY DEF PolicyIsHonest
<1>1. ProofsAreHonest
  BY Zenon DEF PolicyInv, ProofsAreHonest, RefutationsRight
<1>2. ASSUME step = "done" /\ policy = "ladder"
      PROVE  /\ allowed # {}
             /\ \A m \in Moves \ allowed :
                  /\ \E b \in After(position, m) : Lost(b, candidate[m].trap_horizon)
                  /\ \E k \in allowed : candidate[k].alive_replies # {}
  <2>1. DropsRight(position, candidate, allowed)
    BY <1>2, Zenon DEF PolicyInv
  <2>2. allowed # {}
    <3>1. "up" \in Moves
      BY DEF Moves
    <3>2. CASE "up" \in allowed
      BY <3>2
    <3>3. CASE "up" \notin allowed
      BY <2>1, <3>1, <3>3, Zenon DEF DropsRight
    <3> QED BY <3>2, <3>3
  <2> QED BY <2>1, <2>2, Zenon DEF DropsRight
<1> QED BY <1>1, <1>2, Zenon DEF OnlyLosersAreDropped

\* core_prepare_root_policy decides by what is so, wherever the clock ends its
\* proofs and whatever the two analyses of the snake alone find: a first move
\* that it records as refuted is lost by force, one recorded as not refuted is
\* held against every reply, and the ladder policy drops no move but one that
\* the opponent can make lose, and never the last that a reply lets survive.
THEOREM PolicyIsHonestAlways == PolicySpec => []PolicyIsHonest
<1>1. (\E b \in Positions : PolicyInit(b)) => PolicyInv
  BY PolicyStarts
<1>2. PolicyInv /\ [PolicyNext]_policyVars => PolicyInv'
  BY PolicyNextStep
<1>3. PolicyInv => PolicyIsHonest
  BY PolicyInvMeansHonest
<1> QED BY <1>1, <1>2, <1>3, PTL DEF PolicySpec

-----------------------------------------------------------------------------
(* The fallback move. *)

\* Whoever a turn leaves on the board has a body.
LEMMA SurvivorsLive ==
  ASSUME NEW b \in Board, NEW command \in Orders(b), NEW id,
         id \in SnakeIds(BoardCloneAndApply(b, command))
  PROVE  IsAlive(BoardCloneAndApply(b, command), id)
<1> DEFINE N == Len(b.snakes)
           m == AllMoved(b, command)
           out == Out(b, m, Commanded(b, command))
           gone == Dead(m, out)
           live == Without(m, gone)
           c == BoardCloneAndApply(b, command)
<1>1. N \in Nat /\ Indices(b) = 1 .. N
  BY BoardFields
<1>2. m \in Seq(Snake) /\ Len(m) = N
  BY AllMovedIs
<1>3. c.snakes = live
  BY TurnLeaves
<1>4. \A j \in 1 .. N \ gone : j \in Commanded(b, command)
  <2> SUFFICES ASSUME NEW j \in 1 .. N \ gone, j \notin Commanded(b, command)
               PROVE  FALSE
    OBVIOUS
  <2>1. j \in out
    BY <1>1 DEF Out
  <2> QED BY <2>1, DeadIs
<1>5. \A j \in Commanded(b, command) : Len(m[j].body) \in Nat /\ m[j].body # <<>>
  <2> TAKE j \in Commanded(b, command)
  <2> DEFINE head == Target(b, command, j)
  <2>1. MovesTo(b, b.snakes[j], head, m[j])
    BY MovedOne
  <2> HIDE DEF m, head
  <2>2. \E k \in Nat : Len(m[j].body) = k + 1
    BY <2>1 DEF MovesTo
  <2>3. Len(<<>>) = 0
    OBVIOUS
  <2> QED BY <2>2, <2>3
<1> HIDE DEF c, m, gone
<1>6. live \in Seq(Snake) /\ \E at : Places(at, live, m, gone, N)
  BY <1>2, WithoutPlaces
<1>7. PICK at : Places(at, live, m, gone, N)
  BY <1>6
<1> HIDE DEF live
<1>8. Indices(c) = 1 .. Len(live)
  <2>1. DOMAIN live = 1 .. Len(live)
    BY <1>6
  <2> QED BY <1>3, <2>1 DEF Indices
<1>9. PICK k \in 1 .. Len(live) : live[k].id = id
  BY <1>3, <1>8 DEF SnakeIds, c
<1>10. at[k] \in 1 .. N \ gone /\ live[k] = m[at[k]]
  BY <1>7, <1>9 DEF Places
<1>11. live[k].body # <<>>
  BY <1>4, <1>5, <1>10
<1> QED BY <1>3, <1>8, <1>9, <1>11 DEF IsAlive, Alive, c

\* There always is a reply that is tried: two moves never lead to one neck.
LEMMA SomeReply ==
  ASSUME NEW b, Both(b)
  PROVE  \E r \in CommandsOf(b) : r \in Moves
<1> DEFINE moves == CommandMoves(b, Foe)
           body == b.snakes[IndexOf(b, Foe)].body
           back == IntoNeck(b, body)
<1>1. IndexOf(b, Foe) \in Indices(b)
  <2>1. \E i \in Indices(b) : b.snakes[i].id = Foe
    BY DEF Both, SnakeIds
  <2> QED BY <2>1 DEF IndexOf
<1>2. body \in Seq(Cell)
  <2>1. b.snakes[IndexOf(b, Foe)] \in Snake
    BY <1>1, BoardFields DEF Both
  <2> QED BY <2>1 DEF Snake
<1>3. moves \in Seq(Moves) /\ \A m \in Moves \ back : \E k \in 1 .. Len(moves) : moves[k] = m
  BY CommandMovesAre
<1> HIDE DEF moves, body
<1>4. "up" \notin back \/ "down" \notin back
  <2> SUFFICES ASSUME "up" \in back, "down" \in back PROVE FALSE
    OBVIOUS
  <2>1. Len(body) > 1 /\ MoveStep(body[1], "up") = MoveStep(body[1], "down")
    BY DEF IntoNeck
  <2>2. body[1] \in Cell
    BY <1>2, <2>1
  <2> QED BY <2>1, <2>2 DEF MoveStep, Cell
<1>5. "up" \in Moves /\ "down" \in Moves
  BY DEF Moves
<1>6. PICK k \in 1 .. Len(moves) : moves[k] \in Moves
  BY <1>3, <1>4, <1>5
<1>7. k \in DOMAIN moves
  BY <1>3, <1>6
<1> QED BY <1>6, <1>7 DEF CommandsOf, ToSet, moves

\* A move that counts as safe survives every reply, on a board without stacked
\* tails and for a snake that is not starving.
LEMMA SafeFirstMoveLives ==
  ASSUME position \in Board, Both(position), Proper(position), ~StackedOn(position),
         ~Starving(position, IndexOf(position, Me)),
         NEW own \in BoardSafeMoves(position, IndexOf(position, Me)),
         NEW reply \in Moves
  PROVE  IsAlive(Child(position, own, reply), Me)
<1> DEFINE i == IndexOf(position, Me)
           s == position.snakes[i]
           cell == MoveStep(SnakeHead(s), own)
<1>1. own \in Moves
  BY DEF BoardSafeMoves
<1>2. PICK command \in Orders(position) :
        /\ command[Me] = own /\ command[Foe] = reply
        /\ Child(position, own, reply) = BoardCloneAndApply(position, command)
  BY <1>1, PairIs
<1>3. i \in Indices(position) /\ s.id = Me
  <2>1. \E k \in Indices(position) : position.snakes[k].id = Me
    BY DEF Both, SnakeIds
  <2> QED BY <2>1 DEF IndexOf
<1> HIDE DEF i
<1>4. command \in Responses(position, i, own)
  <2>1. command \in [{Me, Foe} -> Moves \cup {Invalid}]
    BY <1>2 DEF Orders, Both
  <2>2. command \in [{Me, Foe} -> Moves]
    BY <1>1, <1>2, <2>1
  <2> QED BY <1>2, <1>3, <2>2 DEF Responses, Both
<1>5. ~StackedTail(position, cell)
  BY Zenon DEF StackedTail, StackedOn
<1>6. ~Starves(position, i, cell)
  <2>1. s \in Snake /\ position.hazard_damage \in Int /\ position.hazard_damage >= 0
    BY <1>3, BoardFields DEF Proper
  <2>2. s.health \in Int
    BY <2>1 DEF Snake
  <2>3. ~(s.health <= position.hazard_damage + 1)
    BY DEF Starving, i
  <2> QED BY <2>1, <2>2, <2>3 DEF Starves
<1>7. Survives(position, i, command)
  BY <1>3, <1>4, <1>5, <1>6, SafeMoveLives DEF i
<1>8. Me \in SnakeIds(BoardCloneAndApply(position, command))
  BY <1>3, <1>7 DEF Survives
<1> QED BY <1>2, <1>8, SurvivorsLive

\* The fallback is a safe move, or else a move that some reply lets survive, if
\* there is one.
LEMMA FallbackIsRight ==
  ASSUME position \in Board, IsDuel(position), Both(position), Proper(position),
         ~StackedOn(position), ~Starving(position, IndexOf(position, Me))
  PROVE  TakesItsChance
<1> DEFINE safe == BoardSafeMoves(position, IndexOf(position, Me))
           chance == Contingent(position)
           own == BsChooseFallbackMove(position)
<1>1. CASE safe # {}
  <2>1. own = FirstOf(safe)
    BY <1>1 DEF BsChooseFallbackMove
  <2>2. safe \in SUBSET Moves
    BY DEF BoardSafeMoves
  <2> HIDE DEF safe, own
  <2>3. own \in safe
    BY <1>1, <2>1, <2>2, FirstOfIs
  <2>4. PICK r \in CommandsOf(position) : r \in Moves
    BY SomeReply
  <2>5. IsAlive(Child(position, own, r), Me)
    BY <2>3, <2>4, SafeFirstMoveLives DEF safe
  <2> QED BY <2>4, <2>5, Zenon DEF TakesItsChance, MaySurvive, own
<1>2. CASE safe = {} /\ chance # {}
  <2>1. own = FirstOf(chance)
    BY <1>2 DEF BsChooseFallbackMove, LeastBad
  <2>2. chance \in SUBSET Moves
    BY DEF Contingent
  <2> HIDE DEF chance, own
  <2>3. own \in chance
    BY <1>2, <2>1, <2>2, FirstOfIs
  <2>4. PICK r \in CommandsOf(position) :
          DuelOutcome(Child(position, own, r)) \in {"win", "unresolved"}
    BY <2>3 DEF chance, Contingent, Replies, CommandsOf
  <2>5. IsAlive(Child(position, own, r), Me)
    BY <2>4 DEF DuelOutcome
  <2> QED BY <2>4, <2>5, Zenon DEF TakesItsChance, MaySurvive, own
<1>3. CASE chance = {}
  <2> SUFFICES ASSUME NEW m \in Moves, NEW r \in CommandsOf(position),
                      IsAlive(Child(position, m, r), Me)
               PROVE  FALSE
    BY DEF TakesItsChance, MaySurvive
  <2>1. DuelOutcome(Child(position, m, r)) \in {"win", "unresolved"}
    BY DEF DuelOutcome
  <2>2. m \in chance
    BY <2>1, Zenon DEF Contingent, Replies, CommandsOf
  <2> QED BY <1>3, <2>2
<1> QED BY <1>1, <1>2, <1>3

\* In a duel BsChooseFallbackMove never takes certain death while another move has
\* a reply that it survives: on every board as the engine sends them, without a
\* stacked tail and with the health to pass a hazard.
THEOREM FallbackTakesItsChanceAlways ==
  (\A b \in Positions : IsDuel(b) => Proper(b))
    => (PolicySpec => []FallbackTakesItsChance)
<1> SUFFICES ASSUME \A b \in Positions : IsDuel(b) => Proper(b)
             PROVE  PolicySpec => []FallbackTakesItsChance
  OBVIOUS
<1>1. (\E b \in Positions : PolicyInit(b)) => PolicyInv
  BY PolicyStarts
<1>2. PolicyInv /\ [PolicyNext]_policyVars => PolicyInv'
  BY PolicyNextStep
<1>3. PolicyInv => FallbackTakesItsChance
  <2> SUFFICES ASSUME PolicyInv, IsDuel(position), ~StackedOn(position),
                      ~Starving(position, IndexOf(position, Me))
               PROVE  TakesItsChance
    BY DEF FallbackTakesItsChance
  <2>1. position \in Positions /\ Proper(position)
    BY DEF PolicyInv
  <2>2. position \in Board /\ Both(position)
    BY <2>1, DuelIs DEF Both
  <2> QED BY <2>1, <2>2, FallbackIsRight
<1> QED BY <1>1, <1>2, <1>3, PTL DEF PolicySpec
=============================================================================

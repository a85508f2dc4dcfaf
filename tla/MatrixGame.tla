----------------------------- MODULE MatrixGame -----------------------------
(***************************************************************************)
(* The solver of zero-sum matrix games in position_eval.c: a search over   *)
(* all supports for an optimal mix of rows and one of columns, with a pure *)
(* maximin to fall back on. Numbers are rational, <<numerator,             *)
(* denominator>> in lowest terms, where the code has doubles and           *)
(* tolerances of 1e-6 and less: they are far below the distance of two     *)
(* values of a small game.                                                 *)
(*                                                                         *)
(* A matrix is a sequence of rows. The rows belong to the maximiser.       *)
(***************************************************************************)
EXTENDS Integers, Sequences, SequencesExt, FiniteSetsExt

-----------------------------------------------------------------------------
(* Rational numbers. *)

Divides(d, n) == n % d = 0
Absolute(n) == IF n < 0 THEN 0 - n ELSE n

Gcd(a, b) == Max({d \in 1 .. Max({Absolute(a), b}) : Divides(d, a) /\ Divides(d, b)})

\* n / d, d # 0
Quotient(n, d) ==
  LET reduced(g) == IF d > 0 THEN <<n \div g, d \div g>>
                             ELSE <<(0 - n) \div g, (0 - d) \div g>>
  IN  reduced(Gcd(n, Absolute(d)))

Zero == <<0, 1>>
One == <<1, 1>>
Half == <<1, 2>>

Sum2(a, b) == Quotient(a[1] * b[2] + b[1] * a[2], a[2] * b[2])
Product2(a, b) == Quotient(a[1] * b[1], a[2] * b[2])
Less(a, b) == a[1] * b[2] < b[1] * a[2]

\* Sums over sequences, of integers and of rationals.
Total(seq) == FoldLeft(+, 0, seq)
Sum(seq) == FoldLeft(Sum2, Zero, seq)

Dot(a, b) == Total([k \in DOMAIN a |-> a[k] * b[k]])

-----------------------------------------------------------------------------
(* Changed forms, one plausible bug each. *)

\* takes the first mix that holds for the best one
BetterMix_First(best, mix) == IF best.found THEN best ELSE mix

-----------------------------------------------------------------------------
(* Linear systems. A support of n rows and n columns has the equations     *)
(*   x[1] + ... + x[n] = 1,   and for each of its columns                  *)
(*   values[1][c] x[1] + ... + values[n][c] x[n] - v = 0.                  *)
(* By Cramer's rule the solution is what the cofactors of the first row    *)
(* are to their sum.                                                       *)

WithoutColumn(matrix, j) ==
  FoldLeft(LAMBDA rows, row : Append(rows, RemoveAt(row, j)), <<>>, matrix)

Sign(k) == IF k % 2 = 1 THEN 1 ELSE 0 - 1

RECURSIVE Determinant(_)
Determinant(matrix) ==
  IF matrix = <<>> THEN 1
  ELSE FoldLeft(LAMBDA sum, j :
                  sum + Sign(j) * matrix[1][j]
                          * Determinant(WithoutColumn(Tail(matrix), j)),
                0, [j \in DOMAIN matrix |-> j])

\* The cofactors, of the equations without the first one.
Cofactors(equations) ==
  FoldLeft(LAMBDA found, k :
             Append(found, Sign(k) * Determinant(WithoutColumn(equations, k))),
           <<>>, [k \in 1 .. Len(equations) + 1 |-> k])

\* The equations of the columns of a support, both as ascending sequences.
Equations(values, rows, cols) ==
  [e \in DOMAIN cols |->
     [i \in DOMAIN rows |-> values[rows[i]][cols[e]]] \o <<0 - 1>>]

-----------------------------------------------------------------------------
(* Supports. *)

Ascending(set) == SetToSortSeq(set, <)

\* The non-empty sets of numbers up to n, in the order of their bit masks.
Masks(n) ==
  [mask \in 1 .. 2 ^ n - 1 |->
     {i \in 1 .. n : (mask \div 2 ^ (i - 1)) % 2 = 1}]

\* The pairs of sets of rows and columns of equal size, in the code's order.
Supports(rows, cols) ==
  FoldLeft(LAMBDA found, set :
             found \o SelectSeq([m \in DOMAIN Masks(cols) |-> <<set, Masks(cols)[m]>>],
                                LAMBDA s : Cardinality(s[1]) = Cardinality(s[2])),
           <<>>, Masks(rows))

\* Whether the mix is worth value against all columns.
Holds(values, mix, value) ==
  \A col \in DOMAIN values[1] :
    Dot(mix, [r \in DOMAIN values |-> values[r][col]]) >= value

None == [found |-> FALSE]

\* A mix of rows, in integers over their sum den, and its value over den.
Mix(values, rows, shares, value, den) ==
  [found |-> TRUE, den |-> den, value |-> value,
   mix |-> [r \in DOMAIN values |->
              IF r \in ToSet(rows)
              THEN shares[CHOOSE i \in DOMAIN rows : rows[i] = r] ELSE 0]]

\* The same with the sign of the determinant made positive.
Oriented(values, rows, cofactors, det) ==
  LET n == Len(rows)
      sign == IF det > 0 THEN 1 ELSE 0 - 1
  IN  Mix(values, rows, [i \in 1 .. n |-> sign * cofactors[i]],
          sign * cofactors[n + 1], sign * det)

Accepted(values, mix) ==
  IF /\ \A r \in DOMAIN mix.mix : mix.mix[r] >= 0
     /\ Holds(values, mix.mix, mix.value)
  THEN mix ELSE None

\* What a support yields.
SupportMix(values, rows, cols) ==
  LET cofactors == Cofactors(Equations(values, rows, Ascending(cols)))
      det == Total(SubSeq(cofactors, 1, Len(rows)))
  IN  IF det = 0 THEN None
      ELSE Accepted(values, Oriented(values, rows, cofactors, det))

BetterMix(best, mix) ==
  IF mix.found /\ (~best.found \/ mix.value * best.den > best.value * mix.den)
  THEN mix ELSE best

\* solve_row_strategy_lp
RowStrategy(values) ==
  FoldLeft(LAMBDA best, s :
             BetterMix(best, SupportMix(values, Ascending(s[1]), s[2])),
           None, Supports(Len(values), Len(values[1])))

\* The game of the other player.
Mirrored(values) ==
  [c \in DOMAIN values[1] |-> [r \in DOMAIN values |-> 0 - values[r][c]]]

\* solve_col_strategy_lp, the same for the minimiser
ColStrategy(values) == RowStrategy(Mirrored(values))

-----------------------------------------------------------------------------
(* The solver. The values are integers over a common unit, the confidences *)
(* rational. A solution is [p, confidence, first, second], with the shares *)
(* of rows and of columns.                                                 *)

Solution(p, confidence, first, second) ==
  [p |-> p, confidence |-> confidence, first |-> first, second |-> second]

\* The first of the worst columns of a row in which confidence is highest.
WorstCol(values, confidences, r) ==
  CHOOSE c \in DOMAIN values[r] : \A d \in DOMAIN values[r] :
    \/ values[r][c] < values[r][d]
    \/ values[r][c] = values[r][d]
         /\ \/ Less(confidences[r][d], confidences[r][c])
            \/ confidences[r][c] = confidences[r][d] /\ c <= d

Worst(values, confidences, r) ==
  <<values[r][WorstCol(values, confidences, r)],
    confidences[r][WorstCol(values, confidences, r)]>>

\* The first of the best rows in which confidence is highest.
BestRow(values, confidences) ==
  LET above(v, w) == v[1] > w[1] \/ (v[1] = w[1] /\ Less(w[2], v[2]))
  IN  CHOOSE r \in DOMAIN values : \A s \in DOMAIN values :
        \/ above(Worst(values, confidences, r), Worst(values, confidences, s))
        \/ /\ ~above(Worst(values, confidences, s), Worst(values, confidences, r))
           /\ r <= s

Only(k, n) == [i \in 1 .. n |-> IF i = k THEN One ELSE Zero]

\* pure_matrix_value_with_confidence
PureSolution(values, unit, confidences) ==
  LET at(r, c) == Solution(Quotient(values[r][c], unit), confidences[r][c],
                           Only(r, Len(values)), Only(c, Len(values[1])))
      row(r) == at(r, WorstCol(values, confidences, r))
  IN  row(BestRow(values, confidences))

Shares(mix) == [k \in DOMAIN mix.mix |-> Quotient(mix.mix[k], mix.den)]

\* What the strategies make of the confidences.
Expected(confidences, first, second) ==
  Sum([r \in DOMAIN first |->
         Product2(first[r], Sum([c \in DOMAIN second |->
                                   Product2(second[c], confidences[r][c])]))])

Mixed(unit, confidences, rows, cols) ==
  Solution(Quotient(rows.value, rows.den * unit),
           Expected(confidences, Shares(rows), Shares(cols)),
           Shares(rows), Shares(cols))

AllEqual(values) == \A r \in DOMAIN values : \A c \in DOMAIN values[r] :
                      values[r][c] = values[1][1]

\* Both mixes exist, and what one guarantees the other concedes.
Agree(rows, cols) ==
  rows.found /\ cols.found /\ rows.value * cols.den = 0 - cols.value * rows.den

\* solve_zero_sum_matrix_with_confidence
MatrixSolution(values, unit, confidences) ==
  LET chosen(rows, cols) ==
        IF Agree(rows, cols) THEN Mixed(unit, confidences, rows, cols)
        ELSE PureSolution(values, unit, confidences)
  IN  IF AllEqual(values) THEN PureSolution(values, unit, confidences)
      ELSE chosen(RowStrategy(values), ColStrategy(values))
=============================================================================

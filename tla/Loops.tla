------------------------------- MODULE Loops -------------------------------
(***************************************************************************)
(* A loop of the code that counts: for (k = 1; k <= n; k++) { ... }.       *)
(***************************************************************************)
EXTENDS Naturals

CONSTANT Step(_, _, _)   \* the loop's body: its context, its state, its counter

\* The state after n rounds.
Run(context, base, n) ==
  LET state[k \in Nat] == IF k = 0 THEN base ELSE Step(context, state[k - 1], k)
  IN  state[n]
=============================================================================

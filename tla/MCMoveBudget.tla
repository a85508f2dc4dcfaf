---------------------------- MODULE MCMoveBudget ----------------------------
(* Two ticks per millisecond, so that durations end between milliseconds;  *)
(* INT_MAX is five milliseconds, which the clock passes.                   *)
EXTENDS MoveBudget

MCTimeouts == 0 .. IntMax
=============================================================================

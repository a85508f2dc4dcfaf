--------------------------- MODULE MCNativeServer ---------------------------
(***************************************************************************)
(* Instances of NativeServer for TLC: two workers, so that two connections *)
(* are served while a third waits or is turned away.                       *)
(***************************************************************************)
EXTENDS NativeServer, TLC

CONSTANTS w1, w2, c1, c2, c3

MCWorkers == {w1, w2}
MCConns == {c1, c2, c3}
MCConnsLive == {c1, c2}
MCFds == 1 .. 4
MCFailingSome == {"thread", "listen", "accept", "cleanupmask"}
MCSymmetry == Permutations(MCWorkers) \cup Permutations(MCConns)
=============================================================================

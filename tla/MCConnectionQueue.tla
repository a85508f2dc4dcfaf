------------------------- MODULE MCConnectionQueue --------------------------
(* ConnectionQueue on a small instance. Three jobs through a ring of two   *)
(* cells wrap both indices around; three consumers are more than the two   *)
(* jobs the ring can hold, so that signals, spurious wakeups and consumers *)
(* that overtake a signalled one all occur.                                *)
EXTENDS ConnectionQueue
=============================================================================

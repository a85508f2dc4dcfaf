--------------------------- MODULE ServerService ----------------------------
(***************************************************************************)
(* What the native server promises its clients, without threads, rings,    *)
(* descriptors or signals. A connection that reached the listen socket is  *)
(* admitted, turned away or, when the server goes down first, reset; it is *)
(* turned away only while Capacity admitted connections wait for a worker; *)
(* at most one connection per worker is being served; and what was         *)
(* admitted is served to the end, also after the server began to drain.    *)
(***************************************************************************)
EXTENDS Naturals, FiniteSets

CONSTANTS Conns, Workers, Capacity

VARIABLES
  status,   \* status[c]: how far connection c has come
  draining  \* the listen socket is closed

svars == <<status, draining>>

Status == {"away", "connecting", "waiting", "serving", "done", "refused",
           "reset"}
In(s) == {c \in Conns : status[c] = s}
Becomes(c, from, to) ==
  status[c] = from /\ status' = [status EXCEPT ![c] = to]

Init == status = [c \in Conns |-> "away"] /\ draining = FALSE

Arrive(c) == ~draining /\ Becomes(c, "away", "connecting") /\ UNCHANGED draining

Admit(c) ==
  /\ ~draining
  /\ Cardinality(In("waiting")) < Capacity
  /\ Becomes(c, "connecting", "waiting")
  /\ UNCHANGED draining

TurnAway(c) ==
  /\ ~draining
  /\ Cardinality(In("waiting")) = Capacity
  /\ Becomes(c, "connecting", "refused")
  /\ UNCHANGED draining

Serve(c) ==
  /\ Cardinality(In("serving")) < Cardinality(Workers)
  /\ Becomes(c, "waiting", "serving")
  /\ UNCHANGED draining

Finish(c) == Becomes(c, "serving", "done") /\ UNCHANGED draining

\* The listen socket is closed: who was not admitted yet is reset.
Drain ==
  /\ ~draining
  /\ draining' = TRUE
  /\ status' = [c \in Conns |->
                  IF status[c] = "connecting" THEN "reset" ELSE status[c]]

Next ==
  \/ \E c \in Conns : \/ Arrive(c) \/ Admit(c) \/ TurnAway(c)
                      \/ Serve(c) \/ Finish(c)
  \/ Drain

\* The server decides about c, or closes its listen socket.
Decide(c) == status[c] = "connecting" /\ (Admit(c) \/ TurnAway(c) \/ Drain)

SafeSpec == Init /\ [][Next]_svars

\* Nobody is left behind: who connected is decided about, who was admitted
\* is served, who is being served is finished.
Fairness ==
  /\ \A c \in Conns : WF_svars(Decide(c)) /\ WF_svars(Finish(c))
  /\ WF_svars(\E c \in Conns : Serve(c))

Spec == SafeSpec /\ Fairness
=============================================================================

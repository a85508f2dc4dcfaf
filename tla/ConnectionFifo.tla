--------------------------- MODULE ConnectionFifo ---------------------------
(***************************************************************************)
(* What the connection queue of the native server promises to the          *)
(* accepting thread and to the workers, without the ring buffer, the mutex *)
(* and the condition variable it is built from: a bounded first-in         *)
(* first-out queue that refuses a job instead of blocking the producer,    *)
(* and that a stop closes for producers while consumers still drain it.    *)
(* ConnectionQueue is shown to implement this module.                      *)
(***************************************************************************)
EXTENDS Naturals, Sequences

CONSTANTS
  Jobs,       \* the jobs that may be queued
  Consumers,  \* the threads that pop jobs
  Capacity,   \* how many jobs the queue holds at most
  NoJob       \* what a consumer holds when it holds no job

VARIABLES
  queue,    \* the jobs accepted and not handed out yet, oldest first
  stopped,  \* the queue no longer accepts jobs
  held,     \* held[c]: the job consumer c was given and still works on
  exited    \* the consumers that were told the queue is over

vars == <<queue, stopped, held, exited>>

-----------------------------------------------------------------------------
Init ==
  /\ queue = <<>>
  /\ stopped = FALSE
  /\ held = [c \in Consumers |-> NoJob]
  /\ exited = {}

\* The queue takes a job; a job it refuses leaves no trace.
Accept(j) ==
  /\ ~stopped
  /\ Len(queue) < Capacity
  /\ queue' = Append(queue, j)
  /\ UNCHANGED <<stopped, held, exited>>

Stop ==
  /\ stopped' = TRUE
  /\ UNCHANGED <<queue, held, exited>>

\* A consumer that holds nothing is handed the oldest job.
Deliver(c) ==
  /\ c \notin exited
  /\ held[c] = NoJob
  /\ queue # <<>>
  /\ held' = [held EXCEPT ![c] = Head(queue)]
  /\ queue' = Tail(queue)
  /\ UNCHANGED <<stopped, exited>>

\* Only an empty and stopped queue sends a consumer home.
Dismiss(c) ==
  /\ c \notin exited
  /\ held[c] = NoJob
  /\ stopped
  /\ queue = <<>>
  /\ exited' = exited \cup {c}
  /\ UNCHANGED <<queue, stopped, held>>

\* The consumer is done with its job and comes back for the next one.
Finish(c) ==
  /\ held[c] # NoJob
  /\ held' = [held EXCEPT ![c] = NoJob]
  /\ UNCHANGED <<queue, stopped, exited>>

Next ==
  \/ \E j \in Jobs : Accept(j)
  \/ Stop
  \/ \E c \in Consumers : Deliver(c) \/ Dismiss(c) \/ Finish(c)

\* The queue itself never sits on a job while somebody asks for one, and
\* never forgets a consumer after the stop.
Fairness ==
  /\ WF_vars(\E c \in Consumers : Deliver(c))
  /\ \A c \in Consumers : WF_vars(Dismiss(c))

SafeSpec == Init /\ [][Next]_vars
Spec == SafeSpec /\ Fairness
=============================================================================

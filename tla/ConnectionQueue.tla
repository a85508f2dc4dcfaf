-------------------------- MODULE ConnectionQueue ---------------------------
(***************************************************************************)
(* BsConnectionQueue (connection_queue.c): the bounded ring of accepted    *)
(* connections between the accepting thread and the workers.               *)
(*                                                                         *)
(* Every field of the structure is read and written under queue->mutex     *)
(* only, so a critical section is one step. A consumer inside              *)
(* pthread_cond_wait has released the mutex: it is "waiting" until a       *)
(* signal, a broadcast or a spurious wakeup makes it "woken", and it then  *)
(* competes for the mutex with every thread that enters Pop or TryPush.    *)
(* The steps of a consumer outside Pop are those of worker_main: it works  *)
(* on its job, then calls Pop again, until Pop returns false.              *)
(***************************************************************************)
EXTENDS Naturals, Sequences, FiniteSets

CONSTANTS
  Jobs,       \* the jobs that may be pushed; each is pushed at most once
  Consumers,  \* the worker threads
  Capacity,   \* queue->capacity
  NoJob       \* the content of a ring cell that was never written

ASSUME QueueAssumption ==
  /\ IsFiniteSet(Consumers)
  /\ Capacity \in Nat \ {0}
  /\ NoJob \notin Jobs

VARIABLES
  jobs,               \* queue->jobs, indexed 0 .. Capacity-1
  head, tail, count,  \* queue->head, queue->tail, queue->count
  stopped,            \* queue->stopped
  waiting_consumers,  \* queue->waiting_consumers
  caller,             \* caller[c]: where consumer c is
  out_job,            \* out_job[c]: the job Pop last stored for c
  pushed,             \* history: every job TryPush accepted, in order
  popped              \* history: every job Pop returned, in order

ring == <<jobs, head, tail, count, stopped>>
vars == <<jobs, head, tail, count, stopped, waiting_consumers, caller, out_job,
          pushed, popped>>

CallerStates == {"calling", "waiting", "woken", "working", "exited"}

Waiting == {c \in Consumers : caller[c] = "waiting"}
Woken == {c \in Consumers : caller[c] = "woken"}

-----------------------------------------------------------------------------
(* Changed forms of the definitions below, one plausible bug each; nothing *)
(* in the specification uses them.                                         *)

\* signals only when the queue was empty before the push
SignalOne_OnlyWhenEmpty ==
  IF Waiting = {} \/ count # 0
  THEN UNCHANGED caller
  ELSE \E c \in Waiting : caller' = [caller EXCEPT ![c] = "woken"]

\* never signals
SignalOne_Dropped == UNCHANGED caller

\* forgets to broadcast when it stops
Stop_NoBroadcast ==
  /\ stopped' = TRUE
  /\ UNCHANGED <<jobs, head, tail, count, waiting_consumers, caller, out_job,
                 pushed, popped>>

\* lets a stopped queue return false while jobs are still queued
PopStopped_Undrained(c) ==
  /\ caller[c] \in {"calling", "woken"}
  /\ stopped
  /\ caller' = [caller EXCEPT ![c] = "exited"]
  /\ waiting_consumers' = IF caller[c] = "woken" THEN waiting_consumers - 1
                                                 ELSE waiting_consumers
  /\ UNCHANGED <<jobs, head, tail, count, stopped, out_job, pushed, popped>>

\* treats the ring as full one job too late
TryPush_OverFull(j) ==
  /\ ~stopped
  /\ count <= Capacity
  /\ jobs' = [jobs EXCEPT ![tail] = j]
  /\ tail' = (tail + 1) % Capacity
  /\ count' = count + 1
  /\ (IF Waiting = {} THEN UNCHANGED caller
      ELSE \E c \in Waiting : caller' = [caller EXCEPT ![c] = "woken"])
  /\ pushed' = Append(pushed, j)
  /\ UNCHANGED <<head, stopped, waiting_consumers, out_job, popped>>

-----------------------------------------------------------------------------
\* BsConnectionQueueInit: calloc clears the ring and memset the rest.
Init ==
  /\ jobs = [i \in 0 .. Capacity - 1 |-> NoJob]
  /\ head = 0 /\ tail = 0 /\ count = 0
  /\ stopped = FALSE
  /\ waiting_consumers = 0
  /\ caller = [c \in Consumers |-> "calling"]
  /\ out_job = [c \in Consumers |-> NoJob]
  /\ pushed = <<>> /\ popped = <<>>

\* pthread_cond_signal: wakes one waiter if there is any.
SignalOne ==
  IF Waiting = {}
  THEN UNCHANGED caller
  ELSE \E c \in Waiting : caller' = [caller EXCEPT ![c] = "woken"]

\* BsConnectionQueueTryPush returning true.
TryPush(j) ==
  /\ ~stopped
  /\ count # Capacity
  /\ jobs' = [jobs EXCEPT ![tail] = j]
  /\ tail' = (tail + 1) % Capacity
  /\ count' = count + 1
  /\ SignalOne
  /\ pushed' = Append(pushed, j)
  /\ UNCHANGED <<head, stopped, waiting_consumers, out_job, popped>>

\* BsConnectionQueueTryPush returning false: the caller keeps the job.
TryPushRefuses == stopped \/ count = Capacity

\* A consumer in Pop that holds the mutex at the head of the while loop:
\* it just entered, or it came back from pthread_cond_wait.
InPop(c) == caller[c] \in {"calling", "woken"}

\* waiting_consumers once c, back from the wait, has decremented it.
WaitersWithout(c) ==
  IF caller[c] = "woken" THEN waiting_consumers - 1 ELSE waiting_consumers

\* BsConnectionQueuePop, the loop condition holds: wait (again).
PopWait(c) ==
  /\ InPop(c)
  /\ count = 0 /\ ~stopped
  /\ waiting_consumers' = WaitersWithout(c) + 1
  /\ caller' = [caller EXCEPT ![c] = "waiting"]
  /\ UNCHANGED <<jobs, head, tail, count, stopped, out_job, pushed, popped>>

\* BsConnectionQueuePop returning true, stopped or not.
PopTake(c) ==
  /\ InPop(c)
  /\ count > 0
  /\ out_job' = [out_job EXCEPT ![c] = jobs[head]]
  /\ head' = (head + 1) % Capacity
  /\ count' = count - 1
  /\ waiting_consumers' = WaitersWithout(c)
  /\ caller' = [caller EXCEPT ![c] = "working"]
  /\ popped' = Append(popped, jobs[head])
  /\ UNCHANGED <<jobs, tail, stopped, pushed>>

\* BsConnectionQueuePop returning false: stopped, and nothing left to drain.
PopStopped(c) ==
  /\ InPop(c)
  /\ count = 0 /\ stopped
  /\ waiting_consumers' = WaitersWithout(c)
  /\ caller' = [caller EXCEPT ![c] = "exited"]
  /\ UNCHANGED <<jobs, head, tail, count, stopped, out_job, pushed, popped>>

\* POSIX lets pthread_cond_wait return without a signal.
SpuriousWakeup(c) ==
  /\ caller[c] = "waiting"
  /\ caller' = [caller EXCEPT ![c] = "woken"]
  /\ UNCHANGED <<jobs, head, tail, count, stopped, waiting_consumers, out_job,
                 pushed, popped>>

\* BsConnectionQueueStop: broadcasts, and leaves the queued jobs alone.
Stop ==
  /\ stopped' = TRUE
  /\ caller' = [c \in Consumers |->
                  IF caller[c] = "waiting" THEN "woken" ELSE caller[c]]
  /\ UNCHANGED <<jobs, head, tail, count, waiting_consumers, out_job, pushed,
                 popped>>

\* The body of worker_main's loop is over: the worker calls Pop again.
WorkDone(c) ==
  /\ caller[c] = "working"
  /\ caller' = [caller EXCEPT ![c] = "calling"]
  /\ UNCHANGED <<jobs, head, tail, count, stopped, waiting_consumers, out_job,
                 pushed, popped>>

-----------------------------------------------------------------------------
\* A connection is accepted, hence pushed, at most once.
NotPushed(j) == \A i \in DOMAIN pushed : pushed[i] # j

PopStep(c) == PopWait(c) \/ PopTake(c) \/ PopStopped(c)

Next ==
  \/ \E j \in Jobs : NotPushed(j) /\ TryPush(j)
  \/ Stop
  \/ \E c \in Consumers :
       \/ PopWait(c) \/ PopTake(c) \/ PopStopped(c)
       \/ SpuriousWakeup(c) \/ WorkDone(c)

\* A thread that is not blocked gets the mutex and runs; nothing forces the
\* producer, the stop or a spurious wakeup to happen.
Fairness ==
  \A c \in Consumers : WF_vars(PopStep(c)) /\ WF_vars(WorkDone(c))

SafeSpec == Init /\ [][Next]_vars
Spec == SafeSpec /\ Fairness

-----------------------------------------------------------------------------
\* Type correctness of the structure and of the callers' states.
TypeOK ==
  /\ jobs \in [0 .. Capacity - 1 -> Jobs \cup {NoJob}]
  /\ head \in 0 .. Capacity - 1
  /\ tail \in 0 .. Capacity - 1
  /\ count \in 0 .. Capacity
  /\ stopped \in BOOLEAN
  /\ waiting_consumers \in Nat
  /\ caller \in [Consumers -> CallerStates]
  /\ out_job \in [Consumers -> Jobs \cup {NoJob}]
  /\ pushed \in Seq(Jobs)
  /\ popped \in Seq(Jobs)

\* The ring cell that holds the i-th oldest job, i = 0 .. count-1.
Cell(i) == IF head + i < Capacity THEN head + i ELSE head + i - Capacity

\* The queued jobs, oldest first.
Queued == [i \in 1 .. count |-> jobs[Cell(i - 1)]]

\* The jobs come out in the order they were accepted, none is lost,
\* overwritten or delivered twice, whatever the ring's wrap-around: what was
\* pushed is what was popped followed by what the ring still holds.
FifoOrder == pushed = popped \o Queued

\* No lost wakeup: as long as a consumer sleeps in pthread_cond_wait, every
\* queued job has a signalled consumer on its way to the mutex. A job cannot
\* sit in the ring while all the consumers that could take it sleep.
NoLostWakeup == Waiting # {} => count <= Cardinality(Woken)

\* After BsConnectionQueueStop nobody sleeps in pthread_cond_wait again, so
\* joining the workers cannot hang on a sleeping consumer.
StopWakesAll == stopped => Waiting = {}

\* A consumer is dismissed only from a drained queue, and nothing enters it
\* afterwards: jobs queued before the stop are all handed to a worker.
DrainedBeforeExit ==
  (\E c \in Consumers : caller[c] = "exited") => stopped /\ count = 0

\* After the stop every worker returns from worker_main, and every job that
\* was ever accepted has been handed to a worker.
StopDrainsAndEnds ==
  stopped ~> /\ \A c \in Consumers : caller[c] = "exited"
             /\ popped = pushed

-----------------------------------------------------------------------------
\* The abstract queue this one implements.
Fifo == INSTANCE ConnectionFifo WITH
  queue <- Queued,
  held <- [c \in Consumers |-> IF caller[c] = "working" THEN out_job[c]
                                                        ELSE NoJob],
  exited <- {c \in Consumers : caller[c] = "exited"}

FifoSpec == Fifo!Spec
=============================================================================

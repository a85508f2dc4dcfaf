---------------------------- MODULE NativeServer ----------------------------
(***************************************************************************)
(* The native server process (server_main.c): the main thread, the worker  *)
(* threads, the signal handler and the life of every connection, composed  *)
(* from the connection queue and the registry of active connections.       *)
(*                                                                         *)
(* Init is the state after the first lines of main: the termination        *)
(* signals are blocked and their handlers installed. The signal handler    *)
(* runs on the main thread (the workers inherit the blocked mask) between  *)
(* any two of its steps. System calls named in Failing may fail.           *)
(***************************************************************************)
EXTENDS Integers, Sequences, FiniteSets

CONSTANTS
  Workers,   \* the worker threads
  Capacity,  \* config.queue_capacity
  Fds,       \* the descriptor numbers accept() may return
  Conns,     \* the client connections
  None,      \* no connection
  Failing    \* the system calls that may fail

FailureNames ==
  {"queue", "active", "workers", "thread", "listen", "pipe", "unmask",
   "poll", "pollerr", "accept", "alloc", "write", "cleanupmask", "restore"}

ASSUME ServerAssumption ==
  /\ IsFiniteSet(Workers) /\ Workers # {}
  /\ Capacity \in Nat \ {0}
  /\ Fds \subseteq Nat
  /\ None \notin Conns
  /\ Failing \subseteq FailureNames

\* BsConnectionJob. The descriptor is all the code has; the connection it
\* referred to when it was accepted is recorded to compare with the kernel.
Job == [fd : Fds, conn : Conns]
NoClient == [fd |-> -1, conn |-> None]
Slots == 0 .. Cardinality(Workers) - 1

VARIABLES
  \* BsConnectionQueue, BsActiveConnections and the descriptor table
  jobs, head, tail, count, stopped, waiting_consumers, caller, out_job,
  pushed, popped, fds, stopping, owner, readShut,
  \* the main thread
  pc,            \* where it is
  client,        \* the job it has accepted and not passed on
  revents,       \* what the last poll reported
  created,       \* the workers it has created
  held,          \* the resources it has to release
  server_failed, \* it will exit with status 1
  \* signals
  pending,       \* a termination signal is pending
  masked,        \* the main thread blocks the termination signals
  g_should_stop,
  g_signal_write_fd,  \* set to the write end of the pipe
  wakeup,        \* the pipe holds a byte
  \* the workers, between two calls of Pop
  stage,         \* where in the body of worker_main's loop
  slot,          \* active_slot
  \* the connections
  phase          \* what became of each of them

Q == INSTANCE ConnectionQueue WITH
       Jobs <- Job, Consumers <- Workers, NoJob <- NoClient
A == INSTANCE ActiveConnections

queueVars == <<jobs, head, tail, count, stopped, waiting_consumers, caller,
               out_job, pushed, popped>>
activeVars == <<fds, stopping, owner, readShut>>
mainVars == <<client, revents, created, held, server_failed>>
signalVars == <<pending, masked, g_should_stop, g_signal_write_fd, wakeup>>
workerVars == <<stage, slot>>
vars == <<queueVars, activeVars, pc, mainVars, signalVars, workerVars, phase>>

Startup == {"queue", "active", "workers", "spawn", "listen", "pipe", "unmask"}
Serving == {"loop", "poll", "drain", "check", "accept", "accepting", "push",
            "reject"}
Cleanup == {"block", "forget", "close", "stop_active", "stop_queue", "join",
            "free", "restore", "exited"}
Phases == {"away", "backlog", "open", "answered", "failed", "turned_away",
           "reset"}

MayFail(call) == call \in Failing
Backlog == {c \in Conns : phase[c] = "backlog"}
FreeFds == {fd \in Fds : owner[fd] = None}
LowestFreeFd == CHOOSE fd \in FreeFds : \A f \in FreeFds : fd <= f
Release(resources) == held' = held \ resources

\* The connections whose listen socket is closed under them.
ResetBacklog ==
  phase' = [c \in Conns |-> IF c \in Backlog THEN "reset" ELSE phase[c]]

-----------------------------------------------------------------------------
(* Changed forms of definitions below, one plausible bug each. *)

\* the handler sets the flag and leaves the pipe alone
HandleSignal_NoByte ==
  /\ pending /\ ~masked /\ pc # "exited"
  /\ pending' = FALSE
  /\ g_should_stop' = TRUE
  /\ \/ UNCHANGED pc
     \/ pc = "poll" /\ pc' = "loop"
  /\ UNCHANGED <<queueVars, activeVars, mainVars, masked, g_signal_write_fd,
                 wakeup, workerVars, phase>>

\* the handler may still use the pipe after it is closed
ForgetPipe_Skipped ==
  /\ pc = "forget"
  /\ pc' = "close"
  /\ UNCHANGED <<queueVars, activeVars, mainVars, signalVars, workerVars,
                 phase>>

\* the overload response is sent and the descriptor forgotten
Reject_NoClose ==
  /\ pc = "reject"
  /\ pc' = "accept"
  /\ phase' = [phase EXCEPT ![client.conn] = "turned_away"]
  /\ client' = NoClient
  /\ UNCHANGED <<queueVars, activeVars, revents, created, held, server_failed,
                 signalVars, workerVars>>

\* a worker whose allocation fails goes on without closing its connection
AllocateBuffers_Leak(w) ==
  /\ caller[w] = "working" /\ stage[w] = "registered"
  /\ \/ /\ stage' = [stage EXCEPT ![w] = "reading"]
        /\ UNCHANGED <<queueVars, phase>>
     \/ /\ MayFail("alloc")
        /\ phase' = [phase EXCEPT ![out_job[w].conn] = "failed"]
        /\ stage' = [stage EXCEPT ![w] = "idle"]
        /\ Q!WorkDone(w)
  /\ UNCHANGED <<activeVars, pc, mainVars, signalVars, slot>>

-----------------------------------------------------------------------------
(* Startup. Every step is masked; a failing step releases what it owns and *)
(* leaves the rest to the common end of main, whose tail every failure     *)
(* path of the code repeats.                                               *)

Init ==
  /\ Q!Init /\ A!Init
  /\ pc = "queue"
  /\ client = NoClient /\ revents = {} /\ created = {} /\ held = {}
  /\ server_failed = FALSE
  /\ pending = FALSE /\ masked = TRUE
  /\ g_should_stop = FALSE /\ g_signal_write_fd = FALSE /\ wakeup = FALSE
  /\ stage = [w \in Workers |-> "idle"]
  /\ slot = [w \in Workers |-> 0]
  /\ phase = [c \in Conns |-> "away"]

\* BsConnectionQueueInit, BsActiveConnectionsInit, calloc of the threads:
\* memory only, one after the other.
Allocate ==
  /\ pc \in {"queue", "active", "workers"}
  /\ \/ /\ held' = held \cup {pc}
        /\ pc' = [queue |-> "active", active |-> "workers",
                  workers |-> "spawn"][pc]
        /\ UNCHANGED server_failed
     \/ /\ MayFail(pc)
        /\ server_failed' = TRUE
        /\ pc' = "free"
        /\ UNCHANGED held
  /\ UNCHANGED <<queueVars, activeVars, client, revents, created, signalVars,
                 workerVars, phase>>

\* One round of the pthread_create loop, or its end.
Spawn ==
  /\ pc = "spawn"
  /\ \/ /\ \E w \in Workers \ created : created' = created \cup {w}
        /\ UNCHANGED <<pc, server_failed>>
     \/ /\ created = Workers
        /\ pc' = "listen"
        /\ UNCHANGED <<created, server_failed>>
     \/ /\ created # Workers /\ MayFail("thread")
        /\ server_failed' = TRUE
        /\ pc' = "stop_active"
        /\ UNCHANGED created
  /\ UNCHANGED <<queueVars, activeVars, client, revents, held, signalVars,
                 workerVars, phase>>

\* create_listen_socket: clients can connect from here on.
Listen ==
  /\ pc = "listen"
  /\ \/ /\ held' = held \cup {"listener"}
        /\ pc' = "pipe"
        /\ UNCHANGED server_failed
     \/ /\ MayFail("listen")
        /\ server_failed' = TRUE
        /\ pc' = "stop_active"
        /\ UNCHANGED held
  /\ UNCHANGED <<queueVars, activeVars, client, revents, created, signalVars,
                 workerVars, phase>>

\* create_wakeup_pipe, and its publication to the signal handler.
PipeMade ==
  /\ pc = "pipe"
  /\ pc' = "unmask"
  /\ held' = held \cup {"pipe"}
  /\ g_signal_write_fd' = TRUE
  /\ UNCHANGED <<queueVars, activeVars, client, revents, created,
                 server_failed, pending, masked, g_should_stop, wakeup,
                 workerVars, phase>>

PipeFails ==
  /\ pc = "pipe" /\ MayFail("pipe")
  /\ pc' = "stop_active"
  /\ server_failed' = TRUE
  /\ Release({"listener"})
  /\ ResetBacklog
  /\ UNCHANGED <<queueVars, activeVars, client, revents, created, signalVars,
                 workerVars>>

Unmask ==
  /\ pc = "unmask"
  /\ \/ /\ masked' = FALSE
        /\ pc' = "loop"
        /\ UNCHANGED <<g_signal_write_fd, held, server_failed, phase>>
     \/ /\ MayFail("unmask")
        /\ g_signal_write_fd' = FALSE
        /\ Release({"pipe", "listener"})
        /\ ResetBacklog
        /\ server_failed' = TRUE
        /\ pc' = "stop_active"
        /\ UNCHANGED masked
  /\ UNCHANGED <<queueVars, activeVars, client, revents, created, pending,
                 g_should_stop, wakeup, workerVars>>

-----------------------------------------------------------------------------
(* The accepting loop. *)

\* while (!g_should_stop)
Loop ==
  /\ pc = "loop"
  /\ pc' = IF g_should_stop THEN "block" ELSE "poll"
  /\ UNCHANGED <<queueVars, activeVars, mainVars, signalVars, workerVars,
                 phase>>

Ready ==
  (IF Backlog # {} THEN {"listener"} ELSE {}) \cup
  (IF wakeup THEN {"wakeup"} ELSE {})

\* poll() without a timeout returns.
Poll ==
  /\ pc = "poll"
  /\ \/ /\ Ready # {}
        /\ revents' = Ready
        /\ pc' = "drain"
        /\ UNCHANGED server_failed
     \/ /\ MayFail("poll")
        /\ server_failed' = TRUE
        /\ pc' = "block"
        /\ UNCHANGED revents
  /\ UNCHANGED <<queueVars, activeVars, client, created, held, signalVars,
                 workerVars, phase>>

\* drain_wakeup_pipe, if the poll reported the pipe
Drain ==
  /\ pc = "drain"
  /\ wakeup' = (wakeup /\ "wakeup" \notin revents)
  /\ pc' = "check"
  /\ UNCHANGED <<queueVars, activeVars, mainVars, pending, masked,
                 g_should_stop, g_signal_write_fd, workerVars, phase>>

\* What the poll reported decides how the round goes on.
Check ==
  /\ pc = "check"
  /\ revents' = {}
  /\ \/ /\ pc' = IF g_should_stop THEN "block"
                 ELSE IF "listener" \in revents THEN "accept" ELSE "loop"
        /\ UNCHANGED server_failed
     \/ /\ ~g_should_stop /\ MayFail("pollerr")
        /\ server_failed' = TRUE
        /\ pc' = "block"
  /\ UNCHANGED <<queueVars, activeVars, client, created, held, signalVars,
                 workerVars, phase>>

\* while (!g_should_stop) of the inner loop
AcceptLoop ==
  /\ pc = "accept"
  /\ pc' = IF g_should_stop THEN "loop" ELSE "accepting"
  /\ UNCHANGED <<queueVars, activeVars, mainVars, signalVars, workerVars,
                 phase>>

\* accept() returns the lowest free descriptor number.
Accept(c) ==
  /\ pc = "accepting"
  /\ c \in Backlog /\ FreeFds # {}
  /\ client' = [fd |-> LowestFreeFd, conn |-> c]
  /\ owner' = [owner EXCEPT ![LowestFreeFd] = c]
  /\ phase' = [phase EXCEPT ![c] = "open"]
  /\ pc' = "push"
  /\ UNCHANGED <<queueVars, fds, stopping, readShut, revents, created, held,
                 server_failed, signalVars, workerVars>>

\* EAGAIN
AcceptNothing ==
  /\ pc = "accepting" /\ Backlog = {}
  /\ pc' = "loop"
  /\ UNCHANGED <<queueVars, activeVars, mainVars, signalVars, workerVars,
                 phase>>

\* Any other error ends the server; with no descriptor left accept() fails.
AcceptFails ==
  /\ pc = "accepting"
  /\ MayFail("accept") \/ (Backlog # {} /\ FreeFds = {})
  /\ server_failed' = TRUE
  /\ g_should_stop' = TRUE
  /\ pc' = "loop"
  /\ UNCHANGED <<queueVars, activeVars, client, revents, created, held,
                 pending, masked, g_signal_write_fd, wakeup, workerVars, phase>>

Push ==
  /\ pc = "push"
  /\ Q!TryPush(client)
  /\ client' = NoClient
  /\ pc' = "accept"
  /\ UNCHANGED <<activeVars, revents, created, held, server_failed,
                 signalVars, workerVars, phase>>

PushRefused ==
  /\ pc = "push" /\ Q!TryPushRefuses
  /\ pc' = "reject"
  /\ UNCHANGED <<queueVars, activeVars, mainVars, signalVars, workerVars,
                 phase>>

\* reject_overloaded_connection: a bounded, non-blocking attempt to send the
\* 503 answer, shutdown of the write half, close.
Reject ==
  /\ pc = "reject"
  /\ pc' = "accept"
  /\ phase' = [phase EXCEPT ![client.conn] = "turned_away"]
  /\ A!CloseFd(client.fd)
  /\ client' = NoClient
  /\ UNCHANGED <<queueVars, fds, stopping, readShut, revents, created, held,
                 server_failed, signalVars, workerVars>>

-----------------------------------------------------------------------------
(* The end of main. *)

BlockSignals ==
  /\ pc = "block"
  /\ pc' = "forget"
  /\ \/ masked' = TRUE /\ UNCHANGED server_failed
     \/ MayFail("cleanupmask") /\ server_failed' = TRUE /\ UNCHANGED masked
  /\ UNCHANGED <<queueVars, activeVars, client, revents, created, held,
                 pending, g_should_stop, g_signal_write_fd, wakeup, workerVars,
                 phase>>

\* g_signal_write_fd = -1
ForgetPipe ==
  /\ pc = "forget"
  /\ pc' = "close"
  /\ g_signal_write_fd' = FALSE
  /\ UNCHANGED <<queueVars, activeVars, mainVars, pending, masked,
                 g_should_stop, wakeup, workerVars, phase>>

\* The pipe stays open when the signals could not be blocked.
CloseEndpoints ==
  /\ pc = "close"
  /\ pc' = "stop_active"
  /\ Release({"listener"} \cup (IF masked THEN {"pipe"} ELSE {}))
  /\ ResetBacklog
  /\ UNCHANGED <<queueVars, activeVars, client, revents, created,
                 server_failed, signalVars, workerVars>>

StopActive ==
  /\ pc = "stop_active"
  /\ pc' = "stop_queue"
  /\ A!Stop
  /\ UNCHANGED <<queueVars, mainVars, signalVars, workerVars, phase>>

StopQueue ==
  /\ pc = "stop_queue"
  /\ pc' = "join"
  /\ Q!Stop
  /\ UNCHANGED <<activeVars, mainVars, signalVars, workerVars, phase>>

\* pthread_join of every created worker
Join ==
  /\ pc = "join"
  /\ \A w \in created : caller[w] = "exited"
  /\ pc' = "free"
  /\ UNCHANGED <<queueVars, activeVars, mainVars, signalVars, workerVars,
                 phase>>

Free ==
  /\ pc = "free"
  /\ pc' = "restore"
  /\ Release({"queue", "active", "workers"})
  /\ UNCHANGED <<queueVars, activeVars, client, revents, created,
                 server_failed, signalVars, workerVars, phase>>

\* The signal mask main was started with, then return.
Restore ==
  /\ pc = "restore"
  /\ pc' = "exited"
  /\ \/ masked' = FALSE /\ UNCHANGED server_failed
     \/ MayFail("restore") /\ server_failed' = TRUE /\ UNCHANGED masked
  /\ UNCHANGED <<queueVars, activeVars, client, revents, created, held,
                 pending, g_should_stop, g_signal_write_fd, wakeup, workerVars,
                 phase>>

-----------------------------------------------------------------------------
(* The workers. *)

Stages == {"idle", "popped", "registered", "reading", "responding", "closing"}
At(w, s) == caller[w] = "working" /\ stage[w] = s
Moves(w, s) == stage' = [stage EXCEPT ![w] = s]

\* BsConnectionQueuePop with nothing to return yet, or returning false
PopNothing(w) ==
  /\ w \in created
  /\ Q!PopWait(w) \/ Q!PopStopped(w)
  /\ UNCHANGED <<activeVars, pc, mainVars, signalVars, workerVars, phase>>

\* BsConnectionQueuePop returning true
PopJob(w) ==
  /\ w \in created
  /\ Q!PopTake(w)
  /\ Moves(w, "popped")
  /\ UNCHANGED <<activeVars, pc, mainVars, signalVars, slot, phase>>

Spurious(w) ==
  /\ Q!SpuriousWakeup(w)
  /\ UNCHANGED <<activeVars, pc, mainVars, signalVars, workerVars, phase>>

\* BsActiveConnectionsRegister; with no slot left the connection is closed.
RegisterJob(w) ==
  /\ At(w, "popped")
  /\ IF A!FreeSlots # {}
     THEN /\ A!Register(A!FirstFreeSlot, out_job[w].fd)
          /\ slot' = [slot EXCEPT ![w] = A!FirstFreeSlot]
          /\ Moves(w, "registered")
          /\ UNCHANGED <<queueVars, phase>>
     ELSE /\ A!CloseFd(out_job[w].fd)
          /\ phase' = [phase EXCEPT ![out_job[w].conn] = "failed"]
          /\ Moves(w, "idle")
          /\ Q!WorkDone(w)
          /\ UNCHANGED <<fds, stopping, readShut, slot>>
  /\ UNCHANGED <<pc, mainVars, signalVars>>

\* The beginning of handle_connection: the buffers and the arena.
AllocateBuffers(w) ==
  /\ At(w, "registered")
  /\ \/ Moves(w, "reading") /\ UNCHANGED phase
     \/ /\ MayFail("alloc")
        /\ phase' = [phase EXCEPT ![out_job[w].conn] = "failed"]
        /\ Moves(w, "closing")
  /\ UNCHANGED <<queueVars, activeVars, pc, mainVars, signalVars, slot>>

\* The read loop ends: the request is complete, the client closed, the
\* deadline of the worker passed, or the read half was shut down.
ReadEnds(w) ==
  /\ At(w, "reading")
  /\ Moves(w, "responding")
  /\ UNCHANGED <<queueVars, activeVars, pc, mainVars, signalVars, slot, phase>>

\* The handler computes its response and write_all sends it, within the send
\* timeout.
Respond(w) ==
  /\ At(w, "responding")
  /\ \E result \in {"answered"} \cup (IF MayFail("write") THEN {"failed"}
                                                          ELSE {}) :
       phase' = [phase EXCEPT ![out_job[w].conn] = result]
  /\ Moves(w, "closing")
  /\ UNCHANGED <<queueVars, activeVars, pc, mainVars, signalVars, slot>>

\* BsActiveConnectionsClose, and back to Pop.
CloseJob(w) ==
  /\ At(w, "closing")
  /\ A!Close(slot[w], out_job[w].fd)
  /\ Moves(w, "idle")
  /\ Q!WorkDone(w)
  /\ UNCHANGED <<pc, mainVars, signalVars, slot, phase>>

-----------------------------------------------------------------------------
(* The environment: clients and signals. *)

Connect(c) ==
  /\ phase[c] = "away" /\ "listener" \in held
  /\ phase' = [phase EXCEPT ![c] = "backlog"]
  /\ UNCHANGED <<queueVars, activeVars, pc, mainVars, signalVars, workerVars>>

SendSignal ==
  /\ ~pending /\ pc # "exited"
  /\ pending' = TRUE
  /\ UNCHANGED <<queueVars, activeVars, pc, mainVars, masked, g_should_stop,
                 g_signal_write_fd, wakeup, workerVars, phase>>

\* handle_signal on the main thread. It interrupts a poll() that already
\* blocks (EINTR); before the call it only sets the flag and the pipe.
HandleSignal ==
  /\ pending /\ ~masked /\ pc # "exited"
  /\ pending' = FALSE
  /\ g_should_stop' = TRUE
  /\ wakeup' = (wakeup \/ g_signal_write_fd)
  /\ \/ UNCHANGED pc
     \/ pc = "poll" /\ pc' = "loop"
  /\ UNCHANGED <<queueVars, activeVars, mainVars, masked, g_signal_write_fd,
                 workerVars, phase>>

Terminated == pc = "exited" /\ UNCHANGED vars

-----------------------------------------------------------------------------
MainStep ==
  \/ Allocate \/ Spawn \/ Listen \/ PipeMade \/ PipeFails \/ Unmask
  \/ Loop \/ Poll \/ Drain \/ Check
  \/ AcceptLoop \/ (\E c \in Conns : Accept(c)) \/ AcceptNothing \/ AcceptFails
  \/ Push \/ PushRefused \/ Reject
  \/ BlockSignals \/ ForgetPipe \/ CloseEndpoints \/ StopActive \/ StopQueue
  \/ Join \/ Free \/ Restore

Next ==
  \/ MainStep
  \/ \E w \in Workers :
       \/ PopNothing(w) \/ PopJob(w) \/ Spurious(w) \/ RegisterJob(w)
       \/ AllocateBuffers(w) \/ ReadEnds(w) \/ Respond(w) \/ CloseJob(w)
  \/ \E c \in Conns : Connect(c)
  \/ SendSignal \/ HandleSignal \/ Terminated

\* A read that cannot block: its connection's read half was shut down.
InterruptedReadEnds(w) == out_job[w].conn \in readShut /\ ReadEnds(w)

\* A blocked poll() is not obliged to fail.
UnblockedMainStep == (pc = "poll" => Ready # {}) /\ MainStep

SafeSpec == Init /\ [][Next]_vars

\* Threads that are not blocked run, and an unblocked signal is delivered.
\* Nothing is assumed of clients, nor of the read deadline: a read ends only
\* because the client acts or its connection's read half is shut down.
PromptFairness ==
  /\ WF_vars(UnblockedMainStep) /\ WF_vars(HandleSignal)
  /\ \A w \in Workers :
       /\ WF_vars(PopNothing(w) \/ PopJob(w))
       /\ WF_vars(RegisterJob(w) \/ AllocateBuffers(w))
       /\ WF_vars(Respond(w)) /\ WF_vars(CloseJob(w))
       /\ WF_vars(InterruptedReadEnds(w))

Spec == SafeSpec /\ PromptFairness

-----------------------------------------------------------------------------
TypeOK ==
  /\ Q!TypeOK /\ A!TypeOK
  /\ pc \in Startup \cup Serving \cup Cleanup
  /\ client \in Job \cup {NoClient}
  /\ revents \subseteq {"listener", "wakeup"}
  /\ created \subseteq Workers
  /\ held \subseteq {"queue", "active", "workers", "listener", "pipe"}
  /\ server_failed \in BOOLEAN /\ pending \in BOOLEAN /\ masked \in BOOLEAN
  /\ g_should_stop \in BOOLEAN /\ g_signal_write_fd \in BOOLEAN
  /\ wakeup \in BOOLEAN
  /\ stage \in [Workers -> Stages]
  /\ slot \in [Workers -> Slots]
  /\ phase \in [Conns -> Phases]

\* The connections that wait in the ring, and those a worker has.
Busy == {w \in Workers : caller[w] = "working"}
WaitingConns == {Q!Queued[i].conn : i \in 1 .. count}
ServedConns == {out_job[w].conn : w \in Busy}
InHand == IF client = NoClient THEN {} ELSE {client.conn}

\* Every number that is in the ring, with a worker or in the main thread's
\* hands refers to the connection it was accepted for, nobody else has that
\* connection, and no other number is open: nothing is closed twice, closed
\* by the wrong owner or forgotten, although accept() reuses a number at once.
DescriptorOwnership ==
  LET jobsHeld == {Q!Queued[i] : i \in 1 .. count}
                  \cup {out_job[w] : w \in Busy}
                  \cup (IF client = NoClient THEN {} ELSE {client})
  IN  /\ \A j \in jobsHeld : owner[j.fd] = j.conn
      /\ Cardinality(jobsHeld) =
           count + Cardinality(Busy) + Cardinality(InHand)
      /\ {j.fd : j \in jobsHeld} = Fds \ FreeFds

\* Between its registration and its close, a worker's slot holds the worker's
\* descriptor, and every used slot is some worker's: the stop at shutdown
\* interrupts every connection that is being served and no other, never a
\* number that was closed and given to a later connection. There are as many
\* slots as workers: the branch of worker_main that drops an unregistered
\* connection is never taken.
RegistryMatchesWorkers ==
  /\ \A w \in Busy : stage[w] = "popped" => A!FreeSlots # {}
  /\ \A w \in Busy : stage[w] # "popped" => fds[slot[w]] = out_job[w].fd
  /\ \A s \in Slots \ A!FreeSlots :
       \E w \in Busy : stage[w] # "popped" /\ slot[w] = s

\* Once the registry is stopped no worker can block in read(), whether it
\* registered before the stop or takes a drained job after it.
NoBlockingReadAfterStop ==
  stopping => \A w \in Busy : stage[w] \in {"registered", "reading"} =>
                                out_job[w].conn \in readShut

\* A blocked poll() cannot sleep through a termination signal: whenever the
\* flag is set, the pipe is readable or the poll will be interrupted.
StopReachesPoll == pc = "poll" /\ g_should_stop => wakeup

\* Whenever the handler can run and writes, the pipe it writes to is open; it
\* is open from before the signals are unblocked until they are blocked.
HandlerFindsPipe ==
  /\ ~masked /\ g_signal_write_fd => "pipe" \in held
  /\ pc \in Serving => g_signal_write_fd

\* The queue and the registry outlive every thread that uses them, and main
\* returns with every client's connection decided and closed, nothing left in
\* the queue or the backlog, every worker gone; only the pipe may stay open,
\* when the signals could not be blocked.
CleanExit ==
  /\ {"queue", "active"} \subseteq held
       \/ \A w \in created : caller[w] = "exited"
  /\ pc = "exited" =>
       /\ FreeFds = Fds /\ Q!Queued = <<>>
       /\ \A c \in Conns : phase[c] \notin {"backlog", "open"}
       /\ \A w \in created : caller[w] = "exited"
       /\ held \subseteq {"pipe"}
       /\ "pipe" \in held => server_failed

\* A termination signal and a failure end the process whatever its clients
\* do, whenever they come, and without waiting for a read deadline.
ProcessEnds == pending \/ server_failed ~> pc = "exited"

-----------------------------------------------------------------------------
\* What the clients see.
Service == INSTANCE ServerService WITH
  status <- [c \in Conns |->
    CASE phase[c] = "away" -> "away"
      [] phase[c] = "backlog" -> "connecting"
      [] phase[c] = "reset" -> "reset"
      [] phase[c] = "turned_away" -> "refused"
      [] c \in InHand -> IF pc = "reject" THEN "refused" ELSE "connecting"
      [] c \in WaitingConns -> "waiting"
      [] c \in ServedConns -> "serving"
      [] OTHER -> "done"],
  draining <- pc \in Cleanup /\ pc \notin {"block", "forget", "close"}

\* The server implements the service: who is admitted, turned away, reset,
\* served and finished, and when.
ServiceSafe == Service!SafeSpec

\* And, as every read loop ends by its absolute deadline (io_timeout_ms),
\* nobody who connects is left behind.
ReadsEnd == \A w \in Workers : WF_vars(ReadEnds(w))
ServiceLive == ReadsEnd => Service!Fairness
=============================================================================

------------------------- MODULE NativeServerProofs -------------------------
(***************************************************************************)
(* NativeServer for any number of workers, connections and descriptors,    *)
(* any capacity and whatever system calls fail.                            *)
(*                                                                         *)
(* The signal handler and the main thread: the handler never writes into a *)
(* pipe that is not open, and a termination signal never leaves the poll   *)
(* asleep.                                                                 *)
(*                                                                         *)
(* The life of every connection: it is in one place at a time, from        *)
(* accept() to close(); the number it is known by refers to it all this    *)
(* while; the registry knows exactly the connections that are being        *)
(* served; and main leaves nothing behind.                                 *)
(*                                                                         *)
(* The argument goes up in layers, each an inductive invariant relative to *)
(* those before it: SignalInv (the pipe and the signals), AcceptInv (every *)
(* job is new), ConnectionQueue's invariant (the ring inside the server is *)
(* the queue proved correct on its own), ThreadInv (who exists and who is  *)
(* gone), ResourceInv (what main holds), JobInv (one place per connection) *)
(* and OwnerInv (numbers and the registry).  On top of all of them, the    *)
(* process implements ServerService.                                       *)
(***************************************************************************)
EXTENDS NativeServer, FiniteSetTheorems, SequenceTheorems, TLAPS

QP == INSTANCE ConnectionQueueProofs WITH
        Jobs <- Job, Consumers <- Workers, NoJob <- NoClient

-----------------------------------------------------------------------------
(* The signal handler and the self-pipe. *)

\* From the creation of the pipe to the end of the loop, and one step longer.
Published == {"unmask"} \cup Serving \cup {"block", "forget"}
PipeOpen == Published \cup {"close"}

\* What the place of the main thread says about the pipe and the signals.
\* HandlerFindsPipe speaks of the states in which the handler can run; to be
\* preserved it has to be known where the pipe is published in the others.
SignalInv ==
  /\ pc \in Startup \cup Serving \cup Cleanup
  /\ g_signal_write_fd \in BOOLEAN /\ wakeup \in BOOLEAN
  /\ pc \in Published => g_signal_write_fd
  /\ pc \notin Published => ~g_signal_write_fd
  /\ pc \in PipeOpen => "pipe" \in held
  /\ pc \in Startup => masked
  /\ StopReachesPoll

LEMMA SignalInit == Init => SignalInv
BY DEF Init, SignalInv, Published, PipeOpen, Startup, Serving, Cleanup,
       StopReachesPoll

\* Startup: the pipe is published by PipeMade, and taken back if the signals
\* cannot be unblocked.
LEMMA SignalStartup ==
  ASSUME SignalInv,
         Allocate \/ Spawn \/ Listen \/ PipeMade \/ PipeFails \/ Unmask
  PROVE  SignalInv'
<1> USE DEF SignalInv, Published, PipeOpen, Startup, Serving, Cleanup,
            StopReachesPoll, signalVars, mainVars
<1>1. CASE Allocate
  <2>1. CASE pc = "queue"
    BY <1>1, <2>1 DEF Allocate
  <2>2. CASE pc = "active"
    BY <1>1, <2>2 DEF Allocate
  <2>3. CASE pc = "workers"
    BY <1>1, <2>3 DEF Allocate
  <2> QED BY <1>1, <2>1, <2>2, <2>3 DEF Allocate
<1>2. CASE Spawn
  BY <1>2 DEF Spawn
<1>3. CASE Listen
  BY <1>3 DEF Listen
<1>4. CASE PipeMade
  BY <1>4 DEF PipeMade
<1>5. CASE PipeFails
  BY <1>5 DEF PipeFails, Release
<1>6. CASE Unmask
  BY <1>6 DEF Unmask, Release
<1> QED BY <1>1, <1>2, <1>3, <1>4, <1>5, <1>6

\* The loop: the flag is read before every poll, and the pipe is drained only
\* after one.
LEMMA SignalServing ==
  ASSUME SignalInv,
         \/ Loop \/ Poll \/ Drain \/ Check \/ AcceptLoop
         \/ (\E c \in Conns : Accept(c)) \/ AcceptNothing \/ AcceptFails
         \/ Push \/ PushRefused \/ Reject
  PROVE  SignalInv'
<1> USE DEF SignalInv, Published, PipeOpen, Startup, Serving, Cleanup,
            StopReachesPoll, signalVars, mainVars
<1>1. CASE Loop
  BY <1>1 DEF Loop
<1>2. CASE Poll
  BY <1>2 DEF Poll
<1>3. CASE Drain
  BY <1>3 DEF Drain
<1>4. CASE Check
  BY <1>4 DEF Check
<1>5. CASE AcceptLoop
  BY <1>5 DEF AcceptLoop
<1>6. CASE \E c \in Conns : Accept(c)
  BY <1>6 DEF Accept
<1>7. CASE AcceptNothing \/ AcceptFails
  BY <1>7 DEF AcceptNothing, AcceptFails
<1>8. CASE Push \/ PushRefused \/ Reject
  BY <1>8 DEF Push, PushRefused, Reject
<1> QED BY <1>1, <1>2, <1>3, <1>4, <1>5, <1>6, <1>7, <1>8

\* The end: the handler forgets the pipe before it is closed.
LEMMA SignalCleanup ==
  ASSUME SignalInv,
         \/ BlockSignals \/ ForgetPipe \/ CloseEndpoints \/ StopActive
         \/ StopQueue \/ Join \/ Free \/ Restore
  PROVE  SignalInv'
<1> USE DEF SignalInv, Published, PipeOpen, Startup, Serving, Cleanup,
            StopReachesPoll, signalVars, mainVars
<1>1. CASE BlockSignals
  BY <1>1 DEF BlockSignals
<1>2. CASE ForgetPipe
  BY <1>2 DEF ForgetPipe
<1>3. CASE CloseEndpoints
  BY <1>3 DEF CloseEndpoints
<1>4. CASE StopActive \/ StopQueue \/ Join
  BY <1>4 DEF StopActive, StopQueue, Join
<1>5. CASE Free
  BY <1>5 DEF Free
<1>6. CASE Restore
  BY <1>6 DEF Restore
<1> QED BY <1>1, <1>2, <1>3, <1>4, <1>5, <1>6

\* A worker touches neither the main thread's variables nor the signals'.
LEMMA SignalWorker ==
  ASSUME SignalInv, NEW w \in Workers,
         \/ PopNothing(w) \/ PopJob(w) \/ Spurious(w) \/ RegisterJob(w)
         \/ AllocateBuffers(w) \/ ReadEnds(w) \/ Respond(w) \/ CloseJob(w)
  PROVE  SignalInv'
<1>1. UNCHANGED <<pc, held, masked, g_should_stop, g_signal_write_fd, wakeup>>
  BY DEF PopNothing, PopJob, Spurious, RegisterJob, AllocateBuffers, ReadEnds,
         Respond, CloseJob, signalVars, mainVars
<1> QED BY <1>1 DEF SignalInv, StopReachesPoll

LEMMA SignalEnvironment ==
  ASSUME SignalInv,
         \/ (\E c \in Conns : Connect(c)) \/ SendSignal \/ HandleSignal
         \/ UNCHANGED vars
  PROVE  SignalInv'
<1> USE DEF SignalInv, Published, PipeOpen, Startup, Serving, Cleanup,
            StopReachesPoll, signalVars, mainVars
<1>1. CASE \E c \in Conns : Connect(c)
  BY <1>1 DEF Connect
<1>2. CASE SendSignal
  BY <1>2 DEF SendSignal
<1>3. CASE HandleSignal
  BY <1>3 DEF HandleSignal
<1>4. CASE UNCHANGED vars
  BY <1>4 DEF vars
<1> QED BY <1>1, <1>2, <1>3, <1>4

LEMMA SignalStep ==
  ASSUME SignalInv, [Next]_vars
  PROVE  SignalInv'
BY SignalStartup, SignalServing, SignalCleanup, SignalWorker,
   SignalEnvironment
   DEF Next, MainStep, Terminated

LEMMA SignalAlways == SafeSpec => []SignalInv
<1>1. SignalInv /\ [Next]_vars => SignalInv'
  BY SignalStep
<1> QED BY <1>1, SignalInit, PTL DEF SafeSpec

\* Whatever fails and whenever signals come, handle_signal (server_main.c:50)
\* finds the wakeup pipe open when it writes, and during the whole accepting
\* loop it does write.
THEOREM HandlerFindsPipeAlways == SafeSpec => []HandlerFindsPipe
<1>1. SignalInv => HandlerFindsPipe
  BY DEF SignalInv, HandlerFindsPipe, Published, PipeOpen, Serving
<1> QED BY <1>1, SignalAlways, PTL

\* Main never sits in poll() (server_main.c:749) with the stop flag set and
\* nothing to wake it.
THEOREM StopReachesPollAlways == SafeSpec => []StopReachesPoll
<1>1. SignalInv => StopReachesPoll
  BY DEF SignalInv
<1> QED BY <1>1, SignalAlways, PTL

-----------------------------------------------------------------------------
(* Every number accept() returns is new: what has been pushed so far, what *)
(* the main thread has in its hands and what still waits in the backlog    *)
(* are different connections.                                              *)

Undecided == {"away", "backlog"}

AcceptInv ==
  /\ pc \in Startup \cup Serving \cup Cleanup
  /\ phase \in [Conns -> Phases]
  /\ client \in Job \cup {NoClient}
  /\ client # NoClient <=> pc \in {"push", "reject"}
  /\ client # NoClient => phase[client.conn] \notin Undecided
  /\ pushed \in Seq(Job)
  /\ \A i \in 1 .. Len(pushed) :
       /\ phase[pushed[i].conn] \notin Undecided
       /\ client # NoClient => pushed[i].conn # client.conn

\* A set of numbers has a least element.
LEMMA LeastNumber ==
  ASSUME NEW S \in SUBSET Nat, S # {}
  PROVE  \E n \in S : \A m \in S : n <= m
<1> DEFINE R == {p \in Nat \X Nat : p[1] < p[2]}
<1>1. IsWellFoundedOn(R, Nat)
  <2>1. OpToRel(<, Nat) = R
    BY DEF OpToRel
  <2> QED BY <2>1, NatLessThanWellFounded
<1>2. PICK n \in S : \A m \in S : ~ (<<m, n>> \in R)
  <2> HIDE DEF R
  <2> QED BY <1>1, WFMin
<1>3. ASSUME NEW m \in S PROVE n <= m
  <2>1. m \in Nat /\ n \in Nat /\ ~ (<<m, n>> \in R)
    BY <1>2
  <2>2. ~ (m < n)
    BY <2>1
  <2> QED BY <2>1, <2>2
<1> QED BY <1>3

\* accept() finds the lowest free number when there is one.
LEMMA LowestIsFree ==
  ASSUME FreeFds # {}
  PROVE  LowestFreeFd \in FreeFds /\ LowestFreeFd \in Fds
<1>1. FreeFds \in SUBSET Nat
  BY ServerAssumption DEF FreeFds
<1>2. \E fd \in FreeFds : \A f \in FreeFds : fd <= f
  BY <1>1, LeastNumber
<1>3. LowestFreeFd \in FreeFds
  BY <1>2 DEF LowestFreeFd
<1> QED BY <1>3 DEF FreeFds

\* The mark of empty hands, fd = -1, is no job.
LEMMA NoClientIsNoJob == NoClient \notin Job
BY ServerAssumption DEF NoClient, Job

\* Nothing was accepted yet.
LEMMA AcceptInit == Init => AcceptInv
BY DEF Init, AcceptInv, Q!Init, Startup, Phases

\* Steps that leave the jobs alone, and take no connection back to the
\* backlog.
LEMMA AcceptQuiet ==
  ASSUME AcceptInv, UNCHANGED <<client, pushed>>,
         pc' \in Startup \cup Serving \cup Cleanup,
         pc' \in {"push", "reject"} <=> pc \in {"push", "reject"},
         phase' \in [Conns -> Phases],
         \A c \in Conns : phase'[c] \in Undecided => phase[c] \in Undecided
  PROVE  AcceptInv'
<1>1. \A i \in 1 .. Len(pushed) : pushed[i] \in Job
  BY DEF AcceptInv
<1>2. \A j \in Job :
        phase'[j.conn] \in Undecided => phase[j.conn] \in Undecided
  BY DEF Job
<1> QED BY <1>1, <1>2 DEF AcceptInv

\* Startup accepts nothing.
LEMMA AcceptStartup ==
  ASSUME AcceptInv,
         Allocate \/ Spawn \/ Listen \/ PipeMade \/ PipeFails \/ Unmask
  PROVE  AcceptInv'
<1> USE DEF Startup, Serving, Cleanup, queueVars
<1>1. UNCHANGED <<client, pushed>> /\ pc \in Startup
  BY DEF Allocate, Spawn, Listen, PipeMade, PipeFails, Unmask, mainVars
<1>2. pc' \in (Startup \cup Cleanup \cup {"loop"})
  BY DEF Allocate, Spawn, Listen, PipeMade, PipeFails, Unmask
<1>3. phase' = phase \/ ResetBacklog
  BY DEF Allocate, Spawn, Listen, PipeMade, PipeFails, Unmask
<1>4. /\ phase' \in [Conns -> Phases]
      /\ \A c \in Conns : phase'[c] \in Undecided => phase[c] \in Undecided
  BY <1>3 DEF ResetBacklog, Phases, AcceptInv, Undecided, Backlog
<1> QED BY <1>1, <1>2, <1>4, AcceptQuiet

\* The rounds of the loop that hand no job on.
LEMMA AcceptServing ==
  ASSUME AcceptInv,
         \/ Loop \/ Poll \/ Drain \/ Check \/ AcceptLoop \/ AcceptNothing
         \/ AcceptFails \/ PushRefused
  PROVE  AcceptInv'
<1> USE DEF Startup, Serving, Cleanup, queueVars
<1>1. UNCHANGED <<client, pushed, phase>>
  BY DEF Loop, Poll, Drain, Check, AcceptLoop, AcceptNothing, AcceptFails,
         PushRefused, mainVars
<1>2. pc' \in Serving \cup Cleanup
  BY DEF Loop, Poll, Drain, Check, AcceptLoop, AcceptNothing, AcceptFails,
         PushRefused, mainVars
<1>3. pc' \in {"push", "reject"} <=> pc \in {"push", "reject"}
  BY DEF Loop, Poll, Drain, Check, AcceptLoop, AcceptNothing, AcceptFails,
         PushRefused, mainVars
<1>4. phase' \in [Conns -> Phases]
  BY <1>1 DEF AcceptInv
<1> QED BY <1>1, <1>2, <1>3, <1>4, AcceptQuiet

\* accept() takes a connection out of the backlog, so it is none of those
\* that were pushed; push and reject empty main's hands.
LEMMA AcceptJobs ==
  ASSUME AcceptInv, (\E c \in Conns : Accept(c)) \/ Push \/ Reject
  PROVE  AcceptInv'
<1> USE DEF Startup, Serving, Cleanup, queueVars, Undecided, Phases
<1>0. \A i \in 1 .. Len(pushed) : pushed[i] \in Job
  BY DEF AcceptInv
<1>1. ASSUME NEW c \in Conns, Accept(c) PROVE AcceptInv'
  <2>1. LowestFreeFd \in Fds
    BY <1>1, LowestIsFree DEF Accept
  <2>2. /\ client' = [fd |-> LowestFreeFd, conn |-> c] /\ pc' = "push"
        /\ phase' = [phase EXCEPT ![c] = "open"] /\ pushed' = pushed
        /\ phase[c] = "backlog"
    BY <1>1 DEF Accept, Backlog
  <2>3. client' \in Job /\ client' # NoClient /\ client'.conn = c
    BY <2>1, <2>2, NoClientIsNoJob DEF Job
  <2>4. \A i \in 1 .. Len(pushed) :
          /\ pushed[i].conn # c
          /\ phase'[pushed[i].conn] \notin {"away", "backlog"}
    BY <1>0, <2>2 DEF AcceptInv, Job
  <2> QED BY <2>2, <2>3, <2>4 DEF AcceptInv
<1>2. CASE Push
  <2>1. /\ client \in Job /\ client' = NoClient /\ pc' = "accept"
        /\ pushed' = Append(pushed, client) /\ phase' = phase
    BY <1>2 DEF Push, AcceptInv, Q!TryPush
  <2>2. pushed' \in Seq(Job) /\ Len(pushed') = Len(pushed) + 1
        /\ \A i \in 1 .. Len(pushed) : pushed'[i] = pushed[i]
        /\ pushed'[Len(pushed) + 1] = client
    BY <2>1, AppendProperties DEF AcceptInv
  <2>3. ASSUME NEW i \in 1 .. Len(pushed')
        PROVE  phase[pushed'[i].conn] \notin {"away", "backlog"}
    <3>1. CASE i = Len(pushed) + 1
      BY <2>1, <2>2, <3>1, NoClientIsNoJob DEF AcceptInv
    <3>2. CASE i # Len(pushed) + 1
      <4>1. i \in 1 .. Len(pushed)
        BY <2>2, <3>2, LenProperties DEF AcceptInv
      <4> QED BY <2>2, <4>1 DEF AcceptInv
    <3> QED BY <3>1, <3>2
  <2> QED BY <2>1, <2>2, <2>3 DEF AcceptInv
<1>3. CASE Reject
  <2>1. /\ client \in Job /\ client' = NoClient /\ pc' = "accept"
        /\ pushed' = pushed
        /\ phase' = [phase EXCEPT ![client.conn] = "turned_away"]
    BY <1>3 DEF Reject, AcceptInv
  <2>2. \A i \in 1 .. Len(pushed) :
          phase'[pushed[i].conn] \notin {"away", "backlog"}
    BY <1>0, <2>1 DEF AcceptInv, Job
  <2> QED BY <2>1, <2>2 DEF AcceptInv, Job
<1> QED BY <1>1, <1>2, <1>3

\* The end of main resets who still waits, and accepts nothing.
LEMMA AcceptCleanup ==
  ASSUME AcceptInv,
         \/ BlockSignals \/ ForgetPipe \/ CloseEndpoints \/ StopActive
         \/ StopQueue \/ Join \/ Free \/ Restore
  PROVE  AcceptInv'
<1> USE DEF Startup, Serving, Cleanup, queueVars
<1>1. UNCHANGED <<client, pushed>> /\ pc \in Cleanup /\ pc' \in Cleanup
  BY DEF BlockSignals, ForgetPipe, CloseEndpoints, StopActive, StopQueue,
         Join, Free, Restore, mainVars, Q!Stop
<1>2. phase' = phase \/ ResetBacklog
  BY DEF BlockSignals, ForgetPipe, CloseEndpoints, StopActive, StopQueue,
         Join, Free, Restore
<1>3. /\ phase' \in [Conns -> Phases]
      /\ \A c \in Conns : phase'[c] \in Undecided => phase[c] \in Undecided
  BY <1>2 DEF ResetBacklog, Phases, AcceptInv, Undecided, Backlog
<1> QED BY <1>1, <1>3, AcceptQuiet

\* A worker decides only about connections that were pushed.
LEMMA AcceptWorker ==
  ASSUME AcceptInv, NEW w \in Workers,
         \/ PopNothing(w) \/ PopJob(w) \/ Spurious(w) \/ RegisterJob(w)
         \/ AllocateBuffers(w) \/ ReadEnds(w) \/ Respond(w) \/ CloseJob(w)
  PROVE  AcceptInv'
<1> USE DEF queueVars
<1>1. UNCHANGED <<client, pushed, pc>>
  BY DEF PopNothing, PopJob, Spurious, RegisterJob, AllocateBuffers, ReadEnds,
         Respond, CloseJob, mainVars, Q!PopWait, Q!PopStopped, Q!PopTake,
         Q!SpuriousWakeup, Q!WorkDone
<1>2. \/ phase' = phase
      \/ \E r \in {"answered", "failed"} :
           phase' = [phase EXCEPT ![out_job[w].conn] = r]
  BY DEF PopNothing, PopJob, Spurious, RegisterJob, AllocateBuffers, ReadEnds,
         Respond, CloseJob
<1>3. /\ phase' \in [Conns -> Phases]
      /\ \A c \in Conns : phase'[c] \in Undecided => phase[c] \in Undecided
  BY <1>2 DEF Phases, AcceptInv, Undecided
<1> QED BY <1>1, <1>3, AcceptQuiet DEF AcceptInv

\* A client joins the backlog; it was away until then.
LEMMA AcceptEnvironment ==
  ASSUME AcceptInv,
         \/ (\E c \in Conns : Connect(c)) \/ SendSignal \/ HandleSignal
         \/ UNCHANGED vars
  PROVE  AcceptInv'
<1> USE DEF Startup, Serving, Cleanup, queueVars, Undecided, Phases
<1>1. UNCHANGED <<client, pushed>>
  BY DEF Connect, SendSignal, HandleSignal, vars, mainVars
<1>2. /\ pc' \in Startup \cup Serving \cup Cleanup
      /\ pc' \in {"push", "reject"} <=> pc \in {"push", "reject"}
  BY DEF Connect, SendSignal, HandleSignal, vars, mainVars, AcceptInv
<1>3. \/ phase' = phase
      \/ \E c \in Conns : phase[c] = "away"
                          /\ phase' = [phase EXCEPT ![c] = "backlog"]
  BY DEF Connect, SendSignal, HandleSignal, vars
<1>4. /\ phase' \in [Conns -> Phases]
      /\ \A c \in Conns : phase'[c] \in Undecided => phase[c] \in Undecided
  BY <1>3 DEF AcceptInv
<1> QED BY <1>1, <1>2, <1>4, AcceptQuiet

\* Every step of a thread, a client or a signal keeps the jobs new.
LEMMA AcceptStep ==
  ASSUME AcceptInv, [Next]_vars
  PROVE  AcceptInv'
BY AcceptStartup, AcceptServing, AcceptJobs, AcceptCleanup, AcceptWorker,
   AcceptEnvironment
   DEF Next, MainStep, Terminated

\* Every job that reaches the ring is new.
LEMMA AcceptAlways == SafeSpec => []AcceptInv
<1>1. AcceptInv /\ [Next]_vars => AcceptInv'
  BY AcceptStep
<1> QED BY <1>1, AcceptInit, PTL DEF SafeSpec

-----------------------------------------------------------------------------
(* The queue inside the server is the queue of ConnectionQueue, so all that *)
(* is proved of it holds here.                                              *)

\* The server's constants are constants of the queue.
LEMMA QueueConstants == QP!QueueAssumption
BY ServerAssumption, NoClientIsNoJob
   DEF QP!QueueAssumption, QP!IsFiniteSet, IsFiniteSet

\* Both instances of the module say the same.
LEMMA SameQueue ==
  /\ Q!Init <=> QP!Init
  /\ \A j : Q!TryPush(j) <=> QP!TryPush(j)
  /\ \A w : Q!PopWait(w) <=> QP!PopWait(w)
  /\ \A w : Q!PopStopped(w) <=> QP!PopStopped(w)
  /\ \A w : Q!PopTake(w) <=> QP!PopTake(w)
  /\ \A w : Q!SpuriousWakeup(w) <=> QP!SpuriousWakeup(w)
  /\ \A w : Q!WorkDone(w) <=> QP!WorkDone(w)
  /\ Q!Stop <=> QP!Stop
  /\ Q!Queued = QP!Queued
  /\ Q!TypeOK <=> QP!TypeOK
<1>1. Q!Init <=> QP!Init
  BY DEF Q!Init, QP!Init
<1>2. ASSUME NEW j PROVE Q!TryPush(j) <=> QP!TryPush(j)
  BY DEF Q!TryPush, QP!TryPush, Q!SignalOne, QP!SignalOne, Q!Waiting,
         QP!Waiting
<1>3. ASSUME NEW w PROVE Q!PopWait(w) <=> QP!PopWait(w)
  BY DEF Q!PopWait, QP!PopWait, Q!InPop, QP!InPop, Q!WaitersWithout,
         QP!WaitersWithout
<1>4. ASSUME NEW w PROVE Q!PopStopped(w) <=> QP!PopStopped(w)
  BY DEF Q!PopStopped, QP!PopStopped, Q!InPop, QP!InPop, Q!WaitersWithout,
         QP!WaitersWithout
<1>5. ASSUME NEW w PROVE Q!PopTake(w) <=> QP!PopTake(w)
  BY DEF Q!PopTake, QP!PopTake, Q!InPop, QP!InPop, Q!WaitersWithout,
         QP!WaitersWithout
<1>6. ASSUME NEW w PROVE Q!SpuriousWakeup(w) <=> QP!SpuriousWakeup(w)
  BY DEF Q!SpuriousWakeup, QP!SpuriousWakeup
<1>7. ASSUME NEW w PROVE Q!WorkDone(w) <=> QP!WorkDone(w)
  BY DEF Q!WorkDone, QP!WorkDone
<1>8. Q!Stop <=> QP!Stop
  BY DEF Q!Stop, QP!Stop
<1>9. Q!Queued = QP!Queued
  BY DEF Q!Queued, QP!Queued, Q!Cell, QP!Cell
<1>10. Q!TypeOK <=> QP!TypeOK
  BY DEF Q!TypeOK, QP!TypeOK, Q!CallerStates, QP!CallerStates
<1> QED BY <1>1, <1>2, <1>3, <1>4, <1>5, <1>6, <1>7, <1>8, <1>9, <1>10

\* What a step of the server does to the queue.
LEMMA QueueMoves ==
  ASSUME AcceptInv, [Next]_vars
  PROVE  [QP!Next]_(QP!vars)
<1> USE DEF QP!vars, queueVars
<1>1. ASSUME MainStep, ~ Push, ~ StopQueue PROVE UNCHANGED QP!vars
  BY <1>1 DEF MainStep, Allocate, Spawn, Listen, PipeMade, PipeFails, Unmask,
       Loop, Poll, Drain, Check, AcceptLoop, Accept, AcceptNothing,
       AcceptFails, PushRefused, Reject, BlockSignals, ForgetPipe,
       CloseEndpoints, StopActive, Join, Free, Restore
<1>2. CASE Push
  <2>1. Q!TryPush(client) /\ client \in Job
    BY <1>2 DEF Push, AcceptInv
  <2>2. \A i \in DOMAIN pushed : pushed[i] # client
    BY <1>2, NoClientIsNoJob DEF Push, AcceptInv
  <2> QED BY <2>1, <2>2, SameQueue DEF QP!Next, QP!NotPushed
<1>3. CASE StopQueue
  BY <1>3, SameQueue DEF StopQueue, QP!Next
<1>4. ASSUME NEW w \in Workers,
             \/ PopNothing(w) \/ PopJob(w) \/ Spurious(w) \/ RegisterJob(w)
             \/ AllocateBuffers(w) \/ ReadEnds(w) \/ Respond(w) \/ CloseJob(w)
      PROVE  [QP!Next]_(QP!vars)
  <2>1. \/ Q!PopWait(w) \/ Q!PopStopped(w) \/ Q!PopTake(w)
        \/ Q!SpuriousWakeup(w) \/ Q!WorkDone(w) \/ UNCHANGED QP!vars
    BY <1>4 DEF PopNothing, PopJob, Spurious, RegisterJob, AllocateBuffers,
         ReadEnds, Respond, CloseJob
  <2> QED BY <2>1, SameQueue DEF QP!Next
<1>5. ASSUME NEW c \in Conns, Connect(c) PROVE UNCHANGED QP!vars
  BY <1>5 DEF Connect
<1>6. ASSUME SendSignal \/ HandleSignal \/ UNCHANGED vars
      PROVE  UNCHANGED QP!vars
  BY <1>6 DEF SendSignal, HandleSignal, vars
<1> QED BY <1>1, <1>2, <1>3, <1>4, <1>5, <1>6 DEF Next, Terminated

\* The server runs the queue by its rules: each job is pushed at most once,
\* and by nobody but the main thread.
THEOREM RunsQueue == SafeSpec => QP!SafeSpec
<1>1. Init => QP!Init
  BY SameQueue DEF Init
<1>2. AcceptInv /\ [Next]_vars => [QP!Next]_(QP!vars)
  BY QueueMoves
<1> QED BY <1>1, <1>2, AcceptAlways, PTL DEF SafeSpec, QP!SafeSpec

\* So the ring keeps its order, no wakeup is lost, and nobody sleeps in Pop
\* after the stop.
LEMMA QueueAlways == SafeSpec => []QP!IInv
BY RunsQueue, QP!InvariantHolds, QueueConstants, PTL

\* What the ring, the callers and their jobs look like.
LEMMA QueueTypes ==
  ASSUME QP!IInv
  PROVE  /\ Q!TypeOK
         /\ caller \in [Workers -> QP!CallerStates]
         /\ out_job \in [Workers -> Job \cup {NoClient}]
         /\ count \in Nat /\ count <= Capacity
         /\ Q!Queued \in Seq(Job) /\ Len(Q!Queued) = count
         /\ \A i \in 1 .. count : Q!Queued[i] \in Job
         /\ \A w \in Workers : caller[w] = "working" => out_job[w] \in Job
<1>1. QP!TypeOK /\ QP!QueuedAreJobs /\ QP!WorkersHoldJobs
  BY DEF QP!IInv, QP!RingInv
<1>2. Q!Queued \in Seq(Job) /\ Len(Q!Queued) = count
  BY <1>1, QP!QueuedIsSeq, QueueConstants, SameQueue
<1>3. caller \in [Workers -> QP!CallerStates]
      /\ out_job \in [Workers -> Job \cup {NoClient}]
      /\ count \in Nat /\ count <= Capacity
  BY <1>1, ServerAssumption DEF QP!TypeOK
<1>4. Q!TypeOK
  BY <1>1, SameQueue
<1> QED BY <1>1, <1>2, <1>3, <1>4 DEF QP!WorkersHoldJobs

-----------------------------------------------------------------------------
(* The threads: who exists, and who is gone when memory is freed. *)

Launched ==
  {"listen", "pipe", "unmask", "block", "forget", "close"} \cup Serving
Ended == {"free", "restore", "exited"}

\* Until every worker exists nothing is accepted; a worker that was not
\* created has not moved; and past the join nobody is left.
ThreadInv ==
  /\ created \subseteq Workers
  /\ pc \in {"queue", "active", "workers"} => created = {}
  /\ pc \in Launched => created = Workers
  /\ pc \in Ended => \A w \in created : caller[w] = "exited"
  /\ \A w \in Workers \ created : caller[w] = "calling"
  /\ created # Workers => count = 0 /\ \A w \in Workers : caller[w] # "working"

\* No worker exists at first.
LEMMA ThreadInit == Init => ThreadInv
BY ServerAssumption DEF Init, Q!Init, ThreadInv, Launched, Ended, Serving

\* No caller moves but those that exist, and nobody comes back.
LEMMA CallerStep ==
  ASSUME ThreadInv, QP!IInv, [Next]_vars, NEW w \in Workers,
         w \notin created \/ caller[w] = "exited"
  PROVE  caller'[w] = caller[w]
<1> USE DEF queueVars
<1>0. caller \in [Workers -> QP!CallerStates]
  BY QueueTypes
<1>a. w \notin created => caller[w] = "calling"
  BY DEF ThreadInv
<1>1. ASSUME MainStep, ~ Push, ~ StopQueue PROVE caller' = caller
  BY <1>1 DEF MainStep, Allocate, Spawn, Listen, PipeMade, PipeFails, Unmask,
       Loop, Poll, Drain, Check, AcceptLoop, Accept, AcceptNothing,
       AcceptFails, PushRefused, Reject, BlockSignals, ForgetPipe,
       CloseEndpoints, StopActive, Join, Free, Restore
<1>2. CASE Push
  BY <1>2, <1>0, <1>a DEF Push, Q!TryPush, Q!SignalOne, Q!Waiting
<1>3. CASE StopQueue
  BY <1>3, <1>0, <1>a DEF StopQueue, Q!Stop
<1>4. ASSUME NEW v \in Workers,
             \/ PopNothing(v) \/ PopJob(v) \/ Spurious(v) \/ RegisterJob(v)
             \/ AllocateBuffers(v) \/ ReadEnds(v) \/ Respond(v) \/ CloseJob(v)
      PROVE  caller'[w] = caller[w]
  <2>1. \/ caller' = caller
        \/ /\ v \in created /\ caller[v] \in {"calling", "woken"}
           /\ \E s : caller' = [caller EXCEPT ![v] = s]
        \/ /\ caller[v] \in {"waiting", "working"}
           /\ \E s : caller' = [caller EXCEPT ![v] = s]
    BY <1>4 DEF PopNothing, PopJob, Spurious, RegisterJob, AllocateBuffers,
         ReadEnds, Respond, CloseJob, Q!PopWait, Q!PopStopped, Q!PopTake,
         Q!SpuriousWakeup, Q!WorkDone, Q!InPop
  <2> QED BY <2>1, <1>0, <1>a
<1>5. ASSUME (\E c \in Conns : Connect(c)) \/ SendSignal \/ HandleSignal
             \/ UNCHANGED vars
      PROVE  caller' = caller
  BY <1>5 DEF Connect, SendSignal, HandleSignal, vars
<1> QED BY <1>1, <1>2, <1>3, <1>4, <1>5 DEF Next, Terminated

\* Jobs appear only when all workers exist.
LEMMA IdleStep ==
  ASSUME ThreadInv, QP!IInv, [Next]_vars, created # Workers
  PROVE  count' = 0 /\ \A w \in Workers : caller'[w] # "working"
<1> USE DEF queueVars
<1>0. caller \in [Workers -> QP!CallerStates] /\ count = 0
      /\ \A w \in Workers : caller[w] # "working"
  BY QueueTypes DEF ThreadInv
<1>1. ASSUME MainStep, ~ Push, ~ StopQueue PROVE UNCHANGED <<caller, count>>
  BY <1>1 DEF MainStep, Allocate, Spawn, Listen, PipeMade, PipeFails, Unmask,
       Loop, Poll, Drain, Check, AcceptLoop, Accept, AcceptNothing,
       AcceptFails, PushRefused, Reject, BlockSignals, ForgetPipe,
       CloseEndpoints, StopActive, Join, Free, Restore
<1>2. ~ Push
  BY DEF Push, ThreadInv, Launched, Serving
<1>3. CASE StopQueue
  BY <1>3, <1>0 DEF StopQueue, Q!Stop
<1>4. ASSUME NEW v \in Workers,
             \/ PopNothing(v) \/ PopJob(v) \/ Spurious(v) \/ RegisterJob(v)
             \/ AllocateBuffers(v) \/ ReadEnds(v) \/ Respond(v) \/ CloseJob(v)
      PROVE  /\ count' = count
             /\ \/ caller' = caller
                \/ \E s \in {"waiting", "woken", "exited", "calling"} :
                     caller' = [caller EXCEPT ![v] = s]
  BY <1>4, <1>0 DEF PopNothing, PopJob, Spurious, RegisterJob,
       AllocateBuffers, ReadEnds, Respond, CloseJob, Q!PopWait, Q!PopStopped,
       Q!PopTake, Q!SpuriousWakeup, Q!WorkDone
<1>5. ASSUME (\E c \in Conns : Connect(c)) \/ SendSignal \/ HandleSignal
             \/ UNCHANGED vars
      PROVE  UNCHANGED <<caller, count>>
  BY <1>5 DEF Connect, SendSignal, HandleSignal, vars
<1> QED BY <1>0, <1>1, <1>2, <1>3, <1>4, <1>5 DEF Next, Terminated

\* Where the main thread goes, and what it knows of the workers then.
LEMMA CreatedStep ==
  ASSUME AcceptInv, ThreadInv, [Next]_vars
  PROVE  /\ created \subseteq created' /\ created' \subseteq Workers
         /\ pc' \in {"queue", "active", "workers"} => created' = {}
         /\ pc' \in Launched => created' = Workers
         /\ pc' \in Ended => \/ pc \in Ended \/ created = {}
                             \/ \A w \in created : caller[w] = "exited"
         /\ pc' \in Ended => created' = created
<1> USE DEF ThreadInv, Launched, Ended, Serving, mainVars
<1>1. CASE Allocate
  <2>1. CASE pc = "queue"
    BY <1>1, <2>1 DEF Allocate
  <2>2. CASE pc = "active"
    BY <1>1, <2>2 DEF Allocate
  <2>3. CASE pc = "workers"
    BY <1>1, <2>3 DEF Allocate
  <2> QED BY <1>1, <2>1, <2>2, <2>3 DEF Allocate
<1>2. CASE Spawn \/ Listen \/ PipeMade \/ PipeFails \/ Unmask
  BY <1>2 DEF Spawn, Listen, PipeMade, PipeFails, Unmask
<1>3. CASE \/ Loop \/ Poll \/ Drain \/ Check \/ AcceptLoop
           \/ (\E c \in Conns : Accept(c)) \/ AcceptNothing \/ AcceptFails
           \/ Push \/ PushRefused \/ Reject
  BY <1>3 DEF Loop, Poll, Drain, Check, AcceptLoop, Accept, AcceptNothing,
       AcceptFails, Push, PushRefused, Reject
<1>4. CASE \/ BlockSignals \/ ForgetPipe \/ CloseEndpoints \/ StopActive
           \/ StopQueue \/ Join \/ Free \/ Restore
  BY <1>4 DEF BlockSignals, ForgetPipe, CloseEndpoints, StopActive, StopQueue,
       Join, Free, Restore
<1>5. ASSUME \/ \E w \in Workers :
                  \/ PopNothing(w) \/ PopJob(w) \/ Spurious(w)
                  \/ RegisterJob(w) \/ AllocateBuffers(w) \/ ReadEnds(w)
                  \/ Respond(w) \/ CloseJob(w)
             \/ (\E c \in Conns : Connect(c)) \/ SendSignal \/ UNCHANGED vars
      PROVE  UNCHANGED <<pc, created>>
  BY <1>5 DEF PopNothing, PopJob, Spurious, RegisterJob, AllocateBuffers,
       ReadEnds, Respond, CloseJob, Connect, SendSignal, vars
<1>6. CASE HandleSignal
  BY <1>6 DEF HandleSignal
<1> QED BY <1>1, <1>2, <1>3, <1>4, <1>5, <1>6 DEF Next, MainStep, Terminated

\* pthread_create makes workers, pthread_join waits for all of them.
LEMMA ThreadStep ==
  ASSUME AcceptInv, ThreadInv, QP!IInv, [Next]_vars
  PROVE  ThreadInv'
<1>1. pc' \in Ended => \A w \in created' : caller'[w] = "exited"
  BY CreatedStep, CallerStep DEF ThreadInv
<1>2. \A w \in Workers \ created' : caller'[w] = "calling"
  BY CreatedStep, CallerStep DEF ThreadInv
<1>3. created' # Workers => created # Workers
  BY CreatedStep
<1> QED BY <1>1, <1>2, <1>3, CreatedStep, IdleStep DEF ThreadInv

\* Who exists, in every reachable state.
LEMMA ThreadAlways == SafeSpec => []ThreadInv
<1>1. AcceptInv /\ QP!IInv /\ ThreadInv /\ [Next]_vars => ThreadInv'
  BY ThreadStep
<1> QED BY <1>1, ThreadInit, AcceptAlways, QueueAlways, PTL DEF SafeSpec

-----------------------------------------------------------------------------
(* The resources: what main holds, and what is left of it at the end. *)

\* The listen socket is closed.
Draining == {"stop_active", "stop_queue", "join", "free", "restore", "exited"}

ResourceInv ==
  /\ held \subseteq {"queue", "active", "workers", "listener", "pipe"}
  /\ server_failed \in BOOLEAN /\ masked \in BOOLEAN
  /\ pc \notin {"queue", "active", "workers"} \cup Ended =>
       {"queue", "active"} \subseteq held
  /\ pc = "active" => "queue" \in held
  /\ pc = "workers" => {"queue", "active"} \subseteq held
  /\ pc \in {"restore", "exited"} => held \subseteq {"pipe"}
  /\ pc \in {"queue", "active", "workers", "spawn", "listen"} \cup Draining =>
       "listener" \notin held
  /\ pc \in Startup \ {"unmask"} => "pipe" \notin held
  /\ pc \in {"forget", "close"} /\ ~masked => server_failed
  /\ pc \in Draining /\ "pipe" \in held => server_failed
  /\ (\E c \in Conns : phase[c] = "backlog") => "listener" \in held

\* main starts with nothing.
LEMMA ResourceInit == Init => ResourceInv
BY DEF Init, ResourceInv, Draining, Ended, Startup

\* Startup takes the resources one by one, or gives them back and ends.
LEMMA ResourceStartup ==
  ASSUME AcceptInv, ResourceInv,
         Allocate \/ Spawn \/ Listen \/ PipeMade \/ PipeFails \/ Unmask
  PROVE  ResourceInv'
<1> USE DEF ResourceInv, Draining, Ended, Startup, Release, signalVars
<1>1. CASE Allocate
  <2>1. CASE pc = "queue"
    BY <1>1, <2>1 DEF Allocate
  <2>2. CASE pc = "active"
    BY <1>1, <2>2 DEF Allocate
  <2>3. CASE pc = "workers"
    BY <1>1, <2>3 DEF Allocate
  <2> QED BY <1>1, <2>1, <2>2, <2>3 DEF Allocate
<1>2. CASE Spawn
  BY <1>2 DEF Spawn
<1>3. CASE Listen
  BY <1>3 DEF Listen
<1>4. CASE PipeMade
  BY <1>4 DEF PipeMade
<1>5. ASSUME ResetBacklog PROVE \A c \in Conns : phase'[c] # "backlog"
  BY <1>5 DEF ResetBacklog, Backlog
<1>6. CASE PipeFails
  BY <1>5, <1>6 DEF PipeFails
<1>7. CASE Unmask
  BY <1>5, <1>7 DEF Unmask
<1> QED BY <1>1, <1>2, <1>3, <1>4, <1>6, <1>7

\* Serving takes and releases none.
LEMMA ResourceServing ==
  ASSUME AcceptInv, ResourceInv,
         \/ Loop \/ Poll \/ Drain \/ Check \/ AcceptLoop
         \/ (\E c \in Conns : Accept(c)) \/ AcceptNothing \/ AcceptFails
         \/ Push \/ PushRefused \/ Reject
  PROVE  ResourceInv'
<1>1. held' = held /\ masked' = masked /\ pc \in Serving
      /\ pc' \in Serving \cup {"block"}
  BY DEF Loop, Poll, Drain, Check, AcceptLoop, Accept, AcceptNothing,
         AcceptFails, Push, PushRefused, Reject, mainVars, signalVars, Serving
<1>2. server_failed' \in BOOLEAN
  BY DEF Loop, Poll, Drain, Check, AcceptLoop, Accept, AcceptNothing,
         AcceptFails, Push, PushRefused, Reject, mainVars, ResourceInv
<1>3. \A c \in Conns : phase'[c] = "backlog" => phase[c] = "backlog"
  BY DEF Loop, Poll, Drain, Check, AcceptLoop, Accept, AcceptNothing,
         AcceptFails, Push, PushRefused, Reject, AcceptInv
<1> QED BY <1>1, <1>2, <1>3 DEF ResourceInv, Draining, Ended, Startup, Serving

\* The end of main releases all but a pipe the handler may still use.
LEMMA ResourceCleanup ==
  ASSUME AcceptInv, ResourceInv,
         \/ BlockSignals \/ ForgetPipe \/ CloseEndpoints \/ StopActive
         \/ StopQueue \/ Join \/ Free \/ Restore
  PROVE  ResourceInv'
<1> USE DEF ResourceInv, Draining, Ended, Startup, Release, signalVars,
            mainVars
<1>1. CASE BlockSignals \/ ForgetPipe
  BY <1>1 DEF BlockSignals, ForgetPipe
<1>2. CASE CloseEndpoints
  <2>1. \A c \in Conns : phase'[c] # "backlog"
    BY <1>2 DEF CloseEndpoints, ResetBacklog, Backlog
  <2> QED BY <1>2, <2>1 DEF CloseEndpoints
<1>3. CASE StopActive \/ StopQueue \/ Join
  BY <1>3 DEF StopActive, StopQueue, Join
<1>4. CASE Free
  BY <1>4 DEF Free
<1>5. CASE Restore
  BY <1>5 DEF Restore
<1> QED BY <1>1, <1>2, <1>3, <1>4, <1>5

\* Workers, clients and signals own none of them.
LEMMA ResourceOthers ==
  ASSUME AcceptInv, ResourceInv,
         \/ \E w \in Workers :
              \/ PopNothing(w) \/ PopJob(w) \/ Spurious(w) \/ RegisterJob(w)
              \/ AllocateBuffers(w) \/ ReadEnds(w) \/ Respond(w)
              \/ CloseJob(w)
         \/ (\E c \in Conns : Connect(c)) \/ SendSignal \/ HandleSignal
         \/ UNCHANGED vars
  PROVE  ResourceInv'
<1> USE DEF mainVars, signalVars
<1>1. UNCHANGED <<held, masked, server_failed>>
  BY DEF PopNothing, PopJob, Spurious, RegisterJob, AllocateBuffers, ReadEnds,
         Respond, CloseJob, Connect, SendSignal, HandleSignal, vars
<1>2. pc' = pc \/ (pc = "poll" /\ pc' = "loop")
  BY DEF PopNothing, PopJob, Spurious, RegisterJob, AllocateBuffers, ReadEnds,
         Respond, CloseJob, Connect, SendSignal, HandleSignal, vars
<1>3. \/ \A c \in Conns : phase'[c] = "backlog" => phase[c] = "backlog"
      \/ "listener" \in held
  BY DEF PopNothing, PopJob, Spurious, RegisterJob, AllocateBuffers, ReadEnds,
         Respond, CloseJob, Connect, SendSignal, HandleSignal, vars, AcceptInv
<1> QED BY <1>1, <1>2, <1>3 DEF ResourceInv, Draining, Ended, Startup

\* All steps together.
LEMMA ResourceStep ==
  ASSUME AcceptInv, ResourceInv, [Next]_vars
  PROVE  ResourceInv'
BY ResourceStartup, ResourceServing, ResourceCleanup, ResourceOthers
   DEF Next, MainStep, Terminated

\* What main holds, in every reachable state.
LEMMA ResourceAlways == SafeSpec => []ResourceInv
<1>1. AcceptInv /\ ResourceInv /\ [Next]_vars => ResourceInv'
  BY ResourceStep
<1> QED BY <1>1, ResourceInit, AcceptAlways, PTL DEF SafeSpec

-----------------------------------------------------------------------------
(* The jobs: what each step does to the ring and to the workers' jobs. *)

\* Push puts the main thread's job behind the others and at most wakes a
\* worker.
LEMMA PushedJob ==
  ASSUME AcceptInv, QP!IInv, QP!IInv', Push
  PROVE  /\ client \in Job /\ client # NoClient /\ client' = NoClient
         /\ Q!Queued' = Append(Q!Queued, client) /\ count' = count + 1
         /\ \A i \in 1 .. count : Q!Queued'[i] = Q!Queued[i]
         /\ Q!Queued'[count + 1] = client
         /\ Busy' = Busy /\ out_job' = out_job
<1>1. client \in Job /\ client # NoClient /\ client' = NoClient
      /\ Q!TryPush(client)
  BY NoClientIsNoJob DEF Push, AcceptInv
<1>2. Q!Queued' = Append(Q!Queued, client)
  <2>1. QP!TypeOK' /\ QP!QueuedAreJobs' /\ QP!RingInv
    BY DEF QP!IInv, QP!RingInv
  <2>2. QP!TryPush(client)
    BY <1>1, SameQueue
  <2>3. QP!Queued' = Append(QP!Queued, client)
    BY <1>1, <2>1, <2>2, QP!PushAppends, QueueConstants
  <2>4. Q!Queued' = QP!Queued'
    BY DEF Q!Queued, QP!Queued, Q!Cell, QP!Cell
  <2> QED BY <2>3, <2>4, SameQueue
<1>3. Q!Queued \in Seq(Job) /\ Len(Q!Queued) = count
  BY QueueTypes
<1>4. /\ \A i \in 1 .. count : Q!Queued'[i] = Q!Queued[i]
      /\ Q!Queued'[count + 1] = client
  <2> DEFINE q == Q!Queued
  <2>1. q \in Seq(Job) /\ Len(q) = count
    BY <1>3
  <2>2. /\ \A i \in 1 .. Len(q) : Append(q, client)[i] = q[i]
        /\ Append(q, client)[Len(q) + 1] = client
    <3> HIDE DEF q
    <3> QED BY <1>1, <2>1, AppendProperties
  <2> QED BY <1>2, <2>1, <2>2
<1>5. count' = count + 1 /\ out_job' = out_job
  BY <1>1 DEF Q!TryPush
<1>6. Busy' = Busy
  BY <1>1, QueueTypes DEF Q!TryPush, Q!SignalOne, Q!Waiting, Busy
<1> QED BY <1>1, <1>2, <1>4, <1>5, <1>6

\* Pop hands the oldest job to the worker.
LEMMA PoppedJob ==
  ASSUME QP!IInv, QP!IInv', NEW w \in Workers, Q!PopTake(w)
  PROVE  /\ count > 0 /\ count' = count - 1
         /\ w \notin Busy /\ Busy' = Busy \cup {w}
         /\ out_job'[w] = Q!Queued[1]
         /\ \A v \in Workers \ {w} : out_job'[v] = out_job[v]
         /\ \A i \in 1 .. count - 1 : Q!Queued'[i] = Q!Queued[i + 1]
<1>1. Q!Queued # <<>> /\ Head(Q!Queued) = jobs[head]
      /\ Q!Queued' = Tail(Q!Queued)
  <2>1. QP!TypeOK' /\ QP!QueuedAreJobs' /\ QP!RingInv
    BY DEF QP!IInv, QP!RingInv
  <2>2. QP!PopTake(w)
    BY SameQueue
  <2>3. QP!Queued # <<>> /\ Head(QP!Queued) = jobs[head]
        /\ QP!Queued' = Tail(QP!Queued)
    BY <2>1, <2>2, QP!PopRemovesHead, QueueConstants
  <2>4. Q!Queued' = QP!Queued'
    BY DEF Q!Queued, QP!Queued, Q!Cell, QP!Cell
  <2> QED BY <2>3, <2>4, SameQueue
<1>2. Q!Queued \in Seq(Job) /\ Len(Q!Queued) = count
  BY QueueTypes
<1>3. /\ Head(Q!Queued) = Q!Queued[1]
      /\ \A i \in 1 .. count - 1 : Tail(Q!Queued)[i] = Q!Queued[i + 1]
  <2> DEFINE q == Q!Queued
  <2>1. q \in Seq(Job) /\ Len(q) = count /\ q # <<>>
    BY <1>1, <1>2
  <2>2. /\ Head(q) = q[1]
        /\ \A i \in 1 .. count - 1 : Tail(q)[i] = q[i + 1]
    <3> HIDE DEF q
    <3> QED BY <2>1, HeadTailProperties
  <2> QED BY <2>2
<1>4. count > 0 /\ count' = count - 1
      /\ out_job' = [out_job EXCEPT ![w] = jobs[head]]
      /\ caller' = [caller EXCEPT ![w] = "working"]
      /\ caller[w] \in {"calling", "woken"}
  BY DEF Q!PopTake, Q!InPop
<1>5. w \notin Busy /\ Busy' = Busy \cup {w}
  BY <1>4, QueueTypes DEF Busy
<1>6. out_job'[w] = Q!Queued[1]
      /\ \A v \in Workers \ {w} : out_job'[v] = out_job[v]
  BY <1>1, <1>3, <1>4, QueueTypes
<1> QED BY <1>1, <1>3, <1>4, <1>5, <1>6

\* The ring is what it was.
LEMMA SameRing ==
  ASSUME UNCHANGED <<jobs, head, count>>
  PROVE  Q!Queued' = Q!Queued
BY DEF Q!Queued, Q!Cell

\* A worker that is done with its job leaves the ring and the jobs alone.
LEMMA DoneJob ==
  ASSUME QP!IInv, NEW w \in Workers, Q!WorkDone(w)
  PROVE  /\ Q!Queued' = Q!Queued /\ count' = count /\ out_job' = out_job
         /\ w \in Busy /\ Busy' = Busy \ {w}
<1>1. UNCHANGED <<jobs, head, count, out_job>> /\ caller[w] = "working"
      /\ caller' = [caller EXCEPT ![w] = "calling"]
  BY DEF Q!WorkDone
<1> QED BY <1>1, SameRing, QueueTypes DEF Busy

\* Every other step leaves the jobs where they are.
LEMMA OtherMainJobs ==
  ASSUME QP!IInv, MainStep, ~ Push
  PROVE  /\ Q!Queued' = Q!Queued /\ count' = count /\ out_job' = out_job
         /\ Busy' = Busy
<1> USE DEF queueVars
<1>1. CASE StopQueue
  <2>1. UNCHANGED <<jobs, head, count, out_job>>
    BY <1>1 DEF StopQueue, Q!Stop
  <2>2. Busy' = Busy
    BY <1>1, QueueTypes DEF StopQueue, Q!Stop, Busy
  <2> QED BY <2>1, <2>2, SameRing
<1>2. CASE ~ StopQueue
  <2>1. UNCHANGED <<jobs, head, count, out_job, caller>>
    BY <1>2 DEF MainStep, Allocate, Spawn, Listen, PipeMade, PipeFails, Unmask,
         Loop, Poll, Drain, Check, AcceptLoop, Accept, AcceptNothing,
         AcceptFails, PushRefused, Reject, BlockSignals, ForgetPipe,
         CloseEndpoints, StopActive, Join, Free, Restore
  <2> QED BY <2>1, SameRing DEF Busy
<1> QED BY <1>1, <1>2

\* A worker moves a job only when it pops it and when it is done with it.
LEMMA OtherWorkerJobs ==
  ASSUME QP!IInv, NEW w \in Workers,
         \/ PopNothing(w) \/ Spurious(w) \/ AllocateBuffers(w) \/ ReadEnds(w)
         \/ Respond(w) \/ (RegisterJob(w) /\ A!FreeSlots # {})
  PROVE  /\ Q!Queued' = Q!Queued /\ count' = count /\ out_job' = out_job
         /\ Busy' = Busy
<1> USE DEF queueVars
<1>1. UNCHANGED <<jobs, head, count, out_job>>
  BY DEF PopNothing, Spurious, AllocateBuffers, ReadEnds, Respond, RegisterJob,
         Q!PopWait, Q!PopStopped, Q!SpuriousWakeup
<1>2. \/ caller' = caller
      \/ /\ caller[w] # "working"
         /\ \E s \in {"waiting", "exited", "woken"} :
              caller' = [caller EXCEPT ![w] = s]
  BY DEF PopNothing, Spurious, AllocateBuffers, ReadEnds, Respond, RegisterJob,
         Q!PopWait, Q!PopStopped, Q!SpuriousWakeup, Q!InPop
<1>3. Busy' = Busy
  BY <1>2, QueueTypes DEF Busy
<1> QED BY <1>1, <1>3, SameRing

\* Clients and signals move none.
LEMMA OtherJobs ==
  ASSUME QP!IInv,
         \/ (\E c \in Conns : Connect(c)) \/ SendSignal \/ HandleSignal
         \/ UNCHANGED vars
  PROVE  /\ Q!Queued' = Q!Queued /\ count' = count /\ out_job' = out_job
         /\ Busy' = Busy
<1>1. UNCHANGED <<jobs, head, count, out_job, caller>>
  BY DEF Connect, SendSignal, HandleSignal, vars, queueVars
<1> QED BY <1>1, SameRing DEF Busy

-----------------------------------------------------------------------------
(* The connections: a connection has one owner at a time. *)

StageInv ==
  /\ stage \in [Workers -> Stages]
  /\ \A w \in Workers : w \in Busy <=> stage[w] # "idle"

\* Every connection in the ring, with a worker or in main's hands is a
\* different one, its client has no answer before the worker closes it, and
\* an open connection is in one of these places.
ConnectionInv ==
  /\ \A i \in 1 .. count : phase[Q!Queued[i].conn] = "open"
  /\ \A w \in Busy : IF stage[w] = "closing"
                     THEN phase[out_job[w].conn] \in {"answered", "failed"}
                     ELSE phase[out_job[w].conn] = "open"
  /\ client # NoClient => phase[client.conn] = "open"
  /\ \A i, k \in 1 .. count : Q!Queued[i].conn = Q!Queued[k].conn => i = k
  /\ \A v, w \in Busy : out_job[v].conn = out_job[w].conn => v = w
  /\ \A i \in 1 .. count, w \in Busy : Q!Queued[i].conn # out_job[w].conn
  /\ \A i \in 1 .. count : Q!Queued[i].conn # client.conn
  /\ \A w \in Busy : out_job[w].conn # client.conn
  /\ \A c \in Conns : phase[c] = "open" =>
       \/ \E i \in 1 .. count : Q!Queued[i].conn = c
       \/ \E w \in Busy : out_job[w].conn = c /\ stage[w] # "closing"
       \/ client.conn = c

JobInv == StageInv /\ ConnectionInv

\* Nobody has a connection at first.
LEMMA JobInit == Init => JobInv
<1> SUFFICES ASSUME Init PROVE JobInv
  OBVIOUS
<1>1. /\ \A w \in Workers : caller[w] = "calling" /\ stage[w] = "idle"
      /\ stage \in [Workers -> Stages] /\ count = 0 /\ client = NoClient
      /\ \A c \in Conns : phase[c] = "away"
  BY DEF Init, Q!Init, Stages
<1>2. Busy = {}
  BY <1>1 DEF Busy
<1> QED BY <1>1, <1>2 DEF JobInv, StageInv, ConnectionInv

\* Steps that leave all jobs and stages alone, and the phases of the
\* connections somebody holds.
LEMMA JobQuiet ==
  ASSUME JobInv, AcceptInv, QP!IInv, Q!Queued' = Q!Queued, Busy' = Busy,
         UNCHANGED <<count, out_job, client, stage>>,
         \A c \in Conns :
           /\ phase[c] \in {"open", "answered", "failed"} =>
                phase'[c] = phase[c]
           /\ phase'[c] = "open" => phase[c] = "open"
  PROVE  JobInv'
<1> DEFINE q == Q!Queued
<1>1. /\ \A i \in 1 .. count : q[i] \in Job
      /\ \A w \in Busy : out_job[w] \in Job
      /\ client # NoClient => client \in Job
  BY QueueTypes DEF AcceptInv, Busy
<1>2. \A j \in Job : phase[j.conn] \in {"open", "answered", "failed"} =>
                       phase'[j.conn] = phase[j.conn]
  BY DEF Job
<1> HIDE DEF q
<1>3. /\ \A i \in 1 .. count : phase'[q[i].conn] = "open"
      /\ \A w \in Busy : IF stage[w] = "closing"
                         THEN phase'[out_job[w].conn] \in {"answered", "failed"}
                         ELSE phase'[out_job[w].conn] = "open"
      /\ client # NoClient => phase'[client.conn] = "open"
  BY <1>1, <1>2 DEF JobInv, ConnectionInv, q
<1> QED BY <1>3 DEF JobInv, StageInv, ConnectionInv, q

\* main's steps that touch no job.
LEMMA JobMain ==
  ASSUME JobInv, AcceptInv, QP!IInv, MainStep,
         ~ (\E c \in Conns : Accept(c)), ~ Push, ~ Reject
  PROVE  JobInv'
<1>1. Q!Queued' = Q!Queued /\ Busy' = Busy /\ UNCHANGED <<count, out_job>>
  BY OtherMainJobs
<1>2. UNCHANGED <<client, stage>> /\ (phase' = phase \/ ResetBacklog)
  BY DEF MainStep, Allocate, Spawn, Listen, PipeMade, PipeFails, Unmask,
         Loop, Poll, Drain, Check, AcceptLoop, AcceptNothing,
         AcceptFails, PushRefused, BlockSignals, ForgetPipe,
         CloseEndpoints, StopActive, StopQueue, Join, Free, Restore, mainVars,
         workerVars
<1>3. \A c \in Conns :
        /\ phase[c] \in {"open", "answered", "failed"} => phase'[c] = phase[c]
        /\ phase'[c] = "open" => phase[c] = "open"
  BY <1>2 DEF ResetBacklog, Backlog
<1> QED BY <1>1, <1>2, <1>3, JobQuiet

\* An accepted connection is nobody else's: it was in the backlog.
LEMMA JobAccept ==
  ASSUME JobInv, AcceptInv, QP!IInv, NEW c \in Conns, Accept(c)
  PROVE  JobInv'
<1>1. Q!Queued' = Q!Queued /\ Busy' = Busy /\ UNCHANGED <<count, out_job>>
  BY OtherMainJobs DEF MainStep, Accept, Push
<1>2. /\ client' = [fd |-> LowestFreeFd, conn |-> c] /\ stage' = stage
      /\ phase[c] = "backlog" /\ phase' = [phase EXCEPT ![c] = "open"]
      /\ client = NoClient
  BY DEF Accept, Backlog, workerVars, AcceptInv
<1>3. /\ \A i \in 1 .. count : Q!Queued[i] \in Job
      /\ \A w \in Busy : out_job[w] \in Job
  BY QueueTypes DEF Busy
<1>4. /\ \A i \in 1 .. count :
           Q!Queued[i].conn # c
           /\ phase'[Q!Queued[i].conn] = phase[Q!Queued[i].conn]
      /\ \A w \in Busy :
           out_job[w].conn # c
           /\ phase'[out_job[w].conn] = phase[out_job[w].conn]
  BY <1>2, <1>3 DEF JobInv, ConnectionInv, AcceptInv, Job
<1>5. client'.conn = c /\ phase'[c] = "open"
      /\ \A d \in Conns \ {c} : phase'[d] = phase[d]
  BY <1>2 DEF AcceptInv
<1>6. client.conn \notin Conns
  BY <1>2, ServerAssumption DEF NoClient
<1> QED BY <1>1, <1>2, <1>4, <1>5, <1>6 DEF JobInv, StageInv, ConnectionInv

\* From main's hands to the end of the ring.
LEMMA JobPush ==
  ASSUME JobInv, AcceptInv, QP!IInv, QP!IInv', Push
  PROVE  JobInv'
<1> DEFINE q == Q!Queued
<1>1. /\ client \in Job /\ client # NoClient /\ client' = NoClient
      /\ count' = count + 1 /\ count \in Nat
      /\ \A i \in 1 .. count : q'[i] = q[i]
      /\ q'[count + 1] = client
      /\ Busy' = Busy /\ out_job' = out_job
  BY PushedJob, QueueTypes
<1>2. UNCHANGED <<phase, stage>>
  BY DEF Push, workerVars
<1>3. client.conn \in Conns /\ client'.conn = None /\ None \notin Conns
  BY <1>1, ServerAssumption DEF Job, NoClient
<1>4. /\ \A i \in 1 .. count : q[i] \in Job
      /\ \A w \in Busy : out_job[w] \in Job
  BY QueueTypes DEF Busy
<1>5. /\ \A i \in 1 .. count : q[i].conn \in Conns
      /\ \A w \in Busy : out_job[w].conn \in Conns
  BY <1>4 DEF Job
<1> HIDE DEF q
<1>6. \A i \in 1 .. count' : i \in 1 .. count \/ i = count + 1
  BY <1>1
<1>7. StageInv'
  BY <1>1, <1>2 DEF JobInv, StageInv
<1>8. /\ \A i \in 1 .. count' : phase'[q'[i].conn] = "open"
      /\ \A w \in Busy' : IF stage'[w] = "closing"
                     THEN phase'[out_job'[w].conn] \in {"answered", "failed"}
                     ELSE phase'[out_job'[w].conn] = "open"
  BY <1>1, <1>2, <1>6 DEF JobInv, ConnectionInv, q
<1>9. /\ \A i, k \in 1 .. count' : q'[i].conn = q'[k].conn => i = k
      /\ \A v, w \in Busy' : out_job'[v].conn = out_job'[w].conn => v = w
      /\ \A i \in 1 .. count', w \in Busy' : q'[i].conn # out_job'[w].conn
  BY <1>1, <1>2, <1>6 DEF JobInv, ConnectionInv, q
<1>10. /\ \A i \in 1 .. count' : q'[i].conn # client'.conn
       /\ \A w \in Busy' : out_job'[w].conn # client'.conn
  BY <1>1, <1>3, <1>5, <1>6
<1>11. ASSUME NEW c \in Conns, phase'[c] = "open"
       PROVE \/ \E i \in 1 .. count' : q'[i].conn = c
             \/ \E w \in Busy' : out_job'[w].conn = c /\ stage'[w] # "closing"
  <2>1. \A i \in 1 .. count : i \in 1 .. count'
    BY <1>1
  <2>2. count + 1 \in 1 .. count'
    BY <1>1
  <2> QED BY <1>1, <1>2, <1>11, <2>1, <2>2 DEF JobInv, ConnectionInv, q
<1> QED BY <1>1, <1>7, <1>8, <1>9, <1>10, <1>11 DEF JobInv, ConnectionInv, q

\* Turned away, the connection has no place any more.
LEMMA JobReject ==
  ASSUME JobInv, AcceptInv, QP!IInv, Reject
  PROVE  JobInv'
<1>1. Q!Queued' = Q!Queued /\ Busy' = Busy /\ UNCHANGED <<count, out_job>>
  BY OtherMainJobs DEF MainStep, Reject, Push
<1>2. /\ client \in Job /\ client # NoClient /\ client' = NoClient
      /\ stage' = stage
      /\ phase' = [phase EXCEPT ![client.conn] = "turned_away"]
  BY DEF Reject, AcceptInv, workerVars
<1>3. client.conn \in Conns /\ client'.conn = None /\ None \notin Conns
  BY <1>2, ServerAssumption DEF Job, NoClient
<1>4. /\ \A i \in 1 .. count : Q!Queued[i] \in Job
      /\ \A w \in Busy : out_job[w] \in Job
  BY QueueTypes DEF Busy
<1>5. /\ \A i \in 1 .. count :
           Q!Queued[i].conn \in Conns
           /\ phase'[Q!Queued[i].conn] = phase[Q!Queued[i].conn]
      /\ \A w \in Busy :
           out_job[w].conn \in Conns
           /\ phase'[out_job[w].conn] = phase[out_job[w].conn]
  BY <1>2, <1>4 DEF JobInv, ConnectionInv, AcceptInv, Job
<1>6. \A c \in Conns : phase'[c] = "open" => phase[c] = "open"
                                             /\ c # client.conn
  BY <1>2 DEF AcceptInv
<1> QED BY <1>1, <1>2, <1>3, <1>5, <1>6 DEF JobInv, StageInv, ConnectionInv

\* From the head of the ring to a worker.
LEMMA JobPop ==
  ASSUME JobInv, AcceptInv, QP!IInv, QP!IInv', NEW w \in Workers, PopJob(w)
  PROVE  JobInv'
<1> DEFINE q == Q!Queued
<1>1. /\ count \in Nat /\ count > 0 /\ count' = count - 1
      /\ w \notin Busy /\ Busy' = Busy \cup {w}
      /\ out_job'[w] = q[1]
      /\ \A v \in Workers \ {w} : out_job'[v] = out_job[v]
      /\ \A i \in 1 .. count - 1 : q'[i] = q[i + 1]
  BY PoppedJob, QueueTypes DEF PopJob
<1>2. /\ UNCHANGED <<phase, client>>
      /\ stage' = [stage EXCEPT ![w] = "popped"]
  BY DEF PopJob, Moves, mainVars
<1>3. /\ \A i \in 1 .. count' : i + 1 \in 1 .. count /\ i + 1 # 1
      /\ 1 \in 1 .. count
      /\ \A i \in 1 .. count : i # 1 => i - 1 \in 1 .. count'
                                        /\ (i - 1) + 1 = i
      /\ count' = count - 1
  BY <1>1
<1>4. StageInv'
  BY <1>1, <1>2 DEF JobInv, StageInv, Stages
<1>5. \A v \in Busy : v # w /\ out_job'[v] = out_job[v]
                      /\ stage'[v] = stage[v]
  BY <1>1, <1>2 DEF JobInv, StageInv, Busy
<1>6. stage'[w] = "popped" /\ w \in Busy'
  BY <1>1, <1>2 DEF JobInv, StageInv
<1> HIDE DEF q
<1>7. /\ \A i \in 1 .. count' : q'[i] = q[i + 1]
      /\ \A i \in 1 .. count : i # 1 => q'[i - 1] = q[i]
  BY <1>1, <1>3
<1>8. /\ \A i \in 1 .. count' : phase'[q'[i].conn] = "open"
      /\ \A v \in Busy' : IF stage'[v] = "closing"
                     THEN phase'[out_job'[v].conn] \in {"answered", "failed"}
                     ELSE phase'[out_job'[v].conn] = "open"
  BY <1>1, <1>2, <1>3, <1>5, <1>6, <1>7 DEF JobInv, ConnectionInv, q
<1>9. \A i, k \in 1 .. count' : q'[i].conn = q'[k].conn => i = k
  <2> SUFFICES ASSUME NEW i \in 1 .. count', NEW k \in 1 .. count',
                      q'[i].conn = q'[k].conn
               PROVE  i = k
    OBVIOUS
  <2>1. q[i + 1].conn = q[k + 1].conn
    BY <1>7
  <2>2. i + 1 = k + 1
    BY <1>3, <2>1 DEF JobInv, ConnectionInv, q
  <2> QED BY <2>2
<1>10. \A v, u \in Busy' : out_job'[v].conn = out_job'[u].conn => v = u
  BY <1>1, <1>3, <1>5 DEF JobInv, ConnectionInv, q
<1>11. \A i \in 1 .. count', v \in Busy' : q'[i].conn # out_job'[v].conn
  BY <1>1, <1>3, <1>5, <1>7 DEF JobInv, ConnectionInv, q
<1>12. /\ \A i \in 1 .. count' : q'[i].conn # client'.conn
       /\ \A v \in Busy' : out_job'[v].conn # client'.conn
  BY <1>1, <1>2, <1>3, <1>5, <1>7 DEF JobInv, ConnectionInv, q
<1>13. ASSUME NEW c \in Conns, phase'[c] = "open"
       PROVE \/ \E i \in 1 .. count' : q'[i].conn = c
             \/ \E v \in Busy' : out_job'[v].conn = c /\ stage'[v] # "closing"
             \/ client'.conn = c
  <2>1. CASE \E i \in 1 .. count : q[i].conn = c
    <3>1. PICK i \in 1 .. count : q[i].conn = c
      BY <2>1
    <3>2. CASE i = 1
      BY <1>1, <1>6, <3>1, <3>2
    <3>3. CASE i # 1
      BY <1>3, <1>7, <3>1, <3>3
    <3> QED BY <3>2, <3>3
  <2>2. CASE \E v \in Busy : out_job[v].conn = c /\ stage[v] # "closing"
    BY <1>1, <1>5, <2>2
  <2> QED BY <1>2, <1>13, <2>1, <2>2 DEF JobInv, ConnectionInv, q
<1> QED BY <1>2, <1>4, <1>8, <1>9, <1>10, <1>11, <1>12, <1>13
        DEF JobInv, ConnectionInv, q

\* A worker goes on to the next stage before its client has an answer.
LEMMA JobAdvance ==
  ASSUME JobInv, NEW w \in Busy, Q!Queued' = Q!Queued, Busy' = Busy,
         UNCHANGED <<count, out_job, client, phase>>,
         stage[w] # "closing",
         NEW s \in Stages \ {"idle", "closing"}, Moves(w, s)
  PROVE  JobInv'
<1>1. stage' = [stage EXCEPT ![w] = s] /\ w \in Workers
  BY DEF Moves, Busy
<1>2. /\ stage' \in [Workers -> Stages]
      /\ \A v \in Workers : stage'[v] = IF v = w THEN s ELSE stage[v]
  BY <1>1 DEF JobInv, StageInv
<1>3. StageInv'
  BY <1>2 DEF JobInv, StageInv
<1>4. \A v \in Busy : stage'[v] = "closing" <=> stage[v] = "closing"
  BY <1>2 DEF Busy
<1> QED BY <1>3, <1>4 DEF JobInv, ConnectionInv

\* A worker has answered its client or given up.
LEMMA JobDecided ==
  ASSUME JobInv, AcceptInv, QP!IInv, NEW w \in Busy, Q!Queued' = Q!Queued,
         Busy' = Busy, UNCHANGED <<count, out_job, client>>,
         NEW r \in {"answered", "failed"},
         phase' = [phase EXCEPT ![out_job[w].conn] = r], Moves(w, "closing")
  PROVE  JobInv'
<1>1. stage' = [stage EXCEPT ![w] = "closing"] /\ w \in Workers
  BY DEF Moves, Busy
<1>2. /\ stage' \in [Workers -> Stages]
      /\ \A v \in Workers : stage'[v] = IF v = w THEN "closing" ELSE stage[v]
  BY <1>1 DEF JobInv, StageInv, Stages
<1>3. StageInv'
  BY <1>2 DEF JobInv, StageInv
<1>4. /\ \A i \in 1 .. count : Q!Queued[i] \in Job
      /\ \A v \in Busy : out_job[v] \in Job
      /\ client # NoClient => client \in Job
  BY QueueTypes DEF Busy, AcceptInv
<1>5. out_job[w].conn \in Conns /\ phase'[out_job[w].conn] = r
      /\ \A c \in Conns \ {out_job[w].conn} : phase'[c] = phase[c]
  BY <1>4 DEF Job, AcceptInv
<1>6. /\ \A i \in 1 .. count :
           phase'[Q!Queued[i].conn] = phase[Q!Queued[i].conn]
      /\ \A v \in Busy \ {w} :
           /\ phase'[out_job[v].conn] = phase[out_job[v].conn]
           /\ stage'[v] = stage[v]
      /\ client # NoClient => phase'[client.conn] = phase[client.conn]
  BY <1>2, <1>4, <1>5 DEF JobInv, ConnectionInv, Job, Busy
<1>7. \A c \in Conns : phase'[c] = "open" =>
        phase[c] = "open" /\ c # out_job[w].conn
  BY <1>5
<1>8. stage'[w] = "closing"
  BY <1>2, <1>1
<1> QED BY <1>3, <1>5, <1>6, <1>7, <1>8 DEF JobInv, ConnectionInv

\* A worker is done with its connection.
LEMMA JobDone ==
  ASSUME JobInv, AcceptInv, QP!IInv, NEW w \in Busy, Q!Queued' = Q!Queued,
         Busy' = Busy \ {w}, UNCHANGED <<count, out_job, client>>,
         \/ stage[w] = "closing" /\ phase' = phase
         \/ phase' = [phase EXCEPT ![out_job[w].conn] = "failed"],
         Moves(w, "idle")
  PROVE  JobInv'
<1>1. stage' = [stage EXCEPT ![w] = "idle"] /\ w \in Workers
  BY DEF Moves, Busy
<1>2. /\ stage' \in [Workers -> Stages]
      /\ \A v \in Workers : stage'[v] = IF v = w THEN "idle" ELSE stage[v]
  BY <1>1 DEF JobInv, StageInv, Stages
<1>3. StageInv'
  BY <1>2 DEF JobInv, StageInv
<1>4. /\ \A i \in 1 .. count : Q!Queued[i] \in Job
      /\ \A v \in Busy : out_job[v] \in Job
      /\ client # NoClient => client \in Job
  BY QueueTypes DEF Busy, AcceptInv
<1>5. out_job[w].conn \in Conns
      /\ \A c \in Conns \ {out_job[w].conn} : phase'[c] = phase[c]
  BY <1>4 DEF Job, AcceptInv
<1>6. /\ \A i \in 1 .. count :
           phase'[Q!Queued[i].conn] = phase[Q!Queued[i].conn]
      /\ \A v \in Busy \ {w} :
           /\ phase'[out_job[v].conn] = phase[out_job[v].conn]
           /\ stage'[v] = stage[v]
      /\ client # NoClient => phase'[client.conn] = phase[client.conn]
  BY <1>2, <1>4, <1>5 DEF JobInv, ConnectionInv, Job, Busy
<1>7. \A c \in Conns : phase'[c] = "open" =>
        phase[c] = "open" /\ c # out_job[w].conn
  <2>1. phase'[out_job[w].conn] # "open"
    BY <1>5 DEF AcceptInv, JobInv, ConnectionInv
  <2> QED BY <1>5, <2>1
<1> QED BY <1>3, <1>6, <1>7 DEF JobInv, ConnectionInv

\* A worker's steps.
LEMMA JobWorker ==
  ASSUME JobInv, AcceptInv, QP!IInv, QP!IInv', NEW w \in Workers,
         \/ PopNothing(w) \/ PopJob(w) \/ Spurious(w) \/ RegisterJob(w)
         \/ AllocateBuffers(w) \/ ReadEnds(w) \/ Respond(w) \/ CloseJob(w)
  PROVE  JobInv'
<1> USE DEF mainVars, At, Busy
<1>1. CASE PopNothing(w) \/ Spurious(w)
  <2>1. Q!Queued' = Q!Queued /\ Busy' = Busy /\ UNCHANGED <<count, out_job>>
    BY <1>1, OtherWorkerJobs
  <2>2. UNCHANGED <<client, stage, phase>>
    BY <1>1 DEF PopNothing, Spurious, workerVars
  <2> QED BY <2>1, <2>2, JobQuiet
<1>2. CASE PopJob(w)
  BY <1>2, JobPop
<1>3. CASE RegisterJob(w) /\ A!FreeSlots # {}
  <2>1. Q!Queued' = Q!Queued /\ Busy' = Busy /\ UNCHANGED <<count, out_job>>
    BY <1>3, OtherWorkerJobs
  <2>2. UNCHANGED <<client, phase>> /\ w \in Busy /\ stage[w] = "popped"
        /\ Moves(w, "registered")
    BY <1>3 DEF RegisterJob
  <2>3. "registered" \in Stages \ {"idle", "closing"} /\ "popped" # "closing"
    BY DEF Stages
  <2> QED BY <2>1, <2>2, <2>3, JobAdvance
<1>4. CASE RegisterJob(w) /\ A!FreeSlots = {}
  <2>1. Q!WorkDone(w) /\ Moves(w, "idle") /\ client' = client
        /\ phase' = [phase EXCEPT ![out_job[w].conn] = "failed"]
    BY <1>4 DEF RegisterJob
  <2> QED BY <2>1, DoneJob, JobDone
<1>5. CASE ReadEnds(w)
  <2>1. Q!Queued' = Q!Queued /\ Busy' = Busy /\ UNCHANGED <<count, out_job>>
    BY <1>5, OtherWorkerJobs
  <2>2. UNCHANGED <<client, phase>> /\ w \in Busy /\ stage[w] = "reading"
        /\ Moves(w, "responding")
    BY <1>5 DEF ReadEnds
  <2>3. "responding" \in Stages \ {"idle", "closing"}
    BY DEF Stages
  <2> QED BY <2>1, <2>2, <2>3, JobAdvance
<1>6. CASE AllocateBuffers(w)
  <2>1. Q!Queued' = Q!Queued /\ Busy' = Busy /\ UNCHANGED <<count, out_job>>
    BY <1>6, OtherWorkerJobs
  <2>2. client' = client /\ w \in Busy /\ stage[w] = "registered"
    BY <1>6 DEF AllocateBuffers
  <2>3. CASE Moves(w, "reading") /\ UNCHANGED phase
    <3>1. "reading" \in Stages \ {"idle", "closing"}
      BY DEF Stages
    <3> QED BY <2>1, <2>2, <2>3, <3>1, JobAdvance
  <2>4. CASE /\ phase' = [phase EXCEPT ![out_job[w].conn] = "failed"]
             /\ Moves(w, "closing")
    BY <2>1, <2>2, <2>4, JobDecided
  <2> QED BY <1>6, <2>3, <2>4 DEF AllocateBuffers
<1>7. CASE Respond(w)
  <2>1. Q!Queued' = Q!Queued /\ Busy' = Busy /\ UNCHANGED <<count, out_job>>
    BY <1>7, OtherWorkerJobs
  <2>2. client' = client /\ w \in Busy /\ Moves(w, "closing")
    BY <1>7 DEF Respond
  <2>3. PICK r \in {"answered", "failed"} :
          phase' = [phase EXCEPT ![out_job[w].conn] = r]
    BY <1>7 DEF Respond
  <2> QED BY <2>1, <2>2, <2>3, JobDecided
<1>8. CASE CloseJob(w)
  <2>1. Q!WorkDone(w) /\ Moves(w, "idle") /\ UNCHANGED <<client, phase>>
        /\ stage[w] = "closing"
    BY <1>8 DEF CloseJob
  <2> QED BY <2>1, DoneJob, JobDone
<1> QED BY <1>1, <1>2, <1>3, <1>4, <1>5, <1>6, <1>7, <1>8

\* Clients and signals.
LEMMA JobEnvironment ==
  ASSUME JobInv, AcceptInv, QP!IInv,
         \/ (\E c \in Conns : Connect(c)) \/ SendSignal \/ HandleSignal
         \/ UNCHANGED vars
  PROVE  JobInv'
<1>1. Q!Queued' = Q!Queued /\ Busy' = Busy /\ UNCHANGED <<count, out_job>>
  BY OtherJobs
<1>2. UNCHANGED <<client, stage>>
  BY DEF Connect, SendSignal, HandleSignal, vars, mainVars, workerVars
<1>3. \A c \in Conns :
        /\ phase[c] \in {"open", "answered", "failed"} => phase'[c] = phase[c]
        /\ phase'[c] = "open" => phase[c] = "open"
  BY DEF Connect, SendSignal, HandleSignal, vars, AcceptInv
<1> QED BY <1>1, <1>2, <1>3, JobQuiet

\* All steps together.
LEMMA JobStep ==
  ASSUME JobInv, AcceptInv, QP!IInv, QP!IInv', [Next]_vars
  PROVE  JobInv'
BY JobMain, JobAccept, JobPush, JobReject, JobWorker, JobEnvironment
   DEF Next, Terminated

\* A connection has one place, in every reachable state.
LEMMA JobAlways == SafeSpec => []JobInv
<1>1. AcceptInv /\ QP!IInv /\ QP!IInv' /\ JobInv /\ [Next]_vars => JobInv'
  BY JobStep
<1> QED BY <1>1, JobInit, AcceptAlways, QueueAlways, PTL DEF SafeSpec

-----------------------------------------------------------------------------
(* The descriptors: a number is open exactly as long as somebody has it, and *)
(* the registry knows the numbers that are being served.                     *)

\* Every number somebody has refers to the connection it was accepted for,
\* and no other number is open.
NumberInv ==
  /\ owner \in [Fds -> Conns \cup {None}]
  /\ \A i \in 1 .. count : owner[Q!Queued[i].fd] = Q!Queued[i].conn
  /\ \A w \in Busy : owner[out_job[w].fd] = out_job[w].conn
  /\ client # NoClient => owner[client.fd] = client.conn
  /\ \A f \in Fds : owner[f] # None =>
       \/ \E i \in 1 .. count : Q!Queued[i].fd = f
       \/ \E w \in Busy : out_job[w].fd = f
       \/ client.fd = f

\* The workers between their registration and their close.
Registered == {w \in Busy : stage[w] # "popped"}

RegistryInv ==
  /\ fds \in [Slots -> Fds \cup {-1}]
  /\ slot \in [Workers -> Slots]
  /\ \A w \in Registered : fds[slot[w]] = out_job[w].fd
  /\ \A s \in Slots : fds[s] # -1 => \E w \in Registered : slot[w] = s

\* After BsActiveConnectionsStop every registered worker's connection has
\* its read half shut down.
ShutInv ==
  /\ stopping \in BOOLEAN /\ readShut \subseteq Conns
  /\ stopping => \A w \in Registered : out_job[w].conn \in readShut

OwnerInv == NumberInv /\ RegistryInv /\ ShutInv

\* As connections are distinct, so are the numbers that refer to them.
LEMMA DistinctNumbers ==
  ASSUME JobInv, NumberInv, AcceptInv, QP!IInv
  PROVE  /\ \A i, k \in 1 .. count : Q!Queued[i].fd = Q!Queued[k].fd => i = k
         /\ \A v, w \in Busy : out_job[v].fd = out_job[w].fd => v = w
         /\ \A i \in 1 .. count, w \in Busy : Q!Queued[i].fd # out_job[w].fd
         /\ client # NoClient =>
              /\ \A i \in 1 .. count : Q!Queued[i].fd # client.fd
              /\ \A w \in Busy : out_job[w].fd # client.fd
BY DEF JobInv, ConnectionInv, NumberInv

\* There is a slot for every worker, and the first free one is a slot.
LEMMA SlotNumbers ==
  /\ Slots \subseteq Nat /\ 0 \in Slots /\ -1 \notin Fds
  /\ A!FreeSlots # {} => A!FirstFreeSlot \in Slots
                         /\ fds[A!FirstFreeSlot] < 0
<1>1. Cardinality(Workers) \in Nat /\ Cardinality(Workers) # 0
  BY ServerAssumption, FS_CardinalityType, FS_EmptySet
<1>2. Slots \subseteq Nat /\ 0 \in Slots
  BY <1>1 DEF Slots
<1>3. ASSUME A!FreeSlots # {}
      PROVE  A!FirstFreeSlot \in Slots /\ fds[A!FirstFreeSlot] < 0
  <2>1. A!FreeSlots \in SUBSET Nat
    BY <1>2 DEF A!FreeSlots
  <2>2. \E s \in A!FreeSlots : \A t \in A!FreeSlots : s <= t
    BY <1>3, <2>1, LeastNumber
  <2>3. A!FirstFreeSlot \in A!FreeSlots
    BY <2>2 DEF A!FirstFreeSlot
  <2> QED BY <2>3 DEF A!FreeSlots
<1>4. -1 \notin Fds
  BY ServerAssumption
<1> QED BY <1>2, <1>3, <1>4

\* No number is open at first, and every slot is free.
LEMMA OwnerInit == Init => OwnerInv
<1> SUFFICES ASSUME Init PROVE OwnerInv
  OBVIOUS
<1>1. Busy = {} /\ count = 0 /\ client = NoClient
  BY DEF Init, Q!Init, Busy
<1>2. /\ owner = [f \in Fds |-> None] /\ fds = [s \in Slots |-> -1]
      /\ slot = [w \in Workers |-> 0] /\ stopping = FALSE /\ readShut = {}
  BY DEF Init, A!Init
<1>3. NumberInv
  BY <1>1, <1>2 DEF NumberInv
<1>4. Registered = {}
  BY <1>1 DEF Registered
<1>5. RegistryInv
  <2>1. fds \in [Slots -> Fds \cup {-1}] /\ slot \in [Workers -> Slots]
    BY <1>2, SlotNumbers
  <2>2. \A s \in Slots : fds[s] = -1
    BY <1>2
  <2> QED BY <1>4, <2>1, <2>2 DEF RegistryInv
<1>6. ShutInv
  BY <1>2 DEF ShutInv
<1> QED BY <1>3, <1>5, <1>6 DEF OwnerInv

\* Steps that touch neither the jobs nor the descriptors nor the registry.
LEMMA OwnerQuiet ==
  ASSUME OwnerInv, Q!Queued' = Q!Queued, Busy' = Busy,
         Registered' = Registered,
         UNCHANGED <<count, out_job, client, slot, activeVars>>
  PROVE  OwnerInv'
BY DEF OwnerInv, NumberInv, RegistryInv, ShutInv, activeVars

\* main's steps that open and close no number: the stop of the registry is
\* one of them.
LEMMA OwnerMain ==
  ASSUME OwnerInv, AcceptInv, QP!IInv, MainStep,
         ~ (\E c \in Conns : Accept(c)), ~ Push, ~ Reject, ~ StopActive
  PROVE  OwnerInv'
<1>1. Q!Queued' = Q!Queued /\ Busy' = Busy /\ UNCHANGED <<count, out_job>>
  BY OtherMainJobs
<1>2. UNCHANGED <<client, workerVars, activeVars>>
  BY DEF MainStep, Allocate, Spawn, Listen, PipeMade, PipeFails, Unmask,
         Loop, Poll, Drain, Check, AcceptLoop, AcceptNothing,
         AcceptFails, PushRefused, BlockSignals, ForgetPipe,
         CloseEndpoints, StopQueue, Join, Free, Restore, mainVars
<1>3. Registered' = Registered
  BY <1>1, <1>2 DEF Registered, workerVars
<1> QED BY <1>1, <1>2, <1>3, OwnerQuiet DEF workerVars

\* BsActiveConnectionsStop shuts down what is registered, and it is all in use.
LEMMA OwnerStop ==
  ASSUME OwnerInv, AcceptInv, JobInv, QP!IInv, StopActive
  PROVE  OwnerInv'
<1>1. Q!Queued' = Q!Queued /\ Busy' = Busy /\ UNCHANGED <<count, out_job>>
  BY OtherMainJobs DEF MainStep, StopActive, Push
<1>2. /\ UNCHANGED <<client, workerVars, fds, owner>> /\ stopping' = TRUE
      /\ readShut' = readShut \cup
           ({owner[fds[s]] : s \in Slots \ A!FreeSlots} \ {None})
  BY DEF StopActive, A!Stop, mainVars
<1>3. Registered' = Registered
  BY <1>1, <1>2 DEF Registered, workerVars
<1>4. ASSUME NEW w \in Registered PROVE out_job[w].conn \in readShut'
  <2>1. w \in Busy /\ w \in Workers /\ out_job[w] \in Job
    BY QueueTypes DEF Registered, Busy
  <2>2. slot[w] \in Slots /\ fds[slot[w]] = out_job[w].fd
    BY <2>1 DEF OwnerInv, RegistryInv
  <2>3. out_job[w].fd \in Nat /\ out_job[w].conn \in Conns
    BY <2>1, ServerAssumption DEF Job
  <2>4. slot[w] \in Slots \ A!FreeSlots
    BY <2>2, <2>3 DEF A!FreeSlots
  <2>5. owner[fds[slot[w]]] = out_job[w].conn
    BY <2>1, <2>2 DEF OwnerInv, NumberInv
  <2>6. out_job[w].conn # None
    BY <2>3, ServerAssumption
  <2> QED BY <1>2, <2>4, <2>5, <2>6
<1>5. readShut' \subseteq Conns
  <2>1. ASSUME NEW s \in Slots \ A!FreeSlots
        PROVE  owner[fds[s]] \in Conns \cup {None}
    <3>1. fds[s] \in Fds
      BY DEF OwnerInv, RegistryInv, A!FreeSlots
    <3> QED BY <3>1 DEF OwnerInv, NumberInv
  <2> QED BY <1>2, <2>1 DEF OwnerInv, ShutInv
<1> QED BY <1>1, <1>2, <1>3, <1>4, <1>5
        DEF OwnerInv, NumberInv, RegistryInv, ShutInv, workerVars

\* accept() returns a number nobody has.
LEMMA OwnerAccept ==
  ASSUME OwnerInv, AcceptInv, JobInv, QP!IInv, NEW c \in Conns, Accept(c)
  PROVE  OwnerInv'
<1>1. Q!Queued' = Q!Queued /\ Busy' = Busy /\ UNCHANGED <<count, out_job>>
  BY OtherMainJobs DEF MainStep, Accept, Push
<1>2. /\ client' = [fd |-> LowestFreeFd, conn |-> c]
      /\ owner' = [owner EXCEPT ![LowestFreeFd] = c]
      /\ UNCHANGED <<workerVars, fds, stopping, readShut>>
      /\ LowestFreeFd \in FreeFds /\ LowestFreeFd \in Fds
      /\ client = NoClient
  BY LowestIsFree DEF Accept, AcceptInv
<1>3. owner[LowestFreeFd] = None
  BY <1>2 DEF FreeFds
<1>4. /\ \A i \in 1 .. count : Q!Queued[i] \in Job
      /\ \A w \in Busy : out_job[w] \in Job
  BY QueueTypes DEF Busy
<1>5. /\ \A i \in 1 .. count : owner[Q!Queued[i].fd] # None
      /\ \A w \in Busy : owner[out_job[w].fd] # None
  BY <1>4, ServerAssumption DEF OwnerInv, NumberInv, Job
<1>6. /\ \A i \in 1 .. count : owner'[Q!Queued[i].fd] = owner[Q!Queued[i].fd]
      /\ \A w \in Busy : owner'[out_job[w].fd] = owner[out_job[w].fd]
      /\ owner' \in [Fds -> Conns \cup {None}]
      /\ owner'[LowestFreeFd] = c
      /\ \A f \in Fds \ {LowestFreeFd} : owner'[f] = owner[f]
  BY <1>2, <1>3, <1>4, <1>5 DEF OwnerInv, NumberInv, Job
<1>7. client.fd = -1 /\ client'.fd = LowestFreeFd /\ client'.conn = c
  BY <1>2 DEF NoClient
<1>8. NumberInv'
  BY <1>1, <1>2, <1>6, <1>7, SlotNumbers DEF OwnerInv, NumberInv
<1>9. Registered' = Registered
  BY <1>1, <1>2 DEF Registered, workerVars
<1> QED BY <1>1, <1>2, <1>8, <1>9
        DEF OwnerInv, RegistryInv, ShutInv, workerVars

\* The number moves with its job.
LEMMA OwnerPush ==
  ASSUME OwnerInv, AcceptInv, QP!IInv, QP!IInv', Push
  PROVE  OwnerInv'
<1> DEFINE q == Q!Queued
<1>1. /\ client \in Job /\ client # NoClient /\ client' = NoClient
      /\ count' = count + 1 /\ count \in Nat
      /\ \A i \in 1 .. count : q'[i] = q[i]
      /\ q'[count + 1] = client
      /\ Busy' = Busy /\ out_job' = out_job
  BY PushedJob, QueueTypes
<1>2. UNCHANGED <<activeVars, workerVars>>
  BY DEF Push
<1>3. Registered' = Registered
  BY <1>1, <1>2 DEF Registered, workerVars
<1> HIDE DEF q
<1>4. /\ \A i \in 1 .. count' : i \in 1 .. count \/ i = count + 1
      /\ \A i \in 1 .. count : i \in 1 .. count'
      /\ count + 1 \in 1 .. count'
  BY <1>1
<1>5. \A i \in 1 .. count' : owner[q'[i].fd] = q'[i].conn
  BY <1>1, <1>4 DEF OwnerInv, NumberInv, q
<1>6. ASSUME NEW f \in Fds, owner[f] # None
      PROVE  \/ \E i \in 1 .. count' : q'[i].fd = f
             \/ \E w \in Busy : out_job[w].fd = f
  BY <1>1, <1>4, <1>6 DEF OwnerInv, NumberInv, q
<1>7. NumberInv'
  BY <1>1, <1>2, <1>5, <1>6 DEF OwnerInv, NumberInv, activeVars, q
<1> QED BY <1>1, <1>2, <1>3, <1>7
        DEF OwnerInv, RegistryInv, ShutInv, activeVars, workerVars

\* The overload path closes the number it was given, and nobody has it.
LEMMA OwnerReject ==
  ASSUME OwnerInv, AcceptInv, JobInv, QP!IInv, Reject
  PROVE  OwnerInv'
<1>1. Q!Queued' = Q!Queued /\ Busy' = Busy /\ UNCHANGED <<count, out_job>>
  BY OtherMainJobs DEF MainStep, Reject, Push
<1>2. /\ client \in Job /\ client # NoClient /\ client' = NoClient
      /\ owner' = [owner EXCEPT ![client.fd] = None]
      /\ UNCHANGED <<fds, stopping, readShut, workerVars>>
  BY DEF Reject, AcceptInv, A!CloseFd
<1>3. Registered' = Registered
  BY <1>1, <1>2 DEF Registered, workerVars
<1>4. /\ \A i \in 1 .. count : Q!Queued[i].fd # client.fd
      /\ \A w \in Busy : out_job[w].fd # client.fd
  BY <1>2, DistinctNumbers DEF OwnerInv
<1>5. /\ \A i \in 1 .. count : Q!Queued[i].fd \in Fds
      /\ \A w \in Busy : out_job[w].fd \in Fds
      /\ client.fd \in Fds
  BY <1>2, QueueTypes DEF Busy, Job
<1>6. /\ owner' \in [Fds -> Conns \cup {None}]
      /\ owner'[client.fd] = None
      /\ \A f \in Fds \ {client.fd} : owner'[f] = owner[f]
  BY <1>2, <1>5 DEF OwnerInv, NumberInv
<1>7. NumberInv'
  BY <1>1, <1>2, <1>4, <1>5, <1>6 DEF OwnerInv, NumberInv
<1> QED BY <1>1, <1>2, <1>3, <1>7
        DEF OwnerInv, RegistryInv, ShutInv, workerVars

\* The worker has the number now; it is not registered yet.
LEMMA OwnerPop ==
  ASSUME OwnerInv, JobInv, AcceptInv, QP!IInv, QP!IInv', NEW w \in Workers,
         PopJob(w)
  PROVE  OwnerInv'
<1> DEFINE q == Q!Queued
<1>1. /\ count \in Nat /\ count > 0 /\ count' = count - 1
      /\ w \notin Busy /\ Busy' = Busy \cup {w}
      /\ out_job'[w] = q[1]
      /\ \A v \in Workers \ {w} : out_job'[v] = out_job[v]
      /\ \A i \in 1 .. count - 1 : q'[i] = q[i + 1]
  BY PoppedJob, QueueTypes DEF PopJob
<1>2. /\ UNCHANGED <<client, slot, activeVars>>
      /\ stage' = [stage EXCEPT ![w] = "popped"]
  BY DEF PopJob, Moves, mainVars
<1>3. \A v \in Busy : v # w /\ out_job'[v] = out_job[v]
                      /\ stage'[v] = stage[v]
  BY <1>1, <1>2 DEF JobInv, StageInv, Busy
<1>4. stage'[w] = "popped" /\ w \in Busy'
  BY <1>1, <1>2 DEF JobInv, StageInv
<1>5. Registered' = Registered
  BY <1>1, <1>3, <1>4 DEF Registered
<1>6. /\ \A i \in 1 .. count' : i + 1 \in 1 .. count
      /\ 1 \in 1 .. count
      /\ \A i \in 1 .. count : i # 1 => i - 1 \in 1 .. count'
                                        /\ (i - 1) + 1 = i
  BY <1>1
<1> HIDE DEF q
<1>7. /\ \A i \in 1 .. count' : q'[i] = q[i + 1]
      /\ \A i \in 1 .. count : i # 1 => q'[i - 1] = q[i]
  BY <1>1, <1>6
<1>8. /\ \A i \in 1 .. count' : owner[q'[i].fd] = q'[i].conn
      /\ \A v \in Busy' : owner[out_job'[v].fd] = out_job'[v].conn
  BY <1>1, <1>3, <1>6, <1>7 DEF OwnerInv, NumberInv, q
<1>9. ASSUME NEW f \in Fds, owner[f] # None
      PROVE \/ \E i \in 1 .. count' : q'[i].fd = f
            \/ \E v \in Busy' : out_job'[v].fd = f
            \/ client.fd = f
  <2>1. CASE \E i \in 1 .. count : q[i].fd = f
    <3>1. PICK i \in 1 .. count : q[i].fd = f
      BY <2>1
    <3>2. CASE i = 1
      BY <1>1, <1>4, <3>1, <3>2
    <3>3. CASE i # 1
      BY <1>6, <1>7, <3>1, <3>3
    <3> QED BY <3>2, <3>3
  <2>2. CASE \E v \in Busy : out_job[v].fd = f
    BY <1>1, <1>3, <2>2
  <2> QED BY <1>9, <2>1, <2>2 DEF OwnerInv, NumberInv, q
<1>10. NumberInv'
  BY <1>2, <1>8, <1>9 DEF OwnerInv, NumberInv, activeVars, q
<1>11. \A v \in Registered : out_job'[v] = out_job[v]
  BY <1>3 DEF Registered
<1>12. RegistryInv' /\ ShutInv'
  BY <1>2, <1>5, <1>11 DEF OwnerInv, RegistryInv, ShutInv, activeVars
<1> QED BY <1>10, <1>12 DEF OwnerInv

\* BsActiveConnectionsRegister writes the number into the first free slot,
\* and interrupts the coming read if the registry is stopped.
LEMMA OwnerRegister ==
  ASSUME OwnerInv, JobInv, AcceptInv, QP!IInv, NEW w \in Workers,
         RegisterJob(w), A!FreeSlots # {}
  PROVE  OwnerInv'
<1> DEFINE s0 == A!FirstFreeSlot
<1>1. Q!Queued' = Q!Queued /\ Busy' = Busy /\ UNCHANGED <<count, out_job>>
  BY OtherWorkerJobs
<1>2. /\ UNCHANGED <<client, owner, stopping>>
      /\ fds' = [fds EXCEPT ![s0] = out_job[w].fd]
      /\ slot' = [slot EXCEPT ![w] = s0]
      /\ readShut' = IF stopping THEN readShut \cup {owner[out_job[w].fd]}
                                 ELSE readShut
      /\ stage' = [stage EXCEPT ![w] = "registered"]
      /\ w \in Busy /\ stage[w] = "popped"
  BY DEF RegisterJob, A!Register, Moves, At, Busy, mainVars
<1>3. s0 \in Slots /\ fds[s0] < 0
  BY SlotNumbers
<1> HIDE DEF s0
<1>4. /\ stage' \in [Workers -> Stages]
      /\ \A v \in Workers :
           stage'[v] = IF v = w THEN "registered" ELSE stage[v]
  BY <1>2 DEF JobInv, StageInv, Stages
<1>5. Registered' = Registered \cup {w} /\ w \notin Registered
  BY <1>1, <1>2, <1>4 DEF Registered, Busy
<1>6. out_job[w] \in Job /\ out_job[w].fd \in Fds
      /\ owner[out_job[w].fd] = out_job[w].conn /\ out_job[w].conn \in Conns
  BY <1>2, QueueTypes DEF Busy, Job, OwnerInv, NumberInv
<1>7. \A v \in Registered : slot[v] \in Slots /\ slot[v] # s0
  <2> SUFFICES ASSUME NEW v \in Registered
               PROVE  slot[v] \in Slots /\ slot[v] # s0
    OBVIOUS
  <2>1. v \in Workers /\ v \in Busy /\ out_job[v] \in Job
    BY QueueTypes DEF Registered, Busy
  <2>2. fds[slot[v]] = out_job[v].fd /\ slot[v] \in Slots
    BY <2>1 DEF OwnerInv, RegistryInv
  <2>3. out_job[v].fd \in Nat
    BY <2>1, ServerAssumption DEF Job
  <2> QED BY <1>3, <2>2, <2>3
<1>8. NumberInv'
  BY <1>1, <1>2 DEF OwnerInv, NumberInv
<1>9. RegistryInv'
  <2>1. fds' \in [Slots -> Fds \cup {-1}] /\ slot' \in [Workers -> Slots]
    BY <1>2, <1>3, <1>6 DEF OwnerInv, RegistryInv
  <2>2. fds'[s0] = out_job[w].fd /\ slot'[w] = s0
        /\ \A s \in Slots \ {s0} : fds'[s] = fds[s]
        /\ \A v \in Workers \ {w} : slot'[v] = slot[v]
    BY <1>2, <1>3 DEF OwnerInv, RegistryInv, Busy
  <2>3. \A v \in Registered : v \in Workers /\ v # w
    BY <1>5 DEF Registered, Busy
  <2>4. \A v \in Registered' : fds'[slot'[v]] = out_job'[v].fd
    BY <1>1, <1>5, <1>7, <2>2, <2>3 DEF OwnerInv, RegistryInv
  <2>5. \A s \in Slots : fds'[s] # -1 => \E v \in Registered' : slot'[v] = s
    BY <1>5, <2>2, <2>3 DEF OwnerInv, RegistryInv
  <2> QED BY <2>1, <2>4, <2>5 DEF RegistryInv
<1>10. ShutInv'
  BY <1>1, <1>2, <1>5, <1>6 DEF OwnerInv, ShutInv
<1> QED BY <1>8, <1>9, <1>10 DEF OwnerInv

\* What closing a worker's descriptor does to the numbers.
LEMMA NumberClosed ==
  ASSUME OwnerInv, JobInv, AcceptInv, QP!IInv, NEW w \in Busy,
         Q!Queued' = Q!Queued, Busy' = Busy \ {w},
         UNCHANGED <<count, out_job, client>>,
         owner' = [owner EXCEPT ![out_job[w].fd] = None]
  PROVE  NumberInv'
<1>1. /\ \A i \in 1 .. count : Q!Queued[i].fd # out_job[w].fd
      /\ \A v \in Busy \ {w} : out_job[v].fd # out_job[w].fd
      /\ client # NoClient => client.fd # out_job[w].fd
  BY DistinctNumbers DEF OwnerInv
<1>2. /\ \A i \in 1 .. count : Q!Queued[i].fd \in Fds
      /\ \A v \in Busy : out_job[v].fd \in Fds
      /\ client # NoClient => client.fd \in Fds
  BY QueueTypes DEF Busy, Job, AcceptInv
<1>3. /\ owner' \in [Fds -> Conns \cup {None}]
      /\ owner'[out_job[w].fd] = None
      /\ \A f \in Fds \ {out_job[w].fd} : owner'[f] = owner[f]
  BY <1>2 DEF OwnerInv, NumberInv
<1> QED BY <1>1, <1>2, <1>3 DEF OwnerInv, NumberInv

\* A connection that could not be registered is closed.
LEMMA OwnerDropped ==
  ASSUME OwnerInv, JobInv, AcceptInv, QP!IInv, NEW w \in Workers,
         RegisterJob(w), A!FreeSlots = {}
  PROVE  OwnerInv'
<1>1. /\ Q!WorkDone(w) /\ owner' = [owner EXCEPT ![out_job[w].fd] = None]
      /\ UNCHANGED <<client, fds, stopping, readShut, slot>>
      /\ stage' = [stage EXCEPT ![w] = "idle"] /\ stage[w] = "popped"
  BY DEF RegisterJob, A!CloseFd, Moves, At, mainVars
<1>2. /\ Q!Queued' = Q!Queued /\ count' = count /\ out_job' = out_job
      /\ w \in Busy /\ Busy' = Busy \ {w}
  BY <1>1, DoneJob
<1>3. Registered' = Registered
  BY <1>1, <1>2 DEF Registered, JobInv, StageInv, Busy
<1>4. NumberInv'
  BY <1>1, <1>2, NumberClosed
<1> QED BY <1>1, <1>2, <1>3, <1>4 DEF OwnerInv, RegistryInv, ShutInv

\* BsActiveConnectionsClose closes the number and frees its slot together.
LEMMA OwnerClose ==
  ASSUME OwnerInv, JobInv, AcceptInv, QP!IInv, NEW w \in Workers, CloseJob(w)
  PROVE  OwnerInv'
<1>1. /\ Q!WorkDone(w) /\ A!Close(slot[w], out_job[w].fd)
      /\ UNCHANGED <<client, slot>>
      /\ stage' = [stage EXCEPT ![w] = "idle"] /\ stage[w] = "closing"
  BY DEF CloseJob, Moves, At, mainVars
<1>2. /\ Q!Queued' = Q!Queued /\ count' = count /\ out_job' = out_job
      /\ w \in Busy /\ Busy' = Busy \ {w}
  BY <1>1, DoneJob
<1>3. w \in Registered /\ slot[w] \in Slots /\ fds[slot[w]] = out_job[w].fd
  BY <1>1, <1>2 DEF Registered, OwnerInv, RegistryInv
<1>4. /\ owner' = [owner EXCEPT ![out_job[w].fd] = None]
      /\ fds' = [fds EXCEPT ![slot[w]] = -1]
      /\ UNCHANGED <<stopping, readShut>>
  BY <1>1, <1>3 DEF A!Close, A!CloseFd
<1>5. Registered' = Registered \ {w}
  BY <1>1, <1>2 DEF Registered, JobInv, StageInv, Busy
<1>6. NumberInv'
  BY <1>1, <1>2, <1>4, NumberClosed
<1>7. \A v \in Registered \ {w} : slot[v] \in Slots /\ slot[v] # slot[w]
  <2> SUFFICES ASSUME NEW v \in Registered \ {w}
               PROVE  slot[v] \in Slots /\ slot[v] # slot[w]
    OBVIOUS
  <2>1. v \in Busy /\ v \in Workers
    BY DEF Registered, Busy
  <2>2. fds[slot[v]] = out_job[v].fd /\ slot[v] \in Slots
    BY <2>1 DEF OwnerInv, RegistryInv
  <2>3. out_job[v].fd # out_job[w].fd
    BY <1>2, <2>1, DistinctNumbers DEF OwnerInv
  <2> QED BY <1>3, <2>2, <2>3
<1>8. RegistryInv'
  <2>1. fds' \in [Slots -> Fds \cup {-1}]
    BY <1>3, <1>4 DEF OwnerInv, RegistryInv
  <2>2. fds'[slot[w]] = -1
        /\ \A s \in Slots \ {slot[w]} : fds'[s] = fds[s]
    BY <1>3, <1>4 DEF OwnerInv, RegistryInv
  <2>3. \A v \in Registered' : fds'[slot'[v]] = out_job'[v].fd
    BY <1>1, <1>2, <1>5, <1>7, <2>2 DEF OwnerInv, RegistryInv
  <2>4. \A s \in Slots : fds'[s] # -1 => \E v \in Registered' : slot'[v] = s
    BY <1>1, <1>5, <2>2 DEF OwnerInv, RegistryInv
  <2> QED BY <1>1, <2>1, <2>3, <2>4 DEF OwnerInv, RegistryInv
<1>9. ShutInv'
  BY <1>2, <1>4, <1>5 DEF OwnerInv, ShutInv
<1> QED BY <1>6, <1>8, <1>9 DEF OwnerInv

\* A worker's steps.
LEMMA OwnerWorker ==
  ASSUME OwnerInv, JobInv, AcceptInv, QP!IInv, QP!IInv', NEW w \in Workers,
         \/ PopNothing(w) \/ PopJob(w) \/ Spurious(w) \/ RegisterJob(w)
         \/ AllocateBuffers(w) \/ ReadEnds(w) \/ Respond(w) \/ CloseJob(w)
  PROVE  OwnerInv'
<1>1. CASE \/ PopNothing(w) \/ Spurious(w) \/ AllocateBuffers(w)
           \/ ReadEnds(w) \/ Respond(w)
  <2>1. Q!Queued' = Q!Queued /\ Busy' = Busy /\ UNCHANGED <<count, out_job>>
    BY <1>1, OtherWorkerJobs
  <2>2. UNCHANGED <<client, slot, activeVars>>
    BY <1>1 DEF PopNothing, Spurious, AllocateBuffers, ReadEnds, Respond,
         mainVars, workerVars
  <2>3. \/ stage' = stage
        \/ /\ stage[w] \notin {"idle", "popped"}
           /\ \E s \in {"reading", "responding", "closing"} :
                stage' = [stage EXCEPT ![w] = s]
    BY <1>1 DEF PopNothing, Spurious, AllocateBuffers, ReadEnds, Respond,
         Moves, At, workerVars
  <2>4. Registered' = Registered
    BY <2>1, <2>3 DEF Registered, Busy, JobInv, StageInv
  <2> QED BY <2>1, <2>2, <2>4, OwnerQuiet
<1> QED BY <1>1, OwnerPop, OwnerRegister, OwnerDropped, OwnerClose

\* Clients and signals.
LEMMA OwnerEnvironment ==
  ASSUME OwnerInv, QP!IInv,
         \/ (\E c \in Conns : Connect(c)) \/ SendSignal \/ HandleSignal
         \/ UNCHANGED vars
  PROVE  OwnerInv'
<1>1. Q!Queued' = Q!Queued /\ Busy' = Busy /\ UNCHANGED <<count, out_job>>
  BY OtherJobs
<1>2. UNCHANGED <<client, workerVars, activeVars>>
  BY DEF Connect, SendSignal, HandleSignal, vars, mainVars
<1>3. Registered' = Registered
  BY <1>1, <1>2 DEF Registered, workerVars
<1> QED BY <1>1, <1>2, <1>3, OwnerQuiet DEF workerVars

\* All steps together.
LEMMA OwnerStep ==
  ASSUME OwnerInv, JobInv, AcceptInv, QP!IInv, QP!IInv', [Next]_vars
  PROVE  OwnerInv'
BY OwnerMain, OwnerStop, OwnerAccept, OwnerPush, OwnerReject, OwnerWorker,
   OwnerEnvironment
   DEF Next, Terminated

\* Numbers and registry, in every reachable state.
LEMMA OwnerAlways == SafeSpec => []OwnerInv
<1>1. AcceptInv /\ QP!IInv /\ QP!IInv' /\ JobInv /\ OwnerInv /\ [Next]_vars
        => OwnerInv'
  BY OwnerStep
<1> QED BY <1>1, OwnerInit, AcceptAlways, QueueAlways, JobAlways, PTL
        DEF SafeSpec

-----------------------------------------------------------------------------
(* Counting. *)

\* A function that gives different values to different arguments counts its
\* domain.
LEMMA ImageCount ==
  ASSUME NEW S, IsFiniteSet(S), NEW f,
         \A x, y \in S : f[x] = f[y] => x = y
  PROVE  /\ IsFiniteSet({f[x] : x \in S})
         /\ Cardinality({f[x] : x \in S}) = Cardinality(S)
<1> DEFINE T == {f[x] : x \in S}
            g == [x \in S |-> f[x]]
<1>1. g \in Bijection(S, T)
  <2>1. g \in Injection(S, T)
    BY DEF Injection, IsInjective
  <2>2. g \in Surjection(S, T)
    BY DEF Surjection
  <2> QED BY <2>1, <2>2 DEF Bijection
<1>2. ExistsBijection(S, T)
  BY <1>1 DEF ExistsBijection
<1> QED BY <1>2, FS_Bijection

\* No function gives more values than it has arguments.
LEMMA ImageBound ==
  ASSUME NEW S, IsFiniteSet(S), NEW f
  PROVE  /\ IsFiniteSet({f[x] : x \in S})
         /\ Cardinality({f[x] : x \in S}) <= Cardinality(S)
<1> DEFINE T == {f[x] : x \in S}
            g == [x \in S |-> f[x]]
<1>1. g \in Surjection(S, T)
  BY DEF Surjection
<1> QED BY <1>1, FS_Surjection

\* How many elements the smallest sets have.
LEMMA EmptyCount == IsFiniteSet({}) /\ Cardinality({}) = 0
BY FS_EmptySet

LEMMA SingletonCount ==
  ASSUME NEW x
  PROVE  IsFiniteSet({x}) /\ Cardinality({x}) = 1
BY FS_Singleton

\* Two sets without a common element.
LEMMA DisjointCount ==
  ASSUME NEW S, IsFiniteSet(S), NEW T, IsFiniteSet(T), S \cap T = {}
  PROVE  /\ IsFiniteSet(S \cup T)
         /\ Cardinality(S \cup T) = Cardinality(S) + Cardinality(T)
<1>1. /\ IsFiniteSet(S \cup T)
      /\ Cardinality(S \cup T)
           = Cardinality(S) + Cardinality(T) - Cardinality(S \cap T)
  BY FS_Union
<1>2. Cardinality(S \cap T) = 0
  BY EmptyCount
<1>3. Cardinality(S) \in Nat /\ Cardinality(T) \in Nat
  BY FS_CardinalityType
<1> QED BY <1>1, <1>2, <1>3

\* A worker that has popped a job finds a free slot: there are as many slots
\* as workers, and only the other workers can hold one.
LEMMA SlotLeft ==
  ASSUME OwnerInv, NEW w \in Busy, stage[w] = "popped"
  PROVE  A!FreeSlots # {}
<1> DEFINE n == Cardinality(Workers)
            used == {slot[v] : v \in Registered}
<1>1. n \in Nat /\ w \in Workers
  BY ServerAssumption, FS_CardinalityType DEF Busy
<1>2. Registered \subseteq Workers \ {w}
  BY DEF Registered, Busy
<1>3. IsFiniteSet(Workers \ {w}) /\ Cardinality(Workers \ {w}) = n - 1
  BY <1>1, ServerAssumption, FS_RemoveElement
<1>4. IsFiniteSet(Registered) /\ Cardinality(Registered) <= n - 1
  BY <1>2, <1>3, FS_Subset
<1>5. /\ IsFiniteSet(used) /\ Cardinality(used) <= Cardinality(Registered)
      /\ Cardinality(used) \in Nat /\ Cardinality(Registered) \in Nat
  BY <1>4, ImageBound, FS_CardinalityType
<1>6. IsFiniteSet(Slots) /\ Cardinality(Slots) = n
  <2>1. 0 \in Int /\ n - 1 \in Int
    BY <1>1
  <2>2. /\ IsFiniteSet(0 .. n - 1)
        /\ Cardinality(0 .. n - 1) = IF 0 > n - 1 THEN 0 ELSE n - 1 - 0 + 1
    BY <2>1, FS_Interval, Zenon
  <2> QED BY <2>2, <1>1 DEF Slots
<1> SUFFICES ASSUME A!FreeSlots = {} PROVE FALSE
  OBVIOUS
<1>7. Slots \subseteq used
  <2>1. \A s \in Slots : fds[s] # -1
    BY DEF A!FreeSlots
  <2> QED BY <2>1 DEF OwnerInv, RegistryInv
<1>8. Cardinality(Slots) <= Cardinality(used)
  BY <1>5, <1>7, FS_Subset
<1> QED BY <1>1, <1>4, <1>5, <1>6, <1>8

\* The jobs in the ring, with the workers and in main's hands are as many as
\* these places.
LEMMA JobsHeldCount ==
  ASSUME JobInv, OwnerInv, AcceptInv, QP!IInv
  PROVE  Cardinality({Q!Queued[i] : i \in 1 .. count}
                     \cup {out_job[w] : w \in Busy}
                     \cup (IF client = NoClient THEN {} ELSE {client}))
           = count + Cardinality(Busy) + Cardinality(InHand)
<1> DEFINE q == Q!Queued
            R == {q[i] : i \in 1 .. count}
            W == {out_job[w] : w \in Busy}
            M == IF client = NoClient THEN {} ELSE {client}
<1>1. count \in Nat
  BY QueueTypes
<1>2. IsFiniteSet(1 .. count) /\ Cardinality(1 .. count) = count
  BY <1>1, FS_Interval
<1>3. \A i, k \in 1 .. count : q[i] = q[k] => i = k
  BY DistinctNumbers DEF OwnerInv
<1>4. IsFiniteSet(R) /\ Cardinality(R) = count
  <2> DEFINE S == 1 .. count
  <2>1. /\ IsFiniteSet({q[i] : i \in S})
        /\ Cardinality({q[i] : i \in S}) = Cardinality(S)
    <3>1. IsFiniteSet(S) /\ \A i, k \in S : q[i] = q[k] => i = k
      BY <1>2, <1>3
    <3> HIDE DEF q, S
    <3> QED BY <3>1, ImageCount
  <2> QED BY <2>1, <1>2
<1>5. IsFiniteSet(Busy) /\ Cardinality(Busy) \in Nat
  BY ServerAssumption, FS_Subset, FS_CardinalityType DEF Busy
<1>6. IsFiniteSet(W) /\ Cardinality(W) = Cardinality(Busy)
  <2>1. \A v, w \in Busy : out_job[v] = out_job[w] => v = w
    BY DistinctNumbers DEF OwnerInv
  <2> QED BY <1>5, <2>1, ImageCount
<1>7. R \cap W = {} /\ (R \cup W) \cap M = {}
  BY DistinctNumbers DEF OwnerInv
<1>8. IsFiniteSet(M) /\ Cardinality(M) = Cardinality(InHand)
      /\ Cardinality(M) \in Nat
  <2>1. CASE client = NoClient
    <3>1. M = {} /\ InHand = {}
      BY <2>1 DEF InHand
    <3> QED BY <3>1, EmptyCount
  <2>2. CASE client # NoClient
    <3>1. M = {client} /\ InHand = {client.conn}
      BY <2>2 DEF InHand
    <3>2. IsFiniteSet(M) /\ Cardinality(M) = 1
      BY <3>1, SingletonCount, Zenon
    <3>3. Cardinality(InHand) = 1
      BY <3>1, SingletonCount, Zenon
    <3> HIDE DEF M
    <3> QED BY <3>2, <3>3
  <2> QED BY <2>1, <2>2
<1> HIDE DEF R, W, M, q
<1>9. IsFiniteSet(R \cup W)
      /\ Cardinality(R \cup W) = count + Cardinality(Busy)
  <2>1. IsFiniteSet(R \cup W)
        /\ Cardinality(R \cup W) = Cardinality(R) + Cardinality(W)
    BY <1>4, <1>6, <1>7, DisjointCount, Zenon
  <2> QED BY <2>1, <1>4, <1>6
<1>10. Cardinality((R \cup W) \cup M)
         = count + Cardinality(Busy) + Cardinality(InHand)
  <2>1. Cardinality((R \cup W) \cup M) = Cardinality(R \cup W) + Cardinality(M)
    BY <1>7, <1>8, <1>9, DisjointCount, Zenon
  <2> QED BY <2>1, <1>8, <1>9
<1> QED BY <1>10 DEF R, W, M, q

-----------------------------------------------------------------------------
(* What the runs check, for every instance. *)

\* From accept() (server_main.c:782) to its one close(), in the overload path
\* or in BsActiveConnectionsClose, a descriptor number refers to the
\* connection it was accepted for, and no number is open that nobody has:
\* no thread closes another's connection and none is forgotten.
THEOREM DescriptorOwnershipAlways == SafeSpec => []DescriptorOwnership
<1>1. JobInv /\ OwnerInv /\ AcceptInv /\ QP!IInv => DescriptorOwnership
  <2> SUFFICES ASSUME JobInv, OwnerInv, AcceptInv, QP!IInv
               PROVE  DescriptorOwnership
    OBVIOUS
  <2> DEFINE held_jobs == {Q!Queued[i] : i \in 1 .. count}
                     \cup {out_job[w] : w \in Busy}
                     \cup (IF client = NoClient THEN {} ELSE {client})
  <2>1. \A j \in held_jobs : owner[j.fd] = j.conn
    BY DEF OwnerInv, NumberInv
  <2>2. \A j \in held_jobs : j \in Job
    BY QueueTypes DEF Busy, AcceptInv
  <2>3. \A j \in held_jobs : j.fd \in Fds /\ owner[j.fd] # None
    BY <2>1, <2>2, ServerAssumption DEF Job
  <2>4. ASSUME NEW f \in Fds, owner[f] # None
        PROVE  \E j \in held_jobs : j.fd = f
    <3>1. client.fd = f => client # NoClient
      BY ServerAssumption DEF NoClient
    <3> QED BY <2>4, <3>1 DEF OwnerInv, NumberInv
  <2>5. {j.fd : j \in held_jobs} = Fds \ FreeFds
    <3> HIDE DEF held_jobs
    <3> QED BY <2>3, <2>4 DEF FreeFds
  <2> QED BY <2>1, <2>5, JobsHeldCount DEF DescriptorOwnership
<1> QED BY <1>1, JobAlways, OwnerAlways, AcceptAlways, QueueAlways, PTL

\* BsActiveConnectionsRegister (active_connections.c) always finds a slot,
\* the slot holds the worker's own descriptor until the worker closes it, and
\* the stop finds no other.
THEOREM RegistryMatchesAlways == SafeSpec => []RegistryMatchesWorkers
<1>1. OwnerInv => RegistryMatchesWorkers
  BY SlotLeft DEF OwnerInv, RegistryInv, RegistryMatchesWorkers, Registered,
     A!FreeSlots
<1> QED BY <1>1, OwnerAlways, PTL

\* After BsActiveConnectionsStop no worker can block in read(), whichever of
\* registration and stop came first.
THEOREM NoBlockingReadAlways == SafeSpec => []NoBlockingReadAfterStop
<1>1. OwnerInv => NoBlockingReadAfterStop
  BY DEF OwnerInv, ShutInv, NoBlockingReadAfterStop, Registered
<1> QED BY <1>1, OwnerAlways, PTL

\* main frees the queue and the registry only when every worker is gone, and
\* returns with no connection, descriptor, job or backlog left.
THEOREM CleanExitAlways == SafeSpec => []CleanExit
<1>1. ASSUME AcceptInv, ThreadInv, ResourceInv, JobInv, OwnerInv, QP!IInv
      PROVE  CleanExit
  <2>1. {"queue", "active"} \subseteq held
          \/ \A w \in created : caller[w] = "exited"
    BY <1>1 DEF ResourceInv, ThreadInv
  <2>2. ASSUME pc = "exited"
        PROVE  /\ FreeFds = Fds /\ Q!Queued = <<>>
               /\ \A c \in Conns : phase[c] \notin {"backlog", "open"}
               /\ \A w \in created : caller[w] = "exited"
               /\ held \subseteq {"pipe"}
               /\ "pipe" \in held => server_failed
    <3>1. /\ \A w \in created : caller[w] = "exited"
          /\ \A w \in Workers \ created : caller[w] = "calling"
      BY <1>1, <2>2 DEF ThreadInv, Ended
    <3>2. Busy = {}
      BY <3>1 DEF Busy
    <3>3. count = 0
      <4>1. CASE created = Workers
        <5>1. \E w \in Workers : caller[w] = "exited"
          BY <3>1, <4>1, ServerAssumption
        <5> QED BY <1>1, <5>1 DEF QP!IInv, QP!DrainedBeforeExit
      <4>2. CASE created # Workers
        BY <1>1, <4>2 DEF ThreadInv
      <4> QED BY <4>1, <4>2
    <3>4. client = NoClient
      BY <1>1, <2>2 DEF AcceptInv
    <3>5. Q!Queued = <<>>
      <4> DEFINE q == Q!Queued
      <4>1. q \in Seq(Job) /\ Len(q) = 0
        BY <1>1, <3>3, QueueTypes
      <4>2. q = <<>>
        <5> HIDE DEF q
        <5> QED BY <4>1, EmptySeq
      <4> QED BY <4>2
    <3>6. client.fd \notin Fds /\ client.conn \notin Conns
      BY <3>4, ServerAssumption DEF NoClient
    <3>7. FreeFds = Fds
      BY <1>1, <3>2, <3>3, <3>6 DEF OwnerInv, NumberInv, FreeFds
    <3>8. \A c \in Conns : phase[c] \notin {"backlog", "open"}
      BY <1>1, <2>2, <3>2, <3>3, <3>6
         DEF JobInv, ConnectionInv, ResourceInv, Draining
    <3>9. held \subseteq {"pipe"} /\ ("pipe" \in held => server_failed)
      BY <1>1, <2>2 DEF ResourceInv, Draining
    <3> QED BY <3>1, <3>5, <3>7, <3>8, <3>9
  <2> QED BY <2>1, <2>2 DEF CleanExit
<1> QED BY <1>1, AcceptAlways, ThreadAlways, ResourceAlways, JobAlways,
           OwnerAlways, QueueAlways, PTL

\* The main thread's flags keep their types.
FlagInv ==
  /\ revents \subseteq {"listener", "wakeup"}
  /\ pending \in BOOLEAN /\ g_should_stop \in BOOLEAN

\* Every step writes them with values of these types.
LEMMA FlagStep ==
  ASSUME FlagInv, [Next]_vars
  PROVE  FlagInv'
<1> USE DEF FlagInv, mainVars, signalVars
<1>1. CASE Allocate \/ Spawn \/ Listen \/ PipeMade \/ PipeFails \/ Unmask
  BY <1>1 DEF Allocate, Spawn, Listen, PipeMade, PipeFails, Unmask
<1>2. CASE Loop \/ Poll \/ Drain \/ Check
  BY <1>2 DEF Loop, Poll, Drain, Check, Ready
<1>3. CASE \/ AcceptLoop \/ (\E c \in Conns : Accept(c)) \/ AcceptNothing
           \/ AcceptFails \/ Push \/ PushRefused \/ Reject
  BY <1>3 DEF AcceptLoop, Accept, AcceptNothing, AcceptFails, Push,
              PushRefused, Reject
<1>4. CASE \/ BlockSignals \/ ForgetPipe \/ CloseEndpoints \/ StopActive
           \/ StopQueue \/ Join \/ Free \/ Restore
  BY <1>4 DEF BlockSignals, ForgetPipe, CloseEndpoints, StopActive, StopQueue,
              Join, Free, Restore
<1>5. CASE \E w \in Workers :
             \/ PopNothing(w) \/ PopJob(w) \/ Spurious(w) \/ RegisterJob(w)
             \/ AllocateBuffers(w) \/ ReadEnds(w) \/ Respond(w) \/ CloseJob(w)
  BY <1>5 DEF PopNothing, PopJob, Spurious, RegisterJob, AllocateBuffers,
              ReadEnds, Respond, CloseJob
<1>6. CASE (\E c \in Conns : Connect(c)) \/ SendSignal \/ HandleSignal
  BY <1>6 DEF Connect, SendSignal, HandleSignal
<1>7. CASE Terminated \/ UNCHANGED vars
  BY <1>7 DEF Terminated, vars
<1> QED BY <1>1, <1>2, <1>3, <1>4, <1>5, <1>6, <1>7 DEF Next, MainStep

\* The flags, in every reachable state.
LEMMA FlagAlways == SafeSpec => []FlagInv
<1>1. Init => FlagInv
  BY DEF Init, FlagInv
<1>2. FlagInv /\ [Next]_vars => FlagInv'
  BY FlagStep
<1> QED BY <1>1, <1>2, PTL DEF SafeSpec

\* The fields of the queue, the registry, main's locals and the workers' (all
\* of server_main.c's state) keep their types.
THEOREM ServerTypesAlways == SafeSpec => []TypeOK
<1>1. ASSUME AcceptInv, SignalInv, ThreadInv, ResourceInv, JobInv, OwnerInv,
             FlagInv, QP!IInv
      PROVE  TypeOK
  <2>1. Q!TypeOK
    BY <1>1, QueueTypes
  <2>2. A!TypeOK
    BY <1>1 DEF OwnerInv, NumberInv, RegistryInv, ShutInv, A!TypeOK
  <2>3. /\ pc \in Startup \cup Serving \cup Cleanup
        /\ client \in Job \cup {NoClient} /\ phase \in [Conns -> Phases]
    BY <1>1 DEF AcceptInv
  <2>4. /\ revents \subseteq {"listener", "wakeup"}
        /\ pending \in BOOLEAN /\ g_should_stop \in BOOLEAN
        /\ g_signal_write_fd \in BOOLEAN /\ wakeup \in BOOLEAN
    BY <1>1 DEF FlagInv, SignalInv
  <2>5. /\ created \subseteq Workers
        /\ held \subseteq {"queue", "active", "workers", "listener", "pipe"}
        /\ server_failed \in BOOLEAN /\ masked \in BOOLEAN
    BY <1>1 DEF ThreadInv, ResourceInv
  <2>6. stage \in [Workers -> Stages] /\ slot \in [Workers -> Slots]
    BY <1>1 DEF JobInv, StageInv, OwnerInv, RegistryInv
  <2> QED BY <2>1, <2>2, <2>3, <2>4, <2>5, <2>6 DEF TypeOK
<1> QED BY <1>1, AcceptAlways, SignalAlways, ThreadAlways, ResourceAlways,
           JobAlways, OwnerAlways, FlagAlways, QueueAlways, PTL

-----------------------------------------------------------------------------
(* The service.  The native server implements what it promises its clients *)
(* (ServerService): every step of a thread, the signal handler or a client *)
(* is one step of the service, or none that a client could see.            *)

\* The state of the service, as NativeServer maps it.
ClientStatus ==
  [c \in Conns |->
    CASE phase[c] = "away" -> "away"
      [] phase[c] = "backlog" -> "connecting"
      [] phase[c] = "reset" -> "reset"
      [] phase[c] = "turned_away" -> "refused"
      [] c \in InHand -> IF pc = "reject" THEN "refused" ELSE "connecting"
      [] c \in WaitingConns -> "waiting"
      [] c \in ServedConns -> "serving"
      [] OTHER -> "done"]
Down == pc \in Cleanup /\ pc \notin {"block", "forget", "close"}

Svc == INSTANCE ServerService WITH status <- ClientStatus, draining <- Down

\* Everything that is known of a reachable state.
ServerInv ==
  /\ AcceptInv /\ ThreadInv /\ ResourceInv /\ JobInv /\ OwnerInv
  /\ (stopped => pc \in Draining) /\ QP!IInv

-----------------------------------------------------------------------------
(* The ring is stopped by the end of main only. *)

\* Only StopQueue stops it, and then main is draining.
LEMMA StoppedStep ==
  ASSUME AcceptInv, stopped => pc \in Draining, [Next]_vars
  PROVE  stopped' => pc' \in Draining
<1> USE DEF Draining, queueVars
<1>1. CASE MainStep
  <2>1. CASE StopQueue
    BY <2>1 DEF StopQueue
  <2>2. CASE Push
    BY <2>2 DEF Push, Q!TryPush
  <2>3. CASE ~ StopQueue /\ ~ Push
    BY <1>1, <2>3
       DEF MainStep, Allocate, Spawn, Listen, PipeMade, PipeFails, Unmask,
           Loop, Poll, Drain, Check, AcceptLoop, Accept, AcceptNothing,
           AcceptFails, PushRefused, Reject, BlockSignals, ForgetPipe,
           CloseEndpoints, StopActive, Join, Free, Restore
  <2> QED BY <2>1, <2>2, <2>3
<1>2. CASE \E w \in Workers :
             \/ PopNothing(w) \/ PopJob(w) \/ Spurious(w) \/ RegisterJob(w)
             \/ AllocateBuffers(w) \/ ReadEnds(w) \/ Respond(w) \/ CloseJob(w)
  BY <1>2 DEF PopNothing, PopJob, Spurious, RegisterJob, AllocateBuffers,
              ReadEnds, Respond, CloseJob, Q!PopWait, Q!PopStopped, Q!PopTake,
              Q!SpuriousWakeup, Q!WorkDone
<1>3. CASE (\E c \in Conns : Connect(c)) \/ SendSignal \/ HandleSignal
           \/ UNCHANGED vars
  BY <1>3 DEF Connect, SendSignal, HandleSignal, vars
<1> QED BY <1>1, <1>2, <1>3 DEF Next, Terminated

\* All the layers together.
LEMMA ServerAlways == SafeSpec => []ServerInv
<1> DEFINE Stopped == stopped => pc \in Draining
<1>1. Init => Stopped
  BY DEF Init, Q!Init
<1>2. AcceptInv /\ Stopped /\ [Next]_vars => Stopped'
  BY StoppedStep
<1>3. AcceptInv /\ ThreadInv /\ ResourceInv /\ JobInv /\ OwnerInv /\ Stopped
      /\ QP!IInv => ServerInv
  BY DEF ServerInv
<1> HIDE DEF Stopped
<1> QED BY <1>1, <1>2, <1>3, AcceptAlways, ThreadAlways, ResourceAlways,
           JobAlways, OwnerAlways, QueueAlways, PTL DEF SafeSpec

-----------------------------------------------------------------------------
(* What the clients see of a state. *)

\* A connection has one place, and its phase agrees with it.
PlaceInv ==
  /\ InHand \subseteq Conns /\ WaitingConns \subseteq Conns
  /\ ServedConns \subseteq Conns
  /\ InHand \cap WaitingConns = {} /\ InHand \cap ServedConns = {}
  /\ WaitingConns \cap ServedConns = {}
  /\ \A c \in InHand \cup WaitingConns : phase[c] = "open"
  /\ \A c \in ServedConns : phase[c] \in {"open", "answered", "failed"}
  /\ \A c \in Conns : phase[c] = "open" =>
       c \in InHand \cup WaitingConns \cup ServedConns

\* JobInv, in terms of the connections.
LEMMA Places == ServerInv => PlaceInv
<1> SUFFICES ASSUME ServerInv PROVE PlaceInv
  OBVIOUS
<1> DEFINE q == Q!Queued
<1>1. JobInv /\ AcceptInv /\ QP!IInv
  BY DEF ServerInv
<1>2. /\ \A i \in 1 .. count : q[i] \in Job
      /\ \A w \in Busy : out_job[w] \in Job
      /\ client # NoClient => client \in Job
  BY <1>1, QueueTypes DEF Busy, AcceptInv
<1>3. \A j \in Job : j.conn \in Conns
  BY DEF Job
<1>4. client.conn \in Conns => client # NoClient
  BY ServerAssumption DEF NoClient
<1> HIDE DEF q
<1>5. /\ WaitingConns = {q[i].conn : i \in 1 .. count}
      /\ ServedConns = {out_job[w].conn : w \in Busy}
      /\ InHand = IF client = NoClient THEN {} ELSE {client.conn}
  BY DEF q, WaitingConns, ServedConns, InHand
<1>6. /\ \A i \in 1 .. count : phase[q[i].conn] = "open"
      /\ \A w \in Busy :
           phase[out_job[w].conn] \in {"open", "answered", "failed"}
      /\ client # NoClient => phase[client.conn] = "open"
      /\ \A i \in 1 .. count, w \in Busy : q[i].conn # out_job[w].conn
      /\ \A i \in 1 .. count : q[i].conn # client.conn
      /\ \A w \in Busy : out_job[w].conn # client.conn
      /\ \A c \in Conns : phase[c] = "open" =>
           \/ \E i \in 1 .. count : q[i].conn = c
           \/ \E w \in Busy : out_job[w].conn = c
           \/ client.conn = c
  BY <1>1 DEF JobInv, ConnectionInv, q
<1>7. /\ \A c \in InHand : c = client.conn /\ client # NoClient
      /\ \A c \in WaitingConns : \E i \in 1 .. count : c = q[i].conn
      /\ \A c \in ServedConns : \E w \in Busy : c = out_job[w].conn
  BY <1>5
<1>8. /\ InHand \subseteq Conns /\ WaitingConns \subseteq Conns
      /\ ServedConns \subseteq Conns
  BY <1>2, <1>3, <1>7
<1>9. /\ InHand \cap WaitingConns = {} /\ InHand \cap ServedConns = {}
      /\ WaitingConns \cap ServedConns = {}
  BY <1>6, <1>7
<1>10. /\ \A c \in InHand \cup WaitingConns : phase[c] = "open"
       /\ \A c \in ServedConns : phase[c] \in {"open", "answered", "failed"}
  BY <1>6, <1>7
<1>11. \A c \in Conns : phase[c] = "open" =>
         c \in InHand \cup WaitingConns \cup ServedConns
  BY <1>4, <1>5, <1>6
<1> QED BY <1>8, <1>9, <1>10, <1>11 DEF PlaceInv

\* The mapped status, place by place.
ClientInv ==
  \A c \in Conns :
    /\ phase[c] = "away" => ClientStatus[c] = "away"
    /\ phase[c] = "backlog" => ClientStatus[c] = "connecting"
    /\ phase[c] = "reset" => ClientStatus[c] = "reset"
    /\ phase[c] = "turned_away" => ClientStatus[c] = "refused"
    /\ c \in InHand => ClientStatus[c] = IF pc = "reject" THEN "refused"
                                                          ELSE "connecting"
    /\ c \in WaitingConns => ClientStatus[c] = "waiting"
    /\ c \in ServedConns => ClientStatus[c] = "serving"
    /\ phase[c] \in {"answered", "failed"} /\ c \notin ServedConns =>
         ClientStatus[c] = "done"

\* With one place each, no two lines of the mapping compete.
LEMMA Clients == ServerInv => ClientInv
<1> SUFFICES ASSUME ServerInv, NEW c \in Conns
             PROVE  /\ phase[c] = "away" => ClientStatus[c] = "away"
                    /\ phase[c] = "backlog" => ClientStatus[c] = "connecting"
                    /\ phase[c] = "reset" => ClientStatus[c] = "reset"
                    /\ phase[c] = "turned_away" => ClientStatus[c] = "refused"
                    /\ c \in InHand =>
                         ClientStatus[c] = IF pc = "reject" THEN "refused"
                                                            ELSE "connecting"
                    /\ c \in WaitingConns => ClientStatus[c] = "waiting"
                    /\ c \in ServedConns => ClientStatus[c] = "serving"
                    /\ phase[c] \in {"answered", "failed"}
                       /\ c \notin ServedConns => ClientStatus[c] = "done"
  BY DEF ClientInv
<1>1. /\ c \in InHand \cup WaitingConns => phase[c] = "open"
      /\ c \in ServedConns => phase[c] \in {"open", "answered", "failed"}
      /\ c \in InHand => c \notin WaitingConns /\ c \notin ServedConns
      /\ c \in WaitingConns => c \notin ServedConns
  BY Places DEF PlaceInv
<1> QED BY <1>1 DEF ClientStatus

\* Whose place is the same has the same status.
LEMMA SameStatus ==
  ASSUME ServerInv, PlaceInv, ClientInv, PlaceInv', ClientInv',
         NEW c \in Conns,
         phase'[c] = phase[c]
           \/ {phase[c], phase'[c]} \subseteq {"open", "answered", "failed"},
         c \in InHand' <=> c \in InHand,
         c \in WaitingConns' <=> c \in WaitingConns,
         c \in ServedConns' <=> c \in ServedConns,
         c \in InHand => (pc' = "reject" <=> pc = "reject")
  PROVE  ClientStatus'[c] = ClientStatus[c]
<1>1. phase[c] \in Phases
  BY DEF ServerInv, AcceptInv
<1> QED BY <1>1 DEF PlaceInv, ClientInv, Phases

\* Steps that change no client's status.
LEMMA UnseenStep ==
  ASSUME \A c \in Conns : ClientStatus'[c] = ClientStatus[c], Down' = Down
  PROVE  UNCHANGED Svc!svars
<1>1. ClientStatus' = ClientStatus
  BY DEF ClientStatus
<1> QED BY <1>1 DEF Svc!svars

\* Steps that change one.
LEMMA OneChanges ==
  ASSUME NEW c \in Conns, NEW s,
         \A d \in Conns \ {c} : ClientStatus'[d] = ClientStatus[d],
         ClientStatus'[c] = s
  PROVE  ClientStatus' = [ClientStatus EXCEPT ![c] = s]
<1>1. /\ ClientStatus = [d \in Conns |-> ClientStatus[d]]
      /\ ClientStatus' = [d \in Conns |-> ClientStatus'[d]]
  BY DEF ClientStatus
<1> QED BY <1>1

\* The cardinalities of the two modules are the library's.
LEMMA SameCardinality ==
  ASSUME NEW S
  PROVE  Svc!Cardinality(S) = Cardinality(S)
         /\ Service!Cardinality(S) = Cardinality(S)
BY DEF Cardinality, Svc!Cardinality, Service!Cardinality

\* The waiting connections are as many as the ring holds jobs, the served
\* ones as many as workers have one.
LEMMA ServiceCounts ==
  ASSUME ServerInv, PlaceInv, ClientInv
  PROVE  /\ Cardinality(Svc!In("waiting")) = count
         /\ Cardinality(Svc!In("serving")) = Cardinality(Busy)
<1> DEFINE q == Q!Queued
            S == 1 .. count
            f == [i \in S |-> q[i].conn]
            g == [w \in Busy |-> out_job[w].conn]
<1>1. JobInv /\ AcceptInv /\ QP!IInv
  BY DEF ServerInv
<1>2. count \in Nat
  BY <1>1, QueueTypes
<1>3. IsFiniteSet(S) /\ Cardinality(S) = count
  BY <1>2, FS_Interval
<1>4. Svc!In("waiting") = WaitingConns /\ Svc!In("serving") = ServedConns
  <2>1. \A c \in Conns : phase[c] \in Phases
    BY <1>1 DEF AcceptInv
  <2> QED BY <2>1 DEF Svc!In, PlaceInv, ClientInv, Phases
<1>5. /\ \A i, k \in S : f[i] = f[k] => i = k
      /\ {f[i] : i \in S} = WaitingConns
  BY <1>1 DEF JobInv, ConnectionInv, WaitingConns
<1>6. /\ \A v, w \in Busy : g[v] = g[w] => v = w
      /\ {g[w] : w \in Busy} = ServedConns
  BY <1>1 DEF JobInv, ConnectionInv, ServedConns
<1>7. IsFiniteSet(Busy)
  BY ServerAssumption, FS_Subset DEF Busy
<1> HIDE DEF S, f, g
<1>8. Cardinality({f[i] : i \in S}) = count
  BY <1>3, <1>5, ImageCount
<1>9. Cardinality({g[w] : w \in Busy}) = Cardinality(Busy)
  BY <1>6, <1>7, ImageCount
<1> QED BY <1>4, <1>5, <1>6, <1>8, <1>9

-----------------------------------------------------------------------------
(* Step by step. *)

\* A step that moves no job, decides about nobody and leaves the listen
\* socket as it is cannot be seen.
LEMMA QuietStep ==
  ASSUME ServerInv, PlaceInv, ClientInv, PlaceInv', ClientInv',
         UNCHANGED <<InHand, WaitingConns, ServedConns>>, Down' = Down,
         \A c \in Conns :
           phase'[c] = phase[c]
             \/ {phase[c], phase'[c]} \subseteq {"open", "answered", "failed"},
         InHand # {} => (pc' = "reject" <=> pc = "reject")
  PROVE  UNCHANGED Svc!svars
<1>1. \A c \in Conns : ClientStatus'[c] = ClientStatus[c]
  BY SameStatus
<1> QED BY <1>1, UnseenStep

\* The jobs are where they were, so are their connections.
LEMMA SamePlaces ==
  ASSUME Q!Queued' = Q!Queued, count' = count, out_job' = out_job,
         Busy' = Busy
  PROVE  UNCHANGED <<WaitingConns, ServedConns>>
BY DEF WaitingConns, ServedConns

\* The listen socket goes: whoever was not admitted is reset.
LEMMA DrainStep ==
  ASSUME ServerInv, PlaceInv, ClientInv, PlaceInv', ClientInv',
         UNCHANGED <<client, WaitingConns, ServedConns>>,
         ResetBacklog \/ (phase' = phase /\ Backlog = {}),
         pc \notin {"push", "reject"}, ~ Down, Down'
  PROVE  Svc!Next
<1>1. \A c \in Conns : phase[c] \in Phases
  BY DEF ServerInv, AcceptInv
<1>2. InHand = {} /\ InHand' = {}
  BY DEF ServerInv, AcceptInv, InHand
<1>3. \A c \in Conns :
        phase'[c] = IF phase[c] = "backlog" THEN "reset" ELSE phase[c]
  BY <1>1 DEF ResetBacklog, Backlog
<1>4. ASSUME NEW c \in Conns
      PROVE  ClientStatus'[c] = IF ClientStatus[c] = "connecting"
                                THEN "reset" ELSE ClientStatus[c]
  <2>1. CASE phase[c] = "backlog"
    BY <1>3, <2>1 DEF ClientInv
  <2>2. CASE phase[c] # "backlog"
    <3>1. ClientStatus'[c] = ClientStatus[c]
      BY <1>2, <1>3, <2>2, SameStatus
    <3>2. ClientStatus[c] # "connecting"
      BY <1>1, <1>2, <2>2 DEF ClientInv, PlaceInv, Phases
    <3> QED BY <3>1, <3>2
  <2> QED BY <2>1, <2>2
<1>5. ClientStatus' = [c \in Conns |-> IF ClientStatus[c] = "connecting"
                                       THEN "reset" ELSE ClientStatus[c]]
  BY <1>4 DEF ClientStatus
<1> QED BY <1>5 DEF Svc!Next, Svc!Drain

\* Main's steps that accept nothing and pass nothing on: those that close the
\* listen socket, or give up before there is one, and the others.
LEMMA OtherMainSteps ==
  ASSUME ServerInv, PlaceInv, ClientInv, PlaceInv', ClientInv', MainStep,
         ~ (\E c \in Conns : Accept(c)), ~ Push, ~ PushRefused, ~ Reject
  PROVE  [Svc!Next]_Svc!svars
<1>1. AcceptInv /\ QP!IInv /\ ResourceInv
  BY DEF ServerInv
<1>2. UNCHANGED <<WaitingConns, ServedConns>>
  BY <1>1, OtherMainJobs, SamePlaces
<1>3. CASE PipeFails \/ (Unmask /\ pc' = "stop_active") \/ CloseEndpoints
  <2>1. /\ client' = client /\ ResetBacklog /\ pc \notin {"push", "reject"}
        /\ ~ Down /\ Down'
    BY <1>3 DEF PipeFails, Unmask, CloseEndpoints, mainVars, Down, Cleanup
  <2> QED BY <1>2, <2>1, DrainStep
<1>4. CASE \/ (Allocate /\ pc' = "free") \/ (Spawn /\ pc' = "stop_active")
           \/ (Listen /\ pc' = "stop_active")
  <2>1. /\ client' = client /\ phase' = phase /\ pc \notin {"push", "reject"}
        /\ ~ Down /\ Down' /\ "listener" \notin held
    BY <1>1, <1>4 DEF Allocate, Spawn, Listen, Down, Cleanup, ResourceInv
  <2>2. Backlog = {}
    BY <1>1, <2>1 DEF ResourceInv, Backlog
  <2> QED BY <1>2, <2>1, <2>2, DrainStep
<1>5. CASE /\ ~ (PipeFails \/ (Unmask /\ pc' = "stop_active")
                  \/ CloseEndpoints)
           /\ ~ (\/ (Allocate /\ pc' = "free")
                 \/ (Spawn /\ pc' = "stop_active")
                 \/ (Listen /\ pc' = "stop_active"))
  <2>1. UNCHANGED <<client, phase>> /\ pc # "reject" /\ pc' # "reject"
        /\ Down' = Down
    <3> USE DEF mainVars, Down, Cleanup
    <3>1. CASE Allocate
      <4>1. CASE pc = "queue"
        BY <1>5, <3>1, <4>1 DEF Allocate
      <4>2. CASE pc = "active"
        BY <1>5, <3>1, <4>2 DEF Allocate
      <4>3. CASE pc = "workers"
        BY <1>5, <3>1, <4>3 DEF Allocate
      <4> QED BY <3>1, <4>1, <4>2, <4>3 DEF Allocate
    <3>2. CASE Spawn \/ Listen \/ PipeMade \/ Unmask
      BY <1>5, <3>2 DEF Spawn, Listen, PipeMade, Unmask
    <3>3. CASE \/ Loop \/ Poll \/ Drain \/ Check \/ AcceptLoop
               \/ AcceptNothing \/ AcceptFails
      BY <3>3 DEF Loop, Poll, Drain, Check, AcceptLoop, AcceptNothing,
                  AcceptFails
    <3>4. CASE \/ BlockSignals \/ ForgetPipe \/ StopActive \/ StopQueue
               \/ Join \/ Free \/ Restore
      BY <3>4 DEF BlockSignals, ForgetPipe, StopActive, StopQueue, Join, Free,
                  Restore
    <3> QED BY <1>5, <3>1, <3>2, <3>3, <3>4 DEF MainStep
  <2>2. InHand' = InHand
    BY <2>1 DEF InHand
  <2> QED BY <1>2, <2>1, <2>2, QuietStep
<1> QED BY <1>3, <1>4, <1>5

\* accept() takes a client that is connecting; only main knows.
LEMMA TakenStep ==
  ASSUME ServerInv, PlaceInv, ClientInv, PlaceInv', ClientInv',
         NEW c \in Conns, Accept(c)
  PROVE  UNCHANGED Svc!svars
<1>1. AcceptInv /\ QP!IInv
  BY DEF ServerInv
<1>2. UNCHANGED <<WaitingConns, ServedConns>>
  BY <1>1, OtherMainJobs, SamePlaces DEF MainStep, Accept, Push
<1>3. /\ phase[c] = "backlog" /\ phase' = [phase EXCEPT ![c] = "open"]
      /\ InHand = {} /\ InHand' = {c} /\ pc' = "push" /\ Down' = Down
  <2>1. client = NoClient /\ client' = [fd |-> LowestFreeFd, conn |-> c]
        /\ pc = "accepting" /\ pc' = "push"
    BY <1>1 DEF Accept, AcceptInv
  <2>2. client' # NoClient
    BY <2>1, ServerAssumption DEF NoClient
  <2> QED BY <2>1, <2>2 DEF Accept, Backlog, InHand, Down, Cleanup
<1>4. \A d \in Conns \ {c} : ClientStatus'[d] = ClientStatus[d]
  BY <1>1, <1>2, <1>3, SameStatus DEF AcceptInv
<1>5. ClientStatus'[c] = ClientStatus[c]
  BY <1>3 DEF ClientInv
<1> QED BY <1>3, <1>4, <1>5, UnseenStep

\* TryPush admits the client.
LEMMA PushStep ==
  ASSUME ServerInv, PlaceInv, ClientInv, PlaceInv', ClientInv', QP!IInv', Push
  PROVE  Svc!Next
<1> DEFINE q == Q!Queued
           c == client.conn
<1>1. AcceptInv /\ QP!IInv /\ (stopped => pc \in Draining)
  BY DEF ServerInv
<1>2. /\ client \in Job /\ client # NoClient /\ client' = NoClient
      /\ count' = count + 1 /\ count \in Nat
      /\ \A i \in 1 .. count : q'[i] = q[i]
      /\ q'[count + 1] = client
      /\ Busy' = Busy /\ out_job' = out_job
  BY <1>1, PushedJob, QueueTypes
<1>3. c \in Conns
  BY <1>2 DEF Job
<1>4. InHand = {c} /\ InHand' = {} /\ ServedConns' = ServedConns
  BY <1>2 DEF InHand, ServedConns
<1>5. WaitingConns' = WaitingConns \cup {c}
  <2>1. 1 .. count' = 1 .. count \cup {count + 1}
    BY <1>2
  <2>2. /\ WaitingConns' = {q'[i].conn : i \in 1 .. count'}
        /\ WaitingConns = {q[i].conn : i \in 1 .. count}
    BY DEF WaitingConns
  <2> HIDE DEF q
  <2> QED BY <1>2, <2>1, <2>2
<1>6. phase' = phase /\ pc = "push" /\ pc' = "accept" /\ count # Capacity
      /\ ~ Down /\ Down' = Down
  BY DEF Push, Q!TryPush, Down, Cleanup
<1>7. \A d \in Conns \ {c} : ClientStatus'[d] = ClientStatus[d]
  BY <1>4, <1>5, <1>6, SameStatus
<1>8. ClientStatus[c] = "connecting" /\ ClientStatus'[c] = "waiting"
  BY <1>3, <1>4, <1>5, <1>6 DEF ClientInv
<1>9. ClientStatus' = [ClientStatus EXCEPT ![c] = "waiting"]
  BY <1>3, <1>7, <1>8, OneChanges
<1>10. Cardinality(Svc!In("waiting")) < Capacity
  BY <1>1, <1>6, ServiceCounts, QueueTypes, ServerAssumption
<1> QED BY <1>3, <1>6, <1>8, <1>9, <1>10, SameCardinality
        DEF Svc!Next, Svc!Admit, Svc!Becomes

\* TryPush refuses a client only with Capacity jobs in the ring.
LEMMA RefuseStep ==
  ASSUME ServerInv, PlaceInv, ClientInv, PlaceInv', ClientInv', PushRefused
  PROVE  Svc!Next
<1> DEFINE c == client.conn
<1>1. AcceptInv /\ QP!IInv /\ (stopped => pc \in Draining)
  BY DEF ServerInv
<1>2. UNCHANGED <<WaitingConns, ServedConns>>
  BY <1>1, OtherMainJobs, SamePlaces DEF MainStep, PushRefused, Push
<1>3. /\ pc = "push" /\ pc' = "reject" /\ phase' = phase /\ client' = client
      /\ ~ Down /\ Down' = Down /\ (stopped \/ count = Capacity)
  BY DEF PushRefused, Q!TryPushRefuses, Down, Cleanup, mainVars
<1>4. client # NoClient /\ c \in Conns
  BY <1>1, <1>3 DEF AcceptInv, Job
<1>5. InHand = {c} /\ InHand' = {c}
  BY <1>3, <1>4 DEF InHand
<1>6. \A d \in Conns \ {c} : ClientStatus'[d] = ClientStatus[d]
  BY <1>2, <1>3, <1>5, SameStatus
<1>7. ClientStatus[c] = "connecting" /\ ClientStatus'[c] = "refused"
  BY <1>3, <1>4, <1>5 DEF ClientInv
<1>8. ClientStatus' = [ClientStatus EXCEPT ![c] = "refused"]
  BY <1>4, <1>6, <1>7, OneChanges
<1>9. Cardinality(Svc!In("waiting")) = Capacity
  BY <1>1, <1>3, ServiceCounts DEF Draining
<1> QED BY <1>3, <1>4, <1>7, <1>8, <1>9, SameCardinality
        DEF Svc!Next, Svc!TurnAway, Svc!Becomes

\* Its 503 answer and the close come later, and change nothing for it.
LEMMA RejectStep ==
  ASSUME ServerInv, PlaceInv, ClientInv, PlaceInv', ClientInv', Reject
  PROVE  UNCHANGED Svc!svars
<1> DEFINE c == client.conn
<1>1. AcceptInv /\ QP!IInv
  BY DEF ServerInv
<1>2. UNCHANGED <<WaitingConns, ServedConns>>
  BY <1>1, OtherMainJobs, SamePlaces DEF MainStep, Reject, Push
<1>3. /\ pc = "reject" /\ pc' = "accept" /\ client' = NoClient
      /\ phase' = [phase EXCEPT ![c] = "turned_away"]
      /\ Down' = Down
  BY DEF Reject, Down, Cleanup
<1>4. client # NoClient /\ c \in Conns
  BY <1>1, <1>3 DEF AcceptInv, Job
<1>5. InHand = {c} /\ InHand' = {}
  BY <1>3, <1>4 DEF InHand
<1>6. phase'[c] = "turned_away" /\ \A d \in Conns \ {c} : phase'[d] = phase[d]
  BY <1>1, <1>3, <1>4 DEF AcceptInv
<1>7. \A d \in Conns \ {c} : ClientStatus'[d] = ClientStatus[d]
  BY <1>2, <1>5, <1>6, SameStatus
<1>8. ClientStatus'[c] = ClientStatus[c]
  BY <1>3, <1>4, <1>5, <1>6 DEF ClientInv
<1> QED BY <1>3, <1>7, <1>8, UnseenStep

\* Pop starts to serve the client that waited longest.
LEMMA PopStep ==
  ASSUME ServerInv, PlaceInv, ClientInv, PlaceInv', ClientInv', QP!IInv',
         NEW w \in Workers, PopJob(w)
  PROVE  Svc!Next
<1> DEFINE q == Q!Queued
           c == q[1].conn
<1>1. AcceptInv /\ QP!IInv /\ JobInv
  BY DEF ServerInv
<1>2. /\ count \in Nat /\ count > 0 /\ count' = count - 1
      /\ w \notin Busy /\ Busy' = Busy \cup {w}
      /\ out_job'[w] = q[1]
      /\ \A v \in Workers \ {w} : out_job'[v] = out_job[v]
      /\ \A i \in 1 .. count - 1 : q'[i] = q[i + 1]
  BY <1>1, PoppedJob, QueueTypes DEF PopJob
<1>3. /\ phase' = phase /\ client' = client /\ pc' = pc /\ Down' = Down
      /\ InHand' = InHand
  BY DEF PopJob, mainVars, Down, InHand
<1>4. WaitingConns = {q[i].conn : i \in 1 .. count}
      /\ WaitingConns' = {q'[i].conn : i \in 1 .. count'}
  BY DEF WaitingConns
<1>5. ServedConns = {out_job[v].conn : v \in Busy}
      /\ ServedConns' = {out_job'[v].conn : v \in Busy'}
  BY DEF ServedConns
<1>6. Busy \subseteq Workers \ {w}
  BY <1>2 DEF Busy
<1>7. \A i, k \in 1 .. count : q[i].conn = q[k].conn => i = k
  BY <1>1 DEF JobInv, ConnectionInv
<1>8. q[1] \in Job
  BY <1>1, <1>2, QueueTypes
<1> HIDE DEF q
<1>9. c \in Conns /\ c \in WaitingConns
  BY <1>2, <1>4, <1>8 DEF Job
<1>10. WaitingConns' = WaitingConns \ {c}
  <2>1. ASSUME NEW d \in WaitingConns' PROVE d \in WaitingConns \ {c}
    <3>1. PICK i \in 1 .. count - 1 : d = q[i + 1].conn
      BY <1>2, <1>4
    <3> QED BY <1>2, <1>4, <1>7, <3>1
  <2>2. ASSUME NEW d \in WaitingConns, d # c PROVE d \in WaitingConns'
    <3>1. PICK i \in 1 .. count : d = q[i].conn
      BY <1>4
    <3>2. i - 1 \in 1 .. count - 1 /\ q'[i - 1] = q[(i - 1) + 1]
      BY <1>2, <2>2, <3>1
    <3> QED BY <1>2, <1>4, <3>1, <3>2
  <2> QED BY <2>1, <2>2
<1>11. ServedConns' = ServedConns \cup {c}
  BY <1>2, <1>5, <1>6
<1>12. \A d \in Conns \ {c} : ClientStatus'[d] = ClientStatus[d]
  BY <1>3, <1>10, <1>11, SameStatus
<1>13. ClientStatus[c] = "waiting" /\ ClientStatus'[c] = "serving"
  BY <1>9, <1>11 DEF ClientInv
<1>14. ClientStatus' = [ClientStatus EXCEPT ![c] = "serving"]
  BY <1>9, <1>12, <1>13, OneChanges
<1>15. Cardinality(Svc!In("serving")) < Cardinality(Workers)
  <2>1. /\ IsFiniteSet(Workers \ {w}) /\ Cardinality(Workers) \in Nat
        /\ Cardinality(Workers \ {w}) = Cardinality(Workers) - 1
    BY ServerAssumption, FS_RemoveElement, FS_CardinalityType
  <2>2. Cardinality(Busy) <= Cardinality(Workers \ {w})
        /\ Cardinality(Busy) \in Nat
    BY <1>6, <2>1, FS_Subset, FS_CardinalityType
  <2> QED BY <2>1, <2>2, ServiceCounts
<1> QED BY <1>3, <1>9, <1>13, <1>14, <1>15, SameCardinality
        DEF Svc!Next, Svc!Serve, Svc!Becomes

\* The close ends the service of a client.
LEMMA DoneStep ==
  ASSUME ServerInv, PlaceInv, ClientInv, PlaceInv', ClientInv',
         NEW w \in Workers,
         CloseJob(w) \/ (RegisterJob(w) /\ A!FreeSlots = {})
  PROVE  Svc!Next
<1> DEFINE c == out_job[w].conn
<1>1. AcceptInv /\ QP!IInv /\ JobInv
  BY DEF ServerInv
<1>2. /\ Q!Queued' = Q!Queued /\ count' = count /\ out_job' = out_job
      /\ w \in Busy /\ Busy' = Busy \ {w}
  BY <1>1, DoneJob DEF CloseJob, RegisterJob
<1>3. out_job[w] \in Job /\ c \in Conns
  <2>1. out_job[w] \in Job
    BY <1>1, <1>2, QueueTypes DEF Busy
  <2> QED BY <2>1 DEF Job
<1>4. /\ UNCHANGED <<client, pc>> /\ Down' = Down /\ InHand' = InHand
      /\ WaitingConns' = WaitingConns
  BY <1>2 DEF CloseJob, RegisterJob, mainVars, Down, InHand, WaitingConns
<1>5. ServedConns' = ServedConns \ {c} /\ c \in ServedConns
  <2>1. \A v \in Busy : out_job[v].conn = c => v = w
    BY <1>1, <1>2 DEF JobInv, ConnectionInv
  <2> QED BY <1>2, <2>1 DEF ServedConns
<1>6. /\ phase'[c] \in {"answered", "failed"}
      /\ \A d \in Conns \ {c} : phase'[d] = phase[d]
  <2>1. CASE CloseJob(w)
    BY <1>1, <1>2, <2>1 DEF CloseJob, At, JobInv, ConnectionInv
  <2>2. CASE RegisterJob(w) /\ A!FreeSlots = {}
    BY <1>1, <1>3, <2>2 DEF RegisterJob, AcceptInv
  <2> QED BY <2>1, <2>2
<1>7. \A d \in Conns \ {c} : ClientStatus'[d] = ClientStatus[d]
  BY <1>4, <1>5, <1>6, SameStatus
<1>8. ClientStatus[c] = "serving" /\ ClientStatus'[c] = "done"
  BY <1>3, <1>5, <1>6 DEF ClientInv
<1>9. ClientStatus' = [ClientStatus EXCEPT ![c] = "done"]
  BY <1>3, <1>7, <1>8, OneChanges
<1> QED BY <1>3, <1>4, <1>8, <1>9 DEF Svc!Next, Svc!Finish, Svc!Becomes

\* The rest of a worker's life is its own.
LEMMA WorkStep ==
  ASSUME ServerInv, PlaceInv, ClientInv, PlaceInv', ClientInv',
         NEW w \in Workers,
         \/ PopNothing(w) \/ Spurious(w) \/ AllocateBuffers(w) \/ ReadEnds(w)
         \/ Respond(w) \/ (RegisterJob(w) /\ A!FreeSlots # {})
  PROVE  UNCHANGED Svc!svars
<1>1. AcceptInv /\ QP!IInv /\ JobInv
  BY DEF ServerInv
<1>2. UNCHANGED <<WaitingConns, ServedConns>>
  BY <1>1, OtherWorkerJobs, SamePlaces
<1>3. UNCHANGED <<client, pc>>
  BY DEF PopNothing, Spurious, AllocateBuffers, ReadEnds, Respond, RegisterJob,
         mainVars
<1>4. InHand' = InHand /\ Down' = Down
  BY <1>3 DEF InHand, Down
<1>5. \/ phase' = phase
      \/ /\ w \in Busy
         /\ \E r \in {"answered", "failed"} :
              phase' = [phase EXCEPT ![out_job[w].conn] = r]
  BY DEF PopNothing, Spurious, AllocateBuffers, ReadEnds, Respond, RegisterJob,
         At, Busy
<1>6. \A c \in Conns :
        phase'[c] = phase[c]
          \/ {phase[c], phase'[c]} \subseteq {"open", "answered", "failed"}
  <2>1. w \in Busy => phase[out_job[w].conn] \in {"open", "answered", "failed"}
    BY <1>1 DEF JobInv, ConnectionInv
  <2> QED BY <1>1, <1>5, <2>1 DEF AcceptInv
<1> QED BY <1>2, <1>3, <1>4, <1>6, QuietStep

\* A client connects while there is a listen socket; signals are not seen.
LEMMA EnvironmentStep ==
  ASSUME ServerInv, PlaceInv, ClientInv, PlaceInv', ClientInv',
         \/ (\E c \in Conns : Connect(c)) \/ SendSignal \/ HandleSignal
         \/ UNCHANGED vars
  PROVE  [Svc!Next]_Svc!svars
<1>1. AcceptInv /\ QP!IInv /\ ResourceInv
  BY DEF ServerInv
<1>2. UNCHANGED <<WaitingConns, ServedConns>>
  BY <1>1, OtherJobs, SamePlaces
<1>3. InHand' = InHand
  BY DEF Connect, SendSignal, HandleSignal, vars, mainVars, InHand
<1>4. CASE SendSignal \/ HandleSignal \/ UNCHANGED vars
  <2>1. phase' = phase /\ Down' = Down /\ (pc' = "reject" <=> pc = "reject")
    BY <1>4 DEF SendSignal, HandleSignal, vars, Down, Cleanup
  <2> QED BY <1>2, <1>3, <2>1, QuietStep
<1>5. ASSUME NEW c \in Conns, Connect(c) PROVE Svc!Next
  <2>1. phase[c] = "away" /\ phase' = [phase EXCEPT ![c] = "backlog"]
        /\ pc' = pc /\ "listener" \in held
    BY <1>5 DEF Connect
  <2>2. ~ Down /\ Down' = Down
    BY <1>1, <2>1 DEF ResourceInv, Draining, Down, Cleanup
  <2>3. phase'[c] = "backlog" /\ \A d \in Conns \ {c} : phase'[d] = phase[d]
    BY <1>1, <2>1 DEF AcceptInv
  <2>4. \A d \in Conns \ {c} : ClientStatus'[d] = ClientStatus[d]
    BY <1>2, <1>3, <2>1, <2>3, SameStatus
  <2>5. ClientStatus[c] = "away" /\ ClientStatus'[c] = "connecting"
    BY <2>1, <2>3 DEF ClientInv
  <2>6. ClientStatus' = [ClientStatus EXCEPT ![c] = "connecting"]
    BY <2>4, <2>5, OneChanges
  <2> QED BY <2>2, <2>5, <2>6 DEF Svc!Next, Svc!Arrive, Svc!Becomes
<1> QED BY <1>4, <1>5

\* Every step is a step of the service or none.
LEMMA ServiceStep ==
  ASSUME ServerInv, PlaceInv, ClientInv, ServerInv', PlaceInv', ClientInv',
         [Next]_vars
  PROVE  [Svc!Next]_Svc!svars
<1>1. QP!IInv'
  BY DEF ServerInv
<1>2. CASE MainStep
  <2>1. CASE \E c \in Conns : Accept(c)
    BY <2>1, TakenStep
  <2>2. CASE Push
    BY <1>1, <2>2, PushStep
  <2>3. CASE PushRefused
    BY <2>3, RefuseStep
  <2>4. CASE Reject
    BY <2>4, RejectStep
  <2>5. CASE ~ (\E c \in Conns : Accept(c)) /\ ~ Push /\ ~ PushRefused
             /\ ~ Reject
    BY <1>2, <2>5, OtherMainSteps
  <2> QED BY <2>1, <2>2, <2>3, <2>4, <2>5
<1>3. CASE \E w \in Workers :
             \/ PopNothing(w) \/ PopJob(w) \/ Spurious(w) \/ RegisterJob(w)
             \/ AllocateBuffers(w) \/ ReadEnds(w) \/ Respond(w) \/ CloseJob(w)
  BY <1>1, <1>3, PopStep, DoneStep, WorkStep
<1>4. CASE \/ (\E c \in Conns : Connect(c)) \/ SendSignal \/ HandleSignal
           \/ UNCHANGED vars
  BY <1>4, EnvironmentStep
<1> QED BY <1>2, <1>3, <1>4 DEF Next, Terminated

\* All clients are away, and the server is not draining.
LEMMA ServiceInit == Init => Svc!Init
<1> SUFFICES ASSUME Init PROVE Svc!Init
  OBVIOUS
<1>1. \A c \in Conns : phase[c] = "away"
  BY DEF Init
<1>2. ClientStatus = [c \in Conns |-> "away"]
  <2>1. \A c \in Conns : ClientStatus[c] = "away"
    <3>1. InHand = {} /\ WaitingConns = {} /\ ServedConns = {}
      BY DEF Init, Q!Init, InHand, WaitingConns, ServedConns, Busy
    <3> QED BY <1>1, <3>1 DEF ClientStatus
  <2>2. ClientStatus = [c \in Conns |-> ClientStatus[c]]
    BY DEF ClientStatus
  <2> QED BY <2>1, <2>2
<1>3. Down = FALSE
  BY DEF Init, Down, Cleanup
<1> QED BY <1>2, <1>3 DEF Svc!Init

\* The mapping is the one NativeServer checks.
LEMMA SameService ==
  /\ Svc!Init <=> Service!Init
  /\ Svc!Next <=> Service!Next
  /\ (UNCHANGED Svc!svars) <=> (UNCHANGED Service!svars)
<1> USE DEF ClientStatus, Down
<1>1. Svc!Init <=> Service!Init
  BY DEF Svc!Init, Service!Init
<1>2. (UNCHANGED Svc!svars) <=> (UNCHANGED Service!svars)
  BY DEF Svc!svars, Service!svars
<1>3. ASSUME NEW c, NEW from, NEW to
      PROVE  Svc!Becomes(c, from, to) <=> Service!Becomes(c, from, to)
  BY DEF Svc!Becomes, Service!Becomes
<1>4. ASSUME NEW s
      PROVE  Svc!In(s) = Service!In(s)
  BY DEF Svc!In, Service!In
<1>5. ASSUME NEW c
      PROVE  Svc!Arrive(c) <=> Service!Arrive(c)
  BY <1>3 DEF Svc!Arrive, Service!Arrive
<1>6. ASSUME NEW c
      PROVE  Svc!Admit(c) <=> Service!Admit(c)
  BY <1>3, <1>4, SameCardinality DEF Svc!Admit, Service!Admit
<1>7. ASSUME NEW c
      PROVE  Svc!TurnAway(c) <=> Service!TurnAway(c)
  BY <1>3, <1>4, SameCardinality DEF Svc!TurnAway, Service!TurnAway
<1>8. ASSUME NEW c
      PROVE  Svc!Serve(c) <=> Service!Serve(c)
  BY <1>3, <1>4, SameCardinality DEF Svc!Serve, Service!Serve
<1>9. ASSUME NEW c
      PROVE  Svc!Finish(c) <=> Service!Finish(c)
  BY <1>3 DEF Svc!Finish, Service!Finish
<1>10. Svc!Drain <=> Service!Drain
  BY DEF Svc!Drain, Service!Drain
<1> QED BY <1>1, <1>2, <1>5, <1>6, <1>7, <1>8, <1>9, <1>10
        DEF Svc!Next, Service!Next

\* What server_main.c does with its threads, its ring, its registry and its
\* signals is, for a client, the service: a connection is turned away only
\* while queue_capacity others wait, at most one per worker is served, nobody
\* is admitted, turned away or reset after having been admitted, and closing
\* the listen socket resets exactly those that were not accepted.
THEOREM ServiceHolds == SafeSpec => ServiceSafe
<1>1. ServerInv => PlaceInv /\ ClientInv
  BY Places, Clients
<1>2. ServerInv /\ PlaceInv /\ ClientInv /\ ServerInv' /\ PlaceInv'
      /\ ClientInv' /\ [Next]_vars => [Service!Next]_Service!svars
  BY ServiceStep, SameService
<1>3. Init => Service!Init
  BY ServiceInit, SameService
<1> QED BY <1>1, <1>2, <1>3, ServerAlways, PTL
        DEF SafeSpec, ServiceSafe, Service!SafeSpec
=============================================================================

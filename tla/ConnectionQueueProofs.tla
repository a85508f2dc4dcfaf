----------------------- MODULE ConnectionQueueProofs ------------------------
(***************************************************************************)
(* ConnectionQueue for every set of jobs, every finite set of consumers    *)
(* and every capacity: the ring keeps the order of the jobs, no wakeup is  *)
(* lost, and the safety part of ConnectionFifo is implemented.             *)
(***************************************************************************)
EXTENDS ConnectionQueue, TLAPS, FiniteSetTheorems, SequenceTheorems

-----------------------------------------------------------------------------
\* The tail index is where the next job goes: count cells after the head.
TailFollows == tail = Cell(count)

\* Every queued cell holds a job that was really pushed.
QueuedAreJobs == \A i \in 0 .. count - 1 : jobs[Cell(i)] \in Jobs

\* A consumer that works got its job from the ring.
WorkersHoldJobs ==
  \A c \in Consumers : caller[c] = "working" => out_job[c] \in Jobs

\* The counter counts the consumers between the two sides of the wait.
WaitersCounted ==
  waiting_consumers = Cardinality(Waiting) + Cardinality(Woken)

RingInv == TypeOK /\ TailFollows /\ QueuedAreJobs /\ WorkersHoldJobs
                  /\ WaitersCounted

\* The inductive invariant.
IInv == /\ RingInv
        /\ FifoOrder
        /\ NoLostWakeup
        /\ StopWakesAll
        /\ DrainedBeforeExit

-----------------------------------------------------------------------------
\* Advancing a ring index by one, as the code does it with a remainder.
LEMMA RingIncrement ==
  ASSUME NEW N \in Nat \ {0}, NEW i \in 0 .. N - 1
  PROVE  (i + 1) % N = IF i + 1 = N THEN 0 ELSE i + 1
<1>1. CASE i + 1 = N
  BY <1>1, SMT
<1>2. CASE i + 1 # N
  BY <1>2, SMT
<1> QED BY <1>1, <1>2

\* Splitting the head off a non-empty sequence.
LEMMA HeadThenTail ==
  ASSUME NEW S, NEW p \in Seq(S), NEW q \in Seq(S), q # <<>>
  PROVE  Append(p, Head(q)) \o Tail(q) = p \o q
<1>1. /\ Head(q) \in S /\ Tail(q) \in Seq(S) /\ Len(Tail(q)) = Len(q) - 1
      /\ \A i \in 1 .. Len(Tail(q)) : Tail(q)[i] = q[i + 1]
  BY HeadTailProperties
<1>2. /\ Append(p, Head(q)) \in Seq(S)
      /\ Len(Append(p, Head(q))) = Len(p) + 1
  BY <1>1, AppendProperties
<1>3. Head(q) = q[1] /\ Len(q) \in Nat /\ Len(p) \in Nat
  BY LenProperties
<1>. DEFINE s == Append(p, Head(q)) \o Tail(q)
            t == p \o q
<1>4. /\ s \in Seq(S) /\ Len(s) = Len(p) + Len(q)
      /\ t \in Seq(S) /\ Len(t) = Len(p) + Len(q)
  BY <1>1, <1>2, <1>3, ConcatProperties
<1>5. ASSUME NEW i \in 1 .. Len(s) PROVE s[i] = t[i]
  <2>1. t[i] = IF i <= Len(p) THEN p[i] ELSE q[i - Len(p)]
    BY <1>4, ConcatProperties
  <2>2. s[i] = IF i <= Len(p) + 1 THEN Append(p, Head(q))[i]
                                  ELSE Tail(q)[i - (Len(p) + 1)]
    BY <1>1, <1>2, <1>3, <1>4, ConcatProperties
  <2>3. i <= Len(p) => Append(p, Head(q))[i] = p[i]
    BY <1>1, <1>3, AppendProperties
  <2>4. Append(p, Head(q))[Len(p) + 1] = q[1]
    BY <1>1, <1>3, AppendProperties
  <2>5. i > Len(p) + 1 => Tail(q)[i - (Len(p) + 1)] = q[i - Len(p)]
    BY <1>1, <1>3, <1>4
  <2> QED BY <2>1, <2>2, <2>3, <2>4, <2>5, <1>3, <1>4
<1> QED BY <1>4, <1>5, SeqEqual

-----------------------------------------------------------------------------
\* What the ring holds is a sequence of jobs.
LEMMA QueuedIsSeq ==
  ASSUME TypeOK, QueuedAreJobs, QueueAssumption
  PROVE  Queued \in Seq(Jobs) /\ Len(Queued) = count
<1>1. count \in Nat
  BY DEF TypeOK, QueueAssumption
<1>2. \A i \in 1 .. count : i - 1 \in 0 .. count - 1
  BY <1>1
<1>3. \A i \in 1 .. count : jobs[Cell(i - 1)] \in Jobs
  BY <1>2 DEF QueuedAreJobs
<1>4. Queued \in [1 .. count -> Jobs]
  BY <1>3 DEF Queued
<1> QED BY <1>1, <1>4

\* The same of the next state.
LEMMA QueuedIsSeqNext ==
  ASSUME TypeOK', QueuedAreJobs', QueueAssumption
  PROVE  Queued' \in Seq(Jobs) /\ Len(Queued') = count'
<1>1. count' \in Nat
  BY DEF TypeOK, QueueAssumption
<1>2. \A n \in Nat : \A i \in 1 .. n : i - 1 \in 0 .. n - 1
  OBVIOUS
<1>3. \A i \in 1 .. count' : jobs'[Cell(i - 1)'] \in Jobs
  BY <1>1, <1>2 DEF QueuedAreJobs
<1>4. Queued' \in [1 .. count' -> Jobs]
  BY <1>3 DEF Queued
<1> QED BY <1>1, <1>4

\* A push appends the job to what the ring holds.
LEMMA PushAppends ==
  ASSUME RingInv, QueueAssumption, NEW j \in Jobs, TryPush(j), TypeOK',
         QueuedAreJobs'
  PROVE  Queued' = Append(Queued, j)
<1>. USE DEF QueueAssumption
<1>1. Queued \in Seq(Jobs) /\ Len(Queued) = count
  BY QueuedIsSeq DEF RingInv
<1>2. Queued' \in Seq(Jobs) /\ Len(Queued') = count'
  BY QueuedIsSeqNext
<1>3. count \in Nat /\ count' = count + 1 /\ count < Capacity
  BY DEF TryPush, RingInv, TypeOK
<1>4. Append(Queued, j) \in Seq(Jobs) /\ Len(Append(Queued, j)) = count + 1
  BY <1>1, AppendProperties
<1>5. ASSUME NEW i \in 1 .. count + 1
      PROVE  Queued'[i] = Append(Queued, j)[i]
  <2>1. Queued'[i] = jobs'[Cell(i - 1)']
    BY <1>3 DEF Queued
  <2>2. Cell(i - 1)' = Cell(i - 1)
    BY DEF TryPush, Cell
  <2>3. CASE i = count + 1
    <3>1. Cell(i - 1) = tail
      BY <2>3, <1>3 DEF RingInv, TailFollows
    <3>2. jobs'[tail] = j
      BY DEF TryPush, RingInv, TypeOK
    <3>3. Append(Queued, j)[i] = j
      BY <1>1, <2>3, AppendProperties
    <3> QED BY <2>1, <2>2, <3>1, <3>2, <3>3
  <2>4. CASE i # count + 1
    <3>1. i \in 1 .. count /\ i - 1 \in 0 .. count - 1
      BY <2>4, <1>3
    <3>2. Cell(i - 1) # tail /\ Cell(i - 1) \in 0 .. Capacity - 1
      BY <3>1, <1>3 DEF RingInv, TypeOK, TailFollows, Cell
    <3>3. jobs'[Cell(i - 1)] = jobs[Cell(i - 1)]
      BY <3>2 DEF TryPush, RingInv, TypeOK
    <3>4. Append(Queued, j)[i] = Queued[i]
      BY <1>1, <3>1, AppendProperties
    <3>5. Queued[i] = jobs[Cell(i - 1)]
      BY <3>1 DEF Queued
    <3> QED BY <2>1, <2>2, <3>3, <3>4, <3>5
  <2> QED BY <2>3, <2>4
<1> QED BY <1>2, <1>3, <1>4, <1>5, SeqEqual

\* A pop takes the oldest job and leaves the others in their order.
LEMMA PopRemovesHead ==
  ASSUME RingInv, QueueAssumption, NEW c \in Consumers, PopTake(c), TypeOK',
         QueuedAreJobs'
  PROVE  /\ Queued # <<>>
         /\ Head(Queued) = jobs[head]
         /\ Queued' = Tail(Queued)
<1>. USE DEF QueueAssumption
<1>1. Queued \in Seq(Jobs) /\ Len(Queued) = count
  BY QueuedIsSeq DEF RingInv
<1>2. Queued' \in Seq(Jobs) /\ Len(Queued') = count'
  BY QueuedIsSeqNext
<1>3. count \in Nat /\ count > 0 /\ count' = count - 1 /\ count <= Capacity
      /\ head \in 0 .. Capacity - 1
  BY DEF PopTake, RingInv, TypeOK
<1>4. Queued # <<>>
  BY <1>1, <1>3
<1>5. Head(Queued) = jobs[head]
  <2>1. Head(Queued) = Queued[1]
    BY <1>1, <1>4
  <2>2. Queued[1] = jobs[Cell(0)]
    BY <1>3 DEF Queued
  <2>3. Cell(0) = head
    BY <1>3 DEF Cell
  <2> QED BY <2>1, <2>2, <2>3
<1>6. Tail(Queued) \in Seq(Jobs) /\ Len(Tail(Queued)) = count - 1
      /\ \A i \in 1 .. count - 1 : Tail(Queued)[i] = Queued[i + 1]
  BY <1>1, <1>4, HeadTailProperties
<1>7. ASSUME NEW i \in 1 .. count - 1
      PROVE  Queued'[i] = Tail(Queued)[i]
  <2>1. Queued'[i] = jobs[Cell(i - 1)']
    BY <1>3 DEF Queued, PopTake
  <2>2. head' = IF head + 1 = Capacity THEN 0 ELSE head + 1
    BY <1>3, RingIncrement DEF PopTake
  <2>3. Cell(i - 1)' = Cell(i)
    BY <2>2, <1>3 DEF Cell
  <2>4. Queued[i + 1] = jobs[Cell(i)]
    BY <1>3 DEF Queued
  <2> QED BY <2>1, <2>3, <2>4, <1>6
<1>8. Queued' = Tail(Queued)
  BY <1>2, <1>3, <1>6, <1>7, SeqEqual
<1> QED BY <1>4, <1>5, <1>8

-----------------------------------------------------------------------------
\* The two sets a waiting consumer moves between are finite.
LEMMA WaitSetsFinite ==
  ASSUME QueueAssumption
  PROVE  /\ IsFiniteSet(Waiting) /\ IsFiniteSet(Woken)
         /\ Cardinality(Waiting) \in Nat /\ Cardinality(Woken) \in Nat
<1>1. Waiting \subseteq Consumers /\ Woken \subseteq Consumers
  BY DEF Waiting, Woken
<1>2. IsFiniteSet(Waiting) /\ IsFiniteSet(Woken)
  BY <1>1, FS_Subset DEF QueueAssumption
<1> QED BY <1>2, FS_CardinalityType

\* Waking one waiter moves it from one set to the other.
LEMMA WakeMovesOne ==
  ASSUME QueueAssumption, TypeOK, NEW c \in Waiting,
         caller' = [caller EXCEPT ![c] = "woken"]
  PROVE  /\ Cardinality(Waiting') = Cardinality(Waiting) - 1
         /\ Cardinality(Woken') = Cardinality(Woken) + 1
<1>1. Waiting' = Waiting \ {c} /\ Woken' = Woken \cup {c} /\ c \notin Woken
  BY DEF Waiting, Woken, TypeOK
<1> QED BY <1>1, WaitSetsFinite, FS_RemoveElement, FS_AddElement

\* What a consumer that leaves the loop head does to the two sets.
LEMMA LeaveLoopHead ==
  ASSUME QueueAssumption, TypeOK, NEW c \in Consumers, InPop(c),
         NEW st \in CallerStates \ {"woken"},
         caller' = [caller EXCEPT ![c] = st]
  PROVE  /\ Cardinality(Woken') = Cardinality(Woken)
                                  - (IF caller[c] = "woken" THEN 1 ELSE 0)
         /\ Cardinality(Waiting') = Cardinality(Waiting)
                                    + (IF st = "waiting" THEN 1 ELSE 0)
<1>1. c \notin Waiting
  BY DEF Waiting, InPop
<1>2. Woken' = IF caller[c] = "woken" THEN Woken \ {c} ELSE Woken
  BY DEF Woken, TypeOK, InPop, CallerStates
<1>3. Waiting' = IF st = "waiting" THEN Waiting \cup {c} ELSE Waiting
  BY DEF Waiting, TypeOK, InPop, CallerStates
<1>4. caller[c] = "woken" => c \in Woken
  BY DEF Woken
<1>5. caller[c] = "woken" => Cardinality(Woken \ {c}) = Cardinality(Woken) - 1
  BY <1>4, WaitSetsFinite, FS_RemoveElement
<1>6. Cardinality(Waiting \cup {c}) = Cardinality(Waiting) + 1
  BY <1>1, WaitSetsFinite, FS_AddElement
<1> QED BY <1>2, <1>3, <1>5, <1>6, WaitSetsFinite

-----------------------------------------------------------------------------
(* The ring invariant. *)

LEMMA InitRing == ASSUME QueueAssumption, Init PROVE RingInv
<1>. USE DEF QueueAssumption
<1>1. Waiting = {} /\ Woken = {}
  BY DEF Init, Waiting, Woken
<1>2. TypeOK
  BY DEF Init, TypeOK, CallerStates
<1>3. WaitersCounted
  BY <1>1, FS_EmptySet DEF Init, WaitersCounted
<1> QED BY <1>2, <1>3 DEF Init, RingInv, TailFollows, Cell, QueuedAreJobs,
                          WorkersHoldJobs

LEMMA PushRing ==
  ASSUME QueueAssumption, RingInv, NEW j \in Jobs, TryPush(j)
  PROVE  RingInv'
<1>. USE DEF QueueAssumption
<1>1. tail' = IF tail + 1 = Capacity THEN 0 ELSE tail + 1
  BY RingIncrement DEF TryPush, RingInv, TypeOK
<1>2. TypeOK'
  <2>1. caller' \in [Consumers -> CallerStates]
    BY DEF TryPush, SignalOne, RingInv, TypeOK, CallerStates
  <2>2. pushed' \in Seq(Jobs)
    BY AppendProperties DEF TryPush, RingInv, TypeOK
  <2>3. jobs' \in [0 .. Capacity - 1 -> Jobs \cup {NoJob}]
    BY DEF TryPush, RingInv, TypeOK
  <2>4. tail' \in 0 .. Capacity - 1 /\ count' \in 0 .. Capacity
    BY <1>1 DEF TryPush, RingInv, TypeOK
  <2> QED BY <2>1, <2>2, <2>3, <2>4 DEF TryPush, RingInv, TypeOK
<1>3. TailFollows'
  BY <1>1 DEF TryPush, RingInv, TypeOK, TailFollows, Cell
<1>4. QueuedAreJobs'
  <2>a. count' - 1 = count /\ \A i \in Nat : Cell(i)' = Cell(i)
    BY DEF TryPush, Cell, RingInv, TypeOK
  <2> SUFFICES ASSUME NEW i \in 0 .. count PROVE jobs'[Cell(i)] \in Jobs
    BY <2>a DEF QueuedAreJobs, RingInv, TypeOK
  <2>1. Cell(i) \in 0 .. Capacity - 1
    BY DEF Cell, RingInv, TypeOK, TryPush
  <2>2. CASE i = count
    BY <2>1, <2>2 DEF TryPush, RingInv, TypeOK, TailFollows
  <2>3. CASE i # count
    <3>1. i \in 0 .. count - 1
      BY <2>3 DEF RingInv, TypeOK
    <3>2. jobs[Cell(i)] \in Jobs
      BY <3>1 DEF RingInv, QueuedAreJobs
    <3> QED BY <2>1, <3>2 DEF TryPush, RingInv, TypeOK
  <2> QED BY <2>2, <2>3
<1>5. WorkersHoldJobs'
  BY DEF TryPush, SignalOne, RingInv, TypeOK, WorkersHoldJobs, Waiting
<1>6. WaitersCounted'
  <2>1. CASE Waiting = {}
    BY <2>1 DEF TryPush, SignalOne, RingInv, WaitersCounted, Waiting, Woken
  <2>2. CASE Waiting # {}
    <3>1. PICK c \in Waiting : caller' = [caller EXCEPT ![c] = "woken"]
      BY <2>2 DEF TryPush, SignalOne
    <3>2. /\ Cardinality(Waiting') = Cardinality(Waiting) - 1
          /\ Cardinality(Woken') = Cardinality(Woken) + 1
      BY <3>1, WakeMovesOne DEF RingInv
    <3>3. waiting_consumers' = waiting_consumers
      BY DEF TryPush
    <3> QED BY <3>2, <3>3, WaitSetsFinite DEF RingInv, WaitersCounted
  <2> QED BY <2>1, <2>2
<1> QED BY <1>2, <1>3, <1>4, <1>5, <1>6 DEF RingInv

LEMMA TakeRing ==
  ASSUME QueueAssumption, RingInv, NEW c \in Consumers, PopTake(c)
  PROVE  RingInv'
<1>. USE DEF QueueAssumption
<1>1. head' = IF head + 1 = Capacity THEN 0 ELSE head + 1
  BY RingIncrement DEF PopTake, RingInv, TypeOK
<1>2. jobs[head] \in Jobs
  <2>1. 0 \in 0 .. count - 1 /\ Cell(0) = head
    BY DEF PopTake, RingInv, TypeOK, Cell
  <2> QED BY <2>1 DEF RingInv, QueuedAreJobs
<1>3. caller' = [caller EXCEPT ![c] = "working"] /\ InPop(c)
  BY DEF PopTake
<1>4. /\ Cardinality(Woken') = Cardinality(Woken)
                               - (IF caller[c] = "woken" THEN 1 ELSE 0)
      /\ Cardinality(Waiting') = Cardinality(Waiting)
  <2>1. "working" \in CallerStates \ {"woken"}
    BY DEF CallerStates
  <2>2. TypeOK
    BY DEF RingInv
  <2>3. /\ Cardinality(Woken') = Cardinality(Woken)
                                 - (IF caller[c] = "woken" THEN 1 ELSE 0)
        /\ Cardinality(Waiting') = Cardinality(Waiting)
                                   + (IF "working" = "waiting" THEN 1 ELSE 0)
    BY <1>3, <2>1, <2>2, LeaveLoopHead
  <2> QED BY <2>3, WaitSetsFinite
<1>5. WaitersCounted'
  BY <1>4, WaitSetsFinite DEF PopTake, WaitersWithout, RingInv, WaitersCounted
<1>6. TypeOK'
  <2>1. caller' \in [Consumers -> CallerStates]
    BY <1>3 DEF RingInv, TypeOK, CallerStates
  <2>2. out_job' \in [Consumers -> Jobs \cup {NoJob}]
    BY <1>2 DEF PopTake, RingInv, TypeOK
  <2>3. popped' \in Seq(Jobs)
    BY <1>2, AppendProperties DEF PopTake, RingInv, TypeOK
  <2>4. head' \in 0 .. Capacity - 1 /\ count' \in 0 .. Capacity
    BY <1>1 DEF PopTake, RingInv, TypeOK
  <2>5. waiting_consumers' \in Nat
    <3>1. Cardinality(Waiting') \in Nat /\ Cardinality(Woken') \in Nat
      <4>1. caller[c] = "woken" => c \in Woken
        BY DEF Woken
      <4>2. caller[c] = "woken" => Cardinality(Woken) # 0
        BY <4>1, WaitSetsFinite, FS_EmptySet
      <4> QED BY <1>4, <4>2, WaitSetsFinite
    <3> QED BY <1>5, <3>1 DEF WaitersCounted
  <2> QED BY <2>1, <2>2, <2>3, <2>4, <2>5 DEF PopTake, RingInv, TypeOK
<1>a. count \in 1 .. Capacity /\ count' = count - 1 /\ tail' = tail
      /\ head \in 0 .. Capacity - 1
  BY DEF PopTake, RingInv, TypeOK
<1>b. ASSUME NEW i \in 0 .. count - 1
      PROVE  Cell(i)' = Cell(i + 1) /\ i + 1 \in 1 .. count
  <2>1. Cell(i)' = IF head' + i < Capacity THEN head' + i
                                           ELSE head' + i - Capacity
    BY DEF Cell
  <2> QED BY <2>1, <1>1, <1>a DEF Cell
<1>7. TailFollows'
  <2>1. tail = IF head + count < Capacity THEN head + count
                                          ELSE head + count - Capacity
    BY DEF RingInv, TailFollows, Cell
  <2>2. Cell(count)' = IF head' + count' < Capacity THEN head' + count'
                                           ELSE head' + count' - Capacity
    BY DEF Cell
  <2>3. tail' = Cell(count)'
    BY <2>1, <2>2, <1>1, <1>a
  <2> QED BY <2>3 DEF TailFollows
<1>8. QueuedAreJobs'
  <2> SUFFICES ASSUME NEW i \in 0 .. count - 2
               PROVE  jobs[Cell(i)'] \in Jobs
    BY DEF QueuedAreJobs, PopTake, RingInv, TypeOK
  <2>1. i + 1 \in 0 .. count - 1 /\ Cell(i)' = Cell(i + 1)
    BY <1>a, <1>b
  <2> QED BY <2>1 DEF RingInv, QueuedAreJobs
<1>9. WorkersHoldJobs'
  BY <1>2, <1>3 DEF PopTake, RingInv, TypeOK, WorkersHoldJobs
<1> QED BY <1>5, <1>6, <1>7, <1>8, <1>9 DEF RingInv

\* The steps that only move a caller keep the ring itself.
LEMMA CallerRing ==
  ASSUME QueueAssumption, RingInv, UNCHANGED <<ring, out_job, pushed, popped>>,
         caller' \in [Consumers -> CallerStates],
         \A c \in Consumers : caller'[c] = "working" => caller[c] = "working",
         waiting_consumers' \in Nat, WaitersCounted'
  PROVE  RingInv'
BY DEF RingInv, ring, TypeOK, TailFollows, Cell, QueuedAreJobs, WorkersHoldJobs

LEMMA WaitRing ==
  ASSUME QueueAssumption, RingInv, NEW c \in Consumers, PopWait(c)
  PROVE  RingInv'
<1>1. caller' = [caller EXCEPT ![c] = "waiting"] /\ InPop(c) /\ TypeOK
  BY DEF PopWait, RingInv
<1>2. "waiting" \in CallerStates \ {"woken"}
  BY DEF CallerStates
<1>3. /\ Cardinality(Woken') = Cardinality(Woken)
                               - (IF caller[c] = "woken" THEN 1 ELSE 0)
      /\ Cardinality(Waiting') = Cardinality(Waiting)
                                 + (IF "waiting" = "waiting" THEN 1 ELSE 0)
  BY <1>1, <1>2, LeaveLoopHead
<1>4. WaitersCounted'
  BY <1>3, WaitSetsFinite DEF PopWait, WaitersWithout, RingInv, WaitersCounted
<1>5. waiting_consumers' \in Nat
  <2>1. caller[c] = "woken" => c \in Woken
    BY DEF Woken
  <2>2. caller[c] = "woken" => Cardinality(Woken) # 0
    BY <2>1, WaitSetsFinite, FS_EmptySet
  <2> QED BY <1>3, <1>4, <2>2, WaitSetsFinite DEF WaitersCounted
<1>6. UNCHANGED <<ring, out_job, pushed, popped>>
  BY DEF PopWait, ring
<1>7. caller' \in [Consumers -> CallerStates]
  BY <1>1, <1>2 DEF TypeOK
<1>8. \A d \in Consumers : caller'[d] = "working" => caller[d] = "working"
  BY <1>1 DEF TypeOK
<1> QED BY <1>4, <1>5, <1>6, <1>7, <1>8, CallerRing

LEMMA StoppedRing ==
  ASSUME QueueAssumption, RingInv, NEW c \in Consumers, PopStopped(c)
  PROVE  RingInv'
<1>1. caller' = [caller EXCEPT ![c] = "exited"] /\ InPop(c) /\ TypeOK
  BY DEF PopStopped, RingInv
<1>2. "exited" \in CallerStates \ {"woken"}
  BY DEF CallerStates
<1>3. /\ Cardinality(Woken') = Cardinality(Woken)
                               - (IF caller[c] = "woken" THEN 1 ELSE 0)
      /\ Cardinality(Waiting') = Cardinality(Waiting)
                                 + (IF "exited" = "waiting" THEN 1 ELSE 0)
  BY <1>1, <1>2, LeaveLoopHead
<1>4. WaitersCounted'
  BY <1>3, WaitSetsFinite
     DEF PopStopped, WaitersWithout, RingInv, WaitersCounted
<1>5. waiting_consumers' \in Nat
  <2>1. caller[c] = "woken" => c \in Woken
    BY DEF Woken
  <2>2. caller[c] = "woken" => Cardinality(Woken) # 0
    BY <2>1, WaitSetsFinite, FS_EmptySet
  <2> QED BY <1>3, <1>4, <2>2, WaitSetsFinite DEF WaitersCounted
<1>6. UNCHANGED <<ring, out_job, pushed, popped>>
  BY DEF PopStopped, ring
<1>7. caller' \in [Consumers -> CallerStates]
  BY <1>1, <1>2 DEF TypeOK
<1>8. \A d \in Consumers : caller'[d] = "working" => caller[d] = "working"
  BY <1>1 DEF TypeOK
<1> QED BY <1>4, <1>5, <1>6, <1>7, <1>8, CallerRing

LEMMA SpuriousRing ==
  ASSUME QueueAssumption, RingInv, NEW c \in Consumers, SpuriousWakeup(c)
  PROVE  RingInv'
<1>1. c \in Waiting /\ caller' = [caller EXCEPT ![c] = "woken"] /\ TypeOK
  BY DEF SpuriousWakeup, RingInv, Waiting
<1>2. /\ Cardinality(Waiting') = Cardinality(Waiting) - 1
      /\ Cardinality(Woken') = Cardinality(Woken) + 1
  BY <1>1, WakeMovesOne
<1>3. waiting_consumers' = waiting_consumers
  BY DEF SpuriousWakeup
<1>4. WaitersCounted'
  BY <1>2, <1>3, WaitSetsFinite DEF RingInv, WaitersCounted
<1>5. UNCHANGED <<ring, out_job, pushed, popped>>
  BY DEF SpuriousWakeup, ring
<1>6. caller' \in [Consumers -> CallerStates]
  BY <1>1 DEF TypeOK, CallerStates
<1>7. \A d \in Consumers : caller'[d] = "working" => caller[d] = "working"
  BY <1>1 DEF TypeOK
<1> QED BY <1>1, <1>3, <1>4, <1>5, <1>6, <1>7, CallerRing DEF TypeOK

LEMMA StopRing ==
  ASSUME QueueAssumption, RingInv, Stop
  PROVE  RingInv'
<1>1. TypeOK
  BY DEF RingInv
<1>2. Waiting' = {} /\ Woken' = Waiting \cup Woken
  BY <1>1 DEF Stop, Waiting, Woken, TypeOK
<1>3. Cardinality(Woken') = Cardinality(Waiting) + Cardinality(Woken)
  <2>1. Waiting \cap Woken = {}
    BY DEF Waiting, Woken
  <2>2. Cardinality(Waiting \cup Woken) = Cardinality(Waiting)
            + Cardinality(Woken) - Cardinality(Waiting \cap Woken)
    BY WaitSetsFinite, FS_Union
  <2>3. Cardinality(Waiting \cap Woken) = 0
    BY <2>1, FS_EmptySet
  <2> QED BY <1>2, <2>2, <2>3, WaitSetsFinite
<1>4. Cardinality(Waiting') = 0
  BY <1>2, FS_EmptySet
<1>5. WaitersCounted'
  BY <1>3, <1>4, WaitSetsFinite DEF Stop, RingInv, WaitersCounted
<1>6. TypeOK'
  BY <1>1 DEF Stop, TypeOK, CallerStates
<1>7. WorkersHoldJobs'
  BY <1>1 DEF Stop, RingInv, WorkersHoldJobs, TypeOK
<1> QED BY <1>5, <1>6, <1>7 DEF Stop, RingInv, TailFollows, Cell, QueuedAreJobs

LEMMA DoneRing ==
  ASSUME QueueAssumption, RingInv, NEW c \in Consumers, WorkDone(c)
  PROVE  RingInv'
<1>1. caller' = [caller EXCEPT ![c] = "calling"] /\ TypeOK
  BY DEF WorkDone, RingInv
<1>2. Waiting' = Waiting /\ Woken' = Woken
  BY <1>1 DEF WorkDone, Waiting, Woken, TypeOK
<1>3. WaitersCounted'
  BY <1>2 DEF WorkDone, RingInv, WaitersCounted
<1>4. UNCHANGED <<ring, out_job, pushed, popped>>
  BY DEF WorkDone, ring
<1>5. caller' \in [Consumers -> CallerStates]
  BY <1>1 DEF TypeOK, CallerStates
<1>6. \A d \in Consumers : caller'[d] = "working" => caller[d] = "working"
  BY <1>1 DEF TypeOK
<1>7. waiting_consumers' \in Nat
  BY <1>1 DEF WorkDone, TypeOK
<1> QED BY <1>3, <1>4, <1>5, <1>6, <1>7, CallerRing

LEMMA StepRing ==
  ASSUME QueueAssumption, RingInv, [Next]_vars
  PROVE  RingInv'
<1>1. CASE UNCHANGED vars
  BY <1>1 DEF vars, RingInv, TypeOK, TailFollows, Cell, QueuedAreJobs,
              WorkersHoldJobs, WaitersCounted, Waiting, Woken
<1>2. ASSUME NEW j \in Jobs, TryPush(j) PROVE RingInv'
  BY <1>2, PushRing
<1>3. ASSUME NEW c \in Consumers, PopTake(c) PROVE RingInv'
  BY <1>3, TakeRing
<1> QED BY <1>1, <1>2, <1>3, StopRing, WaitRing, StoppedRing, SpuriousRing,
           DoneRing DEF Next

-----------------------------------------------------------------------------
(* The safety properties. *)

\* FifoOrder across the two steps that move jobs.
LEMMA StepFifo ==
  ASSUME QueueAssumption, RingInv, RingInv', FifoOrder, [Next]_vars
  PROVE  FifoOrder'
<1>0. Queued \in Seq(Jobs) /\ pushed \in Seq(Jobs) /\ popped \in Seq(Jobs)
  BY QueuedIsSeq DEF RingInv, TypeOK
<1>1. ASSUME NEW j \in Jobs, TryPush(j) PROVE FifoOrder'
  <2>1. Queued' = Append(Queued, j)
    BY <1>1, PushAppends DEF RingInv
  <2>2. pushed' = Append(pushed, j) /\ popped' = popped
    BY <1>1 DEF TryPush
  <2>3. Append(popped \o Queued, j) = popped \o Append(Queued, j)
    <3>1. popped \o Queued \in Seq(Jobs) /\ <<j>> \in Seq(Jobs)
      BY <1>0, ConcatProperties
    <3>2. Append(popped \o Queued, j) = (popped \o Queued) \o <<j>>
      BY <3>1, AppendIsConcat
    <3>3. Append(Queued, j) = Queued \o <<j>>
      BY <1>0, AppendIsConcat
    <3>4. (popped \o Queued) \o <<j>> = popped \o (Queued \o <<j>>)
      BY <1>0, <3>1, ConcatAssociative
    <3> QED BY <3>2, <3>3, <3>4, Zenon
  <2> QED BY <2>1, <2>2, <2>3 DEF FifoOrder
<1>2. ASSUME NEW c \in Consumers, PopTake(c) PROVE FifoOrder'
  <2>1. Queued # <<>> /\ Head(Queued) = jobs[head] /\ Queued' = Tail(Queued)
    BY <1>2, PopRemovesHead DEF RingInv
  <2>2. pushed' = pushed /\ popped' = Append(popped, jobs[head])
    BY <1>2 DEF PopTake
  <2> QED BY <1>0, <2>1, <2>2, HeadThenTail DEF FifoOrder
<1>3. ASSUME UNCHANGED <<ring, pushed, popped>> PROVE FifoOrder'
  BY <1>3 DEF ring, FifoOrder, Queued, Cell
<1>4. CASE Stop
  BY <1>4 DEF Stop, FifoOrder, Queued, Cell
<1>5. ASSUME NEW c \in Consumers,
             PopWait(c) \/ PopStopped(c) \/ SpuriousWakeup(c) \/ WorkDone(c)
      PROVE  FifoOrder'
  <2>1. UNCHANGED <<ring, pushed, popped>>
    BY <1>5 DEF PopWait, PopStopped, SpuriousWakeup, WorkDone, ring
  <2> QED BY <1>3, <2>1
<1>6. CASE UNCHANGED vars
  BY <1>3, <1>6 DEF vars, ring
<1> QED BY <1>1, <1>2, <1>4, <1>5, <1>6 DEF Next

\* Who still sleeps after a step, and why.
LEMMA StepWakeups ==
  ASSUME QueueAssumption, RingInv, NoLostWakeup, StopWakesAll,
         DrainedBeforeExit, [Next]_vars
  PROVE  NoLostWakeup' /\ StopWakesAll' /\ DrainedBeforeExit'
<1>. USE DEF NoLostWakeup, StopWakesAll, DrainedBeforeExit
<1>0. TypeOK /\ count \in Nat /\ QueueAssumption
  BY DEF RingInv, TypeOK, QueueAssumption
<1>1. ASSUME NEW j \in Jobs, TryPush(j)
      PROVE  NoLostWakeup' /\ StopWakesAll' /\ DrainedBeforeExit'
  <2>1. ~stopped /\ stopped' = stopped /\ count' = count + 1
    BY <1>1 DEF TryPush
  <2>2. DrainedBeforeExit'
    BY <1>0, <1>1, <2>1 DEF TryPush, SignalOne, Waiting, TypeOK
  <2>3. CASE Waiting = {}
    BY <1>1, <2>1, <2>2, <2>3 DEF TryPush, SignalOne, Waiting
  <2>4. CASE Waiting # {}
    <3>1. PICK c \in Waiting : caller' = [caller EXCEPT ![c] = "woken"]
      BY <1>1, <2>4 DEF TryPush, SignalOne
    <3>2. Cardinality(Woken') = Cardinality(Woken) + 1
      BY <1>0, <3>1, WakeMovesOne
    <3> QED BY <1>0, <2>1, <2>2, <2>4, <3>2, WaitSetsFinite
  <2> QED BY <2>3, <2>4
<1>2. CASE Stop
  <2>1. Waiting' = {} /\ stopped' = TRUE /\ count' = count
    BY <1>0, <1>2 DEF Stop, Waiting, TypeOK
  <2>2. \A c \in Consumers : caller'[c] = "exited" => caller[c] = "exited"
    BY <1>0, <1>2 DEF Stop, TypeOK
  <2> QED BY <2>1, <2>2
<1>3. ASSUME NEW c \in Consumers, PopWait(c)
      PROVE  NoLostWakeup' /\ StopWakesAll' /\ DrainedBeforeExit'
  <2>1. /\ count = 0 /\ ~stopped /\ count' = 0 /\ stopped' = stopped
        /\ caller' = [caller EXCEPT ![c] = "waiting"]
    BY <1>3 DEF PopWait
  <2>2. IsFiniteSet(Woken')
    <3>1. Woken' \subseteq Woken
      BY <1>0, <2>1 DEF Woken, TypeOK
    <3> QED BY <3>1, <1>0, WaitSetsFinite, FS_Subset
  <2>3. Cardinality(Woken') \in Nat
    BY <2>2, FS_CardinalityType
  <2>4. \A d \in Consumers : caller'[d] = "exited" => caller[d] = "exited"
    BY <1>0, <2>1 DEF TypeOK
  <2> QED BY <2>1, <2>3, <2>4
<1>4. ASSUME NEW c \in Consumers, PopTake(c)
      PROVE  NoLostWakeup' /\ StopWakesAll' /\ DrainedBeforeExit'
  <2>1. /\ caller' = [caller EXCEPT ![c] = "working"] /\ InPop(c)
        /\ count > 0 /\ count' = count - 1 /\ stopped' = stopped
    BY <1>4 DEF PopTake
  <2>2. "working" \in CallerStates \ {"woken"}
    BY DEF CallerStates
  <2>3. Cardinality(Woken') = Cardinality(Woken)
                              - (IF caller[c] = "woken" THEN 1 ELSE 0)
    BY <1>0, <2>1, <2>2, LeaveLoopHead
  <2>4. Waiting' = Waiting
    BY <1>0, <2>1 DEF Waiting, InPop, TypeOK
  <2>5. \A d \in Consumers : caller'[d] = "exited" => caller[d] = "exited"
    BY <1>0, <2>1 DEF TypeOK
  <2> QED BY <1>0, <2>1, <2>3, <2>4, <2>5, WaitSetsFinite
<1>5. ASSUME NEW c \in Consumers, PopStopped(c)
      PROVE  NoLostWakeup' /\ StopWakesAll' /\ DrainedBeforeExit'
  <2>1. /\ caller' = [caller EXCEPT ![c] = "exited"] /\ InPop(c)
        /\ count = 0 /\ stopped /\ count' = count /\ stopped' = stopped
    BY <1>5 DEF PopStopped
  <2>2. Waiting' = Waiting
    BY <1>0, <2>1 DEF Waiting, InPop, TypeOK
  <2> QED BY <2>1, <2>2
<1>6. ASSUME NEW c \in Consumers, SpuriousWakeup(c)
      PROVE  NoLostWakeup' /\ StopWakesAll' /\ DrainedBeforeExit'
  <2>1. /\ c \in Waiting /\ caller' = [caller EXCEPT ![c] = "woken"]
        /\ count' = count /\ stopped' = stopped
    BY <1>6 DEF SpuriousWakeup, Waiting
  <2>2. Cardinality(Woken') = Cardinality(Woken) + 1
    BY <1>0, <2>1, WakeMovesOne
  <2>3. \A d \in Consumers : caller'[d] = "exited" => caller[d] = "exited"
    BY <1>0, <2>1 DEF TypeOK
  <2> QED BY <1>0, <2>1, <2>2, <2>3, WaitSetsFinite
<1>7. ASSUME NEW c \in Consumers, WorkDone(c)
      PROVE  NoLostWakeup' /\ StopWakesAll' /\ DrainedBeforeExit'
  <2>1. /\ caller[c] = "working" /\ caller' = [caller EXCEPT ![c] = "calling"]
        /\ count' = count /\ stopped' = stopped
    BY <1>7 DEF WorkDone
  <2>2. /\ Waiting' = Waiting /\ Woken' = Woken
        /\ \A d \in Consumers : caller'[d] = "exited" => caller[d] = "exited"
    BY <1>0, <2>1 DEF Waiting, Woken, TypeOK
  <2> QED BY <2>1, <2>2
<1>8. CASE UNCHANGED vars
  BY <1>8 DEF vars, Waiting, Woken
<1> QED BY <1>1, <1>2, <1>3, <1>4, <1>5, <1>6, <1>7, <1>8 DEF Next

LEMMA InitInvariant == ASSUME QueueAssumption, Init PROVE IInv
<1>1. RingInv
  BY InitRing
<1>2. Queued = <<>> /\ Waiting = {} /\ ~ \E c \in Consumers : caller[c] = "exited"
  BY DEF Init, Queued, Waiting
<1>3. FifoOrder
  BY <1>2 DEF Init, FifoOrder
<1> QED BY <1>1, <1>2, <1>3
        DEF Init, IInv, NoLostWakeup, StopWakesAll, DrainedBeforeExit

LEMMA StepInvariant ==
  ASSUME QueueAssumption, IInv, [Next]_vars PROVE IInv'
BY StepRing, StepFifo, StepWakeups DEF IInv

\* The structure and the callers keep their types, and the inductive
\* invariant holds, under every schedule of producer, stop and consumers.
THEOREM InvariantHolds == SafeSpec => []IInv
<1>1. Init => IInv
  BY InitInvariant, QueueAssumption
<1>2. IInv /\ [Next]_vars => IInv'
  BY StepInvariant, QueueAssumption
<1> QED BY <1>1, <1>2, PTL DEF SafeSpec

\* Type correctness of BsConnectionQueue and of its callers.
THEOREM TypeCorrect == SafeSpec => []TypeOK
<1>1. IInv => TypeOK
  BY DEF IInv, RingInv
<1> QED BY <1>1, InvariantHolds, PTL

\* Jobs leave the ring in the order TryPush accepted them; none is lost,
\* overwritten or handed out twice.
THEOREM FifoHolds == SafeSpec => []FifoOrder
<1>1. IInv => FifoOrder
  BY DEF IInv
<1> QED BY <1>1, InvariantHolds, PTL

\* One pthread_cond_signal per push is enough: while a consumer sleeps, each
\* queued job has a woken consumer; and after Stop nobody sleeps at all.
THEOREM WakeupsHold ==
  SafeSpec => [](NoLostWakeup /\ StopWakesAll /\ DrainedBeforeExit)
<1>1. IInv => NoLostWakeup /\ StopWakesAll /\ DrainedBeforeExit
  BY DEF IInv
<1> QED BY <1>1, InvariantHolds, PTL

-----------------------------------------------------------------------------
(* The implementation of the abstract queue. *)

LEMMA InitMaps == ASSUME QueueAssumption, Init PROVE Fifo!Init
<1>1. Queued = <<>>
  BY DEF Init, Queued
<1>2. \A c \in Consumers : caller[c] = "calling"
  BY DEF Init
<1> QED BY <1>1, <1>2 DEF Init, Fifo!Init

LEMMA StepMaps ==
  ASSUME QueueAssumption, IInv, IInv', [Next]_vars
  PROVE  [Fifo!Next]_(Fifo!vars)
<1>. DEFINE H == [c \in Consumers |-> IF caller[c] = "working" THEN out_job[c]
                                                               ELSE NoJob]
            E == {c \in Consumers : caller[c] = "exited"}
<1>0. /\ TypeOK /\ WorkersHoldJobs /\ NoJob \notin Jobs
      /\ Queued \in Seq(Jobs) /\ Len(Queued) = count
  BY QueuedIsSeq DEF IInv, RingInv, QueueAssumption
<1>1. ASSUME UNCHANGED <<ring, out_job>>, H' = H, E' = E
      PROVE  UNCHANGED Fifo!vars
  <2>1. Queued' = Queued /\ stopped' = stopped
    BY <1>1 DEF ring, Queued, Cell
  <2> QED BY <1>1, <2>1 DEF Fifo!vars
<1>2. ASSUME NEW j \in Jobs, TryPush(j) PROVE Fifo!Next
  <2>1. Queued' = Append(Queued, j)
    BY <1>2, PushAppends DEF IInv, RingInv
  <2>2. ~stopped /\ stopped' = stopped /\ count < Capacity
    BY <1>0, <1>2 DEF TryPush, TypeOK, QueueAssumption
  <2>3. H' = H /\ E' = E
    BY <1>0, <1>2 DEF TryPush, SignalOne, Waiting, TypeOK
  <2>4. Fifo!Accept(j)
    BY <1>0, <2>1, <2>2, <2>3 DEF Fifo!Accept
  <2> QED BY <2>4 DEF Fifo!Next
<1>3. CASE Stop
  <2>1. Queued' = Queued
    BY <1>3 DEF Stop, Queued, Cell
  <2>2. H' = H /\ E' = E
    BY <1>0, <1>3 DEF Stop, TypeOK
  <2>3. Fifo!Stop
    BY <1>3, <2>1, <2>2 DEF Stop, Fifo!Stop
  <2> QED BY <2>3 DEF Fifo!Next
<1>4. ASSUME NEW c \in Consumers, PopTake(c) PROVE Fifo!Next
  <2>1. Queued # <<>> /\ Head(Queued) = jobs[head] /\ Queued' = Tail(Queued)
    BY <1>4, PopRemovesHead DEF IInv, RingInv
  <2>2. /\ caller[c] \in {"calling", "woken"} /\ stopped' = stopped
        /\ caller' = [caller EXCEPT ![c] = "working"]
        /\ out_job' = [out_job EXCEPT ![c] = jobs[head]]
    BY <1>4 DEF PopTake, InPop
  <2>3. H' = [H EXCEPT ![c] = jobs[head]] /\ E' = E /\ H[c] = NoJob /\ c \notin E
    BY <1>0, <2>2 DEF TypeOK
  <2>4. Fifo!Deliver(c)
    BY <2>1, <2>2, <2>3 DEF Fifo!Deliver
  <2> QED BY <2>4 DEF Fifo!Next
<1>5. ASSUME NEW c \in Consumers, PopStopped(c) PROVE Fifo!Next
  <2>1. /\ caller[c] \in {"calling", "woken"} /\ count = 0 /\ stopped
        /\ caller' = [caller EXCEPT ![c] = "exited"]
        /\ UNCHANGED <<jobs, head, count, stopped, out_job>>
    BY <1>5 DEF PopStopped, InPop
  <2>2. Queued = <<>> /\ Queued' = Queued
    BY <1>0, <2>1 DEF Queued, Cell
  <2>3. H' = H /\ E' = E \cup {c} /\ H[c] = NoJob /\ c \notin E
    BY <1>0, <2>1 DEF TypeOK
  <2>4. Fifo!Dismiss(c)
    BY <2>1, <2>2, <2>3 DEF Fifo!Dismiss
  <2> QED BY <2>4 DEF Fifo!Next
<1>6. ASSUME NEW c \in Consumers, WorkDone(c) PROVE Fifo!Next
  <2>1. /\ caller[c] = "working" /\ caller' = [caller EXCEPT ![c] = "calling"]
        /\ UNCHANGED <<jobs, head, count, stopped, out_job>>
    BY <1>6 DEF WorkDone
  <2>2. Queued' = Queued
    BY <2>1 DEF Queued, Cell
  <2>3. H' = [H EXCEPT ![c] = NoJob] /\ E' = E /\ H[c] # NoJob
    BY <1>0, <2>1 DEF TypeOK, WorkersHoldJobs
  <2>4. Fifo!Finish(c)
    BY <2>1, <2>2, <2>3 DEF Fifo!Finish
  <2> QED BY <2>4 DEF Fifo!Next
<1>7. ASSUME NEW c \in Consumers, PopWait(c) \/ SpuriousWakeup(c)
      PROVE  UNCHANGED Fifo!vars
  <2>1. PICK st \in {"waiting", "woken"} : caller' = [caller EXCEPT ![c] = st]
    BY <1>7 DEF PopWait, SpuriousWakeup
  <2>2. caller[c] \in {"calling", "waiting", "woken"}
        /\ UNCHANGED <<ring, out_job>>
    BY <1>7 DEF PopWait, SpuriousWakeup, InPop, ring
  <2>3. H' = H /\ E' = E
    BY <1>0, <2>1, <2>2 DEF TypeOK
  <2> QED BY <1>1, <2>2, <2>3
<1>8. CASE UNCHANGED vars
  <2>1. H' = H /\ E' = E /\ UNCHANGED <<ring, out_job>>
    BY <1>8 DEF vars, ring
  <2> QED BY <1>1, <2>1
<1> QED BY <1>2, <1>3, <1>4, <1>5, <1>6, <1>7, <1>8 DEF Next

\* The ring with its mutex and condition variable implements the abstract
\* bounded queue: every step is a step of ConnectionFifo or changes nothing
\* a user of the queue can see.
THEOREM ImplementsFifo == SafeSpec => Fifo!SafeSpec
<1>1. Init => Fifo!Init
  BY InitMaps, QueueAssumption
<1>2. IInv /\ IInv' /\ [Next]_vars => [Fifo!Next]_(Fifo!vars)
  BY StepMaps, QueueAssumption
<1> QED BY <1>1, <1>2, InvariantHolds, PTL DEF SafeSpec, Fifo!SafeSpec
=============================================================================

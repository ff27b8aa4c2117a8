-------------------------- MODULE DataReaderProofs --------------------------
(***************************************************************************)
(* Proofs about the prefetch ring of DataReader, for every depth of the    *)
(* ring and every number of runs.                                          *)
(***************************************************************************)
EXTENDS DataReader, TLAPS

USE Zenon  \* the prover of every leaf that names none

\* How far slot i is ahead of the slot the next Run reads.
Distance(i) ==
  IF i >= curr_batch_consumer THEN i - curr_batch_consumer
  ELSE i + Depth - curr_batch_consumer

\* The indices and the cycle bits agree on which index is ahead.
CycleInv ==
  /\ consumer_cycle = producer_cycle => curr_batch_consumer <= curr_batch_producer
  /\ consumer_cycle # producer_cycle => curr_batch_producer <= curr_batch_consumer

\* Batches delivered and not yet consumed are those in the ring, and the one
\* just filled whose index has not been advanced yet.
CountInv ==
  produced = consumed + Occupancy + (IF producer = "advance" THEN 1 ELSE 0)

\* What the control states of the threads imply about the ring and the flags.
ControlInv ==
  /\ producer \in {"prefetch", "fill", "advance"} => ~IsPrefetchQueueFull
  /\ producer = "check" /\ ~finished => ~IsPrefetchQueueFull
  /\ consumer \in {"run", "advance"} => ~IsPrefetchQueueEmpty
  /\ consumer # "idle" => destructor = "none"
  /\ finished => prefetch_error \/ destructor # "none"

\* Each occupied slot holds the batch its distance says.
ContentInv ==
  \A i \in Slots :
    /\ Distance(i) < produced - consumed
    /\ ~(MoveSamples /\ consumer = "advance" /\ i = curr_batch_consumer)
    /\ destructor # "done"
    => prefetched_batch_queue[i] = consumed + Distance(i)

RingInv == TypeOK /\ CycleInv /\ CountInv /\ ControlInv /\ ContentInv

-----------------------------------------------------------------------------
\* What AdvanceIndex computes: the modulo is one conditional subtraction.
LEMMA AdvanceIndexValue ==
  ASSUME NEW i \in Slots
  PROVE  AdvanceIndex(i) = IF i = Depth - 1 THEN 0 ELSE i + 1
  BY DepthAssumption, SMT DEF AdvanceIndex, Slots

\* The indices stay inside the ring.
LEMMA AdvanceIndexType ==
  ASSUME NEW i \in Slots
  PROVE  AdvanceIndex(i) \in Slots
  BY AdvanceIndexValue, DepthAssumption, SMTT(30) DEF Slots

-----------------------------------------------------------------------------
\* Every step keeps the types.
LEMMA TypeStep == TypeOK /\ [Next]_vars => TypeOK'
<1> SUFFICES ASSUME TypeOK, [Next]_vars PROVE TypeOK'
  OBVIOUS
<1> USE DEF TypeOK, Threads, Empty, ring, history
<1>1. CASE ProducerWait BY <1>1 DEF ProducerWait
<1>2. CASE ProducerCheck BY <1>2 DEF ProducerCheck
<1>3. CASE PrefetchClear BY <1>3 DEF PrefetchClear
<1>4. CASE PrefetchFill BY <1>4, SMTT(40) DEF PrefetchFill
<1>5. CASE PrefetchThrows BY <1>5 DEF PrefetchThrows
<1>6. CASE ProducerAdvanceQueue
  <2>1. AdvanceIndex(curr_batch_producer) \in Slots
    BY AdvanceIndexType
  <2>2. AdvanceCycle(curr_batch_producer, producer_cycle) \in BOOLEAN
    BY DEF AdvanceCycle
  <2>3. QED
    BY <1>6, <2>1, <2>2 DEF ProducerAdvanceQueue
<1>7. CASE ProducerNotify BY <1>7, SMT DEF ProducerNotify
<1>8. CASE RunStart BY <1>8, SMT DEF RunStart
<1>9. CASE ConsumerWait BY <1>9, ZenonT(40) DEF ConsumerWait
<1>10. CASE RunConsume BY <1>10 DEF RunConsume
<1>11. CASE RunThrows BY <1>11 DEF RunThrows
<1>12. CASE ConsumerAdvanceQueue
  <2>1. AdvanceIndex(curr_batch_consumer) \in Slots
    BY AdvanceIndexType
  <2>2. AdvanceCycle(curr_batch_consumer, consumer_cycle) \in BOOLEAN
    BY DEF AdvanceCycle
  <2>3. QED
    BY <1>12, <2>1, <2>2, SMT DEF ConsumerAdvanceQueue
<1>13. CASE ConsumerNotify BY <1>13, SMT DEF ConsumerNotify
<1>14. CASE StopPrefetchThread BY <1>14 DEF StopPrefetchThread
<1>15. CASE StopNotify BY <1>15, SMT DEF StopNotify
<1>16. CASE StopJoin BY <1>16 DEF StopJoin
<1>17. CASE UNCHANGED vars BY <1>17, SMT DEF vars
<1>18. QED
  BY <1>1, <1>2, <1>3, <1>4, <1>5, <1>6, <1>7, <1>8, <1>9, <1>10, <1>11, <1>12, <1>13, <1>14, <1>15, <1>16, <1>17 DEF Next, PrefetchWorker, Run, Destroy

\* The initial state has the right types.
LEMMA TypeInit == Init => TypeOK
<1> SUFFICES ASSUME Init PROVE TypeOK
  OBVIOUS
<1> USE DEF Init
<1>1. prefetched_batch_queue \in [Slots -> Nat \cup {Empty}]
  OBVIOUS
<1>2. curr_batch_producer \in Slots /\ curr_batch_consumer \in Slots
  BY DepthAssumption, SMT DEF Slots
<1>3. QED
  BY <1>1, <1>2 DEF TypeOK

\* Type correctness of the prefetch ring and its threads.
THEOREM TypeCorrect == Spec => []TypeOK
  BY TypeInit, TypeStep, PTL DEF Spec

-----------------------------------------------------------------------------
\* The ring invariant is preserved by every step of the three threads.
LEMMA RingInvInductive ==
  RingInv /\ [Next]_vars => RingInv'
<1> SUFFICES ASSUME RingInv, [Next]_vars PROVE RingInv'
  OBVIOUS
<1>t. TypeOK /\ TypeOK'
  BY TypeStep DEF RingInv
<1> USE <1>t, DepthAssumption, FlagAssumption
    DEF RingInv, TypeOK, CycleInv, CountInv, ControlInv, ContentInv, Distance, Occupancy,
        IsPrefetchQueueFull, IsPrefetchQueueEmpty, ring, history, Slots, Empty
<1>1. CASE ProducerWait BY <1>1, SMT DEF ProducerWait
<1>2. CASE ProducerCheck BY <1>2 DEF ProducerCheck
<1>3. CASE PrefetchClear BY <1>3, SMT DEF PrefetchClear
<1>4. CASE PrefetchFill BY <1>4, SMTT(40) DEF PrefetchFill
<1>5. CASE PrefetchThrows BY <1>5 DEF PrefetchThrows
<1>6. CASE ProducerAdvanceQueue
  <2>1. curr_batch_producer' = IF curr_batch_producer = Depth - 1 THEN 0 ELSE curr_batch_producer + 1
    BY <1>6, AdvanceIndexValue DEF ProducerAdvanceQueue
  <2>2. producer_cycle' = IF curr_batch_producer = Depth - 1 THEN ~producer_cycle ELSE producer_cycle
    BY <1>6, AdvanceIndexValue, SMT DEF ProducerAdvanceQueue, AdvanceCycle
  <2>3. CycleInv'
    BY <1>6, <2>1, <2>2, SMT DEF ProducerAdvanceQueue
  <2>4. CountInv'
    BY <1>6, <2>1, <2>2, SMT DEF ProducerAdvanceQueue
  <2>5. ControlInv'
    BY <1>6, <2>1, <2>2, SMT DEF ProducerAdvanceQueue
  <2>6. ContentInv'
    BY <1>6, <2>1, <2>2 DEF ProducerAdvanceQueue
  <2>7. QED
    BY <2>3, <2>4, <2>5, <2>6
<1>7. CASE ProducerNotify BY <1>7, SMT DEF ProducerNotify
<1>8. CASE RunStart BY <1>8, SMT DEF RunStart
<1>9. CASE ConsumerWait BY <1>9, SMT DEF ConsumerWait
<1>10. CASE RunConsume BY <1>10 DEF RunConsume
<1>11. CASE RunThrows BY <1>11 DEF RunThrows
<1>12. CASE ConsumerAdvanceQueue
  <2>1. curr_batch_consumer' = IF curr_batch_consumer = Depth - 1 THEN 0 ELSE curr_batch_consumer + 1
    BY <1>12, AdvanceIndexValue DEF ConsumerAdvanceQueue
  <2>2. consumer_cycle' = IF curr_batch_consumer = Depth - 1 THEN ~consumer_cycle ELSE consumer_cycle
    BY <1>12, AdvanceIndexValue, SMT DEF ConsumerAdvanceQueue, AdvanceCycle
  <2>3. CycleInv'
    BY <1>12, <2>1, <2>2, SMT DEF ConsumerAdvanceQueue
  <2>4. CountInv'
    BY <1>12, <2>1, <2>2, SMT DEF ConsumerAdvanceQueue
  <2>5. ControlInv'
    BY <1>12, <2>1, <2>2, SMT DEF ConsumerAdvanceQueue
  <2>6. ContentInv'
    BY <1>12, <2>1, <2>2, SMTT(30) DEF ConsumerAdvanceQueue
  <2>7. QED
    BY <2>3, <2>4, <2>5, <2>6
<1>13. CASE ConsumerNotify BY <1>13 DEF ConsumerNotify
<1>14. CASE StopPrefetchThread BY <1>14 DEF StopPrefetchThread
<1>15. CASE StopNotify BY <1>15, ZenonT(40) DEF StopNotify
<1>16. CASE StopJoin BY <1>16 DEF StopJoin
<1>17. CASE UNCHANGED vars BY <1>17, SMT DEF vars
<1>18. QED
  BY <1>1, <1>2, <1>3, <1>4, <1>5, <1>6, <1>7, <1>8, <1>9, <1>10, <1>11, <1>12, <1>13, <1>14, <1>15, <1>16, <1>17 DEF Next, PrefetchWorker, Run, Destroy

\* The ring invariant holds in every reachable state.
THEOREM RingInvariant == Spec => []RingInv
<1>1. Init => RingInv
  <2> SUFFICES ASSUME Init PROVE RingInv
    OBVIOUS
  <2>1. TypeOK
    BY TypeInit
  <2>2. consumer_cycle = producer_cycle /\ ~IsPrefetchQueueFull
    BY DEF Init, IsPrefetchQueueFull
  <2>3. CycleInv /\ Occupancy = 0
    BY <2>2, SMT DEF Init, CycleInv, Occupancy
  <2>4. CountInv
    BY <2>3, SMT DEF Init, CountInv
  <2>5. ControlInv
    BY <2>2 DEF Init, ControlInv
  <2>6. ContentInv
    BY DepthAssumption, SMT DEF Init, ContentInv, Distance, Slots
  <2>7. QED
    BY <2>1, <2>3, <2>4, <2>5, <2>6 DEF RingInv
<1>2. QED
  BY <1>1, RingInvInductive, PTL DEF Spec

\* The prefetch thread never touches the slot a Run is reading, for every
\* depth of the ring: prefetched_batch_queue_ needs no mutex of its own.
THEOREM NoRace == Spec => []NoSlotRace
<1>1. RingInv => NoSlotRace
  BY DEF RingInv, ControlInv, NoSlotRace, IsPrefetchQueueFull, IsPrefetchQueueEmpty
<1>2. QED
  BY <1>1, RingInvariant, PTL

\* Run reads the batches in the order the loader delivered them, for every
\* depth of the ring.
THEOREM InOrder == Spec => []ReadsInOrder
<1>1. RingInv => ReadsInOrder
  <2> SUFFICES ASSUME RingInv, consumer = "run"
               PROVE  prefetched_batch_queue[curr_batch_consumer] = consumed
    BY DEF ReadsInOrder
  <2>1. /\ curr_batch_consumer \in Slots
        /\ Distance(curr_batch_consumer) = 0
    BY DepthAssumption, SMT DEF RingInv, TypeOK, Slots, Distance
  <2>2. produced - consumed > 0
    BY DepthAssumption, SMT DEF RingInv, TypeOK, Slots, CycleInv, CountInv, ControlInv, Occupancy, IsPrefetchQueueEmpty
  <2>3. destructor # "done" /\ consumer # "advance"
    BY DEF RingInv, ControlInv
  <2>4. QED
    BY <2>1, <2>2, <2>3, SMT DEF RingInv, ContentInv, TypeOK
<1>2. QED
  BY <1>1, RingInvariant, PTL

-----------------------------------------------------------------------------
\* Only a thread inside its wait can be asleep.
WaitInv ==
  /\ "consumer" \in waiting => consumer = "wait"
  /\ "producer" \in waiting => producer = "wait"

\* No wake-up of the prefetch thread or of Run is lost: whenever a sleeping
\* thread's predicate is true, the notify that wakes it is still to come.
THEOREM WakeupsNotLost == Spec => []NoLostWakeup
<1>1. Init => WaitInv /\ NoLostWakeup
  BY DEF Init, WaitInv, NoLostWakeup
<1>2. TypeOK /\ WaitInv /\ NoLostWakeup /\ [Next]_vars => WaitInv' /\ NoLostWakeup'
  <2> SUFFICES ASSUME TypeOK, WaitInv, NoLostWakeup, [Next]_vars
               PROVE  WaitInv' /\ NoLostWakeup'
    OBVIOUS
  <2> USE DEF TypeOK, WaitInv, NoLostWakeup, IsPrefetchQueueEmpty, IsPrefetchQueueFull, ring,
              history, Threads
  <2>1. CASE ProducerWait BY <2>1 DEF ProducerWait
  <2>2. CASE ProducerCheck BY <2>2 DEF ProducerCheck
  <2>3. CASE PrefetchClear BY <2>3 DEF PrefetchClear
  <2>4. CASE PrefetchFill BY <2>4 DEF PrefetchFill
  <2>5. CASE PrefetchThrows BY <2>5 DEF PrefetchThrows
  <2>6. CASE ProducerAdvanceQueue BY <2>6 DEF ProducerAdvanceQueue
  <2>7. CASE ProducerNotify BY <2>7 DEF ProducerNotify
  <2>8. CASE RunStart BY <2>8 DEF RunStart
  <2>9. CASE ConsumerWait BY <2>9 DEF ConsumerWait
  <2>10. CASE RunConsume BY <2>10 DEF RunConsume
  <2>11. CASE RunThrows BY <2>11 DEF RunThrows
  <2>12. CASE ConsumerAdvanceQueue BY <2>12 DEF ConsumerAdvanceQueue
  <2>13. CASE ConsumerNotify BY <2>13 DEF ConsumerNotify
  <2>14. CASE StopPrefetchThread BY <2>14 DEF StopPrefetchThread
  <2>15. CASE StopNotify BY <2>15 DEF StopNotify
  <2>16. CASE StopJoin BY <2>16 DEF StopJoin
  <2>17. CASE UNCHANGED vars BY <2>17 DEF vars
  <2>18. QED
    BY <2>1, <2>2, <2>3, <2>4, <2>5, <2>6, <2>7, <2>8, <2>9, <2>10, <2>11, <2>12, <2>13, <2>14, <2>15, <2>16, <2>17 DEF Next, PrefetchWorker, Run, Destroy
<1>3. QED
  BY <1>1, <1>2, TypeCorrect, PTL DEF Spec
=============================================================================

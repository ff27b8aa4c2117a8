--------------------------- MODULE ThreadPoolProofs ---------------------------
(***************************************************************************)
(* WaitForWork of ThreadPool waits for all work, for every number of       *)
(* threads and of pieces of work.                                          *)
(***************************************************************************)
EXTENDS ThreadPool, FiniteSetTheorems, TLAPS

USE Zenon  \* the prover of every leaf that names none

USE PoolAssumption

Busy == {t \in Threads : pc[t] \in {"wake", "work", "finish"}}

\* The types the argument needs.
PoolTypes ==
  /\ work_queue \in Seq(Nat)
  /\ pc \in [Threads -> Positions] /\ work \in [Threads -> Nat]
  /\ main \in ClientPositions /\ issued \in Nat

\* A piece of work is queued, with a thread, or done.
Placed(i) ==
  \/ i \in done
  \/ \E t \in Threads : pc[t] \in {"wake", "work"} /\ work[t] = i
  \/ \E k \in 1 .. Len(work_queue) : work_queue[k] = i

\* Only pieces that were issued are anywhere.
OnlyIssued ==
  /\ done \subseteq 1 .. issued
  /\ \A t \in Threads : pc[t] \in {"wake", "work"} => work[t] \in 1 .. issued
  /\ \A k \in 1 .. Len(work_queue) : work_queue[k] \in 1 .. issued

\* active_threads_ counts the busy threads, and work_complete_ means that there
\* is neither a busy thread nor queued work.
Counted ==
  /\ active_threads = Cardinality(Busy)
  /\ work_complete => work_queue = <<>> /\ active_threads = 0
  /\ main \in {"check", "stop", "join", "destroyed"} => work_complete

PoolInv == PoolTypes /\ OnlyIssued /\ (\A i \in 1 .. issued : Placed(i)) /\ Counted

\* The busy threads are finitely many.
LEMMA BusyFinite == IsFiniteSet(Busy) /\ Cardinality(Busy) \in Nat
<1>1. IsFiniteSet(Threads)
  BY FS_Interval, SMT DEF Threads
<1> QED BY <1>1, FS_Subset, FS_CardinalityType DEF Busy

\* A thread that becomes busy, or idle, changes their number by one.
LEMMA BusyGrows ==
  ASSUME NEW t \in Threads, t \notin Busy, Busy' = Busy \cup {t}
  PROVE  Cardinality(Busy') = Cardinality(Busy) + 1
BY BusyFinite, FS_AddElement

\* One busy thread less counts for one less.
LEMMA BusyShrinks ==
  ASSUME NEW t \in Threads, t \in Busy, Busy' = Busy \ {t}
  PROVE  Cardinality(Busy') = Cardinality(Busy) - 1
BY BusyFinite, FS_RemoveElement

\* What the head and the tail of a queue of work are.
LEMMA TailWork ==
  ASSUME NEW q \in Seq(Nat), q # <<>>
  PROVE  /\ Tail(q) \in Seq(Nat) /\ Head(q) = q[1] /\ Len(q) \in Nat /\ Len(q) > 0
         /\ Len(Tail(q)) = Len(q) - 1 /\ q[1] \in Nat
         /\ \A k \in 1 .. Len(Tail(q)) : Tail(q)[k] = q[k + 1]
BY SMT

\* A queue of work with one more piece.
LEMMA AppendWork ==
  ASSUME NEW q \in Seq(Nat), NEW x \in Nat
  PROVE  /\ Append(q, x) \in Seq(Nat) /\ Len(q) \in Nat /\ Len(Append(q, x)) = Len(q) + 1
         /\ Append(q, x)[Len(q) + 1] = x
         /\ \A k \in 1 .. Len(q) : Append(q, x)[k] = q[k]
BY SMT

\* At first there is no work and no thread is busy.
LEMMA InitPool == Init => PoolInv
<1> SUFFICES ASSUME Init PROVE PoolInv
  OBVIOUS
<1>1. Busy = {}
  BY DEF Init, Busy
<1>2. PoolTypes
  BY SMT DEF Init, PoolTypes, Positions, ClientPositions
<1>3. OnlyIssued
  BY SMT DEF Init, OnlyIssued
<1>4. \A i \in 1 .. issued : Placed(i)
  BY SMT DEF Init
<1>5. Counted
  BY <1>1, FS_EmptySet DEF Init, Counted
<1> QED BY <1>2, <1>3, <1>4, <1>5 DEF PoolInv

\* The steps of a thread.
LEMMA StartStep ==
  ASSUME PoolInv, NEW t \in Threads, ThreadStart(t)
  PROVE  PoolInv'
<1> USE DEF ThreadStart, shared, client, Goto
<1>0. pc' = [pc EXCEPT ![t] = "loop"] /\ pc[t] = "start" /\ pc \in [Threads -> Positions]
  BY DEF PoolInv, PoolTypes
<1>1. Busy' = Busy
  BY <1>0 DEF Busy
<1>2. PoolTypes'
  BY <1>0 DEF PoolInv, PoolTypes, Positions
<1>3. OnlyIssued'
  BY <1>0 DEF PoolInv, OnlyIssued
<1>4. (\A i \in 1 .. issued : Placed(i))'
  BY <1>0 DEF PoolInv, Placed
<1>5. Counted'
  BY <1>1 DEF PoolInv, Counted
<1> QED BY <1>2, <1>3, <1>4, <1>5 DEF PoolInv

\* A thread takes a piece of work, or is told to end.
LEMMA TakeStep ==
  ASSUME PoolInv, NEW t \in Threads, TakeWork(t)
  PROVE  PoolInv'
<1> USE DEF TakeWork, client, Goto
<1>0. pc[t] = "loop" /\ pc \in [Threads -> Positions] /\ work_queue \in Seq(Nat)
  BY DEF PoolInv, PoolTypes
<1>a. CASE ~running \/ work_queue = <<>>
  <2>0. pc' = pc \/ pc' = [pc EXCEPT ![t] = "exit"]
    BY <1>a
  <2>u. UNCHANGED <<work_queue, active_threads, work, work_complete, running, main, issued, done>>
    BY <1>a
  <2>1. Busy' = Busy
    BY <1>0, <2>0 DEF Busy
  <2>2. PoolTypes'
    BY <1>0, <2>0, <2>u DEF PoolInv, PoolTypes, Positions
  <2>3. OnlyIssued'
    BY <1>0, <2>0, <2>u DEF PoolInv, OnlyIssued
  <2>4. (\A i \in 1 .. issued : Placed(i))'
    BY <1>0, <2>0, <2>u DEF PoolInv, Placed
  <2>5. Counted'
    BY <2>1, <2>u, SMT DEF PoolInv, Counted
  <2> QED BY <2>2, <2>3, <2>4, <2>5 DEF PoolInv
<1>b. CASE running /\ work_queue # <<>>
  <2>0. /\ pc' = [pc EXCEPT ![t] = "wake"] /\ work' = [work EXCEPT ![t] = Head(work_queue)]
        /\ work_queue' = Tail(work_queue) /\ active_threads' = active_threads + 1
        /\ UNCHANGED <<work_complete, running, main, issued, done>>
    BY <1>b
  <2>q. /\ work_queue' \in Seq(Nat) /\ Head(work_queue) = work_queue[1] /\ work_queue[1] \in Nat
        /\ Len(work_queue) \in Nat /\ Len(work_queue) > 0 /\ Len(work_queue') = Len(work_queue) - 1
        /\ \A k \in 1 .. Len(work_queue') : work_queue'[k] = work_queue[k + 1]
    BY <1>0, <1>b, <2>0, TailWork
  <2>1. t \notin Busy /\ Busy' = Busy \cup {t}
    BY <1>0, <2>0 DEF Busy
  <2>2. PoolTypes'
    <3> HIDE DEF TakeWork
    <3>1. work' \in [Threads -> Nat] /\ pc' \in [Threads -> Positions]
      BY <1>0, <2>0, <2>q DEF PoolInv, PoolTypes, Positions
    <3> QED BY <2>0, <2>q, <3>1 DEF PoolInv, PoolTypes
  <2>3. OnlyIssued'
    <3>0. \A k \in 1 .. Len(work_queue) : work_queue[k] \in 1 .. issued
      BY DEF PoolInv, OnlyIssued
    <3>1. work'[t] \in 1 .. issued /\ \A u \in Threads \ {t} : work'[u] = work[u] /\ pc'[u] = pc[u]
      <4>1. 1 \in 1 .. Len(work_queue)
        BY <2>q, SMT
      <4>2. work \in [Threads -> Nat]
        BY DEF PoolInv, PoolTypes
      <4> HIDE DEF TakeWork
      <4> QED BY <1>0, <2>0, <2>q, <3>0, <4>1, <4>2
    <3>2. \A k \in 1 .. Len(work_queue') : work_queue'[k] \in 1 .. issued
      <4> SUFFICES ASSUME NEW k \in 1 .. Len(work_queue') PROVE work_queue'[k] \in 1 .. issued
        OBVIOUS
      <4>1. k + 1 \in 1 .. Len(work_queue)
        BY <2>q, SMT
      <4> QED BY <2>q, <3>0, <4>1
    <3> QED BY <2>0, <3>1, <3>2 DEF PoolInv, OnlyIssued
  <2>4. (\A i \in 1 .. issued : Placed(i))'
    <3> SUFFICES ASSUME NEW i \in 1 .. issued PROVE Placed(i)'
      BY <2>0
    <3>0. Placed(i)
      BY DEF PoolInv
    <3>t. pc'[t] = "wake" /\ work'[t] = work_queue[1]
      BY <1>0, <2>0, <2>q, ZenonT(60) DEF PoolInv, PoolTypes
    <3>1. CASE i \in done
      BY <2>0, <3>1 DEF Placed
    <3>2. ASSUME NEW u \in Threads, pc[u] \in {"wake", "work"}, work[u] = i PROVE Placed(i)'
      <4>1. u # t
        BY <1>0, <3>2
      <4>2. pc'[u] = pc[u] /\ work'[u] = work[u]
        BY <4>1, <1>0, <2>0 DEF PoolInv, PoolTypes
      <4> QED BY <3>2, <4>2 DEF Placed
    <3>3. ASSUME NEW k \in 1 .. Len(work_queue), work_queue[k] = i PROVE Placed(i)'
      <4>1. CASE k = 1
        BY <3>3, <3>t, <4>1 DEF Placed
      <4>2. CASE k # 1
        <5>1. k - 1 \in 1 .. Len(work_queue') /\ work_queue'[k - 1] = work_queue[(k - 1) + 1]
          BY <2>q, <4>2, SMT
        <5>2. work_queue'[k - 1] = i
          BY <3>3, <5>1, SMT
        <5> QED BY <5>1, <5>2 DEF Placed
      <4> QED BY <4>1, <4>2
    <3> QED BY <3>0, <3>1, <3>2, <3>3 DEF Placed
  <2>5. Counted'
    <3>1. ~work_complete
      BY <1>b DEF PoolInv, Counted
    <3>2. active_threads' = Cardinality(Busy')
      <4>1. Cardinality(Busy') = Cardinality(Busy) + 1
        BY <2>1, BusyGrows
      <4> QED BY <2>0, <4>1 DEF PoolInv, Counted
    <3> QED BY <2>0, <3>1, <3>2, SMT DEF PoolInv, Counted
  <2> QED BY <2>2, <2>3, <2>4, <2>5 DEF PoolInv
<1> QED BY <1>a, <1>b

\* It wakes another thread.
LEMMA WakeStep ==
  ASSUME PoolInv, NEW t \in Threads, WakeNext(t)
  PROVE  PoolInv'
<1> USE DEF WakeNext, shared, client, Goto
<1>0. /\ pc' = [pc EXCEPT ![t] = "work"] /\ pc[t] = "wake" /\ pc \in [Threads -> Positions]
      /\ UNCHANGED <<shared, work, main, issued, done>>
  BY DEF PoolInv, PoolTypes
<1>1. Busy' = Busy
  BY <1>0 DEF Busy
<1>2. PoolTypes'
  BY <1>0 DEF PoolInv, PoolTypes, Positions
<1>3. OnlyIssued'
  BY <1>0 DEF PoolInv, OnlyIssued
<1>4. (\A i \in 1 .. issued : Placed(i))'
  <2>1. \A u \in Threads : pc[u] \in {"wake", "work"} => pc'[u] \in {"wake", "work"}
    BY <1>0
  <2> QED BY <1>0, <2>1 DEF PoolInv, Placed
<1>5. Counted'
  BY <1>0, <1>1, SMT DEF PoolInv, Counted
<1> QED BY <1>2, <1>3, <1>4, <1>5 DEF PoolInv

\* It runs the work, which may throw.
LEMMA WorkStep ==
  ASSUME PoolInv, NEW t \in Threads, RunWork(t)
  PROVE  PoolInv'
<1> USE DEF RunWork, shared, client, Goto
<1>0. /\ pc' = [pc EXCEPT ![t] = "finish"] /\ pc[t] = "work" /\ pc \in [Threads -> Positions]
      /\ UNCHANGED <<shared, work, main, issued>> /\ done' = done \cup {work[t]}
  BY DEF PoolInv, PoolTypes
<1>1. Busy' = Busy
  BY <1>0 DEF Busy
<1>2. PoolTypes'
  BY <1>0 DEF PoolInv, PoolTypes, Positions
<1>3. OnlyIssued'
  BY <1>0 DEF PoolInv, OnlyIssued
<1>4. (\A i \in 1 .. issued : Placed(i))'
  <2>1. \A u \in Threads : pc[u] \in {"wake", "work"} =>
          pc'[u] \in {"wake", "work"} \/ work[u] \in done'
    BY <1>0
  <2> QED BY <1>0, <2>1 DEF PoolInv, Placed
<1>5. Counted'
  BY <1>0, <1>1, SMT DEF PoolInv, Counted
<1> QED BY <1>2, <1>3, <1>4, <1>5 DEF PoolInv

\* It counts itself out and, as the last one, declares the work complete.
LEMMA FinishStep ==
  ASSUME PoolInv, NEW t \in Threads, Finish(t)
  PROVE  PoolInv'
<1> USE DEF Finish, Goto
<1>0. /\ pc' = [pc EXCEPT ![t] = "loop"] /\ pc[t] = "finish" /\ pc \in [Threads -> Positions]
      /\ work' = [work EXCEPT ![t] = 0] /\ work \in [Threads -> Nat]
      /\ active_threads' = active_threads - 1
      /\ UNCHANGED <<running, work_queue, issued, done>>
  BY DEF PoolInv, PoolTypes
<1>m. /\ main' \in ClientPositions
      /\ main' \in {"check", "stop", "join", "destroyed"} => main' = main
      /\ \/ work_complete' = TRUE /\ work_queue = <<>> /\ active_threads' = 0
         \/ work_complete' = work_complete
  BY DEF PoolInv, PoolTypes, ClientPositions
<1>1. t \in Busy /\ Busy' = Busy \ {t}
  BY <1>0 DEF Busy
<1>2. PoolTypes'
  <2> HIDE DEF Finish
  <2>1. work' \in [Threads -> Nat] /\ pc' \in [Threads -> Positions]
    BY <1>0 DEF Positions
  <2> QED BY <1>0, <1>m, <2>1 DEF PoolInv, PoolTypes
<1>3. OnlyIssued'
  BY <1>0 DEF PoolInv, OnlyIssued
<1>4. (\A i \in 1 .. issued : Placed(i))'
  <2>1. \A u \in Threads : pc[u] \in {"wake", "work"} =>
          pc'[u] = pc[u] /\ work'[u] = work[u]
    BY <1>0
  <2> QED BY <1>0, <2>1, SMT DEF PoolInv, Placed
<1>5. Counted'
  <2>1. Cardinality(Busy) > 0
    BY <1>1, BusyFinite, FS_EmptySet, SMT
  <2>2. ~work_complete
    BY <2>1, SMT DEF PoolInv, Counted
  <2>3. active_threads' = Cardinality(Busy')
    <3>1. Cardinality(Busy') = Cardinality(Busy) - 1
      BY <1>1, BusyShrinks
    <3> QED BY <1>0, <3>1 DEF PoolInv, Counted
  <2> QED BY <1>0, <1>m, <2>2, <2>3, SMT DEF PoolInv, Counted
<1> QED BY <1>2, <1>3, <1>4, <1>5 DEF PoolInv

\* The steps of the client.
LEMMA DoWorkStep ==
  ASSUME PoolInv, DoWorkWithID
  PROVE  PoolInv'
<1> USE DEF DoWorkWithID
<1>q. /\ work_queue' \in Seq(Nat) /\ Len(work_queue) \in Nat
      /\ Len(work_queue') = Len(work_queue) + 1 /\ work_queue'[Len(work_queue) + 1] = issued + 1
      /\ \A k \in 1 .. Len(work_queue) : work_queue'[k] = work_queue[k]
  <2>1. work_queue \in Seq(Nat) /\ issued + 1 \in Nat
    BY SMT DEF PoolInv, PoolTypes
  <2> QED BY <2>1, AppendWork
<1>1. Busy' = Busy
  BY DEF Busy
<1>2. PoolTypes'
  <2>1. main' \in ClientPositions /\ issued' \in Nat
    BY SMT DEF PoolInv, PoolTypes, ClientPositions
  <2>2. UNCHANGED <<pc, work>>
    OBVIOUS
  <2> HIDE DEF DoWorkWithID
  <2> QED BY <1>q, <2>1, <2>2 DEF PoolInv, PoolTypes
<1>3. OnlyIssued'
  <2>1. issued \in Nat
    BY DEF PoolInv, PoolTypes
  <2>2. 1 .. issued \subseteq 1 .. issued' /\ issued + 1 \in 1 .. issued'
    BY <2>1, SMT
  <2>3. \A k \in 1 .. Len(work_queue') : work_queue'[k] \in 1 .. issued'
    BY <1>q, <2>2, SMT DEF PoolInv, OnlyIssued
  <2> QED BY <2>2, <2>3 DEF PoolInv, OnlyIssued
<1>4. (\A i \in 1 .. issued : Placed(i))'
  <2> SUFFICES ASSUME NEW i \in 1 .. issued' PROVE Placed(i)'
    OBVIOUS
  <2>1. CASE i = issued + 1
    <3>1. Len(work_queue) + 1 \in 1 .. Len(work_queue')
      BY <1>q, SMT
    <3> QED BY <1>q, <2>1, <3>1 DEF Placed
  <2>2. CASE i # issued + 1
    <3>1. i \in 1 .. issued
      BY <2>2, SMT DEF PoolInv, PoolTypes
    <3>2. Placed(i)
      BY <3>1 DEF PoolInv
    <3>3. 1 .. Len(work_queue) \subseteq 1 .. Len(work_queue')
      BY <1>q, SMT
    <3> QED BY <1>q, <3>2, <3>3 DEF Placed
  <2> QED BY <2>1, <2>2
<1>5. Counted'
  BY <1>1 DEF PoolInv, Counted
<1> QED BY <1>2, <1>3, <1>4, <1>5 DEF PoolInv

\* The other steps of the client leave the work alone.
LEMMA ClientSteps ==
  ASSUME PoolInv,
         Resize \/ DoWorkNotify \/ WaitForWork \/ CheckErrors \/ Destroy \/ Stop \/ Join
  PROVE  PoolInv'
<1> USE DEF Resize, DoWorkNotify, WaitForWork, CheckErrors, Destroy, Stop, Join, shared
<1>0. /\ UNCHANGED <<work_queue, work_complete, active_threads, pc, work, issued, done>>
      /\ main' \in ClientPositions
      /\ main' \in {"check", "stop", "join", "destroyed"} =>
           work_complete \/ main \in {"check", "stop", "join", "destroyed"}
  BY DEF PoolInv, PoolTypes, ClientPositions
<1>1. Busy' = Busy
  BY <1>0 DEF Busy
<1>2. PoolTypes'
  BY <1>0 DEF PoolInv, PoolTypes
<1>3. OnlyIssued'
  BY <1>0 DEF PoolInv, OnlyIssued
<1>4. (\A i \in 1 .. issued : Placed(i))'
  BY <1>0 DEF PoolInv, Placed
<1>5. Counted'
  BY <1>0, <1>1 DEF PoolInv, Counted
<1> QED BY <1>2, <1>3, <1>4, <1>5 DEF PoolInv

\* Every step of the pool and of its client keeps the invariant.
LEMMA NextPool == PoolInv /\ [Next]_vars => PoolInv'
<1> SUFFICES ASSUME PoolInv, [Next]_vars PROVE PoolInv'
  OBVIOUS
<1>1. ASSUME NEW t \in Threads, ThreadMain(t) PROVE PoolInv'
  BY <1>1, StartStep, TakeStep, WakeStep, WorkStep, FinishStep DEF ThreadMain
<1>2. CASE ClientStep \/ ClientCall
  BY <1>2, DoWorkStep, ClientSteps DEF ClientStep, ClientCall
<1>3. CASE UNCHANGED vars
  BY <1>3 DEF vars, shared, client, PoolInv, PoolTypes, OnlyIssued, Placed, Counted, Busy
<1> QED BY <1>1, <1>2, <1>3 DEF Next

\* "Blocks until all work issued to the thread pool is complete", for every
\* number of threads: with no busy thread and an empty queue, every piece that
\* was issued can only be done.
THEOREM WorkIsWaitedFor == Spec => []WaitsForAllWork
<1>1. PoolInv => WaitsForAllWork
  <2> SUFFICES ASSUME PoolInv, main \in {"check", "stop", "join"}
               PROVE  /\ done = 1 .. issued
                      /\ \A t \in Threads : pc[t] \notin {"wake", "work", "finish"}
    BY DEF WaitsForAllWork
  <2>1. work_queue = <<>> /\ Cardinality(Busy) = 0
    BY DEF PoolInv, Counted
  <2>2. Busy = {}
    BY <2>1, BusyFinite, FS_EmptySet
  <2>3. \A t \in Threads : pc[t] \notin {"wake", "work", "finish"}
    BY <2>2 DEF Busy
  <2>4. \A i \in 1 .. issued : i \in done
    BY <2>1, <2>3, SMT DEF PoolInv, Placed
  <2> QED BY <2>3, <2>4 DEF PoolInv, OnlyIssued
<1> QED BY <1>1, InitPool, NextPool, PTL DEF Spec

=============================================================================

------------------------- MODULE WorkerThreadProofs -------------------------
(***************************************************************************)
(* WaitForInit reports a failed set-up, and work that is complete is done, *)
(* for every amount of work, width of size_t and moment of ForceStop.      *)
(***************************************************************************)
EXTENDS WorkerThread, TLAPS

USE Zenon  \* the prover of every leaf that names none

USE WorkerAssumption

One(b) == IF b THEN 1 ELSE 0

Initialising == {"created", "arrive", "bar_test", "bar_presleep", "initialised"}

\* Until WaitForInit returns, nothing has broken the barrier, which counts who
\* is still to arrive; so the client leaves it only after the thread's set-up,
\* and a set-up that fails has cleared running_ by then.
BarrierInv ==
  /\ main \in Initialising =>
       /\ count = 2 /\ force = 0
       /\ current = One(pc \in {"setup", "arrive"}) + One(main \in {"created", "arrive"})
  /\ main = "initialised" => pc \notin {"setup", "arrive"}
  /\ ~ok.setup => ~running
  /\ main = "api" \/ issued > 0 => ok.setup /\ pc # "setup"

\* Work is in the queue, being run, or done.
CountInv ==
  /\ issued = done + Len(work_queue) + One(pc = "work")
  /\ work_complete => work_queue = <<>> /\ pc # "work"

\* At most one error each of the set-up and of work: the thread stops after one.
ErrorInv ==
  /\ errors <= One(~ok.setup) + One(~ok.work)
  /\ pc = "setup" => ok.setup /\ ok.work
  /\ ~ok.work => pc \in {"thrown", "exit"}

WorkerInv == TypeOK /\ BarrierInv /\ CountInv /\ ErrorInv

\* What Append and Tail do to the work queue.
LEMMA QueueFacts ==
  ASSUME NEW q \in Seq(1 .. MaxWork)
  PROVE  /\ Len(q) \in Nat /\ (q # <<>> <=> Len(q) > 0)
         /\ \A x \in 1 .. MaxWork :
              Append(q, x) \in Seq(1 .. MaxWork) /\ Len(Append(q, x)) = Len(q) + 1
         /\ q # <<>> => Tail(q) \in Seq(1 .. MaxWork) /\ Len(Tail(q)) = Len(q) - 1
BY SMT

\* The constructor establishes the invariant.
LEMMA InitWorker == Init => WorkerInv
<1> SUFFICES ASSUME Init PROVE WorkerInv
  OBVIOUS
<1>1. WorkType
  BY SMT DEF Init, WorkType
<1>2. FlagType
  BY DEF Init, FlagType
<1>3. BarrierType /\ SleepType
  BY SMT DEF Init, BarrierType, SleepType
<1>4. PlaceType
  BY DEF Init, PlaceType
<1>5. BarrierInv
  BY SMT DEF Init, BarrierInv, Initialising, One
<1>6. CountInv /\ ErrorInv
  BY SMT DEF Init, CountInv, ErrorInv, One
<1> QED BY <1>1, <1>2, <1>3, <1>4, <1>5, <1>6 DEF WorkerInv, TypeOK

\* A set-up that fails clears running_ before the thread arrives at the barrier.
LEMMA SetupInv ==
  ASSUME WorkerInv, Setup
  PROVE  WorkerInv'
<1> USE DEF Setup
<1>1. BarrierType' /\ SleepType'
  BY DEF WorkerInv, TypeOK, BarrierType, SleepType, state, barrier
<1>2. WorkType'
  BY SMT DEF WorkerInv, TypeOK, WorkType, FlagType, CountInv, ErrorInv, One
<1>3. FlagType'
  BY DEF WorkerInv, TypeOK, FlagType
<1>4. PlaceType'
  BY DEF WorkerInv, TypeOK, PlaceType
<1>5. BarrierInv'
  BY SMT DEF WorkerInv, TypeOK, FlagType, BarrierType, PlaceType, WorkType, BarrierInv, Initialising, One,
         state, barrier
<1>6. CountInv'
  BY QueueFacts DEF WorkerInv, TypeOK, WorkType, CountInv, One, state
<1>7. ErrorInv'
  BY SMTT(30) DEF WorkerInv, TypeOK, WorkType, FlagType, ErrorInv, One, state
<1> QED BY <1>1, <1>2, <1>3, <1>4, <1>5, <1>6, <1>7 DEF WorkerInv, TypeOK

\* The thread arrives at the barrier after its set-up.
LEMMA ThreadBarrierInv ==
  ASSUME WorkerInv, ThreadBarrier
  PROVE  WorkerInv'
<1> USE DEF ThreadBarrier, BarrierWait, BarrierArrive, BarrierTest, BarrierSleep, Goto, Position, After
<1>1. WorkType' /\ FlagType'
  BY DEF WorkerInv, TypeOK, WorkType, FlagType, state, barrier
<1>2. BarrierType'
  BY SMT DEF WorkerInv, TypeOK, BarrierType, barrier
<1>3. PlaceType'
  BY DEF WorkerInv, TypeOK, PlaceType
<1>4. SleepType'
  BY DEF WorkerInv, TypeOK, SleepType
<1>5. BarrierInv'
  BY SMT DEF WorkerInv, TypeOK, FlagType, BarrierType, PlaceType, WorkType, BarrierInv, Initialising, One,
         state, barrier
<1>6. CountInv'
  BY QueueFacts DEF WorkerInv, TypeOK, WorkType, CountInv, One, state
<1>7. ErrorInv'
  BY DEF WorkerInv, TypeOK, WorkType, FlagType, ErrorInv, One, state
<1> QED BY <1>1, <1>2, <1>3, <1>4, <1>5, <1>6, <1>7 DEF WorkerInv, TypeOK

\* The test of the loop changes nothing.
LEMMA LoopInv ==
  ASSUME WorkerInv, Loop
  PROVE  WorkerInv'
<1> USE DEF Loop
<1>1. WorkType' /\ FlagType' /\ BarrierType' /\ SleepType'
  BY DEF WorkerInv, TypeOK, WorkType, FlagType, BarrierType, SleepType, state, barrier
<1>2. PlaceType'
  BY DEF WorkerInv, TypeOK, PlaceType
<1>3. BarrierInv'
  BY DEF WorkerInv, TypeOK, FlagType, BarrierType, PlaceType, WorkType, BarrierInv, Initialising, One,
         state, barrier
<1>4. CountInv'
  BY QueueFacts DEF WorkerInv, TypeOK, WorkType, CountInv, One, state
<1>5. ErrorInv'
  BY DEF WorkerInv, TypeOK, WorkType, FlagType, ErrorInv, One, state
<1> QED BY <1>1, <1>2, <1>3, <1>4, <1>5 DEF WorkerInv, TypeOK

\* Work moves from the queue to the thread.
LEMMA TakeWorkInv ==
  ASSUME WorkerInv, TakeWork
  PROVE  WorkerInv'
<1> USE DEF TakeWork
<1>1. FlagType' /\ BarrierType' /\ SleepType'
  BY DEF WorkerInv, TypeOK, FlagType, BarrierType, SleepType, state, barrier
<1>2. WorkType'
  BY QueueFacts DEF WorkerInv, TypeOK, WorkType, FlagType, CountInv, ErrorInv, One
<1>3. PlaceType'
  BY DEF WorkerInv, TypeOK, PlaceType
<1>4. BarrierInv'
  BY DEF WorkerInv, TypeOK, FlagType, BarrierType, PlaceType, WorkType, BarrierInv, Initialising, One,
         state, barrier
<1>5. CountInv'
  BY QueueFacts, SMTT(30) DEF WorkerInv, TypeOK, WorkType, CountInv, One, state
<1>6. ErrorInv'
  BY DEF WorkerInv, TypeOK, WorkType, FlagType, ErrorInv, One, state
<1> QED BY <1>1, <1>2, <1>3, <1>4, <1>5, <1>6 DEF WorkerInv, TypeOK

\* Blocking on cv_ changes only who sleeps.
LEMMA SleepInv ==
  ASSUME WorkerInv, Sleep
  PROVE  WorkerInv'
<1> USE DEF Sleep
<1>1. WorkType' /\ FlagType' /\ BarrierType'
  BY DEF WorkerInv, TypeOK, WorkType, FlagType, BarrierType, state, barrier
<1>2. PlaceType'
  BY DEF WorkerInv, TypeOK, PlaceType
<1>3. SleepType'
  BY DEF WorkerInv, TypeOK, SleepType
<1>4. BarrierInv'
  BY DEF WorkerInv, TypeOK, FlagType, BarrierType, PlaceType, WorkType, BarrierInv, Initialising, One,
         state, barrier
<1>5. CountInv'
  BY QueueFacts DEF WorkerInv, TypeOK, WorkType, CountInv, One, state
<1>6. ErrorInv'
  BY DEF WorkerInv, TypeOK, WorkType, FlagType, ErrorInv, One, state
<1> QED BY <1>1, <1>2, <1>3, <1>4, <1>5, <1>6 DEF WorkerInv, TypeOK

\* Work that returns or throws is done.
LEMMA RunWorkInv ==
  ASSUME WorkerInv, RunWork
  PROVE  WorkerInv'
<1> USE DEF RunWork
<1>1. BarrierType' /\ SleepType'
  BY DEF WorkerInv, TypeOK, BarrierType, SleepType, state, barrier
<1>2. WorkType'
  BY QueueFacts, SMTT(30) DEF WorkerInv, TypeOK, WorkType, FlagType, CountInv, ErrorInv, One
<1>3. FlagType'
  BY DEF WorkerInv, TypeOK, FlagType
<1>4. PlaceType'
  BY DEF WorkerInv, TypeOK, PlaceType
<1>5. BarrierInv'
  BY DEF WorkerInv, TypeOK, FlagType, BarrierType, PlaceType, WorkType, BarrierInv, Initialising, One,
         state, barrier
<1>6. CountInv'
  BY QueueFacts, SMT DEF WorkerInv, TypeOK, WorkType, CountInv, One, state
<1>7. ErrorInv'
  BY SMTT(30) DEF WorkerInv, TypeOK, WorkType, FlagType, ErrorInv, One, state
<1> QED BY <1>1, <1>2, <1>3, <1>4, <1>5, <1>6, <1>7 DEF WorkerInv, TypeOK

\* After an exception the thread stops.
LEMMA ThrowStopInv ==
  ASSUME WorkerInv, ThrowStop
  PROVE  WorkerInv'
<1> USE DEF ThrowStop
<1>1. WorkType' /\ BarrierType' /\ SleepType'
  BY DEF WorkerInv, TypeOK, WorkType, BarrierType, SleepType, state, barrier
<1>2. FlagType'
  BY DEF WorkerInv, TypeOK, FlagType
<1>3. PlaceType'
  BY DEF WorkerInv, TypeOK, PlaceType
<1>4. BarrierInv'
  BY DEF WorkerInv, TypeOK, FlagType, BarrierType, PlaceType, WorkType, BarrierInv, Initialising, One,
         state, barrier
<1>5. CountInv'
  BY QueueFacts DEF WorkerInv, TypeOK, WorkType, CountInv, One, state
<1>6. ErrorInv'
  BY DEF WorkerInv, TypeOK, WorkType, FlagType, ErrorInv, One, state
<1> QED BY <1>1, <1>2, <1>3, <1>4, <1>5, <1>6 DEF WorkerInv, TypeOK

\* work_complete_ is set only with an empty queue and no work running.
LEMMA FinishInv ==
  ASSUME WorkerInv, Finish
  PROVE  WorkerInv'
<1> USE DEF Finish
<1>1. WorkType' /\ BarrierType'
  BY DEF WorkerInv, TypeOK, WorkType, BarrierType, state, barrier
<1>2. FlagType'
  BY DEF WorkerInv, TypeOK, FlagType
<1>3. PlaceType'
  BY DEF WorkerInv, TypeOK, PlaceType
<1>4. SleepType'
  BY DEF WorkerInv, TypeOK, SleepType
<1>5. BarrierInv'
  BY DEF WorkerInv, TypeOK, FlagType, BarrierType, PlaceType, WorkType, BarrierInv, Initialising, One,
         state, barrier
<1>6. CountInv'
  BY QueueFacts DEF WorkerInv, TypeOK, WorkType, CountInv, One, state
<1>7. ErrorInv'
  BY DEF WorkerInv, TypeOK, WorkType, FlagType, ErrorInv, One, state
<1> QED BY <1>1, <1>2, <1>3, <1>4, <1>5, <1>6, <1>7 DEF WorkerInv, TypeOK

\* The client is still to arrive at the barrier, or never does.
LEMMA CallInitInv ==
  ASSUME WorkerInv, CallInit
  PROVE  WorkerInv'
<1> USE DEF CallInit
<1>1. WorkType' /\ FlagType' /\ BarrierType' /\ SleepType'
  BY DEF WorkerInv, TypeOK, WorkType, FlagType, BarrierType, SleepType, state, barrier
<1>2. PlaceType'
  BY DEF WorkerInv, TypeOK, PlaceType
<1>3. BarrierInv'
  BY DEF WorkerInv, TypeOK, FlagType, BarrierType, PlaceType, WorkType, BarrierInv, Initialising, One,
         state, barrier
<1>4. CountInv'
  BY QueueFacts DEF WorkerInv, TypeOK, WorkType, CountInv, One, state
<1>5. ErrorInv'
  BY DEF WorkerInv, TypeOK, WorkType, FlagType, ErrorInv, One, state
<1> QED BY <1>1, <1>2, <1>3, <1>4, <1>5 DEF WorkerInv, TypeOK

\* The client leaves the barrier only after the thread has arrived.
LEMMA ClientBarrierInv ==
  ASSUME WorkerInv, ClientBarrier
  PROVE  WorkerInv'
<1> USE DEF ClientBarrier, BarrierWait, BarrierArrive, BarrierTest, BarrierSleep, Goto, Position, After
<1>1. WorkType' /\ FlagType'
  BY DEF WorkerInv, TypeOK, WorkType, FlagType, state, barrier
<1>2. BarrierType'
  BY SMT DEF WorkerInv, TypeOK, BarrierType, barrier
<1>3. PlaceType'
  BY DEF WorkerInv, TypeOK, PlaceType
<1>4. SleepType'
  BY DEF WorkerInv, TypeOK, SleepType
<1>5. BarrierInv'
  <2> USE DEF WorkerInv, TypeOK, FlagType, BarrierType, PlaceType, WorkType, BarrierInv, Initialising,
              One, state, barrier
  <2>1. CASE BarrierArrive("bar_main")
    BY <2>1, SMTT(120)
  <2>2. CASE BarrierTest("bar_main")
    BY <2>2, SMTT(30)
  <2>3. CASE BarrierSleep("bar_main")
    BY <2>3
  <2> QED BY <2>1, <2>2, <2>3
<1>6. CountInv'
  BY QueueFacts DEF WorkerInv, TypeOK, WorkType, CountInv, One, state
<1>7. ErrorInv'
  BY DEF WorkerInv, TypeOK, WorkType, FlagType, ErrorInv, One, state
<1> QED BY <1>1, <1>2, <1>3, <1>4, <1>5, <1>6, <1>7 DEF WorkerInv, TypeOK

\* running_ says whether the set-up succeeded.
LEMMA WaitForInitInv ==
  ASSUME WorkerInv, WaitForInit
  PROVE  WorkerInv'
<1> USE DEF WaitForInit
<1>1. WorkType' /\ FlagType' /\ BarrierType' /\ SleepType'
  BY DEF WorkerInv, TypeOK, WorkType, FlagType, BarrierType, SleepType, state, barrier
<1>2. PlaceType'
  BY DEF WorkerInv, TypeOK, PlaceType
<1>3. BarrierInv'
  BY DEF WorkerInv, TypeOK, FlagType, BarrierType, PlaceType, WorkType, BarrierInv, Initialising, One,
         state, barrier
<1>4. CountInv'
  BY QueueFacts DEF WorkerInv, TypeOK, WorkType, CountInv, One, state
<1>5. ErrorInv'
  BY DEF WorkerInv, TypeOK, WorkType, FlagType, ErrorInv, One, state
<1> QED BY <1>1, <1>2, <1>3, <1>4, <1>5 DEF WorkerInv, TypeOK

\* ForceStop begins only when WaitForInit is not under way.
LEMMA InitFailsInv ==
  ASSUME WorkerInv, InitFails
  PROVE  WorkerInv'
<1> USE DEF InitFails
<1>1. WorkType' /\ FlagType' /\ SleepType'
  BY DEF WorkerInv, TypeOK, WorkType, FlagType, SleepType, state, barrier
<1>2. BarrierType'
  BY SMT DEF WorkerInv, TypeOK, BarrierType, barrier
<1>3. PlaceType'
  BY DEF WorkerInv, TypeOK, PlaceType
<1>4. BarrierInv'
  BY DEF WorkerInv, TypeOK, FlagType, BarrierType, PlaceType, WorkType, BarrierInv, Initialising, One,
         state, barrier
<1>5. CountInv'
  BY QueueFacts DEF WorkerInv, TypeOK, WorkType, CountInv, One, state
<1>6. ErrorInv'
  BY DEF WorkerInv, TypeOK, WorkType, FlagType, ErrorInv, One, state
<1> QED BY <1>1, <1>2, <1>3, <1>4, <1>5, <1>6 DEF WorkerInv, TypeOK

\* Break finds no client in the barrier.
LEMMA ForceStopInv ==
  ASSUME WorkerInv, ForceStop
  PROVE  WorkerInv'
<1> USE DEF ForceStop
<1>1. WorkType' /\ PlaceType'
  BY DEF WorkerInv, TypeOK, WorkType, PlaceType, state, barrier
<1>2. FlagType'
  BY DEF WorkerInv, TypeOK, FlagType
<1>3. BarrierType'
  BY SMT DEF WorkerInv, TypeOK, BarrierType, barrier
<1>4. SleepType'
  BY DEF WorkerInv, TypeOK, SleepType
<1>5. BarrierInv'
  BY SMTT(30) DEF WorkerInv, TypeOK, FlagType, BarrierType, PlaceType, WorkType, BarrierInv, Initialising, One,
         state, barrier
<1>6. CountInv'
  BY QueueFacts DEF WorkerInv, TypeOK, WorkType, CountInv, One, state
<1>7. ErrorInv'
  BY DEF WorkerInv, TypeOK, WorkType, FlagType, ErrorInv, One, state
<1> QED BY <1>1, <1>2, <1>3, <1>4, <1>5, <1>6, <1>7 DEF WorkerInv, TypeOK

\* Shutdown begins to wait, or to stop.
LEMMA ShutdownInv ==
  ASSUME WorkerInv, Shutdown
  PROVE  WorkerInv'
<1> USE DEF Shutdown
<1>1. WorkType' /\ FlagType' /\ SleepType'
  BY DEF WorkerInv, TypeOK, WorkType, FlagType, SleepType, state, barrier
<1>2. BarrierType'
  BY SMT DEF WorkerInv, TypeOK, BarrierType, barrier
<1>3. PlaceType'
  BY DEF WorkerInv, TypeOK, PlaceType
<1>4. BarrierInv'
  BY DEF WorkerInv, TypeOK, FlagType, BarrierType, PlaceType, WorkType, BarrierInv, Initialising, One,
         state, barrier
<1>5. CountInv'
  BY QueueFacts DEF WorkerInv, TypeOK, WorkType, CountInv, One, state
<1>6. ErrorInv'
  BY DEF WorkerInv, TypeOK, WorkType, FlagType, ErrorInv, One, state
<1> QED BY <1>1, <1>2, <1>3, <1>4, <1>5, <1>6 DEF WorkerInv, TypeOK

\* Waiting for work changes no count of work.
LEMMA WaitForWorkInv ==
  ASSUME WorkerInv, WaitForWork
  PROVE  WorkerInv'
<1> USE DEF WaitForWork
<1>1. BarrierType'
  BY DEF WorkerInv, TypeOK, BarrierType, state, barrier
<1>2. WorkType'
  BY SMT DEF WorkerInv, TypeOK, WorkType, FlagType, CountInv, ErrorInv, One
<1>3. FlagType'
  BY DEF WorkerInv, TypeOK, FlagType
<1>4. PlaceType'
  BY DEF WorkerInv, TypeOK, PlaceType
<1>5. SleepType'
  BY DEF WorkerInv, TypeOK, SleepType
<1>6. BarrierInv'
  BY DEF WorkerInv, TypeOK, FlagType, BarrierType, PlaceType, WorkType, BarrierInv, Initialising, One,
         state, barrier
<1>7. CountInv'
  BY QueueFacts DEF WorkerInv, TypeOK, WorkType, CountInv, One, state
<1>8. ErrorInv'
  BY SMT DEF WorkerInv, TypeOK, WorkType, FlagType, ErrorInv, One, state
<1> QED BY <1>1, <1>2, <1>3, <1>4, <1>5, <1>6, <1>7, <1>8 DEF WorkerInv, TypeOK

\* running_ is cleared after the work.
LEMMA MarkStoppedInv ==
  ASSUME WorkerInv, MarkStopped
  PROVE  WorkerInv'
<1> USE DEF MarkStopped
<1>1. WorkType' /\ BarrierType'
  BY DEF WorkerInv, TypeOK, WorkType, BarrierType, state, barrier
<1>2. FlagType'
  BY DEF WorkerInv, TypeOK, FlagType
<1>3. PlaceType'
  BY DEF WorkerInv, TypeOK, PlaceType
<1>4. SleepType'
  BY DEF WorkerInv, TypeOK, SleepType
<1>5. BarrierInv'
  BY DEF WorkerInv, TypeOK, FlagType, BarrierType, PlaceType, WorkType, BarrierInv, Initialising, One,
         state, barrier
<1>6. CountInv'
  BY QueueFacts DEF WorkerInv, TypeOK, WorkType, CountInv, One, state
<1>7. ErrorInv'
  BY DEF WorkerInv, TypeOK, WorkType, FlagType, ErrorInv, One, state
<1> QED BY <1>1, <1>2, <1>3, <1>4, <1>5, <1>6, <1>7 DEF WorkerInv, TypeOK

\* Shutdown calls ForceStop again.
LEMMA ShutdownForceInv ==
  ASSUME WorkerInv, ShutdownForce
  PROVE  WorkerInv'
<1> USE DEF ShutdownForce
<1>1. WorkType' /\ FlagType' /\ SleepType'
  BY DEF WorkerInv, TypeOK, WorkType, FlagType, SleepType, state, barrier
<1>2. BarrierType'
  BY SMT DEF WorkerInv, TypeOK, BarrierType, barrier
<1>3. PlaceType'
  BY DEF WorkerInv, TypeOK, PlaceType
<1>4. BarrierInv'
  BY DEF WorkerInv, TypeOK, FlagType, BarrierType, PlaceType, WorkType, BarrierInv, Initialising, One,
         state, barrier
<1>5. CountInv'
  BY QueueFacts DEF WorkerInv, TypeOK, WorkType, CountInv, One, state
<1>6. ErrorInv'
  BY DEF WorkerInv, TypeOK, WorkType, FlagType, ErrorInv, One, state
<1> QED BY <1>1, <1>2, <1>3, <1>4, <1>5, <1>6 DEF WorkerInv, TypeOK

\* Joining changes nothing.
LEMMA JoinInv ==
  ASSUME WorkerInv, Join
  PROVE  WorkerInv'
<1> USE DEF Join
<1>1. WorkType' /\ FlagType' /\ BarrierType' /\ SleepType'
  BY DEF WorkerInv, TypeOK, WorkType, FlagType, BarrierType, SleepType, state, barrier
<1>2. PlaceType'
  BY DEF WorkerInv, TypeOK, PlaceType
<1>3. BarrierInv'
  BY DEF WorkerInv, TypeOK, FlagType, BarrierType, PlaceType, WorkType, BarrierInv, Initialising, One,
         state, barrier
<1>4. CountInv'
  BY QueueFacts DEF WorkerInv, TypeOK, WorkType, CountInv, One, state
<1>5. ErrorInv'
  BY DEF WorkerInv, TypeOK, WorkType, FlagType, ErrorInv, One, state
<1> QED BY <1>1, <1>2, <1>3, <1>4, <1>5 DEF WorkerInv, TypeOK

\* Work issued is in the queue, and no longer complete.
LEMMA DoWorkInv ==
  ASSUME WorkerInv, DoWork
  PROVE  WorkerInv'
<1> USE DEF DoWork
<1>1. BarrierType' /\ PlaceType'
  BY DEF WorkerInv, TypeOK, BarrierType, PlaceType, state, barrier
<1>2. WorkType'
  BY QueueFacts, SMT DEF WorkerInv, TypeOK, WorkType, FlagType, CountInv, ErrorInv, One
<1>3. FlagType'
  BY DEF WorkerInv, TypeOK, FlagType
<1>4. SleepType'
  BY DEF WorkerInv, TypeOK, SleepType
<1>5. BarrierInv'
  BY DEF WorkerInv, TypeOK, FlagType, BarrierType, PlaceType, WorkType, BarrierInv, Initialising, One,
         state, barrier
<1>6. CountInv'
  BY QueueFacts, SMT DEF WorkerInv, TypeOK, WorkType, CountInv, One, state
<1>7. ErrorInv'
  BY DEF WorkerInv, TypeOK, WorkType, FlagType, ErrorInv, One, state
<1> QED BY <1>1, <1>2, <1>3, <1>4, <1>5, <1>6, <1>7 DEF WorkerInv, TypeOK

\* Taking an error leaves the work as it is.
LEMMA CheckForErrorsInv ==
  ASSUME WorkerInv, CheckForErrors
  PROVE  WorkerInv'
<1> USE DEF CheckForErrors
<1>1. FlagType' /\ BarrierType' /\ PlaceType' /\ SleepType'
  BY SMT DEF WorkerInv, TypeOK, FlagType, BarrierType, PlaceType, SleepType, state, barrier
<1>2. WorkType'
  BY SMT DEF WorkerInv, TypeOK, WorkType, FlagType, CountInv, ErrorInv, One
<1>3. BarrierInv'
  BY DEF WorkerInv, TypeOK, FlagType, BarrierType, PlaceType, WorkType, BarrierInv, Initialising, One,
         state, barrier
<1>4. CountInv'
  BY QueueFacts DEF WorkerInv, TypeOK, WorkType, CountInv, One, state
<1>5. ErrorInv'
  BY SMT DEF WorkerInv, TypeOK, WorkType, FlagType, ErrorInv, One, state
<1> QED BY <1>1, <1>2, <1>3, <1>4, <1>5 DEF WorkerInv, TypeOK

\* The client ends only after WaitForInit.
LEMMA StopInv ==
  ASSUME WorkerInv, Stop
  PROVE  WorkerInv'
<1> USE DEF Stop
<1>1. WorkType' /\ FlagType' /\ SleepType'
  BY DEF WorkerInv, TypeOK, WorkType, FlagType, SleepType, state, barrier
<1>2. BarrierType'
  BY SMT DEF WorkerInv, TypeOK, BarrierType, barrier
<1>3. PlaceType'
  BY DEF WorkerInv, TypeOK, PlaceType
<1>4. BarrierInv'
  BY DEF WorkerInv, TypeOK, FlagType, BarrierType, PlaceType, WorkType, BarrierInv, Initialising, One,
         state, barrier
<1>5. CountInv'
  BY QueueFacts DEF WorkerInv, TypeOK, WorkType, CountInv, One, state
<1>6. ErrorInv'
  BY DEF WorkerInv, TypeOK, WorkType, FlagType, ErrorInv, One, state
<1> QED BY <1>1, <1>2, <1>3, <1>4, <1>5, <1>6 DEF WorkerInv, TypeOK

\* A step that changes nothing keeps the invariant.
LEMMA StutterInv ==
  ASSUME WorkerInv, UNCHANGED vars
  PROVE  WorkerInv'
<1>1. TypeOK'
  BY SMT DEF WorkerInv, TypeOK, WorkType, FlagType, BarrierType, PlaceType, SleepType, vars, state,
         barrier
<1> QED BY <1>1 DEF WorkerInv, BarrierInv, CountInv, ErrorInv, vars, state, barrier

\* The invariant of the thread and its client holds throughout.
THEOREM WorkerInvariant == Spec => []WorkerInv
<1>1. WorkerInv /\ [Next]_vars => WorkerInv'
  <2> SUFFICES ASSUME WorkerInv, [Next]_vars PROVE WorkerInv'
    OBVIOUS
  <2>1. ASSUME ThreadMain PROVE WorkerInv'
    BY <2>1, SetupInv, ThreadBarrierInv, LoopInv, TakeWorkInv, SleepInv, RunWorkInv, ThrowStopInv, FinishInv DEF ThreadMain
  <2>2. ASSUME ClientStep PROVE WorkerInv'
    BY <2>2, CallInitInv, ClientBarrierInv, WaitForInitInv, InitFailsInv, ForceStopInv, ShutdownInv, WaitForWorkInv, MarkStoppedInv, ShutdownForceInv, JoinInv DEF ClientStep
  <2> QED BY <2>1, <2>2, DoWorkInv, CheckForErrorsInv, StopInv, StutterInv DEF Next
<1> QED BY <1>1, InitWorker, PTL DEF Spec

\* The variables keep their types; the barrier's count_ and current_ stay
\* within size_t, and the thread stores at most two errors.
THEOREM TypeCorrect == Spec => []TypeOK
<1>1. WorkerInv => TypeOK
  BY DEF WorkerInv
<1> QED BY <1>1, WorkerInvariant, PTL

\* An executor gives work only to a thread whose set-up succeeded, although
\* running_ is read without the mutex: WaitForInit reports every failure.
THEOREM SetupIsReported == Spec => []InitReported
<1>1. WorkerInv => InitReported
  BY DEF WorkerInv, BarrierInv, InitReported
<1> QED BY <1>1, WorkerInvariant, PTL

\* work_complete_ is set only when all work issued has ended, for every amount
\* of work.
THEOREM CompleteIsDone == Spec => []CompleteMeansDone
<1>1. WorkerInv => CompleteMeansDone
  BY QueueFacts, SMT DEF WorkerInv, TypeOK, WorkType, CountInv, One, CompleteMeansDone
<1> QED BY <1>1, WorkerInvariant, PTL

=============================================================================

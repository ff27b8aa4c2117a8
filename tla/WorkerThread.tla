---------------------------- MODULE WorkerThread ----------------------------
(***************************************************************************)
(* WorkerThread and Barrier (worker_thread.h): the thread that runs a      *)
(* stage of an asynchronous executor, and the client that creates it,      *)
(* gives it work and shuts it down.  ForceStop and Barrier::Break take no  *)
(* mutex, so a wait is two steps: the test of the predicate (after which   *)
(* the thread holds the mutex, "presleep") and the blocking.               *)
(***************************************************************************)
EXTENDS Integers, Sequences, FiniteSets

CONSTANTS
  SizeMax,       \* largest size_t
  MaxWork,       \* bound: pieces of work issued
  MayThrow,      \* whether a piece of work may throw
  SetupMayFail,  \* whether setting the affinity may throw
  MayForce       \* whether the client may call ForceStop before Shutdown

ASSUME WorkerAssumption == SizeMax \in Nat /\ SizeMax >= 2 /\ MaxWork \in Nat

VARIABLES
  running, work_complete, work_queue, errors,
  count, current,      \* of the Barrier
  pc, main,            \* positions of the thread and of the client
  asleep,              \* who sleeps: in the barrier ("bar_thread", "bar_main"), on cv_, on completed_
  force,               \* next step of the client's ForceStop, 0 if in none
  ok,                  \* the set-up, and all work so far, has succeeded
  issued, done

barrier == <<count, current>>
state == <<running, work_complete, work_queue, errors>>
vars == <<state, barrier, pc, main, asleep, force, ok, issued, done>>

Init ==
  /\ running = TRUE /\ work_complete = TRUE /\ work_queue = <<>> /\ errors = 0
  /\ count = 2 /\ current = 2
  /\ pc = "setup" /\ main = "created" /\ asleep = {} /\ force = 0
  /\ ok = [setup |-> TRUE, work |-> TRUE] /\ issued = 0 /\ done = 0

-----------------------------------------------------------------------------
(* Barrier::Wait, for the thread ("bar_thread") and for the client in      *)
(* WaitForInit ("bar_main").                                               *)

Position(who) == IF who = "bar_thread" THEN pc ELSE main
After(who) == IF who = "bar_thread" THEN "loop" ELSE "initialised"
Goto(who, p) ==
  \/ who = "bar_thread" /\ pc' = p /\ UNCHANGED main
  \/ who = "bar_main" /\ main' = p /\ UNCHANGED pc

\* current_-- wraps around after a Break; count_ = 0 then lets everyone through
BarrierArrive(who) ==
  /\ Position(who) = "arrive"
  /\ current' = (current + SizeMax) % (SizeMax + 1)
  /\ IF current' = 0 \/ count = 0
     THEN Goto(who, After(who)) /\ asleep' = asleep \ {"bar_thread", "bar_main"}
     ELSE Goto(who, "bar_test") /\ UNCHANGED asleep
  /\ UNCHANGED count

BarrierTest(who) ==
  /\ Position(who) = "bar_test" /\ who \notin asleep
  /\ Goto(who, IF current = 0 THEN After(who) ELSE "bar_presleep")
  /\ UNCHANGED <<asleep, barrier>>

BarrierSleep(who) ==
  /\ Position(who) = "bar_presleep"
  /\ asleep' = asleep \cup {who} /\ Goto(who, "bar_test")
  /\ UNCHANGED barrier

\* one step of Barrier::Wait; the mutex is held by a caller in "bar_presleep"
BarrierWait(who, other) ==
  \/ Position(other) # "bar_presleep" /\ (BarrierArrive(who) \/ BarrierTest(who))
  \/ BarrierSleep(who)

-----------------------------------------------------------------------------
(* ThreadMain *)

\* mutant: the error is stored but the thread still counts as running
SetupRunning ==
  /\ pc = "setup"
  /\ \/ UNCHANGED <<running, errors, ok>>
     \/ SetupMayFail /\ errors' = errors + 1 /\ ok' = [ok EXCEPT !.setup = FALSE] /\ UNCHANGED running
  /\ pc' = "arrive"
  /\ UNCHANGED <<work_complete, work_queue, barrier, main, asleep, force, issued, done>>

Setup ==
  /\ pc = "setup"
  /\ \/ UNCHANGED <<running, errors, ok>>
     \/ SetupMayFail /\ errors' = errors + 1 /\ ok' = [ok EXCEPT !.setup = FALSE] /\ running' = FALSE
  /\ pc' = "arrive"
  /\ UNCHANGED <<work_complete, work_queue, barrier, main, asleep, force, issued, done>>

ThreadBarrier ==
  /\ BarrierWait("bar_thread", "bar_main")
  /\ UNCHANGED <<state, force, ok, issued, done>>

Loop ==
  /\ pc = "loop"
  /\ pc' = IF running THEN "test" ELSE "exit"
  /\ UNCHANGED <<state, barrier, main, asleep, force, ok, issued, done>>

\* with the mutex: wait for work while running, leave when stopped, or take work
TakeWork ==
  /\ pc = "test" /\ "cv" \notin asleep
  /\ \/ running /\ work_queue = <<>> /\ pc' = "presleep" /\ UNCHANGED work_queue
     \/ ~running /\ pc' = "exit" /\ UNCHANGED work_queue
     \/ running /\ work_queue # <<>> /\ pc' = "work" /\ work_queue' = Tail(work_queue)
  /\ UNCHANGED <<running, work_complete, errors, barrier, main, asleep, force, ok, issued,
                 done>>

Sleep ==
  /\ pc = "presleep"
  /\ asleep' = asleep \cup {"cv"} /\ pc' = "test"
  /\ UNCHANGED <<state, barrier, main, force, ok, issued, done>>

RunWork ==
  /\ pc = "work"
  /\ done' = done + 1
  /\ \/ pc' = "finish" /\ UNCHANGED <<errors, ok>>
     \/ MayThrow /\ pc' = "thrown" /\ errors' = errors + 1 /\ ok' = [ok EXCEPT !.work = FALSE]
  /\ UNCHANGED <<running, work_complete, work_queue, barrier, main, asleep, force, issued>>

\* after an exception the thread stops; work_complete_ stays as it is
ThrowStop ==
  /\ pc = "thrown"
  /\ running' = FALSE /\ pc' = "exit"
  /\ UNCHANGED <<work_complete, work_queue, errors, barrier, main, asleep, force, ok, issued,
                 done>>

\* mutant: complete even if there is more work
FinishAlways ==
  /\ pc = "finish"
  /\ work_complete' = TRUE /\ asleep' = asleep \ {"completed"}
  /\ pc' = "loop"
  /\ UNCHANGED <<running, work_queue, errors, barrier, main, force, ok, issued, done>>

Finish ==
  /\ pc = "finish"
  /\ IF work_queue = <<>> THEN work_complete' = TRUE /\ asleep' = asleep \ {"completed"}
                          ELSE UNCHANGED <<work_complete, asleep>>
  /\ pc' = "loop"
  /\ UNCHANGED <<running, work_queue, errors, barrier, main, force, ok, issued, done>>

-----------------------------------------------------------------------------
(* The client: an asynchronous executor *)

\* Init of the executor calls WaitForInit, or gives up because another worker failed
CallInit ==
  /\ main = "created"
  /\ \/ main' = "arrive"
     \/ MayForce /\ main' = "init_failed"
  /\ UNCHANGED <<state, barrier, pc, asleep, force, ok, issued, done>>

ClientBarrier ==
  /\ BarrierWait("bar_main", "bar_thread")
  /\ UNCHANGED <<state, force, ok, issued, done>>

\* WaitForInit returns running_; on FALSE Init calls ForceStop and throws
WaitForInit ==
  /\ main = "initialised"
  /\ main' = IF running THEN "api" ELSE "init_failed"
  /\ UNCHANGED <<state, barrier, pc, asleep, force, ok, issued, done>>

DoWork ==
  /\ main = "api" /\ issued < MaxWork /\ pc # "presleep"
  /\ issued' = issued + 1
  /\ work_queue' = Append(work_queue, issued + 1)
  /\ work_complete' = FALSE /\ asleep' = asleep \ {"cv"}
  /\ UNCHANGED <<running, errors, barrier, pc, main, force, ok, done>>

\* the error is removed; the message built from it is not used
CheckForErrors ==
  /\ main = "api" /\ errors > 0 /\ pc # "presleep"
  /\ errors' = errors - 1
  /\ UNCHANGED <<running, work_complete, work_queue, barrier, pc, main, asleep, force, ok,
                 issued, done>>

\* Init of the executor stops its workers before it throws
InitFails ==
  /\ main = "init_failed"
  /\ force' = 1 /\ main' = "failed"
  /\ UNCHANGED <<state, barrier, pc, asleep, ok, issued, done>>

\* the client ends: ForceStop (as the executors' destructors do), then Shutdown
Stop ==
  /\ main \in {"api", "failed"} /\ force = 0
  /\ \/ MayForce /\ force' = 1 /\ main' = "forced"
     \/ main = "api" /\ main' = "shutdown" /\ UNCHANGED force
  /\ UNCHANGED <<state, barrier, pc, asleep, ok, issued, done>>

\* running_ = false; Break (count_, current_, notify_all); cv_.notify_all(): no mutex
ForceStop ==
  /\ force > 0
  /\ running' = (IF force = 1 THEN FALSE ELSE running)
  /\ count' = (IF force = 2 THEN 0 ELSE count)
  /\ current' = (IF force = 3 THEN count ELSE current)
  /\ asleep' = CASE force = 4 -> asleep \ {"bar_thread", "bar_main"}
                 [] force = 5 -> asleep \ {"cv"}
                 [] OTHER -> asleep
  /\ force' = (force + 1) % 6
  /\ UNCHANGED <<work_complete, work_queue, errors, pc, main, ok, issued, done>>

\* Shutdown: if running_ WaitForWork, else ForceStop; then ForceStop and join
Shutdown ==
  /\ main \in {"forced", "shutdown"} /\ force = 0
  /\ IF running THEN main' = "wait" /\ UNCHANGED force
                ELSE main' = "stopped" /\ force' = 1
  /\ UNCHANGED <<state, barrier, pc, asleep, ok, issued, done>>

\* on an error WaitForWork stops the thread and throws, and Shutdown is left;
\* but a thread with an error never sets work_complete_
WaitForWork ==
  /\ main = "wait" /\ "completed" \notin asleep /\ pc # "presleep"
  /\ IF ~work_complete
     THEN asleep' = asleep \cup {"completed"} /\ UNCHANGED <<main, errors, running>>
     ELSE IF errors = 0 THEN main' = "mark" /\ UNCHANGED <<asleep, errors, running>>
     ELSE main' = "threw" /\ errors' = errors - 1 /\ running' = FALSE /\ asleep' = asleep \ {"cv"}
  /\ UNCHANGED <<work_complete, work_queue, barrier, pc, force, ok, issued, done>>

\* mutant: the thread is joined without having been notified
MarkStoppedSilent ==
  /\ main = "mark" /\ pc # "presleep"
  /\ running' = FALSE /\ main' = "join"
  /\ UNCHANGED <<work_complete, work_queue, errors, barrier, pc, asleep, force, ok, issued, done>>

MarkStopped ==
  /\ main = "mark" /\ pc # "presleep"
  /\ running' = FALSE /\ asleep' = asleep \ {"cv"} /\ main' = "stopped"
  /\ UNCHANGED <<work_complete, work_queue, errors, barrier, pc, force, ok, issued, done>>

\* the second ForceStop, before the join
ShutdownForce ==
  /\ main = "stopped" /\ force = 0
  /\ force' = 1 /\ main' = "join"
  /\ UNCHANGED <<state, barrier, pc, asleep, ok, issued, done>>

Join ==
  /\ main = "join" /\ force = 0 /\ pc = "exit"
  /\ main' = "joined"
  /\ UNCHANGED <<state, barrier, pc, asleep, force, ok, issued, done>>

-----------------------------------------------------------------------------
ThreadMain ==
  Setup \/ ThreadBarrier \/ Loop \/ TakeWork \/ Sleep \/ RunWork \/ ThrowStop \/ Finish

ClientStep ==
  \/ CallInit \/ ClientBarrier \/ WaitForInit \/ InitFails \/ ForceStop \/ Shutdown \/ WaitForWork
  \/ MarkStopped \/ ShutdownForce \/ Join

Next == ThreadMain \/ ClientStep \/ DoWork \/ CheckForErrors \/ Stop

\* The thread and the client's calls make progress; when to stop is the client's choice.
Spec == Init /\ [][Next]_vars /\ WF_vars(ThreadMain) /\ WF_vars(ClientStep)

-----------------------------------------------------------------------------
WorkType ==
  /\ work_queue \in Seq(1 .. MaxWork) /\ issued \in 0 .. MaxWork /\ done \in 0 .. MaxWork
  /\ errors \in 0 .. 2

FlagType ==
  /\ running \in BOOLEAN /\ work_complete \in BOOLEAN
  /\ ok \in [setup : BOOLEAN, work : BOOLEAN]

BarrierType == count \in {0, 2} /\ current \in 0 .. SizeMax /\ force \in 0 .. 5

PlaceType ==
  /\ pc \in {"setup", "arrive", "bar_test", "bar_presleep", "loop", "test", "presleep", "work",
             "thrown", "finish", "exit"}
  /\ main \in {"created", "arrive", "bar_test", "bar_presleep", "initialised", "init_failed",
               "failed", "api", "forced", "shutdown", "wait", "mark", "threw", "stopped", "join",
               "joined"}

SleepType == asleep \subseteq {"bar_thread", "bar_main", "cv", "completed"}

\* The types of the variables.
TypeOK == WorkType /\ FlagType /\ BarrierType /\ PlaceType /\ SleepType

\* The executor only gives work to a thread whose set-up succeeded: WaitForInit
\* returns running_, which the thread clears before it arrives at the barrier.
InitReported == main = "api" \/ issued > 0 => ok.setup

\* When work_complete_ is set, all work issued has ended: Shutdown does not cut
\* off work it has waited for.
CompleteMeansDone == work_complete => done = issued

\* Shutdown of a thread that was not stopped before returns, unless a piece of
\* work has thrown: it waits for all work, wakes the thread and joins it.
GracefulShutdownReturns == (main = "shutdown") ~> (main = "joined" \/ ~ok.work)

=============================================================================

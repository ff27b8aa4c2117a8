------------------------------ MODULE ThreadPool ------------------------------
(***************************************************************************)
(* ThreadPool (thread_pool.cc): worker threads that take work from one     *)
(* queue, and one client that adds work and waits until all of it is done. *)
(* A piece of work is its number.                                          *)
(***************************************************************************)
EXTENDS Integers, Sequences, FiniteSets

CONSTANTS
  NumThreads,      \* threads of the pool
  MaxWork,         \* bound: pieces of work issued
  MayFail,         \* pieces of work that throw
  AffinityMayFail  \* whether SetCPUAffinity may throw

ASSUME PoolAssumption == NumThreads \in Nat \ {0} /\ MaxWork \in Nat

Threads == 1 .. NumThreads

VARIABLES
  running, work_complete, work_queue, active_threads,
  tl_errors,      \* thread -> pieces of work whose error it has stored, 0 for affinity
  resized,        \* the constructor has resized tl_errors_
  undefined,      \* tl_errors_ was indexed before that
  pc, work,       \* thread -> position, piece of work it runs (0: none)
  wake_next,      \* thread -> should_wake_next
  asleep,         \* threads in condition_.wait
  main,           \* position of the client
  issued, done    \* number of pieces issued; the pieces that have ended

shared == <<running, work_complete, work_queue, active_threads>>
client == <<main, issued>>
vars == <<shared, tl_errors, resized, undefined, pc, work, wake_next, asleep, client, done>>

Init ==
  /\ running = TRUE /\ work_complete = TRUE /\ work_queue = <<>> /\ active_threads = 0
  /\ tl_errors = [t \in Threads |-> <<>>] /\ resized = FALSE /\ undefined = FALSE
  /\ pc = [t \in Threads |-> "start"] /\ work = [t \in Threads |-> 0]
  /\ wake_next = [t \in Threads |-> FALSE]
  /\ asleep = {} /\ main = "ctor" /\ issued = 0 /\ done = {}

Goto(t, p) == pc' = [pc EXCEPT ![t] = p]

\* notify_one wakes one of the sleeping threads, if there is one
NotifyOne ==
  IF asleep = {} THEN UNCHANGED asleep ELSE \E t \in asleep : asleep' = asleep \ {t}

-----------------------------------------------------------------------------
(* ThreadMain *)

\* setting the affinity; an error goes to tl_errors_, without the mutex
ThreadStart(t) ==
  /\ pc[t] = "start"
  /\ \/ UNCHANGED <<tl_errors, undefined>>
     \/ /\ AffinityMayFail /\ resized
        /\ tl_errors' = [tl_errors EXCEPT ![t] = Append(@, 0)]
        /\ UNCHANGED undefined
     \/ /\ AffinityMayFail /\ ~resized
        /\ undefined' = TRUE /\ UNCHANGED tl_errors
  /\ Goto(t, "loop")
  /\ UNCHANGED <<shared, resized, work, wake_next, asleep, client, done>>

\* the thread waits until there is work or the pool stops, and takes the work
TakeWork(t) ==
  /\ pc[t] = "loop" /\ t \notin asleep
  /\ \/ ~running /\ Goto(t, "exit")
        /\ UNCHANGED <<work_queue, active_threads, work, wake_next, asleep>>
     \/ /\ running /\ work_queue = <<>>
        /\ asleep' = asleep \cup {t}
        /\ UNCHANGED <<work_queue, active_threads, pc, work, wake_next>>
     \/ /\ running /\ work_queue # <<>>
        /\ work' = [work EXCEPT ![t] = Head(work_queue)]
        /\ work_queue' = Tail(work_queue)
        /\ wake_next' = [wake_next EXCEPT ![t] = Tail(work_queue) # <<>>]
        /\ active_threads' = active_threads + 1
        /\ Goto(t, "wake") /\ UNCHANGED asleep
  /\ UNCHANGED <<running, work_complete, tl_errors, resized, undefined, client, done>>

WakeNext(t) ==
  /\ pc[t] = "wake"
  /\ IF wake_next[t] THEN NotifyOne ELSE UNCHANGED asleep
  /\ Goto(t, "work")
  /\ UNCHANGED <<shared, tl_errors, resized, undefined, work, wake_next, client, done>>

\* work(thread_id) ends, or throws and its error is stored
RunWork(t) ==
  /\ pc[t] = "work"
  /\ done' = done \cup {work[t]}
  /\ IF work[t] \in MayFail
     THEN tl_errors' = [tl_errors EXCEPT ![t] = Append(@, work[t])]
     ELSE UNCHANGED tl_errors
  /\ Goto(t, "finish")
  /\ UNCHANGED <<shared, resized, undefined, work, wake_next, asleep, client>>

\* mutant: the work is complete when the queue is empty
FinishNotCounting(t) ==
  /\ pc[t] = "finish"
  /\ active_threads' = active_threads - 1
  /\ IF work_queue = <<>>
     THEN /\ work_complete' = TRUE
          /\ main' = CASE main = "wait_asleep" -> "wait" [] main = "dtor_asleep" -> "dtor"
                       [] OTHER -> main
     ELSE UNCHANGED <<work_complete, main>>
  /\ work' = [work EXCEPT ![t] = 0]
  /\ Goto(t, "loop")
  /\ UNCHANGED <<running, work_queue, tl_errors, resized, undefined, wake_next, asleep, issued,
                 done>>

\* the thread is idle again; the last one marks the work as complete and
\* notifies completed_
Finish(t) ==
  /\ pc[t] = "finish"
  /\ active_threads' = active_threads - 1
  /\ IF work_queue = <<>> /\ active_threads' = 0
     THEN /\ work_complete' = TRUE
          /\ main' = CASE main = "wait_asleep" -> "wait" [] main = "dtor_asleep" -> "dtor"
                       [] OTHER -> main
     ELSE UNCHANGED <<work_complete, main>>
  /\ work' = [work EXCEPT ![t] = 0]
  /\ Goto(t, "loop")
  /\ UNCHANGED <<running, work_queue, tl_errors, resized, undefined, wake_next, asleep, issued,
                 done>>

-----------------------------------------------------------------------------
(* The client *)

\* the constructor resizes tl_errors_ after it has started the threads
Resize ==
  /\ main = "ctor"
  /\ resized' = TRUE /\ main' = "api"
  /\ UNCHANGED <<shared, tl_errors, undefined, pc, work, wake_next, asleep, issued, done>>

DoWorkWithID ==
  /\ main = "api" /\ issued < MaxWork
  /\ issued' = issued + 1
  /\ work_queue' = Append(work_queue, issued + 1)
  /\ work_complete' = FALSE
  /\ main' = "notify"
  /\ UNCHANGED <<running, active_threads, tl_errors, resized, undefined, pc, work, wake_next,
                 asleep, done>>

\* condition_.notify_one(), after the mutex is released
DoWorkNotify ==
  /\ main = "notify"
  /\ NotifyOne
  /\ main' = "api"
  /\ UNCHANGED <<shared, tl_errors, resized, undefined, pc, work, wake_next, issued, done>>

\* WaitForWork(true), and WaitForWork(false) of the destructor, wait on completed_
WaitForWork ==
  /\ \/ main = "api" /\ main' = "wait"
     \/ main = "wait" /\ main' = IF work_complete THEN "check" ELSE "wait_asleep"
     \/ main = "dtor" /\ main' = IF work_complete THEN "stop" ELSE "dtor_asleep"
  /\ UNCHANGED <<shared, tl_errors, resized, undefined, pc, work, wake_next, asleep, issued, done>>

\* the loop over threads_ throws the oldest error of the first thread that has one
CheckErrors ==
  /\ main = "check"
  /\ IF \E t \in Threads : tl_errors[t] # <<>>
     THEN LET t == CHOOSE t \in Threads : /\ tl_errors[t] # <<>>
                                          /\ \A u \in 1 .. t - 1 : tl_errors[u] = <<>>
          IN tl_errors' = [tl_errors EXCEPT ![t] = Tail(@)]
     ELSE UNCHANGED tl_errors
  /\ main' = "api"
  /\ UNCHANGED <<shared, resized, undefined, pc, work, wake_next, asleep, issued, done>>

Destroy ==
  /\ main = "api"
  /\ main' = "dtor"
  /\ UNCHANGED <<shared, tl_errors, resized, undefined, pc, work, wake_next, asleep, issued, done>>

\* mutant: one thread is notified of the stop
StopNotifyOne ==
  /\ main = "stop"
  /\ running' = FALSE /\ NotifyOne
  /\ main' = "join"
  /\ UNCHANGED <<work_complete, work_queue, active_threads, tl_errors, resized, undefined, pc, work,
                 wake_next, issued, done>>

Stop ==
  /\ main = "stop"
  /\ running' = FALSE /\ asleep' = {}
  /\ main' = "join"
  /\ UNCHANGED <<work_complete, work_queue, active_threads, tl_errors, resized, undefined, pc, work,
                 wake_next, issued, done>>

Join ==
  /\ main = "join" /\ \A t \in Threads : pc[t] = "exit"
  /\ main' = "destroyed"
  /\ UNCHANGED <<shared, tl_errors, resized, undefined, pc, work, wake_next, asleep, issued, done>>

-----------------------------------------------------------------------------
ThreadMain(t) == ThreadStart(t) \/ TakeWork(t) \/ WakeNext(t) \/ RunWork(t) \/ Finish(t)

ClientStep == Resize \/ DoWorkNotify \/ (main # "api" /\ WaitForWork) \/ CheckErrors \/ Stop \/ Join

ClientCall == DoWorkWithID \/ (main = "api" /\ WaitForWork) \/ Destroy

Next == (\E t \in Threads : ThreadMain(t)) \/ ClientStep \/ ClientCall

\* Every thread that can go on goes on; the client decides which calls it makes.
Spec == Init /\ [][Next]_vars /\ (\A t \in Threads : WF_vars(ThreadMain(t))) /\ WF_vars(ClientStep)

-----------------------------------------------------------------------------
Positions == {"start", "loop", "wake", "work", "finish", "exit"}
ClientPositions == {"ctor", "api", "notify", "wait", "wait_asleep", "check", "dtor", "dtor_asleep",
                    "stop", "join", "destroyed"}

\* "Blocks until all work issued to the thread pool is complete": when
\* WaitForWork has returned from its wait, in a call or in the destructor, every
\* piece of work issued has ended and no thread still runs one.
WaitsForAllWork ==
  main \in {"check", "stop", "join"} =>
    /\ done = 1 .. issued
    /\ \A t \in Threads : pc[t] \notin {"wake", "work", "finish"}

\* A call of WaitForWork returns, and so does the destructor: every thread is
\* woken and leaves its loop.
CallsReturn ==
  /\ (main = "wait") ~> (main = "api")
  /\ (main = "dtor") ~> (main = "destroyed")

=============================================================================

--------------------------- MODULE UniformExecutor ---------------------------
(***************************************************************************)
(* The executor with uniform queues and one worker thread per stage:       *)
(* UniformQueuePolicy (queue_policy.h), the Run functions of Executor      *)
(* (executor.h) and AsyncPipelinedExecutor.                                *)
(*                                                                         *)
(* One index stands for the buffers of all stages.  Work is handed from    *)
(* thread to thread by counters with condition variables, and the index    *)
(* follows in queues that are popped without a test for emptiness.  A      *)
(* thread waits in two steps, "presleep" being the time between its test   *)
(* of the predicate and its blocking, when it holds the mutex but is not   *)
(* yet there to be notified.                                               *)
(***************************************************************************)
EXTENDS Integers, Sequences, FiniteSets

Stages == {"SUPPORT", "CPU", "MIXED", "GPU"}

\* Scenarios are the situations considered: runs bounds the batches scheduled,
\* fail has the stages with an operator that may throw, destroy says whether the
\* main thread may destroy the executor.
CONSTANTS
  Depth,      \* prefetch_queue_depth, the same for both parts
  Scenarios

ASSUME DepthAssumption ==
  /\ Depth \in Nat \ {0}
  /\ \A s \in Scenarios : s.runs \in Nat /\ s.fail \subseteq Stages /\ s.destroy \in BOOLEAN

Workers == {"cpu", "mixed", "gpu"}
Threads == Workers \cup {"main"}
FirstStage == [cpu |-> "SUPPORT", mixed |-> "MIXED", gpu |-> "GPU"]
NextStage == [SUPPORT |-> "CPU", CPU |-> "MIXED", MIXED |-> "GPU"]
NextWorker == [cpu |-> "mixed", mixed |-> "gpu"]
kInvalidIdx == -1

VARIABLES
  scenario,
  free_queue, ready_queue, in_use_queue,
  stage_work_queue,          \* stage -> indices passed on by the previous stage
  stage_work_stop, ready_stop,
  work_counter,              \* worker -> cpu_, mixed_, gpu_work_counter_
  exec_error, errors,        \* exec_error_; errors_ is not empty
  tasks, running,            \* worker -> length of work_queue_, running_
  pc, at, idx,               \* worker -> position, stage it runs, index it holds
  asleep,                    \* condition variables with a sleeping thread
  signal,                    \* thread -> next step of its SignalStop, 0 if in none
  main, cpu_runs, gpu_runs, shared, released,
  batch                      \* index -> number of the batch it was acquired for

queues == <<free_queue, ready_queue, in_use_queue, stage_work_queue>>
stops == <<stage_work_stop, ready_stop>>
workers == <<work_counter, tasks, running, pc, at, idx>>
user == <<main, cpu_runs, gpu_runs, shared, released>>
vars == <<queues, stops, workers, exec_error, errors, asleep, signal, user, batch>>

\* InitializeQueues
Init ==
  /\ scenario \in Scenarios
  /\ free_queue = [i \in 1 .. Depth |-> i - 1]
  /\ ready_queue = <<>> /\ in_use_queue = <<>>
  /\ stage_work_queue = [s \in Stages |-> <<>>]
  /\ stage_work_stop = [s \in Stages |-> FALSE] /\ ready_stop = FALSE
  /\ work_counter = [w \in Workers |-> 0]
  /\ exec_error = FALSE /\ errors = FALSE
  /\ tasks = [w \in Workers |-> 0] /\ running = [w \in Workers |-> TRUE]
  /\ pc = [w \in Workers |-> "idle"] /\ at = FirstStage
  /\ idx = [w \in Workers |-> kInvalidIdx]
  /\ asleep = {}
  /\ signal = [t \in Threads |-> 0]
  /\ main = "api" /\ cpu_runs = 0 /\ gpu_runs = 0 /\ shared = 0 /\ released = 0
  /\ batch = [i \in 0 .. Depth - 1 |-> 0]

Goto(w, p) == pc' = [pc EXCEPT ![w] = p]

\* exec_error_ || IsStopSignaled()
Stopped == exec_error \/ ready_stop

-----------------------------------------------------------------------------
(* The work given to the worker threads: RunCPU, RunMixed and RunGPU of    *)
(* AsyncPipelinedExecutor                                                  *)

\* WorkerThread runs the next piece of work
TakeWork(w) ==
  /\ pc[w] = "idle" /\ running[w] /\ tasks[w] > 0
  /\ tasks' = [tasks EXCEPT ![w] = @ - 1]
  /\ at' = [at EXCEPT ![w] = FirstStage[w]]
  /\ Goto(w, "begin")
  /\ UNCHANGED <<queues, stops, work_counter, running, idx, exec_error, errors, asleep, signal,
                 user, batch>>

\* mutant: the mixed and gpu threads do not wait for their counter
BeginNoWait(w) ==
  /\ pc[w] = "begin"
  /\ work_counter' = [work_counter EXCEPT ![w] = @ - 1] /\ Goto(w, "check")
  /\ UNCHANGED <<queues, stops, tasks, running, at, idx, exec_error, errors, asleep, signal, user,
                 batch>>

\* the thread takes a unit of its counter; mixed and gpu wait for it
Begin(w) ==
  /\ pc[w] = "begin" /\ w \notin asleep
  /\ IF w # "cpu" /\ work_counter[w] = 0 /\ ~Stopped
     THEN Goto(w, "presleep") /\ UNCHANGED work_counter
     ELSE work_counter' = [work_counter EXCEPT ![w] = @ - 1] /\ Goto(w, "check")
  /\ UNCHANGED <<queues, stops, tasks, running, at, idx, exec_error, errors, asleep, signal, user,
                 batch>>

\* mixed_work_cv_.wait(lock), gpu_work_cv_.wait(lock)
Sleep(w) ==
  /\ pc[w] = "presleep"
  /\ asleep' = asleep \cup {w} /\ Goto(w, "begin")
  /\ UNCHANGED <<queues, stops, work_counter, tasks, running, at, idx, exec_error, errors, signal,
                 user, batch>>

\* on stop the next thread is notified, without its mutex, and the work ends
CheckStop(w) ==
  /\ pc[w] = "check"
  /\ IF Stopped
     THEN Goto(w, "idle") /\ asleep' = IF w = "gpu" THEN asleep ELSE asleep \ {NextWorker[w]}
     ELSE Goto(w, "acquire") /\ UNCHANGED asleep
  /\ UNCHANGED <<queues, stops, work_counter, tasks, running, at, idx, exec_error, errors, signal,
                 user, batch>>

\* mark, under its mutex, that there is work for the next thread, and notify
Post(w) ==
  /\ pc[w] = "post" /\ pc[NextWorker[w]] # "presleep"
  /\ work_counter' = [work_counter EXCEPT ![NextWorker[w]] = @ + 1]
  /\ asleep' = asleep \ {NextWorker[w]} /\ Goto(w, "idle")
  /\ UNCHANGED <<queues, stops, tasks, running, at, idx, exec_error, errors, signal, user, batch>>

-----------------------------------------------------------------------------
(* UniformQueuePolicy::AcquireIdxs and ReleaseIdxs, and the Run functions  *)
(* of Executor around them                                                 *)

\* the SUPPORT stage waits on free_cond_ for a free index
AcquireFree ==
  /\ pc["cpu"] = "acquire" /\ at["cpu"] = "SUPPORT" /\ "free" \notin asleep
  /\ \/ /\ stage_work_stop["SUPPORT"]
        /\ idx' = [idx EXCEPT !["cpu"] = kInvalidIdx] /\ Goto("cpu", "acquired")
        /\ UNCHANGED <<free_queue, batch>>
     \/ /\ ~stage_work_stop["SUPPORT"] /\ free_queue # <<>>
        /\ idx' = [idx EXCEPT !["cpu"] = Head(free_queue)] /\ Goto("cpu", "acquired")
        /\ free_queue' = Tail(free_queue)
        /\ batch' = [batch EXCEPT ![Head(free_queue)] = cpu_runs - tasks["cpu"]]
     \/ /\ ~stage_work_stop["SUPPORT"] /\ free_queue = <<>>
        /\ Goto("cpu", "window") /\ UNCHANGED <<free_queue, idx, batch>>
  /\ UNCHANGED <<ready_queue, in_use_queue, stage_work_queue, stops, work_counter, tasks, running,
                 at, exec_error, errors, asleep, signal, user>>

SleepFree ==
  /\ pc["cpu"] = "window"
  /\ asleep' = asleep \cup {"free"} /\ Goto("cpu", "acquire")
  /\ UNCHANGED <<queues, stops, work_counter, tasks, running, at, idx, exec_error, errors, signal,
                 user, batch>>

\* the other stages take the front of their queue, which they do not wait for
AcquireIdxs(w) ==
  /\ pc[w] = "acquire" /\ at[w] # "SUPPORT"
  /\ \/ /\ stage_work_stop[at[w]]
        /\ idx' = [idx EXCEPT ![w] = kInvalidIdx] /\ UNCHANGED stage_work_queue
     \/ /\ ~stage_work_stop[at[w]] /\ stage_work_queue[at[w]] # <<>>
        /\ idx' = [idx EXCEPT ![w] = Head(stage_work_queue[at[w]])]
        /\ stage_work_queue' = [stage_work_queue EXCEPT ![at[w]] = Tail(@)]
  /\ Goto(w, "acquired")
  /\ UNCHANGED <<free_queue, ready_queue, in_use_queue, stops, work_counter, tasks, running, at,
                 exec_error, errors, asleep, signal, user, batch>>

\* exec_error_ || IsStopSignaled() || !AreValid(idxs)
CheckIdxs(w) ==
  /\ pc[w] = "acquired"
  /\ Goto(w, IF Stopped \/ idx[w] = kInvalidIdx THEN "abandon" ELSE "run")
  /\ UNCHANGED <<queues, stops, work_counter, tasks, running, at, idx, exec_error, errors, asleep,
                 signal, user, batch>>

RunOps(w) ==
  /\ pc[w] = "run"
  /\ Goto(w, "release")
  /\ UNCHANGED <<queues, stops, work_counter, tasks, running, at, idx, exec_error, errors, asleep,
                 signal, user, batch>>

\* an operator throws: HandleError sets exec_error_, signals stop ...
OperatorThrows(w) ==
  /\ pc[w] = "run" /\ at[w] \in scenario.fail
  /\ exec_error' = TRUE
  /\ signal' = [signal EXCEPT ![w] = 1]
  /\ Goto(w, "error")
  /\ UNCHANGED <<queues, stops, work_counter, tasks, running, at, idx, errors, asleep, user, batch>>

\* ... and stores the message
HandleError(w) ==
  /\ pc[w] = "error" /\ signal[w] = 0
  /\ errors' = TRUE
  /\ Goto(w, "release")
  /\ UNCHANGED <<queues, stops, work_counter, tasks, running, at, idx, exec_error, asleep, signal,
                 user, batch>>

\* mutant: the index goes to the front of the next stage's queue
ReleaseIdxsFront(w) ==
  /\ pc[w] \in {"release", "abandon"} /\ at[w] # "GPU"
  /\ stage_work_queue' = IF idx[w] = kInvalidIdx THEN stage_work_queue
       ELSE [stage_work_queue EXCEPT ![NextStage[at[w]]] = <<idx[w]>> \o @]
  /\ IF at[w] = "SUPPORT" /\ pc[w] = "release"
     THEN at' = [at EXCEPT ![w] = "CPU"] /\ Goto(w, "acquire")
     ELSE Goto(w, "post") /\ UNCHANGED at
  /\ idx' = [idx EXCEPT ![w] = kInvalidIdx]
  /\ UNCHANGED <<free_queue, ready_queue, in_use_queue, stops, work_counter, tasks, running,
                 exec_error, errors, asleep, signal, user, batch>>

\* ReleaseIdxs: the index goes to the next stage; RunCPU goes on with the CPU
\* stage, unless it has given up
ReleaseIdxs(w) ==
  /\ pc[w] \in {"release", "abandon"} /\ at[w] # "GPU"
  /\ stage_work_queue' = IF idx[w] = kInvalidIdx THEN stage_work_queue
       ELSE [stage_work_queue EXCEPT ![NextStage[at[w]]] = Append(@, idx[w])]
  /\ IF at[w] = "SUPPORT" /\ pc[w] = "release"
     THEN at' = [at EXCEPT ![w] = "CPU"] /\ Goto(w, "acquire")
     ELSE Goto(w, "post") /\ UNCHANGED at
  /\ idx' = [idx EXCEPT ![w] = kInvalidIdx]
  /\ UNCHANGED <<free_queue, ready_queue, in_use_queue, stops, work_counter, tasks, running,
                 exec_error, errors, asleep, signal, user, batch>>

\* RunGPU ends with QueueOutputIdxs; when it gives up, nothing is passed on
QueueOutputIdxs ==
  /\ pc["gpu"] \in {"release", "abandon"}
  /\ IF pc["gpu"] = "release"
     THEN ready_queue' = Append(ready_queue, idx["gpu"]) /\ asleep' = asleep \ {"ready"}
     ELSE UNCHANGED <<ready_queue, asleep>>
  /\ idx' = [idx EXCEPT !["gpu"] = kInvalidIdx]
  /\ Goto("gpu", "idle")
  /\ UNCHANGED <<free_queue, in_use_queue, stage_work_queue, stops, work_counter, tasks, running,
                 at, exec_error, errors, signal, user, batch>>

-----------------------------------------------------------------------------
(* SignalStop: each flag under the mutex of its queue, then NotifyAll      *)

StopOrder == <<"GPU", "CPU", "MIXED", "SUPPORT">>

SignalStop(t) ==
  /\ signal[t] # 0
  /\ ready_stop' = (ready_stop \/ signal[t] = 1)
  /\ stage_work_stop' = [s \in Stages |-> stage_work_stop[s] \/
                           (signal[t] \in 2 .. 5 /\ StopOrder[signal[t] - 1] = s)]
  /\ asleep' = IF signal[t] = 6 THEN asleep \ {"ready", "free"} ELSE asleep
  /\ signal' = [signal EXCEPT ![t] = (@ + 1) % 7]
  /\ UNCHANGED <<queues, workers, exec_error, errors, user, batch>>

-----------------------------------------------------------------------------
(* The main thread *)

\* RunCPU: the counter, then DoWork
ScheduleCPU ==
  /\ main = "api"
  /\ cpu_runs' = cpu_runs + 1
  /\ work_counter' = [work_counter EXCEPT !["cpu"] = @ + 1]
  /\ tasks' = [tasks EXCEPT !["cpu"] = @ + 1]
  /\ UNCHANGED <<queues, stops, running, pc, at, idx, exec_error, errors, asleep, signal, main,
                 gpu_runs, shared, released, batch>>

\* RunMixed and RunGPU
ScheduleGPU ==
  /\ main = "api"
  /\ gpu_runs' = gpu_runs + 1
  /\ tasks' = [tasks EXCEPT !["mixed"] = @ + 1, !["gpu"] = @ + 1]
  /\ UNCHANGED <<queues, stops, work_counter, running, pc, at, idx, exec_error, errors, asleep,
                 signal, main, cpu_runs, shared, released, batch>>

\* ReleaseOutputIdxs, under free_mutex_
ReleaseOutputs ==
  /\ main = "api" /\ in_use_queue # <<>> /\ pc["cpu"] # "window"
  /\ free_queue' = Append(free_queue, Head(in_use_queue))
  /\ in_use_queue' = Tail(in_use_queue)
  /\ asleep' = asleep \ {"free"}
  /\ released' = released + 1
  /\ UNCHANGED <<ready_queue, stage_work_queue, stops, workers, exec_error, errors, signal, main,
                 cpu_runs, gpu_runs, shared, batch>>

ShareOutputs ==
  /\ main = "api"
  /\ main' = IF Stopped THEN "throw" ELSE "use"
  /\ UNCHANGED <<queues, stops, workers, exec_error, errors, asleep, signal, cpu_runs, gpu_runs,
                 shared, released, batch>>

UseOutputIdxs ==
  /\ main = "use" /\ "ready" \notin asleep
  /\ \/ /\ ready_stop
        /\ main' = "used" /\ UNCHANGED <<ready_queue, in_use_queue, asleep>>
     \/ /\ ~ready_stop /\ ready_queue # <<>>
        /\ in_use_queue' = Append(in_use_queue, Head(ready_queue))
        /\ ready_queue' = Tail(ready_queue)
        /\ main' = "used" /\ UNCHANGED asleep
     \/ /\ ~ready_stop /\ ready_queue = <<>>
        /\ asleep' = asleep \cup {"ready"} /\ UNCHANGED <<ready_queue, in_use_queue, main>>
  /\ UNCHANGED <<free_queue, stage_work_queue, stops, workers, exec_error, errors, signal,
                 cpu_runs, gpu_runs, shared, released, batch>>

ShareOutputsReturn ==
  /\ main = "used"
  /\ IF Stopped THEN main' = "throw" /\ UNCHANGED shared
                ELSE main' = "api" /\ shared' = shared + 1
  /\ UNCHANGED <<queues, stops, workers, exec_error, errors, asleep, signal, cpu_runs, gpu_runs,
                 released, batch>>

\* AsyncPipelinedExecutor::Outputs notifies all, signals stop, throws again;
\* ShareOutputs called on its own just throws
OutputsThrow ==
  /\ main = "throw"
  /\ \/ /\ exec_error' = TRUE
        /\ asleep' = asleep \ {"mixed", "gpu"}
        /\ signal' = [signal EXCEPT !["main"] = 1]
        /\ main' = "rethrow"
     \/ UNCHANGED <<exec_error, asleep, signal>> /\ main' = "thrown"
  /\ UNCHANGED <<queues, stops, workers, errors, cpu_runs, gpu_runs, shared, released, batch>>

OutputsRethrow ==
  /\ main = "rethrow" /\ signal["main"] = 0
  /\ main' = "thrown"
  /\ UNCHANGED <<queues, stops, workers, exec_error, errors, asleep, signal, cpu_runs, gpu_runs,
                 shared, released, batch>>

\* ~AsyncPipelinedExecutor: ShutdownQueue, ForceStop for each worker, notify_all
\* for the mixed and the gpu thread without their mutexes, join
Destroy ==
  /\ scenario.destroy /\ main \in {"api", "thrown"}
  /\ signal' = [signal EXCEPT !["main"] = 1]
  /\ main' = "stop_cpu"
  /\ UNCHANGED <<queues, stops, workers, exec_error, errors, asleep, cpu_runs, gpu_runs, shared,
                 released, batch>>

DestroyOrder == <<"stop_cpu", "stop_mixed", "stop_gpu", "notify_mixed", "notify_gpu", "join">>
WorkerOrder == <<"cpu", "mixed", "gpu", "mixed", "gpu">>

ForceStopAndNotify ==
  /\ signal["main"] = 0
  /\ \E i \in 1 .. 5 :
       /\ main = DestroyOrder[i]
       /\ main' = DestroyOrder[i + 1]
       /\ running' = IF i <= 3 THEN [running EXCEPT ![WorkerOrder[i]] = FALSE] ELSE running
       /\ asleep' = IF i > 3 THEN asleep \ {WorkerOrder[i]} ELSE asleep
  /\ UNCHANGED <<queues, stops, work_counter, tasks, pc, at, idx, exec_error, errors, signal,
                 cpu_runs, gpu_runs, shared, released, batch>>

Join ==
  /\ main = "join" /\ \A w \in Workers : pc[w] = "idle"
  /\ main' = "destroyed"
  /\ UNCHANGED <<queues, stops, workers, exec_error, errors, asleep, signal, cpu_runs, gpu_runs,
                 shared, released, batch>>

-----------------------------------------------------------------------------
WorkerStep(w) ==
  \/ TakeWork(w) \/ Begin(w) \/ Sleep(w) \/ CheckStop(w) \/ AcquireIdxs(w) \/ CheckIdxs(w)
  \/ RunOps(w) \/ OperatorThrows(w) \/ HandleError(w) \/ ReleaseIdxs(w)
  \/ w \in DOMAIN NextWorker /\ Post(w)
  \/ w = "cpu" /\ (AcquireFree \/ SleepFree)
  \/ w = "gpu" /\ QueueOutputIdxs

MainStep ==
  \/ UseOutputIdxs \/ ShareOutputsReturn \/ OutputsThrow \/ OutputsRethrow
  \/ ForceStopAndNotify \/ Join

\* A user of the C++ interface calls RunGPU for a batch already given to RunCPU,
\* and asks for the output of a batch already given to RunGPU while holding fewer
\* than Depth outputs.
UserCall ==
  \/ ScheduleCPU
  \/ gpu_runs < cpu_runs /\ ScheduleGPU
  \/ shared < gpu_runs /\ Len(in_use_queue) < Depth /\ ShareOutputs
  \/ ReleaseOutputs \/ Destroy

Next ==
  /\ \/ \E w \in Workers : WorkerStep(w)
     \/ \E t \in Threads : SignalStop(t)
     \/ MainStep \/ UserCall
  /\ UNCHANGED scenario

\* Threads make progress inside a call; which calls the user makes is open.
Spec ==
  /\ Init /\ [][Next]_<<vars, scenario>>
  /\ \A w \in Workers : WF_vars(WorkerStep(w))
  /\ \A t \in Threads : WF_vars(SignalStop(t))
  /\ WF_vars(MainStep)

-----------------------------------------------------------------------------
Indices == 0 .. Depth - 1

QueueType ==
  /\ free_queue \in Seq(Indices) /\ ready_queue \in Seq(Indices) /\ in_use_queue \in Seq(Indices)
  /\ stage_work_queue \in [Stages -> Seq(Indices)]

StopType ==
  /\ stage_work_stop \in [Stages -> BOOLEAN] /\ ready_stop \in BOOLEAN
  /\ exec_error \in BOOLEAN /\ errors \in BOOLEAN
  /\ signal \in [Threads -> 0 .. 6]

SleepType == asleep \subseteq {"mixed", "gpu", "free", "ready"}

Positions == {"idle", "begin", "presleep", "check", "acquire", "window", "acquired", "run", "error",
              "release", "abandon", "post"}

WorkerType ==
  /\ work_counter \in [Workers -> Int] /\ tasks \in [Workers -> Nat]
  /\ running \in [Workers -> BOOLEAN] /\ pc \in [Workers -> Positions]
  /\ at \in [Workers -> Stages] /\ idx \in [Workers -> Indices \cup {kInvalidIdx}]

UserType ==
  /\ main \in {"api", "use", "used", "throw", "rethrow", "thrown", "stop_cpu", "stop_mixed",
               "stop_gpu", "notify_mixed", "notify_gpu", "join", "destroyed"}
  /\ cpu_runs \in Nat /\ gpu_runs \in Nat /\ shared \in Nat /\ released \in Nat
  /\ batch \in [Indices -> Nat]

\* The types of the variables.
TypeOK == QueueType /\ StopType /\ SleepType /\ WorkerType /\ UserType

\* A stage never takes an index that is not there: whenever a thread is about
\* to take the front of its stage's queue (which AcquireIdxs does without a test
\* for emptiness) and the stage is not stopped, the queue has an element.  The
\* counters that hold the thread back and the queue are kept by different
\* mutexes, and both are abandoned half-way when a stage fails or the executor
\* is destroyed.
WorkIsThere ==
  /\ \A w \in Workers :
       pc[w] = "acquire" /\ at[w] # "SUPPORT" /\ ~stage_work_stop[at[w]] =>
         stage_work_queue[at[w]] # <<>>
  /\ pc["cpu"] = "begin" => work_counter["cpu"] > 0

\* Outputs come back in the order in which they were scheduled: the oldest
\* output the user holds is of batch released + 1, and so on.
OutputsInOrder ==
  \A k \in 1 .. shared - released : batch[in_use_queue[k]] = released + k

\* "In the end, GPU state will wait infinitely for mixed one. This code defends
\* against it." (async_pipelined_executor.h:53): the destructor returns.
DestructorReturns == (main = "stop_cpu") ~> (main = "destroyed")

=============================================================================

-------------------------- MODULE SeparatedExecutor --------------------------
(***************************************************************************)
(* The executor with separated queues and one worker thread per stage:     *)
(* Executor (executor.h) with SeparateQueuePolicy and AOT_WS_Policy, run   *)
(* by AsyncSeparatedPipelinedExecutor.                                     *)
(*                                                                         *)
(* The main thread schedules work on three worker threads, takes outputs,  *)
(* and destroys the executor.  The cpu thread runs the SUPPORT and the CPU *)
(* stage, the mixed and gpu threads issue kernels on their CUDA streams;   *)
(* kernels run later, in the order of the stream, and read the buffers as  *)
(* they are at that time.  The content of a buffer is the number of the    *)
(* batch it holds, or Torn while it is written or when the inputs of a     *)
(* stage belong to different batches.                                      *)
(***************************************************************************)
EXTENDS SeparateQueuePolicy

\* The situations considered: runs bounds the batches scheduled, output is the
\* stage that produces the pipeline's output (MIXED or GPU), fail has the stages
\* with an operator that may throw, destroy says whether the main thread may
\* destroy the executor.
CONSTANT Scenarios

ASSUME ScenarioAssumption ==
  Scenarios \subseteq [runs : Nat, output : {"MIXED", "GPU"}, fail : SUBSET Stages,
                      destroy : BOOLEAN]

Workers == {"cpu", "mixed", "gpu"}
Torn == 0

VARIABLES
  scenario,
  run,            \* stage -> position in RunCPU, RunMixed, RunGPU
  exec_error,
  errors,         \* errors_ is not empty
  work,           \* worker -> length of its work_queue_
  running,        \* worker -> running_
  main,           \* position of the main thread
  cpu_runs, gpu_runs,       \* calls of RunCPU, of RunMixed and RunGPU
  shared, released,         \* outputs returned to the user, and released
  processed,      \* "SUPPORT", "CPU" -> batches produced by the stage
  data,           \* stage -> index -> batch in the buffer
  issued, done,   \* stream -> kernels issued and completed
  executing,      \* streams with a kernel in execution
  mixed_event,    \* MIXED index -> kernels issued on mixed_op_stream_ at the record
  output_event,   \* GPU index -> kernels issued on the output's stream at the record
  previous_gpu_queue_idx

policyVars == vars
threadVars == <<run, exec_error, errors, work, running>>
mainVars == <<main, cpu_runs, gpu_runs, shared, released>>
gpuVars == <<issued, done, executing, mixed_event, output_event, previous_gpu_queue_idx>>
execVars == <<threadVars, mainVars, processed, data, gpuVars>>
allVars == <<policyVars, execVars>>

ExecInit ==
  /\ Init /\ scenario \in Scenarios
  /\ run = [s \in Stages |-> "idle"]
  /\ exec_error = FALSE /\ errors = FALSE
  /\ work = [w \in Workers |-> 0]
  /\ running = [w \in Workers |-> TRUE]
  /\ main = "api" /\ cpu_runs = 0 /\ gpu_runs = 0 /\ shared = 0 /\ released = 0
  /\ processed = [s \in {"SUPPORT", "CPU"} |-> 0]
  /\ data = [s \in Stages |-> [i \in Index(s) |-> Torn]]
  /\ issued = [x \in {"mixed", "gpu"} |-> 0] /\ done = [x \in {"mixed", "gpu"} |-> 0]
  /\ executing = {}
  /\ mixed_event = [i \in Index("MIXED") |-> 0]
  /\ output_event = [i \in Index("GPU") |-> 0]
  /\ previous_gpu_queue_idx = -1

OutputStream == IF scenario.output = "MIXED" THEN "mixed" ELSE "gpu"

-----------------------------------------------------------------------------
(* Worker threads: WorkerThread takes a piece of work, runs it, and leaves *)
(* its loop once running_ is false                                         *)

TakeWork(w, s) ==
  /\ running[w] /\ work[w] > 0
  /\ run[s] = "idle" /\ (w = "cpu" => run["CPU"] = "idle")
  /\ work' = [work EXCEPT ![w] = @ - 1]
  /\ run' = [run EXCEPT ![s] = "acquire"]
  /\ AcquireIdxs(s)
  /\ UNCHANGED <<exec_error, errors, running, mainVars, processed, data, gpuVars>>

\* RunCPU goes on from the support operators to the CPU operators
EnterCPU ==
  /\ run["CPU"] = "enter"
  /\ run' = [run EXCEPT !["CPU"] = "acquire"]
  /\ AcquireIdxs("CPU")
  /\ UNCHANGED <<exec_error, errors, work, running, mainVars, processed, data, gpuVars>>

Acquire(s) ==
  /\ run[s] = "acquire"
  /\ AcquireReady(s) \/ AcquireFree(s)
  /\ UNCHANGED execVars

-----------------------------------------------------------------------------
(* RunCPU, RunMixed, RunGPU *)

\* the buffers written and read by the operators of a stage: AOT_WS_Policy
\* takes the workspace of a GPU operator by the index of the MIXED stage
WorkspaceIdx(s, idxs) == IF s = "GPU" THEN idxs["MIXED"] ELSE idxs[s]

\* the output of stage s for batch n: whole if all inputs are of batch n
Result(s, n, idxs) ==
  IF \A t \in Stages : Position[t] < Position[s] /\ t \in {"SUPPORT", PreviousStage[s]} =>
       data[t][idxs[t]] = n
  THEN n ELSE Torn

\* exec_error_ || IsStopSignaled() || !AreValid(idxs)
Abandon(idxs) == exec_error \/ ready_stop \/ ~AreValid(idxs)

CheckIdxs(s) ==
  /\ run[s] = "acquire" /\ acq[s] = "held"
  /\ run' = [run EXCEPT ![s] = IF Abandon(held[s]) THEN "abandon" ELSE "run"]
  /\ data' = IF Abandon(held[s]) \/ s \notin {"SUPPORT", "CPU"} THEN data
             ELSE [data EXCEPT ![s][held[s][s]] = Torn]
  /\ UNCHANGED <<policyVars, exec_error, errors, work, running, mainVars, processed, gpuVars>>

\* support and CPU operators fill their buffers
RunHostOps(s) ==
  /\ s \in {"SUPPORT", "CPU"} /\ run[s] = "run"
  /\ processed' = [processed EXCEPT ![s] = @ + 1]
  /\ data' = [data EXCEPT ![s][held[s][s]] =
       IF s = "SUPPORT" THEN processed'[s] ELSE Result(s, processed'[s], held[s])]
  /\ run' = [run EXCEPT ![s] = "release"]
  /\ UNCHANGED <<policyVars, exec_error, errors, work, running, mainVars, gpuVars>>

\* a kernel at the end of stream x that waits for n kernels of the mixed stream
Issue(x, s, n) ==
  /\ streams' = [streams EXCEPT ![x] = Append(@, [kernel |-> s, idxs |-> held[s], after |-> n])]
  /\ issued' = [issued EXCEPT ![x] = @ + 1]
  /\ UNCHANGED <<queues, stops, commands, asleep, acq, held, user, releasing, signal>>

\* mixed operators issue their kernels and record their event
RunMixedOps ==
  /\ run["MIXED"] = "run"
  /\ Issue("mixed", "MIXED", 0)
  /\ mixed_event' = [mixed_event EXCEPT ![held["MIXED"]["MIXED"]] = issued'["mixed"]]
  /\ run' = [run EXCEPT !["MIXED"] = "release"]
  /\ UNCHANGED <<exec_error, errors, work, running, mainVars, processed, data, done, executing,
                 output_event, previous_gpu_queue_idx>>

\* cudaEventSynchronize on the output event of the previous iteration
SynchronizePrevious ==
  previous_gpu_queue_idx # -1 => done[OutputStream] >= output_event[previous_gpu_queue_idx]

\* GPU operators wait for the event of their mixed parents; the output event
\* is recorded on the stream of the operator that makes the output
RunGPUOps ==
  /\ run["GPU"] = "run" /\ SynchronizePrevious
  /\ Issue("gpu", "GPU", mixed_event[held["GPU"]["MIXED"]])
  /\ output_event' = [output_event EXCEPT ![held["GPU"]["GPU"]] = issued'[OutputStream]]
  /\ run' = [run EXCEPT !["GPU"] = "release"]
  /\ UNCHANGED <<exec_error, errors, work, running, mainVars, processed, data, done, executing,
                 mixed_event, previous_gpu_queue_idx>>

\* an operator throws: HandleError sets exec_error_ and signals stop
OperatorThrows(s) ==
  /\ s \in scenario.fail /\ run[s] = "run" /\ (s = "GPU" => SynchronizePrevious)
  /\ exec_error' = TRUE
  /\ SignalStop(s)
  /\ run' = [run EXCEPT ![s] = "error"]
  /\ UNCHANGED <<errors, work, running, mainVars, processed, data, gpuVars>>

\* ... and then stores the message
HandleError(s) ==
  /\ run[s] = "error" /\ signal[s] = 0
  /\ errors' = TRUE
  /\ run' = [run EXCEPT ![s] = "release"]
  /\ UNCHANGED <<policyVars, exec_error, work, running, mainVars, processed, data, gpuVars>>

\* the end of a stage: what follows it on its thread
AfterStage(s) ==
  run' = [run EXCEPT ![s] = "idle",
                     !["CPU"] = IF s = "SUPPORT" /\ run[s] = "release" THEN "enter"
                                ELSE IF s = "CPU" THEN "idle" ELSE @]

\* mutant: RunMixed leaves the stream argument of ReleaseIdxs at its default
ReleaseDefaultStream(s) ==
  /\ run[s] \in {"release", "abandon"}
  /\ \/ s # "GPU" /\ (ReleaseReady(s) \/ ReleaseInvalid(s)) /\ AfterStage(s)
     \/ s = "MIXED" /\ ReleaseCallback("default") /\ UNCHANGED run
     \/ s = "GPU" /\ QueueOutputIdxs /\ UNCHANGED run
     \/ s = "GPU" /\ QueueOutputCallback /\ AfterStage(s)
  /\ UNCHANGED <<exec_error, errors, work, running, mainVars, processed, data, gpuVars>>

Release(s) ==
  /\ run[s] \in {"release", "abandon"}
  /\ \/ /\ (s = "GPU" => run[s] = "abandon")
        /\ ReleaseReady(s) \/ ReleaseInvalid(s)
        /\ AfterStage(s) /\ UNCHANGED previous_gpu_queue_idx
     \/ /\ s = "MIXED" /\ ReleaseCallback(IF run[s] = "release" THEN "mixed" ELSE "default")
        /\ UNCHANGED <<run, previous_gpu_queue_idx>>
     \/ /\ s = "GPU" /\ run[s] = "release" /\ QueueOutputIdxs
        /\ UNCHANGED <<run, previous_gpu_queue_idx>>
     \/ /\ s = "GPU" /\ run[s] = "release" /\ QueueOutputCallback
        /\ AfterStage(s) /\ previous_gpu_queue_idx' = held["GPU"]["GPU"]
  /\ UNCHANGED <<exec_error, errors, work, running, mainVars, processed, data, issued, done,
                 executing, mixed_event, output_event>>

-----------------------------------------------------------------------------
(* CUDA: kernels and callbacks run in the order of their stream            *)

\* mutant: the kernels of the GPU stage do not wait for the event of the mixed stage
KernelStartNoWait(x) ==
  /\ x \notin executing /\ streams[x] # <<>>
  /\ LET item == Head(streams[x]) IN
     /\ "kernel" \in DOMAIN item
     /\ data' = [data EXCEPT ![item.kernel][WorkspaceIdx(item.kernel, item.idxs)] = Torn]
  /\ executing' = executing \cup {x}
  /\ UNCHANGED <<policyVars, threadVars, mainVars, processed, issued, done, mixed_event,
                 output_event, previous_gpu_queue_idx>>

KernelStart(x) ==
  /\ x \notin executing /\ streams[x] # <<>>
  /\ LET item == Head(streams[x]) IN
     /\ "kernel" \in DOMAIN item
     /\ done["mixed"] >= item.after
     /\ data' = [data EXCEPT ![item.kernel][WorkspaceIdx(item.kernel, item.idxs)] = Torn]
  /\ executing' = executing \cup {x}
  /\ UNCHANGED <<policyVars, threadVars, mainVars, processed, issued, done, mixed_event,
                 output_event, previous_gpu_queue_idx>>

KernelEnd(x) ==
  /\ x \in executing
  /\ LET item == Head(streams[x])
         previous == PreviousStage[item.kernel]
         batch == data[previous][item.idxs[previous]]
     IN data' = [data EXCEPT ![item.kernel][WorkspaceIdx(item.kernel, item.idxs)] =
                   Result(item.kernel, batch, item.idxs)]
  /\ executing' = executing \ {x}
  /\ done' = [done EXCEPT ![x] = @ + 1]
  /\ streams' = [streams EXCEPT ![x] = Tail(@)]
  /\ UNCHANGED <<queues, stops, commands, asleep, acq, held, user, releasing, signal, threadVars,
                 mainVars, processed, issued, mixed_event, output_event, previous_gpu_queue_idx>>

Callback(x) == release_callback(x) /\ UNCHANGED execVars

-----------------------------------------------------------------------------
(* The main thread *)

\* RunCPU: schedule the work of the cpu thread
ScheduleCPU ==
  /\ main = "api" /\ cpu_runs < scenario.runs
  /\ cpu_runs' = cpu_runs + 1
  /\ work' = [work EXCEPT !["cpu"] = @ + 1]
  /\ UNCHANGED <<policyVars, run, exec_error, errors, running, main, gpu_runs, shared, released,
                 processed, data, gpuVars>>

\* Pipeline::RunGPU: RunMixed and RunGPU, for a batch already given to RunCPU
ScheduleGPU ==
  /\ main = "api" /\ gpu_runs < cpu_runs
  /\ gpu_runs' = gpu_runs + 1
  /\ work' = [work EXCEPT !["mixed"] = @ + 1, !["gpu"] = @ + 1]
  /\ UNCHANGED <<policyVars, run, exec_error, errors, running, main, cpu_runs, shared, released,
                 processed, data, gpuVars>>

ReleaseOutputs ==
  /\ main = "api" /\ ReleaseOutputIdxs
  /\ main' = "release" /\ released' = released + 1
  /\ UNCHANGED <<threadVars, cpu_runs, gpu_runs, shared, processed, data, gpuVars>>

ReleaseOutputsReturn ==
  /\ main = "release" /\ ReleaseOutputGpu
  /\ main' = "api"
  /\ UNCHANGED <<threadVars, cpu_runs, gpu_runs, shared, released, processed, data, gpuVars>>

\* ShareOutputs: throws on an error; the user asks for a scheduled batch
ShareOutputs ==
  /\ main = "api" /\ shared < gpu_runs
  /\ \/ /\ exec_error \/ ready_stop
        /\ main' = "throw" /\ UNCHANGED policyVars
     \/ /\ ~exec_error /\ ~ready_stop
        /\ main' = "use" /\ UseOutputBegin
  /\ UNCHANGED <<threadVars, cpu_runs, gpu_runs, shared, released, processed, data, gpuVars>>

ShareOutputsUse ==
  /\ main = "use" /\ UseOutputIdxs
  /\ UNCHANGED execVars

\* the second check for errors, once the index is known
ShareOutputsCheck ==
  /\ main = "use" /\ user = "none"
  /\ main' = IF exec_error \/ ready_stop THEN "throw" ELSE "synchronize"
  /\ UNCHANGED <<policyVars, threadVars, cpu_runs, gpu_runs, shared, released, processed, data, gpuVars>>

\* cudaEventSynchronize on the event of the index of the producing stage
ShareOutputsReturn ==
  /\ main = "synchronize"
  /\ done[OutputStream] >=
       output_event[OutputIdx(scenario.output, in_use_queue[Len(in_use_queue)])]
  /\ shared' = shared + 1
  /\ main' = "api"
  /\ UNCHANGED <<policyVars, threadVars, cpu_runs, gpu_runs, released, processed, data, gpuVars>>

\* AsyncSeparatedPipelinedExecutor::Outputs signals stop and throws again;
\* ShareOutputs called on its own just throws
OutputsThrow ==
  /\ main = "throw"
  /\ \/ exec_error' = TRUE /\ SignalStop("MAIN") /\ main' = "rethrow"
     \/ UNCHANGED <<policyVars, exec_error>> /\ main' = "thrown"
  /\ UNCHANGED <<run, errors, work, running, cpu_runs, gpu_runs, shared, released, processed, data, gpuVars>>

OutputsRethrow ==
  /\ main = "rethrow" /\ signal["MAIN"] = 0
  /\ main' = "thrown"
  /\ UNCHANGED <<policyVars, threadVars, cpu_runs, gpu_runs, shared, released, processed, data, gpuVars>>

\* ~AsyncSeparatedPipelinedExecutor: ShutdownQueue, then ForceStop for each
\* worker, then Shutdown, which joins it
Destroy ==
  /\ scenario.destroy /\ main \in {"api", "thrown"}
  /\ SignalStop("MAIN")
  /\ main' = "destroy"
  /\ UNCHANGED <<threadVars, cpu_runs, gpu_runs, shared, released, processed, data, gpuVars>>

DestroyOrder == <<"destroy", "stop_mixed", "stop_gpu", "join">>
WorkerOrder == <<"cpu", "mixed", "gpu">>

ForceStop ==
  /\ signal["MAIN"] = 0
  /\ \E i \in 1 .. 3 :
       /\ main = DestroyOrder[i]
       /\ main' = DestroyOrder[i + 1]
       /\ running' = [running EXCEPT ![WorkerOrder[i]] = FALSE]
  /\ UNCHANGED <<policyVars, run, exec_error, errors, work, cpu_runs, gpu_runs, shared, released,
                 processed, data, gpuVars>>

Join ==
  /\ main = "join"
  /\ \A s \in Stages : run[s] = "idle"
  /\ main' = "destroyed"
  /\ UNCHANGED <<policyVars, threadVars, cpu_runs, gpu_runs, shared, released, processed, data, gpuVars>>

Signalling(t) == StopSteps(t) /\ UNCHANGED execVars

-----------------------------------------------------------------------------
StageStep(s) ==
  \/ Acquire(s) \/ CheckIdxs(s) \/ RunHostOps(s) \/ OperatorThrows(s) \/ HandleError(s) \/ Release(s)
  \/ s = "SUPPORT" /\ TakeWork("cpu", s)
  \/ s = "CPU" /\ EnterCPU
  \/ s = "MIXED" /\ (TakeWork("mixed", s) \/ RunMixedOps)
  \/ s = "GPU" /\ (TakeWork("gpu", s) \/ RunGPUOps)

StreamStep(x) == KernelStart(x) \/ KernelEnd(x) \/ Callback(x)

\* the main thread inside a call
MainStep ==
  \/ ReleaseOutputsReturn \/ ShareOutputsUse \/ ShareOutputsCheck \/ ShareOutputsReturn
  \/ OutputsThrow \/ OutputsRethrow \/ ForceStop \/ Join

\* the calls the user may make
UserCall == ScheduleCPU \/ ScheduleGPU \/ ReleaseOutputs \/ ShareOutputs \/ Destroy

ExecNext ==
  /\ \/ \E s \in Stages : StageStep(s)
     \/ \E x \in Streams : StreamStep(x)
     \/ \E t \in Threads : Signalling(t)
     \/ MainStep \/ UserCall
  /\ UNCHANGED scenario

\* Threads and streams make progress; which calls the user makes is open.
ExecSpec ==
  /\ ExecInit /\ [][ExecNext]_<<allVars, scenario>>
  /\ \A s \in Stages : WF_allVars(StageStep(s))
  /\ \A x \in Streams : WF_allVars(StreamStep(x))
  /\ \A t \in Threads : WF_allVars(Signalling(t))
  /\ WF_allVars(MainStep)

-----------------------------------------------------------------------------
\* Every output is whole and belongs to the batch it should: the n-th call of
\* ShareOutputs returns a buffer with batch n, completely computed from inputs
\* of batch n in all stages, and the buffer keeps it until the user releases it,
\* while four threads and two streams reuse the buffers around it.
OutputsIntact ==
  \A k \in 1 .. shared - released :
    data[scenario.output][OutputIdx(scenario.output, in_use_queue[k])] = released + k

\* Calls return: ShareOutputs for a scheduled batch, with the output or with an
\* exception, whatever stage fails and whenever it does; and the destructor,
\* however the workers are blocked when it signals stop.
CallsReturn == (main \in {"use", "destroy"}) ~> (main \in {"api", "thrown", "destroyed"})

Policy == INSTANCE SeparateQueuePolicy WITH
  streams <- [x \in Streams |-> SelectSeq(streams[x], LAMBDA item : "release" \in DOMAIN item)]

\* The executor is a client of the queue policy as SeparateQueuePolicy assumes
\* it: each of its steps is a step of the policy's specification, once the
\* kernels on the streams are hidden.
UsesPolicy == Policy!Init /\ [][Policy!Next]_Policy!vars

=============================================================================

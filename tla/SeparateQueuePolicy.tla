------------------------- MODULE SeparateQueuePolicy -------------------------
(***************************************************************************)
(* The queues of buffer indices that connect the four stages of an         *)
(* executor with separated queues: SeparateQueuePolicy in                  *)
(* src/dali/pipeline/executor/queue_policy.h.                              *)
(*                                                                         *)
(* Each stage owns a ring of buffers.  An index of a stage is free, held   *)
(* by the thread that runs the stage, ready for the next stage, held       *)
(* there, and finally given back: CPU buffers by a CUDA callback on the    *)
(* stream of the MIXED stage, SUPPORT buffers by a callback on the stream  *)
(* of the GPU stage, MIXED and GPU buffers by the user.  One step of the   *)
(* model is one critical section, with the notify that follows it, or one  *)
(* registration or execution of a callback.                                *)
(*                                                                         *)
(* The clients are the most general ones: a stage acquires, holds and      *)
(* releases, or signals stop while it holds (HandleError); the main thread *)
(* uses and releases outputs and may signal stop (destructor, Outputs).    *)
(***************************************************************************)
EXTENDS Integers, Sequences

CONSTANTS
  CpuSize, GpuSize,  \* QueueSizes: cpu_size, gpu_size
  MayStop            \* threads that may call SignalStop

Stages == {"SUPPORT", "CPU", "MIXED", "GPU"}

ASSUME SizeAssumption == CpuSize \in Nat \ {0} /\ GpuSize \in Nat \ {0}
ASSUME StopAssumption == MayStop \subseteq Stages \cup {"MAIN"}

\* GetQueueSizes
GetQueueSizes ==
  [s \in Stages |-> CASE s = "SUPPORT" -> CpuSize * GpuSize
                      [] s = "CPU" -> CpuSize
                      [] OTHER -> GpuSize]

PreviousStage == [CPU |-> "SUPPORT", MIXED |-> "CPU", GPU |-> "MIXED"]
HasPreviousStage(s) == s # "SUPPORT"

kInvalidIdx == -1
QueueIdxs == [Stages -> Int]
Invalid == [s \in Stages |-> kInvalidIdx]
NoOutput == [mixed |-> kInvalidIdx, gpu |-> kInvalidIdx]
Fresh == [s \in Stages |-> 0]              \* QueueIdxs result;

AreValid(idxs) == \A s \in Stages : idxs[s] # kInvalidIdx

Threads == Stages \cup {"MAIN"}

\* mixed_op_stream_, gpu_op_stream_ and the default stream 0
Streams == {"mixed", "gpu", "default"}

VARIABLES
  stage_free,          \* stage -> queue of free indices
  stage_ready,         \* stage -> queue of QueueIdxs processed by the stage
  stage_free_stop, stage_ready_stop, ready_stop,
  ready_output_queue, in_use_queue,   \* queues of OutputIdxs
  commands,            \* "SUPPORT", "CPU" -> slot -> index in the release command
  streams,             \* CUDA stream -> work enqueued on it; here only callbacks
  asleep,              \* condition variables with a sleeping thread
  acq,                 \* stage -> position of its thread in Acquire/Release
  held,                \* stage -> QueueIdxs its thread has acquired
  user,                \* position of the main thread in Use/ReleaseOutputIdxs
  releasing,           \* OutputIdxs being released by the main thread
  signal               \* thread -> next step of its SignalStop, 0 if in none

queues == <<stage_free, stage_ready, ready_output_queue, in_use_queue>>
stops == <<stage_free_stop, stage_ready_stop, ready_stop>>
vars == <<queues, stops, commands, streams, asleep, acq, held, user, releasing, signal>>

\* InitializeQueues
Init ==
  /\ stage_free = [s \in Stages |-> [i \in 1 .. GetQueueSizes[s] |-> i - 1]]
  /\ stage_ready = [s \in Stages |-> <<>>]
  /\ stage_free_stop = [s \in Stages |-> FALSE]
  /\ stage_ready_stop = [s \in Stages |-> FALSE]
  /\ ready_stop = FALSE
  /\ ready_output_queue = <<>> /\ in_use_queue = <<>>
  /\ commands = [s \in {"SUPPORT", "CPU"} |-> [i \in 0 .. GetQueueSizes[s] - 1 |-> kInvalidIdx]]
  /\ streams = [x \in Streams |-> <<>>]
  /\ asleep = {}
  /\ acq = [s \in Stages |-> "none"]
  /\ held = [s \in Stages |-> Invalid]
  /\ user = "none" /\ releasing = NoOutput
  /\ signal = [t \in Threads |-> 0]

-----------------------------------------------------------------------------
(* AcquireIdxs *)

ReadyCv(s) == <<"ready", s>>
FreeCv(s) == <<"free", s>>
OutputCv == <<"output", "MAIN">>

AcquireIdxs(s) ==
  /\ acq[s] = "none" /\ signal[s] = 0
  /\ acq' = [acq EXCEPT ![s] = IF HasPreviousStage(s) THEN "ready" ELSE "free"]
  /\ held' = [held EXCEPT ![s] = Fresh]
  /\ UNCHANGED <<queues, stops, commands, streams, asleep, user, releasing, signal>>

\* the first wait: a ready buffer of the previous stage
AcquireReady(s) ==
  /\ HasPreviousStage(s)
  /\ LET previous == PreviousStage[s] IN
     /\ acq[s] = "ready" /\ ReadyCv(previous) \notin asleep
     /\ \/ /\ stage_ready_stop[previous]
           /\ held' = [held EXCEPT ![s] = Invalid]
           /\ acq' = [acq EXCEPT ![s] = "held"]
           /\ UNCHANGED <<stage_ready, asleep>>
        \/ /\ ~stage_ready_stop[previous] /\ stage_ready[previous] # <<>>
           /\ held' = [held EXCEPT ![s] = Head(stage_ready[previous])]
           /\ stage_ready' = [stage_ready EXCEPT ![previous] = Tail(@)]
           /\ acq' = [acq EXCEPT ![s] = "free"]
           /\ UNCHANGED asleep
        \/ /\ ~stage_ready_stop[previous] /\ stage_ready[previous] = <<>>
           /\ asleep' = asleep \cup {ReadyCv(previous)}
           /\ UNCHANGED <<stage_ready, held, acq>>
  /\ UNCHANGED <<stage_free, ready_output_queue, in_use_queue, stops, commands, streams,
                 user, releasing, signal>>

\* mutant: a stack of free buffers, back() and pop_back()
AcquireFreeLast(s) ==
  /\ acq[s] = "free" /\ FreeCv(s) \notin asleep
  /\ IF stage_free_stop[s]
     THEN held' = [held EXCEPT ![s] = Invalid] /\ UNCHANGED stage_free
     ELSE /\ stage_free[s] # <<>>
          /\ held' = [held EXCEPT ![s][s] = stage_free[s][Len(stage_free[s])]]
          /\ stage_free' = [stage_free EXCEPT ![s] = SubSeq(@, 1, Len(@) - 1)]
  /\ acq' = [acq EXCEPT ![s] = "held"]
  /\ UNCHANGED <<stage_ready, ready_output_queue, in_use_queue, stops, commands, streams,
                 asleep, user, releasing, signal>>

\* mutant: front() without pop()
AcquireFreeNoPop(s) ==
  /\ acq[s] = "free" /\ FreeCv(s) \notin asleep
  /\ IF stage_free_stop[s]
     THEN held' = [held EXCEPT ![s] = Invalid]
     ELSE stage_free[s] # <<>> /\ held' = [held EXCEPT ![s][s] = Head(stage_free[s])]
  /\ acq' = [acq EXCEPT ![s] = "held"]
  /\ UNCHANGED <<queues, stops, commands, streams, asleep, user, releasing, signal>>

\* the second wait: a free buffer of the stage itself; on stop the indices
\* taken by the first wait are dropped
AcquireFree(s) ==
  /\ acq[s] = "free" /\ FreeCv(s) \notin asleep
  /\ \/ /\ stage_free_stop[s]
        /\ held' = [held EXCEPT ![s] = Invalid]
        /\ acq' = [acq EXCEPT ![s] = "held"]
        /\ UNCHANGED <<stage_free, asleep>>
     \/ /\ ~stage_free_stop[s] /\ stage_free[s] # <<>>
        /\ held' = [held EXCEPT ![s][s] = Head(stage_free[s])]
        /\ stage_free' = [stage_free EXCEPT ![s] = Tail(@)]
        /\ acq' = [acq EXCEPT ![s] = "held"]
        /\ UNCHANGED asleep
     \/ /\ ~stage_free_stop[s] /\ stage_free[s] = <<>>
        /\ asleep' = asleep \cup {FreeCv(s)}
        /\ UNCHANGED <<stage_free, held, acq>>
  /\ UNCHANGED <<stage_ready, ready_output_queue, in_use_queue, stops, commands, streams,
                 user, releasing, signal>>

-----------------------------------------------------------------------------
(* ReleaseIdxs and QueueOutputIdxs *)

\* command = ReleaseCommand{this, s, idx}; cudaStreamAddCallback(x, ..., &command, 0):
\* the callback gets the address of the command, a slot of a vector
AddReleaseCallback(s, idx, x) ==
  /\ commands' = [commands EXCEPT ![s][idx] = idx]
  /\ streams' = [streams EXCEPT ![x] = Append(@, [release |-> s, slot |-> idx])]

\* the thread is done with its indices
Leave(s) ==
  /\ acq' = [acq EXCEPT ![s] = "none"]
  /\ held' = [held EXCEPT ![s] = Invalid]

\* the index is not valid: ReleaseIdxs returns at once
ReleaseInvalid(s) ==
  /\ acq[s] = "held" /\ signal[s] = 0
  /\ held[s][s] = kInvalidIdx
  /\ Leave(s)
  /\ UNCHANGED <<queues, stops, commands, streams, asleep, user, releasing, signal>>

\* the MIXED stage first arranges for the CPU buffer to be given back; stream x
\* is the stage's, or the default one on the early return of RunMixed
ReleaseCallback(x) ==
  /\ acq["MIXED"] = "held" /\ signal["MIXED"] = 0
  /\ held["MIXED"]["MIXED"] # kInvalidIdx
  /\ AddReleaseCallback("CPU", held["MIXED"]["CPU"], x)
  /\ acq' = [acq EXCEPT !["MIXED"] = "release"]
  /\ UNCHANGED <<queues, stops, asleep, held, user, releasing, signal>>

\* stage_ready_[s].push(idxs); stage_ready_cv_[s].notify_one()
ReleaseReady(s) ==
  /\ acq[s] = IF s = "MIXED" THEN "release" ELSE "held"
  /\ signal[s] = 0
  /\ held[s][s] # kInvalidIdx
  /\ stage_ready' = [stage_ready EXCEPT ![s] = Append(@, held[s])]
  /\ asleep' = asleep \ {ReadyCv(s)}
  /\ Leave(s)
  /\ UNCHANGED <<stage_free, ready_output_queue, in_use_queue, stops, commands, streams,
                 user, releasing, signal>>

\* ready_output_queue_.push({mixed, gpu}); ready_output_cv_.notify_all()
QueueOutputIdxs ==
  /\ acq["GPU"] = "held" /\ signal["GPU"] = 0 /\ AreValid(held["GPU"])
  /\ ready_output_queue' = Append(ready_output_queue,
       [mixed |-> held["GPU"]["MIXED"], gpu |-> held["GPU"]["GPU"]])
  /\ asleep' = asleep \ {OutputCv}
  /\ acq' = [acq EXCEPT !["GPU"] = "release"]
  /\ UNCHANGED <<stage_free, stage_ready, in_use_queue, stops, commands, streams, held,
                 user, releasing, signal>>

\* QueueOutputIdxs goes on: the SUPPORT buffer is given back by a callback
QueueOutputCallback ==
  /\ acq["GPU"] = "release"
  /\ AddReleaseCallback("SUPPORT", held["GPU"]["SUPPORT"], "gpu")
  /\ Leave("GPU")
  /\ UNCHANGED <<queues, stops, asleep, user, releasing, signal>>

\* ReleaseStageIdx(s, idx): push, then stage_free_cv_[s].notify_one()
ReleaseStageIdx(s, idx) ==
  /\ stage_free' = [stage_free EXCEPT ![s] = Append(@, idx)]
  /\ asleep' = asleep \ {FreeCv(s)}

\* release_callback, run by CUDA in the order of the stream
release_callback(x) ==
  /\ streams[x] # <<>>
  /\ "release" \in DOMAIN Head(streams[x])
  /\ streams' = [streams EXCEPT ![x] = Tail(@)]
  /\ LET callback == Head(streams[x]) IN
     ReleaseStageIdx(callback.release, commands[callback.release][callback.slot])
  /\ UNCHANGED <<stage_ready, ready_output_queue, in_use_queue, stops, commands, acq, held,
                 user, releasing, signal>>

-----------------------------------------------------------------------------
(* UseOutputIdxs and ReleaseOutputIdxs, called by the main thread *)

\* the user keeps fewer outputs than there are buffers when asking for another
UseOutputBegin ==
  /\ user = "none" /\ signal["MAIN"] = 0
  /\ Len(in_use_queue) < GpuSize
  /\ user' = "use"
  /\ UNCHANGED <<queues, stops, commands, streams, asleep, acq, held, releasing, signal>>

UseOutputIdxs ==
  /\ user = "use" /\ OutputCv \notin asleep
  /\ \/ /\ ready_stop
        /\ user' = "none"
        /\ UNCHANGED <<ready_output_queue, in_use_queue, asleep>>
     \/ /\ ~ready_stop /\ ready_output_queue # <<>>
        /\ in_use_queue' = Append(in_use_queue, Head(ready_output_queue))
        /\ ready_output_queue' = Tail(ready_output_queue)
        /\ user' = "none"
        /\ UNCHANGED asleep
     \/ /\ ~ready_stop /\ ready_output_queue = <<>>
        /\ asleep' = asleep \cup {OutputCv}
        /\ UNCHANGED <<ready_output_queue, in_use_queue, user>>
  /\ UNCHANGED <<stage_free, stage_ready, stops, commands, streams, acq, held, releasing,
                 signal>>

\* processed = in_use_queue_.front(); pop; ReleaseStageIdx(MIXED, ...)
ReleaseOutputIdxs ==
  /\ user = "none" /\ signal["MAIN"] = 0 /\ in_use_queue # <<>>
  /\ releasing' = Head(in_use_queue)
  /\ in_use_queue' = Tail(in_use_queue)
  /\ ReleaseStageIdx("MIXED", Head(in_use_queue).mixed)
  /\ user' = "release"
  /\ UNCHANGED <<stage_ready, ready_output_queue, stops, commands, streams, acq, held, signal>>

\* ... ReleaseStageIdx(GPU, ...)
ReleaseOutputGpu ==
  /\ user = "release"
  /\ ReleaseStageIdx("GPU", releasing.gpu)
  /\ user' = "none" /\ releasing' = NoOutput
  /\ UNCHANGED <<stage_ready, ready_output_queue, in_use_queue, stops, commands, streams,
                 acq, held, signal>>

-----------------------------------------------------------------------------
(* SignalStop: ready_stop_, then the free and the ready flag of each stage *)
(* in the order of the enumeration OpType, each under its mutex; NotifyAll *)

StopOrder == <<"GPU", "CPU", "MIXED", "SUPPORT">>

MaySignal(t) ==
  /\ t \in MayStop /\ signal[t] = 0
  /\ IF t = "MAIN" THEN user = "none" ELSE acq[t] = "held" /\ AreValid(held[t])

\* the client calls SignalStop; in HandleError exec_error_ is now set
SignalStop(t) ==
  /\ MaySignal(t)
  /\ signal' = [signal EXCEPT ![t] = 1]
  /\ UNCHANGED <<queues, stops, commands, streams, asleep, acq, held, user, releasing>>

StopOutput(t) ==
  /\ signal[t] = 1
  /\ signal' = [signal EXCEPT ![t] = 2]
  /\ ready_stop' = TRUE
  /\ UNCHANGED <<queues, stage_free_stop, stage_ready_stop, commands, streams, asleep, acq,
                 held, user, releasing>>

StopFree(t) ==
  /\ signal[t] \in {2, 4, 6, 8}
  /\ stage_free_stop' = [stage_free_stop EXCEPT ![StopOrder[signal[t] \div 2]] = TRUE]
  /\ signal' = [signal EXCEPT ![t] = @ + 1]
  /\ UNCHANGED <<queues, stage_ready_stop, ready_stop, commands, streams, asleep, acq, held,
                 user, releasing>>

StopReady(t) ==
  /\ signal[t] \in {3, 5, 7, 9}
  /\ stage_ready_stop' = [stage_ready_stop EXCEPT ![StopOrder[(signal[t] - 1) \div 2]] = TRUE]
  /\ signal' = [signal EXCEPT ![t] = @ + 1]
  /\ UNCHANGED <<queues, stage_free_stop, ready_stop, commands, streams, asleep, acq, held,
                 user, releasing>>

\* mutant: the condition variables of the free buffers are not notified
NotifyAllReady(t) ==
  /\ signal[t] = 10
  /\ asleep' = {cv \in asleep : cv[1] = "free"}
  /\ signal' = [signal EXCEPT ![t] = 0]
  /\ UNCHANGED <<queues, stops, commands, streams, acq, held, user, releasing>>


NotifyAll(t) ==
  /\ signal[t] = 10
  /\ asleep' = {}
  /\ signal' = [signal EXCEPT ![t] = 0]
  /\ UNCHANGED <<queues, stops, commands, streams, acq, held, user, releasing>>

StopSteps(t) == StopOutput(t) \/ StopFree(t) \/ StopReady(t) \/ NotifyAll(t)

-----------------------------------------------------------------------------
\* the clients return early, and release what they hold, once they see
\* exec_error_ or the stop flag
Aborting == ready_stop \/ \E t \in Threads : signal[t] # 0

StageReleases(s) ==
  \/ (s = "GPU" => Aborting) /\ ReleaseReady(s)
  \/ ReleaseInvalid(s)
  \/ s = "MIXED" /\ ReleaseCallback("mixed")
  \/ s = "MIXED" /\ Aborting /\ ReleaseCallback("default")
  \/ s = "GPU" /\ (QueueOutputIdxs \/ QueueOutputCallback)

StageSteps(s) == AcquireReady(s) \/ AcquireFree(s) \/ StageReleases(s)

UserSteps == UseOutputIdxs \/ ReleaseOutputGpu

Next ==
  \/ \E s \in Stages : AcquireIdxs(s) \/ StageSteps(s)
  \/ \E x \in Streams : release_callback(x)
  \/ UseOutputBegin \/ ReleaseOutputIdxs \/ UserSteps
  \/ \E t \in Threads : SignalStop(t) \/ StopSteps(t)

\* Threads inside the policy's functions keep running and CUDA runs the
\* callbacks; that a stage is run, or an output used, is up to the client.
Fairness ==
  /\ \A s \in Stages : WF_vars(StageSteps(s))
  /\ \A x \in Streams : WF_vars(release_callback(x))
  /\ \A t \in Threads : WF_vars(StopSteps(t))
  /\ WF_vars(UserSteps)

Spec == Init /\ [][Next]_vars /\ Fairness

-----------------------------------------------------------------------------
Index(s) == 0 .. GetQueueSizes[s] - 1

Position == [SUPPORT |-> 1, CPU |-> 2, MIXED |-> 3, GPU |-> 4]

\* QueueIdxs filled by the stages up to s
IdxsUpTo(s) ==
  {idxs \in QueueIdxs :
     \A t \in Stages : idxs[t] \in IF Position[t] <= Position[s] THEN Index(t) ELSE {0}}

OutputIdxs == [mixed : Index("MIXED"), gpu : Index("GPU")]
ReleaseCommands ==
  {item \in [release : {"SUPPORT", "CPU"}, slot : Nat] : item.slot \in Index(item.release)}

Cvs == {ReadyCv(s) : s \in Stages} \cup {FreeCv(s) : s \in Stages} \cup {OutputCv}

FreeType == DOMAIN stage_free = Stages /\ \A s \in Stages : stage_free[s] \in Seq(Index(s))
ReadyType == DOMAIN stage_ready = Stages /\ \A s \in Stages : stage_ready[s] \in Seq(IdxsUpTo(s))
OutputType == ready_output_queue \in Seq(OutputIdxs) /\ in_use_queue \in Seq(OutputIdxs)

StopType ==
  /\ stage_free_stop \in [Stages -> BOOLEAN]
  /\ stage_ready_stop \in [Stages -> BOOLEAN]
  /\ ready_stop \in BOOLEAN
  /\ signal \in [Threads -> 0 .. 10]

CallbackType ==
  /\ DOMAIN commands = {"SUPPORT", "CPU"}
  /\ \A s \in {"SUPPORT", "CPU"} : commands[s] \in [Index(s) -> Int]
  /\ streams \in [Streams -> Seq(ReleaseCommands)]

\* what the thread of stage s holds when it is at point a
HeldAt(s, a, idxs) ==
  /\ idxs \in QueueIdxs
  /\ a = "ready" => HasPreviousStage(s)
  /\ a = "free" => IF HasPreviousStage(s) THEN idxs \in IdxsUpTo(PreviousStage[s])
                                          ELSE idxs = Fresh
  /\ a = "held" => idxs = Invalid \/ idxs \in IdxsUpTo(s)
  /\ a = "release" => s \in {"MIXED", "GPU"} /\ idxs \in IdxsUpTo(s)

HeldType ==
  /\ acq \in [Stages -> {"none", "ready", "free", "held", "release"}]
  /\ DOMAIN held = Stages
  /\ \A s \in Stages : HeldAt(s, acq[s], held[s])

UserType ==
  /\ user \in {"none", "use", "release"}
  /\ releasing \in [mixed : Int, gpu : Int]
  /\ user = "release" => releasing \in OutputIdxs

\* The types of the queues, and what a thread holds at each point of
\* AcquireIdxs and ReleaseIdxs: no index out of the range of its stage is ever
\* queued, and -1 is never passed on.
TypeOK ==
  /\ FreeType /\ ReadyType /\ OutputType /\ StopType /\ CallbackType /\ HeldType /\ UserType
  /\ asleep \subseteq Cvs

\* Mixed and GPU buffers stay in step: the index of the GPU stage's buffer is
\* the index of the MIXED stage's in everything the GPU stage acquires and in
\* every output handed to the user.  Both queues are independent, released in
\* two critical sections and waited for separately; AOT_WS_Policy
\* (workspace_policy.h) looks a GPU workspace up by the MIXED index alone, and
\* ShareOutputs waits for an event by the MIXED index that RunGPU recorded by the
\* GPU index.
GpuIsMixed ==
  /\ acq["GPU"] \in {"held", "release"} => held["GPU"]["GPU"] = held["GPU"]["MIXED"]
  /\ \A k \in DOMAIN ready_output_queue : ready_output_queue[k].gpu = ready_output_queue[k].mixed
  /\ \A k \in DOMAIN in_use_queue : in_use_queue[k].gpu = in_use_queue[k].mixed

\* The threads that own the index of stage s: from the moment they take it
\* until they pass it on.
Owners(s) ==
  {t \in Stages :
     CASE t = s -> acq[t] = "held" \/ (t = "MIXED" /\ acq[t] = "release")
       [] Position[t] > Position[s] ->
            IF s = "SUPPORT" THEN acq[t] \in {"free", "held", "release"}
            ELSE PreviousStage[t] = s /\ acq[t] \in {"free", "held"}
       [] OTHER -> FALSE} \ {t \in Stages : held[t] = Invalid}

\* The ready queues that own the indices of stage s stored in them.
OwningQueues(s) ==
  CASE s = "SUPPORT" -> Stages
    [] s = "CPU" -> {"CPU"}
    [] s = "MIXED" -> {"MIXED", "GPU"}
    [] OTHER -> {"GPU"}

OutputIdx(s, out) == IF s = "MIXED" THEN out.mixed ELSE out.gpu

\* Every place that holds an index of stage s, as <<kind, where, index>>.
Places(s) ==
  {<<"free", k, stage_free[s][k]>> : k \in DOMAIN stage_free[s]}
  \cup {<<"held", t, held[t][s]>> : t \in Owners(s)}
  \cup (UNION {{<<r, k, stage_ready[r][k][s]>> : k \in DOMAIN stage_ready[r]} :
                 r \in OwningQueues(s)})
  \cup (UNION {{<<x, k, streams[x][k].slot>> :
                  k \in {j \in DOMAIN streams[x] : streams[x][j].release = s}} : x \in Streams})
  \cup (IF s \in {"MIXED", "GPU"}
        THEN {<<"output", k, OutputIdx(s, ready_output_queue[k])>> :
                k \in DOMAIN ready_output_queue}
             \cup {<<"in_use", k, OutputIdx(s, in_use_queue[k])>> : k \in DOMAIN in_use_queue}
             \cup {<<"releasing", 1, releasing.gpu>> : k \in {j \in {1} : s = "GPU" /\ user = "release"}}
        ELSE {})

\* A buffer has one owner: no index of a stage is in two places at once, be it
\* free, held by a thread, ready, waiting for its callback or in use; and until
\* stop is signalled none is lost, so the queues never run dry for good.
IndicesConserved ==
  \A s \in Stages :
    /\ \A a, b \in Places(s) : a[3] = b[3] => a = b
    /\ ~Aborting => {a[3] : a \in Places(s)} = Index(s)

\* Once SignalStop is over nobody sleeps in AcquireIdxs or UseOutputIdxs, and
\* nobody will again: each flag is set under the mutex of its condition
\* variable, before NotifyAll, whatever the others do between these steps.
StopWakesAll == ready_stop /\ (\A t \in Threads : signal[t] = 0) => asleep = {}

=============================================================================

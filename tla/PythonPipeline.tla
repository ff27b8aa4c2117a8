--------------------------- MODULE PythonPipeline ---------------------------
(***************************************************************************)
(* The users of the executor with uniform queues: the class Pipeline of    *)
(* pipeline.py, its end of data, and the PyTorch iterator of               *)
(* plugin/pytorch.py, together with ExternalSource, the operator of the    *)
(* CPU stage by which iter_setup feeds data.                               *)
(*                                                                         *)
(* A call is the sequence todo of the steps it still has to take; the main *)
(* thread takes them, and between two of them the worker threads run.      *)
(***************************************************************************)
EXTENDS UniformExecutor

CONSTANT Samples   \* the samples of a batch, each copied by a thread of the pool

\* Beside the fields of UniformExecutor a scenario has the client, whether
\* iter_setup feeds an ExternalSource, how many batches it has in an epoch, how
\* many epochs the user asks for, and the arguments of the iterator.
ASSUME ClientAssumption ==
  /\ IsFiniteSet(Samples) /\ Samples # {}
  /\ \A s \in Scenarios :
       /\ s.client \in {"cpp", "run", "scheduled", "iterator"}
       /\ s.feeds \in BOOLEAN /\ s.epoch \in Nat /\ s.epochs \in Nat
       /\ s.feeds => s.client # "cpp"   \* only the Python class has an iter_setup
       /\ s.iter \in [size : Nat \ {0}, fill_last_batch : BOOLEAN, last_batch_padded : BOOLEAN,
                      auto_reset : BOOLEAN]

VARIABLES
  todo,                              \* the steps left of the call in progress
  batches_to_consume, cpu_batches_to_consume, gpu_batches_to_consume,
  first_iter, last_iter,
  produced, fed,                     \* batches of iter_setup, in this epoch and in all
  ended, epochs,                     \* StopIteration has reached the user; how often
  counter, first_batch, entries,     \* of the iterator; entries it has returned
  busy, data,                        \* busy_ of ExternalSource and the batch it holds
  copied, uncounted, samples_processed,
  content                            \* index -> sample -> batch whose data was copied

pipe == <<todo, batches_to_consume, cpu_batches_to_consume, gpu_batches_to_consume, first_iter,
          last_iter, produced, fed, ended, epochs, counter, first_batch, entries>>
source == <<busy, data, copied, uncounted, samples_processed, content>>

PyInit ==
  /\ Init
  /\ todo = <<>>
  /\ batches_to_consume = 0 /\ cpu_batches_to_consume = 0 /\ gpu_batches_to_consume = 0
  /\ first_iter = TRUE /\ last_iter = FALSE
  /\ produced = 0 /\ fed = 0 /\ ended = FALSE /\ epochs = 0
  /\ counter = 0 /\ first_batch = FALSE /\ entries = 0
  /\ busy = FALSE /\ data = 0 /\ copied = {} /\ uncounted = {} /\ samples_processed = 0
  /\ content = [i \in 0 .. Depth - 1 |-> [s \in Samples |-> 0]]

-----------------------------------------------------------------------------
(* ExternalSource *)

\* SetDataSource waits for ~busy_.  The flag is cleared under busy_m_, so the
\* notification cannot be lost, and the wait is a guard.
SetDataSource ==
  /\ ~busy
  /\ busy' = TRUE /\ data' = fed + 1
  /\ UNCHANGED <<copied, uncounted, samples_processed, content>>

AtSource == scenario.feeds /\ pc["cpu"] = "run" /\ at["cpu"] = "CPU"

\* RunImpl for one sample: the copy, without a lock ...
CopySample(s) ==
  /\ AtSource /\ s \notin copied
  /\ content' = [content EXCEPT ![idx["cpu"]][s] = data]
  /\ copied' = copied \union {s} /\ uncounted' = uncounted \union {s}
  /\ UNCHANGED <<busy, data, samples_processed, pipe, vars>>

\* mutant: every sample frees the source
CountSampleFrees(s) ==
  /\ s \in uncounted
  /\ uncounted' = uncounted \ {s} /\ busy' = FALSE
  /\ samples_processed' = (samples_processed + 1) % Cardinality(Samples)
  /\ UNCHANGED <<data, copied, content, pipe, vars>>

\* mutant: the last sample is missed by one
CountSampleMissesLast(s) ==
  /\ s \in uncounted
  /\ uncounted' = uncounted \ {s}
  /\ IF samples_processed + 1 > Cardinality(Samples)
     THEN samples_processed' = 0 /\ busy' = FALSE
     ELSE samples_processed' = samples_processed + 1 /\ UNCHANGED busy
  /\ UNCHANGED <<data, copied, content, pipe, vars>>

\* ... then the count, whose last one frees the source.
CountSample(s) ==
  /\ s \in uncounted
  /\ uncounted' = uncounted \ {s}
  /\ IF samples_processed + 1 >= Cardinality(Samples)
     THEN samples_processed' = 0 /\ busy' = FALSE
     ELSE samples_processed' = samples_processed + 1 /\ UNCHANGED busy
  /\ UNCHANGED <<data, copied, content, pipe, vars>>

\* A step of a worker thread of the executor.  The operators of the CPU stage
\* end when each sample has been through ExternalSource, or an operator before
\* it has failed.
ExecutorStep(w) ==
  /\ WorkerStep(w)
  /\ IF w = "cpu" /\ AtSource
     THEN /\ (copied = Samples /\ uncounted = {}) \/ (copied = {} /\ pc'[w] = "error")
          /\ copied' = {}
     ELSE UNCHANGED copied
  /\ UNCHANGED <<busy, data, uncounted, samples_processed, content, pipe>>

-----------------------------------------------------------------------------
(* Pipeline *)

Step(name) == main = "api" /\ todo # <<>> /\ Head(todo) = name

RunOnce == <<"iter_setup", "run_cpu", "run_gpu">>

\* _prefetch
Prefetch ==
  [i \in 1 .. 3 * Depth |-> RunOnce[((i - 1) % 3) + 1]] \o <<"prefetched">>

\* schedule_run of a pipelined, asynchronous pipeline
ScheduleRun == IF first_iter THEN Prefetch ELSE RunOnce

\* iter_setup of the user, which feeds a batch or raises StopIteration; that
\* ends _run_once and the data.
IterSetup ==
  /\ Step("iter_setup")
  /\ \/ /\ last_iter
        /\ todo' = Tail(todo)
        /\ UNCHANGED <<last_iter, produced, fed, batches_to_consume, source>>
     \/ /\ ~last_iter /\ scenario.feeds /\ produced = scenario.epoch
        /\ last_iter' = TRUE /\ produced' = 0
        /\ todo' = Tail(Tail(Tail(todo)))   \* without its _run_cpu and _run_gpu
        /\ UNCHANGED <<fed, batches_to_consume, source>>
     \/ /\ ~last_iter /\ (scenario.feeds => produced < scenario.epoch)
        /\ IF scenario.feeds THEN SetDataSource ELSE UNCHANGED source
        /\ produced' = produced + 1 /\ fed' = fed + 1
        /\ batches_to_consume' = batches_to_consume + 1
        /\ todo' = Tail(todo) /\ UNCHANGED last_iter
  /\ UNCHANGED <<cpu_batches_to_consume, gpu_batches_to_consume, first_iter, ended, epochs,
                 counter, first_batch, entries, vars>>

\* _run_cpu
RunCPU ==
  /\ Step("run_cpu")
  /\ todo' = Tail(todo)
  /\ IF last_iter THEN UNCHANGED <<cpu_batches_to_consume, vars>>
     ELSE ScheduleCPU /\ cpu_batches_to_consume' = cpu_batches_to_consume + 1
  /\ UNCHANGED <<batches_to_consume, gpu_batches_to_consume, first_iter, last_iter, produced, fed,
                 ended, epochs, counter, first_batch, entries, source>>

\* mutant: the GPU part is run whether or not there is a batch for it
RunGPUAlways ==
  /\ Step("run_gpu")
  /\ todo' = Tail(todo) /\ ScheduleGPU
  /\ cpu_batches_to_consume' = cpu_batches_to_consume - 1
  /\ gpu_batches_to_consume' = gpu_batches_to_consume + 1
  /\ UNCHANGED <<batches_to_consume, first_iter, last_iter, produced, fed, ended, epochs, counter,
                 first_batch, entries, source>>

\* _run_gpu
RunGPU ==
  /\ Step("run_gpu")
  /\ todo' = Tail(todo)
  /\ IF cpu_batches_to_consume = 0
     THEN UNCHANGED <<cpu_batches_to_consume, gpu_batches_to_consume, vars>>
     ELSE /\ ScheduleGPU
          /\ cpu_batches_to_consume' = cpu_batches_to_consume - 1
          /\ gpu_batches_to_consume' = gpu_batches_to_consume + 1
  /\ UNCHANGED <<batches_to_consume, first_iter, last_iter, produced, fed, ended, epochs, counter,
                 first_batch, entries, source>>

Prefetched ==
  /\ Step("prefetched")
  /\ todo' = Tail(todo) /\ first_iter' = FALSE
  /\ UNCHANGED <<batches_to_consume, cpu_batches_to_consume, gpu_batches_to_consume, last_iter,
                 produced, fed, ended, epochs, counter, first_batch, entries, source, vars>>

\* mutant: no more outputs once iter_setup has raised StopIteration
CanConsumeNotLast == ~last_iter /\ batches_to_consume # 0 /\ gpu_batches_to_consume # 0

CanConsume == batches_to_consume # 0 /\ gpu_batches_to_consume # 0

\* outputs and share_outputs, which raise StopIteration when nothing is scheduled
Consume ==
  /\ Step("outputs") \/ Step("share_outputs")
  /\ IF CanConsume
     THEN /\ todo' = (IF Head(todo) = "outputs" THEN <<"release_outputs", "share">>
                      ELSE <<"share">>) \o Tail(todo)
          /\ batches_to_consume' = batches_to_consume - 1
          /\ gpu_batches_to_consume' = gpu_batches_to_consume - 1
          /\ UNCHANGED <<ended, epochs>>
     ELSE /\ todo' = <<>> /\ ended' = TRUE /\ epochs' = epochs + 1
          /\ UNCHANGED <<batches_to_consume, gpu_batches_to_consume>>
  /\ UNCHANGED <<cpu_batches_to_consume, first_iter, last_iter, produced, fed, counter,
                 first_batch, entries, source, vars>>

\* The calls of the executor; what follows ShareOutputs is MainStep.
PipeRelease ==
  /\ Step("release_outputs")
  /\ todo' = Tail(todo)
  /\ IF in_use_queue = <<>> THEN UNCHANGED vars ELSE ReleaseOutputs
  /\ UNCHANGED <<batches_to_consume, cpu_batches_to_consume, gpu_batches_to_consume, first_iter,
                 last_iter, produced, fed, ended, epochs, counter, first_batch, entries, source>>

PipeShare ==
  /\ Step("share")
  /\ todo' = Tail(todo) /\ ShareOutputs
  /\ UNCHANGED <<batches_to_consume, cpu_batches_to_consume, gpu_batches_to_consume, first_iter,
                 last_iter, produced, fed, ended, epochs, counter, first_batch, entries, source>>

-----------------------------------------------------------------------------
(* The iterator *)

iter == scenario.iter
step == Cardinality(Samples)   \* num_gpus * batch_size, for one GPU

\* The entries of the batch that brings the counter to c.
Returned(c) ==
  IF ~iter.fill_last_batch /\ c > iter.size THEN step - (c - iter.size) ELSE step

\* The end of __next__, and of __init__, which keeps the batch.
CountBatch ==
  /\ Step("count") \/ Step("count_first")
  /\ todo' = Tail(todo)
  /\ counter' = counter + step
  /\ entries' = entries + Returned(counter + step)
  /\ first_batch' = (Head(todo) = "count_first")
  /\ UNCHANGED <<batches_to_consume, cpu_batches_to_consume, gpu_batches_to_consume, first_iter,
                 last_iter, produced, fed, ended, epochs, source, vars>>

\* StopIteration raised by __next__ itself.
RaiseStop ==
  /\ Step("stop")
  /\ todo' = <<>> /\ ended' = TRUE /\ epochs' = epochs + 1
  /\ UNCHANGED <<batches_to_consume, cpu_batches_to_consume, gpu_batches_to_consume, first_iter,
                 last_iter, produced, fed, counter, first_batch, entries, source, vars>>

\* Pipeline.reset
Reset == first_iter' = (first_iter \/ last_iter) /\ last_iter' = FALSE


\* reset of the iterator: only after a full epoch; a pipeline that has nothing
\* left is scheduled again
IterReset(rest) ==
  /\ IF counter >= iter.size
     THEN /\ Reset
          /\ counter' = IF iter.fill_last_batch /\ ~iter.last_batch_padded
                        THEN counter % iter.size ELSE 0
          /\ todo' = (IF batches_to_consume # 0 THEN <<>>
                      ELSE IF first_iter' THEN Prefetch ELSE RunOnce) \o rest
     ELSE todo' = rest /\ UNCHANGED <<first_iter, last_iter, counter>>

-----------------------------------------------------------------------------
(* The calls of the user *)

Idle == todo = <<>> /\ main = "api"

calls == <<batches_to_consume, cpu_batches_to_consume, gpu_batches_to_consume, produced, fed,
           epochs, entries>>

CallRun ==
  /\ scenario.client = "run" /\ Idle /\ ~ended
  /\ todo' = ScheduleRun \o <<"outputs">>
  /\ UNCHANGED <<calls, first_iter, last_iter, ended, counter, first_batch>>

\* The user of schedule_run keeps at most one batch more in flight than there
\* are buffers, and does not ask for an output while holding all of them.
CallScheduled ==
  /\ scenario.client = "scheduled" /\ Idle /\ ~ended
  /\ \/ /\ fed - released + (IF first_iter THEN Depth ELSE 1) <= Depth + 1
        /\ todo' = ScheduleRun
     \/ /\ CanConsume \/ last_iter
        /\ Len(in_use_queue) < Depth
        /\ todo' \in {<<"share_outputs">>, <<"outputs">>}
     \/ /\ in_use_queue # <<>>
        /\ todo' = <<"release_outputs">>
  /\ UNCHANGED <<calls, first_iter, last_iter, ended, counter, first_batch>>

\* DALIGenericIterator.__init__
IterInit ==
  /\ scenario.client = "iterator" /\ Idle /\ fed = 0
  /\ todo' = Prefetch \o <<"share_outputs", "release_outputs">> \o RunOnce \o <<"count_first">>
  /\ UNCHANGED <<calls, first_iter, last_iter, ended, counter, first_batch>>

IterNext ==
  /\ scenario.client = "iterator" /\ Idle /\ fed > 0 /\ ~ended
  /\ first_batch' = FALSE
  /\ CASE first_batch -> UNCHANGED <<todo, first_iter, last_iter, counter>>
       [] ~first_batch /\ counter >= iter.size ->
            IF iter.auto_reset THEN IterReset(<<"stop">>)
            ELSE todo' = <<"stop">> /\ UNCHANGED <<first_iter, last_iter, counter>>
       [] OTHER ->
            /\ todo' = <<"share_outputs", "release_outputs">> \o ScheduleRun \o <<"count">>
            /\ UNCHANGED <<first_iter, last_iter, counter>>
  /\ UNCHANGED <<calls, ended>>

\* After StopIteration the user resets the pipeline or the iterator.
NextEpoch ==
  /\ Idle /\ ended /\ epochs < scenario.epochs
  /\ ended' = FALSE
  /\ CASE scenario.client # "iterator" -> Reset /\ UNCHANGED <<todo, counter>>
       [] scenario.client = "iterator" /\ ~iter.auto_reset -> IterReset(<<>>)
       [] OTHER -> UNCHANGED <<todo, first_iter, last_iter, counter>>
  /\ UNCHANGED <<calls, first_batch>>

-----------------------------------------------------------------------------
PipelineStep ==
  \/ IterSetup \/ RunCPU \/ RunGPU \/ Prefetched \/ Consume \/ PipeRelease \/ PipeShare
  \/ CountBatch \/ RaiseStop

PythonCall == CallRun \/ CallScheduled \/ IterInit \/ IterNext \/ NextEpoch

SourceStep == \E s \in Samples : CopySample(s) \/ CountSample(s)

Unconcerned == UNCHANGED <<pipe, source>>

all == <<vars, pipe, source>>

WorkerThread(w) == ExecutorStep(w) \/ (SignalStop(w) /\ Unconcerned)

MainThread == PipelineStep \/ ((MainStep \/ SignalStop("main")) /\ Unconcerned)

ThreadStep == MainThread \/ SourceStep \/ \E w \in Workers : WorkerThread(w)

PyNext ==
  /\ \/ ThreadStep
     \/ scenario.client = "cpp" /\ UserCall /\ cpu_runs' <= scenario.runs /\ Unconcerned
     \/ PythonCall /\ UNCHANGED <<vars, source>>
  /\ UNCHANGED scenario

\* As long as some thread can go on, some thread does; which calls the user
\* makes is open.  This is less than fairness of each thread.
PySpec == PyInit /\ [][PyNext]_<<all, scenario>> /\ WF_all(ThreadStep)

-----------------------------------------------------------------------------
\* The k-th output the user holds is the batch iter_setup fed in the k-th place
\* after those released, in every sample: feed_input for the next batch never
\* overtakes the threads that still copy the last one (busy_ of ExternalSource),
\* and the index carries the copy through all stages.
FedDataDelivered ==
  scenario.feeds =>
    \A k \in DOMAIN in_use_queue : \A s \in Samples : content[in_use_queue[k]][s] = released + k

\* Whatever the user of the Python interface calls, the executor sees a user who
\* keeps to its rules (UserCall): RunGPU only for a batch given to RunCPU, and
\* ShareOutputs only for a batch given to RunGPU while a buffer is left, across
\* the end of the data and the reset.  The counters of Pipeline see to that.
KeepsToTheRules == [][Next]_<<vars, scenario>>

\* When StopIteration reaches the user, the user has got every batch of every
\* epoch so far, those prefetched when iter_setup raised it included, and no
\* other (test_iter_setup and check_stop_iter count them).
EpochDelivered == scenario.feeds /\ ended => shared = epochs * scenario.epoch


\* ShareOutputs for a scheduled batch returns, with the output or an exception,
\* whatever stage fails, and so does every call of the Python interface.  The one
\* exception: when a stage fails before ExternalSource has taken its data, busy_
\* stays set and the next feed_input waits for ever.
CallReturns ==
  [](main = "use" \/ todo # <<>> =>
       <>(Idle \/ main = "thrown" \/ [](Step("iter_setup") /\ busy /\ exec_error)))

=============================================================================

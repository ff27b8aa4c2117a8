---------------------------- MODULE CachedDecoder ----------------------------
(***************************************************************************)
(* nvJPEGDecoder::Run (decoupled API): an operator of the mixed stage that *)
(* decodes a batch with its own threads, one CUDA stream each, and takes   *)
(* the images that are in the cache from there, on the workspace's stream. *)
(*                                                                         *)
(* The calls only put work on streams; StreamStep executes it later, in    *)
(* order on a stream, in any order between streams, and a batch may start  *)
(* while work of the batch before is still pending.  Each batch has its    *)
(* own output buffer: the executor hands one out again only when its       *)
(* readers are done.                                                       *)
(***************************************************************************)
EXTENDS ImageCache, TLC

CONSTANTS
  Kind,        \* image -> "jpeg", "host": no image info from nvJPEG, "late": found out later
  Scenarios    \* [policy: which cache, batches: sequence of batches, each a sequence of images]

ASSUME DecoderAssumption ==
  /\ 0 \notin Images /\ Kind \in [Images -> {"jpeg", "host", "late"}]
  /\ \A s \in Scenarios :
       /\ s.policy \in Policies
       /\ s.batches # <<>> /\ Len(s.batches[1]) \in Nat \ {0}
       /\ s.batches \in Seq([1 .. Len(s.batches[1]) -> Images])

VARIABLES
  scenario,
  main,                 \* where Run is
  batch_number,
  output_info,          \* sample -> [image, nvjpeg_support], kept from batch to batch
  order,                \* samples ProcessImages still has to look at
  deferred,             \* samples to be copied from the cache
  work,                 \* queue of the thread pool
  step, sample,         \* thread -> where it is with which sample
  page, pinned,         \* thread -> its page; contents of its two pinned buffers
  stream,               \* thread or "ws" -> pending work
  mem, out,             \* image -> its bytes in the cache; batch -> sample -> bytes
  finished              \* batches whose event was reached on the workspace's stream

hostVars == <<main, batch_number, output_info, order, deferred, work, step, sample, page>>
deviceVars == <<pinned, stream, mem, out, finished>>
vars == <<cacheVars, scenario, hostVars, deviceVars>>

Garbage == 0
Batch(b) == scenario.batches[b]
batch == Batch(batch_number)
Samples == 1 .. Len(scenario.batches[1])
Streams == Adders \cup {"ws"}
Enqueue(s, item) == stream' = [stream EXCEPT ![s] = Append(@, item)]
Pending(s, ops) == \E k \in DOMAIN stream[s] : stream[s][k].op \in ops

Init ==
  /\ CacheInit
  /\ scenario \in Scenarios /\ policy = scenario.policy
  /\ main = "api" /\ batch_number = 0
  /\ output_info = [i \in Samples |-> [image |-> Garbage, nvjpeg_support |-> FALSE]]
  /\ order = <<>> /\ deferred = {} /\ work = <<>>
  /\ step = [t \in Adders |-> "idle"] /\ sample = [t \in Adders |-> 1]
  /\ page = [t \in Adders |-> 0] /\ pinned = [t \in Adders |-> [p \in {0, 1} |-> Garbage]]
  /\ stream = [s \in Streams |-> <<>>]
  /\ mem = [x \in Images |-> Garbage]
  /\ out = [b \in DOMAIN scenario.batches |-> [i \in Samples |-> Garbage]]
  /\ finished = 0

-----------------------------------------------------------------------------
(* The thread that calls Run *)

\* Run: the information on the images that are not in the cache, and the order in
\* which ProcessImages takes the samples, the largest first
ParseImagesInfo ==
  /\ main = "api" /\ batch_number < Len(scenario.batches)
  /\ batch_number' = batch_number + 1 /\ main' = "process"
  /\ LET in == Batch(batch_number + 1)
         Before(i, j) == Size[in[i]] > Size[in[j]] \/ (Size[in[i]] = Size[in[j]] /\ i > j)
     IN /\ output_info' =
             [i \in Samples |->
                IF IsCached(in[i]) THEN output_info[i]
                ELSE [image |-> in[i], nvjpeg_support |-> Kind[in[i]] # "host"]]
        /\ order' \in {o \in [Samples -> Samples] : \A j, k \in Samples : j < k => Before(o[j], o[k])}
  /\ UNCHANGED <<cacheVars, scenario, deferred, work, step, sample, page, deviceVars>>

\* DeferCacheLoad or, if the image is not there, work for the threads
ProcessImage ==
  /\ main = "process" /\ order # <<>> /\ Unlocked
  /\ order' = Tail(order)
  /\ IF IsCached(batch[Head(order)])
     THEN deferred' = deferred \cup {Head(order)} /\ UNCHANGED work
     ELSE work' = Append(work, Head(order)) /\ UNCHANGED deferred
  /\ UNCHANGED <<cacheVars, scenario, main, batch_number, output_info, step, sample, page, deviceVars>>

\* The copies from the cache, all on the workspace's stream
LoadDeferred ==
  /\ main = "process" /\ order = <<>>
  /\ Enqueue("ws", [op |-> "load", b |-> batch_number, samples |-> deferred])
  /\ deferred' = {} /\ main' = "wait"
  /\ UNCHANGED <<cacheVars, scenario, batch_number, output_info, order, work, step, sample, page,
                 pinned, mem, out, finished>>

\* WaitForWork, the events of all threads' streams, and the executor's own
WaitForWork ==
  /\ main = "wait" /\ work = <<>> /\ \A t \in Adders : step[t] = "idle"
  /\ main' = "api"
  /\ stream' =
       [s \in Streams |->
          stream[s] \o
          IF s = "ws"
          THEN Append(SetToSeq({[op |-> "wait", b |-> batch_number, thread |-> t] : t \in Adders}),
                      [op |-> "event", b |-> batch_number])
          ELSE <<[op |-> "end", b |-> batch_number]>>]
  /\ UNCHANGED <<cacheVars, scenario, batch_number, output_info, order, deferred, work, step, sample,
                 page, pinned, mem, out, finished>>

-----------------------------------------------------------------------------
(* A thread of the decoder's pool *)

At(t, s) == step' = [step EXCEPT ![t] = s]

TakeWork(t) ==
  /\ step[t] = "idle" /\ work # <<>>
  /\ sample' = [sample EXCEPT ![t] = Head(work)] /\ work' = Tail(work)
  /\ At(t, "decode")
  /\ UNCHANGED <<cacheVars, scenario, main, batch_number, output_info, order, deferred, page, deviceVars>>

HostFallback(t) ==
  Enqueue(t, [op |-> "host", b |-> batch_number, i |-> sample[t]])

\* SampleWorker up to nvjpegDecodeJpegHost, which fills a pinned buffer, or the
\* fallback to the host decoder
SampleWorkerHost(t) ==
  /\ step[t] = "decode"
  /\ LET i == sample[t]
         info == output_info[i]
     IN \/ /\ ~info.nvjpeg_support
           /\ HostFallback(t) /\ At(t, "store")
           /\ UNCHANGED <<output_info, page, pinned>>
        \/ /\ info.nvjpeg_support
           /\ page' = [page EXCEPT ![t] = 1 - @]
           /\ pinned' = [pinned EXCEPT ![t][page[t]] = batch[i]]
           /\ \/ /\ Kind[batch[i]] = "late"
                 /\ output_info' = [output_info EXCEPT ![i].nvjpeg_support = FALSE]
                 /\ HostFallback(t) /\ At(t, "store")
              \/ Kind[batch[i]] # "late" /\ At(t, "device") /\ UNCHANGED <<output_info, stream>>
  /\ UNCHANGED <<cacheVars, scenario, main, batch_number, order, deferred, work, sample, mem, out, finished>>

\* mutant: without cudaEventSynchronize
SampleWorkerDeviceNoSync(t) ==
  /\ step[t] = "device"
  /\ Enqueue(t, [op |-> "decode", b |-> batch_number, i |-> sample[t], page |-> 1 - page[t]])
  /\ At(t, "store")
  /\ UNCHANGED <<cacheVars, scenario, main, batch_number, output_info, order, deferred, work, sample,
                 page, pinned, mem, out, finished>>

\* the rest of SampleWorker: the event last recorded on the thread's stream,
\* then transfer and decoding from the pinned buffer, then the event again
SampleWorkerDevice(t) ==
  /\ step[t] = "device" /\ ~Pending(t, {"decode", "end"})
  /\ Enqueue(t, [op |-> "decode", b |-> batch_number, i |-> sample[t], page |-> 1 - page[t]])
  /\ At(t, "store")
  /\ UNCHANGED <<cacheVars, scenario, main, batch_number, output_info, order, deferred, work, sample,
                 page, pinned, mem, out, finished>>

CacheStore(t) ==
  /\ step[t] = "store" /\ Unlocked
  /\ IF IsCached(batch[sample[t]])
     THEN At(t, "idle") /\ UNCHANGED cacheVars
     ELSE At(t, "add") /\ Add(t, batch[sample[t]]) /\ UNCHANGED <<policy, cache, tail, largestVars>>
  /\ UNCHANGED <<scenario, main, batch_number, output_info, order, deferred, work, sample, page, deviceVars>>

\* Add, which copies the output to the cache on the thread's stream
CacheAdd(t) ==
  /\ step[t] = "add" /\ AddStep(t)
  /\ IF at'[t] = "stored"
     THEN Enqueue(t, [op |-> "store", b |-> batch_number, i |-> sample[t]])
     ELSE UNCHANGED stream
  /\ UNCHANGED <<scenario, hostVars, pinned, mem, out, finished>>

AddReturns(t) ==
  /\ step[t] = "add" /\ at[t] \in {"added", "stored"}
  /\ Goto(t, "idle") /\ At(t, "idle")
  /\ UNCHANGED <<policy, cache, tail, largestVars, image, scenario, main, batch_number, output_info,
                 order, deferred, work, sample, page, deviceVars>>

-----------------------------------------------------------------------------
(* The device *)

\* The first item of a stream is executed
StreamStep(s) ==
  /\ stream[s] # <<>>
  /\ LET item == Head(stream[s])
         b == item.b
     IN \/ item.op = "decode" /\ out' = [out EXCEPT ![b][item.i] = pinned[s][item.page]]
           /\ UNCHANGED <<mem, finished>>
        \/ item.op = "host" /\ out' = [out EXCEPT ![b][item.i] = Batch(b)[item.i]]
           /\ UNCHANGED <<mem, finished>>
        \/ item.op = "store" /\ mem' = [mem EXCEPT ![Batch(b)[item.i]] = out[b][item.i]]
           /\ UNCHANGED <<out, finished>>
        \/ item.op = "load"
           /\ out' = [out EXCEPT ![b] = [i \in Samples |-> IF i \in item.samples THEN mem[Batch(b)[i]] ELSE @[i]]]
           /\ UNCHANGED <<mem, finished>>
        \/ item.op = "wait" /\ [op |-> "end", b |-> b] \notin Range(stream[item.thread])
           /\ UNCHANGED <<mem, out, finished>>
        \/ item.op = "end" /\ UNCHANGED <<mem, out, finished>>
        \/ item.op = "event" /\ finished' = b /\ UNCHANGED <<mem, out>>
  /\ stream' = [stream EXCEPT ![s] = Tail(@)]
  /\ UNCHANGED <<cacheVars, scenario, hostVars, pinned>>

Next ==
  \/ ParseImagesInfo \/ ProcessImage \/ LoadDeferred \/ WaitForWork
  \/ \E t \in Adders : \/ TakeWork(t) \/ SampleWorkerHost(t) \/ SampleWorkerDevice(t)
                       \/ CacheStore(t) \/ CacheAdd(t) \/ AddReturns(t)
  \/ \E s \in Streams : StreamStep(s)

Spec == Init /\ [][Next]_vars

-----------------------------------------------------------------------------
\* What ParseImagesInfo found in the cache is there when ProcessImages asks for
\* it: no sample is decoded with the information on an image of an earlier batch.
DecodeHasInfo ==
  \A t \in Adders : step[t] = "decode" => output_info[sample[t]].image = batch[sample[t]]

\* When the event of a batch of different files is reached on the workspace's
\* stream, each output is the image of its own file: decoded into the output
\* before its pinned buffer is filled again, or copied from the cache after the
\* batch that stored it did so.  Not so for every scenario: an image of kind "late"
\* between two others on one thread takes a page without waiting for the event, and
\* the third sample may refill the pinned buffer of the first before its transfer.
OutputsDecoded ==
  \A b \in 1 .. finished : IsInjective(Batch(b)) => out[b] = Batch(b)

\* "cached and non-cached images differ" never (test_nvjpeg_cache.py:36): the same
\* of every batch, files that come twice in it included.
CachedSameAsDecoded == \A b \in 1 .. finished : out[b] = Batch(b)

=============================================================================

-------------------------- MODULE CachedDecoderProofs --------------------------
(* Proofs about the image cache and the decoder that uses it, for all images,  *)
(* sizes, batches, numbers of threads and sizes of the cache.                  *)
EXTENDS CachedDecoder, TLAPS

USE Zenon  \* the prover of every leaf that names none

-----------------------------------------------------------------------------
(* The cache, whoever adds to it *)

Adding == {"add", "rebuild", "check", "blob"}

CacheType ==
  /\ at \in [Adders -> Positions] /\ image \in [Adders -> Nat]
  /\ \A t \in Adders : at[t] \in Adding => image[t] \in Images
  /\ DOMAIN cache \subseteq Images
  /\ cache = [x \in DOMAIN cache |-> cache[x]] /\ \A x \in DOMAIN cache : cache[x] \in Nat
  /\ tail \in Nat

CacheInv == CacheType /\ SlotsDisjoint

\* At first the cache is empty.
LEMMA CacheInvInit == CacheInit => CacheInv
<1> SUFFICES ASSUME CacheInit PROVE CacheInv
  OBVIOUS
<1>1. DOMAIN cache = {} /\ cache = [x \in DOMAIN cache |-> cache[x]]
  BY SMT DEF CacheInit
<1>2. CacheType
  BY <1>1 DEF CacheInit, CacheType, Positions, Adding
<1>3. SlotsDisjoint
  BY <1>1, CacheAssumption, SMTT(30) DEF CacheInit, SlotsDisjoint
<1> QED BY <1>2, <1>3 DEF CacheInv

\* A new entry starts at the tail, behind all others, and ends within the buffer.
LEMMA BlobAddKeeps ==
  ASSUME CacheInv, NEW t \in Adders, BlobAdd(t)
  PROVE  CacheInv'
<1> USE DEF CacheInv
<1> DEFINE x == image[t]
<1>1. x \in Images /\ Size[x] \in Nat \ {0}
  BY CacheAssumption DEF BlobAdd, CacheType, Adding
<1>2. at' \in [Adders -> Positions] /\ image' = image
      /\ \A u \in Adders : at'[u] \in Adding => at[u] \in Adding
  BY DEF BlobAdd, Goto, CacheType, Positions, Adding
<1>3. CASE cache' = cache /\ tail' = tail
  BY <1>2, <1>3 DEF CacheType, SlotsDisjoint
<1>4. CASE ~Rejects(x) /\ cache' = Entry(x) /\ tail' = tail + Size[x]
  <2>1. x \notin DOMAIN cache /\ tail + Size[x] <= CacheSize
    BY <1>1, <1>4, CacheAssumption, SMTT(30) DEF Rejects, IsCached, bytes_left, CacheType
  <2>2. /\ DOMAIN cache' = DOMAIN cache \cup {x} /\ cache'[x] = tail
        /\ \A y \in DOMAIN cache : cache'[y] = cache[y]
        /\ cache' = [y \in DOMAIN cache' |-> cache'[y]]
    BY <1>4, <2>1 DEF Entry
  <2>3. CacheType'
    BY <1>1, <1>2, <1>4, <2>2, SMTT(30) DEF CacheType
  <2>4. tail' \in Nat /\ tail' <= CacheSize /\ tail \in Nat
    BY <1>1, <1>4, <2>1, SMTT(30) DEF CacheType
  <2>5. \A y \in DOMAIN cache : Size[y] \in Nat /\ cache[y] \in Nat /\ cache[y] + Size[y] <= tail
    BY CacheAssumption DEF CacheType, SlotsDisjoint
  <2>6. \A y \in DOMAIN cache' : cache'[y] + Size[y] <= tail'
    BY <1>1, <1>4, <2>2, <2>4, <2>5, SMTT(60)
  <2>7. ASSUME NEW y \in DOMAIN cache', NEW z \in DOMAIN cache', y # z
        PROVE  cache'[y] + Size[y] <= cache'[z] \/ cache'[z] + Size[z] <= cache'[y]
    <3>1. CASE y = x
      BY <2>2, <2>5, <2>7, <3>1, ZenonT(40)
    <3>2. CASE z = x
      BY <2>2, <2>5, <2>7, <3>2, ZenonT(40)
    <3>3. CASE y \in DOMAIN cache /\ z \in DOMAIN cache
      BY <2>2, <2>7, <3>3 DEF SlotsDisjoint
    <3> QED BY <2>2, <3>1, <3>2, <3>3, SMTT(30)
  <2> QED BY <2>3, <2>4, <2>6, <2>7, ZenonT(40) DEF SlotsDisjoint
<1> QED BY <1>3, <1>4 DEF BlobAdd

\* The other steps only move a thread on, with an image it has been called with.
LEMMA OthersKeep ==
  ASSUME CacheInv, UNCHANGED <<cache, tail>>, at' \in [Adders -> Positions], image' \in [Adders -> Nat],
         \A t \in Adders : at'[t] \in Adding => image'[t] \in Images
  PROVE  CacheInv'
BY DEF CacheInv, CacheType, SlotsDisjoint

\* No step of Add makes two images overlap, whichever cache it is.
LEMMA AddStepKeeps ==
  ASSUME CacheInv, NEW t \in Adders, AddStep(t)
  PROVE  CacheInv'
<1>1. CASE LargestAdd(t)
  <2>1. /\ at' \in [Adders -> Positions] /\ image' = image /\ UNCHANGED <<cache, tail>>
        /\ \A u \in Adders : at'[u] \in Adding => at[u] \in Adding
    BY <1>1, ZenonT(40) DEF LargestAdd, Goto, CacheInv, CacheType, Positions, Adding
  <2> QED BY <2>1, OthersKeep DEF CacheInv, CacheType
<1>2. CASE LargestRebuild(t)
  <2>1. /\ at' \in [Adders -> Positions] /\ image' = image /\ UNCHANGED <<cache, tail>>
        /\ \A u \in Adders : at'[u] \in Adding => at[u] \in Adding
    BY <1>2, ZenonT(40) DEF LargestRebuild, Goto, CacheInv, CacheType, Positions, Adding
  <2> QED BY <2>1, OthersKeep DEF CacheInv, CacheType
<1>3. CASE LargestCheck(t)
  <2>1. /\ at' \in [Adders -> Positions] /\ image' = image /\ UNCHANGED <<cache, tail>>
        /\ \A u \in Adders : at'[u] \in Adding => at[u] \in Adding
    BY <1>3 DEF LargestCheck, Goto, CacheInv, CacheType, Positions, Adding
  <2> QED BY <2>1, OthersKeep DEF CacheInv, CacheType
<1>4. CASE BlobAdd(t)
  BY <1>4, BlobAddKeeps
<1> QED BY <1>1, <1>2, <1>3, <1>4, ZenonT(40) DEF AddStep

\* Nor does any step of the cache and its clients.
LEMMA CacheInvInductive == CacheInv /\ [CacheNext]_cacheVars => CacheInv'
<1> SUFFICES ASSUME CacheInv, [CacheNext]_cacheVars PROVE CacheInv'
  OBVIOUS
<1>1. CASE UNCHANGED cacheVars
  BY <1>1 DEF cacheVars, CacheInv, CacheType, SlotsDisjoint
<1>2. ASSUME NEW t \in Adders, AddStep(t) PROVE CacheInv'
  BY <1>2, AddStepKeeps
<1>3. ASSUME NEW t \in Adders, NEW x \in Images, Add(t, x), UNCHANGED <<policy, cache, tail, largestVars>>
      PROVE  CacheInv'
  <2>1. x \in Nat
    BY CacheAssumption
  <2>2. /\ at' \in [Adders -> Positions] /\ image' \in [Adders -> Nat]
        /\ \A u \in Adders : at'[u] \in Adding => image'[u] \in Images
    BY <1>3, <2>1 DEF Add, Goto, CacheInv, CacheType, Positions, Adding
  <2> QED BY <1>3, <2>2, OthersKeep
<1>4. ASSUME NEW t \in Adders, Goto(t, "idle"), UNCHANGED <<policy, cache, tail, largestVars, image>>
      PROVE  CacheInv'
  <2>1. /\ at' \in [Adders -> Positions] /\ image' \in [Adders -> Nat]
        /\ \A u \in Adders : at'[u] \in Adding => image'[u] \in Images
    BY <1>4 DEF Goto, CacheInv, CacheType, Positions, Adding
  <2> QED BY <1>4, <2>1, OthersKeep
<1> QED BY <1>1, <1>2, <1>3, <1>4, ZenonT(40) DEF CacheNext

\* No two images in the cache overlap and none reaches beyond the buffer, whatever
\* threads call Add in whatever order (image_cache_blob.cc, image_cache_largest.cc).
THEOREM CacheSlotsDisjoint == CacheSpec => []SlotsDisjoint
<1>1. CacheInv => SlotsDisjoint
  BY DEF CacheInv
<1> QED BY <1>1, CacheInvInit, CacheInvInductive, PTL, ZenonT(40) DEF CacheSpec

-----------------------------------------------------------------------------
(* The decoder *)

HasInfo(i) == output_info[i].image = batch[i]

HostType ==
  /\ scenario \in Scenarios /\ batch_number \in 0 .. Len(scenario.batches)
  /\ main # "api" => batch_number # 0
  /\ order \in Seq(Samples) /\ work \in Seq(Samples)
  /\ sample \in [Adders -> Samples]
  /\ step \in [Adders -> {"idle", "decode", "device", "store", "add"}]
  /\ output_info \in [Samples -> [image : Images \cup {Garbage}, nvjpeg_support : BOOLEAN]]

\* Between two batches the threads have nothing to do; within one a sample that
\* has no image info is in the cache, and no such sample is given to a thread.
\* It is not enough to know this of the samples in the threads' hands: the cache
\* is asked again when ProcessImages comes to the sample.
InfoInv ==
  /\ main = "api" => work = <<>> /\ \A t \in Adders : step[t] = "idle"
  /\ main # "api" => \A i \in Samples : HasInfo(i) \/ IsCached(batch[i])
  /\ \A k \in 1 .. Len(work) : HasInfo(work[k])
  /\ \A t \in Adders : step[t] = "decode" => HasInfo(sample[t])

DecoderInv == HostType /\ InfoInv

\* A batch gives each sample an image.
LEMMA BatchType ==
  ASSUME scenario \in Scenarios
  PROVE  /\ Len(scenario.batches) \in Nat /\ Len(scenario.batches[1]) \in Nat \ {0}
         /\ \A b \in 1 .. Len(scenario.batches) : Batch(b) \in [Samples -> Images]
<1> DEFINE q == scenario.batches
           T == [1 .. Len(q[1]) -> Images]
<1>1. Len(q[1]) \in Nat \ {0} /\ q \in Seq(T)
  BY DecoderAssumption, ZenonT(60)
<1> HIDE DEF q, T
<1>2. Len(q) \in Nat /\ \A b \in 1 .. Len(q) : q[b] \in T
  BY <1>1, SMTT(30)
<1> QED BY <1>1, <1>2 DEF Batch, Samples, q, T

\* At first no sample has been given to a thread.
LEMMA DecoderInvInit == Init => DecoderInv
<1> SUFFICES ASSUME Init PROVE DecoderInv
  OBVIOUS
<1>1. scenario \in Scenarios /\ 1 \in Samples /\ Len(scenario.batches) \in Nat
  BY BatchType, SMTT(30) DEF Init, Samples
<1>2. HostType
  BY <1>1, SMTT(30) DEF Init, HostType
<1>3. InfoInv
  BY SMTT(30) DEF Init, InfoInv
<1> QED BY <1>2, <1>3 DEF DecoderInv

\* Only Add changes the cache, and it takes nothing out.
LEMMA CacheGrows ==
  ASSUME NEW t \in Adders, AddStep(t)
  PROVE  DOMAIN cache \subseteq DOMAIN cache'
BY DEF AddStep, LargestAdd, LargestRebuild, LargestCheck, BlobAdd, Entry

\* Every step of the decoder keeps the image info of the current batch.
LEMMA DecoderInvInductive == DecoderInv /\ [Next]_vars => DecoderInv'
<1> SUFFICES ASSUME HostType, InfoInv, [Next]_vars PROVE DecoderInv'
  BY DEF DecoderInv
<1>0. /\ scenario' = scenario /\ Samples' = Samples /\ Len(scenario.batches) \in Nat
      /\ \A b \in 1 .. Len(scenario.batches) : Batch(b) \in [Samples -> Images] /\ Batch(b)' = Batch(b)
  <2>1. scenario' = scenario
    BY ZenonT(60) DEF Next, vars, ParseImagesInfo, ProcessImage, LoadDeferred, WaitForWork, TakeWork,
           SampleWorkerHost, SampleWorkerDevice, CacheStore, CacheAdd, AddReturns, StreamStep
  <2> QED BY <2>1, BatchType DEF HostType, Samples, Batch
<1>1. CASE UNCHANGED vars
  BY <1>1 DEF vars, cacheVars, hostVars, HostType, InfoInv, DecoderInv, HasInfo, IsCached,
                        Samples, Batch, batch
<1>2. CASE ParseImagesInfo
  <2>1. /\ batch_number' = batch_number + 1 /\ batch_number' \in 1 .. Len(scenario.batches)
        /\ main' = "process" /\ UNCHANGED <<cache, work, step, sample>>
        /\ work = <<>> /\ \A t \in Adders : step[t] = "idle"
    BY <1>0, <1>2, SMTT(30) DEF ParseImagesInfo, HostType, InfoInv, cacheVars
  <2>2. order' \in Seq(Samples)
    <3>1. order' \in [Samples -> Samples]
      BY <1>2 DEF ParseImagesInfo
    <3>2. PICK n \in Nat : Samples = 1 .. n
      BY BatchType, ZenonT(40) DEF HostType, Samples
    <3> HIDE DEF Samples
    <3> QED BY <3>1, <3>2, SMTT(30)
  <2>3. /\ output_info' \in [Samples -> [image : Images \cup {Garbage}, nvjpeg_support : BOOLEAN]]
        /\ \A i \in Samples : output_info'[i].image = Batch(batch_number')[i]
                              \/ Batch(batch_number')[i] \in DOMAIN cache
    BY <1>0, <1>2, <2>1, SMTT(30) DEF ParseImagesInfo, HostType, IsCached
  <2>4. HostType'
    BY <1>0, <2>1, <2>2, <2>3, SMTT(60) DEF HostType
  <2>5. \A i \in Samples' : (HasInfo(i) \/ IsCached(batch[i]))'
    BY <1>0, <2>1, <2>3, ZenonT(40) DEF HasInfo, IsCached, batch, Batch
  <2>6. InfoInv'
    BY <2>1, <2>5, SMTT(60) DEF InfoInv
  <2> QED BY <2>4, <2>6, ZenonT(40) DEF DecoderInv
<1>3. CASE ProcessImage
  <2>1. /\ order # <<>> /\ order' = Tail(order) /\ main = "process"
        /\ UNCHANGED <<cache, main, batch_number, output_info, step, sample>>
    BY <1>3 DEF ProcessImage, cacheVars
  <2>2. Head(order) \in Samples /\ order' \in Seq(Samples)
    BY <2>1, SMTT(30) DEF HostType
  <2>3. work' = work \/ (work' = Append(work, Head(order)) /\ HasInfo(Head(order)))
    BY <1>3, <2>1, <2>2, ZenonT(40) DEF ProcessImage, InfoInv
  <2>4. work' \in Seq(Samples) /\ \A k \in 1 .. Len(work') : HasInfo(work'[k])
    <3>1. work \in Seq(Samples) /\ \A k \in 1 .. Len(work) : HasInfo(work[k])
      BY DEF HostType, InfoInv
    <3>2. CASE work' = work
      BY <3>1, <3>2
    <3>3. CASE work' = Append(work, Head(order)) /\ HasInfo(Head(order))
      <4>1. /\ work' \in Seq(Samples) /\ Len(work') = Len(work) + 1 /\ Len(work) \in Nat
            /\ work'[Len(work) + 1] = Head(order) /\ \A k \in 1 .. Len(work) : work'[k] = work[k]
        BY <2>2, <3>1, <3>3, SMTT(30)
      <4>2. \A k \in 1 .. Len(work') : k = Len(work) + 1 \/ k \in 1 .. Len(work)
        BY <4>1, SMTT(30)
      <4> QED BY <3>1, <3>3, <4>1, <4>2, ZenonT(40)
    <3> QED BY <2>3, <3>2, <3>3, ZenonT(40)
  <2>5. \A i : HasInfo(i)' = HasInfo(i) /\ batch'[i] = batch[i]
    BY <1>0, <2>1 DEF HasInfo, batch, Batch
  <2>6. HostType'
    BY <1>0, <2>1, <2>2, <2>4, SMTT(60) DEF HostType
  <2>7. InfoInv'
    <3>1. \A i \in Samples' : (HasInfo(i) \/ IsCached(batch[i]))'
      BY <1>0, <2>1, <2>5, ZenonT(40) DEF InfoInv, IsCached
    <3>2. \A k \in 1 .. Len(work') : HasInfo(work[k])'
      BY <2>4, <2>1, <1>0, ZenonT(40) DEF HasInfo, batch, Batch
    <3>3. \A t \in Adders : step'[t] = "decode" => HasInfo(sample[t])'
      BY <2>1, <1>0 DEF InfoInv, HasInfo, batch, Batch
    <3> QED BY <2>1, <3>1, <3>2, <3>3, ZenonT(40) DEF InfoInv
  <2> QED BY <2>6, <2>7 DEF DecoderInv
<1>4. CASE LoadDeferred
  <2>1. main' = "wait" /\ main = "process"
        /\ UNCHANGED <<cache, batch_number, output_info, order, work, step, sample>>
    BY <1>4 DEF LoadDeferred, cacheVars
  <2> QED BY <1>0, <2>1 DEF HostType, InfoInv, DecoderInv, HasInfo, IsCached, batch, Batch
<1>5. CASE WaitForWork
  <2>1. main' = "api" /\ work = <<>> /\ (\A t \in Adders : step[t] = "idle")
        /\ UNCHANGED <<cache, batch_number, output_info, order, work, step, sample>>
    BY <1>5 DEF WaitForWork, cacheVars
  <2> QED BY <1>0, <2>1, SMTT(30) DEF HostType, InfoInv, DecoderInv
<1>6. ASSUME NEW t \in Adders, TakeWork(t) PROVE DecoderInv'
  <2>1. /\ work # <<>> /\ work' = Tail(work) /\ sample' = [sample EXCEPT ![t] = Head(work)]
        /\ step' = [step EXCEPT ![t] = "decode"]
        /\ UNCHANGED <<cache, main, batch_number, output_info, order>>
    BY <1>6 DEF TakeWork, At, cacheVars
  <2>2. /\ Head(work) = work[1] /\ Head(work) \in Samples /\ work' \in Seq(Samples) /\ 1 \in 1 .. Len(work)
        /\ \A k \in 1 .. Len(work') : k + 1 \in 1 .. Len(work) /\ work'[k] = work[k + 1]
    BY <2>1, SMTT(30) DEF HostType
  <2>3. HostType'
    BY <1>0, <2>1, <2>2, ZenonT(40) DEF HostType
  <2>4. main # "api"
    BY <2>1 DEF InfoInv
  <2>5. HasInfo(Head(work)) /\ \A k \in 1 .. Len(work') : HasInfo(work'[k])
    BY <2>2 DEF InfoInv
  <2>6. \A u \in Adders : step'[u] = "decode" => HasInfo(sample'[u])
    BY <2>1, <2>5, ZenonT(40) DEF InfoInv, HostType
  <2>7. InfoInv'
    BY <1>0, <2>1, <2>4, <2>5, <2>6, SMTT(60) DEF InfoInv, HasInfo, IsCached, batch, Batch
  <2> QED BY <2>3, <2>7 DEF DecoderInv
<1>7. ASSUME NEW t \in Adders, SampleWorkerHost(t) PROVE DecoderInv'
  <2>1. /\ step[t] = "decode" /\ step' \in [Adders -> {"idle", "decode", "device", "store", "add"}]
        /\ (\A u \in Adders : step'[u] = "decode" => step[u] = "decode")
        /\ UNCHANGED <<cache, main, batch_number, order, work, sample>>
    BY <1>7, ZenonT(40) DEF SampleWorkerHost, At, cacheVars, HostType
  <2>2. output_info' = output_info \/ output_info' = [output_info EXCEPT ![sample[t]].nvjpeg_support = FALSE]
    BY <1>7 DEF SampleWorkerHost
  <2>3. /\ output_info' \in [Samples -> [image : Images \cup {Garbage}, nvjpeg_support : BOOLEAN]]
        /\ \A i \in Samples : output_info'[i].image = output_info[i].image
    <3> DEFINE Info == [image : Images \cup {Garbage}, nvjpeg_support : BOOLEAN]
    <3>1. sample[t] \in Samples /\ output_info \in [Samples -> Info]
      BY DEF HostType
    <3>2. CASE output_info' = output_info
      BY <3>1, <3>2
    <3>3. CASE output_info' = [output_info EXCEPT ![sample[t]].nvjpeg_support = FALSE]
      <4>1. output_info' = [output_info EXCEPT ![sample[t]] = [@ EXCEPT !.nvjpeg_support = FALSE]]
        BY <3>3
      <4>2. \A r \in Info : [r EXCEPT !.nvjpeg_support = FALSE] \in Info
                            /\ [r EXCEPT !.nvjpeg_support = FALSE].image = r.image
        OBVIOUS
      <4> HIDE DEF Info
      <4>3. /\ output_info' \in [Samples -> Info]
            /\ \A i \in Samples : output_info'[i].image = output_info[i].image
        BY <3>1, <4>1, <4>2, ZenonT(40)
      <4> QED BY <4>3 DEF Info
    <3> QED BY <2>2, <3>2, <3>3, ZenonT(40)
  <2>4. main # "api"
    BY <2>1 DEF InfoInv
  <2>5. HostType'
    BY <1>0, <2>1, <2>3, ZenonT(40) DEF HostType
  <2>6. \A i \in Samples : HasInfo(i)' = HasInfo(i) /\ (IsCached(batch[i])' = IsCached(batch[i]))
    BY <1>0, <2>1, <2>3, ZenonT(40) DEF HasInfo, IsCached, batch, Batch
  <2>7. \A k \in 1 .. Len(work) : work[k] \in Samples
    BY SMT DEF HostType
  <2>8. InfoInv'
    BY <1>0, <2>1, <2>4, <2>6, <2>7, ZenonT(60) DEF InfoInv, HostType, HasInfo
  <2> QED BY <2>5, <2>8 DEF DecoderInv
<1>8. ASSUME NEW t \in Adders, SampleWorkerDevice(t) \/ CacheStore(t) \/ AddReturns(t) PROVE DecoderInv'
  <2>1. /\ step[t] # "idle" /\ step' \in [Adders -> {"idle", "decode", "device", "store", "add"}]
        /\ (\A u \in Adders : step'[u] = "decode" => step[u] = "decode")
        /\ UNCHANGED <<cache, main, batch_number, output_info, order, work, sample>>
    BY <1>8, ZenonT(60) DEF SampleWorkerDevice, CacheStore, AddReturns, At, cacheVars, HostType
  <2>2. main # "api"
    BY <2>1 DEF InfoInv
  <2> QED BY <1>0, <2>1, <2>2, ZenonT(40) DEF HostType, InfoInv, DecoderInv, HasInfo, IsCached, batch, Batch
<1>9. ASSUME NEW t \in Adders, CacheAdd(t) PROVE DecoderInv'
  <2>1. UNCHANGED hostVars /\ DOMAIN cache \subseteq DOMAIN cache'
    BY <1>9, CacheGrows DEF CacheAdd
  <2> QED BY <1>0, <2>1, ZenonT(40) DEF hostVars, HostType, InfoInv, DecoderInv, HasInfo, IsCached, batch, Batch
<1>10. ASSUME NEW s \in Streams, StreamStep(s) PROVE DecoderInv'
  <2>1. UNCHANGED hostVars /\ cache' = cache
    BY <1>10, ZenonT(60) DEF StreamStep, cacheVars
  <2> QED BY <1>0, <2>1 DEF hostVars, HostType, InfoInv, DecoderInv, HasInfo, IsCached, batch, Batch
<1> QED BY <1>1, <1>2, <1>3, <1>4, <1>5, <1>6, <1>7, <1>8, <1>9, <1>10, SMTT(60) DEF Next

\* A thread never decodes a sample with the image info of an earlier batch: what
\* ParseImagesInfo found in the cache, ProcessImages finds there again, whatever
\* the threads have stored meanwhile (nvjpeg_decoder_decoupled_api.h:193 and :269).
THEOREM InfoIsCurrent == Spec => []DecodeHasInfo
<1>1. DecoderInv => DecodeHasInfo
  BY DEF DecoderInv, InfoInv, HasInfo, DecodeHasInfo
<1> QED BY <1>1, DecoderInvInit, DecoderInvInductive, PTL DEF Spec

-----------------------------------------------------------------------------
(* The decoder as a client of the cache *)

\* A thread is in Add only while CacheStore has called it.
CallInv ==
  /\ at \in [Adders -> Positions] /\ DOMAIN step = Adders
  /\ \A t \in Adders : step[t] # "add" => at[t] = "idle"

\* At first no thread is inside Add.
LEMMA CallInvInit == Init => CallInv
BY SMTT(30) DEF Init, CacheInit, CallInv, Positions

\* A step of the decoder is one the cache's clients may take, or none of the cache.
LEMMA DecoderStep ==
  ASSUME CallInv, HostType, InfoInv, [Next]_vars
  PROVE  [CacheNext]_cacheVars /\ CallInv'
<1>1. ASSUME UNCHANGED <<cacheVars, step>> PROVE [CacheNext]_cacheVars /\ CallInv'
  BY <1>1 DEF cacheVars, CallInv
<1>2. ASSUME UNCHANGED cacheVars, NEW t \in Adders, NEW p \in {"idle", "decode", "device", "store"},
             step[t] # "add", step' = [step EXCEPT ![t] = p]
      PROVE  [CacheNext]_cacheVars /\ CallInv'
  BY <1>2 DEF cacheVars, CallInv
<1>3. CASE UNCHANGED vars \/ ParseImagesInfo \/ ProcessImage \/ LoadDeferred \/ WaitForWork
  BY <1>1, <1>3 DEF vars, hostVars, ParseImagesInfo, ProcessImage, LoadDeferred, WaitForWork
<1>4. ASSUME NEW t \in Adders, TakeWork(t) PROVE [CacheNext]_cacheVars /\ CallInv'
  BY <1>2, <1>4 DEF TakeWork, At
<1>5. ASSUME NEW t \in Adders, SampleWorkerHost(t) PROVE [CacheNext]_cacheVars /\ CallInv'
  BY <1>2, <1>5 DEF SampleWorkerHost, At
<1>6. ASSUME NEW t \in Adders, SampleWorkerDevice(t) PROVE [CacheNext]_cacheVars /\ CallInv'
  BY <1>2, <1>6 DEF SampleWorkerDevice, At
<1>7. ASSUME NEW t \in Adders, CacheStore(t) PROVE [CacheNext]_cacheVars /\ CallInv'
  <2>1. step[t] = "store" /\ at[t] = "idle"
    BY <1>7 DEF CacheStore, CallInv
  <2>2. CASE At(t, "idle") /\ UNCHANGED cacheVars
    BY <1>2, <2>1, <2>2, ZenonT(40) DEF At
  <2>3. CASE /\ At(t, "add") /\ Add(t, batch[sample[t]])
             /\ UNCHANGED <<policy, cache, tail, largestVars>>
    <3>1. batch_number \in 1 .. Len(scenario.batches)
      BY <2>1, BatchType, SMTT(30) DEF HostType, InfoInv
    <3>2. batch[sample[t]] \in Images
      BY <3>1, BatchType DEF HostType, batch
    <3>3. CacheNext
      BY <2>1, <2>3, <3>2, ZenonT(40) DEF CacheNext
    <3>4. CallInv'
      BY <2>3 DEF CallInv, Add, Goto, At, Positions
    <3> QED BY <3>3, <3>4, ZenonT(40)
  <2> QED BY <1>7, <2>2, <2>3, ZenonT(40) DEF CacheStore
<1>8. ASSUME NEW t \in Adders, CacheAdd(t) PROVE [CacheNext]_cacheVars /\ CallInv'
  <2>1. AddStep(t) /\ step[t] = "add" /\ step' = step
    BY <1>8 DEF CacheAdd, hostVars
  <2>2. \E p \in Positions : at' = [at EXCEPT ![t] = p]
    BY <2>1 DEF AddStep, LargestAdd, LargestRebuild, LargestCheck, BlobAdd, Goto, Positions
  <2>3. CallInv'
    BY <2>1, <2>2, ZenonT(40) DEF CallInv
  <2> QED BY <2>1, <2>3 DEF CacheNext
<1>9. ASSUME NEW t \in Adders, AddReturns(t) PROVE [CacheNext]_cacheVars /\ CallInv'
  <2>1. CacheNext
    BY <1>9 DEF AddReturns, CacheNext
  <2>2. CallInv'
    BY <1>9 DEF AddReturns, CallInv, Goto, At, Positions
  <2> QED BY <2>1, <2>2
<1>10. ASSUME NEW s \in Streams, StreamStep(s) PROVE [CacheNext]_cacheVars /\ CallInv'
  BY <1>1, <1>10 DEF StreamStep, hostVars
<1> QED BY <1>3, <1>4, <1>5, <1>6, <1>7, <1>8, <1>9, <1>10, ZenonT(40) DEF Next

\* The decoder uses the cache as the cache expects: each of its threads is in at
\* most one call of Add, for an image of the batch (cached_decoder_impl.cc:75).
THEOREM DecoderUsesCache == Spec => CacheSpec
<1>1. Init => CacheInit
  BY DEF Init
<1>2. DecoderInv => HostType /\ InfoInv
  BY DEF DecoderInv
<1>3. CallInv /\ DecoderInv /\ [Next]_vars => [CacheNext]_cacheVars /\ CallInv'
  BY <1>2, DecoderStep
<1> QED BY <1>1, <1>3, CallInvInit, DecoderInvInit, DecoderInvInductive, PTL, ZenonT(40) DEF Spec, CacheSpec

\* So the images in the decoder's cache never overlap.
THEOREM SlotsStayDisjoint == Spec => []SlotsDisjoint
BY DecoderUsesCache, CacheSlotsDisjoint, PTL

=============================================================================

--------------------- MODULE SeparateQueuePolicyProofs ---------------------
(***************************************************************************)
(* Proofs about SeparateQueuePolicy, for every size of the queues and      *)
(* every set of threads that may signal stop.                              *)
(***************************************************************************)
EXTENDS SeparateQueuePolicy, TLAPS

USE Zenon  \* the prover of every leaf that names none

-----------------------------------------------------------------------------
(* Types *)

\* The sizes of the queues are positive, and 0 is an index of every stage.
LEMMA QueueSizesPositive == \A s \in Stages : GetQueueSizes[s] \in Nat \ {0}
<1>1. CpuSize * GpuSize \in Nat \ {0}
  BY SizeAssumption, SMT
<1> QED BY <1>1, SizeAssumption DEF GetQueueSizes, Stages

\* InitializeQueues fills a queue with the indices 0 .. n - 1.
LEMMA FullQueue ==
  ASSUME NEW n \in Nat
  PROVE  [i \in 1 .. n |-> i - 1] \in Seq(0 .. n - 1)
<1>1. [i \in 1 .. n |-> i - 1] \in [1 .. n -> 0 .. n - 1]
  BY SMT
<1> QED BY <1>1, SMT

\* Init has the types.
LEMMA TypeInit == Init => TypeOK
<1> SUFFICES ASSUME Init PROVE TypeOK
  OBVIOUS
<1>1. \A s \in Stages : stage_free[s] \in Seq(Index(s))
  BY QueueSizesPositive, FullQueue DEF Init, Index
<1>2. \A s \in {"SUPPORT", "CPU"} : commands[s] \in [Index(s) -> Int]
  BY QueueSizesPositive, SMT DEF Init, Index, Stages, kInvalidIdx
<1>3. streams \in [Streams -> Seq(ReleaseCommands)]
  BY SMT DEF Init
<1>4. \A s \in Stages : stage_ready[s] \in Seq(IdxsUpTo(s))
  BY SMT DEF Init
<1>5. \A s \in Stages : held[s] \in QueueIdxs /\ acq[s] = "none"
  BY SMT DEF Init, Invalid, QueueIdxs, kInvalidIdx
<1>6. /\ ready_output_queue \in Seq(OutputIdxs) /\ in_use_queue \in Seq(OutputIdxs)
      /\ releasing \in [mixed : Int, gpu : Int]
      /\ signal \in [Threads -> 0 .. 10]
  BY SMT DEF Init, NoOutput, kInvalidIdx
<1> QED
  BY <1>1, <1>2, <1>3, <1>4, <1>5, <1>6 DEF Init, TypeOK, FreeType, ReadyType, OutputType,
     StopType, CallbackType, HeldType, HeldAt, UserType

\* What the stages up to s have filled in is filled in for the stages before s,
\* and a stage's own index completes it.
LEMMA IdxsUpToFree ==
  ASSUME NEW s \in Stages, NEW idxs, NEW i \in Index(s),
         IF HasPreviousStage(s) THEN idxs \in IdxsUpTo(PreviousStage[s]) ELSE idxs = Fresh
  PROVE  [idxs EXCEPT ![s] = i] \in IdxsUpTo(s)
<1>1. Index(s) \subseteq Int
  BY QueueSizesPositive, SMT DEF Index
<1>2. \A t \in Stages : 0 \in Index(t)
  BY QueueSizesPositive, SMT DEF Index
<1>3. idxs \in QueueIdxs
  BY SMT DEF IdxsUpTo, HasPreviousStage, Fresh, QueueIdxs
<1>4. [idxs EXCEPT ![s] = i] \in QueueIdxs
  BY <1>1, <1>3 DEF QueueIdxs
<1>5. \A t \in Stages : [idxs EXCEPT ![s] = i][t] = IF t = s THEN i ELSE idxs[t]
  BY <1>3 DEF QueueIdxs
<1>6. CASE s = "SUPPORT"
  BY <1>4, <1>5, <1>6, SMT DEF IdxsUpTo, HasPreviousStage, Fresh, Position, Stages
<1>7. CASE s # "SUPPORT"
  <2>1. idxs \in IdxsUpTo(PreviousStage[s])
    BY <1>7 DEF HasPreviousStage
  <2>2. \A t \in Stages \ {s} :
          Position[t] <= Position[s] <=> Position[t] <= Position[PreviousStage[s]]
    BY <1>7, SMT DEF PreviousStage, Position, Stages
  <2>3. \A t \in Stages :
          idxs[t] \in IF Position[t] <= Position[PreviousStage[s]] THEN Index(t) ELSE {0}
    BY <2>1 DEF IdxsUpTo
  <2>4. Position[s] <= Position[s]
    BY SMT DEF Position, Stages
  <2>5. \A t \in Stages : [idxs EXCEPT ![s] = i][t] \in
          IF Position[t] <= Position[s] THEN Index(t) ELSE {0}
    BY <1>5, <2>2, <2>3, <2>4, SMT
  <2> QED BY <1>4, <2>5 DEF IdxsUpTo
<1> QED BY <1>6, <1>7

\* The command a pending callback points at still names the buffer it was
\* registered for: RunMixed and RunGPU reuse the slot of a command only with the
\* buffer itself, so the callback never gives back another one.
CommandInv ==
  \A x \in Streams : \A k \in 1 .. Len(streams[x]) :
    commands[streams[x][k].release][streams[x][k].slot] = streams[x][k].slot

\* Facts about indices used by the actions below.
LEMMA IndexFacts ==
  /\ \A s \in Stages : Index(s) \subseteq Int /\ kInvalidIdx \notin Index(s) /\ 0 \in Index(s)
  /\ Invalid \in QueueIdxs /\ Fresh \in QueueIdxs
  /\ NoOutput \in [mixed : Int, gpu : Int]
BY QueueSizesPositive, SMT DEF Index, kInvalidIdx, Invalid, Fresh, QueueIdxs, NoOutput

\* What a stage acquires has indices of its own and of the stages before it.
LEMMA IdxsUpToFacts ==
  ASSUME NEW s \in Stages, NEW idxs \in IdxsUpTo(s)
  PROVE  /\ idxs \in QueueIdxs
         /\ \A t \in Stages : Position[t] <= Position[s] => idxs[t] \in Index(t)
BY DEF IdxsUpTo

\* The next command and the next callback keep both invariants.
LEMMA AddCallbackType ==
  ASSUME TypeOK, CommandInv, NEW s \in {"SUPPORT", "CPU"}, NEW i \in Index(s), NEW x \in Streams,
         AddReleaseCallback(s, i, x)
  PROVE  CallbackType' /\ CommandInv'
<1> DEFINE item == [release |-> s, slot |-> i]
<1>1. i \in Nat /\ i \in Int
  BY QueueSizesPositive, SMT DEF Index, Stages
<1>2. item \in ReleaseCommands
  BY <1>1 DEF ReleaseCommands
<1>3. streams' = [streams EXCEPT ![x] = Append(@, item)]
  BY DEF AddReleaseCallback
<1>4. streams' \in [Streams -> Seq(ReleaseCommands)]
  BY <1>2, <1>3, SMT DEF TypeOK, CallbackType
<1>5. /\ DOMAIN commands' = {"SUPPORT", "CPU"}
      /\ \A t \in {"SUPPORT", "CPU"} : commands'[t] \in [Index(t) -> Int]
      /\ \A t \in {"SUPPORT", "CPU"} : \A j \in Index(t) :
           commands'[t][j] = IF t = s /\ j = i THEN i ELSE commands[t][j]
  BY <1>1 DEF AddReleaseCallback, TypeOK, CallbackType
<1>6. CommandInv'
  <2> SUFFICES ASSUME NEW y \in Streams, NEW k \in 1 .. Len(streams'[y])
               PROVE  commands'[streams'[y][k].release][streams'[y][k].slot] = streams'[y][k].slot
    BY DEF CommandInv
  <2>1. CASE y = x /\ k = Len(streams[x]) + 1
    <3>1. streams'[y][k] = item
      BY <1>2, <1>3, <2>1, SMT DEF TypeOK, CallbackType
    <3> QED BY <1>5, <3>1, SMT
  <2>2. CASE ~(y = x /\ k = Len(streams[x]) + 1)
    <3>1. k \in 1 .. Len(streams[y]) /\ streams'[y][k] = streams[y][k]
      BY <1>2, <1>3, <2>2, SMT DEF TypeOK, CallbackType
    <3>2. streams[y][k] \in ReleaseCommands
      BY <3>1, SMT DEF TypeOK, CallbackType
    <3>3. streams[y][k].release \in {"SUPPORT", "CPU"}
          /\ streams[y][k].slot \in Index(streams[y][k].release)
      BY <3>2 DEF ReleaseCommands
    <3>4. commands[streams[y][k].release][streams[y][k].slot] = streams[y][k].slot
      BY <3>1 DEF CommandInv
    <3>5. PICK t, j : t = streams[y][k].release /\ j = streams[y][k].slot
      OBVIOUS
    <3>6. commands'[t][j] = IF t = s /\ j = i THEN i ELSE commands[t][j]
      <4>1. t \in {"SUPPORT", "CPU"} /\ j \in Index(t)
        BY <3>3, <3>5
      <4> QED BY <1>5, <4>1
    <3>7. commands[t][j] = j
      BY <3>4, <3>5
    <3>8. commands'[t][j] = j
      BY <3>6, <3>7
    <3> QED BY <3>1, <3>5, <3>8
  <2> QED BY <2>1, <2>2
<1> QED BY <1>4, <1>5, <1>6 DEF CallbackType

\* A step of one thread changes the type of what that thread holds only.
LEMMA HeldStep ==
  ASSUME HeldType, NEW s \in Stages, NEW a \in {"none", "ready", "free", "held", "release"},
         NEW idxs, HeldAt(s, a, idxs),
         acq' = [acq EXCEPT ![s] = a], held' = [held EXCEPT ![s] = idxs]
  PROVE  HeldType'
BY DEF HeldType

\* An index given back to its stage.
LEMMA FreeStep ==
  ASSUME FreeType, asleep \subseteq Cvs, NEW s \in Stages, NEW i \in Index(s),
         ReleaseStageIdx(s, i)
  PROVE  FreeType' /\ asleep' \subseteq Cvs
BY SMT DEF FreeType, ReleaseStageIdx

\* What an action leaves alone keeps its type.
LEMMA TypeUnchanged ==
  ASSUME TypeOK, CommandInv
  PROVE  /\ UNCHANGED stage_free => FreeType'
         /\ UNCHANGED stage_ready => ReadyType'
         /\ UNCHANGED <<ready_output_queue, in_use_queue>> => OutputType'
         /\ UNCHANGED <<stops, signal>> => StopType'
         /\ UNCHANGED <<commands, streams>> => CallbackType' /\ CommandInv'
         /\ UNCHANGED <<acq, held>> => HeldType'
         /\ UNCHANGED <<user, releasing>> => UserType'
BY DEF TypeOK, FreeType, ReadyType, OutputType, StopType, CallbackType, HeldType, UserType,
   CommandInv, stops

\* Type correctness and CommandInv are inductive: one step per action.
LEMMA TypeStep == TypeOK /\ CommandInv /\ [Next]_vars => TypeOK' /\ CommandInv'
<1> SUFFICES ASSUME TypeOK, CommandInv, [Next]_vars PROVE TypeOK' /\ CommandInv'
  OBVIOUS
<1> USE TypeUnchanged, IndexFacts DEF TypeOK, queues
<1>0. CASE UNCHANGED vars
  BY <1>0 DEF vars
<1>1. ASSUME NEW s \in Stages, AcquireIdxs(s) PROVE TypeOK' /\ CommandInv'
  <2>1. HeldAt(s, IF HasPreviousStage(s) THEN "ready" ELSE "free", Fresh)
    BY DEF HeldAt
  <2>2. HeldType'
    BY <1>1, <2>1, HeldStep DEF AcquireIdxs
  <2> QED BY <1>1, <2>2 DEF AcquireIdxs
<1>2. ASSUME NEW s \in Stages, AcquireReady(s) PROVE TypeOK' /\ CommandInv'
  <2>1. PICK p \in Stages : p = PreviousStage[s] /\ HasPreviousStage(s)
    BY <1>2, SMT DEF AcquireReady, PreviousStage, HasPreviousStage, Stages
  <2>2. CASE stage_ready_stop[p]
    <3>1. HeldAt(s, "held", Invalid)
      BY DEF HeldAt
    <3>2. HeldType'
      BY <1>2, <2>1, <2>2, <3>1, HeldStep DEF AcquireReady
    <3> QED BY <1>2, <2>1, <2>2, <3>2 DEF AcquireReady
  <2>3. CASE ~stage_ready_stop[p] /\ stage_ready[p] # <<>>
    <3>1. Head(stage_ready[p]) \in IdxsUpTo(p) /\ Tail(stage_ready[p]) \in Seq(IdxsUpTo(p))
      <4>1. stage_ready[p] \in Seq(IdxsUpTo(p))
        BY DEF ReadyType
      <4> QED BY <2>3, <4>1, SMT
    <3>2. HeldAt(s, "free", Head(stage_ready[p]))
      BY <2>1, <3>1, IdxsUpToFacts DEF HeldAt
    <3>3. HeldType'
      BY <1>2, <2>1, <2>3, <3>2, HeldStep DEF AcquireReady
    <3>4. ReadyType'
      BY <1>2, <2>1, <2>3, <3>1 DEF AcquireReady, ReadyType
    <3> QED BY <1>2, <2>1, <2>3, <3>3, <3>4 DEF AcquireReady
  <2>4. CASE ~stage_ready_stop[p] /\ stage_ready[p] = <<>>
    BY <1>2, <2>1, <2>4 DEF AcquireReady, Cvs
  <2> QED BY <2>2, <2>3, <2>4
<1>3. ASSUME NEW s \in Stages, AcquireFree(s) PROVE TypeOK' /\ CommandInv'
  <2>1. CASE stage_free_stop[s]
    <3>1. HeldAt(s, "held", Invalid)
      BY DEF HeldAt
    <3>2. HeldType'
      BY <1>3, <2>1, <3>1, HeldStep DEF AcquireFree
    <3> QED BY <1>3, <2>1, <3>2 DEF AcquireFree
  <2>2. CASE ~stage_free_stop[s] /\ stage_free[s] # <<>>
    <3>1. Head(stage_free[s]) \in Index(s) /\ Tail(stage_free[s]) \in Seq(Index(s))
      BY <2>2, SMTT(30) DEF FreeType
    <3>2. [held[s] EXCEPT ![s] = Head(stage_free[s])] \in IdxsUpTo(s)
      BY <1>3, <3>1, IdxsUpToFree DEF HeldType, HeldAt, AcquireFree
    <3>3. HeldAt(s, "held", [held[s] EXCEPT ![s] = Head(stage_free[s])])
      BY <3>2, IdxsUpToFacts DEF HeldAt
    <3>4. held' = [held EXCEPT ![s] = [held[s] EXCEPT ![s] = Head(stage_free[s])]]
      BY <1>3, <2>2 DEF AcquireFree
    <3>5. HeldType'
      BY <1>3, <2>2, <3>3, <3>4, HeldStep DEF AcquireFree
    <3>6. FreeType'
      BY <1>3, <2>2, <3>1 DEF AcquireFree, FreeType
    <3> QED BY <1>3, <2>2, <3>5, <3>6 DEF AcquireFree
  <2>3. CASE ~stage_free_stop[s] /\ stage_free[s] = <<>>
    BY <1>3, <2>3 DEF AcquireFree, Cvs
  <2> QED BY <2>1, <2>2, <2>3
<1>l. ASSUME NEW s \in Stages, Leave(s) PROVE HeldType'
  <2>1. HeldAt(s, "none", Invalid)
    BY DEF HeldAt
  <2> QED BY <1>l, <2>1, HeldStep DEF Leave
<1>4. ASSUME NEW s \in Stages, ReleaseReady(s) PROVE TypeOK' /\ CommandInv'
  <2>1. held[s] \in IdxsUpTo(s)
    BY <1>4, SMT DEF HeldType, HeldAt, ReleaseReady, Invalid
  <2>2. ReadyType'
    BY <1>4, <2>1, SMTT(30) DEF ReadyType, ReleaseReady
  <2> QED BY <1>4, <1>l, <2>2 DEF ReleaseReady
<1>5. ASSUME NEW s \in Stages, ReleaseInvalid(s) PROVE TypeOK' /\ CommandInv'
  BY <1>5, <1>l DEF ReleaseInvalid
<1>6. ASSUME NEW x \in Streams, ReleaseCallback(x) PROVE TypeOK' /\ CommandInv'
  <2>1. held["MIXED"] \in IdxsUpTo("MIXED") /\ "MIXED" \in Stages
    BY <1>6 DEF HeldType, HeldAt, ReleaseCallback, Invalid, Stages
  <2>2. held["MIXED"]["CPU"] \in Index("CPU")
    BY <2>1, IdxsUpToFacts, SMTT(30) DEF Position, Stages
  <2>3. CallbackType' /\ CommandInv'
    BY <1>6, <2>2, AddCallbackType DEF ReleaseCallback
  <2>4. HeldAt("MIXED", "release", held["MIXED"])
    BY <2>1, IdxsUpToFacts DEF HeldAt
  <2>5. HeldType'
    BY <1>6, <2>1, <2>4 DEF HeldType, ReleaseCallback
  <2> QED BY <1>6, <2>3, <2>5 DEF ReleaseCallback
<1>7. CASE QueueOutputIdxs
  <2>1. held["GPU"] \in IdxsUpTo("GPU") /\ "GPU" \in Stages
    <3>1. HeldAt("GPU", "held", held["GPU"]) /\ held["GPU"] # Invalid
      BY <1>7 DEF HeldType, QueueOutputIdxs, AreValid, Invalid, Stages
    <3> QED BY <3>1 DEF HeldAt, Stages
  <2>2. held["GPU"]["MIXED"] \in Index("MIXED") /\ held["GPU"]["GPU"] \in Index("GPU")
    BY <2>1, IdxsUpToFacts, SMT DEF Position, Stages
  <2>3. OutputType'
    <3>1. PICK e \in OutputIdxs : ready_output_queue' = Append(ready_output_queue, e)
      BY <1>7, <2>2 DEF OutputIdxs, QueueOutputIdxs
    <3>2. UNCHANGED in_use_queue
      BY <1>7 DEF QueueOutputIdxs
    <3> QED BY <3>1, <3>2, SMTT(30) DEF OutputType
  <2>4. HeldAt("GPU", "release", held["GPU"])
    BY <2>1, IdxsUpToFacts DEF HeldAt
  <2>5. HeldType'
    BY <1>7, <2>1, <2>4 DEF HeldType, QueueOutputIdxs
  <2> QED BY <1>7, <2>3, <2>5 DEF QueueOutputIdxs
<1>8. CASE QueueOutputCallback
  <2>1. held["GPU"] \in IdxsUpTo("GPU") /\ "GPU" \in Stages /\ "gpu" \in Streams
    <3>1. HeldAt("GPU", acq["GPU"], held["GPU"]) /\ acq["GPU"] = "release"
      BY <1>8 DEF HeldType, QueueOutputCallback, Stages
    <3> QED BY <3>1 DEF HeldAt, Stages, Streams
  <2>2. held["GPU"]["SUPPORT"] \in Index("SUPPORT")
    BY <2>1, IdxsUpToFacts, SMTT(30) DEF Position, Stages
  <2>3. CallbackType' /\ CommandInv'
    BY <1>8, <2>1, <2>2, AddCallbackType DEF QueueOutputCallback
  <2> QED BY <1>8, <1>l, <2>1, <2>3 DEF QueueOutputCallback
<1>9. ASSUME NEW x \in Streams, release_callback(x) PROVE TypeOK' /\ CommandInv'
  <2> DEFINE item == Head(streams[x])
  <2>1. /\ streams[x] \in Seq(ReleaseCommands) /\ streams[x] # <<>>
        /\ streams' = [streams EXCEPT ![x] = Tail(streams[x])]
        /\ commands' = commands
    BY <1>9 DEF CallbackType, release_callback
  <2>2. item \in ReleaseCommands /\ item = streams[x][1] /\ 1 \in 1 .. Len(streams[x])
    BY <2>1, SMT
  <2>3. item.release \in {"SUPPORT", "CPU"} /\ item.slot \in Index(item.release)
    BY <2>2 DEF ReleaseCommands
  <2>4. commands[item.release][item.slot] = item.slot
    BY <2>2 DEF CommandInv
  <2>5. ReleaseStageIdx(item.release, item.slot) /\ item.release \in Stages
    BY <1>9, <2>3, <2>4 DEF release_callback, Stages
  <2>6. CallbackType'
    BY <2>1, SMTT(30) DEF CallbackType
  <2>7. CommandInv'
    <3> SUFFICES ASSUME NEW y \in Streams, NEW k \in 1 .. Len(streams'[y])
                 PROVE  commands[streams'[y][k].release][streams'[y][k].slot] = streams'[y][k].slot
      BY <2>1 DEF CommandInv
    <3>1. \E j \in 1 .. Len(streams[y]) : streams'[y][k] = streams[y][j]
      <4>1. CASE y = x
        <5>1. streams'[y] = Tail(streams[x])
          BY <2>1, <4>1 DEF CallbackType
        <5>2. k \in 1 .. Len(Tail(streams[x])) /\ streams[x] # <<>>
          BY <2>1, <5>1
        <5>3. k + 1 \in 1 .. Len(streams[x]) /\ Tail(streams[x])[k] = streams[x][k + 1]
          BY <2>1, <5>2, SMTT(30) DEF CallbackType
        <5> QED BY <4>1, <5>1, <5>3
      <4>2. CASE y # x
        BY <2>1, <4>2 DEF CallbackType
      <4> QED BY <4>1, <4>2
    <3> QED BY <3>1 DEF CommandInv
  <2>8. FreeType' /\ asleep' \subseteq Cvs
    BY <2>3, <2>5, FreeStep
  <2> QED BY <1>9, <2>6, <2>7, <2>8 DEF release_callback
<1>10. CASE UseOutputBegin
  BY <1>10 DEF UseOutputBegin, UserType
<1>11. CASE ReleaseOutputIdxs
  <2>1. Head(in_use_queue) \in OutputIdxs /\ Tail(in_use_queue) \in Seq(OutputIdxs)
    BY <1>11, SMT DEF OutputType, ReleaseOutputIdxs
  <2>2. Head(in_use_queue).mixed \in Index("MIXED") /\ "MIXED" \in Stages
    BY <2>1 DEF OutputIdxs, Stages
  <2>3. FreeType' /\ asleep' \subseteq Cvs
    BY <1>11, <2>2, FreeStep DEF ReleaseOutputIdxs
  <2>4. OutputType'
    BY <1>11, <2>1 DEF OutputType, ReleaseOutputIdxs
  <2>5. Head(in_use_queue) \in [mixed : Int, gpu : Int]
    BY <2>1 DEF OutputIdxs, Stages
  <2>6. UserType'
    BY <1>11, <2>1, <2>5 DEF UserType, ReleaseOutputIdxs
  <2> QED BY <1>11, <2>3, <2>4, <2>6 DEF ReleaseOutputIdxs
<1>12. CASE UseOutputIdxs
  <2>0. ready_output_queue # <<>> => /\ Head(ready_output_queue) \in OutputIdxs
                                    /\ Tail(ready_output_queue) \in Seq(OutputIdxs)
    BY SMTT(30) DEF OutputType
  <2>1. OutputType'
    <3>1. CASE ~ready_stop /\ ready_output_queue # <<>>
      <4>1. /\ in_use_queue' = Append(in_use_queue, Head(ready_output_queue))
            /\ ready_output_queue' = Tail(ready_output_queue)
        BY <1>12, <3>1 DEF UseOutputIdxs
      <4> QED BY <2>0, <3>1, <4>1, SMT DEF OutputType
    <3>2. CASE ready_stop \/ ready_output_queue = <<>>
      BY <1>12, <3>2 DEF OutputType, UseOutputIdxs
    <3> QED BY <3>1, <3>2
  <2>2. UserType'
    BY <1>12 DEF UserType, UseOutputIdxs
  <2>3. asleep' \subseteq Cvs
    BY <1>12 DEF UseOutputIdxs, Cvs
  <2> QED BY <1>12, <2>1, <2>2, <2>3 DEF UseOutputIdxs
<1>13. CASE ReleaseOutputGpu
  <2>1. releasing.gpu \in Index("GPU") /\ "GPU" \in Stages
    BY <1>13 DEF UserType, ReleaseOutputGpu, OutputIdxs, Stages
  <2>2. FreeType' /\ asleep' \subseteq Cvs
    BY <1>13, <2>1, FreeStep DEF ReleaseOutputGpu
  <2>3. UserType'
    BY <1>13 DEF UserType, ReleaseOutputGpu
  <2> QED BY <1>13, <2>2, <2>3 DEF ReleaseOutputGpu
<1>14. ASSUME NEW t \in Threads, SignalStop(t) \/ StopSteps(t) PROVE TypeOK' /\ CommandInv'
  <2>1. CASE SignalStop(t)
    <3>1. StopType'
      BY <2>1, SMTT(30) DEF StopType, SignalStop, stops
    <3> QED BY <2>1, <3>1 DEF SignalStop
  <2>2. CASE StopOutput(t)
    <3>1. StopType'
      BY <2>2, SMTT(30) DEF StopType, StopOutput
    <3> QED BY <2>2, <3>1 DEF StopOutput
  <2>3. CASE StopFree(t)
    <3>1. PICK s : stage_free_stop' = [stage_free_stop EXCEPT ![s] = TRUE]
      BY <2>3 DEF StopFree
    <3>2. stage_free_stop' \in [Stages -> BOOLEAN]
      BY <3>1 DEF StopType
    <3>3. signal' \in [Threads -> 0 .. 10]
      BY <2>3, SMTT(30) DEF StopType, StopFree
    <3>4. StopType'
      BY <2>3, <3>2, <3>3 DEF StopType, StopFree
    <3> QED BY <2>3, <3>4 DEF StopFree
  <2>4. CASE StopReady(t)
    <3>1. PICK s : stage_ready_stop' = [stage_ready_stop EXCEPT ![s] = TRUE]
      BY <2>4 DEF StopReady
    <3>2. stage_ready_stop' \in [Stages -> BOOLEAN]
      BY <3>1 DEF StopType
    <3>3. signal' \in [Threads -> 0 .. 10]
      BY <2>4, SMTT(30) DEF StopType, StopReady
    <3>4. StopType'
      BY <2>4, <3>2, <3>3 DEF StopType, StopReady
    <3> QED BY <2>4, <3>4 DEF StopReady
  <2>5. CASE NotifyAll(t)
    <3>1. StopType'
      BY <2>5, SMT DEF StopType, NotifyAll, stops
    <3> QED BY <2>5, <3>1 DEF NotifyAll
  <2> QED BY <1>14, <2>1, <2>2, <2>3, <2>4, <2>5 DEF StopSteps
<1> HIDE TypeUnchanged DEF TypeOK
<1> QED
  BY <1>0, <1>1, <1>2, <1>3, <1>4, <1>5, <1>6, <1>7, <1>8, <1>9, <1>10, <1>11, <1>12, <1>13, <1>14
     DEF Next, StageSteps, StageReleases, UserSteps, Streams

\* At first there are no callbacks.
LEMMA CommandInit == Init => CommandInv
BY SMT DEF Init, CommandInv

\* Every reachable state is well typed: no index outside its stage's buffers is
\* ever queued or held, and a pending callback releases the buffer it was
\* registered for, whatever the sizes of the queues.
THEOREM TypeCorrect == Spec => [](TypeOK /\ CommandInv)
<1> QED BY CommandInit, TypeInit, TypeStep, PTL DEF Spec

-----------------------------------------------------------------------------
(* Mixed and GPU buffers stay in step.  The MIXED and the GPU indices      *)
(* circulate through different queues; the inductive invariant Aligned     *)
(* says that, read off in the order in which the GPU stage will get them,  *)
(* they are the same sequence of numbers.                                  *)

\* The MIXED indices, in the order in which the GPU stage will receive them, are
\* the GPU indices in the order in which it will receive them.  The former are
\* one the GPU stage has already taken (if n = 1: ga), the r ready ones R, one
\* held by the MIXED stage (if h = 1: hm) and the f free ones F; the latter are
\* the g free ones G and one that ReleaseOutputIdxs is about to give back (if
\* p = 1: rg).
InStep(n, ga, r, R, h, hm, f, F, g, G, p, rg) ==
  /\ n + r + h + f = g + p
  /\ \A k \in 1 .. g + p :
       (IF k <= n THEN ga
        ELSE IF k <= n + r THEN R[k - n]["MIXED"]
        ELSE IF k <= n + r + h THEN hm
        ELSE F[k - n - r - h])
       = (IF k <= g THEN G[k] ELSE rg)

\* The GPU stage takes a ready QueueIdxs.
LEMMA TakeReady ==
  ASSUME NEW r \in Nat \ {0}, NEW f \in Nat, NEW g \in Nat, NEW h \in 0 .. 1, NEW p \in 0 .. 1,
         NEW R, NEW F, NEW G, NEW ga, NEW hm, NEW rg, NEW T,
         InStep(0, ga, r, R, h, hm, f, F, g, G, p, rg),
         \A j \in 1 .. r - 1 : T[j] = R[j + 1]
  PROVE  InStep(1, R[1]["MIXED"], r - 1, T, h, hm, f, F, g, G, p, rg)
BY SMT DEF InStep

\* The MIXED stage takes a free index.
LEMMA TakeMixed ==
  ASSUME NEW r \in Nat, NEW f \in Nat \ {0}, NEW g \in Nat, NEW n \in 0 .. 1, NEW p \in 0 .. 1,
         NEW R, NEW F, NEW G, NEW ga, NEW hm, NEW rg, NEW T,
         InStep(n, ga, r, R, 0, hm, f, F, g, G, p, rg),
         \A j \in 1 .. f - 1 : T[j] = F[j + 1]
  PROVE  InStep(n, ga, r, R, 1, F[1], f - 1, T, g, G, p, rg)
<1>1. n + r + f = g + p
  BY SMT DEF InStep
<1> SUFFICES ASSUME NEW k \in 1 .. g + p
             PROVE  (IF k <= n THEN ga
                     ELSE IF k <= n + r THEN R[k - n]["MIXED"]
                     ELSE IF k <= n + r + 1 THEN F[1]
                     ELSE T[k - n - r - 1])
                    = (IF k <= g THEN G[k] ELSE rg)
  BY <1>1, SMT DEF InStep
<1>2. CASE k <= n + r
  BY <1>2, SMT DEF InStep
<1>3. CASE k = n + r + 1
  <2>1. F[k - n - r - 0] = F[1]
    BY <1>3, SMT
  <2> QED BY <1>3, <2>1, SMT DEF InStep
<1>4. CASE k > n + r + 1
  <2>1. T[k - n - r - 1] = F[k - n - r - 0]
    BY <1>1, <1>4, SMT
  <2> QED BY <1>4, <2>1, SMT DEF InStep
<1> QED BY <1>2, <1>3, <1>4, SMT

\* The MIXED stage passes its index on.
LEMMA PassMixed ==
  ASSUME NEW r \in Nat, NEW f \in Nat, NEW g \in Nat, NEW n \in 0 .. 1, NEW p \in 0 .. 1,
         NEW R, NEW F, NEW G, NEW ga, NEW hm, NEW hn, NEW rg, NEW T,
         InStep(n, ga, r, R, 1, hm, f, F, g, G, p, rg),
         \A j \in 1 .. r : T[j] = R[j], T[r + 1]["MIXED"] = hm
  PROVE  InStep(n, ga, r + 1, T, 0, hn, f, F, g, G, p, rg)
<1>1. n + r + 1 + f = g + p
  BY DEF InStep
<1> SUFFICES ASSUME NEW k \in 1 .. g + p
             PROVE  (IF k <= n THEN ga
                     ELSE IF k <= n + (r + 1) THEN T[k - n]["MIXED"]
                     ELSE IF k <= n + (r + 1) + 0 THEN hn
                     ELSE F[k - n - (r + 1) - 0])
                    = (IF k <= g THEN G[k] ELSE rg)
  BY <1>1, SMT DEF InStep
<1>2. CASE k <= n + r
  <2>1. ~(k <= n) => T[k - n] = R[k - n]
    BY <1>2, SMT
  <2> QED BY <1>2, <2>1, SMT DEF InStep
<1>3. CASE k = n + r + 1
  <2>1. T[k - n]["MIXED"] = hm
    BY <1>3, SMT
  <2> QED BY <1>3, <2>1, SMT DEF InStep
<1>4. CASE k > n + r + 1
  <2>1. k - n - (r + 1) - 0 = k - n - r - 1
    BY SMT
  <2> QED BY <1>4, <2>1, SMT DEF InStep
<1> QED BY <1>2, <1>3, <1>4, SMT

\* The user gives an output back, first to the MIXED and then to the GPU stage.
LEMMA GiveMixed ==
  ASSUME NEW r \in Nat, NEW f \in Nat, NEW g \in Nat, NEW h \in 0 .. 1, NEW n \in 0 .. 1,
         NEW R, NEW F, NEW G, NEW ga, NEW hm, NEW rg, NEW T, NEW i,
         InStep(n, ga, r, R, h, hm, f, F, g, G, 0, rg),
         \A j \in 1 .. f : T[j] = F[j], T[f + 1] = i
  PROVE  InStep(n, ga, r, R, h, hm, f + 1, T, g, G, 1, i)
<1>1. n + r + h + f = g
  BY SMT DEF InStep
<1> SUFFICES ASSUME NEW k \in 1 .. g + 1
             PROVE  (IF k <= n THEN ga
                     ELSE IF k <= n + r THEN R[k - n]["MIXED"]
                     ELSE IF k <= n + r + h THEN hm
                     ELSE T[k - n - r - h])
                    = (IF k <= g THEN G[k] ELSE i)
  BY <1>1, SMT DEF InStep
<1>2. CASE k <= g
  <2>1. ~(k <= n + r + h) => T[k - n - r - h] = F[k - n - r - h]
    BY <1>1, <1>2, SMT
  <2>2. k \in 1 .. g + 0
    BY <1>2, SMT
  <2> QED BY <2>1, <2>2, <1>2 DEF InStep
<1>3. CASE k = g + 1
  <2>1. k - n - r - h = f + 1 /\ ~(k <= n) /\ ~(k <= n + r) /\ ~(k <= n + r + h) /\ ~(k <= g)
    BY <1>1, <1>3, SMT
  <2> QED BY <2>1
<1> QED BY <1>2, <1>3, SMT

\* The second half: the GPU index is free again.
LEMMA GiveGpu ==
  ASSUME NEW r \in Nat, NEW f \in Nat, NEW g \in Nat, NEW h \in 0 .. 1, NEW n \in 0 .. 1,
         NEW R, NEW F, NEW G, NEW ga, NEW hm, NEW rg, NEW T, NEW i,
         InStep(n, ga, r, R, h, hm, f, F, g, G, 1, i),
         \A j \in 1 .. g : T[j] = G[j], T[g + 1] = i
  PROVE  InStep(n, ga, r, R, h, hm, f, F, g + 1, T, 0, rg)
<1>1. n + r + h + f = g + 1
  BY DEF InStep
<1> SUFFICES ASSUME NEW k \in 1 .. g + 1
             PROVE  (IF k <= n THEN ga
                     ELSE IF k <= n + r THEN R[k - n]["MIXED"]
                     ELSE IF k <= n + r + h THEN hm
                     ELSE F[k - n - r - h])
                    = T[k]
  BY <1>1, SMT DEF InStep
<1>2. T[k] = IF k <= g THEN G[k] ELSE i
  BY SMT
<1> QED BY <1>2 DEF InStep

\* Nothing moves.
LEMMA StaysInStep ==
  ASSUME NEW r \in Nat, NEW f \in Nat, NEW g \in Nat, NEW h \in 0 .. 1, NEW n \in 0 .. 1,
         NEW p \in 0 .. 1, NEW R, NEW F, NEW G, NEW ga, NEW hm, NEW rg, NEW gb, NEW hn, NEW rh,
         InStep(n, ga, r, R, h, hm, f, F, g, G, p, rg),
         n = 1 => gb = ga, h = 1 => hn = hm, p = 1 => rh = rg
  PROVE  InStep(n, gb, r, R, h, hn, f, F, g, G, p, rh)
<1> SUFFICES ASSUME NEW k \in 1 .. g + p
             PROVE  (IF k <= n THEN gb
                     ELSE IF k <= n + r THEN R[k - n]["MIXED"]
                     ELSE IF k <= n + r + h THEN hn
                     ELSE F[k - n - r - h])
                    = (IF k <= g THEN G[k] ELSE rh)
  BY DEF InStep
<1>1. k <= n => gb = ga
  BY SMT
<1>2. ~(k <= n + r) /\ k <= n + r + h => hn = hm
  BY SMT
<1>3. ~(k <= g) => rh = rg
  BY SMT
<1> QED BY <1>1, <1>2, <1>3 DEF InStep

\* The elements of a queue without its first one.
LEMMA TailFacts ==
  ASSUME NEW S, NEW q \in Seq(S), q # <<>>
  PROVE  /\ Len(q) \in Nat \ {0} /\ Head(q) = q[1] /\ Len(Tail(q)) = Len(q) - 1
         /\ \A j \in 1 .. Len(q) - 1 : Tail(q)[j] = q[j + 1]
BY SMT

\* The elements of a queue with one more.
LEMMA AppendFacts ==
  ASSUME NEW S, NEW q \in Seq(S), NEW e \in S
  PROVE  /\ Len(q) \in Nat /\ Len(Append(q, e)) = Len(q) + 1
         /\ \A j \in 1 .. Len(q) : Append(q, e)[j] = q[j]
         /\ Append(q, e)[Len(q) + 1] = e
BY SMT

\* One if the GPU stage has taken a ready index, if the MIXED stage holds one, and if
\* the user is between the two halves of ReleaseOutputIdxs; otherwise zero.
GpuTaken == IF acq["GPU"] = "free" THEN 1 ELSE 0
MixedTaken ==
  IF acq["MIXED"] \in {"held", "release"} /\ held["MIXED"] # Invalid THEN 1 ELSE 0
Releasing == IF user = "release" THEN 1 ELSE 0

\* Until the GPU stage is stopped its two sources of indices agree.
Aligned ==
  ~stage_free_stop["GPU"] =>
    InStep(GpuTaken, held["GPU"]["MIXED"], Len(stage_ready["MIXED"]), stage_ready["MIXED"],
           MixedTaken, held["MIXED"]["MIXED"], Len(stage_free["MIXED"]), stage_free["MIXED"],
           Len(stage_free["GPU"]), stage_free["GPU"], Releasing, releasing.gpu)

\* The inductive invariant: alignment, what it is for, and the output being given back.
StepInv == Aligned /\ GpuIsMixed /\ (user = "release" => releasing.gpu = releasing.mixed)

\* At first the free queues of MIXED and GPU are the same sequence.
LEMMA StepInit == Init => StepInv
<1> SUFFICES ASSUME Init PROVE StepInv
  OBVIOUS
<1>1. PICK q : q = stage_free["GPU"] /\ q = stage_free["MIXED"] /\ Len(q) \in Nat
  <2>1. GetQueueSizes["MIXED"] = GpuSize /\ GetQueueSizes["GPU"] = GpuSize
    BY DEF GetQueueSizes, Stages
  <2>2. stage_free["MIXED"] = stage_free["GPU"]
    BY <2>1 DEF Init, Stages
  <2>3. stage_free["GPU"] \in Seq(Index("GPU"))
    BY TypeInit DEF Stages, TypeOK, FreeType
  <2> QED BY <2>2, <2>3, SMT
<1>2. /\ GpuTaken = 0 /\ MixedTaken = 0 /\ Releasing = 0 /\ Len(stage_ready["MIXED"]) = 0
  BY DEF Init, GpuTaken, MixedTaken, Releasing, Stages
<1>3. InStep(0, held["GPU"]["MIXED"], 0, stage_ready["MIXED"], 0, held["MIXED"]["MIXED"],
             Len(q), q, Len(q), q, 0, releasing.gpu)
  BY <1>1, SMT DEF InStep
<1>4. Aligned
  BY <1>1, <1>2, <1>3 DEF Aligned
<1>5. GpuIsMixed
  BY SMT DEF Init, GpuIsMixed, Stages
<1> QED BY <1>4, <1>5 DEF Init, StepInv

\* What the proofs below use of the types.
QueueTypes ==
  /\ stage_free["MIXED"] \in Seq(Index("MIXED")) /\ stage_free["GPU"] \in Seq(Index("GPU"))
  /\ stage_ready["MIXED"] \in Seq(IdxsUpTo("MIXED"))
  /\ ready_output_queue \in Seq(OutputIdxs) /\ in_use_queue \in Seq(OutputIdxs)
  /\ DOMAIN stage_free = Stages /\ DOMAIN stage_ready = Stages /\ DOMAIN held = Stages
  /\ DOMAIN acq = Stages

\* What the proofs need of the types.
LEMMA QueuesTyped == TypeOK => QueueTypes
BY DEF TypeOK, FreeType, ReadyType, HeldType, OutputType, QueueTypes, Stages

\* The outputs, by position.
OutputsInStep ==
  /\ DOMAIN in_use_queue = 1 .. Len(in_use_queue) /\ Len(in_use_queue) \in Nat
  /\ DOMAIN ready_output_queue = 1 .. Len(ready_output_queue)
  /\ Len(ready_output_queue) \in Nat
  /\ \A k \in 1 .. Len(in_use_queue) : in_use_queue[k].gpu = in_use_queue[k].mixed
  /\ \A k \in 1 .. Len(ready_output_queue) :
       ready_output_queue[k].gpu = ready_output_queue[k].mixed

\* Every output queued or in use has equal indices for MIXED and GPU.
LEMMA OutputsByPosition == TypeOK /\ StepInv => OutputsInStep
<1> SUFFICES ASSUME TypeOK, StepInv PROVE OutputsInStep
  OBVIOUS
<1>1. ready_output_queue \in Seq(OutputIdxs) /\ in_use_queue \in Seq(OutputIdxs)
  BY QueuesTyped DEF QueueTypes
<1>2. /\ DOMAIN in_use_queue = 1 .. Len(in_use_queue) /\ Len(in_use_queue) \in Nat
      /\ DOMAIN ready_output_queue = 1 .. Len(ready_output_queue)
      /\ Len(ready_output_queue) \in Nat
  BY <1>1, SMT
<1> QED BY <1>2 DEF StepInv, GpuIsMixed, OutputsInStep

\* The places an index of MIXED or GPU can be in now, as arguments of InStep.
Now(n, ga, r, R, h, hm, f, F, g, G, p, rg) ==
  /\ n = GpuTaken /\ ga = held["GPU"]["MIXED"]
  /\ r = Len(stage_ready["MIXED"]) /\ R = stage_ready["MIXED"]
  /\ h = MixedTaken /\ hm = held["MIXED"]["MIXED"]
  /\ f = Len(stage_free["MIXED"]) /\ F = stage_free["MIXED"]
  /\ g = Len(stage_free["GPU"]) /\ G = stage_free["GPU"]
  /\ p = Releasing /\ rg = releasing.gpu
  /\ n \in 0 .. 1 /\ r \in Nat /\ h \in 0 .. 1 /\ f \in Nat /\ g \in Nat /\ p \in 0 .. 1
  /\ ~stage_free_stop["GPU"] => InStep(n, ga, r, R, h, hm, f, F, g, G, p, rg)

\* The parts of the alignment in the current state, under names of their own.
LEMMA InStepNow ==
  ASSUME TypeOK, StepInv
  PROVE  \E n, ga, r, R, h, hm, f, F, g, G, p, rg : Now(n, ga, r, R, h, hm, f, F, g, G, p, rg)
<1>1. /\ Len(stage_free["MIXED"]) \in Nat /\ Len(stage_free["GPU"]) \in Nat
      /\ Len(stage_ready["MIXED"]) \in Nat
      /\ GpuTaken \in 0 .. 1 /\ MixedTaken \in 0 .. 1 /\ Releasing \in 0 .. 1
  BY QueuesTyped, SMT DEF QueueTypes, GpuTaken, MixedTaken, Releasing
<1>2. Now(GpuTaken, held["GPU"]["MIXED"], Len(stage_ready["MIXED"]), stage_ready["MIXED"],
          MixedTaken, held["MIXED"]["MIXED"], Len(stage_free["MIXED"]), stage_free["MIXED"],
          Len(stage_free["GPU"]), stage_free["GPU"], Releasing, releasing.gpu)
  BY <1>1 DEF StepInv, Aligned, Now
<1> QED BY <1>2

\* A step that moves no index of MIXED or GPU.
LEMMA StaysAligned ==
  ASSUME TypeOK, StepInv,
         stage_free'["MIXED"] = stage_free["MIXED"], stage_free'["GPU"] = stage_free["GPU"],
         stage_ready'["MIXED"] = stage_ready["MIXED"],
         GpuTaken' = GpuTaken, MixedTaken' = MixedTaken, Releasing' = Releasing,
         GpuTaken = 1 => held'["GPU"]["MIXED"] = held["GPU"]["MIXED"],
         MixedTaken = 1 => held'["MIXED"]["MIXED"] = held["MIXED"]["MIXED"],
         Releasing = 1 => releasing' = releasing,
         stage_free_stop["GPU"] => stage_free_stop'["GPU"]
  PROVE  Aligned'
<1>p. PICK n, ga, r, R, h, hm, f, F, g, G, p, rg : Now(n, ga, r, R, h, hm, f, F, g, G, p, rg)
  BY InStepNow
<1>r. n \in 0 .. 1 /\ r \in Nat /\ h \in 0 .. 1 /\ f \in Nat /\ g \in Nat /\ p \in 0 .. 1
  BY <1>p DEF Now
<1>s. ~stage_free_stop["GPU"] => InStep(n, ga, r, R, h, hm, f, F, g, G, p, rg)
  BY <1>p DEF Now
<1>1. PICK gb, hn, rh : /\ gb = held'["GPU"]["MIXED"] /\ hn = held'["MIXED"]["MIXED"]
                        /\ rh = releasing'.gpu
  OBVIOUS
<1>2. (n = 1 => gb = ga) /\ (h = 1 => hn = hm) /\ (p = 1 => rh = rg)
  BY <1>p, <1>1 DEF Now
<1>3. ~stage_free_stop'["GPU"] => InStep(n, gb, r, R, h, hn, f, F, g, G, p, rh)
  BY <1>r, <1>s, <1>2, StaysInStep
<1> QED BY <1>p, <1>1, <1>3 DEF Aligned, Now

\* A step that leaves the outputs alone.
LEMMA StaysMixed ==
  ASSUME StepInv, UNCHANGED <<ready_output_queue, in_use_queue>>,
         acq'["GPU"] \in {"held", "release"} => held'["GPU"]["GPU"] = held'["GPU"]["MIXED"]
  PROVE  GpuIsMixed'
BY DEF StepInv, GpuIsMixed

\* The steps of the policy, one by one.
LEMMA AcquireIdxsStep ==
  ASSUME TypeOK, TypeOK', StepInv, NEW s \in Stages, AcquireIdxs(s)
  PROVE  StepInv'
<1> USE DEF Stages
<1>t. QueueTypes
  BY QueuesTyped
<1>1. GpuIsMixed'
  BY <1>t DEF QueueTypes, AcquireIdxs, StepInv, GpuIsMixed, queues
<1>2. GpuTaken' = GpuTaken /\ (GpuTaken = 1 => held'["GPU"] = held["GPU"])
  BY <1>t, SMT DEF QueueTypes, AcquireIdxs, HasPreviousStage, GpuTaken
<1>3. MixedTaken' = MixedTaken /\ (MixedTaken = 1 => held'["MIXED"] = held["MIXED"])
  BY <1>t, SMT DEF QueueTypes, AcquireIdxs, HasPreviousStage, MixedTaken
<1>4. UNCHANGED <<stage_free, stage_ready, stage_free_stop, user, releasing, Releasing>>
  BY DEF AcquireIdxs, queues, stops, Releasing
<1>5. Aligned'
  BY StaysAligned, <1>2, <1>3, <1>4
<1> QED BY <1>1, <1>4, <1>5 DEF StepInv

\* The GPU stage takes the first ready MIXED index.
LEMMA AcquireReadyStep ==
  ASSUME TypeOK, TypeOK', StepInv, NEW s \in Stages, AcquireReady(s)
  PROVE  StepInv'
<1> USE DEF Stages
<1>t. QueueTypes
  BY QueuesTyped
<1>n. acq["GPU"] \in {"held", "release"} => held["GPU"]["GPU"] = held["GPU"]["MIXED"]
  BY DEF StepInv, GpuIsMixed
<1>p. PICK n, ga, r, R, h, hm, f, F, g, G, p, rg : Now(n, ga, r, R, h, hm, f, F, g, G, p, rg)
  BY InStepNow
<1>r. n \in 0 .. 1 /\ r \in Nat /\ h \in 0 .. 1 /\ f \in Nat /\ g \in Nat /\ p \in 0 .. 1
  BY <1>p DEF Now
<1>s. ~stage_free_stop["GPU"] => InStep(n, ga, r, R, h, hm, f, F, g, G, p, rg)
  BY <1>p DEF Now
<1>1. GpuIsMixed'
  <2>1. UNCHANGED <<ready_output_queue, in_use_queue>>
    BY DEF AcquireReady
  <2>2. CASE s = "GPU"
    <3>1. acq'["GPU"] = "held" => held'["GPU"] = Invalid
      BY <1>t, <2>2 DEF QueueTypes, AcquireReady
    <3>2. acq'["GPU"] # "release"
      BY <1>t, <2>2 DEF QueueTypes, AcquireReady
    <3> QED BY StaysMixed, <2>1, <3>1, <3>2 DEF Invalid
  <2>3. CASE s # "GPU"
    <3>1. acq'["GPU"] = acq["GPU"] /\ held'["GPU"] = held["GPU"]
      BY <1>t, <2>3 DEF QueueTypes, AcquireReady
    <3> QED BY <1>n, StaysMixed, <2>1, <3>1
  <2> QED BY <2>2, <2>3
<1>2. CASE s = "GPU" /\ ~stage_ready_stop["MIXED"] /\ stage_ready["MIXED"] # <<>>
  <2>0. stage_ready'["MIXED"] = Tail(stage_ready["MIXED"])
    BY <1>t, <1>2 DEF QueueTypes, AcquireReady, PreviousStage
  <2>1. PICK T : /\ stage_ready'["MIXED"] = T
                 /\ Len(T) = Len(stage_ready["MIXED"]) - 1
                 /\ \A j \in 1 .. Len(stage_ready["MIXED"]) - 1 : T[j] = stage_ready["MIXED"][j + 1]
    BY <1>t, <1>2, <2>0, TailFacts DEF QueueTypes
  <2>2. /\ GpuTaken = 0 /\ GpuTaken' = 1 /\ MixedTaken' = MixedTaken /\ Releasing' = Releasing
        /\ held'["GPU"] = stage_ready["MIXED"][1]
        /\ held'["MIXED"] = held["MIXED"]
        /\ Len(stage_ready["MIXED"]) \in Nat \ {0}
    BY <1>t, <1>2, SMTT(30) DEF QueueTypes, AcquireReady, PreviousStage, GpuTaken, MixedTaken, Releasing
  <2>3. UNCHANGED <<stage_free, releasing, stage_free_stop>>
    BY DEF AcquireReady, stops
  <2>4. ~stage_free_stop["GPU"] => InStep(1, R[1]["MIXED"], r - 1, T, h, hm, f, F, g, G, p, rg)
    <3>1. n = 0 /\ r # 0 /\ \A j \in 1 .. r - 1 : T[j] = R[j + 1]
      BY <1>p, <2>1, <2>2 DEF Now
    <3> QED BY <1>r, <1>s, <3>1, TakeReady
  <2>5. Aligned'
    BY <1>p, <2>1, <2>2, <2>3, <2>4 DEF Now, Aligned
  <2> QED BY <1>1, <2>5 DEF AcquireReady, StepInv
<1>3. CASE ~(s = "GPU" /\ ~stage_ready_stop["MIXED"] /\ stage_ready["MIXED"] # <<>>)
  <2>1. Aligned'
    <3>1. UNCHANGED <<stage_free, stage_free_stop, user, releasing, Releasing>>
      BY DEF AcquireReady, Releasing, stops
    <3>2. stage_ready'["MIXED"] = stage_ready["MIXED"]
      BY <1>t, <1>3, SMTT(30) DEF QueueTypes, AcquireReady, PreviousStage, HasPreviousStage
    <3>3. GpuTaken' = GpuTaken /\ (GpuTaken = 1 => held'["GPU"] = held["GPU"])
      BY <1>t, <1>3, SMTT(30) DEF QueueTypes, AcquireReady, PreviousStage, GpuTaken
    <3>4. MixedTaken' = MixedTaken /\ (MixedTaken = 1 => held'["MIXED"] = held["MIXED"])
      BY <1>t, SMT DEF QueueTypes, AcquireReady, MixedTaken
    <3> QED BY StaysAligned, <3>1, <3>2, <3>3, <3>4
  <2> QED BY <1>1, <2>1 DEF AcquireReady, StepInv
<1> QED BY <1>2, <1>3

\* The GPU stage takes its first free index, which is the MIXED one it has; the MIXED
\* stage takes its first free one.
LEMMA AcquireFreeStep ==
  ASSUME TypeOK, TypeOK', StepInv, NEW s \in Stages, AcquireFree(s)
  PROVE  StepInv'
<1> USE DEF Stages
<1>t. QueueTypes
  BY QueuesTyped
<1>h. \A t \in Stages : HeldAt(t, acq[t], held[t])
  BY DEF TypeOK, HeldType
<1>n. acq["GPU"] \in {"held", "release"} => held["GPU"]["GPU"] = held["GPU"]["MIXED"]
  BY DEF StepInv, GpuIsMixed
<1>p. PICK n, ga, r, R, h, hm, f, F, g, G, p, rg : Now(n, ga, r, R, h, hm, f, F, g, G, p, rg)
  BY InStepNow
<1>r. n \in 0 .. 1 /\ r \in Nat /\ h \in 0 .. 1 /\ f \in Nat /\ g \in Nat /\ p \in 0 .. 1
  BY <1>p DEF Now
<1>s. ~stage_free_stop["GPU"] => InStep(n, ga, r, R, h, hm, f, F, g, G, p, rg)
  BY <1>p DEF Now
<1>0. /\ UNCHANGED <<stage_ready, ready_output_queue, in_use_queue, stage_free_stop, user,
                     releasing, Releasing>>
      /\ acq[s] = "free"
  BY DEF AcquireFree, stops, Releasing
<1>1. CASE stage_free_stop[s] \/ stage_free[s] = <<>>
  <2>1. UNCHANGED stage_free
    BY <1>1 DEF AcquireFree
  <2>2. GpuIsMixed'
    <3>1. CASE s = "GPU"
      <4>1. acq'["GPU"] \in {"held", "release"} => held'["GPU"] = Invalid
        BY <1>t, <1>0, <1>1, <3>1 DEF QueueTypes, AcquireFree
      <4> QED BY StaysMixed, <1>0, <4>1 DEF Invalid
    <3>2. CASE s # "GPU"
      <4>1. acq'["GPU"] = acq["GPU"] /\ held'["GPU"] = held["GPU"]
        BY <1>t, <3>2 DEF QueueTypes, AcquireFree
      <4> QED BY <1>n, StaysMixed, <1>0, <4>1
    <3> QED BY <3>1, <3>2
  <2>3. s # "GPU" => GpuTaken' = GpuTaken /\ held'["GPU"] = held["GPU"]
    BY <1>t, SMTT(30) DEF QueueTypes, AcquireFree, GpuTaken
  <2>4. UNCHANGED MixedTaken /\ (MixedTaken = 1 => held'["MIXED"] = held["MIXED"])
    BY <1>t, <1>1, SMTT(30) DEF QueueTypes, AcquireFree, MixedTaken
  <2>5. CASE s = "GPU" /\ stage_free_stop[s]
    BY <1>0, <2>2, <2>5 DEF StepInv, Aligned
  <2>6. CASE s = "GPU" /\ ~stage_free_stop[s]
    <3>1. UNCHANGED <<acq, held>>
      BY <1>1, <2>6 DEF AcquireFree
    <3>2. Aligned'
      BY StaysAligned, <1>0, <2>1, <2>4, <3>1 DEF GpuTaken
    <3> QED BY <1>0, <2>2, <3>2 DEF StepInv
  <2>7. CASE s # "GPU"
    <3>1. Aligned'
      BY StaysAligned, <1>0, <2>1, <2>3, <2>4, <2>7
    <3> QED BY <1>0, <2>2, <3>1 DEF StepInv
  <2> QED BY <2>5, <2>6, <2>7
<1>2. CASE ~stage_free_stop[s] /\ stage_free[s] # <<>>
  <2>1. /\ held' = [held EXCEPT ![s][s] = Head(stage_free[s])]
        /\ stage_free' = [stage_free EXCEPT ![s] = Tail(@)]
        /\ acq' = [acq EXCEPT ![s] = "held"]
    BY <1>2 DEF AcquireFree
  <2>2. CASE s = "MIXED"
    <3>0. /\ stage_free'["MIXED"] = Tail(F) /\ F \in Seq(Index("MIXED")) /\ F # <<>>
          /\ f = Len(F)
      BY <1>p, <1>t, <1>2, <2>1, <2>2 DEF Now, QueueTypes
    <3>1. PICK T : /\ stage_free'["MIXED"] = T /\ Len(T) = f - 1 /\ Head(F) = F[1] /\ f # 0
                   /\ \A j \in 1 .. f - 1 : T[j] = F[j + 1]
      BY <3>0, TailFacts
    <3>2. held["MIXED"] \in QueueIdxs /\ F[1] # kInvalidIdx
      <4>1. held["MIXED"] \in QueueIdxs
        BY <1>h DEF HeldAt
      <4>2. F[1] \in Index("MIXED")
        BY <3>0, SMT
      <4> QED BY <4>1, <4>2, IndexFacts
    <3>3. held'["MIXED"]["MIXED"] = F[1] /\ held'["GPU"] = held["GPU"]
      BY <1>p, <1>t, <2>1, <2>2, <3>1, <3>2 DEF Now, QueueTypes, QueueIdxs
    <3>4. h = 0 /\ MixedTaken' = 1 /\ UNCHANGED GpuTaken
      BY <1>p, <1>t, <1>0, <2>1, <2>2, <3>2, <3>3
      DEF Now, QueueTypes, MixedTaken, GpuTaken, Invalid
    <3>5. ~stage_free_stop["GPU"] => InStep(n, ga, r, R, 1, F[1], f - 1, T, g, G, p, rg)
      BY <1>r, <1>s, <3>1, <3>4, TakeMixed, ZenonT(60)
    <3>6. stage_free'["GPU"] = stage_free["GPU"]
      BY <1>t, <2>1, <2>2 DEF QueueTypes
    <3>7. Aligned'
      BY <1>p, <1>0, <3>1, <3>3, <3>4, <3>5, <3>6 DEF Now, Aligned
    <3>8. GpuIsMixed'
      BY <1>n, StaysMixed, <1>t, <1>0, <2>1, <2>2, <3>3 DEF QueueTypes
    <3> QED BY <1>0, <3>7, <3>8 DEF StepInv
  <2>3. CASE s = "GPU"
    <3>0. /\ stage_free'["GPU"] = Tail(G) /\ G \in Seq(Index("GPU")) /\ G # <<>>
          /\ g = Len(G)
      BY <1>p, <1>t, <1>2, <2>1, <2>3 DEF Now, QueueTypes
    <3>1. PICK T : /\ stage_free'["GPU"] = T /\ Len(T) = g - 1 /\ Head(G) = G[1] /\ g # 0
                   /\ \A j \in 1 .. g - 1 : T[j] = G[j + 1]
      BY <3>0, TailFacts
    <3>2. held["GPU"] \in QueueIdxs
      BY DEF TypeOK, HeldType, HeldAt
    <3>3. /\ held'["GPU"]["GPU"] = G[1] /\ held'["GPU"]["MIXED"] = ga
          /\ held'["MIXED"] = held["MIXED"]
      BY <1>p, <1>t, <2>1, <2>3, <3>1, <3>2 DEF Now, QueueTypes, QueueIdxs
    <3>4. n = 1 /\ GpuTaken' = 0 /\ UNCHANGED MixedTaken
      BY <1>p, <1>t, <1>0, <2>1, <2>3, <3>3 DEF Now, QueueTypes, MixedTaken, GpuTaken
    <3>5. G[1] = ga /\ InStep(0, ga, r, R, h, hm, f, F, g - 1, T, p, rg)
      <4>1. InStep(1, ga, r, R, h, hm, f, F, g, G, p, rg)
        BY <1>p, <1>2, <2>3, <3>4 DEF Now
      <4>2. g \in Nat \ {0} /\ \A j \in 1 .. g - 1 : T[j] = G[j + 1]
        BY <1>r, <3>1
      <4>3. ASSUME NEW i \in Nat \ {0}, NEW U, InStep(1, ga, r, R, h, hm, f, F, i, G, p, rg),
                   \A j \in 1 .. i - 1 : U[j] = G[j + 1]
            PROVE  G[1] = ga /\ InStep(0, ga, r, R, h, hm, f, F, i - 1, U, p, rg)
        BY <1>r, <4>3, SMTT(30) DEF InStep
      <4> QED BY <4>1, <4>2, <4>3
    <3>6. stage_free'["MIXED"] = stage_free["MIXED"]
      BY <1>t, <2>1, <2>3 DEF QueueTypes
    <3>7. Aligned'
      BY <1>p, <1>0, <3>1, <3>3, <3>4, <3>5, <3>6 DEF Now, Aligned
    <3>8. GpuIsMixed'
      BY StaysMixed, <1>0, <3>3, <3>5
    <3> QED BY <1>0, <3>7, <3>8 DEF StepInv
  <2>4. CASE s \in {"SUPPORT", "CPU"}
    <3>1. /\ acq'["GPU"] = acq["GPU"] /\ acq'["MIXED"] = acq["MIXED"]
          /\ held'["GPU"] = held["GPU"] /\ held'["MIXED"] = held["MIXED"]
          /\ stage_free'["GPU"] = stage_free["GPU"]
          /\ stage_free'["MIXED"] = stage_free["MIXED"]
      BY <1>t, <2>1, <2>4 DEF QueueTypes
    <3>2. UNCHANGED <<GpuTaken, MixedTaken>>
      BY <3>1 DEF GpuTaken, MixedTaken
    <3>3. Aligned'
      BY StaysAligned, <1>0, <3>1, <3>2
    <3>4. GpuIsMixed'
      BY <1>0, <3>1 DEF StepInv, GpuIsMixed
    <3> QED BY <1>0, <3>3, <3>4 DEF StepInv
  <2> QED BY <2>2, <2>3, <2>4
<1> QED BY <1>1, <1>2

\* The MIXED stage passes its index to the end of the ready queue.
LEMMA ReleaseReadyStep ==
  ASSUME TypeOK, TypeOK', StepInv, NEW s \in Stages, ReleaseReady(s)
  PROVE  StepInv'
<1> USE DEF Stages
<1>t. QueueTypes
  BY QueuesTyped
<1>h. \A t \in Stages : HeldAt(t, acq[t], held[t])
  BY DEF TypeOK, HeldType
<1>p. PICK n, ga, r, R, h, hm, f, F, g, G, p, rg : Now(n, ga, r, R, h, hm, f, F, g, G, p, rg)
  BY InStepNow
<1>r. n \in 0 .. 1 /\ r \in Nat /\ h \in 0 .. 1 /\ f \in Nat /\ g \in Nat /\ p \in 0 .. 1
  BY <1>p DEF Now
<1>s. ~stage_free_stop["GPU"] => InStep(n, ga, r, R, h, hm, f, F, g, G, p, rg)
  BY <1>p DEF Now
<1>0. /\ UNCHANGED <<stage_free, ready_output_queue, in_use_queue, stage_free_stop, user,
                     releasing, Releasing>>
      /\ held[s][s] # kInvalidIdx
      /\ acq[s] \in {"held", "release"}
      /\ stage_ready' = [stage_ready EXCEPT ![s] = Append(@, held[s])]
      /\ acq' = [acq EXCEPT ![s] = "none"]
      /\ held' = [held EXCEPT ![s] = Invalid]
  BY DEF ReleaseReady, Leave, stops, Releasing
<1>1. GpuIsMixed'
  BY <1>t, <1>0 DEF QueueTypes, StepInv, GpuIsMixed
<1>2. UNCHANGED GpuTaken /\ (GpuTaken = 1 => held'["GPU"] = held["GPU"])
  BY <1>t, <1>0, SMT DEF QueueTypes, GpuTaken
<1>3. CASE s = "MIXED"
  <2>1. held["MIXED"] \in IdxsUpTo("MIXED")
    <3>1. held["MIXED"] # Invalid
      BY <1>0, <1>3 DEF Invalid
    <3> QED BY <1>h, <1>0, <1>3, <3>1 DEF HeldAt
  <2>0. /\ stage_ready'["MIXED"] = Append(R, held["MIXED"]) /\ R \in Seq(IdxsUpTo("MIXED"))
        /\ r = Len(R)
    BY <1>p, <1>t, <1>0, <1>3 DEF Now, QueueTypes
  <2>2. PICK T : /\ stage_ready'["MIXED"] = T /\ Len(T) = r + 1
                 /\ \A j \in 1 .. r : T[j] = R[j]
                 /\ T[r + 1] = held["MIXED"]
    BY <2>0, <2>1, AppendFacts, SMTT(30)
  <2>3. h = 1 /\ MixedTaken' = 0
    BY <1>p, <1>t, <1>0, <1>3 DEF Now, QueueTypes, MixedTaken, Invalid
  <2>4. PICK hn, gb : hn = held'["MIXED"]["MIXED"] /\ gb = held'["GPU"]["MIXED"]
    OBVIOUS
  <2>5. ~stage_free_stop["GPU"] => InStep(n, ga, r + 1, T, 0, hn, f, F, g, G, p, rg)
    <3>1. T[r + 1]["MIXED"] = hm
      BY <1>p, <2>2 DEF Now
    <3> QED BY <1>r, <1>s, <2>2, <2>3, <3>1, PassMixed, ZenonT(40)
  <2>6. ga = gb
    BY <1>p, <1>t, <1>0, <1>3, <2>4 DEF Now, QueueTypes
  <2>7. Aligned'
    BY <1>p, <1>0, <1>2, <2>2, <2>3, <2>4, <2>5, <2>6, ZenonT(60) DEF Now, Aligned
  <2> QED BY <1>0, <1>1, <2>7 DEF StepInv
<1>4. CASE s # "MIXED"
  <2>1. /\ stage_ready'["MIXED"] = stage_ready["MIXED"]
        /\ held'["MIXED"] = held["MIXED"] /\ UNCHANGED MixedTaken
    BY <1>t, <1>0, <1>4 DEF QueueTypes, MixedTaken
  <2>2. Aligned'
    BY StaysAligned, <1>0, <1>2, <2>1
  <2> QED BY <1>0, <1>1, <2>2 DEF StepInv
<1> QED BY <1>3, <1>4

\* An invalid index is released after a stop only.
LEMMA ReleaseInvalidStep ==
  ASSUME TypeOK, TypeOK', StepInv, NEW s \in Stages, ReleaseInvalid(s)
  PROVE  StepInv'
<1> USE DEF Stages
<1>t. QueueTypes
  BY QueuesTyped
<1>1. GpuIsMixed'
  BY <1>t DEF QueueTypes, ReleaseInvalid, Leave, StepInv, GpuIsMixed, queues
<1>2. GpuTaken' = GpuTaken /\ (GpuTaken = 1 => held'["GPU"] = held["GPU"])
  BY <1>t, SMT DEF QueueTypes, ReleaseInvalid, Leave, GpuTaken
<1>3. MixedTaken' = MixedTaken /\ (MixedTaken = 1 => held'["MIXED"] = held["MIXED"])
  <2>1. CASE s = "MIXED"
    <3>1. held["MIXED"] = Invalid
      <4>1. held["MIXED"] = Invalid \/ held["MIXED"] \in IdxsUpTo("MIXED")
        BY <2>1 DEF ReleaseInvalid, TypeOK, HeldType, HeldAt
      <4>2. held["MIXED"] \in IdxsUpTo("MIXED") => held["MIXED"]["MIXED"] \in Index("MIXED")
        BY IdxsUpToFacts, SMT DEF Position
      <4> QED BY <2>1, <4>1, <4>2, IndexFacts DEF ReleaseInvalid
    <3> QED BY <1>t, <2>1, <3>1 DEF QueueTypes, ReleaseInvalid, Leave, MixedTaken
  <2> QED BY <1>t, <2>1 DEF QueueTypes, ReleaseInvalid, Leave, MixedTaken
<1>4. UNCHANGED <<stage_free, stage_ready, stage_free_stop, user, releasing, Releasing>>
  BY DEF ReleaseInvalid, queues, stops, Releasing
<1>5. Aligned'
  BY StaysAligned, <1>2, <1>3, <1>4
<1> QED BY <1>1, <1>4, <1>5 DEF StepInv

\* Adding a callback to a stream moves no index of MIXED or GPU.
LEMMA ReleaseCallbackStep ==
  ASSUME TypeOK, TypeOK', StepInv, NEW x \in Streams, ReleaseCallback(x)
  PROVE  StepInv'
<1> USE DEF Stages
<1>t. QueueTypes
  BY QueuesTyped
<1>1. GpuIsMixed'
  BY <1>t DEF QueueTypes, ReleaseCallback, StepInv, GpuIsMixed, queues
<1>2. UNCHANGED <<GpuTaken, MixedTaken, held>>
  BY <1>t DEF QueueTypes, ReleaseCallback, GpuTaken, MixedTaken
<1>3. UNCHANGED <<stage_free, stage_ready, stage_free_stop, user, releasing, Releasing>>
  BY DEF ReleaseCallback, queues, stops, Releasing
<1>4. Aligned'
  BY StaysAligned, <1>2, <1>3
<1> QED BY <1>1, <1>3, <1>4 DEF StepInv

\* The GPU stage queues an output whose indices agree.
LEMMA QueueOutputIdxsStep ==
  ASSUME TypeOK, TypeOK', StepInv, QueueOutputIdxs
  PROVE  StepInv'
<1> USE DEF Stages
<1>t. QueueTypes
  BY QueuesTyped
<1>1. PICK e : /\ e \in OutputIdxs /\ e.gpu = e.mixed
               /\ ready_output_queue' = Append(ready_output_queue, e)
  <2>1. held["GPU"]["GPU"] = held["GPU"]["MIXED"]
    BY DEF QueueOutputIdxs, StepInv, GpuIsMixed
  <2>2. held["GPU"]["MIXED"] \in Index("MIXED") /\ held["GPU"]["GPU"] \in Index("GPU")
    <3>1. held["GPU"] \in IdxsUpTo("GPU")
      BY DEF QueueOutputIdxs, TypeOK, HeldType, HeldAt, AreValid, Invalid
    <3> QED BY <3>1, IdxsUpToFacts, SMTT(30) DEF Position
  <2> QED BY <2>1, <2>2 DEF QueueOutputIdxs, OutputIdxs
<1>2. \A k \in DOMAIN ready_output_queue' :
        ready_output_queue'[k].gpu = ready_output_queue'[k].mixed
  <2>1. \A k \in 1 .. Len(ready_output_queue) :
          ready_output_queue[k].gpu = ready_output_queue[k].mixed
    BY <1>t, SMTT(30) DEF QueueTypes, StepInv, GpuIsMixed
  <2>2. DOMAIN ready_output_queue' = 1 .. Len(ready_output_queue) + 1
    BY <1>t, <1>1, SMT DEF QueueTypes
  <2>3. \A k \in 1 .. Len(ready_output_queue) : ready_output_queue'[k] = ready_output_queue[k]
    BY <1>t, <1>1, SMT DEF QueueTypes
  <2>4. ready_output_queue'[Len(ready_output_queue) + 1] = e
    BY <1>t, <1>1, SMT DEF QueueTypes
  <2>5. Len(ready_output_queue) \in Nat
    BY <1>t, SMTT(30) DEF QueueTypes
  <2> QED BY <1>1, <2>1, <2>2, <2>3, <2>4, <2>5, SMTT(30)
<1>3. GpuIsMixed'
  BY <1>2 DEF QueueOutputIdxs, StepInv, GpuIsMixed
<1>4. UNCHANGED <<GpuTaken, MixedTaken>>
  BY <1>t DEF QueueTypes, QueueOutputIdxs, GpuTaken, MixedTaken
<1>5. UNCHANGED <<stage_free, stage_ready, stage_free_stop, held, user, releasing, Releasing>>
  BY DEF QueueOutputIdxs, stops, Releasing
<1>6. Aligned'
  BY StaysAligned, <1>4, <1>5
<1> QED BY <1>3, <1>5, <1>6 DEF StepInv

\* The callback that follows moves no index of MIXED or GPU.
LEMMA QueueOutputCallbackStep ==
  ASSUME TypeOK, TypeOK', StepInv, QueueOutputCallback
  PROVE  StepInv'
<1> USE DEF Stages
<1>t. QueueTypes
  BY QueuesTyped
<1>1. GpuIsMixed'
  BY <1>t DEF QueueTypes, QueueOutputCallback, Leave, StepInv, GpuIsMixed, queues
<1>2. UNCHANGED <<GpuTaken, MixedTaken>> /\ GpuTaken = 0 /\ held'["MIXED"] = held["MIXED"]
  BY <1>t DEF QueueTypes, QueueOutputCallback, Leave, GpuTaken, MixedTaken
<1>3. UNCHANGED <<stage_free, stage_ready, stage_free_stop, user, releasing, Releasing>>
  BY DEF QueueOutputCallback, queues, stops, Releasing
<1>4. Aligned'
  BY StaysAligned, <1>2, <1>3, SMT
<1> QED BY <1>1, <1>3, <1>4 DEF StepInv

\* A callback frees indices of SUPPORT and CPU only.
LEMMA release_callbackStep ==
  ASSUME TypeOK, TypeOK', StepInv, NEW x \in Streams, release_callback(x)
  PROVE  StepInv'
<1> USE DEF Stages
<1>t. QueueTypes
  BY QueuesTyped
<1>1. PICK s \in {"SUPPORT", "CPU"} : \E i : stage_free' = [stage_free EXCEPT ![s] = Append(@, i)]
  <2>1. streams[x] \in Seq(ReleaseCommands) /\ streams[x] # <<>>
    BY DEF release_callback, TypeOK, CallbackType
  <2>2. Head(streams[x]) \in ReleaseCommands
    BY <2>1, SMT
  <2>3. Head(streams[x]).release \in {"SUPPORT", "CPU"}
    BY <2>2 DEF ReleaseCommands
  <2> QED BY <2>3, ZenonT(60) DEF release_callback, ReleaseStageIdx
<1>2. stage_free'["GPU"] = stage_free["GPU"] /\ stage_free'["MIXED"] = stage_free["MIXED"]
  BY <1>t, <1>1 DEF QueueTypes
<1>3. /\ UNCHANGED <<stage_ready, stage_free_stop, acq, held, user, releasing, GpuTaken,
                     MixedTaken, Releasing, ready_output_queue, in_use_queue>>
  BY DEF release_callback, stops, GpuTaken, MixedTaken, Releasing
<1>4. Aligned'
  BY StaysAligned, <1>2, <1>3
<1> QED BY <1>3, <1>4 DEF StepInv, GpuIsMixed

\* The user begins to wait for an output.
LEMMA UseOutputBeginStep ==
  ASSUME TypeOK, TypeOK', StepInv, UseOutputBegin
  PROVE  StepInv'
<1> USE DEF Stages
<1>1. GpuIsMixed'
  BY DEF UseOutputBegin, StepInv, GpuIsMixed, queues
<1>2. UNCHANGED <<GpuTaken, MixedTaken, Releasing>>
  BY DEF UseOutputBegin, GpuTaken, MixedTaken, Releasing
<1>3. Aligned'
  BY StaysAligned, <1>2 DEF UseOutputBegin, queues, stops
<1> QED BY <1>1, <1>3 DEF UseOutputBegin, StepInv

\* The MIXED index of the oldest output becomes free, its GPU index is about to.
LEMMA ReleaseOutputIdxsStep ==
  ASSUME TypeOK, TypeOK', StepInv, ReleaseOutputIdxs
  PROVE  StepInv'
<1> USE DEF Stages
<1>t. QueueTypes
  BY QueuesTyped
<1>e. OutputsInStep
  BY OutputsByPosition
<1>p. PICK n, ga, r, R, h, hm, f, F, g, G, p, rg : Now(n, ga, r, R, h, hm, f, F, g, G, p, rg)
  BY InStepNow
<1>r. n \in 0 .. 1 /\ r \in Nat /\ h \in 0 .. 1 /\ f \in Nat /\ g \in Nat /\ p \in 0 .. 1
  BY <1>p DEF Now
<1>s. ~stage_free_stop["GPU"] => InStep(n, ga, r, R, h, hm, f, F, g, G, p, rg)
  BY <1>p DEF Now
<1>1. PICK e : /\ e = Head(in_use_queue) /\ e \in OutputIdxs /\ e.gpu = e.mixed
  <2>1. in_use_queue # <<>>
    BY DEF ReleaseOutputIdxs
  <2>2. Head(in_use_queue) = in_use_queue[1] /\ 1 \in 1 .. Len(in_use_queue)
    BY <1>t, <1>e, <2>1, TailFacts, SMT DEF OutputsInStep, QueueTypes
  <2>3. Head(in_use_queue) \in OutputIdxs
    BY <1>t, <2>1, SMT DEF QueueTypes
  <2> QED BY <1>e, <2>2, <2>3 DEF OutputsInStep
<1>2. /\ releasing' = e /\ user' = "release" /\ user = "none"
      /\ stage_free' = [stage_free EXCEPT !["MIXED"] = Append(@, e.mixed)]
      /\ in_use_queue' = Tail(in_use_queue)
      /\ UNCHANGED <<stage_ready, ready_output_queue, stage_free_stop, acq, held, GpuTaken,
                     MixedTaken>>
  BY <1>1 DEF ReleaseOutputIdxs, ReleaseStageIdx, stops, GpuTaken, MixedTaken
<1>0. /\ stage_free'["MIXED"] = Append(F, e.mixed) /\ e.mixed \in Index("MIXED")
      /\ F \in Seq(Index("MIXED")) /\ f = Len(F)
  BY <1>p, <1>t, <1>1, <1>2 DEF Now, QueueTypes, OutputIdxs
<1>3. PICK T : /\ stage_free'["MIXED"] = T /\ Len(T) = f + 1
               /\ \A j \in 1 .. f : T[j] = F[j]
               /\ T[f + 1] = e.mixed
  BY <1>0, AppendFacts, SMTT(30)
<1>4. PICK i : i = e.mixed /\ i = e.gpu
  BY <1>1
<1>5. p = 0 /\ Releasing' = 1
  BY <1>p, <1>2 DEF Now, Releasing
<1>6. ~stage_free_stop["GPU"] => InStep(n, ga, r, R, h, hm, f + 1, T, g, G, 1, i)
  <2>1. T[f + 1] = i
    BY <1>3, <1>4
  <2>2. ~stage_free_stop["GPU"] => InStep(n, ga, r, R, h, hm, f, F, g, G, 0, rg)
    BY <1>p, <1>5 DEF Now
  <2> QED BY <1>r, <1>s, <1>3, <2>1, <2>2, GiveMixed, ZenonT(60)
<1>7. stage_free'["GPU"] = stage_free["GPU"]
  BY <1>t, <1>2 DEF QueueTypes
<1>8. Aligned'
  BY <1>p, <1>2, <1>3, <1>4, <1>5, <1>6, <1>7, ZenonT(60) DEF Now, Aligned
<1>9. \A k \in DOMAIN in_use_queue' : in_use_queue'[k].gpu = in_use_queue'[k].mixed
  <2>1. \A k \in 1 .. Len(in_use_queue) : in_use_queue[k].gpu = in_use_queue[k].mixed
    BY <1>e DEF OutputsInStep
  <2>2. in_use_queue # <<>>
    BY DEF ReleaseOutputIdxs
  <2>3. DOMAIN in_use_queue' = 1 .. Len(in_use_queue) - 1
    BY <1>t, <1>2, <2>2, SMT DEF QueueTypes
  <2>4. \A k \in 1 .. Len(in_use_queue) - 1 : in_use_queue'[k] = in_use_queue[k + 1]
    BY <1>t, <1>2, <2>2, TailFacts DEF QueueTypes
  <2>5. Len(in_use_queue) \in Nat
    BY <1>t, SMT DEF QueueTypes
  <2> QED BY <2>1, <2>3, <2>4, <2>5, SMT
<1>10. GpuIsMixed'
  BY <1>2, <1>9 DEF StepInv, GpuIsMixed
<1> QED BY <1>1, <1>2, <1>8, <1>10 DEF StepInv

\* An output moves from the ready queue to those in use.
LEMMA UseOutputIdxsStep ==
  ASSUME TypeOK, TypeOK', StepInv, UseOutputIdxs
  PROVE  StepInv'
<1> USE DEF Stages
<1>t. QueueTypes
  BY QueuesTyped
<1>e. OutputsInStep
  BY OutputsByPosition
<1>1. /\ UNCHANGED <<stage_free, stage_ready, stage_free_stop, acq, held, releasing, GpuTaken,
                     MixedTaken, Releasing>>
      /\ user' # "release"
  BY DEF UseOutputIdxs, stops, GpuTaken, MixedTaken, Releasing
<1>2. Aligned'
  BY StaysAligned, <1>1
<1>3. CASE ready_output_queue' = ready_output_queue /\ in_use_queue' = in_use_queue
  BY <1>1, <1>2, <1>3 DEF StepInv, GpuIsMixed
<1>4. CASE /\ ready_output_queue # <<>>
           /\ in_use_queue' = Append(in_use_queue, Head(ready_output_queue))
           /\ ready_output_queue' = Tail(ready_output_queue)
  <2>1. /\ \A k \in 1 .. Len(in_use_queue) : in_use_queue[k].gpu = in_use_queue[k].mixed
        /\ \A k \in 1 .. Len(ready_output_queue) :
             ready_output_queue[k].gpu = ready_output_queue[k].mixed
        /\ Len(in_use_queue) \in Nat
    BY <1>e DEF OutputsInStep
  <2>2. PICK e : e \in OutputIdxs /\ e = Head(ready_output_queue) /\ e.gpu = e.mixed
    BY <1>t, <1>4, <2>1, TailFacts, SMT DEF QueueTypes
  <2>3. DOMAIN ready_output_queue' = 1 .. Len(ready_output_queue) - 1
    BY <1>t, <1>4, SMT DEF QueueTypes
  <2>4. \A k \in DOMAIN ready_output_queue' :
          ready_output_queue'[k].gpu = ready_output_queue'[k].mixed
    <3>1. \A k \in 1 .. Len(ready_output_queue) - 1 :
            ready_output_queue'[k] = ready_output_queue[k + 1]
      BY <1>t, <1>4, TailFacts DEF QueueTypes
    <3>2. Len(ready_output_queue) \in Nat
      BY <1>t, SMT DEF QueueTypes
    <3> QED BY <2>1, <2>3, <3>1, <3>2, SMTT(30)
  <2>5. DOMAIN in_use_queue' = 1 .. Len(in_use_queue) + 1
    BY <1>t, <1>4, <2>2, SMT DEF QueueTypes
  <2>6. /\ \A k \in 1 .. Len(in_use_queue) : in_use_queue'[k] = in_use_queue[k]
        /\ in_use_queue'[Len(in_use_queue) + 1] = e
    BY <1>t, <1>4, <2>2, AppendFacts, SMTT(30) DEF QueueTypes
  <2>7. \A k \in DOMAIN in_use_queue' : in_use_queue'[k].gpu = in_use_queue'[k].mixed
    BY <2>1, <2>2, <2>5, <2>6, SMTT(60)
  <2>8. GpuIsMixed'
    BY <1>1, <2>4, <2>7 DEF StepInv, GpuIsMixed
  <2> QED BY <1>1, <1>2, <2>8 DEF StepInv
<1> QED BY <1>3, <1>4 DEF UseOutputIdxs

\* The GPU index that was about to become free does.
LEMMA ReleaseOutputGpuStep ==
  ASSUME TypeOK, TypeOK', StepInv, ReleaseOutputGpu
  PROVE  StepInv'
<1> USE DEF Stages
<1>t. QueueTypes
  BY QueuesTyped
<1>p. PICK n, ga, r, R, h, hm, f, F, g, G, p, rg : Now(n, ga, r, R, h, hm, f, F, g, G, p, rg)
  BY InStepNow
<1>r. n \in 0 .. 1 /\ r \in Nat /\ h \in 0 .. 1 /\ f \in Nat /\ g \in Nat /\ p \in 0 .. 1
  BY <1>p DEF Now
<1>s. ~stage_free_stop["GPU"] => InStep(n, ga, r, R, h, hm, f, F, g, G, p, rg)
  BY <1>p DEF Now
<1>1. /\ releasing \in OutputIdxs /\ user = "release" /\ user' = "none"
      /\ stage_free' = [stage_free EXCEPT !["GPU"] = Append(@, releasing.gpu)]
      /\ UNCHANGED <<stage_ready, ready_output_queue, in_use_queue, stage_free_stop, acq, held,
                     GpuTaken, MixedTaken>>
  BY DEF ReleaseOutputGpu, ReleaseStageIdx, stops, GpuTaken, MixedTaken, TypeOK, UserType
<1>0. /\ stage_free'["GPU"] = Append(G, rg) /\ rg \in Index("GPU")
      /\ G \in Seq(Index("GPU")) /\ g = Len(G)
  BY <1>p, <1>t, <1>1 DEF Now, QueueTypes, OutputIdxs
<1>2. PICK T, rh : /\ stage_free'["GPU"] = T /\ Len(T) = g + 1
                   /\ \A j \in 1 .. g : T[j] = G[j]
                   /\ T[g + 1] = rg /\ rh = releasing'.gpu
  BY <1>0, AppendFacts, SMTT(60)
<1>3. p = 1 /\ Releasing' = 0
  BY <1>p, <1>1 DEF Now, Releasing
<1>4. ~stage_free_stop["GPU"] => InStep(n, ga, r, R, h, hm, f, F, g + 1, T, 0, rh)
  BY <1>r, <1>s, <1>2, <1>3, GiveGpu, ZenonT(60)
<1>5. stage_free'["MIXED"] = stage_free["MIXED"]
  BY <1>t, <1>1 DEF QueueTypes
<1>6. Aligned'
  BY <1>p, <1>1, <1>2, <1>3, <1>4, <1>5, ZenonT(60) DEF Now, Aligned
<1> QED BY <1>1, <1>6 DEF StepInv, GpuIsMixed

\* SignalStop moves no index.
LEMMA SignalStopStep ==
  ASSUME TypeOK, TypeOK', StepInv, NEW t \in Threads, SignalStop(t) \/ StopSteps(t)
  PROVE  StepInv'
<1> USE DEF Stages
<1>1. /\ UNCHANGED <<stage_free, stage_ready, ready_output_queue, in_use_queue, acq, held, user,
                     releasing>>
  BY DEF SignalStop, StopSteps, StopOutput, StopFree, StopReady, NotifyAll, queues
<1>2. stage_free_stop["GPU"] => stage_free_stop'["GPU"]
  <2>1. CASE StopFree(t)
    <3>1. PICK s : stage_free_stop' = [stage_free_stop EXCEPT ![s] = TRUE]
      BY <2>1 DEF StopFree
    <3> QED BY <3>1 DEF TypeOK, StopType
  <2> QED BY <2>1 DEF SignalStop, StopSteps, StopOutput, StopReady, NotifyAll, stops
<1>3. Aligned'
  BY StaysAligned, <1>1, <1>2 DEF GpuTaken, MixedTaken, Releasing
<1> QED BY <1>1, <1>3 DEF StepInv, GpuIsMixed

\* Every step keeps the MIXED and the GPU indices in step.
LEMMA StepInductive == TypeOK /\ TypeOK' /\ StepInv /\ [Next]_vars => StepInv'
<1> SUFFICES ASSUME TypeOK, TypeOK', StepInv, [Next]_vars PROVE StepInv'
  OBVIOUS
<1>1. CASE UNCHANGED vars
  BY <1>1, ZenonT(60)
  DEF vars, queues, stops, StepInv, Aligned, GpuIsMixed, GpuTaken, MixedTaken, Releasing
<1>2. ASSUME NEW s \in Stages, AcquireIdxs(s) \/ StageSteps(s) PROVE StepInv'
  BY <1>2, AcquireIdxsStep, AcquireReadyStep, AcquireFreeStep, ReleaseReadyStep, ReleaseInvalidStep,
     ReleaseCallbackStep, QueueOutputIdxsStep, QueueOutputCallbackStep DEF StageSteps, StageReleases,
     Streams
<1> QED
  BY <1>1, <1>2, release_callbackStep, UseOutputBeginStep, ReleaseOutputIdxsStep, UseOutputIdxsStep,
     ReleaseOutputGpuStep, SignalStopStep DEF Next, UserSteps

\* For queues of any size, any clients and any interleaving of the stages, the
\* callbacks and the user, also during a stop: whatever the GPU stage holds and
\* whatever is handed to the user has equal MIXED and GPU indices, as the
\* workspace look-up by the MIXED index (workspace_policy.h) relies on.
THEOREM GpuFollowsMixed == Spec => []GpuIsMixed
<1>1. Init => TypeOK /\ CommandInv /\ StepInv
  BY CommandInit, TypeInit, StepInit
<1>2. TypeOK /\ CommandInv /\ StepInv /\ [Next]_vars => (TypeOK /\ CommandInv /\ StepInv)'
  BY TypeStep, StepInductive
<1>3. StepInv => GpuIsMixed
  BY DEF StepInv
<1> QED BY <1>1, <1>2, <1>3, PTL DEF Spec

-----------------------------------------------------------------------------
(* Stop wakes everybody *)

\* The flags that are set when k is the next step of a SignalStop.
Passed(k, output, free, ready) ==
  /\ k >= 2 => output
  /\ k >= 3 => free["GPU"]
  /\ k >= 4 => ready["GPU"]
  /\ k >= 5 => free["CPU"]
  /\ k >= 6 => ready["CPU"]
  /\ k >= 7 => free["MIXED"]
  /\ k >= 8 => ready["MIXED"]
  /\ k >= 9 => free["SUPPORT"]
  /\ k >= 10 => ready["SUPPORT"]

\* Some thread has set a flag and has not yet come to NotifyAll.
Notifying == \E t \in Threads : signal[t] >= 2

\* The flags are set in the order of SignalStop; once the first one is set,
\* either all are or somebody is still setting them; and a thread that sleeps
\* although its flag is set will be notified by somebody.
WakeInv ==
  /\ \A t \in Threads : Passed(signal[t], ready_stop, stage_free_stop, stage_ready_stop)
  /\ ready_stop => Passed(10, ready_stop, stage_free_stop, stage_ready_stop) \/ Notifying
  /\ \A s \in Stages : ReadyCv(s) \in asleep /\ stage_ready_stop[s] => Notifying
  /\ \A s \in Stages : FreeCv(s) \in asleep /\ stage_free_stop[s] => Notifying
  /\ OutputCv \in asleep /\ ready_stop => Notifying

\* The condition variables are different objects.
LEMMA CvsDiffer ==
  /\ \A s, t \in Stages : ReadyCv(s) = ReadyCv(t) => s = t
  /\ \A s, t \in Stages : FreeCv(s) = FreeCv(t) => s = t
  /\ \A s, t \in Stages : ReadyCv(s) # FreeCv(t)
  /\ \A s \in Stages : ReadyCv(s) # OutputCv /\ FreeCv(s) # OutputCv
BY DEF ReadyCv, FreeCv, OutputCv

\* A step that sets no flag and puts nobody to sleep.
LEMMA NobodySleeps ==
  ASSUME WakeInv, UNCHANGED <<stops, signal>>, asleep' \subseteq asleep
  PROVE  WakeInv'
<1>1. UNCHANGED <<stage_free_stop, stage_ready_stop, ready_stop, signal>>
  BY DEF stops
<1>2. Notifying' <=> Notifying
  BY <1>1 DEF Notifying
<1> QED BY <1>1, <1>2 DEF WakeInv

\* A step that puts a thread to sleep whose flag is not set.
LEMMA FallsAsleep ==
  ASSUME WakeInv, UNCHANGED <<stops, signal>>, NEW cv, asleep' = asleep \cup {cv},
         \/ \E s \in Stages : cv = ReadyCv(s) /\ ~stage_ready_stop[s]
         \/ \E s \in Stages : cv = FreeCv(s) /\ ~stage_free_stop[s]
         \/ cv = OutputCv /\ ~ready_stop
  PROVE  WakeInv'
<1>1. UNCHANGED <<stage_free_stop, stage_ready_stop, ready_stop, signal>>
  BY DEF stops
<1>2. Notifying' <=> Notifying
  BY <1>1 DEF Notifying
<1>3. /\ \A t \in Threads : Passed(signal'[t], ready_stop', stage_free_stop', stage_ready_stop')
      /\ ready_stop' => Passed(10, ready_stop', stage_free_stop', stage_ready_stop') \/ Notifying'
  BY <1>1, <1>2 DEF WakeInv
<1>4. \A s \in Stages : ReadyCv(s) \in asleep' /\ stage_ready_stop[s] => Notifying
  BY CvsDiffer DEF WakeInv
<1>5. \A s \in Stages : FreeCv(s) \in asleep' /\ stage_free_stop[s] => Notifying
  BY CvsDiffer DEF WakeInv
<1>6. OutputCv \in asleep' /\ ready_stop => Notifying
  BY CvsDiffer DEF WakeInv
<1> QED BY <1>1, <1>2, <1>3, <1>4, <1>5, <1>6 DEF WakeInv

\* A step of SignalStop before NotifyAll: no flag is reset, the next one is set.
LEMMA SetsFlag ==
  ASSUME StopType, StopType', WakeInv, asleep' = asleep, NEW t \in Threads,
         signal' = [signal EXCEPT ![t] = signal[t] + 1],
         ready_stop => ready_stop',
         \A s \in Stages : stage_free_stop[s] => stage_free_stop'[s],
         \A s \in Stages : stage_ready_stop[s] => stage_ready_stop'[s],
         Passed(signal[t] + 1, ready_stop', stage_free_stop', stage_ready_stop'),
         ready_stop' => ready_stop \/ signal[t] = 1,
         signal[t] = 0 => UNCHANGED stops
  PROVE  WakeInv'
<1>1. signal[t] \in 0 .. 10 /\ signal'[t] = signal[t] + 1
  BY DEF StopType
<1>2. \A u \in Threads : u # t => signal'[u] = signal[u]
  BY DEF StopType
<1>3. \A u \in Threads : signal[u] \in 0 .. 10
  BY DEF StopType
<1>4. Notifying => Notifying'
  BY <1>1, <1>2, <1>3, SMT DEF Notifying
<1>5. signal[t] # 0 => Notifying'
  BY <1>1, SMT DEF Notifying
<1>6. \A k : Passed(k, ready_stop, stage_free_stop, stage_ready_stop) => Passed(k, ready_stop',
   stage_free_stop', stage_ready_stop')
  BY SMT DEF Passed, Stages
<1>7. ASSUME NEW u \in Threads PROVE Passed(signal'[u], ready_stop', stage_free_stop',
   stage_ready_stop')
  <2>1. CASE u = t
    BY <1>1, <2>1
  <2>2. CASE u # t
    BY <1>2, <1>6, <2>2 DEF WakeInv
  <2> QED BY <2>1, <2>2
<1>8. ready_stop' => Passed(10, ready_stop', stage_free_stop', stage_ready_stop') \/ Notifying'
  BY <1>4, <1>5, <1>6 DEF WakeInv
<1>9. CASE signal[t] # 0
  BY <1>5, <1>7, <1>9 DEF WakeInv
<1>10. CASE signal[t] = 0
  <2>1. UNCHANGED <<stage_free_stop, stage_ready_stop, ready_stop>>
    BY <1>10 DEF stops
  <2> QED BY <1>4, <1>7, <1>8, <2>1 DEF WakeInv
<1> QED BY <1>9, <1>10

\* NotifyAll: all flags are set, and nobody sleeps any more.
LEMMA NotifiesAll ==
  ASSUME StopType, WakeInv, NEW t \in Threads, NotifyAll(t)
  PROVE  WakeInv'
<1>1. /\ signal[t] = 10 /\ asleep' = {} /\ signal' = [signal EXCEPT ![t] = 0]
      /\ UNCHANGED <<stage_free_stop, stage_ready_stop, ready_stop>>
  BY DEF NotifyAll, stops
<1>2. Passed(10, ready_stop, stage_free_stop, stage_ready_stop)
  BY <1>1 DEF WakeInv
<1>3. ASSUME NEW u \in Threads
      PROVE  Passed(signal'[u], ready_stop, stage_free_stop, stage_ready_stop)
  <2>1. CASE u = t
    <3>1. signal'[u] = 0
      BY <1>1, <2>1 DEF StopType
    <3> QED BY <3>1, SMT DEF Passed
  <2>2. CASE u # t
    <3>1. signal'[u] = signal[u]
      BY <1>1, <2>2 DEF StopType
    <3> QED BY <3>1 DEF WakeInv
  <2> QED BY <2>1, <2>2
<1> QED BY <1>1, <1>2, <1>3 DEF WakeInv

\* The stages in the order in which SignalStop sets their flags.
LEMMA StopOrderIs ==
  /\ StopOrder[1] = "GPU" /\ StopOrder[2] = "CPU"
  /\ StopOrder[3] = "MIXED" /\ StopOrder[4] = "SUPPORT"
BY DEF StopOrder

\* Every step keeps WakeInv.
LEMMA WakeStep == TypeOK /\ TypeOK' /\ WakeInv /\ [Next]_vars => WakeInv'
<1> SUFFICES ASSUME TypeOK, TypeOK', WakeInv, [Next]_vars PROVE WakeInv'
  OBVIOUS
<1>t. StopType /\ StopType'
  BY DEF TypeOK
<1>0. CASE UNCHANGED vars
  BY <1>0, NobodySleeps DEF vars, stops
<1>1. ASSUME NEW s \in Stages, AcquireIdxs(s) \/ ReleaseInvalid(s) PROVE WakeInv'
  BY <1>1, NobodySleeps DEF AcquireIdxs, ReleaseInvalid
<1>2. ASSUME NEW s \in Stages, AcquireReady(s) PROVE WakeInv'
  <2>1. PICK p \in Stages : p = PreviousStage[s] /\ HasPreviousStage(s)
    BY <1>2, SMT DEF AcquireReady, PreviousStage, HasPreviousStage, Stages
  <2>2. /\ UNCHANGED <<stops, signal>>
        /\ asleep' = asleep \/ (~stage_ready_stop[p] /\ asleep' = asleep \cup {ReadyCv(p)})
    BY <1>2, <2>1 DEF AcquireReady
  <2>3. CASE asleep' = asleep
    BY <2>2, <2>3, NobodySleeps
  <2>4. CASE ~stage_ready_stop[p] /\ asleep' = asleep \cup {ReadyCv(p)}
    BY <2>2, <2>4, FallsAsleep
  <2> QED BY <2>2, <2>3, <2>4
<1>3. ASSUME NEW s \in Stages, AcquireFree(s) PROVE WakeInv'
  <2>2. /\ UNCHANGED <<stops, signal>>
        /\ asleep' = asleep \/ (~stage_free_stop[s] /\ asleep' = asleep \cup {FreeCv(s)})
    BY <1>3 DEF AcquireFree
  <2>3. CASE asleep' = asleep
    BY <2>2, <2>3, NobodySleeps
  <2>4. CASE ~stage_free_stop[s] /\ asleep' = asleep \cup {FreeCv(s)}
    BY <2>2, <2>4, FallsAsleep
  <2> QED BY <2>2, <2>3, <2>4
<1>4. ASSUME NEW s \in Stages, ReleaseReady(s) PROVE WakeInv'
  <2>1. UNCHANGED <<stops, signal>> /\ asleep' = asleep \ {ReadyCv(s)}
    BY <1>4 DEF ReleaseReady
  <2> QED BY <2>1, NobodySleeps
<1>5. ASSUME NEW x \in Streams, ReleaseCallback(x) PROVE WakeInv'
  BY <1>5, NobodySleeps DEF ReleaseCallback
<1>6. ASSUME QueueOutputIdxs PROVE WakeInv'
  <2>1. UNCHANGED <<stops, signal>> /\ asleep' = asleep \ {OutputCv}
    BY <1>6 DEF QueueOutputIdxs
  <2> QED BY <2>1, NobodySleeps
<1>7. ASSUME QueueOutputCallback \/ UseOutputBegin PROVE WakeInv'
  BY <1>7, NobodySleeps DEF QueueOutputCallback, UseOutputBegin
<1>8. ASSUME NEW x \in Streams, release_callback(x) PROVE WakeInv'
  <2>1. PICK s : UNCHANGED <<stops, signal>> /\ asleep' = asleep \ {FreeCv(s)}
    BY <1>8 DEF release_callback, ReleaseStageIdx
  <2> QED BY <2>1, NobodySleeps
<1>9. ASSUME ReleaseOutputIdxs \/ ReleaseOutputGpu PROVE WakeInv'
  <2>1. PICK s : UNCHANGED <<stops, signal>> /\ asleep' = asleep \ {FreeCv(s)}
    BY <1>9 DEF ReleaseOutputIdxs, ReleaseOutputGpu, ReleaseStageIdx
  <2> QED BY <2>1, NobodySleeps
<1>10. ASSUME UseOutputIdxs PROVE WakeInv'
  <2>2. /\ UNCHANGED <<stops, signal>>
        /\ asleep' = asleep \/ (~ready_stop /\ asleep' = asleep \cup {OutputCv})
    BY <1>10 DEF UseOutputIdxs
  <2>3. CASE asleep' = asleep
    BY <2>2, <2>3, NobodySleeps
  <2>4. CASE ~ready_stop /\ asleep' = asleep \cup {OutputCv}
    BY <2>2, <2>4, FallsAsleep
  <2> QED BY <2>2, <2>3, <2>4
<1>11. ASSUME NEW t \in Threads, SignalStop(t) PROVE WakeInv'
  <2>1. /\ signal[t] = 0 /\ signal' = [signal EXCEPT ![t] = 1]
        /\ UNCHANGED <<stage_free_stop, stage_ready_stop, ready_stop, asleep>>
    BY <1>11 DEF SignalStop, MaySignal, stops
  <2>2. Passed(signal[t] + 1, ready_stop', stage_free_stop', stage_ready_stop')
    BY <2>1, SMT DEF Passed
  <2>3. signal' = [signal EXCEPT ![t] = signal[t] + 1]
    BY <2>1, SMT
  <2>4. UNCHANGED stops
    BY <2>1 DEF stops
  <2> QED BY <1>t, <2>1, <2>2, <2>3, <2>4, SetsFlag
<1>12. ASSUME NEW t \in Threads, StopOutput(t) PROVE WakeInv'
  <2>1. /\ signal[t] = 1 /\ signal' = [signal EXCEPT ![t] = 2] /\ ready_stop' = TRUE
        /\ UNCHANGED <<stage_free_stop, stage_ready_stop, asleep>>
    BY <1>12 DEF StopOutput
  <2>2. Passed(signal[t] + 1, ready_stop', stage_free_stop', stage_ready_stop')
    BY <2>1, SMT DEF Passed
  <2>3. signal' = [signal EXCEPT ![t] = signal[t] + 1] /\ signal[t] # 0
    BY <2>1, SMT
  <2> QED BY <1>t, <2>1, <2>2, <2>3, SetsFlag
<1>13. ASSUME NEW t \in Threads, StopFree(t) PROVE WakeInv'
  <2>1. /\ signal[t] \in {2, 4, 6, 8} /\ signal' = [signal EXCEPT ![t] = signal[t] + 1]
        /\ stage_free_stop' = [stage_free_stop EXCEPT ![StopOrder[signal[t] \div 2]] = TRUE]
        /\ UNCHANGED <<stage_ready_stop, ready_stop, asleep>>
    BY <1>13 DEF StopFree
  <2>2. \A s \in Stages : stage_free_stop'[s] =
          IF s = StopOrder[signal[t] \div 2] THEN TRUE ELSE stage_free_stop[s]
    BY <1>t, <2>1 DEF StopType
  <2>3. \A s \in Stages : stage_free_stop[s] => stage_free_stop'[s]
    BY <2>2
  <2>4. Passed(signal[t], ready_stop, stage_free_stop, stage_ready_stop)
    BY DEF WakeInv
  <2>5. Passed(signal[t] + 1, ready_stop', stage_free_stop', stage_ready_stop')
    <3>1. CASE signal[t] = 2
      <4>1. signal[t] \div 2 = 1
        BY <3>1, SMT
      <4>2. stage_free_stop'["GPU"]
        BY <2>2, <4>1, StopOrderIs DEF Stages
      <4> QED BY <2>1, <2>3, <2>4, <3>1, <4>2, SMT DEF Passed, Stages
    <3>2. CASE signal[t] = 4
      <4>1. signal[t] \div 2 = 2
        BY <3>2, SMT
      <4>2. stage_free_stop'["CPU"]
        BY <2>2, <4>1, StopOrderIs DEF Stages
      <4> QED BY <2>1, <2>3, <2>4, <3>2, <4>2, SMT DEF Passed, Stages
    <3>3. CASE signal[t] = 6
      <4>1. signal[t] \div 2 = 3
        BY <3>3, SMT
      <4>2. stage_free_stop'["MIXED"]
        BY <2>2, <4>1, StopOrderIs DEF Stages
      <4> QED BY <2>1, <2>3, <2>4, <3>3, <4>2, SMT DEF Passed, Stages
    <3>4. CASE signal[t] = 8
      <4>1. signal[t] \div 2 = 4
        BY <3>4, SMT
      <4>2. stage_free_stop'["SUPPORT"]
        BY <2>2, <4>1, StopOrderIs DEF Stages
      <4> QED BY <2>1, <2>3, <2>4, <3>4, <4>2, SMT DEF Passed, Stages
    <3> QED BY <2>1, <3>1, <3>2, <3>3, <3>4
  <2>6. signal[t] # 0
    BY <2>1, SMT
  <2> QED BY <1>t, <2>1, <2>3, <2>5, <2>6, SetsFlag
<1>14. ASSUME NEW t \in Threads, StopReady(t) PROVE WakeInv'
  <2>1. /\ signal[t] \in {3, 5, 7, 9} /\ signal' = [signal EXCEPT ![t] = signal[t] + 1]
        /\ stage_ready_stop' =
             [stage_ready_stop EXCEPT ![StopOrder[(signal[t] - 1) \div 2]] = TRUE]
        /\ UNCHANGED <<stage_free_stop, ready_stop, asleep>>
    BY <1>14 DEF StopReady
  <2>2. \A s \in Stages : stage_ready_stop'[s] =
          IF s = StopOrder[(signal[t] - 1) \div 2] THEN TRUE ELSE stage_ready_stop[s]
    BY <1>t, <2>1 DEF StopType
  <2>3. \A s \in Stages : stage_ready_stop[s] => stage_ready_stop'[s]
    BY <2>2
  <2>4. Passed(signal[t], ready_stop, stage_free_stop, stage_ready_stop)
    BY DEF WakeInv
  <2>5. Passed(signal[t] + 1, ready_stop', stage_free_stop', stage_ready_stop')
    <3>1. CASE signal[t] = 3
      <4>1. (signal[t] - 1) \div 2 = 1
        BY <3>1, SMT
      <4>2. stage_ready_stop'["GPU"]
        BY <2>2, <4>1, StopOrderIs DEF Stages
      <4> QED BY <2>1, <2>3, <2>4, <3>1, <4>2, SMT DEF Passed, Stages
    <3>2. CASE signal[t] = 5
      <4>1. (signal[t] - 1) \div 2 = 2
        BY <3>2, SMT
      <4>2. stage_ready_stop'["CPU"]
        BY <2>2, <4>1, StopOrderIs DEF Stages
      <4> QED BY <2>1, <2>3, <2>4, <3>2, <4>2, SMT DEF Passed, Stages
    <3>3. CASE signal[t] = 7
      <4>1. (signal[t] - 1) \div 2 = 3
        BY <3>3, SMT
      <4>2. stage_ready_stop'["MIXED"]
        BY <2>2, <4>1, StopOrderIs DEF Stages
      <4> QED BY <2>1, <2>3, <2>4, <3>3, <4>2, SMT DEF Passed, Stages
    <3>4. CASE signal[t] = 9
      <4>1. (signal[t] - 1) \div 2 = 4
        BY <3>4, SMT
      <4>2. stage_ready_stop'["SUPPORT"]
        BY <2>2, <4>1, StopOrderIs DEF Stages
      <4> QED BY <2>1, <2>3, <2>4, <3>4, <4>2, SMT DEF Passed, Stages
    <3> QED BY <2>1, <3>1, <3>2, <3>3, <3>4
  <2>6. signal[t] # 0
    BY <2>1, SMT
  <2> QED BY <1>t, <2>1, <2>3, <2>5, <2>6, SetsFlag
<1>15. ASSUME NEW t \in Threads, NotifyAll(t) PROVE WakeInv'
  BY <1>t, <1>15, NotifiesAll
<1> QED
  BY <1>0, <1>1, <1>2, <1>3, <1>4, <1>5, <1>6, <1>7, <1>8, <1>9, <1>10, <1>11, <1>12, <1>13, <1>14,
     <1>15 DEF Next, StageSteps, StageReleases, UserSteps, StopSteps, Streams

\* What WakeInv says when every SignalStop is over.
LEMMA AllAwake == TypeOK /\ WakeInv => StopWakesAll
<1> SUFFICES ASSUME TypeOK, WakeInv, ready_stop, \A t \in Threads : signal[t] = 0
             PROVE  asleep = {}
  BY DEF StopWakesAll
<1>1. ~Notifying
  BY SMT DEF Notifying
<1>2. Passed(10, ready_stop, stage_free_stop, stage_ready_stop)
  BY <1>1 DEF WakeInv
<1>3. \A s \in Stages : stage_free_stop[s] /\ stage_ready_stop[s]
  BY <1>2, SMT DEF Passed, Stages
<1>4. \A cv \in Cvs : cv \notin asleep
  BY <1>1, <1>3 DEF WakeInv, Cvs
<1> QED BY <1>4 DEF TypeOK

\* At first nobody sleeps and no flag is set.
LEMMA WakeInit == Init => WakeInv
<1> SUFFICES ASSUME Init PROVE WakeInv
  OBVIOUS
<1>1. \A t \in Threads : signal[t] = 0
  BY DEF Init
<1>2. \A free, ready, output : Passed(0, output, free, ready)
  BY SMT DEF Passed
<1>3. ~ready_stop /\ asleep = {}
  BY DEF Init
<1> QED BY <1>1, <1>2, <1>3 DEF WakeInv

\* Whatever the sizes and whoever signals stop, also several threads at once: when
\* every SignalStop is over, nobody sleeps on a condition variable of the policy.
THEOREM StopAlwaysWakesAll == Spec => []StopWakesAll
<1>1. Init => TypeOK /\ CommandInv /\ WakeInv
  BY CommandInit, TypeInit, WakeInit
<1>2. TypeOK /\ CommandInv /\ WakeInv /\ [Next]_vars => (TypeOK /\ CommandInv /\ WakeInv)'
  BY TypeStep, WakeStep
<1>3. TypeOK /\ WakeInv => StopWakesAll
  BY AllAwake
<1> QED BY <1>1, <1>2, <1>3, PTL DEF Spec

-----------------------------------------------------------------------------
(* Every buffer has one owner *)

\* The kinds of places that hold indices, as in Places.
Kinds == {"free", "held", "output", "in_use", "releasing"} \cup Stages \cup Streams

\* C maps each kind of place to a function from positions to indices; index i is at
\* position k of l.
At(C, l, k, i) == l \in Kinds /\ k \in DOMAIN C[l] /\ C[l][k] = i

\* No index is in two places, all are from I and, if b holds, every index of I is
\* somewhere.
Ring(C, I, b) ==
  /\ \A l, m, j, k, i : At(C, l, j, i) /\ At(C, m, k, i) => l = m /\ j = k
  /\ \A l, k, i : At(C, l, k, i) => i \in I
  /\ b => \A i \in I : \E l, k : At(C, l, k, i)

\* Ring, except that index i is nowhere.
RingBut(C, I, i, b) ==
  /\ \A l, m, j, k, h : At(C, l, j, h) /\ At(C, m, k, h) => l = m /\ j = k
  /\ \A l, k, h : At(C, l, k, h) => h \in I /\ h # i
  /\ b => \A h \in I : h # i => \E l, k : At(C, l, k, h)

\* q is p without its first element, without position t, or with index i at the new
\* position t.
Shorter(p, q) ==
  \E n \in Nat \ {0} :
    /\ DOMAIN p = 1 .. n /\ DOMAIN q = 1 .. n - 1
    /\ \A k \in 1 .. n - 1 : q[k] = p[k + 1]
Without(p, q, t) == t \in DOMAIN p /\ DOMAIN q = DOMAIN p \ {t} /\ \A k \in DOMAIN q : q[k] = p[k]
With(p, q, t, i) ==
  /\ t \notin DOMAIN p /\ DOMAIN q = DOMAIN p \cup {t}
  /\ q[t] = i /\ \A k \in DOMAIN p : q[k] = p[k]

\* C and D differ at most in L.
SameBut(C, D, L) == \A m \in Kinds : m \notin L => D[m] = C[m]

\* The first index of a queue is taken.
LEMMA TakeHead ==
  ASSUME NEW C, NEW B, NEW I, NEW b, NEW l \in Kinds, SameBut(C, B, {l}), Shorter(C[l], B[l]),
         Ring(C, I, b), NEW i, i = C[l][1]
  PROVE  RingBut(B, I, i, b) /\ i \in I
<1>n. PICK n \in Nat \ {0} : /\ DOMAIN C[l] = 1 .. n /\ DOMAIN B[l] = 1 .. n - 1
                             /\ \A k \in 1 .. n - 1 : B[l][k] = C[l][k + 1]
  BY DEF Shorter
<1>o. \A m \in Kinds : m # l => B[m] = C[m]
  BY DEF SameBut
<1>0. At(C, l, 1, i)
  BY <1>n, SMT DEF At
<1>1. \A m, k, h : At(B, m, k, h) /\ m # l => At(C, m, k, h)
  BY <1>o DEF At
<1>2. \A k, h : At(B, l, k, h) => At(C, l, k + 1, h) /\ k + 1 # 1 /\ k \in Int
  BY <1>n, SMTT(30) DEF At
<1>3. \A m, k, h : At(C, m, k, h) /\ m # l => At(B, m, k, h)
  BY <1>o DEF At
<1>4. \A k, h : At(C, l, k, h) /\ k # 1 => At(B, l, k - 1, h)
  BY <1>n, SMTT(30) DEF At
<1>5. \A m, o, j, k, h : At(C, m, j, h) /\ At(C, o, k, h) => m = o /\ j = k
  BY DEF Ring
<1>6. ASSUME NEW m, NEW o, NEW j, NEW k, NEW h, At(B, m, j, h), At(B, o, k, h)
      PROVE  m = o /\ j = k
  <2>1. CASE m = l /\ o = l
    <3>1. j + 1 = k + 1 /\ j \in Int /\ k \in Int
      BY <1>2, <1>5, <1>6, <2>1, ZenonT(40)
    <3> QED BY <2>1, <3>1, SMT
  <2>2. CASE m = l /\ o # l
    BY <1>1, <1>2, <1>5, <1>6, <2>2, SMTT(30)
  <2>3. CASE m # l /\ o = l
    BY <1>1, <1>2, <1>5, <1>6, <2>3, SMTT(30)
  <2>4. CASE m # l /\ o # l
    BY <1>1, <1>5, <1>6, <2>4, SMT
  <2> QED BY <2>1, <2>2, <2>3, <2>4
<1>7. ASSUME NEW m, NEW k, NEW h, At(B, m, k, h) PROVE h \in I /\ h # i
  <2>1. CASE m = l
    BY <1>0, <1>2, <1>5, <1>7, <2>1, SMTT(30) DEF Ring
  <2>2. CASE m # l
    BY <1>0, <1>1, <1>5, <1>7, <2>2, SMT DEF Ring
  <2> QED BY <2>1, <2>2
<1>8. ASSUME b, NEW h \in I, h # i PROVE \E m, k : At(B, m, k, h)
  <2>1. PICK m, k : At(C, m, k, h)
    BY <1>8 DEF Ring
  <2>2. CASE m = l
    <3>1. k # 1
      BY <1>8, <2>1, <2>2 DEF At
    <3> QED BY <1>4, <2>1, <2>2, <3>1
  <2>3. CASE m # l
    BY <1>3, <2>1, <2>3
  <2> QED BY <2>2, <2>3
<1>9. i \in I
  BY <1>0 DEF Ring
<1> QED BY <1>6, <1>7, <1>8, <1>9 DEF RingBut

\* The index at position t is taken.
LEMMA TakeAt ==
  ASSUME NEW C, NEW B, NEW I, NEW b, NEW l \in Kinds, NEW t, SameBut(C, B, {l}),
         Without(C[l], B[l], t), Ring(C, I, b), NEW i, i = C[l][t]
  PROVE  RingBut(B, I, i, b) /\ i \in I
<1>0. At(C, l, t, i)
  BY DEF SameBut, Without, At
<1>1. \A m, k, h : At(B, m, k, h) => At(C, m, k, h) /\ ~(m = l /\ k = t)
  BY DEF SameBut, Without, At
<1>2. \A m, k, h : At(C, m, k, h) /\ ~(m = l /\ k = t) => At(B, m, k, h)
  BY DEF SameBut, Without, At
<1>3. \A m, o, j, k, h : At(C, m, j, h) /\ At(C, o, k, h) => m = o /\ j = k
  BY DEF Ring
<1>4. ASSUME NEW m, NEW o, NEW j, NEW k, NEW h, At(B, m, j, h), At(B, o, k, h)
      PROVE  m = o /\ j = k
  BY <1>1, <1>3, <1>4, SMT
<1>5. ASSUME NEW m, NEW k, NEW h, At(B, m, k, h) PROVE h \in I /\ h # i
  BY <1>0, <1>1, <1>3, <1>5, SMT DEF Ring
<1>6. ASSUME b, NEW h \in I, h # i PROVE \E m, k : At(B, m, k, h)
  <2>1. PICK m, k : At(C, m, k, h)
    BY <1>6 DEF Ring
  <2>2. ~(m = l /\ k = t)
    BY <1>6, <2>1 DEF At
  <2> QED BY <1>2, <2>1, <2>2
<1>7. i \in I
  BY <1>0 DEF Ring
<1> QED BY <1>4, <1>5, <1>6, <1>7 DEF RingBut

\* An index that is nowhere is put at a new position.
LEMMA PutAt ==
  ASSUME NEW C, NEW D, NEW I, NEW b, NEW m \in Kinds, NEW p, NEW i \in I,
         SameBut(C, D, {m}), With(C[m], D[m], p, i), RingBut(C, I, i, b)
  PROVE  Ring(D, I, b)
<1>0. At(D, m, p, i)
  BY DEF SameBut, With, At
<1>1. \A l, k, h : At(D, l, k, h) => At(C, l, k, h) \/ (l = m /\ k = p /\ h = i)
  BY DEF SameBut, With, At
<1>2. \A l, k, h : At(C, l, k, h) => At(D, l, k, h)
  BY DEF SameBut, With, At
<1>3. \A l, k, h : At(C, l, k, h) => h \in I /\ h # i
  BY DEF RingBut
<1>4. ASSUME NEW l, NEW o, NEW j, NEW k, NEW h, At(D, l, j, h), At(D, o, k, h)
      PROVE  l = o /\ j = k
  <2>1. CASE h = i
    BY <1>1, <1>3, <1>4, <2>1, SMTT(30)
  <2>2. CASE h # i
    <3>1. At(C, l, j, h) /\ At(C, o, k, h)
      BY <1>1, <1>4, <2>2, SMT
    <3> QED BY <3>1, SMT DEF RingBut
  <2> QED BY <2>1, <2>2
<1>5. ASSUME NEW l, NEW k, NEW h, At(D, l, k, h) PROVE h \in I
  BY <1>1, <1>3, <1>5
<1>6. ASSUME b, NEW h \in I PROVE \E l, k : At(D, l, k, h)
  <2>1. CASE h = i
    BY <1>0, <2>1
  <2>2. CASE h # i
    BY <1>2, <1>6, <2>2 DEF RingBut
  <2> QED BY <2>1, <2>2
<1> QED BY <1>4, <1>5, <1>6 DEF Ring

\* An index that is dropped.
LEMMA DropRing ==
  ASSUME NEW C, NEW I, NEW i, NEW b, RingBut(C, I, i, b)
  PROVE  Ring(C, I, FALSE)
BY DEF RingBut, Ring

\* The first index of queue l moves to position p of m.
LEMMA MoveHead ==
  ASSUME NEW C, NEW D, NEW I, NEW b, NEW l \in Kinds, NEW m \in Kinds, l # m, NEW p, NEW i,
         SameBut(C, D, {l, m}), Shorter(C[l], D[l]), i = C[l][1], With(C[m], D[m], p, i),
         Ring(C, I, b)
  PROVE  Ring(D, I, b)
<1>1. PICK B : B = [o \in Kinds |-> IF o = l THEN D[l] ELSE C[o]]
  OBVIOUS
<1>2. B[l] = D[l] /\ \A o \in Kinds : o # l => B[o] = C[o]
  BY <1>1
<1>3. B[m] = C[m] /\ SameBut(C, B, {l}) /\ SameBut(B, D, {m})
  BY <1>2 DEF SameBut
<1>4. RingBut(B, I, i, b) /\ i \in I
  BY <1>2, <1>3, TakeHead
<1> QED BY <1>3, <1>4, PutAt

\* The index at position t of l moves to position p of m.
LEMMA MoveAt ==
  ASSUME NEW C, NEW D, NEW I, NEW b, NEW l \in Kinds, NEW m \in Kinds, l # m, NEW t, NEW p, NEW i,
         SameBut(C, D, {l, m}), Without(C[l], D[l], t), i = C[l][t], With(C[m], D[m], p, i),
         Ring(C, I, b)
  PROVE  Ring(D, I, b)
<1>1. PICK B : B = [o \in Kinds |-> IF o = l THEN D[l] ELSE C[o]]
  OBVIOUS
<1>2. B[l] = D[l] /\ \A o \in Kinds : o # l => B[o] = C[o]
  BY <1>1
<1>3. B[m] = C[m] /\ SameBut(C, B, {l}) /\ SameBut(B, D, {m})
  BY <1>2 DEF SameBut
<1>4. RingBut(B, I, i, b) /\ i \in I
  BY <1>2, <1>3, TakeAt
<1> QED BY <1>3, <1>4, PutAt

\* The index at position t of l is dropped.
LEMMA DropAt ==
  ASSUME NEW C, NEW D, NEW I, NEW b, NEW l \in Kinds, NEW t,
         SameBut(C, D, {l}), Without(C[l], D[l], t), Ring(C, I, b)
  PROVE  Ring(D, I, FALSE)
<1>1. PICK i : i = C[l][t]
  OBVIOUS
<1> QED BY <1>1, TakeAt, DropRing

\* Nothing moves; a complete ring need not be complete.
LEMMA SameRing ==
  ASSUME NEW C, NEW D, NEW I, NEW b, SameBut(C, D, {}), Ring(C, I, b)
  PROVE  Ring(D, I, b)
<1>1. \A l, k, i : At(D, l, k, i) <=> At(C, l, k, i)
  BY DEF SameBut, At
<1> QED BY <1>1, SMT DEF Ring

\* Less is asked when indices may be missing.
LEMMA LessRing ==
  ASSUME NEW C, NEW I, NEW b, NEW c, Ring(C, I, b), c => b
  PROVE  Ring(C, I, c)
BY DEF Ring

-----------------------------------------------------------------------------
\* A thread at point a of stage t, with idxs, owns the index of stage s.
Owns(s, t, a, idxs) ==
  /\ idxs # Invalid
  /\ CASE t = s -> a = "held" \/ (t = "MIXED" /\ a = "release")
       [] Position[t] > Position[s] ->
            IF s = "SUPPORT" THEN a \in {"free", "held", "release"}
            ELSE PreviousStage[t] = s /\ a \in {"free", "held"}
       [] OTHER -> FALSE

\* The streams whose callbacks give back the buffers of stage s.
StreamsOf(s) ==
  CASE s = "SUPPORT" -> {"gpu"}
    [] s = "CPU" -> {"mixed", "default"}
    [] OTHER -> {}

HasOutput == {"MIXED", "GPU"}

Field(s) == IF s = "MIXED" THEN "mixed" ELSE "gpu"

\* The indices in field f of a queue's elements: none unless x is in T.
Column(x, T, q, f) == [k \in IF x \in T THEN DOMAIN q ELSE {} |-> q[k][f]]

\* All that hold indices of stage s, by kind and position.
Parts(s, free, own, ready, strs, out, use, rel) ==
  [l \in Kinds |->
     CASE l = "free" -> free
       [] l = "held" -> own
       [] l \in Stages -> Column(l, OwningQueues(s), ready[l], s)
       [] l \in Streams -> Column(l, StreamsOf(s), strs[l], "slot")
       [] l = "output" -> Column(s, HasOutput, out, Field(s))
       [] l = "in_use" -> Column(s, HasOutput, use, Field(s))
       [] OTHER -> rel]

Held(s) == [t \in Owners(s) |-> held[t][s]]
Released(s) == [k \in {j \in {1} : s = "GPU" /\ user = "release"} |-> releasing.gpu]
PartsOf(s) ==
  Parts(s, stage_free[s], Held(s), stage_ready, streams, ready_output_queue, in_use_queue,
        Released(s))

\* No buffer has two owners, and until stop is signalled each has one; a callback
\* on a stream gives back a buffer of the stage whose stream it is.
OwnerInv ==
  /\ \A x \in Streams : \A k \in DOMAIN streams[x] : x \in StreamsOf(streams[x][k].release)
  /\ \A s \in Stages : stage_free_stop[s] \/ stage_ready_stop[s] => ready_stop
  /\ \A s \in Stages : Ring(PartsOf(s), Index(s), ~Aborting)

\* The names of the kinds of places differ.
LEMMA KindsDiffer ==
  /\ \A l \in Stages \cup Streams : l \notin {"free", "held", "output", "in_use", "releasing"}
  /\ \A l \in Streams : l \notin Stages
BY DEF Stages, Streams

\* What C consists of.
Listed(s, C, free, own, ready, strs, out, use, rel) ==
  /\ C["free"] = free /\ C["held"] = own /\ C["releasing"] = rel
  /\ C["output"] = Column(s, HasOutput, out, Field(s))
  /\ C["in_use"] = Column(s, HasOutput, use, Field(s))
  /\ \A l \in Stages : C[l] = Column(l, OwningQueues(s), ready[l], s)
  /\ \A l \in Streams : C[l] = Column(l, StreamsOf(s), strs[l], "slot")

\* The parts, one by one.
LEMMA PartsAre ==
  ASSUME NEW s, NEW free, NEW own, NEW ready, NEW strs, NEW out, NEW use, NEW rel, NEW C,
         C = Parts(s, free, own, ready, strs, out, use, rel)
  PROVE  Listed(s, C, free, own, ready, strs, out, use, rel)
<1>1. \A l \in Kinds : C[l] =
        CASE l = "free" -> free
          [] l = "held" -> own
          [] l \in Stages -> Column(l, OwningQueues(s), ready[l], s)
          [] l \in Streams -> Column(l, StreamsOf(s), strs[l], "slot")
          [] l = "output" -> Column(s, HasOutput, out, Field(s))
          [] l = "in_use" -> Column(s, HasOutput, use, Field(s))
          [] OTHER -> rel
  BY DEF Parts
<1>2. /\ {"free", "held", "output", "in_use", "releasing"} \subseteq Kinds
      /\ Stages \subseteq Kinds /\ Streams \subseteq Kinds
  BY DEF Kinds
<1>3. /\ "output" \notin Stages \cup Streams /\ "in_use" \notin Stages \cup Streams
      /\ "releasing" \notin Stages \cup Streams
      /\ "free" \notin Stages \cup Streams /\ "held" \notin Stages \cup Streams
  BY DEF Stages, Streams
<1>4. C["free"] = free /\ C["held"] = own
  BY <1>1, <1>2, <1>3
<1>5. /\ C["output"] = Column(s, HasOutput, out, Field(s))
      /\ C["in_use"] = Column(s, HasOutput, use, Field(s)) /\ C["releasing"] = rel
  BY <1>1, <1>2, <1>3
<1>6. \A l \in Stages : C[l] = Column(l, OwningQueues(s), ready[l], s)
  BY <1>1, <1>2, KindsDiffer
<1>7. \A l \in Streams : C[l] = Column(l, StreamsOf(s), strs[l], "slot")
  BY <1>1, <1>2, KindsDiffer
<1> QED BY <1>4, <1>5, <1>6, <1>7 DEF Listed

\* Columns of queues that shrink and grow.
LEMMA EmptyColumn ==
  ASSUME NEW x, NEW T, x \notin T, NEW q, NEW r, NEW f
  PROVE  Column(x, T, r, f) = Column(x, T, q, f)
BY DEF Column

\* Taking the first element of a queue takes the first one of its column.
LEMMA ColumnTail ==
  ASSUME NEW x, NEW T, x \in T, NEW S, NEW q \in Seq(S), q # <<>>, NEW f
  PROVE  /\ Shorter(Column(x, T, q, f), Column(x, T, Tail(q), f))
         /\ Column(x, T, q, f)[1] = Head(q)[f]
<1>1. PICK n \in Nat \ {0} : /\ n = Len(q) /\ DOMAIN q = 1 .. n /\ DOMAIN Tail(q) = 1 .. n - 1
                             /\ \A k \in 1 .. n - 1 : Tail(q)[k] = q[k + 1]
                             /\ Head(q) = q[1]
  BY SMT
<1>2. PICK p, r : p = Column(x, T, q, f) /\ r = Column(x, T, Tail(q), f)
  OBVIOUS
<1>3. /\ DOMAIN p = 1 .. n /\ DOMAIN r = 1 .. n - 1
      /\ \A k \in 1 .. n : p[k] = q[k][f]
      /\ \A k \in 1 .. n - 1 : r[k] = Tail(q)[k][f]
  BY <1>1, <1>2 DEF Column
<1>4. \A k \in 1 .. n - 1 : k + 1 \in 1 .. n
  BY SMTT(30)
<1>5. \A k \in 1 .. n - 1 : r[k] = p[k + 1]
  BY <1>1, <1>3, <1>4, SMT
<1>6. 1 \in 1 .. n
  BY SMT
<1> QED BY <1>1, <1>2, <1>3, <1>5, <1>6 DEF Shorter

\* Appending to a queue appends to its column.
LEMMA ColumnAppend ==
  ASSUME NEW x, NEW T, x \in T, NEW S, NEW q \in Seq(S), NEW e \in S, NEW f
  PROVE  With(Column(x, T, q, f), Column(x, T, Append(q, e), f), Len(q) + 1, e[f])
<1>1. PICK n \in Nat : /\ n = Len(q) /\ DOMAIN q = 1 .. n
                       /\ DOMAIN Append(q, e) = 1 .. n + 1 /\ Append(q, e)[n + 1] = e
                       /\ \A k \in 1 .. n : Append(q, e)[k] = q[k]
  BY SMT
<1>2. PICK p, r : p = Column(x, T, q, f) /\ r = Column(x, T, Append(q, e), f)
  OBVIOUS
<1>3. /\ DOMAIN p = 1 .. n /\ DOMAIN r = 1 .. n + 1
      /\ \A k \in 1 .. n : p[k] = q[k][f]
      /\ \A k \in 1 .. n + 1 : r[k] = Append(q, e)[k][f]
  BY <1>1, <1>2 DEF Column
<1>4. /\ \A k \in 1 .. n : k \in 1 .. n + 1
      /\ n + 1 \in 1 .. n + 1 /\ n + 1 \notin 1 .. n /\ 1 .. n + 1 = 1 .. n \cup {n + 1}
  BY SMT
<1>5. /\ n + 1 \notin DOMAIN p /\ DOMAIN r = DOMAIN p \cup {n + 1} /\ r[n + 1] = e[f]
      /\ \A k \in DOMAIN p : r[k] = p[k]
  BY <1>1, <1>3, <1>4, SMT
<1> QED BY <1>1, <1>2, <1>5 DEF With

\* The same for the queue itself: its first element is taken.
LEMMA QueueTail ==
  ASSUME NEW S, NEW q \in Seq(S), q # <<>>
  PROVE  Shorter(q, Tail(q)) /\ q[1] = Head(q)
<1>1. /\ Len(q) \in Nat \ {0} /\ DOMAIN q = 1 .. Len(q) /\ DOMAIN Tail(q) = 1 .. Len(q) - 1
      /\ \A k \in 1 .. Len(q) - 1 : Tail(q)[k] = q[k + 1]
      /\ Head(q) = q[1]
  BY SMT
<1> QED BY <1>1 DEF Shorter

\* And an element is appended.
LEMMA QueueAppend ==
  ASSUME NEW S, NEW q \in Seq(S), NEW x \in S
  PROVE  With(q, Append(q, x), Len(q) + 1, x)
<1>1. /\ DOMAIN q = 1 .. Len(q) /\ Len(q) \in Nat
      /\ DOMAIN Append(q, x) = 1 .. Len(q) + 1 /\ Append(q, x)[Len(q) + 1] = x
      /\ \A k \in 1 .. Len(q) : Append(q, x)[k] = q[k]
  BY SMT
<1>2. PICK n \in Nat : n = Len(q)
  BY <1>1
<1>3. n + 1 \notin 1 .. n /\ 1 .. n + 1 = 1 .. n \cup {n + 1}
  BY SMT
<1> QED BY <1>1, <1>2, <1>3 DEF With

\* C and D are the parts now and after a step.
Both(s, C, D) ==
  /\ C = PartsOf(s) /\ D = PartsOf(s)'
  /\ Listed(s, C, stage_free[s], Held(s), stage_ready, streams, ready_output_queue, in_use_queue,
            Released(s))
  /\ Listed(s, D, stage_free'[s], Held(s)', stage_ready', streams', ready_output_queue',
            in_use_queue', Released(s)')

\* The table of stage s before and after a step, under names of their own.
LEMMA PartsNow ==
  ASSUME NEW s \in Stages
  PROVE  \E C, D : Both(s, C, D)
<1>1. PICK C, D : C = PartsOf(s) /\ D = PartsOf(s)'
  OBVIOUS
<1>2. C = Parts(s, stage_free[s], Held(s), stage_ready, streams, ready_output_queue, in_use_queue,
                Released(s))
  BY <1>1 DEF PartsOf
<1>3. D = Parts(s, stage_free'[s], Held(s)', stage_ready', streams', ready_output_queue',
                in_use_queue', Released(s)')
  BY <1>1 DEF PartsOf
<1>4. /\ Listed(s, C, stage_free[s], Held(s), stage_ready, streams, ready_output_queue,
                in_use_queue, Released(s))
      /\ Listed(s, D, stage_free'[s], Held(s)', stage_ready', streams', ready_output_queue',
                in_use_queue', Released(s)')
  BY <1>2, <1>3, PartsAre
<1>5. Both(s, C, D)
  BY <1>1, <1>4 DEF Both
<1> QED BY <1>5

\* What a step leaves alone.
LEMMA SameParts ==
  ASSUME NEW s \in Stages, NEW L, NEW C, NEW D, Both(s, C, D),
         "free" \notin L => stage_free'[s] = stage_free[s],
         "held" \notin L => Held(s)' = Held(s),
         \A l \in Stages : l \notin L /\ l \in OwningQueues(s) => stage_ready'[l] = stage_ready[l],
         \A l \in Streams : l \notin L /\ l \in StreamsOf(s) => streams'[l] = streams[l],
         "output" \notin L /\ s \in HasOutput => ready_output_queue' = ready_output_queue,
         "in_use" \notin L /\ s \in HasOutput => in_use_queue' = in_use_queue,
         "releasing" \notin L => Released(s)' = Released(s)
  PROVE  SameBut(C, D, L)
<1>1. ("free" \in L \/ D["free"] = C["free"]) /\ ("held" \in L \/ D["held"] = C["held"])
      /\ ("releasing" \in L \/ D["releasing"] = C["releasing"])
  BY DEF Both, Listed
<1>2. ASSUME "output" \notin L PROVE D["output"] = C["output"]
  <2>1. CASE s \in HasOutput
    BY <1>2, <2>1 DEF Both, Listed
  <2>2. CASE s \notin HasOutput
    <3>1. /\ C["output"] = Column(s, HasOutput, ready_output_queue, Field(s))
          /\ D["output"] = Column(s, HasOutput, ready_output_queue', Field(s))
      BY DEF Both, Listed
    <3> QED BY <2>2, <3>1, EmptyColumn
  <2> QED BY <2>1, <2>2
<1>3. ASSUME "in_use" \notin L PROVE D["in_use"] = C["in_use"]
  <2>1. CASE s \in HasOutput
    BY <1>3, <2>1 DEF Both, Listed
  <2>2. CASE s \notin HasOutput
    <3>1. /\ C["in_use"] = Column(s, HasOutput, in_use_queue, Field(s))
          /\ D["in_use"] = Column(s, HasOutput, in_use_queue', Field(s))
      BY DEF Both, Listed
    <3> QED BY <2>2, <3>1, EmptyColumn
  <2> QED BY <2>1, <2>2
<1>4. ASSUME NEW l \in Stages, l \notin L PROVE D[l] = C[l]
  <2>1. CASE l \in OwningQueues(s)
    BY <1>4, <2>1, ZenonT(40) DEF Both, Listed
  <2>2. CASE l \notin OwningQueues(s)
    <3>1. /\ C[l] = Column(l, OwningQueues(s), stage_ready[l], s)
          /\ D[l] = Column(l, OwningQueues(s), stage_ready'[l], s)
      BY DEF Both, Listed
    <3> QED BY <2>2, <3>1, EmptyColumn
  <2> QED BY <2>1, <2>2
<1>5. ASSUME NEW l \in Streams, l \notin L PROVE D[l] = C[l]
  <2>1. CASE l \in StreamsOf(s)
    BY <1>5, <2>1, ZenonT(40) DEF Both, Listed
  <2>2. CASE l \notin StreamsOf(s)
    <3>1. /\ C[l] = Column(l, StreamsOf(s), streams[l], "slot")
          /\ D[l] = Column(l, StreamsOf(s), streams'[l], "slot")
      BY DEF Both, Listed
    <3> QED BY <2>2, <3>1, EmptyColumn
  <2> QED BY <2>1, <2>2
<1> QED BY <1>1, <1>2, <1>3, <1>4, <1>5 DEF SameBut, Kinds

-----------------------------------------------------------------------------
\* The stages whose index a thread gets from the previous stage, and whose index
\* a ready queue carries.
Brought ==
  [SUPPORT |-> {}, CPU |-> {"SUPPORT"}, MIXED |-> {"SUPPORT", "CPU"}, GPU |-> {"SUPPORT", "MIXED"}]
Carried ==
  [SUPPORT |-> {"SUPPORT"}, CPU |-> {"SUPPORT", "CPU"}, MIXED |-> {"SUPPORT", "MIXED"},
   GPU |-> {"SUPPORT", "MIXED", "GPU"}]

\* Which indices a thread owns at each point of its stage.
LEMMA OwnsTable ==
  ASSUME NEW s \in Stages, NEW t \in Stages, NEW a, NEW idxs
  PROVE  /\ a = "none" \/ a = "ready" => ~Owns(s, t, a, idxs)
         /\ a = "free" => (Owns(s, t, a, idxs) <=> idxs # Invalid /\ s \in Brought[t])
         /\ a = "held" => (Owns(s, t, a, idxs) <=> idxs # Invalid /\ s \in Brought[t] \cup {t})
         /\ a = "release" /\ t = "MIXED" =>
              (Owns(s, t, a, idxs) <=> idxs # Invalid /\ s \in {"SUPPORT", "MIXED"})
         /\ a = "release" /\ t = "GPU" => (Owns(s, t, a, idxs) <=> idxs # Invalid /\ s = "SUPPORT")
<1> USE DEF Stages, Position, PreviousStage, Brought
<1>1. a = "none" \/ a = "ready" => ~Owns(s, t, a, idxs)
  BY DEF Owns
<1>2. a = "free" => (Owns(s, t, a, idxs) <=> idxs # Invalid /\ s \in Brought[t])
  BY SMT DEF Owns
<1>3. a = "held" => (Owns(s, t, a, idxs) <=> idxs # Invalid /\ s \in Brought[t] \cup {t})
  BY SMT DEF Owns
<1>4. a = "release" /\ t = "MIXED" =>
        (Owns(s, t, a, idxs) <=> idxs # Invalid /\ s \in {"SUPPORT", "MIXED"})
  BY SMT DEF Owns
<1>5. a = "release" /\ t = "GPU" => (Owns(s, t, a, idxs) <=> idxs # Invalid /\ s = "SUPPORT")
  BY SMT DEF Owns
<1> QED BY <1>1, <1>2, <1>3, <1>4, <1>5

\* What a ready queue carries is what the next stage brings from it.
LEMMA CarriedBy ==
  /\ \A s, r \in Stages : r \in OwningQueues(s) <=> s \in Carried[r]
  /\ \A t \in Stages : t # "SUPPORT" => Brought[t] = Carried[PreviousStage[t]]
  /\ \A t \in Stages : t # "MIXED" => Brought[t] \cup {t} = Carried[t]
  /\ Carried["MIXED"] = {"SUPPORT", "MIXED"}
<1> USE DEF Stages, PreviousStage, Brought, Carried
<1>1. \A s, r \in Stages : r \in OwningQueues(s) <=> s \in Carried[r]
  BY SMTT(30) DEF OwningQueues
<1>2. \A t \in Stages : t # "SUPPORT" => Brought[t] = Carried[PreviousStage[t]]
  BY SMT
<1>3. \A t \in Stages : t # "MIXED" => Brought[t] \cup {t} = Carried[t]
  BY SMT
<1>4. Carried["MIXED"] = {"SUPPORT", "MIXED"}
  OBVIOUS
<1> QED BY <1>1, <1>2, <1>3, <1>4

\* The owners of indices of stage s, before and after a step.
LEMMA OwnersAre ==
  ASSUME NEW s \in Stages
  PROVE  /\ \A t : t \in Owners(s) <=> t \in Stages /\ Owns(s, t, acq[t], held[t])
         /\ \A t : t \in Owners(s)' <=> t \in Stages /\ Owns(s, t, acq'[t], held'[t])
<1>1. \A t : t \in Owners(s) <=> t \in Stages /\ Owns(s, t, acq[t], held[t])
  BY DEF Owners, Owns
<1>2. \A t : t \in Owners(s)' <=> t \in Stages /\ Owns(s, t, acq'[t], held'[t])
  BY DEF Owners, Owns
<1> QED BY <1>1, <1>2

\* A step of thread t, from point a with idxs to point a2 with idxs2: what happens
\* to the index of s that it owns, does not own, gets or loses.
LEMMA HeldMoves ==
  ASSUME NEW s \in Stages, NEW t \in Stages, NEW a, NEW idxs, NEW a2, NEW idxs2,
         a = acq[t], idxs = held[t], a2 = acq'[t], idxs2 = held'[t],
         \A u \in Stages : u # t => acq'[u] = acq[u] /\ held'[u] = held[u]
  PROVE  /\ ~Owns(s, t, a, idxs) /\ ~Owns(s, t, a2, idxs2) => Held(s)' = Held(s)
         /\ Owns(s, t, a, idxs) /\ Owns(s, t, a2, idxs2) /\ idxs2[s] = idxs[s] => Held(s)' = Held(s)
         /\ Owns(s, t, a, idxs) /\ ~Owns(s, t, a2, idxs2) =>
              Without(Held(s), Held(s)', t) /\ Held(s)[t] = idxs[s]
         /\ ~Owns(s, t, a, idxs) /\ Owns(s, t, a2, idxs2) => With(Held(s), Held(s)', t, idxs2[s])
<1>1. /\ DOMAIN Held(s) = Owners(s) /\ DOMAIN Held(s)' = Owners(s)'
      /\ \A u \in Owners(s) : Held(s)[u] = held[u][s]
      /\ \A u \in Owners(s)' : Held(s)'[u] = held'[u][s]
  BY DEF Held
<1>2. /\ t \in Owners(s) <=> Owns(s, t, a, idxs)
      /\ t \in Owners(s)' <=> Owns(s, t, a2, idxs2)
      /\ \A u : u # t => (u \in Owners(s)' <=> u \in Owners(s))
      /\ \A u \in Owners(s) : u # t => held'[u] = held[u]
  BY OwnersAre
<1>3. CASE (t \in Owners(s)' <=> t \in Owners(s)) /\ (t \in Owners(s) => idxs2[s] = idxs[s])
  <2>1. Owners(s)' = Owners(s) /\ \A u \in Owners(s) : held'[u][s] = held[u][s]
    BY <1>2, <1>3, SMT
  <2>2. Held(s)' = Held(s)
    BY <2>1 DEF Held
  <2> QED BY <1>2, <1>3, <2>2
<1>4. CASE t \in Owners(s) /\ t \notin Owners(s)'
  <2>1. Owners(s)' = Owners(s) \ {t} /\ \A u \in Owners(s)' : held'[u][s] = held[u][s]
    BY <1>2, <1>4
  <2>2. Without(Held(s), Held(s)', t) /\ Held(s)[t] = idxs[s]
    BY <1>1, <1>4, <2>1 DEF Without
  <2> QED BY <1>2, <1>4, <2>2
<1>5. CASE t \notin Owners(s) /\ t \in Owners(s)'
  <2>1. Owners(s)' = Owners(s) \cup {t} /\ \A u \in Owners(s) : held'[u][s] = held[u][s]
    BY <1>2, <1>5
  <2>2. With(Held(s), Held(s)', t, idxs2[s])
    BY <1>1, <1>5, <2>1 DEF With
  <2> QED BY <1>2, <1>5, <2>2
<1>6. CASE t \in Owners(s) /\ t \in Owners(s)' /\ idxs2[s] # idxs[s]
  BY <1>2, <1>6
<1> QED BY <1>3, <1>4, <1>5, <1>6

\* Thread t keeps the index of stage s that it has, if any.
LEMMA HeldStays ==
  ASSUME NEW s \in Stages, NEW t \in Stages,
         \A u \in Stages : u # t => acq'[u] = acq[u] /\ held'[u] = held[u],
         Owns(s, t, acq'[t], held'[t]) <=> Owns(s, t, acq[t], held[t]),
         held'[t][s] = held[t][s]
  PROVE  Held(s)' = Held(s)
<1>1. \A u : u \in Owners(s)' <=> u \in Owners(s)
  BY OwnersAre
<1>2. Owners(s)' = Owners(s)
  BY <1>1
<1>3. \A u \in Owners(s) : held'[u][s] = held[u][s]
  BY OwnersAre
<1> QED BY <1>2, <1>3 DEF Held

\* What a stage acquires without a stop is valid.
LEMMA NotInvalid == \A s \in Stages : \A idxs \in IdxsUpTo(s) : idxs # Invalid
<1> SUFFICES ASSUME NEW s \in Stages, NEW idxs \in IdxsUpTo(s) PROVE idxs # Invalid
  OBVIOUS
<1>1. Position[s] <= Position[s]
  BY SMT DEF Position, Stages
<1>2. idxs[s] \in Index(s)
  BY <1>1 DEF IdxsUpTo
<1>3. idxs[s] # kInvalidIdx
  BY <1>2, SMT DEF Index, kInvalidIdx
<1>4. Invalid[s] = kInvalidIdx
  BY DEF Invalid
<1> QED BY <1>3, <1>4

\* The point and the indices of thread t after its step.
LEMMA ThreadStep ==
  ASSUME HeldType, NEW t \in Stages, NEW a, NEW idxs,
         acq' = [acq EXCEPT ![t] = a], held' = [held EXCEPT ![t] = idxs]
  PROVE  /\ acq'[t] = a /\ held'[t] = idxs
         /\ \A u \in Stages : u # t => acq'[u] = acq[u] /\ held'[u] = held[u]
BY DEF HeldType

\* Nothing that holds an index of stage s changes.
LEMMA NothingMoves ==
  ASSUME OwnerInv, NEW s \in Stages, stage_free'[s] = stage_free[s], Held(s)' = Held(s),
         \A l \in Stages : l \in OwningQueues(s) => stage_ready'[l] = stage_ready[l],
         \A l \in Streams : l \in StreamsOf(s) => streams'[l] = streams[l],
         s \in HasOutput => ready_output_queue' = ready_output_queue,
         s \in HasOutput => in_use_queue' = in_use_queue,
         Released(s)' = Released(s)
  PROVE  Ring(PartsOf(s)', Index(s), ~Aborting)
<1>1. PICK C, D : Both(s, C, D)
  BY PartsNow
<1>2. SameBut(C, D, {})
  BY <1>1, SameParts
<1>3. Ring(C, Index(s), ~Aborting)
  BY <1>1 DEF OwnerInv, Both
<1>4. Ring(D, Index(s), ~Aborting)
  BY <1>2, <1>3, SameRing
<1> QED BY <1>1, <1>4 DEF Both

\* A step that leaves the table of stage s as it is.
LEMMA NoneMoves ==
  ASSUME OwnerInv, NEW s \in Stages, NEW C, NEW D, Both(s, C, D), SameBut(C, D, {})
  PROVE  Ring(PartsOf(s)', Index(s), ~Aborting)
<1>1. Ring(C, Index(s), ~Aborting)
  BY DEF OwnerInv, Both
<1>2. Ring(D, Index(s), ~Aborting)
  BY <1>1, SameRing
<1> QED BY <1>2 DEF Both

\* The kinds of places, as members of Kinds.
LEMMA KindsAre ==
  /\ "free" \in Kinds /\ "held" \in Kinds /\ "output" \in Kinds /\ "in_use" \in Kinds
  /\ "releasing" \in Kinds /\ Stages \subseteq Kinds /\ Streams \subseteq Kinds
BY DEF Kinds

\* The first index of a queue moves, or the index at a position.
LEMMA HeadMoves ==
  ASSUME OwnerInv, NEW s \in Stages, NEW C, NEW D, Both(s, C, D), NEW l \in Kinds, NEW m \in Kinds,
         l # m, NEW p, NEW i,
         SameBut(C, D, {l, m}), Shorter(C[l], D[l]), i = C[l][1], With(C[m], D[m], p, i)
  PROVE  Ring(PartsOf(s)', Index(s), ~Aborting)
<1>1. PICK b : b = ~Aborting
  OBVIOUS
<1>2. PICK I : I = Index(s)
  OBVIOUS
<1>3. Ring(C, I, b)
  BY <1>1, <1>2 DEF OwnerInv, Both
<1>4. \A B : SameBut(C, B, {l}) /\ B[l] = D[l] => RingBut(B, I, i, b) /\ i \in I
  BY <1>3, TakeHead
<1>5. PICK B : B = [o \in Kinds |-> IF o = l THEN D[l] ELSE C[o]]
  OBVIOUS
<1>6. B[l] = D[l] /\ \A o \in Kinds : o # l => B[o] = C[o]
  BY <1>5
<1>7. B[m] = C[m] /\ SameBut(C, B, {l}) /\ SameBut(B, D, {m})
  BY <1>6 DEF SameBut
<1>8. Ring(D, I, b)
  BY <1>4, <1>6, <1>7, PutAt
<1> QED BY <1>1, <1>2, <1>8 DEF Both

\* A step that moves one index from a place of one kind to one of another.
LEMMA OneMoves ==
  ASSUME OwnerInv, NEW s \in Stages, NEW C, NEW D, Both(s, C, D), NEW l \in Kinds, NEW m \in Kinds,
         l # m, NEW t, NEW p, NEW i,
         SameBut(C, D, {l, m}), Without(C[l], D[l], t), i = C[l][t], With(C[m], D[m], p, i)
  PROVE  Ring(PartsOf(s)', Index(s), ~Aborting)
<1>1. PICK b : b = ~Aborting
  OBVIOUS
<1>2. PICK I : I = Index(s)
  OBVIOUS
<1>3. Ring(C, I, b)
  BY <1>1, <1>2 DEF OwnerInv, Both
<1>4. Ring(D, I, b)
  BY <1>3, MoveAt
<1> QED BY <1>1, <1>2, <1>4 DEF Both

\* A thread takes what the previous stage has made ready.
LEMMA AcquireReadyMoves ==
  ASSUME TypeOK, OwnerInv, NEW t \in Stages, AcquireReady(t), NEW s \in Stages
  PROVE  Ring(PartsOf(s)', Index(s), ~Aborting)
<1>t. HeldType /\ ReadyType
  BY DEF TypeOK
<1>1. PICK p \in Stages : p = PreviousStage[t] /\ t # "SUPPORT"
  BY SMT DEF AcquireReady, PreviousStage, HasPreviousStage, Stages
<1>2. /\ acq[t] = "ready"
      /\ UNCHANGED <<stage_free, streams, ready_output_queue, in_use_queue, user, releasing>>
  BY DEF AcquireReady
<1>3. Released(s)' = Released(s)
  BY <1>2 DEF Released
<1>4. ~Owns(s, t, acq[t], held[t])
  BY <1>2, OwnsTable
<1>5. CASE stage_ready_stop[p]
  <2>1. /\ held' = [held EXCEPT ![t] = Invalid] /\ acq' = [acq EXCEPT ![t] = "held"]
        /\ stage_ready' = stage_ready
    BY <1>1, <1>5 DEF AcquireReady
  <2>2. /\ acq'[t] = "held" /\ held'[t] = Invalid
        /\ \A u \in Stages : u # t => acq'[u] = acq[u] /\ held'[u] = held[u]
    BY <1>t, <2>1, ThreadStep
  <2>3. ~Owns(s, t, acq'[t], held'[t])
    BY <2>2, OwnsTable
  <2>4. Held(s)' = Held(s)
    BY <1>4, <2>2, <2>3, HeldMoves
  <2> QED BY <1>2, <1>3, <2>1, <2>4, NothingMoves
<1>6. CASE ~stage_ready_stop[p] /\ stage_ready[p] = <<>>
  <2>1. UNCHANGED <<acq, held, stage_ready>>
    BY <1>1, <1>6 DEF AcquireReady
  <2>2. Held(s)' = Held(s)
    BY <2>1 DEF Held, Owners
  <2> QED BY <1>2, <1>3, <2>1, <2>2, NothingMoves
<1>7. CASE ~stage_ready_stop[p] /\ stage_ready[p] # <<>>
  <2>1. /\ held' = [held EXCEPT ![t] = Head(stage_ready[p])]
        /\ acq' = [acq EXCEPT ![t] = "free"]
        /\ stage_ready' = [stage_ready EXCEPT ![p] = Tail(@)]
    BY <1>1, <1>7 DEF AcquireReady
  <2>2. /\ acq'[t] = "free" /\ held'[t] = Head(stage_ready[p])
        /\ \A u \in Stages : u # t => acq'[u] = acq[u] /\ held'[u] = held[u]
    BY <1>t, <2>1, ThreadStep
  <2>3. stage_ready[p] \in Seq(IdxsUpTo(p)) /\ DOMAIN stage_ready = Stages
    BY <1>t DEF ReadyType
  <2>4. held'[t] # Invalid
    <3>1. Head(stage_ready[p]) \in IdxsUpTo(p)
      BY <1>7, <2>3, SMT
    <3> QED BY <2>2, <3>1, NotInvalid
  <2>5. /\ stage_ready'[p] = Tail(stage_ready[p])
        /\ \A l \in Stages : l # p => stage_ready'[l] = stage_ready[l]
    BY <2>1, <2>3
  <2>6. Owns(s, t, acq'[t], held'[t]) <=> s \in Brought[t]
    BY <2>2, <2>4, OwnsTable, SMT
  <2>7. p \in OwningQueues(s) <=> s \in Brought[t]
    BY <1>1, CarriedBy
  <2>8. CASE s \notin Brought[t]
    <3>1. Held(s)' = Held(s)
      BY <1>4, <2>2, <2>6, <2>8, HeldMoves
    <3>2. \A l \in Stages : l \in OwningQueues(s) => stage_ready'[l] = stage_ready[l]
      BY <2>5, <2>7, <2>8
    <3> QED BY <1>2, <1>3, <3>1, <3>2, NothingMoves
  <2>9. CASE s \in Brought[t]
    <3>1. With(Held(s), Held(s)', t, Head(stage_ready[p])[s])
      BY <1>4, <2>2, <2>6, <2>9, HeldMoves
    <3>2. PICK C, D : Both(s, C, D)
      BY PartsNow
    <3>3. SameBut(C, D, {p, "held"})
      <4>1. \A l \in Stages : l \notin {p, "held"} => stage_ready'[l] = stage_ready[l]
        BY <2>5
      <4> QED BY <1>2, <1>3, <3>2, <4>1, SameParts
    <3>4. /\ C[p] = Column(p, OwningQueues(s), stage_ready[p], s)
          /\ D[p] = Column(p, OwningQueues(s), Tail(stage_ready[p]), s)
          /\ C["held"] = Held(s) /\ D["held"] = Held(s)'
      BY <2>5, <3>2 DEF Both, Listed
    <3>5. Shorter(C[p], D[p]) /\ C[p][1] = Head(stage_ready[p])[s]
      <4>1. PICK q, T : q = stage_ready[p] /\ T = OwningQueues(s)
        OBVIOUS
      <4>2. p \in T /\ q \in Seq(IdxsUpTo(p)) /\ q # <<>>
        BY <1>7, <2>3, <2>7, <2>9, <4>1, ZenonT(40)
      <4>3. Shorter(Column(p, T, q, s), Column(p, T, Tail(q), s)) /\ Column(p, T, q, s)[1] = Head(q)[s]
        BY <4>2, ColumnTail, SMT
      <4> QED BY <3>4, <4>1, <4>3
    <3>6. With(C["held"], D["held"], t, C[p][1]) /\ p # "held" /\ p \in Kinds /\ "held" \in Kinds
      BY <3>1, <3>4, <3>5, KindsAre, KindsDiffer
    <3> QED BY <3>2, <3>3, <3>5, <3>6, HeadMoves
  <2> QED BY <2>8, <2>9
<1> QED BY <1>5, <1>6, <1>7

\* A thread takes a free index of its stage, or drops what it has when stopped.
LEMMA AcquireFreeMoves ==
  ASSUME TypeOK, OwnerInv, NEW t \in Stages, AcquireFree(t), NEW s \in Stages
  PROVE  Ring(PartsOf(s)', Index(s), ~Aborting)
<1>t. HeldType /\ FreeType
  BY DEF TypeOK
<1>2. /\ acq[t] = "free"
      /\ UNCHANGED <<stage_ready, streams, ready_output_queue, in_use_queue, user, releasing>>
  BY DEF AcquireFree
<1>3. Released(s)' = Released(s)
  BY <1>2 DEF Released
<1>4. Owns(s, t, acq[t], held[t]) <=> held[t] # Invalid /\ s \in Brought[t]
  BY <1>2, OwnsTable
<1>5. CASE stage_free_stop[t]
  <2>1. /\ held' = [held EXCEPT ![t] = Invalid] /\ acq' = [acq EXCEPT ![t] = "held"]
        /\ stage_free' = stage_free
    BY <1>5 DEF AcquireFree
  <2>2. /\ acq'[t] = "held" /\ held'[t] = Invalid
        /\ \A u \in Stages : u # t => acq'[u] = acq[u] /\ held'[u] = held[u]
    BY <1>t, <2>1, ThreadStep
  <2>3. ~Owns(s, t, acq'[t], held'[t])
    BY <2>2, OwnsTable
  <2>4. CASE ~Owns(s, t, acq[t], held[t])
    <3>1. Held(s)' = Held(s)
      BY <2>2, <2>3, <2>4, HeldMoves
    <3> QED BY <1>2, <1>3, <2>1, <3>1, NothingMoves
  <2>5. CASE Owns(s, t, acq[t], held[t])
    <3>1. Without(Held(s), Held(s)', t)
      BY <2>2, <2>3, <2>5, HeldMoves
    <3>2. PICK C, D : Both(s, C, D)
      BY PartsNow
    <3>3. SameBut(C, D, {"held"})
      BY <1>2, <1>3, <2>1, <3>2, SameParts
    <3>4. Without(C["held"], D["held"], t) /\ "held" \in Kinds
      BY <3>1, <3>2, KindsAre DEF Both, Listed
    <3>5. Ring(C, Index(s), ~Aborting)
      BY <3>2 DEF OwnerInv, Both
    <3>6. Ring(D, Index(s), FALSE)
      BY <3>3, <3>4, <3>5, DropAt
    <3>7. ready_stop
      BY <1>5 DEF OwnerInv
    <3>8. Ring(D, Index(s), ~Aborting)
      BY <3>6, <3>7, LessRing DEF Aborting
    <3> QED BY <3>2, <3>8 DEF Both
  <2> QED BY <2>4, <2>5
<1>6. CASE ~stage_free_stop[t] /\ stage_free[t] = <<>>
  <2>1. UNCHANGED <<acq, held, stage_free>>
    BY <1>6 DEF AcquireFree
  <2>2. Held(s)' = Held(s)
    BY <2>1 DEF Held, Owners
  <2> QED BY <1>2, <1>3, <2>1, <2>2, NothingMoves
<1>7. CASE ~stage_free_stop[t] /\ stage_free[t] # <<>>
  <2>0. stage_free[t] \in Seq(Index(t)) /\ DOMAIN stage_free = Stages
    BY <1>t DEF FreeType
  <2>1. /\ held' = [held EXCEPT ![t] = [held[t] EXCEPT ![t] = Head(stage_free[t])]]
        /\ acq' = [acq EXCEPT ![t] = "held"]
        /\ stage_free' = [stage_free EXCEPT ![t] = Tail(@)]
    BY <1>7 DEF AcquireFree
  <2>2. /\ acq'[t] = "held" /\ held'[t] = [held[t] EXCEPT ![t] = Head(stage_free[t])]
        /\ \A u \in Stages : u # t => acq'[u] = acq[u] /\ held'[u] = held[u]
    BY <1>t, <2>1, ThreadStep
  <2>3. held[t] \in QueueIdxs /\ (t = "SUPPORT" => held[t] = Fresh)
        /\ (t # "SUPPORT" => held[t] \in IdxsUpTo(PreviousStage[t]) /\ PreviousStage[t] \in Stages)
    <3>1. HeldAt(t, "free", held[t])
      BY <1>t, <1>2 DEF HeldType
    <3>2. t # "SUPPORT" => PreviousStage[t] \in Stages
      BY SMT DEF PreviousStage, Stages
    <3> QED BY <3>1, <3>2 DEF HeldAt, HasPreviousStage
  <2>4. held[t] # Invalid
    <3>1. Fresh # Invalid
      <4>1. Fresh["CPU"] = 0 /\ Invalid["CPU"] = kInvalidIdx
        BY DEF Fresh, Invalid, Stages
      <4>2. 0 # kInvalidIdx
        BY SMT DEF kInvalidIdx
      <4> QED BY <4>1, <4>2
    <3> QED BY <2>3, <3>1, NotInvalid
  <2>5. /\ held'[t][t] = Head(stage_free[t]) /\ \A u \in Stages : u # t => held'[t][u] = held[t][u]
        /\ Head(stage_free[t]) \in Index(t)
    <3>1. Head(stage_free[t]) \in Index(t)
      BY <1>7, <2>0, SMT
    <3> QED BY <2>2, <2>3, <3>1 DEF QueueIdxs
  <2>6. held'[t] # Invalid
    <3>1. Head(stage_free[t]) # kInvalidIdx
      BY <2>5, SMT DEF Index, kInvalidIdx
    <3>2. Invalid[t] = kInvalidIdx
      BY DEF Invalid
    <3> QED BY <2>5, <3>1, <3>2
  <2>7. Owns(s, t, acq'[t], held'[t]) <=> s \in Brought[t] \cup {t}
    BY <2>2, <2>6, OwnsTable
  <2>8. /\ stage_free'[t] = Tail(stage_free[t])
        /\ \A l \in Stages : l # t => stage_free'[l] = stage_free[l]
    BY <2>0, <2>1
  <2>9. CASE s # t
    <3>1. Held(s)' = Held(s)
      <4>1. Owns(s, t, acq'[t], held'[t]) <=> Owns(s, t, acq[t], held[t])
        BY <1>4, <2>4, <2>7, <2>9
      <4>2. held'[t][s] = held[t][s]
        BY <2>5, <2>9
      <4> QED BY <2>2, <4>1, <4>2, HeldStays
    <3>2. stage_free'[s] = stage_free[s]
      BY <2>8, <2>9
    <3> QED BY <1>2, <1>3, <3>1, <3>2, NothingMoves
  <2>10. CASE s = t
    <3>1. With(Held(s), Held(s)', t, Head(stage_free[s]))
      <4>1. ~Owns(s, t, acq[t], held[t]) /\ Owns(s, t, acq'[t], held'[t])
        <5>1. t \notin Brought[t]
          BY SMT DEF Brought, Stages
        <5> QED BY <1>4, <2>7, <2>10, <5>1
      <4>2. held'[t][s] = Head(stage_free[s])
        BY <2>5, <2>10
      <4>3. With(Held(s), Held(s)', t, held'[t][s])
        BY <2>2, <4>1, HeldMoves
      <4> QED BY <4>2, <4>3
    <3>2. PICK C, D : Both(s, C, D)
      BY PartsNow
    <3>3. SameBut(C, D, {"free", "held"})
      BY <1>2, <1>3, <3>2, SameParts
    <3>4. /\ C["free"] = stage_free[s] /\ D["free"] = Tail(stage_free[s])
          /\ C["held"] = Held(s) /\ D["held"] = Held(s)'
      BY <2>8, <2>10, <3>2 DEF Both, Listed
    <3>5. Shorter(stage_free[s], Tail(stage_free[s])) /\ stage_free[s][1] = Head(stage_free[s])
      BY <1>7, <2>0, <2>10, QueueTail
    <3>6. /\ Shorter(C["free"], D["free"]) /\ With(C["held"], D["held"], t, C["free"][1])
          /\ "free" # "held" /\ "free" \in Kinds /\ "held" \in Kinds
      BY <3>1, <3>4, <3>5, KindsAre
    <3> QED BY <3>2, <3>3, <3>6, HeadMoves
  <2> QED BY <2>9, <2>10
<1> QED BY <1>5, <1>6, <1>7

\* Thread t passes its index of stage s on.
LEMMA HeldLost ==
  ASSUME NEW s \in Stages, NEW t \in Stages, Owns(s, t, acq[t], held[t]),
         ~Owns(s, t, acq'[t], held'[t]),
         \A u \in Stages : u # t => acq'[u] = acq[u] /\ held'[u] = held[u]
  PROVE  Without(Held(s), Held(s)', t) /\ Held(s)[t] = held[t][s]
<1>1. PICK a, idxs, a2, idxs2 : a = acq[t] /\ idxs = held[t] /\ a2 = acq'[t] /\ idxs2 = held'[t]
  OBVIOUS
<1>2. Owns(s, t, a, idxs) /\ ~Owns(s, t, a2, idxs2)
  BY <1>1, ZenonT(40)
<1>3. Owns(s, t, a, idxs) /\ ~Owns(s, t, a2, idxs2) =>
        Without(Held(s), Held(s)', t) /\ Held(s)[t] = idxs[s]
  BY <1>1, HeldMoves, ZenonT(40)
<1> QED BY <1>1, <1>2, <1>3

\* A thread that holds no valid index of its stage holds none at all.
LEMMA ValidHeld ==
  ASSUME HeldType, NEW t \in Stages, acq[t] = "held" \/ acq[t] = "release"
  PROVE  /\ held[t] \in QueueIdxs
         /\ held[t][t] = kInvalidIdx => held[t] = Invalid
         /\ held[t][t] # kInvalidIdx => held[t] \in IdxsUpTo(t) /\ held[t] # Invalid
<1>1. held[t] \in QueueIdxs /\ (held[t] = Invalid \/ held[t] \in IdxsUpTo(t))
  BY DEF HeldType, HeldAt
<1>2. Position[t] <= Position[t]
  BY SMT DEF Position, Stages
<1>3. held[t] \in IdxsUpTo(t) => held[t][t] \in Index(t)
  BY <1>2 DEF IdxsUpTo
<1>4. \A i \in Index(t) : i # kInvalidIdx
  BY SMT DEF Index, kInvalidIdx
<1>5. Invalid[t] = kInvalidIdx
  BY DEF Invalid
<1>6. held[t] \in IdxsUpTo(t) => held[t] # Invalid
  BY NotInvalid
<1> QED BY <1>1, <1>3, <1>4, <1>5, <1>6

\* AcquireIdxs begins: the thread has nothing yet.
LEMMA AcquireIdxsMoves ==
  ASSUME TypeOK, OwnerInv, NEW t \in Stages, AcquireIdxs(t), NEW s \in Stages
  PROVE  Ring(PartsOf(s)', Index(s), ~Aborting)
<1>t. HeldType
  BY DEF TypeOK
<1>1. PICK a : a = IF HasPreviousStage(t) THEN "ready" ELSE "free"
  OBVIOUS
<1>2. /\ acq[t] = "none" /\ acq' = [acq EXCEPT ![t] = a] /\ held' = [held EXCEPT ![t] = Fresh]
      /\ UNCHANGED <<stage_free, stage_ready, ready_output_queue, in_use_queue, streams, user,
                     releasing>>
  BY <1>1 DEF AcquireIdxs, queues
<1>3. /\ acq'[t] = a
      /\ \A u \in Stages : u # t => acq'[u] = acq[u] /\ held'[u] = held[u]
  BY <1>t, <1>2, ThreadStep
<1>4. ~Owns(s, t, acq[t], held[t])
  BY <1>2, OwnsTable
<1>5. ~Owns(s, t, acq'[t], held'[t])
  <2>1. CASE a = "ready"
    BY <1>3, <2>1, OwnsTable
  <2>2. CASE a = "free" /\ t = "SUPPORT"
    <3>1. s \notin Brought[t]
      BY <2>2 DEF Brought
    <3> QED BY <1>3, <2>2, <3>1, OwnsTable
  <2> QED BY <1>1, <2>1, <2>2 DEF HasPreviousStage
<1>6. Held(s)' = Held(s)
  BY <1>3, <1>4, <1>5, HeldMoves
<1>7. Released(s)' = Released(s)
  BY <1>2 DEF Released
<1> QED BY <1>2, <1>6, <1>7, NothingMoves

\* ReleaseIdxs with an invalid index: there is nothing to release.
LEMMA ReleaseInvalidMoves ==
  ASSUME TypeOK, OwnerInv, NEW t \in Stages, ReleaseInvalid(t), NEW s \in Stages
  PROVE  Ring(PartsOf(s)', Index(s), ~Aborting)
<1>t. HeldType
  BY DEF TypeOK
<1>2. /\ acq[t] = "held" /\ held[t][t] = kInvalidIdx
      /\ acq' = [acq EXCEPT ![t] = "none"] /\ held' = [held EXCEPT ![t] = Invalid]
      /\ UNCHANGED <<stage_free, stage_ready, ready_output_queue, in_use_queue, streams, user,
                     releasing>>
  BY DEF ReleaseInvalid, Leave, queues
<1>3. /\ acq'[t] = "none"
      /\ \A u \in Stages : u # t => acq'[u] = acq[u] /\ held'[u] = held[u]
  BY <1>t, <1>2, ThreadStep
<1>4. held[t] = Invalid
  BY <1>t, <1>2, ValidHeld
<1>5. ~Owns(s, t, acq[t], held[t]) /\ ~Owns(s, t, acq'[t], held'[t])
  BY <1>2, <1>3, <1>4, OwnsTable
<1>6. Held(s)' = Held(s)
  BY <1>3, <1>5, HeldMoves
<1>7. Released(s)' = Released(s)
  BY <1>2 DEF Released
<1> QED BY <1>2, <1>6, <1>7, NothingMoves

\* A thread makes its indices ready for the next stage.
LEMMA ReleaseReadyMoves ==
  ASSUME TypeOK, OwnerInv, NEW t \in Stages, ReleaseReady(t), NEW s \in Stages
  PROVE  Ring(PartsOf(s)', Index(s), ~Aborting)
<1>t. HeldType /\ ReadyType
  BY DEF TypeOK
<1>1. stage_ready[t] \in Seq(IdxsUpTo(t)) /\ DOMAIN stage_ready = Stages
  BY <1>t DEF ReadyType
<1>2. /\ acq[t] = (IF t = "MIXED" THEN "release" ELSE "held") /\ held[t][t] # kInvalidIdx
      /\ acq' = [acq EXCEPT ![t] = "none"] /\ held' = [held EXCEPT ![t] = Invalid]
      /\ stage_ready' = [stage_ready EXCEPT ![t] = Append(@, held[t])]
      /\ UNCHANGED <<stage_free, ready_output_queue, in_use_queue, streams, user, releasing>>
  BY DEF ReleaseReady, Leave
<1>3. /\ acq'[t] = "none"
      /\ \A u \in Stages : u # t => acq'[u] = acq[u] /\ held'[u] = held[u]
  BY <1>t, <1>2, ThreadStep
<1>4. held[t] \in IdxsUpTo(t) /\ held[t] # Invalid
  <2>1. acq[t] = "held" \/ acq[t] = "release"
    BY <1>2
  <2> QED BY <1>t, <1>2, <2>1, ValidHeld
<1>5. Owns(s, t, acq[t], held[t]) <=> s \in Carried[t]
  <2>1. CASE t = "MIXED"
    <3>1. Owns(s, t, acq[t], held[t]) <=> s \in {"SUPPORT", "MIXED"}
      BY <1>2, <1>4, <2>1, OwnsTable
    <3> QED BY <2>1, <3>1, CarriedBy
  <2>2. CASE t # "MIXED"
    <3>1. Owns(s, t, acq[t], held[t]) <=> s \in Brought[t] \cup {t}
      BY <1>2, <1>4, <2>2, OwnsTable
    <3>2. Brought[t] \cup {t} = Carried[t]
      BY <2>2, CarriedBy
    <3> QED BY <3>1, <3>2
  <2> QED BY <2>1, <2>2
<1>6. ~Owns(s, t, acq'[t], held'[t])
  BY <1>3, OwnsTable
<1>7. Released(s)' = Released(s)
  BY <1>2 DEF Released
<1>8. /\ stage_ready'[t] = Append(stage_ready[t], held[t])
      /\ \A l \in Stages : l # t => stage_ready'[l] = stage_ready[l]
  BY <1>1, <1>2
<1>9. CASE s \in Carried[t]
  <2>0. Owns(s, t, acq[t], held[t])
    BY <1>5, <1>9
  <2>1. Without(Held(s), Held(s)', t) /\ Held(s)[t] = held[t][s]
    BY <1>3, <1>6, <2>0, HeldLost
  <2>2. PICK C, D : Both(s, C, D)
    BY PartsNow
  <2>3. SameBut(C, D, {"held", t})
    BY <1>2, <1>7, <1>8, <2>2, SameParts
  <2>4. /\ C["held"] = Held(s) /\ D["held"] = Held(s)'
        /\ C[t] = Column(t, OwningQueues(s), stage_ready[t], s)
        /\ D[t] = Column(t, OwningQueues(s), Append(stage_ready[t], held[t]), s)
    BY <1>8, <2>2 DEF Both, Listed
  <2>5. t \in OwningQueues(s)
    BY <1>9, CarriedBy
  <2>6. With(C[t], D[t], Len(stage_ready[t]) + 1, held[t][s])
    BY <1>1, <1>4, <2>4, <2>5, ColumnAppend
  <2>7. /\ Without(C["held"], D["held"], t) /\ held[t][s] = C["held"][t]
        /\ "held" # t /\ "held" \in Kinds /\ t \in Kinds
    BY <2>1, <2>4, KindsAre, KindsDiffer
  <2> QED BY <2>2, <2>3, <2>6, <2>7, OneMoves
<1>10. CASE s \notin Carried[t]
  <2>1. Held(s)' = Held(s)
    BY <1>3, <1>5, <1>6, <1>10, HeldMoves
  <2>2. t \notin OwningQueues(s)
    BY <1>10, CarriedBy
  <2>3. PICK C, D : Both(s, C, D)
    BY PartsNow
  <2>4. SameBut(C, D, {})
    BY <1>2, <1>7, <1>8, <2>1, <2>2, <2>3, SameParts
  <2>5. Ring(C, Index(s), ~Aborting)
    BY <2>3 DEF OwnerInv, Both
  <2>6. Ring(D, Index(s), ~Aborting)
    BY <2>4, <2>5, SameRing
  <2> QED BY <2>3, <2>6 DEF Both
<1> QED BY <1>9, <1>10

\* The MIXED stage has the CPU buffer given back by a callback.
LEMMA ReleaseCallbackMoves ==
  ASSUME TypeOK, OwnerInv, NEW x \in {"mixed", "default"}, ReleaseCallback(x), NEW s \in Stages
  PROVE  Ring(PartsOf(s)', Index(s), ~Aborting)
<1>t. HeldType /\ CallbackType
  BY DEF TypeOK
<1>x. x \in Streams /\ x \in StreamsOf("CPU") /\ (s # "CPU" => x \notin StreamsOf(s))
  BY DEF Streams, StreamsOf, Stages
<1>m. PICK t \in Stages : t = "MIXED"
  BY DEF Stages
<1>1. streams[x] \in Seq(ReleaseCommands) /\ DOMAIN streams = Streams
  BY <1>t, <1>x DEF CallbackType
<1>2. /\ acq[t] = "held" /\ held[t][t] # kInvalidIdx
      /\ acq' = [acq EXCEPT ![t] = "release"] /\ held' = held
      /\ streams' = [streams EXCEPT ![x] = Append(@, [release |-> "CPU", slot |-> held[t]["CPU"]])]
      /\ UNCHANGED <<stage_free, stage_ready, ready_output_queue, in_use_queue, user, releasing>>
  BY <1>m DEF ReleaseCallback, AddReleaseCallback, queues
<1>3. /\ acq'[t] = "release" /\ held'[t] = held[t]
      /\ \A u \in Stages : u # t => acq'[u] = acq[u] /\ held'[u] = held[u]
  BY <1>t, <1>2 DEF HeldType
<1>4. held[t] \in IdxsUpTo(t) /\ held[t] # Invalid
  BY <1>t, <1>2, ValidHeld
<1>5. Owns(s, t, acq[t], held[t]) <=> s # "GPU"
  <2>1. s \in Brought[t] \cup {t} <=> s # "GPU"
    BY <1>m DEF Brought, Stages
  <2> QED BY <1>2, <1>4, <2>1, OwnsTable
<1>6. Owns(s, t, acq'[t], held'[t]) <=> s = "SUPPORT" \/ s = "MIXED"
  BY <1>m, <1>3, <1>4, OwnsTable, SMT
<1>7. Released(s)' = Released(s)
  BY <1>2 DEF Released
<1>8. /\ streams'[x] = Append(streams[x], [release |-> "CPU", slot |-> held[t]["CPU"]])
      /\ \A l \in Streams : l # x => streams'[l] = streams[l]
  BY <1>1, <1>2, <1>x
<1>9. CASE s = "CPU"
  <2>0. Owns(s, t, acq[t], held[t]) /\ ~Owns(s, t, acq'[t], held'[t])
    BY <1>5, <1>6, <1>9
  <2>1. Without(Held(s), Held(s)', t) /\ Held(s)[t] = held[t][s]
    BY <1>3, <2>0, HeldLost
  <2>2. PICK C, D : Both(s, C, D)
    BY PartsNow
  <2>3. SameBut(C, D, {"held", x})
    BY <1>2, <1>7, <1>8, <2>2, SameParts
  <2>e. PICK e : e = [release |-> "CPU", slot |-> held[t]["CPU"]]
    OBVIOUS
  <2>4. /\ C["held"] = Held(s) /\ D["held"] = Held(s)'
        /\ C[x] = Column(x, StreamsOf(s), streams[x], "slot")
        /\ D[x] = Column(x, StreamsOf(s), Append(streams[x], e), "slot")
    BY <1>8, <1>x, <2>2, <2>e DEF Both, Listed
  <2>5. e \in ReleaseCommands /\ e["slot"] = held[t][s]
    <3>1. Position["CPU"] <= Position[t]
      BY <1>m, SMT DEF Position
    <3>2. held[t]["CPU"] \in Index("CPU")
      BY <1>4, <1>9, <3>1 DEF IdxsUpTo
    <3>3. Index("CPU") \subseteq Nat
      BY SMT DEF Index
    <3> QED BY <1>9, <2>e, <3>2, <3>3, ZenonT(40) DEF ReleaseCommands
  <2>6. With(C[x], D[x], Len(streams[x]) + 1, e["slot"])
    BY <1>1, <1>x, <1>9, <2>4, <2>5, ColumnAppend
  <2>7. /\ Without(C["held"], D["held"], t) /\ e["slot"] = C["held"][t]
        /\ "held" # x /\ "held" \in Kinds /\ x \in Kinds
    BY <1>x, <2>1, <2>4, <2>5, KindsAre, KindsDiffer
  <2> QED BY <2>2, <2>3, <2>6, <2>7, OneMoves
<1>10. CASE s # "CPU"
  <2>0. s = "SUPPORT" \/ s = "MIXED" <=> s # "GPU"
    BY <1>10 DEF Stages
  <2>1. Owns(s, t, acq'[t], held'[t]) <=> Owns(s, t, acq[t], held[t])
    BY <1>5, <1>6, <2>0
  <2>2. Held(s)' = Held(s)
    BY <1>3, <2>1, HeldStays
  <2>3. \A l \in Streams : l \in StreamsOf(s) => streams'[l] = streams[l]
    BY <1>8, <1>x, <1>10
  <2> QED BY <1>2, <1>7, <2>2, <2>3, NothingMoves
<1> QED BY <1>9, <1>10

\* The GPU stage queues an output: the indices of MIXED and GPU.
LEMMA QueueOutputMoves ==
  ASSUME TypeOK, OwnerInv, QueueOutputIdxs, NEW s \in Stages
  PROVE  Ring(PartsOf(s)', Index(s), ~Aborting)
<1>t. HeldType /\ OutputType
  BY DEF TypeOK
<1>m. PICK t \in Stages : t = "GPU"
  BY DEF Stages
<1>e. PICK e : e = [mixed |-> held[t]["MIXED"], gpu |-> held[t]["GPU"]]
  OBVIOUS
<1>1. ready_output_queue \in Seq(OutputIdxs)
  BY <1>t DEF OutputType
<1>2. /\ acq[t] = "held" /\ held[t][t] # kInvalidIdx
      /\ acq' = [acq EXCEPT ![t] = "release"] /\ held' = held
      /\ ready_output_queue' = Append(ready_output_queue, e)
      /\ UNCHANGED <<stage_free, stage_ready, in_use_queue, streams, user, releasing>>
  BY <1>m, <1>e DEF QueueOutputIdxs, AreValid
<1>3. /\ acq'[t] = "release" /\ held'[t] = held[t]
      /\ \A u \in Stages : u # t => acq'[u] = acq[u] /\ held'[u] = held[u]
  BY <1>t, <1>2 DEF HeldType
<1>4. held[t] \in IdxsUpTo(t) /\ held[t] # Invalid
  BY <1>t, <1>2, ValidHeld
<1>5. Owns(s, t, acq[t], held[t]) <=> s # "CPU"
  <2>1. s \in Brought[t] \cup {t} <=> s # "CPU"
    BY <1>m DEF Brought, Stages
  <2> QED BY <1>2, <1>4, <2>1, OwnsTable
<1>6. Owns(s, t, acq'[t], held'[t]) <=> s = "SUPPORT"
  BY <1>m, <1>3, <1>4, OwnsTable, SMTT(30)
<1>7. Released(s)' = Released(s)
  BY <1>2 DEF Released
<1>9. CASE s \in HasOutput
  <2>0. Owns(s, t, acq[t], held[t]) /\ ~Owns(s, t, acq'[t], held'[t])
    BY <1>5, <1>6, <1>9 DEF HasOutput
  <2>1. Without(Held(s), Held(s)', t) /\ Held(s)[t] = held[t][s]
    BY <1>3, <2>0, HeldLost
  <2>2. PICK C, D : Both(s, C, D)
    BY PartsNow
  <2>3. SameBut(C, D, {"held", "output"})
    BY <1>2, <1>7, <2>2, SameParts
  <2>4. /\ C["held"] = Held(s) /\ D["held"] = Held(s)'
        /\ C["output"] = Column(s, HasOutput, ready_output_queue, Field(s))
        /\ D["output"] = Column(s, HasOutput, Append(ready_output_queue, e), Field(s))
    BY <1>2, <2>2 DEF Both, Listed
  <2>5. e \in OutputIdxs /\ e[Field(s)] = held[t][s]
    <3>1. Position["MIXED"] <= Position[t] /\ Position["GPU"] <= Position[t]
      BY <1>m, SMT DEF Position
    <3>2. "MIXED" \in Stages /\ "GPU" \in Stages
      BY DEF Stages
    <3>3. held[t]["MIXED"] \in Index("MIXED") /\ held[t]["GPU"] \in Index("GPU")
      BY <1>4, <3>1, <3>2 DEF IdxsUpTo
    <3> QED BY <1>9, <1>e, <3>3 DEF OutputIdxs, Field, HasOutput
  <2>6. With(C["output"], D["output"], Len(ready_output_queue) + 1, e[Field(s)])
    BY <1>1, <1>9, <2>4, <2>5, ColumnAppend
  <2>7. /\ Without(C["held"], D["held"], t) /\ e[Field(s)] = C["held"][t]
        /\ "held" # "output" /\ "held" \in Kinds /\ "output" \in Kinds
    BY <2>1, <2>4, <2>5, KindsAre
  <2> QED BY <2>2, <2>3, <2>6, <2>7, OneMoves
<1>10. CASE s \notin HasOutput
  <2>0. s # "CPU" <=> s = "SUPPORT"
    BY <1>10 DEF Stages, HasOutput
  <2>1. Owns(s, t, acq'[t], held'[t]) <=> Owns(s, t, acq[t], held[t])
    BY <1>5, <1>6, <2>0
  <2>2. Held(s)' = Held(s)
    BY <1>3, <2>1, HeldStays
  <2>3. PICK C, D : Both(s, C, D)
    BY PartsNow
  <2>4. SameBut(C, D, {})
    BY <1>2, <1>7, <1>10, <2>2, <2>3, SameParts
  <2> QED BY <2>3, <2>4, NoneMoves
<1> QED BY <1>9, <1>10

\* The GPU stage has the SUPPORT buffer given back by a callback.
LEMMA QueueCallbackMoves ==
  ASSUME TypeOK, OwnerInv, QueueOutputCallback, NEW s \in Stages
  PROVE  Ring(PartsOf(s)', Index(s), ~Aborting)
<1>t. HeldType /\ CallbackType
  BY DEF TypeOK
<1>m. PICK t \in Stages : t = "GPU"
  BY DEF Stages
<1>x. PICK x \in Streams : x = "gpu"
  BY DEF Streams
<1>y. x \in StreamsOf("SUPPORT") /\ (s # "SUPPORT" => x \notin StreamsOf(s))
  BY <1>x DEF StreamsOf, Stages
<1>e. PICK e : e = [release |-> "SUPPORT", slot |-> held[t]["SUPPORT"]]
  OBVIOUS
<1>1. streams[x] \in Seq(ReleaseCommands) /\ DOMAIN streams = Streams
  BY <1>t DEF CallbackType
<1>2. /\ acq[t] = "release"
      /\ acq' = [acq EXCEPT ![t] = "none"] /\ held' = [held EXCEPT ![t] = Invalid]
      /\ streams' = [streams EXCEPT ![x] = Append(@, e)]
      /\ UNCHANGED <<stage_free, stage_ready, ready_output_queue, in_use_queue, user, releasing>>
  BY <1>m, <1>x, <1>e DEF QueueOutputCallback, AddReleaseCallback, Leave, queues
<1>3. /\ acq'[t] = "none"
      /\ \A u \in Stages : u # t => acq'[u] = acq[u] /\ held'[u] = held[u]
  BY <1>t, <1>2, ThreadStep
<1>4. held[t] \in IdxsUpTo(t) /\ held[t] # Invalid
  <2>1. held[t] \in IdxsUpTo(t)
    BY <1>t, <1>2 DEF HeldType, HeldAt
  <2> QED BY <2>1, NotInvalid
<1>5. Owns(s, t, acq[t], held[t]) <=> s = "SUPPORT"
  BY <1>m, <1>2, <1>4, OwnsTable
<1>6. ~Owns(s, t, acq'[t], held'[t])
  BY <1>3, OwnsTable
<1>7. Released(s)' = Released(s)
  BY <1>2 DEF Released
<1>8. /\ streams'[x] = Append(streams[x], e)
      /\ \A l \in Streams : l # x => streams'[l] = streams[l]
  BY <1>1, <1>2
<1>9. CASE s = "SUPPORT"
  <2>0. Owns(s, t, acq[t], held[t])
    BY <1>5, <1>9
  <2>1. Without(Held(s), Held(s)', t) /\ Held(s)[t] = held[t][s]
    BY <1>3, <1>6, <2>0, HeldLost
  <2>2. PICK C, D : Both(s, C, D)
    BY PartsNow
  <2>3. SameBut(C, D, {"held", x})
    BY <1>2, <1>7, <1>8, <2>2, SameParts
  <2>4. /\ C["held"] = Held(s) /\ D["held"] = Held(s)'
        /\ C[x] = Column(x, StreamsOf(s), streams[x], "slot")
        /\ D[x] = Column(x, StreamsOf(s), Append(streams[x], e), "slot")
    BY <1>8, <2>2 DEF Both, Listed
  <2>5. e \in ReleaseCommands /\ e["slot"] = held[t][s]
    <3>1. Position["SUPPORT"] <= Position[t]
      BY <1>m, SMT DEF Position
    <3>2. held[t]["SUPPORT"] \in Index("SUPPORT")
      BY <1>4, <1>9, <3>1 DEF IdxsUpTo
    <3>3. Index("SUPPORT") \subseteq Nat
      BY SMT DEF Index
    <3> QED BY <1>9, <1>e, <3>2, <3>3 DEF ReleaseCommands
  <2>6. With(C[x], D[x], Len(streams[x]) + 1, e["slot"])
    BY <1>1, <1>y, <1>9, <2>4, <2>5, ColumnAppend, ZenonT(40)
  <2>7. /\ Without(C["held"], D["held"], t) /\ e["slot"] = C["held"][t]
        /\ "held" # x /\ "held" \in Kinds /\ x \in Kinds
    BY <2>1, <2>4, <2>5, KindsAre, KindsDiffer
  <2> QED BY <2>2, <2>3, <2>6, <2>7, OneMoves
<1>10. CASE s # "SUPPORT"
  <2>1. ~Owns(s, t, acq[t], held[t])
    BY <1>5, <1>10
  <2>2. Held(s)' = Held(s)
    BY <1>3, <1>6, <2>1, HeldMoves
  <2>3. \A l \in Streams : l \in StreamsOf(s) => streams'[l] = streams[l]
    BY <1>8, <1>y, <1>10
  <2> QED BY <1>2, <1>7, <2>2, <2>3, NothingMoves
<1> QED BY <1>9, <1>10

\* A callback gives the index in its command back.
LEMMA CallbackMoves ==
  ASSUME TypeOK, CommandInv, OwnerInv, NEW x \in Streams, release_callback(x), NEW s \in Stages
  PROVE  Ring(PartsOf(s)', Index(s), ~Aborting)
<1>t. CallbackType /\ FreeType
  BY DEF TypeOK
<1>1. streams[x] \in Seq(ReleaseCommands) /\ DOMAIN streams = Streams /\ DOMAIN stage_free = Stages
  BY <1>t DEF CallbackType, FreeType
<1>e. PICK e : e = Head(streams[x])
  OBVIOUS
<1>2. /\ streams[x] # <<>> /\ streams' = [streams EXCEPT ![x] = Tail(@)]
      /\ stage_free' = [stage_free EXCEPT ![e.release] = Append(@, commands[e.release][e.slot])]
      /\ UNCHANGED <<stage_ready, ready_output_queue, in_use_queue, acq, held, user, releasing>>
  BY <1>e DEF release_callback, ReleaseStageIdx
<1>3. /\ e \in ReleaseCommands /\ 1 \in DOMAIN streams[x] /\ e = streams[x][1]
      /\ 1 \in 1 .. Len(streams[x])
  BY <1>1, <1>2, <1>e, SMT
<1>4. /\ commands[e.release][e.slot] = e.slot /\ x \in StreamsOf(e.release)
      /\ e.slot \in Index(e.release) /\ e.release \in {"SUPPORT", "CPU"}
  <2>1. commands[e.release][e.slot] = e.slot
    BY <1>3 DEF CommandInv
  <2>2. x \in StreamsOf(e.release)
    BY <1>3 DEF OwnerInv
  <2>3. e.slot \in Index(e.release) /\ e.release \in {"SUPPORT", "CPU"}
    BY <1>3 DEF ReleaseCommands
  <2> QED BY <2>1, <2>2, <2>3
<1>5. PICK r \in Stages : r = e.release
  BY <1>4 DEF Stages
<1>6. /\ stage_free'[r] = Append(stage_free[r], e.slot)
      /\ \A u \in Stages : u # r => stage_free'[u] = stage_free[u]
  BY <1>1, <1>2, <1>4, <1>5
<1>7. /\ streams'[x] = Tail(streams[x])
      /\ \A l \in Streams : l # x => streams'[l] = streams[l]
  BY <1>1, <1>2
<1>8. Released(s)' = Released(s) /\ Held(s)' = Held(s)
  BY <1>2 DEF Released, Held, Owners
<1>9. CASE s = r
  <2>2. PICK C, D : Both(s, C, D)
    BY PartsNow
  <2>3. SameBut(C, D, {x, "free"})
    BY <1>2, <1>7, <1>8, <2>2, SameParts
  <2>4. /\ C["free"] = stage_free[s] /\ D["free"] = Append(stage_free[s], e.slot)
        /\ C[x] = Column(x, StreamsOf(s), streams[x], "slot")
        /\ D[x] = Column(x, StreamsOf(s), Tail(streams[x]), "slot")
    BY <1>6, <1>7, <1>9, <2>2 DEF Both, Listed
  <2>5. x \in StreamsOf(s) /\ e.slot \in Index(s) /\ stage_free[s] \in Seq(Index(s))
    BY <1>t, <1>4, <1>5, <1>9, ZenonT(40) DEF FreeType
  <2>6. Shorter(C[x], D[x]) /\ C[x][1] = e.slot
    BY <1>1, <1>2, <1>e, <2>4, <2>5, ColumnTail, SMTT(30)
  <2>7. With(C["free"], D["free"], Len(stage_free[s]) + 1, e.slot)
    BY <2>4, <2>5, QueueAppend
  <2>8. "free" # x /\ "free" \in Kinds /\ x \in Kinds
    BY KindsAre, KindsDiffer
  <2> QED BY <2>2, <2>3, <2>6, <2>7, <2>8, HeadMoves
<1>10. CASE s # r
  <2>1. x \notin StreamsOf(s)
    BY <1>4, <1>5, <1>10, SMTT(30) DEF StreamsOf, Stages
  <2>2. \A l \in Streams : l \in StreamsOf(s) => streams'[l] = streams[l]
    BY <1>7, <2>1
  <2>3. stage_free'[s] = stage_free[s]
    BY <1>6, <1>10
  <2> QED BY <1>2, <1>8, <2>2, <2>3, NothingMoves
<1> QED BY <1>9, <1>10

\* What the main thread is releasing.
LEMMA ReleasedParts ==
  ASSUME NEW s \in Stages
  PROVE  /\ s # "GPU" => Released(s)' = Released(s)
         /\ user # "release" /\ user' # "release" => Released(s)' = Released(s)
         /\ s = "GPU" /\ user # "release" /\ user' = "release" =>
              With(Released(s), Released(s)', 1, releasing'.gpu)
         /\ s = "GPU" /\ user = "release" /\ user' # "release" =>
              Without(Released(s), Released(s)', 1) /\ Released(s)[1] = releasing.gpu
<1>1. /\ s = "GPU" /\ user = "release" => Released(s) = [k \in {1} |-> releasing.gpu]
      /\ ~(s = "GPU" /\ user = "release") => Released(s) = [k \in {} |-> releasing.gpu]
  <2>1. s = "GPU" /\ user = "release" => {j \in {1} : s = "GPU" /\ user = "release"} = {1}
    OBVIOUS
  <2>2. ~(s = "GPU" /\ user = "release") => {j \in {1} : s = "GPU" /\ user = "release"} = {}
    OBVIOUS
  <2> QED BY <2>1, <2>2 DEF Released
<1>2. /\ s = "GPU" /\ user' = "release" => Released(s)' = [k \in {1} |-> releasing'.gpu]
      /\ ~(s = "GPU" /\ user' = "release") => Released(s)' = [k \in {} |-> releasing'.gpu]
  <2>1. s = "GPU" /\ user' = "release" => {j \in {1} : s = "GPU" /\ user' = "release"} = {1}
    OBVIOUS
  <2>2. ~(s = "GPU" /\ user' = "release") => {j \in {1} : s = "GPU" /\ user' = "release"} = {}
    OBVIOUS
  <2> QED BY <2>1, <2>2 DEF Released
<1>3. [k \in {} |-> releasing'.gpu] = [k \in {} |-> releasing.gpu]
  OBVIOUS
<1>4. /\ With([k \in {} |-> releasing.gpu], [k \in {1} |-> releasing'.gpu], 1, releasing'.gpu)
      /\ Without([k \in {1} |-> releasing.gpu], [k \in {} |-> releasing'.gpu], 1)
      /\ [k \in {1} |-> releasing.gpu][1] = releasing.gpu
  BY DEF With, Without
<1>5. s # "GPU" \/ (user # "release" /\ user' # "release") => Released(s)' = Released(s)
  BY <1>1, <1>2, <1>3
<1>6. s = "GPU" /\ user # "release" /\ user' = "release" =>
        With(Released(s), Released(s)', 1, releasing'.gpu)
  BY <1>1, <1>2, <1>4
<1>7. s = "GPU" /\ user = "release" /\ user' # "release" =>
        Without(Released(s), Released(s)', 1) /\ Released(s)[1] = releasing.gpu
  BY <1>1, <1>2, <1>4
<1> QED BY <1>5, <1>6, <1>7

\* The user asks for an output, and gets one.
LEMMA UseBeginMoves ==
  ASSUME OwnerInv, UseOutputBegin, NEW s \in Stages
  PROVE  Ring(PartsOf(s)', Index(s), ~Aborting)
<1>1. /\ user = "none" /\ user' = "use"
      /\ UNCHANGED <<stage_free, stage_ready, ready_output_queue, in_use_queue, streams, acq, held>>
  BY DEF UseOutputBegin, queues
<1>2. Released(s)' = Released(s)
  BY <1>1, ReleasedParts
<1>3. Held(s)' = Held(s)
  BY <1>1 DEF Held, Owners
<1> QED BY <1>1, <1>2, <1>3, NothingMoves

\* An output moves from the ready queue to those in use.
LEMMA UseOutputMoves ==
  ASSUME TypeOK, OwnerInv, UseOutputIdxs, NEW s \in Stages
  PROVE  Ring(PartsOf(s)', Index(s), ~Aborting)
<1>1. /\ user = "use" /\ (user' = "none" \/ user' = "use")
      /\ UNCHANGED <<stage_free, stage_ready, streams, acq, held>>
  BY DEF UseOutputIdxs
<1>2. Released(s)' = Released(s)
  BY <1>1, ReleasedParts
<1>3. Held(s)' = Held(s)
  BY <1>1 DEF Held, Owners
<1>4. CASE UNCHANGED <<ready_output_queue, in_use_queue>>
  BY <1>1, <1>2, <1>3, <1>4, NothingMoves
<1>5. CASE /\ ready_output_queue # <<>> /\ ready_output_queue' = Tail(ready_output_queue)
           /\ in_use_queue' = Append(in_use_queue, Head(ready_output_queue))
  <2>t. ready_output_queue \in Seq(OutputIdxs) /\ in_use_queue \in Seq(OutputIdxs)
    BY DEF TypeOK, OutputType
  <2>e. PICK e \in OutputIdxs : e = Head(ready_output_queue)
    BY <1>5, <2>t, SMT
  <2>1. PICK C, D : Both(s, C, D)
    BY PartsNow
  <2>2. CASE s \in HasOutput
    <3>1. SameBut(C, D, {"output", "in_use"})
      BY <1>1, <1>2, <1>3, <2>1, SameParts
    <3>2. /\ C["output"] = Column(s, HasOutput, ready_output_queue, Field(s))
          /\ D["output"] = Column(s, HasOutput, Tail(ready_output_queue), Field(s))
          /\ C["in_use"] = Column(s, HasOutput, in_use_queue, Field(s))
          /\ D["in_use"] = Column(s, HasOutput, Append(in_use_queue, e), Field(s))
      BY <1>5, <2>e, <2>1, ZenonT(40) DEF Both, Listed
    <3>3. Shorter(C["output"], D["output"]) /\ C["output"][1] = e[Field(s)]
      BY <1>5, <2>t, <2>e, <2>2, <3>2, ColumnTail, SMTT(30)
    <3>4. With(C["in_use"], D["in_use"], Len(in_use_queue) + 1, e[Field(s)])
      BY <2>t, <2>2, <3>2, ColumnAppend
    <3>5. "output" # "in_use" /\ "output" \in Kinds /\ "in_use" \in Kinds
      BY KindsAre
    <3> QED BY <2>1, <3>1, <3>3, <3>4, <3>5, HeadMoves
  <2>3. CASE s \notin HasOutput
    BY <1>1, <1>2, <1>3, <2>3, NothingMoves
  <2> QED BY <2>2, <2>3
<1> QED BY <1>4, <1>5 DEF UseOutputIdxs

\* The user gives the first output back: its MIXED index is free again, its GPU
\* index is in the hands of the main thread.
LEMMA ReleaseOutputMoves ==
  ASSUME TypeOK, OwnerInv, ReleaseOutputIdxs, NEW s \in Stages
  PROVE  Ring(PartsOf(s)', Index(s), ~Aborting)
<1>t. /\ in_use_queue \in Seq(OutputIdxs) /\ DOMAIN stage_free = Stages
      /\ stage_free["MIXED"] \in Seq(Index("MIXED"))
  BY DEF TypeOK, OutputType, FreeType, Stages
<1>1. /\ user = "none" /\ in_use_queue # <<>> /\ user' = "release"
      /\ in_use_queue' = Tail(in_use_queue) /\ releasing' = Head(in_use_queue)
      /\ stage_free' = [stage_free EXCEPT !["MIXED"] = Append(@, Head(in_use_queue).mixed)]
      /\ UNCHANGED <<stage_ready, ready_output_queue, streams, acq, held>>
  BY DEF ReleaseOutputIdxs, ReleaseStageIdx
<1>e. PICK e \in OutputIdxs : e = Head(in_use_queue)
  BY <1>t, <1>1, SMT
<1>2. /\ stage_free'["MIXED"] = Append(stage_free["MIXED"], e.mixed)
      /\ \A u \in Stages : u # "MIXED" => stage_free'[u] = stage_free[u]
  BY <1>t, <1>1, <1>e DEF Stages
<1>3. Held(s)' = Held(s)
  BY <1>1, ZenonT(40) DEF Held, Owners
<1>4. PICK C, D : Both(s, C, D)
  BY PartsNow
<1>5. ASSUME s \in HasOutput PROVE Shorter(C["in_use"], D["in_use"]) /\ C["in_use"][1] = e[Field(s)]
  <2>1. /\ C["in_use"] = Column(s, HasOutput, in_use_queue, Field(s))
        /\ D["in_use"] = Column(s, HasOutput, Tail(in_use_queue), Field(s))
    BY <1>1, <1>4 DEF Both, Listed
  <2> QED BY <1>t, <1>1, <1>e, <1>5, <2>1, ColumnTail, SMTT(30)
<1>6. CASE s = "MIXED"
  <2>1. Released(s)' = Released(s)
    BY <1>6, ReleasedParts
  <2>2. SameBut(C, D, {"in_use", "free"})
    BY <1>1, <1>3, <1>4, <2>1, SameParts
  <2>3. C["free"] = stage_free[s] /\ D["free"] = Append(stage_free[s], e.mixed)
    BY <1>2, <1>4, <1>6 DEF Both, Listed
  <2>4. e.mixed \in Index(s) /\ e[Field(s)] = e.mixed /\ s \in HasOutput
    BY <1>6 DEF OutputIdxs, Field, HasOutput
  <2>5. With(C["free"], D["free"], Len(stage_free[s]) + 1, e.mixed)
    BY <1>t, <1>6, <2>3, <2>4, QueueAppend
  <2>6. Shorter(C["in_use"], D["in_use"]) /\ e.mixed = C["in_use"][1]
    BY <1>5, <2>4
  <2>7. "in_use" # "free" /\ "in_use" \in Kinds /\ "free" \in Kinds
    BY KindsAre
  <2> QED BY <1>4, <2>2, <2>5, <2>6, <2>7, HeadMoves
<1>7. CASE s = "GPU"
  <2>1. With(Released(s), Released(s)', 1, e.gpu)
    <3>1. With(Released(s), Released(s)', 1, releasing'.gpu)
      BY <1>1, <1>7, ReleasedParts
    <3> QED BY <1>1, <1>e, <3>1
  <2>2. stage_free'[s] = stage_free[s]
    BY <1>2, <1>7
  <2>3. SameBut(C, D, {"in_use", "releasing"})
    BY <1>1, <1>3, <1>4, <2>2, SameParts
  <2>4. C["releasing"] = Released(s) /\ D["releasing"] = Released(s)'
    BY <1>4 DEF Both, Listed
  <2>5. e[Field(s)] = e.gpu /\ s \in HasOutput
    BY <1>7 DEF OutputIdxs, Field, HasOutput
  <2>6. Shorter(C["in_use"], D["in_use"]) /\ e.gpu = C["in_use"][1]
    BY <1>5, <2>5
  <2>7. /\ With(C["releasing"], D["releasing"], 1, e.gpu)
        /\ "in_use" # "releasing" /\ "in_use" \in Kinds /\ "releasing" \in Kinds
    BY <2>1, <2>4, KindsAre
  <2> QED BY <1>4, <2>3, <2>6, <2>7, HeadMoves
<1>8. CASE s # "MIXED" /\ s # "GPU"
  <2>1. s \notin HasOutput
    BY <1>8 DEF HasOutput
  <2>2. Released(s)' = Released(s)
    BY <1>8, ReleasedParts
  <2>3. stage_free'[s] = stage_free[s]
    BY <1>2, <1>8
  <2> QED BY <1>1, <1>3, <2>1, <2>2, <2>3, NothingMoves
<1> QED BY <1>6, <1>7, <1>8

\* ... and then the GPU index is free again too.
LEMMA ReleaseGpuMoves ==
  ASSUME TypeOK, OwnerInv, ReleaseOutputGpu, NEW s \in Stages
  PROVE  Ring(PartsOf(s)', Index(s), ~Aborting)
<1>1. /\ user = "release" /\ user' = "none"
      /\ stage_free' = [stage_free EXCEPT !["GPU"] = Append(@, releasing.gpu)]
      /\ UNCHANGED <<stage_ready, ready_output_queue, in_use_queue, streams, acq, held>>
  BY DEF ReleaseOutputGpu, ReleaseStageIdx
<1>t. /\ DOMAIN stage_free = Stages /\ stage_free["GPU"] \in Seq(Index("GPU"))
      /\ releasing.gpu \in Index("GPU")
  BY <1>1 DEF TypeOK, FreeType, UserType, OutputIdxs, Stages
<1>2. /\ stage_free'["GPU"] = Append(stage_free["GPU"], releasing.gpu)
      /\ \A u \in Stages : u # "GPU" => stage_free'[u] = stage_free[u]
  BY <1>t, <1>1 DEF Stages
<1>3. Held(s)' = Held(s)
  BY <1>1 DEF Held, Owners
<1>4. CASE s = "GPU"
  <2>1. Without(Released(s), Released(s)', 1) /\ Released(s)[1] = releasing.gpu
    BY <1>1, <1>4, ReleasedParts
  <2>2. PICK C, D : Both(s, C, D)
    BY PartsNow
  <2>3. SameBut(C, D, {"releasing", "free"})
    BY <1>1, <1>3, <2>2, SameParts
  <2>4. /\ C["free"] = stage_free[s] /\ D["free"] = Append(stage_free[s], releasing.gpu)
        /\ C["releasing"] = Released(s) /\ D["releasing"] = Released(s)'
    BY <1>2, <1>4, <2>2 DEF Both, Listed
  <2>5. With(C["free"], D["free"], Len(stage_free[s]) + 1, releasing.gpu)
    BY <1>t, <1>4, <2>4, QueueAppend
  <2>6. /\ Without(C["releasing"], D["releasing"], 1) /\ releasing.gpu = C["releasing"][1]
        /\ "releasing" # "free" /\ "releasing" \in Kinds /\ "free" \in Kinds
    BY <2>1, <2>4, KindsAre
  <2> QED BY <2>2, <2>3, <2>5, <2>6, OneMoves
<1>5. CASE s # "GPU"
  <2>1. Released(s)' = Released(s)
    BY <1>5, ReleasedParts
  <2>2. stage_free'[s] = stage_free[s]
    BY <1>2, <1>5
  <2> QED BY <1>1, <1>3, <2>1, <2>2, NothingMoves
<1> QED BY <1>4, <1>5

\* Setting flags and notifying moves nothing.
LEMMA NothingTouched ==
  ASSUME OwnerInv, UNCHANGED <<queues, streams, acq, held, user, releasing>>, NEW s \in Stages
  PROVE  Ring(PartsOf(s)', Index(s), ~Aborting)
<1>1. UNCHANGED <<stage_free, stage_ready, ready_output_queue, in_use_queue>>
  BY DEF queues
<1>2. Held(s)' = Held(s) /\ Released(s)' = Released(s)
  BY DEF Held, Owners, Released
<1> QED BY <1>1, <1>2, NothingMoves

\* The callbacks on each stream give back the buffers it is for.
StreamsFit == \A x \in Streams : \A k \in DOMAIN streams[x] : x \in StreamsOf(streams[x][k].release)

\* A step that sets no flag keeps OwnerInv if it moves indices as it should.
LEMMA StillOwned ==
  ASSUME OwnerInv, UNCHANGED <<stops, signal>>, StreamsFit',
         \A s \in Stages : Ring(PartsOf(s)', Index(s), ~Aborting)
  PROVE  OwnerInv'
<1>1. UNCHANGED <<stage_free_stop, stage_ready_stop, ready_stop, signal>>
  BY DEF stops
<1>2. Aborting' <=> Aborting
  BY <1>1 DEF Aborting
<1>3. \A s \in Stages : Ring(PartsOf(s)', Index(s), ~Aborting')
  BY <1>2
<1> QED BY <1>1, <1>3 DEF OwnerInv, StreamsFit

\* A step of SignalStop keeps OwnerInv.
LEMMA StopOwned ==
  ASSUME OwnerInv, UNCHANGED <<queues, streams, acq, held, user, releasing>>, Aborting',
         \A s \in Stages : stage_free_stop'[s] \/ stage_ready_stop'[s] => ready_stop'
  PROVE  OwnerInv'
<1>1. \A s \in Stages : Ring(PartsOf(s)', Index(s), ~Aborting)
  BY NothingTouched
<1>2. \A s \in Stages : Ring(PartsOf(s)', Index(s), ~Aborting')
  BY <1>1, LessRing
<1>3. StreamsFit'
  BY DEF OwnerInv, StreamsFit
<1> QED BY <1>2, <1>3 DEF OwnerInv, StreamsFit

\* A stream that gets a callback for one of its stages.
LEMMA FitsAppend ==
  ASSUME CallbackType, StreamsFit, NEW x \in Streams, NEW e \in ReleaseCommands,
         x \in StreamsOf(e.release), streams' = [streams EXCEPT ![x] = Append(@, e)]
  PROVE  StreamsFit'
<1>1. DOMAIN streams = Streams /\ streams[x] \in Seq(ReleaseCommands)
  BY DEF CallbackType
<1>2. streams'[x] = Append(streams[x], e) /\ \A y \in Streams : y # x => streams'[y] = streams[y]
  BY <1>1
<1>3. \A k \in DOMAIN Append(streams[x], e) :
        (k \in DOMAIN streams[x] /\ Append(streams[x], e)[k] = streams[x][k])
        \/ Append(streams[x], e)[k] = e
  BY <1>1, SMT
<1>4. \A k \in DOMAIN streams'[x] : x \in StreamsOf(streams'[x][k].release)
  BY <1>2, <1>3 DEF StreamsFit
<1> QED BY <1>2, <1>4 DEF StreamsFit

\* A callback that was executed leaves the stream.
LEMMA FitsTail ==
  ASSUME CallbackType, StreamsFit, NEW x \in Streams, streams[x] # <<>>,
         streams' = [streams EXCEPT ![x] = Tail(@)]
  PROVE  StreamsFit'
<1>1. DOMAIN streams = Streams /\ streams[x] \in Seq(ReleaseCommands)
  BY DEF CallbackType
<1>2. streams'[x] = Tail(streams[x]) /\ \A y \in Streams : y # x => streams'[y] = streams[y]
  BY <1>1
<1>3. \A k \in DOMAIN Tail(streams[x]) :
        k + 1 \in DOMAIN streams[x] /\ Tail(streams[x])[k] = streams[x][k + 1]
  BY <1>1, SMTT(30)
<1>4. \A k \in DOMAIN streams'[x] : x \in StreamsOf(streams'[x][k].release)
  BY <1>2, <1>3, SMT DEF StreamsFit
<1> QED BY <1>2, <1>4 DEF StreamsFit

\* Every step keeps OwnerInv.
LEMMA OwnerStep == TypeOK /\ CommandInv /\ WakeInv /\ OwnerInv /\ [Next]_vars => OwnerInv'
<1> SUFFICES ASSUME TypeOK, CommandInv, WakeInv, OwnerInv, [Next]_vars PROVE OwnerInv'
  OBVIOUS
<1>f. StreamsFit
  BY DEF OwnerInv, StreamsFit
<1>u. ASSUME streams' = streams PROVE StreamsFit'
  BY <1>f, <1>u DEF StreamsFit
<1>t. CallbackType /\ HeldType /\ StopType
  BY DEF TypeOK
<1>0. CASE UNCHANGED vars
  <2>1. UNCHANGED <<stops, signal>> /\ UNCHANGED <<queues, streams, acq, held, user, releasing>>
    BY <1>0 DEF vars
  <2> QED BY <1>u, <2>1, NothingTouched, StillOwned
<1>1. ASSUME NEW s \in Stages, AcquireIdxs(s) PROVE OwnerInv'
  <2>1. UNCHANGED <<stops, signal, streams>>
    BY <1>1 DEF AcquireIdxs
  <2> QED BY <1>1, <1>u, <2>1, AcquireIdxsMoves, StillOwned
<1>2. ASSUME NEW s \in Stages, AcquireReady(s) PROVE OwnerInv'
  <2>1. UNCHANGED <<stops, signal, streams>>
    BY <1>2 DEF AcquireReady
  <2> QED BY <1>2, <1>u, <2>1, AcquireReadyMoves, StillOwned
<1>3. ASSUME NEW s \in Stages, AcquireFree(s) PROVE OwnerInv'
  <2>1. UNCHANGED <<stops, signal, streams>>
    BY <1>3 DEF AcquireFree
  <2> QED BY <1>3, <1>u, <2>1, AcquireFreeMoves, StillOwned
<1>4. ASSUME NEW s \in Stages, ReleaseReady(s) PROVE OwnerInv'
  <2>1. UNCHANGED <<stops, signal, streams>>
    BY <1>4 DEF ReleaseReady
  <2> QED BY <1>4, <1>u, <2>1, ReleaseReadyMoves, StillOwned
<1>5. ASSUME NEW s \in Stages, ReleaseInvalid(s) PROVE OwnerInv'
  <2>1. UNCHANGED <<stops, signal, streams>>
    BY <1>5 DEF ReleaseInvalid
  <2> QED BY <1>5, <1>u, <2>1, ReleaseInvalidMoves, StillOwned
<1>6. ASSUME NEW x \in {"mixed", "default"}, ReleaseCallback(x) PROVE OwnerInv'
  <2>m. PICK t \in Stages : t = "MIXED"
    BY DEF Stages
  <2>e. PICK e : e = [release |-> "CPU", slot |-> held[t]["CPU"]]
    OBVIOUS
  <2>1. /\ UNCHANGED <<stops, signal>> /\ acq[t] = "held" /\ held[t][t] # kInvalidIdx
        /\ streams' = [streams EXCEPT ![x] = Append(@, e)]
    BY <1>6, <2>e, <2>m DEF ReleaseCallback, AddReleaseCallback
  <2>2. held[t] \in IdxsUpTo(t)
    BY <1>t, <2>1, ValidHeld
  <2>3. Position["CPU"] <= Position[t] /\ "CPU" \in Stages
    BY <2>m, SMT DEF Position, Stages
  <2>4. held[t]["CPU"] \in Index("CPU")
    BY <2>2, <2>3 DEF IdxsUpTo
  <2>5. Index("CPU") \subseteq Nat
    BY SMT DEF Index
  <2>6. e \in ReleaseCommands /\ x \in StreamsOf(e.release) /\ x \in Streams
    BY <2>e, <2>4, <2>5 DEF ReleaseCommands, StreamsOf, Streams
  <2>7. StreamsFit'
    BY <1>f, <1>t, <2>1, <2>6, FitsAppend
  <2> QED BY <1>6, <2>1, <2>7, ReleaseCallbackMoves, StillOwned
<1>7. ASSUME QueueOutputIdxs PROVE OwnerInv'
  <2>1. UNCHANGED <<stops, signal, streams>>
    BY <1>7 DEF QueueOutputIdxs
  <2> QED BY <1>7, <1>u, <2>1, QueueOutputMoves, StillOwned
<1>8. ASSUME QueueOutputCallback PROVE OwnerInv'
  <2>m. PICK t \in Stages : t = "GPU"
    BY DEF Stages
  <2>x. PICK x \in Streams : x = "gpu"
    BY DEF Streams
  <2>e. PICK e : e = [release |-> "SUPPORT", slot |-> held[t]["SUPPORT"]]
    OBVIOUS
  <2>1. /\ UNCHANGED <<stops, signal>> /\ acq[t] = "release"
        /\ streams' = [streams EXCEPT ![x] = Append(@, e)]
    BY <1>8, <2>e, <2>m, <2>x DEF QueueOutputCallback, AddReleaseCallback
  <2>2. held[t] \in IdxsUpTo(t)
    BY <1>t, <2>1 DEF HeldType, HeldAt
  <2>3. Position["SUPPORT"] <= Position[t] /\ "SUPPORT" \in Stages
    BY <2>m, SMT DEF Position, Stages
  <2>4. held[t]["SUPPORT"] \in Index("SUPPORT")
    BY <2>2, <2>3 DEF IdxsUpTo
  <2>5. Index("SUPPORT") \subseteq Nat
    BY SMT DEF Index
  <2>6. e \in ReleaseCommands /\ x \in StreamsOf(e.release)
    BY <2>e, <2>x, <2>4, <2>5 DEF ReleaseCommands, StreamsOf
  <2>7. StreamsFit'
    BY <1>f, <1>t, <2>1, <2>6, FitsAppend
  <2> QED BY <1>8, <2>1, <2>7, QueueCallbackMoves, StillOwned
<1>9. ASSUME NEW x \in Streams, release_callback(x) PROVE OwnerInv'
  <2>1. /\ UNCHANGED <<stops, signal>> /\ streams[x] # <<>>
        /\ streams' = [streams EXCEPT ![x] = Tail(@)]
    BY <1>9 DEF release_callback
  <2>2. StreamsFit'
    BY <1>f, <1>t, <2>1, FitsTail
  <2> QED BY <1>9, <2>1, <2>2, CallbackMoves, StillOwned
<1>10. ASSUME UseOutputBegin PROVE OwnerInv'
  <2>1. UNCHANGED <<stops, signal, streams>>
    BY <1>10 DEF UseOutputBegin
  <2> QED BY <1>10, <1>u, <2>1, UseBeginMoves, StillOwned
<1>11. ASSUME UseOutputIdxs PROVE OwnerInv'
  <2>1. UNCHANGED <<stops, signal, streams>>
    BY <1>11 DEF UseOutputIdxs
  <2> QED BY <1>11, <1>u, <2>1, UseOutputMoves, StillOwned
<1>12. ASSUME ReleaseOutputIdxs PROVE OwnerInv'
  <2>1. UNCHANGED <<stops, signal, streams>>
    BY <1>12 DEF ReleaseOutputIdxs
  <2> QED BY <1>12, <1>u, <2>1, ReleaseOutputMoves, StillOwned
<1>13. ASSUME ReleaseOutputGpu PROVE OwnerInv'
  <2>1. UNCHANGED <<stops, signal, streams>>
    BY <1>13 DEF ReleaseOutputGpu
  <2> QED BY <1>13, <1>u, <2>1, ReleaseGpuMoves, StillOwned
<1>14. ASSUME NEW t \in Threads, SignalStop(t) PROVE OwnerInv'
  <2>1. /\ signal' = [signal EXCEPT ![t] = 1] /\ UNCHANGED stops
        /\ UNCHANGED <<queues, streams, acq, held, user, releasing>>
    BY <1>14 DEF SignalStop
  <2>2. UNCHANGED <<stage_free_stop, stage_ready_stop, ready_stop>>
    BY <2>1 DEF stops
  <2>3. signal'[t] # 0
    BY <1>t, <2>1, SMTT(30) DEF StopType
  <2>4. Aborting'
    BY <2>3 DEF Aborting
  <2>5. \A s \in Stages : stage_free_stop'[s] \/ stage_ready_stop'[s] => ready_stop'
    BY <2>2 DEF OwnerInv
  <2> QED BY <2>1, <2>4, <2>5, StopOwned
<1>15. ASSUME NEW t \in Threads, StopSteps(t) PROVE OwnerInv'
  <2>1. ready_stop' /\ UNCHANGED <<queues, streams, acq, held, user, releasing>>
    <3>0. signal[t] >= 2 => ready_stop
      BY DEF WakeInv, Passed
    <3>1. CASE StopOutput(t)
      BY <3>1 DEF StopOutput
    <3>2. CASE StopFree(t)
      <4>1. signal[t] >= 2
        BY <3>2, SMT DEF StopFree
      <4> QED BY <3>0, <3>2, <4>1 DEF StopFree
    <3>3. CASE StopReady(t)
      <4>1. signal[t] >= 2
        BY <3>3, SMT DEF StopReady
      <4> QED BY <3>0, <3>3, <4>1 DEF StopReady
    <3>4. CASE NotifyAll(t)
      <4>1. signal[t] >= 2
        BY <3>4, SMT DEF NotifyAll
      <4> QED BY <3>0, <3>4, <4>1 DEF NotifyAll, stops
    <3> QED BY <1>15, <3>1, <3>2, <3>3, <3>4 DEF StopSteps
  <2>2. Aborting'
    BY <2>1 DEF Aborting
  <2> QED BY <2>1, <2>2, StopOwned
<1> QED BY <1>0, <1>1, <1>2, <1>3, <1>4, <1>5, <1>6, <1>7, <1>8, <1>9, <1>10, <1>11, <1>12,
           <1>13, <1>14, <1>15, ZenonT(40) DEF Next, StageSteps, StageReleases, UserSteps

\* Place a is position k of l.
IsAt(C, a, l, k) == l \in Kinds /\ k \in DOMAIN C[l] /\ a = <<l, k, C[l][k]>>

\* A callback on a stream gives back a buffer of s just if the stream is one of s.
LEMMA StreamsApart ==
  ASSUME CallbackType, StreamsFit, NEW s \in Stages, NEW x \in Streams, NEW k \in DOMAIN streams[x]
  PROVE  streams[x][k].release = s <=> x \in StreamsOf(s)
<1>0. streams[x] \in Seq(ReleaseCommands)
  BY DEF CallbackType
<1>r. streams[x][k] \in ReleaseCommands
  BY <1>0, SMT
<1>1. streams[x][k].release \in {"SUPPORT", "CPU"}
  BY <1>r DEF ReleaseCommands
<1>2. x \in StreamsOf(streams[x][k].release)
  BY DEF StreamsFit
<1> QED BY <1>1, <1>2 DEF StreamsOf

\* The places are the positions of the parts.
LEMMA PlacesAre ==
  ASSUME CallbackType, StreamsFit, NEW s \in Stages, NEW C, C = PartsOf(s)
  PROVE  \A a : a \in Places(s) <=> \E l, k : IsAt(C, a, l, k)
<1>l. Listed(s, C, stage_free[s], Held(s), stage_ready, streams, ready_output_queue, in_use_queue,
             Released(s))
  BY PartsAre DEF PartsOf
<1>k. /\ {"free", "held", "output", "in_use", "releasing"} \subseteq Kinds
      /\ Stages \subseteq Kinds /\ Streams \subseteq Kinds
  BY DEF Kinds
<1> DEFINE FreePlaces == {<<"free", k, stage_free[s][k]>> : k \in DOMAIN stage_free[s]}
<1> DEFINE HeldPlaces == {<<"held", t, held[t][s]>> : t \in Owners(s)}
<1> DEFINE ReadyPlaces == UNION {{<<r, k, stage_ready[r][k][s]>> : k \in DOMAIN stage_ready[r]} :
                                   r \in OwningQueues(s)}
<1> DEFINE StreamPlaces ==
      UNION {{<<x, k, streams[x][k].slot>> :
                k \in {j \in DOMAIN streams[x] : streams[x][j].release = s}} : x \in Streams}
<1> DEFINE OutputPlaces ==
      IF s \in {"MIXED", "GPU"}
      THEN {<<"output", k, OutputIdx(s, ready_output_queue[k])>> : k \in DOMAIN ready_output_queue}
           \cup {<<"in_use", k, OutputIdx(s, in_use_queue[k])>> : k \in DOMAIN in_use_queue}
           \cup {<<"releasing", 1, releasing.gpu>> : k \in {j \in {1} : s = "GPU" /\ user = "release"}}
      ELSE {}
<1>1. \A a : a \in FreePlaces <=> \E k : IsAt(C, a, "free", k)
  BY <1>l, <1>k DEF IsAt, Listed
<1>2. \A a : a \in HeldPlaces <=> \E k : IsAt(C, a, "held", k)
  <2>1. C["held"] = Held(s)
    BY <1>l DEF Listed
  <2>2. DOMAIN C["held"] = Owners(s) /\ \A t \in Owners(s) : C["held"][t] = held[t][s]
    BY <2>1 DEF Held
  <2> QED BY <1>k, <2>2 DEF IsAt
<1>3. \A a : a \in ReadyPlaces <=> \E l \in Stages : \E k : IsAt(C, a, l, k)
  <2>1. OwningQueues(s) \subseteq Stages
    BY DEF OwningQueues, Stages
  <2>2. \A l \in Stages : C[l] = Column(l, OwningQueues(s), stage_ready[l], s)
    BY <1>l DEF Listed
  <2>3. \A l \in Stages : DOMAIN C[l] = IF l \in OwningQueues(s) THEN DOMAIN stage_ready[l] ELSE {}
    BY <2>2 DEF Column
  <2>4. \A l \in OwningQueues(s) : \A k \in DOMAIN stage_ready[l] : C[l][k] = stage_ready[l][k][s]
    BY <2>1, <2>2, ZenonT(40) DEF Column
  <2>5. ASSUME NEW a, NEW r \in OwningQueues(s), NEW k \in DOMAIN stage_ready[r],
               a = <<r, k, stage_ready[r][k][s]>>
        PROVE  \E l \in Stages : \E j : IsAt(C, a, l, j)
    <3>1. IsAt(C, a, r, k) /\ r \in Stages
      BY <1>k, <2>1, <2>3, <2>4, <2>5 DEF IsAt
    <3> QED BY <3>1
  <2>6. ASSUME NEW a, NEW l \in Stages, NEW k, IsAt(C, a, l, k)
        PROVE  \E r \in OwningQueues(s) : \E j \in DOMAIN stage_ready[r] :
                 a = <<r, j, stage_ready[r][j][s]>>
    <3>1. l \in OwningQueues(s) /\ k \in DOMAIN stage_ready[l]
      BY <2>3, <2>6 DEF IsAt
    <3>2. a = <<l, k, stage_ready[l][k][s]>>
      BY <2>4, <2>6, <3>1 DEF IsAt
    <3> QED BY <3>1, <3>2
  <2>7. \A a : a \in ReadyPlaces <=> \E r \in OwningQueues(s) : \E k \in DOMAIN stage_ready[r] :
                                       a = <<r, k, stage_ready[r][k][s]>>
    BY SMT
  <2> HIDE DEF ReadyPlaces
  <2> QED BY <2>5, <2>6, <2>7
<1>4. \A a : a \in StreamPlaces <=> \E l \in Streams : \E k : IsAt(C, a, l, k)
  <2>2. \A l \in Streams : C[l] = Column(l, StreamsOf(s), streams[l], "slot")
    BY <1>l DEF Listed
  <2>3. \A l \in Streams : DOMAIN C[l] = IF l \in StreamsOf(s) THEN DOMAIN streams[l] ELSE {}
    BY <2>2 DEF Column
  <2>4. \A l \in Streams : l \in StreamsOf(s) =>
     \A k \in DOMAIN streams[l] : C[l][k] = streams[l][k].slot
    BY <2>2, ZenonT(40) DEF Column
  <2>5. ASSUME NEW a, NEW x \in Streams, NEW k \in DOMAIN streams[x], streams[x][k].release = s,
               a = <<x, k, streams[x][k].slot>>
        PROVE  \E l \in Streams : \E j : IsAt(C, a, l, j)
    <3>0. x \in StreamsOf(s)
      BY <2>5, StreamsApart
    <3>1. IsAt(C, a, x, k)
      BY <1>k, <2>3, <2>4, <2>5, <3>0 DEF IsAt
    <3> QED BY <3>1
  <2>6. ASSUME NEW a, NEW l \in Streams, NEW k, IsAt(C, a, l, k)
        PROVE  \E x \in Streams : \E j \in DOMAIN streams[x] :
                 streams[x][j].release = s /\ a = <<x, j, streams[x][j].slot>>
    <3>1. l \in StreamsOf(s) /\ k \in DOMAIN streams[l]
      BY <2>3, <2>6 DEF IsAt
    <3>2. a = <<l, k, streams[l][k].slot>>
      BY <2>4, <2>6, <3>1 DEF IsAt
    <3>3. streams[l][k].release = s
      BY <3>1, StreamsApart
    <3> QED BY <3>1, <3>2, <3>3
  <2>7. \A a : a \in StreamPlaces <=>
                 \E x \in Streams : \E j \in DOMAIN streams[x] :
                   streams[x][j].release = s /\ a = <<x, j, streams[x][j].slot>>
    BY SMT
  <2> HIDE DEF StreamPlaces
  <2> QED BY <2>5, <2>6, <2>7
<1>5. \A a : a \in OutputPlaces <=> \E l \in {"output", "in_use", "releasing"} : \E k : IsAt(C, a, l, k)
  <2>1. C["output"] = Column(s, HasOutput, ready_output_queue, Field(s))
    BY <1>l DEF Listed
  <2>2. C["in_use"] = Column(s, HasOutput, in_use_queue, Field(s))
    BY <1>l DEF Listed
  <2>3. C["releasing"] = Released(s)
    BY <1>l DEF Listed
  <2>4. DOMAIN C["releasing"] = {j \in {1} : s = "GPU" /\ user = "release"}
        /\ \A k \in DOMAIN C["releasing"] : k = 1 /\ C["releasing"][k] = releasing.gpu
    BY <2>3, ZenonT(40) DEF Released
  <2>5. CASE s \in {"MIXED", "GPU"}
    <3>1. /\ DOMAIN C["output"] = DOMAIN ready_output_queue
          /\ \A k \in DOMAIN ready_output_queue : C["output"][k] = ready_output_queue[k][Field(s)]
      BY <2>1, <2>5 DEF Column, HasOutput
    <3>2. /\ DOMAIN C["in_use"] = DOMAIN in_use_queue
          /\ \A k \in DOMAIN in_use_queue : C["in_use"][k] = in_use_queue[k][Field(s)]
      BY <2>2, <2>5 DEF Column, HasOutput
    <3>3. \A o : OutputIdx(s, o) = o[Field(s)]
      BY <2>5 DEF OutputIdx, Field
    <3>4. \A a : a \in {<<"output", k, OutputIdx(s, ready_output_queue[k])>> :
                          k \in DOMAIN ready_output_queue} <=> \E k : IsAt(C, a, "output", k)
      BY <1>k, <3>1, <3>3, ZenonT(40) DEF IsAt
    <3>5. \A a : a \in {<<"in_use", k, OutputIdx(s, in_use_queue[k])>> : k \in DOMAIN in_use_queue}
                 <=> \E k : IsAt(C, a, "in_use", k)
      BY <1>k, <3>2, <3>3, ZenonT(40) DEF IsAt
    <3>6. \A a : a \in {<<"releasing", 1, releasing.gpu>> :
                          k \in {j \in {1} : s = "GPU" /\ user = "release"}}
                 <=> \E k : IsAt(C, a, "releasing", k)
      BY <1>k, <2>4 DEF IsAt
    <3> QED BY <2>5, <3>4, <3>5, <3>6, SMTT(30)
  <2>6. CASE s \notin {"MIXED", "GPU"}
    <3>1. DOMAIN C["output"] = {} /\ DOMAIN C["in_use"] = {}
      BY <2>1, <2>2, <2>6 DEF Column, HasOutput
    <3>2. DOMAIN C["releasing"] = {}
      BY <2>4, <2>6
    <3> QED BY <2>6, <3>1, <3>2 DEF IsAt
  <2> QED BY <2>5, <2>6
<1>6. \A l \in Kinds : l = "free" \/ l = "held" \/ l \in Stages \/ l \in Streams
                       \/ l \in {"output", "in_use", "releasing"}
  BY DEF Kinds
<1>7. \A a, l, k : IsAt(C, a, l, k) => l \in Kinds
  BY DEF IsAt
<1>p. Places(s) = FreePlaces \cup HeldPlaces \cup ReadyPlaces \cup StreamPlaces \cup OutputPlaces
  BY DEF Places
<1> HIDE DEF FreePlaces, HeldPlaces, ReadyPlaces, StreamPlaces, OutputPlaces
<1>8. ASSUME NEW a, a \in Places(s) PROVE \E l, k : IsAt(C, a, l, k)
  BY <1>1, <1>2, <1>3, <1>4, <1>5, <1>8, <1>p, ZenonT(40)
<1>9. ASSUME NEW a, NEW l, NEW k, IsAt(C, a, l, k) PROVE a \in Places(s)
  <2>1. CASE l = "free" \/ l = "held"
    BY <1>1, <1>2, <1>9, <1>p, <2>1
  <2>2. CASE l \in Stages \/ l \in Streams
    BY <1>3, <1>4, <1>9, <1>p, <2>2
  <2>3. CASE l \in {"output", "in_use", "releasing"}
    BY <1>5, <1>9, <1>p, <2>3
  <2> QED BY <1>6, <1>7, <1>9, <2>1, <2>2, <2>3
<1> QED BY <1>8, <1>9

\* At first all indices are free.
LEMMA OwnerInit == Init => OwnerInv
<1> SUFFICES ASSUME Init PROVE OwnerInv
  OBVIOUS
<1>1. \A x \in Streams : streams[x] = <<>>
  BY DEF Init
<1>2. StreamsFit
  BY <1>1, SMT DEF StreamsFit
<1>3. \A s \in Stages : ~stage_free_stop[s] /\ ~stage_ready_stop[s]
  BY DEF Init
<1>4. ASSUME NEW s \in Stages PROVE Ring(PartsOf(s), Index(s), ~Aborting)
  <2>1. PICK C : C = PartsOf(s)
    OBVIOUS
  <2>2. PICK n \in Nat \ {0} : n = GetQueueSizes[s]
    BY QueueSizesPositive
  <2>l. Listed(s, C, stage_free[s], Held(s), stage_ready, streams, ready_output_queue, in_use_queue,
               Released(s))
    BY <2>1, PartsAre DEF PartsOf
  <2>3. C["free"] = stage_free[s] /\ stage_free[s] = [i \in 1 .. n |-> i - 1]
    BY <2>2, <2>l DEF Init, Listed
  <2>4. DOMAIN C["held"] = {}
    <3>1. \A t \in Stages : acq[t] = "none"
      BY DEF Init
    <3>2. Owners(s) = {}
      BY <3>1 DEF Owners
    <3>3. C["held"] = Held(s)
      BY <2>l DEF Listed
    <3> QED BY <3>2, <3>3 DEF Held
  <2>5. \A x, T, f : DOMAIN Column(x, T, <<>>, f) = {}
    <3>1. DOMAIN <<>> = {}
      BY SMT
    <3> QED BY <3>1 DEF Column
  <2>6. DOMAIN C["output"] = {} /\ DOMAIN C["in_use"] = {}
    <3>1. ready_output_queue = <<>> /\ in_use_queue = <<>>
      BY DEF Init
    <3> QED BY <2>5, <2>l, <3>1, ZenonT(40) DEF Listed
  <2>7. DOMAIN C["releasing"] = {}
    <3>1. user # "release"
      BY DEF Init
    <3>2. C["releasing"] = Released(s)
      BY <2>l DEF Listed
    <3> QED BY <3>1, <3>2 DEF Released
  <2>8. \A l \in Stages : DOMAIN C[l] = {}
    <3>1. \A l \in Stages : stage_ready[l] = <<>>
      BY DEF Init
    <3>2. \A l \in Stages : C[l] = Column(l, OwningQueues(s), stage_ready[l], s)
      BY <2>l DEF Listed
    <3> QED BY <2>5, <3>1, <3>2
  <2>9. \A l \in Streams : DOMAIN C[l] = {}
    <3>2. \A l \in Streams : C[l] = Column(l, StreamsOf(s), streams[l], "slot")
      BY <2>l DEF Listed
    <3> QED BY <1>1, <2>5, <3>2
  <2>10. \A l \in Kinds : l # "free" => DOMAIN C[l] = {}
    BY <2>4, <2>6, <2>7, <2>8, <2>9 DEF Kinds
  <2>11. "free" \in Kinds
    BY DEF Kinds
  <2>12. \A l, k, i : At(C, l, k, i) => l = "free" /\ k \in 1 .. n /\ i = k - 1
    <3>1. \A k, i : At(C, "free", k, i) => k \in 1 .. n /\ i = k - 1
      BY <2>3 DEF At
    <3> QED BY <2>10, <3>1 DEF At
  <2>13. \A i \in 0 .. n - 1 : At(C, "free", i + 1, i)
    BY <2>3, <2>11, SMT DEF At
  <2>14. Ring(C, 0 .. n - 1, ~Aborting)
    <3>1. \A l, k, i : At(C, l, k, i) => i \in 0 .. n - 1
      BY <2>12, SMTT(30)
    <3>2. \A l, m, j, k, i : At(C, l, j, i) /\ At(C, m, k, i) => l = m /\ j = k
      BY <2>12, SMT
    <3> QED BY <2>13, <3>1, <3>2 DEF Ring
  <2> QED BY <2>1, <2>2, <2>14 DEF Index
<1> QED BY <1>2, <1>3, <1>4 DEF OwnerInv, StreamsFit

\* The index of a place.
LEMMA PlaceIs ==
  ASSUME NEW C, NEW a, NEW l, NEW k, IsAt(C, a, l, k)
  PROVE  At(C, l, k, a[3]) /\ a = <<l, k, a[3]>>
<1>1. l \in Kinds /\ k \in DOMAIN C[l] /\ a = <<l, k, C[l][k]>>
  BY DEF IsAt
<1>2. PICK j : j = C[l][k]
  OBVIOUS
<1>3. <<l, k, j>>[3] = j
  OBVIOUS
<1>4. j = a[3]
  BY <1>1, <1>2, <1>3
<1> QED BY <1>1, <1>2, <1>4 DEF At

\* The owners are the places.
LEMMA OwnedOnce == TypeOK /\ OwnerInv => IndicesConserved
<1> SUFFICES ASSUME TypeOK, OwnerInv, NEW s \in Stages
             PROVE  /\ \A a, b \in Places(s) : a[3] = b[3] => a = b
                    /\ ~Aborting => {a[3] : a \in Places(s)} = Index(s)
  BY DEF IndicesConserved
<1>1. PICK C : C = PartsOf(s)
  OBVIOUS
<1>2. PICK n \in Nat \ {0} : n = GetQueueSizes[s]
  BY QueueSizesPositive
<1>3. Ring(C, 0 .. n - 1, ~Aborting)
  BY <1>1, <1>2 DEF OwnerInv, Index
<1>4. CallbackType /\ StreamsFit
  BY DEF TypeOK, OwnerInv, StreamsFit
<1>5. \A a : a \in Places(s) <=> \E l, k : IsAt(C, a, l, k)
  BY <1>1, <1>4, PlacesAre
<1>6. \A a, l, k : IsAt(C, a, l, k) => At(C, l, k, a[3]) /\ a = <<l, k, a[3]>>
  BY PlaceIs
<1>7. \A l, k, i : At(C, l, k, i) => IsAt(C, <<l, k, i>>, l, k)
  BY DEF IsAt, At
<1>8. ASSUME NEW a \in Places(s), NEW b \in Places(s), a[3] = b[3] PROVE a = b
  <2>0. ASSUME NEW i, NEW c \in Places(s), i = c[3] PROVE \E l, k : At(C, l, k, i) /\ c = <<l, k, i>>
    <3>1. PICK l, k : IsAt(C, c, l, k)
      BY <1>5, <2>0
    <3>2. At(C, l, k, c[3]) /\ c = <<l, k, c[3]>>
      BY <1>6, <3>1
    <3> QED BY <2>0, <3>2
  <2>1. PICK i : i = a[3]
    OBVIOUS
  <2>2. PICK l, j : At(C, l, j, i) /\ a = <<l, j, i>>
    BY <2>0, <2>1
  <2>3. i = b[3]
    BY <1>8, <2>1
  <2>4. PICK m, k : At(C, m, k, i) /\ b = <<m, k, i>>
    BY <2>0, <2>3
  <2>5. l = m /\ j = k
    BY <1>3, <2>2, <2>4, ZenonT(40) DEF Ring
  <2> QED BY <2>2, <2>4, <2>5
<1>9. ASSUME ~Aborting PROVE {a[3] : a \in Places(s)} = Index(s)
  <2>1. ASSUME NEW a \in Places(s) PROVE a[3] \in 0 .. n - 1
    <3>1. PICK i : i = a[3]
      OBVIOUS
    <3>2. PICK l, k : At(C, l, k, i)
      BY <1>5, <1>6, <3>1
    <3>3. i \in 0 .. n - 1
      BY <1>3, <3>2 DEF Ring
    <3> QED BY <3>1, <3>3
  <2>2. ASSUME NEW i \in 0 .. n - 1 PROVE \E a \in Places(s) : a[3] = i
    <3>1. PICK l, k : At(C, l, k, i)
      BY <1>3, <1>9 DEF Ring
    <3>2. <<l, k, i>> \in Places(s)
      BY <1>5, <1>7, <3>1
    <3>3. <<l, k, i>>[3] = i
      OBVIOUS
    <3> QED BY <3>2, <3>3
  <2> QED BY <1>2, <2>1, <2>2 DEF Index
<1> QED BY <1>8, <1>9

\* For queues of every size, every interleaving of the stages, the callbacks and
\* the user, and stops at any point: no buffer ever has two owners, and none is
\* lost before a stop is signalled.
THEOREM IndicesAlwaysConserved == Spec => []IndicesConserved
<1>1. Init => TypeOK /\ CommandInv /\ WakeInv /\ OwnerInv
  BY CommandInit, TypeInit, WakeInit, OwnerInit
<1>2. TypeOK /\ CommandInv /\ WakeInv /\ OwnerInv /\ [Next]_vars
      => (TypeOK /\ CommandInv /\ WakeInv /\ OwnerInv)'
  BY TypeStep, WakeStep, OwnerStep
<1>3. TypeOK /\ OwnerInv => IndicesConserved
  BY OwnedOnce
<1> QED BY <1>1, <1>2, <1>3, PTL DEF Spec

=============================================================================

-------------------------- MODULE PythonStepProofs --------------------------
(***************************************************************************)
(* The steps of the Python interface.  The plan of a call is the steps     *)
(* todo it still has to take: which plans there are, and that with the     *)
(* counters of Pipeline every step of one is a call the executor allows    *)
(* (PlanInv).  The data that iter_setup feeds waits, or is in hand, until  *)
(* the CPU stage has taken it (SourceInv).                                 *)
(***************************************************************************)
EXTENDS PythonPipeline, UniformExecutorInv, TLAPS

USE Zenon  \* the prover of every leaf that names none

-----------------------------------------------------------------------------
(* The indices past the CPU stage *)

\* The types of what the threads work on.
LEMMA ThreadTypes ==
  ASSUME ExecutorInv
  PROVE  /\ pc \in [Workers -> Positions] /\ at \in [Workers -> Stages] /\ tasks \in [Workers -> Nat]
         /\ idx \in [Workers -> Indices \cup {kInvalidIdx}]
         /\ stage_work_queue \in [Stages -> Seq(Indices)] /\ \A s \in Stages : stage_work_queue[s] \in Seq(Indices)
         /\ "cpu" \in Workers /\ "mixed" \in Workers /\ "gpu" \in Workers
BY DEF ExecutorInv, TypeOK, WorkerType, QueueType, Workers

\* The elements of a sequence that grows or shrinks.
LEMMA InParts ==
  ASSUME NEW S, NEW q \in Seq(S), NEW x
  PROVE  /\ \A y \in S : In(x, Append(q, y)) <=> In(x, q) \/ x = y
         /\ q # <<>> => In(Head(q), q) /\ (In(x, Tail(q)) => In(x, q))
<1>1. ASSUME NEW y \in S PROVE In(x, Append(q, y)) <=> In(x, q) \/ x = y
  <2>1. /\ Len(Append(q, y)) = Len(q) + 1 /\ Len(q) \in Nat /\ Append(q, y)[Len(q) + 1] = y
        /\ \A k \in 1 .. Len(q) : Append(q, y)[k] = q[k]
    BY SMT
  <2> QED BY <2>1, SMT DEF In
<1>2. ASSUME q # <<>> PROVE In(Head(q), q) /\ (In(x, Tail(q)) => In(x, q))
  <2>1. /\ Len(Tail(q)) = Len(q) - 1 /\ Len(q) \in Nat \ {0} /\ q[1] = Head(q)
        /\ \A k \in 1 .. Len(Tail(q)) : Tail(q)[k] = q[k + 1]
    BY <1>2, SMT
  <2> QED BY <2>1, SMT DEF In
<1> QED BY <1>1, <1>2

\* What the mixed and the gpu thread do to the position of the cpu thread, to its
\* work and to the flags: nothing.
LEMMA OtherThread ==
  ASSUME ExecutorInv, NEW w \in Workers, w # "cpu", WorkerStep(w)
  PROVE  /\ batch' = batch /\ cpu_runs' = cpu_runs /\ in_use_queue' = in_use_queue
         /\ tasks'["cpu"] = tasks["cpu"] /\ pc'["cpu"] = pc["cpu"] /\ at'["cpu"] = at["cpu"]
         /\ Stopped => Stopped'
<1>1. at[w] # "SUPPORT"
  BY DEF Workers, ExecutorInv, PlaceInv
<1>2. \/ TakeWork(w)
      \/ Begin(w) \/ Sleep(w) \/ CheckStop(w) \/ CheckIdxs(w)
      \/ RunOps(w) \/ OperatorThrows(w) \/ HandleError(w) \/ Post(w)
      \/ AcquireIdxs(w) \/ ReleaseIdxs(w)
      \/ QueueOutputIdxs /\ w = "gpu"
  BY DEF WorkerStep
<1>4. batch' = batch /\ cpu_runs' = cpu_runs /\ in_use_queue' = in_use_queue
  <2>1. CASE TakeWork(w) \/ Begin(w) \/ Sleep(w) \/ CheckStop(w)
    BY <2>1 DEF TakeWork, Begin, Sleep, CheckStop, queues, user
  <2>2. CASE CheckIdxs(w) \/ RunOps(w) \/ OperatorThrows(w) \/ HandleError(w)
    BY <2>2 DEF CheckIdxs, RunOps, OperatorThrows, HandleError, queues, user
  <2>3. CASE Post(w) \/ AcquireIdxs(w) \/ ReleaseIdxs(w) \/ QueueOutputIdxs
    BY <2>3 DEF Post, AcquireIdxs, ReleaseIdxs, QueueOutputIdxs, queues, user
  <2> QED BY <1>2, <2>1, <2>2, <2>3
<1>5. Stopped => Stopped'
  <2>1. CASE TakeWork(w) \/ Begin(w) \/ Sleep(w) \/ CheckStop(w)
    BY <2>1 DEF TakeWork, Begin, Sleep, CheckStop, stops, Stopped
  <2>2. CASE CheckIdxs(w) \/ RunOps(w) \/ OperatorThrows(w) \/ HandleError(w)
    BY <2>2 DEF CheckIdxs, RunOps, OperatorThrows, HandleError, stops, Stopped
  <2>3. CASE Post(w) \/ AcquireIdxs(w) \/ ReleaseIdxs(w) \/ QueueOutputIdxs
    BY <2>3 DEF Post, AcquireIdxs, ReleaseIdxs, QueueOutputIdxs, stops, Stopped
  <2> QED BY <1>2, <2>1, <2>2, <2>3
<1>6. \/ tasks' = tasks /\ at' = at
      \/ tasks' = [tasks EXCEPT ![w] = @ - 1] /\ at' = [at EXCEPT ![w] = FirstStage[w]]
  <2>1. CASE TakeWork(w)
    BY <2>1 DEF TakeWork
  <2>2. CASE Begin(w) \/ Sleep(w) \/ CheckStop(w) \/ CheckIdxs(w)
    BY <2>2 DEF Begin, Sleep, CheckStop, CheckIdxs
  <2>3. CASE RunOps(w) \/ OperatorThrows(w) \/ HandleError(w) \/ Post(w)
    BY <2>3 DEF RunOps, OperatorThrows, HandleError, Post
  <2>4. CASE AcquireIdxs(w) \/ ReleaseIdxs(w) \/ QueueOutputIdxs
    BY <1>1, <2>4 DEF AcquireIdxs, ReleaseIdxs, QueueOutputIdxs
  <2> QED BY <1>2, <2>1, <2>2, <2>3, <2>4
<1>7. \E p : pc' = [pc EXCEPT ![w] = p]
  <2>1. CASE TakeWork(w) \/ Begin(w) \/ Sleep(w)
    BY <2>1 DEF TakeWork, Begin, Sleep, Goto
  <2>2. CASE CheckStop(w) \/ CheckIdxs(w) \/ RunOps(w)
    BY <2>2 DEF CheckStop, CheckIdxs, RunOps, Goto
  <2>3. CASE OperatorThrows(w) \/ HandleError(w) \/ Post(w)
    BY <2>3 DEF OperatorThrows, HandleError, Post, Goto
  <2>4. CASE AcquireIdxs(w) \/ ReleaseIdxs(w)
    BY <2>4 DEF AcquireIdxs, ReleaseIdxs, Goto
  <2>5. CASE QueueOutputIdxs /\ w = "gpu"
    BY <2>5 DEF QueueOutputIdxs, Goto
  <2> QED BY <1>2, <2>1, <2>2, <2>3, <2>4, <2>5
<1>8. pc \in [Workers -> Positions] /\ at \in [Workers -> Stages] /\ tasks \in [Workers -> Nat]
      /\ "cpu" \in Workers
  BY ThreadTypes
<1>9. pc'["cpu"] = pc["cpu"]
  BY <1>7, <1>8
<1>10. tasks'["cpu"] = tasks["cpu"] /\ at'["cpu"] = at["cpu"]
  BY <1>6, <1>8
<1> QED BY <1>4, <1>5, <1>9, <1>10

\* The index of a thread that takes or passes on another.
LEMMA OtherIndex ==
  ASSUME ExecutorInv, NEW w \in Workers, NEW x, idx' = [idx EXCEPT ![w] = x]
  PROVE  idx'[w] = x /\ \A v \in Workers : v # w => idx'[v] = idx[v]
<1>1. idx \in [Workers -> Indices \cup {kInvalidIdx}]
  BY ThreadTypes
<1> QED BY <1>1

\* The queues of the other stages.
LEMMA OtherQueue ==
  ASSUME ExecutorInv, NEW r \in Stages, NEW x, stage_work_queue' = [stage_work_queue EXCEPT ![r] = x]
  PROVE  stage_work_queue'[r] = x /\ \A s \in Stages : s # r => stage_work_queue'[s] = stage_work_queue[s]
<1>1. stage_work_queue \in [Stages -> Seq(Indices)]
  BY ThreadTypes
<1> QED BY <1>1

\* -1 is not the index of a buffer.
LEMMA NoIndex == kInvalidIdx \notin Indices
BY SMT DEF Indices, kInvalidIdx

\* The threads and the stages are different, and in order.
LEMMA Names ==
  /\ "cpu" # "mixed" /\ "cpu" # "gpu" /\ "mixed" # "gpu"
  /\ "SUPPORT" # "CPU" /\ "SUPPORT" # "MIXED" /\ "SUPPORT" # "GPU"
  /\ "CPU" # "MIXED" /\ "CPU" # "GPU" /\ "MIXED" # "GPU"
  /\ "cpu" \in Workers /\ "mixed" \in Workers /\ "gpu" \in Workers
  /\ "SUPPORT" \in Stages /\ "CPU" \in Stages /\ "MIXED" \in Stages /\ "GPU" \in Stages
  /\ NextStage["SUPPORT"] = "CPU" /\ NextStage["CPU"] = "MIXED" /\ NextStage["MIXED"] = "GPU"
BY DEF Workers, Stages, NextStage

\* The threads other than that of the CPU stage.
LEMMA OtherNames == \A w \in Workers : w # "cpu" => w = "mixed" \/ w = "gpu"
BY DEF Workers

\* A step that moves no index past the CPU stage.
LEMMA SamePast ==
  ASSUME UNCHANGED <<idx["gpu"], idx["mixed"], stage_work_queue["GPU"], stage_work_queue["MIXED"]>>,
         UNCHANGED <<ready_queue, in_use_queue>>, Running' => Running \/ ~Stopped
  PROVE  PastShrinks
BY DEF PastShrinks, Past, Output

\* The threads of the mixed and the gpu stage take an index.
LEMMA AcquirePast ==
  ASSUME ExecutorInv, NEW w \in Workers, w # "cpu", AcquireIdxs(w), in_use_queue' = in_use_queue
  PROVE  PastShrinks /\ UNCHANGED <<idx["cpu"], stage_work_queue["CPU"]>>
<1>1. /\ UNCHANGED ready_queue /\ pc' = [pc EXCEPT ![w] = "acquired"]
      /\ \/ idx' = [idx EXCEPT ![w] = kInvalidIdx] /\ UNCHANGED stage_work_queue
         \/ /\ stage_work_queue[at[w]] # <<>> /\ idx' = [idx EXCEPT ![w] = Head(stage_work_queue[at[w]])]
            /\ stage_work_queue' = [stage_work_queue EXCEPT ![at[w]] = Tail(stage_work_queue[at[w]])]
  BY DEF AcquireIdxs, Goto
<1>2. at["mixed"] = "MIXED" /\ at["gpu"] = "GPU"
  BY DEF ExecutorInv, PlaceInv
<1>3. Running' => Running /\ w # "gpu"
  <2>1. pc \in [Workers -> Positions]
    BY ThreadTypes
  <2> QED BY <1>1, <2>1, Names DEF Running
<1>4. idx'["cpu"] = idx["cpu"]
  BY <1>1, OtherIndex, Names
<1>5. CASE idx' = [idx EXCEPT ![w] = kInvalidIdx] /\ UNCHANGED stage_work_queue
  <2>1. idx'[w] = kInvalidIdx /\ \A v \in Workers : v # w => idx'[v] = idx[v]
    BY <1>5, OtherIndex
  <2>2. \A i \in Indices : i = idx'["gpu"] => i = idx["gpu"]
    BY <2>1, NoIndex, Names
  <2>3. \A i \in Indices : i = idx'["mixed"] => i = idx["mixed"]
    BY <2>1, NoIndex, Names
  <2> QED BY <1>1, <1>3, <1>4, <1>5, <2>2, <2>3 DEF PastShrinks, Past, Output
<1>6. CASE /\ stage_work_queue[at[w]] # <<>> /\ idx' = [idx EXCEPT ![w] = Head(stage_work_queue[at[w]])]
           /\ stage_work_queue' = [stage_work_queue EXCEPT ![at[w]] = Tail(stage_work_queue[at[w]])]
  <2>1. at[w] \in Stages /\ at[w] # "CPU"
    BY <1>2, Names, OtherNames
  <2>2. PICK q : q = stage_work_queue[at[w]]
    OBVIOUS
  <2>3. q \in Seq(Indices) /\ q # <<>>
    BY <1>6, <2>1, <2>2, ThreadTypes
  <2>4. In(Head(q), q) /\ \A x : In(x, Tail(q)) => In(x, q)
    BY <2>3, InParts
  <2>5. idx'[w] = Head(q) /\ \A v \in Workers : v # w => idx'[v] = idx[v]
    BY <1>6, <2>2, OtherIndex
  <2>6. stage_work_queue'[at[w]] = Tail(q)
        /\ \A s \in Stages : s # at[w] => stage_work_queue'[s] = stage_work_queue[s]
    BY <1>6, <2>1, <2>2, OtherQueue
  <2>7. stage_work_queue'["CPU"] = stage_work_queue["CPU"]
    BY <2>1, <2>6, Names
  <2>8. CASE w = "mixed"
    <3>1. /\ idx'["mixed"] = Head(q) /\ idx'["gpu"] = idx["gpu"] /\ q = stage_work_queue["MIXED"]
          /\ stage_work_queue'["MIXED"] = Tail(q) /\ stage_work_queue'["GPU"] = stage_work_queue["GPU"]
      BY <1>2, <2>2, <2>5, <2>6, <2>8, Names
    <3> QED BY <1>1, <1>3, <1>4, <2>4, <2>7, <3>1 DEF PastShrinks, Past, Output
  <2>9. CASE w = "gpu"
    <3>1. /\ idx'["gpu"] = Head(q) /\ idx'["mixed"] = idx["mixed"] /\ q = stage_work_queue["GPU"]
          /\ stage_work_queue'["GPU"] = Tail(q) /\ stage_work_queue'["MIXED"] = stage_work_queue["MIXED"]
      BY <1>2, <2>2, <2>5, <2>6, <2>9, Names
    <3>2. ~Running'
      BY <1>3, <2>9
    <3> QED BY <1>1, <1>4, <2>4, <2>7, <3>1, <3>2 DEF PastShrinks, Past, Output
  <2> QED BY <2>8, <2>9, OtherNames
<1> QED BY <1>1, <1>5, <1>6

\* The mixed thread passes its index on.
LEMMA ReleasePast ==
  ASSUME ExecutorInv, NEW w \in Workers, w # "cpu", ReleaseIdxs(w), in_use_queue' = in_use_queue
  PROVE  PastShrinks /\ UNCHANGED <<idx["cpu"], stage_work_queue["CPU"]>>
<1>1. at["mixed"] = "MIXED" /\ at["gpu"] = "GPU"
  BY DEF ExecutorInv, PlaceInv
<1>2. w = "mixed"
  <2>1. at[w] # "GPU"
    BY DEF ReleaseIdxs
  <2> QED BY <1>1, <2>1, OtherNames
<1>3. PICK x : x = idx["mixed"]
  OBVIOUS
<1>4. PICK q : q = stage_work_queue["GPU"]
  OBVIOUS
<1>5. /\ UNCHANGED ready_queue /\ idx' = [idx EXCEPT !["mixed"] = kInvalidIdx]
      /\ pc' = [pc EXCEPT !["mixed"] = "post"]
      /\ x = kInvalidIdx => stage_work_queue' = stage_work_queue
      /\ x # kInvalidIdx => stage_work_queue' = [stage_work_queue EXCEPT !["GPU"] = Append(q, x)]
  BY <1>1, <1>2, <1>3, <1>4, Names DEF ReleaseIdxs, Goto
<1>6. Running' => Running
  <2>1. pc \in [Workers -> Positions]
    BY ThreadTypes
  <2> QED BY <1>5, <2>1, Names DEF Running
<1>7. idx'["mixed"] = kInvalidIdx /\ idx'["gpu"] = idx["gpu"] /\ idx'["cpu"] = idx["cpu"]
  <2>1. idx'["mixed"] = kInvalidIdx /\ \A v \in Workers : v # "mixed" => idx'[v] = idx[v]
    <3>1. "mixed" \in Workers
      BY Names
    <3> QED BY <1>5, <3>1, OtherIndex
  <2> QED BY <2>1, Names
<1>8. CASE x = kInvalidIdx
  <2>1. stage_work_queue' = stage_work_queue /\ ready_queue' = ready_queue
    BY <1>5, <1>8
  <2>2. ASSUME NEW i \in Indices PROVE (Output(i)' => Output(i)) /\ (Past(i)' => Past(i))
    <3>1. i # idx'["mixed"]
      BY <1>7, NoIndex
    <3> QED BY <1>6, <1>7, <2>1, <3>1 DEF Past, Output
  <2> QED BY <1>7, <2>1, <2>2 DEF PastShrinks
<1>9. CASE x # kInvalidIdx
  <2>1. x \in Indices
    <3>1. idx \in [Workers -> Indices \cup {kInvalidIdx}]
      BY ThreadTypes
    <3> QED BY <1>3, <1>9, <3>1, Names
  <2>2. stage_work_queue' = [stage_work_queue EXCEPT !["GPU"] = Append(q, x)]
    BY <1>5, <1>9
  <2>3. stage_work_queue'["GPU"] = Append(q, x)
        /\ \A s \in Stages : s # "GPU" => stage_work_queue'[s] = stage_work_queue[s]
    <3>1. "GPU" \in Stages
      BY Names
    <3> QED BY <2>2, <3>1, OtherQueue
  <2>7. /\ stage_work_queue'["GPU"] = Append(q, x) /\ stage_work_queue'["CPU"] = stage_work_queue["CPU"]
        /\ stage_work_queue'["MIXED"] = stage_work_queue["MIXED"]
    BY <2>3, Names
  <2>4. q \in Seq(Indices)
    BY <1>4, ThreadTypes, Names
  <2>5. \A y : In(y, Append(q, x)) => In(y, q) \/ y = x
    BY <2>1, <2>4, InParts
  <2>6. ASSUME NEW i \in Indices PROVE (Output(i)' => Output(i)) /\ (Past(i)' => Past(i))
    <3>1. i # idx'["mixed"] /\ ready_queue' = ready_queue
      BY <1>5, <1>7, NoIndex
    <3>2. In(i, stage_work_queue'["GPU"]) => In(i, stage_work_queue["GPU"]) \/ i = idx["mixed"]
      BY <1>3, <1>4, <2>5, <2>7
    <3> QED BY <1>6, <1>7, <2>7, <3>1, <3>2 DEF Past, Output
  <2> QED BY <1>7, <2>6, <2>7 DEF PastShrinks
<1> QED BY <1>8, <1>9

\* The gpu thread queues an output.
LEMMA QueuePast ==
  ASSUME ExecutorInv, QueueOutputIdxs, in_use_queue' = in_use_queue
  PROVE  PastShrinks /\ UNCHANGED <<idx["cpu"], stage_work_queue["CPU"]>>
<1>1. PICK x : x = idx["gpu"]
  OBVIOUS
<1>2. /\ idx' = [idx EXCEPT !["gpu"] = kInvalidIdx] /\ UNCHANGED stage_work_queue
      /\ pc' = [pc EXCEPT !["gpu"] = "idle"]
      /\ pc["gpu"] = "release" => ready_queue' = Append(ready_queue, x)
      /\ pc["gpu"] # "release" => ready_queue' = ready_queue
  BY <1>1 DEF QueueOutputIdxs, Goto
<1>3. ~Running' /\ (pc["gpu"] = "release" => Running)
  <2>1. pc \in [Workers -> Positions]
    BY ThreadTypes
  <2> QED BY <1>2, <2>1, Names DEF Running
<1>4. idx'["gpu"] = kInvalidIdx /\ idx'["cpu"] = idx["cpu"] /\ idx'["mixed"] = idx["mixed"]
  BY <1>2, OtherIndex, Names
<1>5. \A y : In(y, ready_queue') => In(y, ready_queue) \/ (Running /\ y = x)
  <2>1. CASE pc["gpu"] = "release"
    <3>1. idx["gpu"] # kInvalidIdx
      BY <2>1, Names DEF ExecutorInv, PlaceInv
    <3>2. x \in Indices
      <4>1. idx \in [Workers -> Indices \cup {kInvalidIdx}]
        BY ThreadTypes
      <4> QED BY <1>1, <3>1, <4>1, Names
    <3>3. ready_queue \in Seq(Indices)
      BY DEF ExecutorInv, TypeOK, QueueType
    <3>4. \A y : In(y, Append(ready_queue, x)) => In(y, ready_queue) \/ y = x
      BY <3>2, <3>3, InParts
    <3> QED BY <1>2, <1>3, <2>1, <3>4
  <2> QED BY <1>2, <2>1
<1> QED BY <1>1, <1>2, <1>3, <1>4, <1>5, NoIndex DEF PastShrinks, Past, Output

\* A step of the mixed or of the gpu thread.
LEMMA OtherPast ==
  ASSUME ExecutorInv, NEW w \in Workers, w # "cpu", WorkerStep(w)
  PROVE  PastShrinks /\ UNCHANGED <<idx["cpu"], stage_work_queue["CPU"]>>
<1>1. in_use_queue' = in_use_queue
  BY OtherThread
<1>2. pc \in [Workers -> Positions]
  BY ThreadTypes
<1>3. \/ TakeWork(w) \/ Begin(w) \/ Sleep(w) \/ CheckStop(w)
      \/ RunOps(w) \/ OperatorThrows(w) \/ HandleError(w) \/ CheckIdxs(w)
      \/ Post(w) \/ AcquireIdxs(w) \/ ReleaseIdxs(w) \/ QueueOutputIdxs
  BY DEF WorkerStep
<1>4. CASE TakeWork(w) \/ Begin(w) \/ Sleep(w) \/ CheckStop(w)
  <2>1. UNCHANGED <<idx, stage_work_queue, ready_queue>>
    BY <1>4 DEF TakeWork, Begin, Sleep, CheckStop, queues
  <2>2. \E e \in {"idle", "begin", "check", "acquire", "presleep"} : pc' = [pc EXCEPT ![w] = e]
    BY <1>4 DEF TakeWork, Begin, Sleep, CheckStop, Goto
  <2>3. Running' => Running
    BY <1>2, <2>2, Names DEF Running
  <2> QED BY <1>1, <2>1, <2>3, SamePast
<1>5. CASE RunOps(w) \/ OperatorThrows(w) \/ HandleError(w)
  <2>1. UNCHANGED <<idx, stage_work_queue, ready_queue>>
    BY <1>5 DEF RunOps, OperatorThrows, HandleError, queues
  <2>2. pc[w] \in {"run", "error"} /\ \E e : pc' = [pc EXCEPT ![w] = e]
    BY <1>5 DEF RunOps, OperatorThrows, HandleError, Goto
  <2>3. Running' => Running
    BY <1>2, <2>2, Names DEF Running
  <2> QED BY <1>1, <2>1, <2>3, SamePast
<1>6. CASE Post(w)
  <2>1. UNCHANGED <<idx, stage_work_queue, ready_queue>> /\ pc' = [pc EXCEPT ![w] = "idle"]
    BY <1>6 DEF Post, queues, Goto
  <2>2. Running' => Running
    BY <1>2, <2>1, Names DEF Running
  <2> QED BY <1>1, <2>1, <2>2, SamePast
<1>7. CASE CheckIdxs(w)
  <2>1. /\ UNCHANGED <<idx, stage_work_queue, ready_queue>>
        /\ pc' = [pc EXCEPT ![w] = "abandon"] \/ (~Stopped /\ pc' = [pc EXCEPT ![w] = "run"])
    BY <1>7 DEF CheckIdxs, queues, Goto
  <2>2. Running' => Running \/ ~Stopped
    BY <1>2, <2>1, Names DEF Running
  <2> QED BY <1>1, <2>1, <2>2, SamePast
<1> QED BY <1>1, <1>3, <1>4, <1>5, <1>6, <1>7, AcquirePast, ReleasePast, QueuePast

\* The main thread passes on only outputs.
LEMMA MainPast ==
  ASSUME ExecutorInv, NEW t \in Threads,
         MainStep \/ SignalStop(t) \/ ScheduleGPU \/ ReleaseOutputs \/ ShareOutputs \/ UNCHANGED vars
  PROVE  /\ UNCHANGED <<batch, cpu_runs, tasks["cpu"], pc, at, idx, stage_work_queue>>
         /\ PastShrinks /\ (Stopped => Stopped')
<1> DEFINE Still == UNCHANGED <<batch, cpu_runs, pc, at, idx, stage_work_queue>> /\ (Stopped => Stopped')
           Outs == UNCHANGED <<ready_queue, in_use_queue>>
<1>1. ASSUME Still, Outs, tasks'["cpu"] = tasks["cpu"]
      PROVE  UNCHANGED <<batch, cpu_runs, tasks["cpu"], pc, at, idx, stage_work_queue>>
             /\ PastShrinks /\ (Stopped => Stopped')
  BY <1>1, SamePast DEF Running
<1>2. ASSUME Still, tasks' = tasks,
             \A i \in Indices : In(i, in_use_queue') \/ In(i, ready_queue') => In(i, in_use_queue) \/ In(i, ready_queue)
      PROVE  UNCHANGED <<batch, cpu_runs, tasks["cpu"], pc, at, idx, stage_work_queue>>
             /\ PastShrinks /\ (Stopped => Stopped')
  BY <1>2 DEF PastShrinks, Past, Output, Running
<1> HIDE DEF Still, Outs
<1>3. ready_queue \in Seq(Indices) /\ in_use_queue \in Seq(Indices)
  BY DEF ExecutorInv, TypeOK, QueueType
<1>4. CASE UseOutputIdxs
  <2>1. Still /\ tasks' = tasks
    BY <1>4 DEF UseOutputIdxs, Still, workers, stops, Stopped
  <2>2. \/ Outs
        \/ /\ ready_queue # <<>> /\ in_use_queue' = Append(in_use_queue, Head(ready_queue))
           /\ ready_queue' = Tail(ready_queue)
    BY <1>4 DEF UseOutputIdxs, Outs
  <2>3. CASE Outs
    BY <1>1, <2>1, <2>3
  <2>4. CASE /\ ready_queue # <<>> /\ in_use_queue' = Append(in_use_queue, Head(ready_queue))
             /\ ready_queue' = Tail(ready_queue)
    <3>1. Head(ready_queue) \in Indices
      BY <1>3, <2>4, SMT
    <3>2. PICK h : h = Head(ready_queue)
      OBVIOUS
    <3>3. \A i : In(i, Append(in_use_queue, h)) => In(i, in_use_queue) \/ i = h
      BY <1>3, <3>1, <3>2, InParts
    <3>4. In(h, ready_queue) /\ \A i : In(i, Tail(ready_queue)) => In(i, ready_queue)
      BY <1>3, <2>4, <3>2, InParts
    <3> QED BY <1>2, <2>1, <2>4, <3>2, <3>3, <3>4
  <2> QED BY <2>2, <2>3, <2>4
<1>5. CASE ReleaseOutputs
  <2>1. Still /\ tasks' = tasks
    BY <1>5 DEF ReleaseOutputs, Still, workers, stops, Stopped
  <2>2. in_use_queue # <<>> /\ in_use_queue' = Tail(in_use_queue) /\ ready_queue' = ready_queue
    BY <1>5 DEF ReleaseOutputs
  <2>3. \A i : In(i, Tail(in_use_queue)) => In(i, in_use_queue)
    BY <1>3, <2>2, InParts
  <2> QED BY <1>2, <2>1, <2>2, <2>3
<1>6. CASE ScheduleGPU
  <2>1. Still /\ Outs /\ tasks' = [tasks EXCEPT !["mixed"] = @ + 1, !["gpu"] = @ + 1]
    BY <1>6 DEF ScheduleGPU, Still, Outs, queues, stops, Stopped
  <2>2. tasks'["cpu"] = tasks["cpu"]
    <3>1. tasks \in [Workers -> Nat]
      BY ThreadTypes
    <3> QED BY <2>1, <3>1, Names
  <2> QED BY <1>1, <2>1, <2>2
<1>7. CASE ShareOutputsReturn \/ OutputsRethrow \/ Join \/ ShareOutputs
  <2>1. UNCHANGED <<batch, cpu_runs, workers, queues, stops, exec_error>>
    BY <1>7 DEF ShareOutputsReturn, OutputsRethrow, Join, ShareOutputs
  <2>2. Stopped => Stopped'
    BY <2>1 DEF stops, Stopped
  <2>3. Still /\ Outs /\ tasks' = tasks
    BY <2>1, <2>2 DEF Still, Outs, workers, queues
  <2> QED BY <1>1, <2>3
<1>10. CASE OutputsThrow
  <2>1. UNCHANGED <<batch, cpu_runs, workers, queues, stops>>
        /\ (exec_error' = TRUE \/ exec_error' = exec_error)
    BY <1>10 DEF OutputsThrow
  <2>2. Stopped => Stopped'
    BY <2>1 DEF stops, Stopped
  <2>3. Still /\ Outs /\ tasks' = tasks
    BY <2>1, <2>2 DEF Still, Outs, workers, queues
  <2> QED BY <1>1, <2>3
<1>11. CASE ForceStopAndNotify
  <2>1. UNCHANGED <<batch, cpu_runs, tasks, pc, at, idx, queues, stops, exec_error>>
    BY <1>11 DEF ForceStopAndNotify
  <2>2. Stopped => Stopped'
    BY <2>1 DEF stops, Stopped
  <2>3. Still /\ Outs /\ tasks' = tasks
    BY <2>1, <2>2 DEF Still, Outs, queues
  <2> QED BY <1>1, <2>3
<1>8. CASE SignalStop(t)
  <2>1. Still /\ Outs /\ tasks' = tasks
    BY <1>8 DEF SignalStop, Still, Outs, workers, queues, user, Stopped
  <2> QED BY <1>1, <2>1
<1>9. CASE UNCHANGED vars
  <2>1. UNCHANGED <<batch, cpu_runs, workers, queues, stops, exec_error>>
    BY <1>9 DEF vars, user
  <2>2. Stopped => Stopped'
    BY <2>1 DEF stops, Stopped
  <2>3. Still /\ Outs /\ tasks' = tasks
    BY <2>1, <2>2 DEF Still, Outs, workers, queues
  <2> QED BY <1>1, <2>3
<1> QED BY <1>4, <1>5, <1>6, <1>7, <1>8, <1>9, <1>10, <1>11 DEF MainStep

-----------------------------------------------------------------------------
(* The cpu thread *)

\* Where the cpu thread goes, and which index it holds then.
LEMMA CpuAt ==
  ASSUME ExecutorInv, NEW x, pc' = [pc EXCEPT !["cpu"] = x]
  PROVE  pc'["cpu"] = x /\ pc'["gpu"] = pc["gpu"]
<1>1. pc \in [Workers -> Positions]
  BY ThreadTypes
<1> QED BY <1>1, Names

\* The index of the cpu thread changes alone.
LEMMA CpuIndex ==
  ASSUME ExecutorInv, NEW x, idx' = [idx EXCEPT !["cpu"] = x]
  PROVE  idx'["cpu"] = x /\ idx'["gpu"] = idx["gpu"] /\ idx'["mixed"] = idx["mixed"]
<1>1. idx \in [Workers -> Indices \cup {kInvalidIdx}]
  BY ThreadTypes
<1> QED BY <1>1, Names

\* Nothing else, as long as nothing has failed.
LEMMA CpuMoves ==
  ASSUME ExecutorInv, WorkerStep("cpu"), ~Stopped'
  PROVE  CpuStep
<1>1. /\ pc["cpu"] # "presleep" /\ at["cpu"] \in {"SUPPORT", "CPU"}
      /\ pc["cpu"] \in {"run", "error", "release"} => idx["cpu"] # kInvalidIdx
      /\ pc["cpu"] = "abandon" => Stopped
      /\ \A s \in Stages : stage_work_stop[s] => Stopped
  BY Names DEF ExecutorInv, PlaceInv, StopInv, Stopped
<1>2. idx \in [Workers -> Indices \cup {kInvalidIdx}]
  BY ThreadTypes
<1>3. CASE TakeWork("cpu")
  <2>1. /\ pc["cpu"] = "idle" /\ pc' = [pc EXCEPT !["cpu"] = "begin"]
        /\ at' = [at EXCEPT !["cpu"] = FirstStage["cpu"]] /\ tasks' = [tasks EXCEPT !["cpu"] = @ - 1]
        /\ UNCHANGED <<idx, stage_work_queue, batch>>
    BY <1>3 DEF TakeWork, Goto, queues
  <2>2. at'["cpu"] = "SUPPORT" /\ tasks'["cpu"] = tasks["cpu"] - 1
    <3>1. at \in [Workers -> Stages] /\ tasks \in [Workers -> Nat]
      BY ThreadTypes
    <3> QED BY <2>1, <3>1, Names DEF FirstStage
  <2> QED BY <2>1, <2>2, CpuAt DEF CpuStep, CpuBegins
<1>4. CASE Begin("cpu") \/ Sleep("cpu") \/ CheckStop("cpu")
  <2>1. UNCHANGED <<at, tasks, idx, stage_work_queue, batch, stops, exec_error>>
    BY <1>4 DEF Begin, Sleep, CheckStop, queues
  <2>2. ~Stopped
    BY <2>1 DEF stops, Stopped
  <2>3. \/ pc["cpu"] = "begin" /\ pc' = [pc EXCEPT !["cpu"] = "check"]
        \/ pc["cpu"] = "check" /\ pc' = [pc EXCEPT !["cpu"] = "acquire"]
    BY <1>1, <1>4, <2>2 DEF Begin, Sleep, CheckStop, Goto
  <2> QED BY <2>1, <2>3, CpuAt DEF CpuStep, CpuGoesOn
<1>5. CASE RunOps("cpu") \/ HandleError("cpu") \/ CheckIdxs("cpu")
  <2>1. UNCHANGED <<at, tasks, idx, stage_work_queue, batch, stops, exec_error>>
    BY <1>5 DEF RunOps, HandleError, CheckIdxs, queues
  <2>2. ~Stopped /\ ~(pc["cpu"] = "acquired" /\ idx["cpu"] = kInvalidIdx)
    <3>1. ~Stopped
      BY <2>1 DEF stops, Stopped
    <3> QED BY <3>1, Names DEF ExecutorInv, StopInv
  <2>3. \/ pc["cpu"] = "run" /\ pc' = [pc EXCEPT !["cpu"] = "release"]
        \/ pc["cpu"] = "error" /\ pc' = [pc EXCEPT !["cpu"] = "release"]
        \/ pc["cpu"] = "acquired" /\ pc' = [pc EXCEPT !["cpu"] = "run"]
    BY <1>5, <2>2 DEF RunOps, HandleError, CheckIdxs, Goto
  <2> QED BY <2>1, <2>3, CpuAt DEF CpuStep, CpuGoesOn
<1>6. CASE OperatorThrows("cpu")
  BY <1>6 DEF OperatorThrows, Stopped
<1>7. CASE Post("cpu") \/ SleepFree
  <2>1. UNCHANGED <<at, tasks, idx, stage_work_queue, batch>>
    BY <1>7 DEF Post, SleepFree, queues
  <2>2. \/ pc["cpu"] = "post" /\ pc' = [pc EXCEPT !["cpu"] = "idle"]
        \/ pc["cpu"] = "window" /\ pc' = [pc EXCEPT !["cpu"] = "acquire"]
    BY <1>7 DEF Post, SleepFree, Goto
  <2> QED BY <2>1, <2>2, CpuAt DEF CpuStep, CpuGoesOn
<1>8. CASE AcquireFree
  <2>1. /\ pc["cpu"] = "acquire" /\ at["cpu"] = "SUPPORT"
        /\ UNCHANGED <<at, tasks, stage_work_queue, stops, exec_error>>
    BY <1>8 DEF AcquireFree
  <2>2. ~stage_work_stop["SUPPORT"]
    <3>1. ~Stopped
      BY <2>1 DEF stops, Stopped
    <3> QED BY <1>1, <3>1, Names
  <2>3. PICK h : h = Head(free_queue)
    OBVIOUS
  <2>4. \/ /\ free_queue # <<>> /\ idx' = [idx EXCEPT !["cpu"] = h] /\ pc' = [pc EXCEPT !["cpu"] = "acquired"]
           /\ batch' = [batch EXCEPT ![h] = cpu_runs - tasks["cpu"]]
        \/ pc' = [pc EXCEPT !["cpu"] = "window"] /\ UNCHANGED <<idx, batch>>
    BY <1>8, <2>2, <2>3 DEF AcquireFree, Goto
  <2>5. CASE /\ free_queue # <<>> /\ idx' = [idx EXCEPT !["cpu"] = h] /\ pc' = [pc EXCEPT !["cpu"] = "acquired"]
             /\ batch' = [batch EXCEPT ![h] = cpu_runs - tasks["cpu"]]
    <3>1. free_queue \in Seq(Indices)
      BY DEF ExecutorInv, TypeOK, QueueType
    <3>2. h \in Indices
      BY <2>3, <2>5, <3>1, SMT
    <3>3. In(h, free_queue)
      BY <2>3, <2>5, <3>1, InParts
    <3>4. idx'["cpu"] = h /\ pc'["cpu"] = "acquired"
      BY <2>5, CpuIndex, CpuAt
    <3> QED BY <2>1, <2>5, <3>2, <3>3, <3>4 DEF CpuStep, CpuTakesFree
  <2>6. CASE pc' = [pc EXCEPT !["cpu"] = "window"] /\ UNCHANGED <<idx, batch>>
    BY <2>1, <2>6, CpuAt DEF CpuStep, CpuGoesOn
  <2> QED BY <2>4, <2>5, <2>6
<1>9. CASE AcquireIdxs("cpu")
  <2>1. /\ pc["cpu"] = "acquire" /\ at["cpu"] # "SUPPORT" /\ pc' = [pc EXCEPT !["cpu"] = "acquired"]
        /\ UNCHANGED <<at, tasks, batch, stops, exec_error>>
    BY <1>9 DEF AcquireIdxs, Goto
  <2>2. at["cpu"] = "CPU"
    BY <1>1, <2>1
  <2>3. ~stage_work_stop["CPU"]
    <3>1. ~Stopped
      BY <2>1 DEF stops, Stopped
    <3> QED BY <1>1, <3>1, Names
  <2>4. /\ stage_work_queue["CPU"] # <<>> /\ idx' = [idx EXCEPT !["cpu"] = Head(stage_work_queue["CPU"])]
        /\ stage_work_queue' = [stage_work_queue EXCEPT !["CPU"] = Tail(stage_work_queue["CPU"])]
    BY <1>9, <2>2, <2>3 DEF AcquireIdxs
  <2>5. /\ stage_work_queue'["CPU"] = Tail(stage_work_queue["CPU"])
        /\ stage_work_queue'["MIXED"] = stage_work_queue["MIXED"]
    BY <2>4, OtherQueue, Names
  <2>6. idx'["cpu"] = Head(stage_work_queue["CPU"]) /\ pc'["cpu"] = "acquired"
    BY <2>1, <2>4, CpuIndex, CpuAt
  <2> QED BY <2>1, <2>2, <2>4, <2>5, <2>6 DEF CpuStep, CpuTakes
<1>10. CASE ReleaseIdxs("cpu")
  <2>1. /\ pc["cpu"] \in {"release", "abandon"} /\ idx' = [idx EXCEPT !["cpu"] = kInvalidIdx]
        /\ UNCHANGED <<tasks, batch, stops, exec_error>>
    BY <1>10 DEF ReleaseIdxs
  <2>2. pc["cpu"] = "release" /\ idx["cpu"] # kInvalidIdx
    <3>1. ~Stopped
      BY <2>1 DEF stops, Stopped
    <3> QED BY <1>1, <2>1, <3>1
  <2>3. idx["cpu"] \in Indices /\ idx'["cpu"] = kInvalidIdx
    BY <1>2, <2>1, <2>2, CpuIndex, Names
  <2>4. CASE at["cpu"] = "SUPPORT"
    <3>1. /\ stage_work_queue' = [stage_work_queue EXCEPT !["CPU"] = Append(stage_work_queue["CPU"], idx["cpu"])]
          /\ at' = [at EXCEPT !["cpu"] = "CPU"] /\ pc' = [pc EXCEPT !["cpu"] = "acquire"]
      BY <1>10, <2>2, <2>4, Names DEF ReleaseIdxs, Goto
    <3>2. at'["cpu"] = "CPU"
      <4>1. at \in [Workers -> Stages]
        BY ThreadTypes
      <4> QED BY <3>1, <4>1, Names
    <3>3. /\ stage_work_queue'["CPU"] = Append(stage_work_queue["CPU"], idx["cpu"])
          /\ stage_work_queue'["MIXED"] = stage_work_queue["MIXED"]
      BY <3>1, OtherQueue, Names
    <3> QED BY <2>1, <2>2, <2>3, <2>4, <3>1, <3>2, <3>3, CpuAt DEF CpuStep, CpuPasses
  <2>5. CASE at["cpu"] = "CPU"
    <3>1. /\ stage_work_queue' = [stage_work_queue EXCEPT !["MIXED"] = Append(stage_work_queue["MIXED"], idx["cpu"])]
          /\ at' = at /\ pc' = [pc EXCEPT !["cpu"] = "post"]
      BY <1>10, <2>2, <2>5, Names DEF ReleaseIdxs, Goto
    <3>2. /\ stage_work_queue'["MIXED"] = Append(stage_work_queue["MIXED"], idx["cpu"])
          /\ stage_work_queue'["CPU"] = stage_work_queue["CPU"]
      BY <3>1, OtherQueue, Names
    <3> QED BY <2>1, <2>2, <2>3, <2>5, <3>1, <3>2, CpuAt DEF CpuStep, CpuEnds
  <2> QED BY <1>1, <2>4, <2>5
<1> QED
  <2>1. "cpu" # "gpu"
    OBVIOUS
  <2> QED BY <1>3, <1>4, <1>5, <1>6, <1>7, <1>8, <1>9, <1>10, <2>1 DEF WorkerStep

\* What the cpu thread adds to what is past the CPU stage.
LEMMA CpuPast ==
  ASSUME ExecutorInv, WorkerStep("cpu"), \A i \in Indices : Past(i) => ~In(i, free_queue)
  PROVE  CpuAdds
<1>1. at["cpu"] \in {"SUPPORT", "CPU"}
  BY DEF ExecutorInv, PlaceInv
<1>2. \/ TakeWork("cpu")
      \/ Begin("cpu") \/ Sleep("cpu") \/ CheckStop("cpu") \/ CheckIdxs("cpu")
      \/ RunOps("cpu") \/ OperatorThrows("cpu") \/ HandleError("cpu") \/ Post("cpu")
      \/ AcquireIdxs("cpu") \/ ReleaseIdxs("cpu") \/ AcquireFree \/ SleepFree
  BY Names DEF WorkerStep
<1>3. UNCHANGED <<in_use_queue, ready_queue, cpu_runs>>
  <2>1. CASE TakeWork("cpu") \/ Begin("cpu") \/ Sleep("cpu") \/ CheckStop("cpu")
    BY <2>1 DEF TakeWork, Begin, Sleep, CheckStop, queues, user
  <2>2. CASE CheckIdxs("cpu") \/ RunOps("cpu") \/ OperatorThrows("cpu") \/ HandleError("cpu")
    BY <2>2 DEF CheckIdxs, RunOps, OperatorThrows, HandleError, queues, user
  <2>3. CASE Post("cpu") \/ AcquireIdxs("cpu") \/ ReleaseIdxs("cpu")
    BY <2>3 DEF Post, AcquireIdxs, ReleaseIdxs, queues, user
  <2>4. CASE AcquireFree \/ SleepFree
    BY <2>4 DEF AcquireFree, SleepFree, queues, user
  <2> QED BY <1>2, <2>1, <2>2, <2>3, <2>4
<1>4. Stopped => Stopped'
  <2>1. CASE TakeWork("cpu") \/ Begin("cpu") \/ Sleep("cpu") \/ CheckStop("cpu")
    BY <2>1 DEF TakeWork, Begin, Sleep, CheckStop, stops, Stopped
  <2>2. CASE CheckIdxs("cpu") \/ RunOps("cpu") \/ OperatorThrows("cpu") \/ HandleError("cpu")
    BY <2>2 DEF CheckIdxs, RunOps, OperatorThrows, HandleError, stops, Stopped
  <2>3. CASE Post("cpu") \/ AcquireIdxs("cpu") \/ ReleaseIdxs("cpu")
    BY <2>3 DEF Post, AcquireIdxs, ReleaseIdxs, stops, Stopped
  <2>4. CASE AcquireFree \/ SleepFree
    BY <2>4 DEF AcquireFree, SleepFree, stops, Stopped
  <2> QED BY <1>2, <2>1, <2>2, <2>3, <2>4
<1>5. \E p : pc' = [pc EXCEPT !["cpu"] = p]
  <2>1. CASE TakeWork("cpu") \/ Begin("cpu") \/ Sleep("cpu")
    BY <2>1 DEF TakeWork, Begin, Sleep, Goto
  <2>2. CASE CheckStop("cpu") \/ CheckIdxs("cpu") \/ RunOps("cpu")
    BY <2>2 DEF CheckStop, CheckIdxs, RunOps, Goto
  <2>3. CASE OperatorThrows("cpu") \/ HandleError("cpu") \/ Post("cpu")
    BY <2>3 DEF OperatorThrows, HandleError, Post, Goto
  <2>4. CASE AcquireIdxs("cpu") \/ ReleaseIdxs("cpu")
    BY <2>4 DEF AcquireIdxs, ReleaseIdxs, Goto
  <2>5. CASE AcquireFree \/ SleepFree
    BY <2>5 DEF AcquireFree, SleepFree, Goto
  <2> QED BY <1>2, <2>1, <2>2, <2>3, <2>4, <2>5
<1>6. idx' = idx \/ \E x : idx' = [idx EXCEPT !["cpu"] = x]
  <2>1. CASE TakeWork("cpu") \/ Begin("cpu") \/ Sleep("cpu") \/ CheckStop("cpu")
    BY <2>1 DEF TakeWork, Begin, Sleep, CheckStop
  <2>2. CASE CheckIdxs("cpu") \/ RunOps("cpu") \/ OperatorThrows("cpu") \/ HandleError("cpu")
    BY <2>2 DEF CheckIdxs, RunOps, OperatorThrows, HandleError
  <2>3. CASE Post("cpu") \/ AcquireIdxs("cpu") \/ ReleaseIdxs("cpu")
    BY <2>3 DEF Post, AcquireIdxs, ReleaseIdxs
  <2>4. CASE AcquireFree \/ SleepFree
    BY <2>4 DEF AcquireFree, SleepFree
  <2> QED BY <1>2, <2>1, <2>2, <2>3, <2>4
<1>7. \/ batch' = batch
      \/ free_queue # <<>> /\ \E b : batch' = [batch EXCEPT ![Head(free_queue)] = b]
  <2>1. CASE TakeWork("cpu") \/ Begin("cpu") \/ Sleep("cpu") \/ CheckStop("cpu")
    BY <2>1 DEF TakeWork, Begin, Sleep, CheckStop
  <2>2. CASE CheckIdxs("cpu") \/ RunOps("cpu") \/ OperatorThrows("cpu") \/ HandleError("cpu")
    BY <2>2 DEF CheckIdxs, RunOps, OperatorThrows, HandleError
  <2>3. CASE Post("cpu") \/ AcquireIdxs("cpu") \/ ReleaseIdxs("cpu")
    BY <2>3 DEF Post, AcquireIdxs, ReleaseIdxs
  <2>4. CASE AcquireFree \/ SleepFree
    BY <2>4 DEF AcquireFree, SleepFree
  <2> QED BY <1>2, <2>1, <2>2, <2>3, <2>4
<1>8. pc'["gpu"] = pc["gpu"] /\ idx'["gpu"] = idx["gpu"] /\ idx'["mixed"] = idx["mixed"]
  BY <1>5, <1>6, CpuAt, CpuIndex
<1>9. \A i \in Indices : Output(i)' <=> Output(i)
  BY <1>3, <1>8 DEF Output, Running
<1>10. ASSUME NEW i \in Indices, Past(i) PROVE batch'[i] = batch[i]
  <2>1. CASE batch' = batch
    BY <2>1
  <2>2. CASE free_queue # <<>> /\ \E b : batch' = [batch EXCEPT ![Head(free_queue)] = b]
    <3>1. free_queue \in Seq(Indices) /\ batch \in [Indices -> Nat]
      BY DEF ExecutorInv, TypeOK, QueueType, UserType
    <3>2. In(Head(free_queue), free_queue)
      BY <2>2, <3>1, InParts
    <3>3. Head(free_queue) # i
      BY <1>10, <3>2
    <3> QED BY <2>2, <3>1, <3>3
  <2> QED BY <1>7, <2>1, <2>2
<1>11. ASSUME ~Stopped', NEW i \in Indices, Past(i)'
       PROVE  Past(i) \/ (i = idx["cpu"] /\ at["cpu"] = "CPU" /\ pc["cpu"] = "release" /\ batch' = batch)
  <2>1. stage_work_queue'["GPU"] = stage_work_queue["GPU"]
    <3>1. \/ UNCHANGED stage_work_queue
          \/ \E x : stage_work_queue' = [stage_work_queue EXCEPT !["CPU"] = x]
          \/ \E x : stage_work_queue' = [stage_work_queue EXCEPT !["MIXED"] = x]
      <4>1. CASE TakeWork("cpu") \/ Begin("cpu") \/ Sleep("cpu") \/ CheckStop("cpu")
        BY <4>1 DEF TakeWork, Begin, Sleep, CheckStop, queues
      <4>2. CASE CheckIdxs("cpu") \/ RunOps("cpu") \/ OperatorThrows("cpu") \/ HandleError("cpu")
        BY <4>2 DEF CheckIdxs, RunOps, OperatorThrows, HandleError, queues
      <4>3. CASE Post("cpu") \/ AcquireFree \/ SleepFree
        BY <4>3 DEF Post, AcquireFree, SleepFree, queues
      <4>4. CASE AcquireIdxs("cpu")
        BY <1>1, <4>4, Names DEF AcquireIdxs
      <4>5. CASE ReleaseIdxs("cpu")
        BY <1>1, <4>5, Names DEF ReleaseIdxs
      <4> QED BY <1>2, <4>1, <4>2, <4>3, <4>4, <4>5
    <3> QED BY <3>1, OtherQueue, Names
  <2>2. CASE stage_work_queue'["MIXED"] = stage_work_queue["MIXED"]
    BY <1>3, <1>8, <1>9, <1>11, <2>1, <2>2 DEF Past
  <2>3. CASE CpuEnds
    <3>1. PICK q : q = stage_work_queue["MIXED"]
      OBVIOUS
    <3>2. PICK x : x = idx["cpu"]
      OBVIOUS
    <3>3. /\ x \in Indices /\ stage_work_queue'["MIXED"] = Append(q, x)
          /\ at["cpu"] = "CPU" /\ pc["cpu"] = "release" /\ batch' = batch
      BY <2>3, <3>1, <3>2 DEF CpuEnds
    <3>4. q \in Seq(Indices)
      BY <3>1, ThreadTypes, Names
    <3>5. In(i, Append(q, x)) => In(i, q) \/ i = x
      BY <3>3, <3>4, InParts
    <3> QED BY <1>3, <1>8, <1>9, <1>11, <2>1, <3>1, <3>2, <3>3, <3>5 DEF Past
  <2> QED BY <1>11, <2>2, <2>3, CpuMoves DEF CpuStep, CpuBegins, CpuTakesFree, CpuTakes, CpuPasses
<1> QED BY <1>3, <1>4, <1>9, <1>10, <1>11 DEF CpuAdds

-----------------------------------------------------------------------------
(* Plans *)

Steps == {"iter_setup", "run_cpu", "run_gpu", "prefetched", "outputs", "share_outputs",
          "release_outputs", "share", "count", "count_first", "stop"}

Requests == {"outputs", "share_outputs", "share"}

\* The step x is still to come in q.
Pending(q, x) == \E k \in 1 .. Len(q) : q[k] = x

Asking(q) == \E k \in 1 .. Len(q) : q[k] \in Requests

\* iter_setup, _run_cpu and _run_gpu follow each other, unless the first of them is done.
Scheduling(q) ==
  /\ \A k \in 1 .. Len(q) :
       q[k] = "iter_setup" => k + 2 <= Len(q) /\ q[k + 1] = "run_cpu" /\ q[k + 2] = "run_gpu"
  /\ \A k \in 1 .. Len(q) : q[k] = "run_cpu" => k = 1 \/ q[k - 1] = "iter_setup"

\* Outputs are asked for once, and shared first of all or after those held are released.
Sharing(q) ==
  /\ \A j, k \in 1 .. Len(q) : q[j] \in Requests /\ q[k] \in Requests => j = k
  /\ \A k \in 1 .. Len(q) : q[k] = "share" => k = 1 \/ (k = 2 /\ q[1] = "release_outputs")

\* The iterator releases what it shares at once.
Paired(q) ==
  \A k \in 1 .. Len(q) :
    q[k] # "outputs" /\ (q[k] \in Requests => k < Len(q) /\ q[k + 1] = "release_outputs")

\* What remains of a plan when its first step is done.
LEMMA TailSteps ==
  ASSUME NEW q \in Seq(Steps), q # <<>>
  PROVE  /\ Tail(q) \in Seq(Steps) /\ Len(Tail(q)) = Len(q) - 1 /\ Len(q) \in Nat /\ Len(q) >= 1
         /\ Head(q) = q[1] /\ \A k \in 1 .. Len(q) - 1 : Tail(q)[k] = q[k + 1]
BY SMT

\* The rest of a plan still runs the CPU stage just after iter_setup and the GPU
\* stages just after the CPU stage.
LEMMA TailScheduling ==
  ASSUME NEW q \in Seq(Steps), q # <<>>, Scheduling(q)
  PROVE  Scheduling(Tail(q))
<1> DEFINE t == Tail(q)
<1>1. /\ Len(t) = Len(q) - 1 /\ Len(q) \in Nat /\ Len(q) >= 1
      /\ \A k \in 1 .. Len(q) - 1 : t[k] = q[k + 1]
  BY TailSteps
<1> HIDE DEF t
<1>2. ASSUME NEW k \in 1 .. Len(t), t[k] = "iter_setup"
      PROVE  k + 2 <= Len(t) /\ t[k + 1] = "run_cpu" /\ t[k + 2] = "run_gpu"
  <2> DEFINE j == k + 1
  <2>1. j \in 1 .. Len(q) /\ q[j] = "iter_setup"
    BY <1>1, <1>2, SMT
  <2>2. j + 2 <= Len(q) /\ q[j + 1] = "run_cpu" /\ q[j + 2] = "run_gpu"
    BY <2>1 DEF Scheduling
  <2>3. t[k + 1] = q[j + 1] /\ t[k + 2] = q[j + 2]
    BY <1>1, <2>2, SMTT(30)
  <2> QED BY <1>1, <2>2, <2>3, SMT
<1>3. ASSUME NEW k \in 1 .. Len(t), t[k] = "run_cpu" PROVE k = 1 \/ t[k - 1] = "iter_setup"
  <2> DEFINE j == k + 1
  <2>1. j \in 1 .. Len(q) /\ q[j] = "run_cpu" /\ j # 1
    BY <1>1, <1>3, SMT
  <2>2. q[j - 1] = "iter_setup"
    BY <2>1 DEF Scheduling
  <2> QED BY <1>1, <2>2, SMTT(30)
<1>4. Scheduling(t)
  BY <1>2, <1>3 DEF Scheduling
<1> QED BY <1>4 DEF t

\* The rest of a plan still asks for outputs at most once.
LEMMA TailSharing ==
  ASSUME NEW q \in Seq(Steps), q # <<>>, Sharing(q)
  PROVE  Sharing(Tail(q)) /\ (Asking(Tail(q)) <=> Asking(q) /\ Head(q) \notin Requests)
<1> DEFINE t == Tail(q)
<1>1. /\ Len(t) = Len(q) - 1 /\ Len(q) \in Nat /\ Len(q) >= 1 /\ Head(q) = q[1]
      /\ \A k \in 1 .. Len(q) - 1 : t[k] = q[k + 1]
  BY TailSteps
<1> HIDE DEF t
<1>2. Sharing(t)
  <2>1. ASSUME NEW j \in 1 .. Len(t), NEW k \in 1 .. Len(t), t[j] \in Requests, t[k] \in Requests
        PROVE  j = k
    <3>1. /\ j + 1 \in 1 .. Len(q) /\ k + 1 \in 1 .. Len(q)
          /\ q[j + 1] \in Requests /\ q[k + 1] \in Requests
      BY <1>1, <2>1, SMT
    <3>2. j + 1 = k + 1
      BY <3>1 DEF Sharing
    <3> QED BY <1>1, <3>2, SMTT(30)
  <2>2. ASSUME NEW k \in 1 .. Len(t), t[k] = "share" PROVE k = 1
    <3>1. k + 1 \in 1 .. Len(q) /\ q[k + 1] = "share" /\ k + 1 # 1
      BY <1>1, <2>2, SMT
    <3>2. k + 1 = 2
      BY <3>1 DEF Sharing
    <3> QED BY <1>1, <3>2, SMTT(30)
  <2> QED BY <2>1, <2>2 DEF Sharing
<1>3. ASSUME Asking(t) PROVE Asking(q) /\ Head(q) \notin Requests
  <2>1. PICK k \in 1 .. Len(t) : t[k] \in Requests
    BY <1>3 DEF Asking
  <2>2. k + 1 \in 1 .. Len(q) /\ q[k + 1] \in Requests /\ 1 \in 1 .. Len(q) /\ k + 1 # 1
    BY <1>1, <2>1, SMT
  <2>3. q[1] \notin Requests
    BY <2>2 DEF Sharing
  <2> QED BY <1>1, <2>2, <2>3 DEF Asking
<1>4. ASSUME Asking(q), Head(q) \notin Requests PROVE Asking(t)
  <2>1. PICK k \in 1 .. Len(q) : q[k] \in Requests
    BY <1>4 DEF Asking
  <2>2. k - 1 \in 1 .. Len(t) /\ t[k - 1] = q[k]
    BY <1>1, <1>4, <2>1, SMT
  <2> QED BY <2>1, <2>2 DEF Asking
<1> QED BY <1>2, <1>3, <1>4 DEF t

\* Doing one step leaves the others pending.
LEMMA TailPending ==
  ASSUME NEW q \in Seq(Steps), q # <<>>, NEW x, Head(q) # x
  PROVE  Pending(Tail(q), x) <=> Pending(q, x)
<1> DEFINE t == Tail(q)
<1>1. /\ Len(t) = Len(q) - 1 /\ Len(q) \in Nat /\ Len(q) >= 1 /\ Head(q) = q[1]
      /\ \A k \in 1 .. Len(q) - 1 : t[k] = q[k + 1]
  BY TailSteps
<1> HIDE DEF t
<1>2. ASSUME Pending(t, x) PROVE Pending(q, x)
  BY <1>1, <1>2, SMT DEF Pending
<1>3. ASSUME Pending(q, x) PROVE Pending(t, x)
  <2>1. PICK k \in 1 .. Len(q) : q[k] = x
    BY <1>3 DEF Pending
  <2>2. k - 1 \in 1 .. Len(t) /\ t[k - 1] = q[k]
    BY <1>1, <2>1, SMT
  <2> QED BY <2>1, <2>2 DEF Pending
<1> QED BY <1>2, <1>3 DEF t

\* In the rest of a plan every request is still followed by a release.
LEMMA TailPaired ==
  ASSUME NEW q \in Seq(Steps), q # <<>>, Paired(q)
  PROVE  Paired(Tail(q)) /\ (Head(q) \in Requests => Tail(q) # <<>> /\ Head(Tail(q)) = "release_outputs")
<1> DEFINE t == Tail(q)
<1>1. /\ Len(t) = Len(q) - 1 /\ Len(q) \in Nat /\ Len(q) >= 1 /\ Head(q) = q[1]
      /\ \A k \in 1 .. Len(q) - 1 : t[k] = q[k + 1]
  BY TailSteps
<1>2. t \in Seq(Steps) /\ (t # <<>> => Head(t) = t[1])
  BY TailSteps
<1> HIDE DEF t
<1>3. Paired(t)
  BY <1>1, SMT DEF Paired
<1>4. Head(q) \in Requests => Len(q) > 1 /\ t[1] = "release_outputs"
  BY <1>1, SMT DEF Paired
<1>5. Len(t) > 0 => t # <<>>
  BY <1>2, SMT
<1>6. Head(q) \in Requests => t # <<>> /\ Head(t) = "release_outputs"
  BY <1>1, <1>2, <1>4, <1>5, SMT
<1> QED BY <1>3, <1>6 DEF t

\* Two plans, one after the other.
LEMMA Joined ==
  ASSUME NEW a \in Seq(Steps), NEW b \in Seq(Steps)
  PROVE  /\ a \o b \in Seq(Steps) /\ Len(a \o b) = Len(a) + Len(b) /\ Len(a) \in Nat /\ Len(b) \in Nat
         /\ \A k \in 1 .. Len(a) : (a \o b)[k] = a[k]
         /\ \A k \in 1 .. Len(b) : (a \o b)[Len(a) + k] = b[k]
         /\ \A k \in 1 .. Len(a \o b) : k > Len(a) => (a \o b)[k] = b[k - Len(a)]
BY SMT

\* Two plans in sequence schedule as each of them does.
LEMMA JoinedScheduling ==
  ASSUME NEW a \in Seq(Steps), NEW b \in Seq(Steps), Scheduling(a), Scheduling(b),
         b # <<>> => b[1] # "run_cpu"
  PROVE  Scheduling(a \o b)
<1> DEFINE q == a \o b
<1>1. /\ Len(q) = Len(a) + Len(b) /\ Len(a) \in Nat /\ Len(b) \in Nat
      /\ \A k \in 1 .. Len(a) : q[k] = a[k]
      /\ \A k \in 1 .. Len(q) : k > Len(a) => q[k] = b[k - Len(a)]
  BY Joined
<1>2. Len(b) >= 1 => b # <<>>
  BY SMT
<1>6. Len(q) = Len(a) + Len(b) /\ Len(a) \in Nat /\ Len(b) \in Nat
  BY <1>1
<1> HIDE DEF q
<1>3. ASSUME NEW k \in 1 .. Len(q), q[k] = "iter_setup"
      PROVE  k + 2 <= Len(q) /\ q[k + 1] = "run_cpu" /\ q[k + 2] = "run_gpu"
  <2>1. CASE k \in 1 .. Len(a)
    <3>1. a[k] = "iter_setup"
      BY <1>1, <1>3, <2>1
    <3>2. k + 2 <= Len(a) /\ a[k + 1] = "run_cpu" /\ a[k + 2] = "run_gpu"
      BY <2>1, <3>1 DEF Scheduling
    <3>3. k + 1 \in 1 .. Len(a) /\ k + 2 \in 1 .. Len(a) /\ k + 2 <= Len(q)
      BY <1>6, <2>1, <3>2, SMT
    <3> QED BY <1>1, <3>2, <3>3
  <2>2. CASE k > Len(a)
    <3>1. k - Len(a) \in 1 .. Len(b) /\ b[k - Len(a)] = "iter_setup"
      BY <1>1, <1>3, <1>6, <2>2, SMT
    <3>2. k - Len(a) + 2 <= Len(b) /\ b[k - Len(a) + 1] = "run_cpu" /\ b[k - Len(a) + 2] = "run_gpu"
      BY <3>1 DEF Scheduling
    <3>3. /\ k + 1 \in 1 .. Len(q) /\ k + 1 > Len(a) /\ (k + 1) - Len(a) = k - Len(a) + 1
          /\ k + 2 \in 1 .. Len(q) /\ k + 2 > Len(a) /\ (k + 2) - Len(a) = k - Len(a) + 2
      BY <1>6, <2>2, <3>1, <3>2, SMTT(30)
    <3>4. q[k + 1] = b[(k + 1) - Len(a)] /\ q[k + 2] = b[(k + 2) - Len(a)]
      BY <1>1, <3>3
    <3>5. k + 2 <= Len(q)
      BY <1>6, <3>3, SMT
    <3> QED BY <3>2, <3>3, <3>4, <3>5
  <2> QED BY <1>6, <2>1, <2>2, SMT
<1>4. ASSUME NEW k \in 1 .. Len(q), q[k] = "run_cpu"
      PROVE  k = 1 \/ q[k - 1] = "iter_setup"
  <2>1. CASE k \in 1 .. Len(a)
    <3>1. a[k] = "run_cpu"
      BY <1>1, <1>4, <2>1
    <3>2. k = 1 \/ a[k - 1] = "iter_setup"
      BY <2>1, <3>1 DEF Scheduling
    <3>3. k # 1 => k - 1 \in 1 .. Len(a)
      BY <1>6, <2>1, SMT
    <3> QED BY <1>1, <3>2, <3>3
  <2>2. CASE k > Len(a)
    <3>1. k - Len(a) \in 1 .. Len(b) /\ b[k - Len(a)] = "run_cpu"
      BY <1>1, <1>4, <2>2, SMT
    <3>2. k - Len(a) # 1
      BY <1>2, <1>6, <3>1, SMT
    <3>3. b[(k - Len(a)) - 1] = "iter_setup"
      BY <3>1, <3>2 DEF Scheduling
    <3>4. k - 1 \in 1 .. Len(q) /\ k - 1 > Len(a) /\ (k - 1) - Len(a) = (k - Len(a)) - 1
      BY <1>6, <2>2, <3>1, <3>2, SMT
    <3> QED BY <1>1, <3>3, <3>4
  <2> QED BY <1>6, <2>1, <2>2, SMT
<1>5. Scheduling(q)
  BY <1>3, <1>4 DEF Scheduling
<1> QED BY <1>5 DEF q

\* What is pending in two plans in sequence is pending in one of them.
LEMMA JoinedAsking ==
  ASSUME NEW a \in Seq(Steps), NEW b \in Seq(Steps)
  PROVE  /\ Asking(a \o b) <=> Asking(a) \/ Asking(b)
         /\ \A x : Pending(a \o b, x) <=> Pending(a, x) \/ Pending(b, x)
<1> DEFINE q == a \o b
<1>1. /\ Len(q) = Len(a) + Len(b) /\ Len(a) \in Nat /\ Len(b) \in Nat
      /\ \A k \in 1 .. Len(a) : q[k] = a[k]
      /\ \A k \in 1 .. Len(b) : q[Len(a) + k] = b[k]
      /\ \A k \in 1 .. Len(q) : k > Len(a) => q[k] = b[k - Len(a)]
  BY Joined
<1>2. Len(q) = Len(a) + Len(b) /\ Len(a) \in Nat /\ Len(b) \in Nat
  BY <1>1
<1> HIDE DEF q
<1>3. ASSUME NEW k \in 1 .. Len(q)
      PROVE  (\E j \in 1 .. Len(a) : q[k] = a[j]) \/ (\E j \in 1 .. Len(b) : q[k] = b[j])
  <2>1. CASE k > Len(a)
    <3>1. k - Len(a) \in 1 .. Len(b)
      BY <1>2, <2>1, SMT
    <3> QED BY <1>1, <2>1, <3>1
  <2>2. CASE k \in 1 .. Len(a)
    BY <1>1, <2>2
  <2> QED BY <1>2, <2>1, <2>2, SMT
<1>4. ASSUME NEW k \in 1 .. Len(a) PROVE \E j \in 1 .. Len(q) : q[j] = a[k]
  <2>1. k \in 1 .. Len(q)
    BY <1>2, SMT
  <2> QED BY <1>1, <2>1
<1>5. ASSUME NEW k \in 1 .. Len(b) PROVE \E j \in 1 .. Len(q) : q[j] = b[k]
  <2>1. Len(a) + k \in 1 .. Len(q)
    BY <1>2, SMT
  <2> QED BY <1>1, <2>1
<1>6. Asking(q) <=> Asking(a) \/ Asking(b)
  BY <1>3, <1>4, <1>5 DEF Asking
<1>7. ASSUME NEW x PROVE Pending(q, x) <=> Pending(a, x) \/ Pending(b, x)
  <2>1. Pending(q, x) => Pending(a, x) \/ Pending(b, x)
    BY <1>3 DEF Pending
  <2>2. Pending(a, x) => Pending(q, x)
    BY <1>4 DEF Pending
  <2>3. Pending(b, x) => Pending(q, x)
    BY <1>5 DEF Pending
  <2> QED BY <2>1, <2>2, <2>3
<1> QED BY <1>6, <1>7 DEF q

\* the steps of a call that ask for no output
LEMMA JoinedSharing ==
  ASSUME NEW a \in Seq(Steps), NEW b \in Seq(Steps), Sharing(a), Sharing(b),
         ~Asking(a) \/ ~Asking(b), ~Pending(b, "share")
  PROVE  Sharing(a \o b)
<1> DEFINE q == a \o b
<1>1. /\ Len(q) = Len(a) + Len(b) /\ Len(a) \in Nat /\ Len(b) \in Nat
      /\ \A k \in 1 .. Len(a) : q[k] = a[k]
      /\ \A k \in 1 .. Len(q) : k > Len(a) => q[k] = b[k - Len(a)]
  BY Joined
<1>2. Len(q) = Len(a) + Len(b) /\ Len(a) \in Nat /\ Len(b) \in Nat
  BY <1>1
<1> HIDE DEF q
<1>3. ASSUME NEW k \in 1 .. Len(q)
      PROVE  \/ k \in 1 .. Len(a) /\ q[k] = a[k]
             \/ k - Len(a) \in 1 .. Len(b) /\ q[k] = b[k - Len(a)]
  <2>1. CASE k > Len(a)
    <3>1. k - Len(a) \in 1 .. Len(b)
      BY <1>2, <2>1, SMT
    <3> QED BY <1>1, <2>1, <3>1
  <2>2. CASE k \in 1 .. Len(a)
    BY <1>1, <2>2
  <2> QED BY <1>2, <2>1, <2>2, SMT
<1>4. ASSUME NEW j \in 1 .. Len(q), NEW k \in 1 .. Len(q), q[j] \in Requests, q[k] \in Requests
      PROVE  j = k
  <2>1. CASE ~Asking(a)
    <3>1. /\ j - Len(a) \in 1 .. Len(b) /\ b[j - Len(a)] \in Requests
          /\ k - Len(a) \in 1 .. Len(b) /\ b[k - Len(a)] \in Requests
      BY <1>3, <1>4, <2>1 DEF Asking
    <3>2. j - Len(a) = k - Len(a)
      BY <3>1 DEF Sharing
    <3> QED BY <1>2, <3>2, SMT
  <2>2. CASE ~Asking(b)
    <3>1. j \in 1 .. Len(a) /\ a[j] \in Requests /\ k \in 1 .. Len(a) /\ a[k] \in Requests
      BY <1>3, <1>4, <2>2 DEF Asking
    <3> QED BY <3>1 DEF Sharing
  <2> QED BY <2>1, <2>2
<1>5. ASSUME NEW k \in 1 .. Len(q), q[k] = "share"
      PROVE  k = 1 \/ (k = 2 /\ q[1] = "release_outputs")
  <2>1. k \in 1 .. Len(a) /\ a[k] = "share"
    BY <1>3, <1>5 DEF Pending
  <2>2. k = 1 \/ (k = 2 /\ a[1] = "release_outputs")
    BY <2>1 DEF Sharing
  <2>3. 1 \in 1 .. Len(a)
    BY <1>2, <2>1, SMT
  <2> QED BY <1>1, <2>2, <2>3
<1>6. Sharing(q)
  BY <1>4, <1>5 DEF Sharing
<1> QED BY <1>6 DEF q

\* Requests stay paired with releases in two plans in sequence.
LEMMA JoinedPaired ==
  ASSUME NEW a \in Seq(Steps), NEW b \in Seq(Steps), Paired(a), Paired(b)
  PROVE  Paired(a \o b)
<1> DEFINE q == a \o b
<1>1. /\ Len(q) = Len(a) + Len(b) /\ Len(a) \in Nat /\ Len(b) \in Nat
      /\ \A k \in 1 .. Len(a) : q[k] = a[k]
      /\ \A k \in 1 .. Len(q) : k > Len(a) => q[k] = b[k - Len(a)]
  BY Joined
<1>2. Len(q) = Len(a) + Len(b) /\ Len(a) \in Nat /\ Len(b) \in Nat
  BY <1>1
<1> HIDE DEF q
<1>3. ASSUME NEW k \in 1 .. Len(q)
      PROVE  q[k] # "outputs" /\ (q[k] \in Requests => k < Len(q) /\ q[k + 1] = "release_outputs")
  <2>1. CASE k > Len(a)
    <3>1. k - Len(a) \in 1 .. Len(b) /\ q[k] = b[k - Len(a)]
      BY <1>1, <1>2, <2>1, SMT
    <3>2. /\ q[k] # "outputs"
          /\ q[k] \in Requests => k - Len(a) < Len(b) /\ b[(k - Len(a)) + 1] = "release_outputs"
      BY <3>1 DEF Paired
    <3>3. k - Len(a) < Len(b) =>
            k < Len(q) /\ k + 1 \in 1 .. Len(q) /\ k + 1 > Len(a) /\ (k + 1) - Len(a) = (k - Len(a)) + 1
      BY <1>2, <2>1, SMT
    <3> QED BY <1>1, <3>2, <3>3
  <2>2. CASE k \in 1 .. Len(a)
    <3>1. q[k] = a[k]
      BY <1>1, <2>2
    <3>2. a[k] # "outputs" /\ (a[k] \in Requests => k < Len(a) /\ a[k + 1] = "release_outputs")
      BY <2>2 DEF Paired
    <3>3. k < Len(a) => k < Len(q) /\ k + 1 \in 1 .. Len(a)
      BY <1>2, <2>2, SMT
    <3> QED BY <1>1, <3>1, <3>2, <3>3
  <2> QED BY <1>2, <2>1, <2>2, SMT
<1>4. Paired(q)
  BY <1>3 DEF Paired
<1> QED BY <1>4 DEF q

\* What is true of the sequence of a schedule_run.
Schedule(q) ==
  /\ q \in Seq(Steps) /\ q # <<>> /\ q[1] # "run_cpu" /\ q[1] # "share"
  /\ Scheduling(q) /\ Sharing(q) /\ Paired(q) /\ ~Asking(q) /\ ~Pending(q, "share")

\* _run_once only schedules work.
LEMMA RunOnceSchedule == Schedule(RunOnce)
<1>1. RunOnce \in Seq(Steps) /\ RunOnce # <<>> /\ Len(RunOnce) = 3
  BY SMT DEF RunOnce, Steps
<1>2. RunOnce[1] = "iter_setup" /\ RunOnce[2] = "run_cpu" /\ RunOnce[3] = "run_gpu"
  BY DEF RunOnce
<1>3. Scheduling(RunOnce)
  BY <1>1, <1>2, SMT DEF Scheduling
<1>4. \A k \in 1 .. Len(RunOnce) : RunOnce[k] \notin Requests /\ RunOnce[k] # "share" /\ RunOnce[k] # "outputs"
  BY <1>1, <1>2, SMT DEF Requests
<1>5. Sharing(RunOnce) /\ Paired(RunOnce) /\ ~Asking(RunOnce) /\ ~Pending(RunOnce, "share")
  BY <1>4 DEF Sharing, Paired, Asking, Pending
<1>6. RunOnce[1] # "run_cpu" /\ RunOnce[1] # "share"
  BY <1>2
<1> QED BY <1>1, <1>3, <1>5, <1>6 DEF Schedule

\* A number of steps in groups of three.
LEMMA Thirds ==
  ASSUME NEW d \in Nat, NEW k \in 1 .. 3 * d
  PROVE  /\ (k - 1) % 3 \in 0 .. 2
         /\ (k - 1) % 3 = 0 => k + 2 <= 3 * d /\ k % 3 = 1 /\ (k + 1) % 3 = 2
         /\ (k - 1) % 3 = 1 => k > 1 /\ (k - 2) % 3 = 0
BY SMT

\* _prefetch only schedules work.
LEMMA PrefetchSchedule == Schedule(Prefetch)
<1> DEFINE q == [i \in 1 .. 3 * Depth |-> RunOnce[((i - 1) % 3) + 1]]
           e == <<"prefetched">>
<1>1. Depth \in Nat \ {0}
  BY DepthAssumption
<1>2. /\ RunOnce[0 + 1] = "iter_setup" /\ RunOnce[1 + 1] = "run_cpu" /\ RunOnce[2 + 1] = "run_gpu"
      /\ \A j \in 0 .. 2 : RunOnce[j + 1] \in Steps
  BY SMT DEF RunOnce, Steps
<1>3. \A k \in 1 .. 3 * Depth : (k - 1) % 3 \in 0 .. 2
  BY <1>1, Thirds
<1>4. q \in Seq(Steps) /\ Len(q) = 3 * Depth /\ q # <<>>
  <2>1. \A k \in 1 .. 3 * Depth : RunOnce[((k - 1) % 3) + 1] \in Steps
    BY <1>2, <1>3
  <2> DEFINE f(i) == RunOnce[((i - 1) % 3) + 1]
  <2> HIDE DEF f
  <2>2. [i \in 1 .. 3 * Depth |-> f(i)] \in [1 .. 3 * Depth -> Steps]
    BY <2>1 DEF f
  <2>3. 3 * Depth \in Nat
    BY <1>1, SMT
  <2>4. /\ [i \in 1 .. 3 * Depth |-> f(i)] \in Seq(Steps)
        /\ Len([i \in 1 .. 3 * Depth |-> f(i)]) = 3 * Depth
    BY <2>2, <2>3, SMT
  <2>5. q \in Seq(Steps) /\ Len(q) = 3 * Depth
    BY <2>4 DEF f
  <2> QED BY <1>1, <2>5, SMT
<1>5. ASSUME NEW k \in 1 .. Len(q)
      PROVE  \/ q[k] = "iter_setup" /\ (k - 1) % 3 = 0
             \/ q[k] = "run_cpu" /\ (k - 1) % 3 = 1
             \/ q[k] = "run_gpu" /\ (k - 1) % 3 = 2
  <2>1. q[k] = RunOnce[((k - 1) % 3) + 1]
    BY <1>4
  <2>2. (k - 1) % 3 = 0 \/ (k - 1) % 3 = 1 \/ (k - 1) % 3 = 2
    BY <1>3, <1>4, SMT
  <2> QED BY <1>2, <2>1, <2>2
<1> HIDE DEF q
<1>6. Scheduling(q)
  <2>1. ASSUME NEW k \in 1 .. Len(q), q[k] = "iter_setup"
        PROVE  k + 2 <= Len(q) /\ q[k + 1] = "run_cpu" /\ q[k + 2] = "run_gpu"
    <3>1. (k - 1) % 3 = 0
      BY <1>5, <2>1
    <3>2. k + 2 <= Len(q) /\ k % 3 = 1 /\ (k + 1) % 3 = 2
      BY <1>1, <1>4, <3>1, Thirds
    <3> DEFINE i == k + 1
               j == k + 2
    <3>3. i \in 1 .. Len(q) /\ j \in 1 .. Len(q) /\ (i - 1) % 3 = 1 /\ (j - 1) % 3 = 2
      <4>1. i - 1 = k /\ j - 1 = k + 1
        BY SMT
      <4> QED BY <1>1, <1>4, <3>2, <4>1, SMT
    <3> HIDE DEF i, j
    <3>4. q[i] = "run_cpu" /\ q[j] = "run_gpu"
      BY <1>5, <3>3, SMT
    <3> QED BY <3>2, <3>4 DEF i, j
  <2>2. ASSUME NEW k \in 1 .. Len(q), q[k] = "run_cpu"
        PROVE  k = 1 \/ q[k - 1] = "iter_setup"
    <3>1. (k - 1) % 3 = 1
      BY <1>5, <2>2
    <3>2. k > 1 /\ (k - 2) % 3 = 0
      BY <1>1, <1>4, <3>1, Thirds
    <3> DEFINE i == k - 1
    <3>3. i \in 1 .. Len(q) /\ (i - 1) % 3 = 0
      <4>1. i - 1 = k - 2
        BY SMT
      <4> QED BY <1>1, <1>4, <3>2, <4>1, SMT
    <3> HIDE DEF i
    <3>4. q[i] = "iter_setup"
      BY <1>5, <3>3, SMT
    <3> QED BY <3>4 DEF i
  <2> QED BY <2>1, <2>2 DEF Scheduling
<1>7. \A k \in 1 .. Len(q) : q[k] \notin Requests /\ q[k] # "share" /\ q[k] # "outputs"
  BY <1>5 DEF Requests
<1>8. Sharing(q) /\ Paired(q) /\ ~Asking(q) /\ ~Pending(q, "share")
  BY <1>7 DEF Sharing, Paired, Asking, Pending
<1>9. q[1] = "iter_setup"
  <2>1. 1 \in 1 .. Len(q) /\ (1 - 1) % 3 = 0
    BY <1>1, <1>4, SMT
  <2> QED BY <1>5, <2>1, SMT
<1>10. e \in Seq(Steps) /\ Len(e) = 1 /\ e[1] = "prefetched" /\ e # <<>>
  BY SMT DEF Steps
<1> HIDE DEF e
<1>11. \A k \in 1 .. Len(e) : e[k] = "prefetched"
  BY <1>10, SMT
<1>12. Scheduling(e) /\ Sharing(e) /\ Paired(e) /\ ~Asking(e) /\ ~Pending(e, "share")
  <2>1. "prefetched" \notin Requests /\ "prefetched" # "share" /\ "prefetched" # "outputs"
        /\ "prefetched" # "iter_setup" /\ "prefetched" # "run_cpu"
    BY DEF Requests
  <2> QED BY <1>11, <2>1 DEF Scheduling, Sharing, Paired, Asking, Pending
<1>13. Scheduling(q \o e)
  <2>1. e[1] # "run_cpu"
    BY <1>10
  <2> QED BY <1>4, <1>6, <1>10, <1>12, <2>1, JoinedScheduling
<1>14. Sharing(q \o e)
  BY <1>4, <1>8, <1>10, <1>12, JoinedSharing
<1>15. Paired(q \o e) /\ ~Asking(q \o e) /\ ~Pending(q \o e, "share")
  BY <1>4, <1>8, <1>10, <1>12, JoinedPaired, JoinedAsking
<1>16. q \o e \in Seq(Steps) /\ q \o e # <<>> /\ (q \o e)[1] = "iter_setup"
  BY <1>4, <1>9, <1>10, SMT
<1>17. Prefetch = q \o e
  BY DEF Prefetch, q, e
<1>18. (q \o e)[1] # "run_cpu" /\ (q \o e)[1] # "share"
  BY <1>16
<1> QED BY <1>13, <1>14, <1>15, <1>16, <1>17, <1>18 DEF Schedule

-----------------------------------------------------------------------------
(* The plan of a call, and the buffers it finds *)

\* The plan q of the steps the client c still has to take.
Shape(c, q) ==
  /\ q \in Seq(Steps) /\ Scheduling(q) /\ Sharing(q)
  /\ c = "cpp" => q = <<>>
  /\ c = "iterator" => Paired(q)

\* What the plan q relies on when n outputs are held and the main thread is at m:
\* there is a buffer left for the output it asks for.
Room(c, q, m, n) ==
  /\ c # "cpp" =>
       /\ n <= Depth
       /\ m = "use" => n < Depth
       /\ Asking(q) => m = "api"
       /\ Pending(q, "share_outputs") => n < Depth
       /\ q # <<>> /\ Head(q) = "share" => n < Depth
  /\ c = "iterator" =>
       /\ n <= 1
       /\ m = "use" => n = 0
       /\ Asking(q) => n = 0
       /\ n # 0 \/ m \in {"use", "used"} => q # <<>> /\ Head(q) = "release_outputs"

\* A plan as a call leaves it.
Callable(q) ==
  /\ q \in Seq(Steps) /\ Scheduling(q) /\ Sharing(q) /\ ~Pending(q, "share")
  /\ q # <<>> => Head(q) # "run_cpu"

\* Two calls in sequence, of which one asks for no outputs, make a call.
LEMMA JoinedCall ==
  ASSUME NEW a, NEW b, Callable(a), Callable(b), ~Asking(a) \/ ~Asking(b)
  PROVE  /\ Callable(a \o b)
         /\ Paired(a) /\ Paired(b) => Paired(a \o b)
         /\ Asking(a \o b) <=> Asking(a) \/ Asking(b)
         /\ \A x : Pending(a \o b, x) <=> Pending(a, x) \/ Pending(b, x)
<1>1. a \in Seq(Steps) /\ b \in Seq(Steps) /\ Scheduling(a) /\ Scheduling(b)
      /\ Sharing(a) /\ Sharing(b) /\ ~Pending(a, "share") /\ ~Pending(b, "share")
  BY DEF Callable
<1>7. (a # <<>> => Head(a) # "run_cpu") /\ (b # <<>> => Head(b) # "run_cpu")
  BY DEF Callable
<1>2. a \o b \in Seq(Steps) /\ (a \o b # <<>> => Head(a \o b) # "run_cpu")
  <2>1. a \in Seq(Steps) /\ b \in Seq(Steps)
    BY <1>1
  <2>2. CASE a = <<>>
    BY <1>7, <2>1, <2>2, SMT
  <2>3. CASE a # <<>>
    BY <1>7, <2>1, <2>3, SMT
  <2> QED BY <2>2, <2>3
<1>3. Scheduling(a \o b)
  <2>1. b # <<>> => b[1] # "run_cpu"
    BY <1>1, <1>7, SMT
  <2> QED BY <1>1, <2>1, JoinedScheduling
<1>4. Sharing(a \o b)
  BY <1>1, JoinedSharing
<1>5. Paired(a) /\ Paired(b) => Paired(a \o b)
  BY <1>1, JoinedPaired
<1>6. /\ Asking(a \o b) <=> Asking(a) \/ Asking(b)
      /\ \A x : Pending(a \o b, x) <=> Pending(a, x) \/ Pending(b, x)
  BY <1>1, JoinedAsking
<1> QED BY <1>1, <1>2, <1>3, <1>4, <1>5, <1>6 DEF Callable

\* One step that is not part of scheduling makes a call.
LEMMA SingleCall ==
  ASSUME NEW x \in Steps, x \notin {"share", "iter_setup", "run_cpu"}
  PROVE  /\ Callable(<<x>>)
         /\ x \notin Requests => Paired(<<x>>) /\ ~Asking(<<x>>)
         /\ \A y : Pending(<<x>>, y) => x = y
<1> DEFINE q == <<x>>
<1>1. q \in Seq(Steps) /\ Len(q) = 1 /\ q[1] = x /\ q # <<>>
  BY SMT
<1> HIDE DEF q
<1>2. \A k \in 1 .. Len(q) : k = 1 /\ q[k] = x
  BY <1>1, SMT
<1>3. Scheduling(q) /\ Sharing(q)
  BY <1>2 DEF Scheduling, Sharing
<1>4. \A y : Pending(q, y) => x = y
  BY <1>2 DEF Pending
<1>5. ASSUME x \notin Requests PROVE Paired(q) /\ ~Asking(q)
  <2>1. x # "outputs"
    BY <1>5 DEF Requests
  <2> QED BY <1>2, <1>5, <2>1 DEF Paired, Asking
<1>6. Callable(q)
  <2>1. Head(q) # "run_cpu"
    BY <1>1, SMT
  <2> QED BY <1>1, <1>3, <1>4, <2>1 DEF Callable
<1> QED BY <1>4, <1>5, <1>6 DEF q

\* A call with nothing left to do.
LEMMA EmptyCall == Callable(<<>>) /\ Paired(<<>>) /\ ~Asking(<<>>) /\ \A x : ~Pending(<<>>, x)
<1>1. << >> \in Seq(Steps) /\ \A k \in 1 .. Len(<< >>) : FALSE
  BY SMT
<1> QED BY <1>1 DEF Callable, Scheduling, Sharing, Paired, Asking, Pending

\* Scheduling is a call that asks for no outputs.
LEMMA ScheduleCall ==
  ASSUME NEW q, Schedule(q)
  PROVE  Callable(q) /\ Paired(q) /\ ~Asking(q) /\ ~Pending(q, "share_outputs")
<1>1. "share_outputs" \in Requests
  BY DEF Requests
<1>2. Head(q) # "run_cpu"
  BY SMT DEF Schedule
<1> QED BY <1>1, <1>2 DEF Schedule, Callable, Asking, Pending

\* The iterator asks for outputs and releases them.
LEMMA FetchCall ==
  LET q == <<"share_outputs", "release_outputs">>
  IN  Callable(q) /\ Paired(q)
<1> DEFINE q == <<"share_outputs", "release_outputs">>
<1>1. q \in Seq(Steps) /\ Len(q) = 2 /\ q[1] = "share_outputs" /\ q[2] = "release_outputs"
  BY SMT DEF Steps
<1> HIDE DEF q
<1>2. Scheduling(q)
  BY <1>1, SMT DEF Scheduling
<1>3. "release_outputs" \notin Requests
  BY DEF Requests
<1>4. \A k \in 1 .. Len(q) : k = 1 \/ (k = 2 /\ q[k] = "release_outputs")
  BY <1>1, SMT
<1>5. \A k \in 1 .. Len(q) : q[k] # "share" /\ q[k] # "outputs"
  BY <1>1, SMT
<1>6. Sharing(q)
  BY <1>3, <1>4, <1>5 DEF Sharing
<1>7. Paired(q)
  BY <1>1, <1>3, SMT DEF Paired
<1>8. ~Pending(q, "share")
  BY <1>5 DEF Pending
<1>9. Head(q) # "run_cpu"
  BY <1>1, SMT
<1> QED BY <1>1, <1>2, <1>6, <1>7, <1>8, <1>9 DEF Callable, q

\* Only outputs held for the user's release are followed by a share.
LEMMA NoShare ==
  ASSUME NEW q \in Seq(Steps), q # <<>>, Sharing(q), Head(q) \notin {"share", "release_outputs"}
  PROVE  ~Pending(q, "share")
<1>1. Head(q) = q[1]
  BY SMT
<1>2. q[1] # "share" /\ q[1] # "release_outputs"
  BY <1>1
<1> QED BY <1>2 DEF Sharing, Pending

\* The plan of a call that finds the main thread idle.
LEMMA NewPlan ==
  ASSUME NEW c, NEW q, NEW n \in Nat, c # "cpp", Callable(q), c = "iterator" => Paired(q),
         Pending(q, "share_outputs") => c = "iterator" \/ n < Depth, Room(c, <<>>, "api", n)
  PROVE  Shape(c, q) /\ Room(c, q, "api", n)
<1>1. Shape(c, q)
  BY DEF Shape, Callable
<1>2. n <= Depth /\ (c = "iterator" => n <= 1 /\ ~(n # 0))
  BY DEF Room
<1>3. Depth \in Nat \ {0}
  BY DepthAssumption
<1>4. c = "iterator" => n = 0 /\ n < Depth
  BY <1>2, <1>3, SMT
<1>5. q # <<>> /\ Head(q) = "share" => Pending(q, "share")
  <2> SUFFICES ASSUME q # <<>>, Head(q) = "share" PROVE Pending(q, "share")
    OBVIOUS
  <2>1. 1 \in 1 .. Len(q) /\ q[1] = "share"
    BY <1>1, SMT DEF Shape
  <2> QED BY <2>1 DEF Pending
<1>6. ~(q # <<>> /\ Head(q) = "share")
  BY <1>5 DEF Callable
<1>7. "api" # "use" /\ "api" \notin {"use", "used"}
  OBVIOUS
<1>8. Room(c, q, "api", n)
  BY <1>2, <1>4, <1>6, <1>7 DEF Room
<1> QED BY <1>1, <1>8

\* A step that neither asks for outputs nor releases them.
LEMMA Passed ==
  ASSUME NEW c, NEW q, NEW n \in Nat, q # <<>>, Shape(c, q), Room(c, q, "api", n),
         Head(q) \notin Requests, Head(q) # "release_outputs"
  PROVE  /\ Shape(c, Tail(q)) /\ Room(c, Tail(q), "api", n)
         /\ ~Pending(q, "share") /\ ~Pending(Tail(q), "share")
<1>1. q \in Seq(Steps) /\ Scheduling(q) /\ Sharing(q) /\ c # "cpp" /\ (c = "iterator" => Paired(q))
  BY DEF Shape
<1>2. Tail(q) \in Seq(Steps)
  BY <1>1, TailSteps
<1>3. "share" \in Requests /\ "share_outputs" \in Requests
  BY DEF Requests
<1>4. Head(q) # "share" /\ Head(q) # "share_outputs" /\ Head(q) \notin {"share", "release_outputs"}
  BY <1>3
<1>5. ~Pending(q, "share")
  BY <1>1, <1>4, NoShare
<1>6. ~Pending(Tail(q), "share") /\ (Pending(Tail(q), "share_outputs") <=> Pending(q, "share_outputs"))
  BY <1>1, <1>4, <1>5, TailPending
<1>7. Sharing(Tail(q)) /\ (Asking(Tail(q)) <=> Asking(q))
  BY <1>1, TailSharing
<1>8. Scheduling(Tail(q)) /\ (c = "iterator" => Paired(Tail(q)))
  BY <1>1, TailScheduling, TailPaired
<1>9. Shape(c, Tail(q))
  BY <1>1, <1>2, <1>7, <1>8 DEF Shape
<1>10. ~(Tail(q) # <<>> /\ Head(Tail(q)) = "share")
  <2> SUFFICES ASSUME Tail(q) # <<>>, Head(Tail(q)) = "share" PROVE Pending(Tail(q), "share")
    BY <1>6
  <2> DEFINE t == Tail(q)
  <2> HIDE DEF t
  <2>1. t \in Seq(Steps) /\ t # <<>> /\ Head(t) = "share"
    BY <1>2 DEF t
  <2>2. 1 \in 1 .. Len(t) /\ t[1] = "share"
    BY <2>1, SMT
  <2> QED BY <2>2 DEF Pending, t
<1>11. "api" # "use" /\ "api" \notin {"use", "used"}
  OBVIOUS
<1>12. c = "iterator" => ~(n # 0)
  BY DEF Room
<1>13. Room(c, Tail(q), "api", n)
  BY <1>6, <1>7, <1>10, <1>11, <1>12 DEF Room
<1> QED BY <1>5, <1>6, <1>9, <1>13

\* ReleaseOutputs, which leaves the user with less than Depth outputs.
LEMMA Released ==
  ASSUME NEW c, NEW q, NEW n \in Nat, q # <<>>, Shape(c, q), Room(c, q, "api", n),
         Head(q) = "release_outputs", NEW m \in Nat, m = n - 1 \/ (n = 0 /\ m = 0)
  PROVE  /\ Shape(c, Tail(q)) /\ Room(c, Tail(q), "api", m)
         /\ Pending(Tail(q), "share") <=> Pending(q, "share")
<1>1. q \in Seq(Steps) /\ Scheduling(q) /\ Sharing(q) /\ c # "cpp" /\ (c = "iterator" => Paired(q))
  BY DEF Shape
<1>2. Tail(q) \in Seq(Steps)
  BY <1>1, TailSteps
<1>3. Head(q) \notin Requests /\ Head(q) # "share"
  BY DEF Requests
<1>4. Pending(Tail(q), "share") <=> Pending(q, "share")
  BY <1>1, <1>3, TailPending
<1>7. Sharing(Tail(q)) /\ (Asking(Tail(q)) <=> Asking(q))
  BY <1>1, <1>3, TailSharing
<1>8. Scheduling(Tail(q)) /\ (c = "iterator" => Paired(Tail(q)))
  BY <1>1, TailScheduling, TailPaired
<1>9. Shape(c, Tail(q))
  BY <1>1, <1>2, <1>7, <1>8 DEF Shape
<1>10. n <= Depth /\ (c = "iterator" => n <= 1)
  BY <1>1 DEF Room
<1>11. m <= Depth /\ m < Depth /\ (c = "iterator" => m = 0 /\ m <= 1 /\ ~(m # 0))
  <2>1. Depth \in Nat \ {0}
    BY DepthAssumption
  <2> QED BY <1>10, <2>1, SMT
<1>12. "api" # "use" /\ "api" \notin {"use", "used"}
  OBVIOUS
<1>13. Room(c, Tail(q), "api", m)
  BY <1>1, <1>11, <1>12 DEF Room
<1> QED BY <1>4, <1>9, <1>13

\* ShareOutputs, which waits or finds the executor stopped.
LEMMA SharedNext ==
  ASSUME NEW c, NEW q, NEW n \in Nat, q # <<>>, Shape(c, q), Room(c, q, "api", n),
         Head(q) = "share", NEW m \in {"use", "throw"}
  PROVE  /\ Shape(c, Tail(q)) /\ Room(c, Tail(q), m, n)
         /\ Pending(q, "share") /\ ~Pending(Tail(q), "share")
         /\ c # "cpp" /\ n < Depth
<1>1. q \in Seq(Steps) /\ Scheduling(q) /\ Sharing(q) /\ c # "cpp" /\ (c = "iterator" => Paired(q))
  BY DEF Shape
<1>2. Tail(q) \in Seq(Steps)
  BY <1>1, TailSteps
<1>3. Head(q) \in Requests /\ "share" \in Requests /\ "share_outputs" \in Requests
  BY DEF Requests
<1>4. ~Asking(Tail(q)) /\ Sharing(Tail(q))
  BY <1>1, <1>3, TailSharing
<1>5. ~Pending(Tail(q), "share") /\ ~Pending(Tail(q), "share_outputs")
  BY <1>3, <1>4 DEF Asking, Pending
<1>6. Pending(q, "share") /\ Asking(q)
  <2>1. 1 \in 1 .. Len(q) /\ q[1] = "share"
    BY <1>1, SMT
  <2> QED BY <1>3, <2>1 DEF Pending, Asking
<1>8. /\ Scheduling(Tail(q)) /\ (c = "iterator" => Paired(Tail(q)))
      /\ c = "iterator" => Tail(q) # <<>> /\ Head(Tail(q)) = "release_outputs"
  BY <1>1, <1>3, TailScheduling, TailPaired
<1>9. Shape(c, Tail(q))
  BY <1>1, <1>2, <1>4, <1>8 DEF Shape
<1>10. n <= Depth /\ n < Depth /\ (c = "iterator" => n = 0 /\ n <= 1)
  BY <1>1, <1>6 DEF Room
<1>11. ~(Tail(q) # <<>> /\ Head(Tail(q)) = "share")
  <2> SUFFICES ASSUME Tail(q) # <<>>, Head(Tail(q)) = "share" PROVE Pending(Tail(q), "share")
    BY <1>5
  <2> DEFINE t == Tail(q)
  <2> HIDE DEF t
  <2>1. t \in Seq(Steps) /\ t # <<>> /\ Head(t) = "share"
    BY <1>2 DEF t
  <2>2. 1 \in 1 .. Len(t) /\ t[1] = "share"
    BY <2>1, SMT
  <2> QED BY <2>2 DEF Pending, t
<1>12. Room(c, Tail(q), m, n)
  BY <1>1, <1>4, <1>5, <1>8, <1>10, <1>11 DEF Room
<1> QED BY <1>1, <1>5, <1>6, <1>9, <1>10, <1>12

\* StopIteration ends a call.
LEMMA CallEnded ==
  ASSUME NEW c, NEW q, NEW n \in Nat, q # <<>>, Shape(c, q), Room(c, q, "api", n),
         Head(q) \notin {"share", "release_outputs"}
  PROVE  Shape(c, <<>>) /\ Room(c, <<>>, "api", n) /\ ~Pending(q, "share") /\ ~Pending(<<>>, "share")
<1>1. q \in Seq(Steps) /\ Sharing(q) /\ c # "cpp"
  BY DEF Shape
<1>2. ~Pending(q, "share")
  BY <1>1, NoShare
<1>3. Shape(c, <<>>)
  BY EmptyCall DEF Shape, Callable
<1>4. n <= Depth /\ (c = "iterator" => n <= 1 /\ ~(n # 0))
  BY <1>1 DEF Room
<1>5. "api" # "use" /\ "api" \notin {"use", "used"}
  OBVIOUS
<1>6. Room(c, <<>>, "api", n)
  BY <1>4, <1>5, EmptyCall DEF Room
<1> QED BY <1>2, <1>3, <1>6, EmptyCall

\* _run_cpu comes only after iter_setup.
LEMMA AfterOther ==
  ASSUME NEW q \in Seq(Steps), q # <<>>, Scheduling(q), Head(q) # "iter_setup"
  PROVE  Tail(q) # <<>> => Tail(q)[1] # "run_cpu"
<1> SUFFICES ASSUME Tail(q) # <<>>, Tail(q)[1] = "run_cpu" PROVE FALSE
  OBVIOUS
<1>1. /\ Len(Tail(q)) = Len(q) - 1 /\ Len(q) \in Nat /\ Tail(q) \in Seq(Steps)
      /\ Head(q) = q[1] /\ \A k \in 1 .. Len(q) - 1 : Tail(q)[k] = q[k + 1]
  BY TailSteps
<1>2. Len(Tail(q)) >= 1
  BY <1>1, SMT
<1>3. 2 \in 1 .. Len(q) /\ q[2] = "run_cpu"
  BY <1>1, <1>2, SMT
<1>4. q[2 - 1] = "iter_setup"
  <2>1. 2 # 1
    BY SMT
  <2> QED BY <1>3, <2>1 DEF Scheduling
<1>5. q[1] = "iter_setup"
  BY <1>4, SMT
<1> QED BY <1>1, <1>5

\* share_outputs goes on with ShareOutputs.
LEMMA SharesNow ==
  ASSUME NEW c, NEW q, NEW n \in Nat, q # <<>>, Shape(c, q), Room(c, q, "api", n),
         Head(q) = "share_outputs"
  PROVE  LET p == <<"share">> \o Tail(q)
         IN  Shape(c, p) /\ Room(c, p, "api", n) /\ Pending(p, "share")
<1> DEFINE b == <<"share">>
           t == Tail(q)
           p == b \o t
<1>1. q \in Seq(Steps) /\ Scheduling(q) /\ Sharing(q) /\ c # "cpp" /\ (c = "iterator" => Paired(q))
  BY DEF Shape
<1>2. Head(q) \in Requests /\ "share" \in Requests /\ "share_outputs" \in Requests
  BY DEF Requests
<1>3. t \in Seq(Steps) /\ Scheduling(t)
  BY <1>1, TailSteps, TailScheduling
<1>4. Sharing(t) /\ ~Asking(t)
  BY <1>1, <1>2, TailSharing
<1>5. t # <<>> => t[1] # "run_cpu"
  <2>1. Head(q) # "iter_setup"
    OBVIOUS
  <2> QED BY <1>1, <2>1, AfterOther
<1>6. ~Pending(t, "share") /\ ~Pending(t, "share_outputs")
  BY <1>2, <1>4 DEF Asking, Pending
<1>7. c = "iterator" => Paired(t) /\ t # <<>> /\ Head(t) = "release_outputs"
  BY <1>1, <1>2, TailPaired
<1>8. n < Depth /\ (c = "iterator" => n = 0) /\ n <= Depth
  <2>1. 1 \in 1 .. Len(q) /\ q[1] = "share_outputs"
    BY <1>1, SMT
  <2>2. Pending(q, "share_outputs") /\ Asking(q)
    BY <1>2, <2>1 DEF Pending, Asking
  <2> QED BY <1>1, <2>2 DEF Room
<1> HIDE DEF t
<1>9. b \in Seq(Steps) /\ Len(b) = 1 /\ b[1] = "share"
  BY SMT DEF Steps
<1> HIDE DEF b
<1>10. \A k \in 1 .. Len(b) : k = 1 /\ b[k] = "share"
  BY <1>9, SMT
<1>11. "share" # "iter_setup" /\ "share" # "run_cpu" /\ "share" # "share_outputs"
  OBVIOUS
<1>12. Scheduling(b) /\ Sharing(b) /\ ~Pending(b, "share_outputs")
  BY <1>10, <1>11 DEF Scheduling, Sharing, Pending
<1>13. Scheduling(p) /\ Sharing(p) /\ ~Pending(p, "share_outputs")
  <2>1. Scheduling(p)
    BY <1>3, <1>5, <1>9, <1>12, JoinedScheduling
  <2>2. Sharing(p)
    BY <1>3, <1>4, <1>6, <1>9, <1>12, JoinedSharing
  <2>3. ~Pending(p, "share_outputs")
    BY <1>3, <1>6, <1>9, <1>12, JoinedAsking
  <2> QED BY <2>1, <2>2, <2>3
<1>21. /\ p \in Seq(Steps) /\ Len(p) = Len(b) + Len(t) /\ Len(t) \in Nat
       /\ \A k \in 1 .. Len(b) : p[k] = b[k]
       /\ \A k \in 1 .. Len(t) : p[Len(b) + k] = t[k]
  <2>1. p \in Seq(Steps)
    BY <1>3, <1>9, SMT
  <2> QED BY <1>3, <1>9, <2>1, Joined
<1>14. p \in Seq(Steps) /\ Len(p) = Len(t) + 1 /\ p[1] = "share" /\ p # <<>> /\ Len(t) \in Nat
  <2>1. 1 \in 1 .. Len(b)
    BY <1>9, SMT
  <2>2. p \in Seq(Steps) /\ Len(p) = Len(t) + 1 /\ p[1] = "share" /\ Len(t) \in Nat
    <3>1. Len(p) = Len(t) + 1 /\ Len(t) \in Nat
      BY <1>9, <1>21, SMT
    <3> QED BY <1>9, <1>21, <2>1, <3>1
  <2> HIDE DEF p
  <2> QED BY <2>2, SMT
<1>15. ASSUME c = "iterator" PROVE Paired(p)
  <2>1. Paired(t) /\ t # <<>> /\ t[1] = "release_outputs" /\ Len(t) \in Nat /\ Len(t) >= 1
    BY <1>3, <1>7, <1>15, SMT
  <2>2. \A k \in 1 .. Len(t) : p[k + 1] = t[k]
    <3> HIDE DEF p
    <3> SUFFICES ASSUME NEW k \in 1 .. Len(t) PROVE p[k + 1] = t[k]
      OBVIOUS
    <3>1. Len(b) + k = k + 1
      BY <1>9, SMT
    <3> QED BY <1>21, <3>1
  <2> HIDE DEF p
  <2> SUFFICES ASSUME NEW k \in 1 .. Len(p)
               PROVE  /\ p[k] # "outputs"
                      /\ p[k] \in Requests => k < Len(p) /\ p[k + 1] = "release_outputs"
    BY DEF Paired
  <2>3. CASE k = 1
    BY <1>14, <2>1, <2>2, <2>3, SMT
  <2>4. CASE k # 1
    <3> DEFINE j == k - 1
    <3>1. j \in 1 .. Len(t) /\ j + 1 = k
      BY <1>14, <2>1, <2>4, SMT
    <3> HIDE DEF j
    <3>2. t[j] # "outputs" /\ (t[j] \in Requests => j < Len(t) /\ t[j + 1] = "release_outputs")
      BY <2>1, <3>1 DEF Paired
    <3>3. p[k] = t[j]
      BY <2>2, <3>1
    <3>4. j < Len(t) => k \in 1 .. Len(t) /\ k < Len(p)
      BY <1>14, <2>1, <3>1, SMT
    <3> QED BY <2>2, <3>1, <3>2, <3>3, <3>4
  <2> QED BY <2>3, <2>4
<1>16. Pending(p, "share")
  <2>1. 1 \in 1 .. Len(p)
    BY <1>3, <1>14, SMT
  <2> QED BY <1>14, <2>1 DEF Pending
<1>17. Shape(c, p)
  BY <1>1, <1>13, <1>14, <1>15 DEF Shape
<1>18. n <= 1 \/ ~(n = 0)
  BY SMT
<1>19. "api" # "use" /\ "api" \notin {"use", "used"}
  OBVIOUS
<1>20. Room(c, p, "api", n)
  BY <1>8, <1>13, <1>18, <1>19 DEF Room
<1> QED BY <1>16, <1>17, <1>20 DEF p, b, t

\* outputs goes on with ReleaseOutputs and ShareOutputs.
LEMMA SharesLater ==
  ASSUME NEW c, NEW q, NEW n \in Nat, q # <<>>, Shape(c, q), Room(c, q, "api", n),
         Head(q) = "outputs"
  PROVE  LET p == <<"release_outputs", "share">> \o Tail(q)
         IN  Shape(c, p) /\ Room(c, p, "api", n) /\ Pending(p, "share")
<1> DEFINE b == <<"release_outputs", "share">>
           t == Tail(q)
           p == b \o t
<1>1. q \in Seq(Steps) /\ Scheduling(q) /\ Sharing(q) /\ c # "cpp" /\ (c = "iterator" => Paired(q))
  BY DEF Shape
<1>2. Head(q) \in Requests /\ "share" \in Requests /\ "share_outputs" \in Requests
      /\ "release_outputs" \notin Requests
  BY DEF Requests
<1>3. t \in Seq(Steps) /\ Scheduling(t)
  BY <1>1, TailSteps, TailScheduling
<1>4. Sharing(t) /\ ~Asking(t)
  BY <1>1, <1>2, TailSharing
<1>5. t # <<>> => t[1] # "run_cpu"
  <2>1. Head(q) # "iter_setup"
    OBVIOUS
  <2> QED BY <1>1, <2>1, AfterOther
<1>6. ~Pending(t, "share") /\ ~Pending(t, "share_outputs")
  BY <1>2, <1>4 DEF Asking, Pending
<1>7. c # "iterator"
  <2>1. 1 \in 1 .. Len(q) /\ q[1] = "outputs"
    BY <1>1, SMT
  <2> QED BY <1>1, <2>1 DEF Paired
<1>8. n <= Depth
  BY <1>1 DEF Room
<1> HIDE DEF t
<1>9. b \in Seq(Steps) /\ Len(b) = 2 /\ b[1] = "release_outputs" /\ b[2] = "share"
  BY SMT DEF Steps
<1> HIDE DEF b
<1>10. \A k \in 1 .. Len(b) : (k = 1 /\ b[k] = "release_outputs") \/ (k = 2 /\ b[k] = "share")
  BY <1>9, SMT
<1>11. /\ "share" # "iter_setup" /\ "share" # "run_cpu" /\ "share" # "share_outputs"
       /\ "release_outputs" # "iter_setup" /\ "release_outputs" # "run_cpu"
       /\ "release_outputs" # "share_outputs" /\ "release_outputs" # "share"
  OBVIOUS
<1>12. Scheduling(b) /\ Sharing(b) /\ ~Pending(b, "share_outputs")
  <2>1. Scheduling(b)
    BY <1>10, <1>11 DEF Scheduling
  <2>2. Sharing(b)
    BY <1>2, <1>9, <1>10, <1>11 DEF Sharing
  <2>3. ~Pending(b, "share_outputs")
    BY <1>10, <1>11 DEF Pending
  <2> QED BY <2>1, <2>2, <2>3
<1>13. Scheduling(p) /\ Sharing(p) /\ ~Pending(p, "share_outputs")
  <2>1. Scheduling(p)
    BY <1>3, <1>5, <1>9, <1>12, JoinedScheduling
  <2>2. Sharing(p)
    BY <1>3, <1>4, <1>6, <1>9, <1>12, JoinedSharing
  <2>3. ~Pending(p, "share_outputs")
    BY <1>3, <1>6, <1>9, <1>12, JoinedAsking
  <2> QED BY <2>1, <2>2, <2>3
<1>14. p \in Seq(Steps) /\ Head(p) = "release_outputs" /\ p[2] = "share" /\ p # <<>> /\ 2 \in 1 .. Len(p)
  <2>1. p \in Seq(Steps)
    BY <1>3, <1>9, SMT
  <2>2. /\ Len(p) = Len(b) + Len(t) /\ Len(t) \in Nat
        /\ \A k \in 1 .. Len(b) : p[k] = b[k]
    BY <1>3, <1>9, Joined
  <2>3. 1 \in 1 .. Len(b) /\ 2 \in 1 .. Len(b)
    BY <1>9, SMT
  <2>4. p[1] = "release_outputs" /\ p[2] = "share"
    BY <1>9, <2>2, <2>3
  <2>5. Len(p) = 2 + Len(t) /\ Len(t) \in Nat
    BY <1>9, <2>2
  <2> HIDE DEF p
  <2> QED BY <2>1, <2>4, <2>5, SMT
<1>16. Pending(p, "share")
  BY <1>14 DEF Pending
<1>17. Shape(c, p)
  BY <1>1, <1>7, <1>13, <1>14 DEF Shape
<1>19. "api" # "use"
  OBVIOUS
<1>20. Room(c, p, "api", n)
  BY <1>7, <1>8, <1>11, <1>13, <1>14, <1>19 DEF Room
<1> QED BY <1>16, <1>17, <1>20 DEF p, b, t

-----------------------------------------------------------------------------
(* The counters of Pipeline follow those of the executor *)

SharePending == Pending(todo, "share") \/ main \in {"use", "used"}

RuleInv ==
  /\ cpu_batches_to_consume \in Nat /\ gpu_batches_to_consume \in Nat
  /\ scenario.client # "cpp" =>
       /\ cpu_batches_to_consume = cpu_runs - gpu_runs
       /\ main \in {"api", "use", "used"} =>
            gpu_batches_to_consume = gpu_runs - shared - One(SharePending)

PlanInv ==
  /\ Shape(scenario.client, todo)
  /\ Room(scenario.client, todo, main, Len(in_use_queue))
  /\ RuleInv

\* The outputs in use are counted by a number.
LEMMA HeldNumber == ExecutorInv => Len(in_use_queue) \in Nat /\ in_use_queue \in Seq(Indices)
<1> SUFFICES ASSUME ExecutorInv PROVE Len(in_use_queue) \in Nat /\ in_use_queue \in Seq(Indices)
  OBVIOUS
<1>1. in_use_queue \in Seq(Indices)
  BY DEF ExecutorInv, TypeOK, QueueType
<1> QED BY <1>1, SMT

\* The rules hold on in a step that counts nothing.
LEMMA SameRule ==
  ASSUME RuleInv, UNCHANGED <<main, scenario, cpu_batches_to_consume, gpu_batches_to_consume>>,
         UNCHANGED <<cpu_runs, gpu_runs, shared>>,
         Pending(todo', "share") <=> Pending(todo, "share")
  PROVE  RuleInv'
<1>1. SharePending' = SharePending
  BY DEF SharePending
<1> QED BY <1>1 DEF RuleInv

\* The threads of the executor leave alone what the user sees.
LEMMA WorkerFrame ==
  ASSUME NEW w \in Workers, WorkerStep(w) \/ SignalStop(w)
  PROVE  UNCHANGED <<main, cpu_runs, gpu_runs, shared, released, in_use_queue>>
<1>1. CASE TakeWork(w) \/ Begin(w) \/ Sleep(w) \/ CheckStop(w)
  BY <1>1 DEF TakeWork, Begin, Sleep, CheckStop, Goto, queues, user
<1>2. CASE AcquireIdxs(w) \/ CheckIdxs(w) \/ RunOps(w) \/ OperatorThrows(w)
  BY <1>2 DEF AcquireIdxs, CheckIdxs, RunOps, OperatorThrows, Goto, queues, user
<1>3. CASE HandleError(w) \/ ReleaseIdxs(w) \/ Post(w)
  BY <1>3 DEF HandleError, ReleaseIdxs, Post, Goto, queues, user
<1>4. CASE AcquireFree \/ SleepFree \/ QueueOutputIdxs
  BY <1>4 DEF AcquireFree, SleepFree, QueueOutputIdxs, Goto, queues, user
<1>5. CASE SignalStop(w)
  BY <1>5 DEF SignalStop, queues, user
<1> QED BY <1>1, <1>2, <1>3, <1>4, <1>5 DEF WorkerStep

\* The invariant of plans holds on in a step of the threads.
LEMMA SamePlan ==
  ASSUME PlanInv, UNCHANGED <<todo, cpu_batches_to_consume, gpu_batches_to_consume, scenario>>,
         UNCHANGED <<main, cpu_runs, gpu_runs, shared, in_use_queue>>
  PROVE  PlanInv'
<1>1. RuleInv'
  BY SameRule DEF PlanInv
<1> QED BY <1>1 DEF PlanInv

\* Inside ShareOutputs: the output is taken, or the call throws.
LEMMA MainStepPlan ==
  ASSUME ExecutorInv, PlanInv, UNCHANGED <<pipe, scenario>>, MainStep
  PROVE  PlanInv'
<1>1. UNCHANGED <<todo, cpu_batches_to_consume, gpu_batches_to_consume, scenario>>
  BY DEF pipe
<1> DEFINE c == scenario.client
           n == Len(in_use_queue)
<1>2. n \in Nat /\ Depth \in Nat \ {0} /\ gpu_runs \in Nat /\ shared \in Nat
  BY HeldNumber, DepthAssumption DEF ExecutorInv, TypeOK, UserType
<1>3. Shape(c, todo) /\ Room(c, todo, main, n) /\ RuleInv
  BY DEF PlanInv
<1>4. UNCHANGED <<cpu_runs, gpu_runs>>
  BY DEF MainStep, UseOutputIdxs, ShareOutputsReturn, OutputsThrow, OutputsRethrow,
               ForceStopAndNotify, Join
<1>5. ASSUME c # "cpp", main # "api"
      PROVE  ~Asking(todo) /\ ~Pending(todo, "share") /\ ~Pending(todo, "share_outputs")
             /\ ~(todo # <<>> /\ Head(todo) = "share")
  <2>1. "share" \in Requests /\ "share_outputs" \in Requests
    BY DEF Requests
  <2>2. ~Asking(todo)
    BY <1>3, <1>5 DEF Room
  <2>3. ~Pending(todo, "share") /\ ~Pending(todo, "share_outputs")
    BY <2>1, <2>2 DEF Asking, Pending
  <2>4. todo # <<>> /\ Head(todo) = "share" => 1 \in 1 .. Len(todo) /\ todo[1] = "share"
    BY <1>3, SMT DEF Shape
  <2> QED BY <2>2, <2>3, <2>4 DEF Pending
<1>6. CASE UseOutputIdxs
  <2>1. main = "use" /\ shared' = shared /\ main' \in {"use", "used"}
    BY <1>6 DEF UseOutputIdxs
  <2>2. Len(in_use_queue') = n \/ (Len(in_use_queue') = n + 1 /\ main' = "used")
    <3>1. in_use_queue' = in_use_queue \/ (in_use_queue' = Append(in_use_queue, Head(ready_queue))
                                            /\ ready_queue # <<>> /\ main' = "used")
      BY <1>6 DEF UseOutputIdxs
    <3>2. in_use_queue \in Seq(Indices) /\ ready_queue \in Seq(Indices)
      BY DEF ExecutorInv, TypeOK, QueueType
    <3> QED BY <3>1, <3>2, SMT
  <2>3. main # "api" /\ main' # "api" /\ main \in {"use", "used"}
    BY <2>1
  <2>4. RuleInv'
    <3>1. SharePending /\ SharePending'
      BY <2>1, <2>3 DEF SharePending
    <3>2. main \in {"api", "use", "used"}
      BY <2>1
    <3>3. One(SharePending)' = One(SharePending)
      BY <3>1 DEF One
    <3> QED BY <1>1, <1>3, <1>4, <2>1, <3>2, <3>3 DEF RuleInv
  <2> DEFINE m == Len(in_use_queue')
  <2>5. Room(c, todo, main', m)
    <3>1. CASE c = "cpp"
      <4>1. c # "iterator"
        BY <3>1
      <4> QED BY <3>1, <4>1 DEF Room
    <3>2. CASE c # "cpp"
      <4>1. n < Depth /\ (c = "iterator" => n = 0 /\ todo # <<>> /\ Head(todo) = "release_outputs")
        BY <1>3, <2>1, <2>3, <3>2 DEF Room
      <4>2. m <= Depth /\ (main' = "use" => m < Depth /\ (c = "iterator" => m = 0)) /\ (c = "iterator" => m <= 1)
        <5> HIDE DEF n, m
        <5>1. m = n \/ (m = n + 1 /\ main' # "use")
          BY <2>2 DEF n, m
        <5> QED BY <1>2, <4>1, <5>1, SMTT(30)
      <4>3. ~Asking(todo) /\ ~Pending(todo, "share_outputs") /\ ~(todo # <<>> /\ Head(todo) = "share")
        BY <1>5, <2>3, <3>2
      <4> QED BY <4>1, <4>2, <4>3 DEF Room
    <3> QED BY <3>1, <3>2
  <2> QED BY <1>1, <1>3, <2>4, <2>5 DEF PlanInv
<1>7. CASE ~UseOutputIdxs
  <2>1. in_use_queue' = in_use_queue /\ main' # "use" /\ main # "api"
    <3>1. ShareOutputsReturn \/ OutputsThrow \/ OutputsRethrow \/ ForceStopAndNotify \/ Join
      BY <1>7 DEF MainStep
    <3>2. "api" # "used" /\ "throw" # "api" /\ "rethrow" # "api" /\ "join" # "api" /\ "throw" # "use"
          /\ "api" # "use" /\ "rethrow" # "use" /\ "thrown" # "use" /\ "destroyed" # "use"
      OBVIOUS
    <3>3. CASE ShareOutputsReturn \/ OutputsThrow \/ OutputsRethrow \/ Join
      BY <3>2, <3>3 DEF ShareOutputsReturn, OutputsThrow, OutputsRethrow, Join, queues
    <3>4. CASE ForceStopAndNotify
      <4>1. in_use_queue' = in_use_queue /\ \E j \in 1 .. 5 : main = DestroyOrder[j] /\ main' = DestroyOrder[j + 1]
        BY <3>4 DEF ForceStopAndNotify, queues
      <4> QED BY <4>1, SMT DEF DestroyOrder
    <3> QED BY <3>1, <3>3, <3>4
  <2>2. Room(c, todo, main', n)
    <3>1. CASE c = "cpp"
      <4>1. c # "iterator"
        BY <3>1
      <4> QED BY <3>1, <4>1 DEF Room
    <3>2. CASE c # "cpp"
      <4>1. ~Asking(todo) /\ ~Pending(todo, "share_outputs") /\ ~(todo # <<>> /\ Head(todo) = "share")
        BY <1>5, <2>1, <3>2
      <4>2. main' = "used" => main = "used"
        <5>1. ShareOutputsReturn \/ OutputsThrow \/ OutputsRethrow \/ ForceStopAndNotify \/ Join
          BY <1>7 DEF MainStep
        <5>2. "api" # "used" /\ "throw" # "used" /\ "rethrow" # "used" /\ "thrown" # "used" /\ "destroyed" # "used"
          OBVIOUS
        <5>3. CASE ShareOutputsReturn \/ OutputsThrow \/ OutputsRethrow \/ Join
          BY <5>2, <5>3 DEF ShareOutputsReturn, OutputsThrow, OutputsRethrow, Join, queues
        <5>4. CASE ForceStopAndNotify
          <6>1. \E j \in 1 .. 5 : main = DestroyOrder[j] /\ main' = DestroyOrder[j + 1]
            BY <5>4 DEF ForceStopAndNotify, queues
          <6> QED BY <6>1, SMT DEF DestroyOrder
        <5> QED BY <5>1, <5>3, <5>4
      <4>3. main' \in {"use", "used"} => main \in {"use", "used"}
        BY <2>1, <4>2
      <4> QED BY <1>3, <2>1, <3>2, <4>1, <4>3 DEF Room
    <3> QED BY <3>1, <3>2
  <2>3. RuleInv'
    <3>1. ASSUME c # "cpp", main' \in {"api", "use", "used"}
          PROVE  gpu_batches_to_consume' = gpu_runs' - shared' - One(SharePending)'
      <4>1. ShareOutputsReturn /\ main = "used" /\ main' = "api" /\ shared' = shared + 1
        <5>1. ShareOutputsReturn \/ OutputsThrow \/ OutputsRethrow \/ ForceStopAndNotify \/ Join
          BY <1>7 DEF MainStep
        <5>2. CASE ShareOutputsReturn
          BY <3>1, <5>2 DEF ShareOutputsReturn
        <5>3. CASE OutputsThrow \/ OutputsRethrow \/ Join
          BY <3>1, <5>3 DEF OutputsThrow, OutputsRethrow, Join
        <5>4. CASE ForceStopAndNotify
          <6>1. \E j \in 1 .. 5 : main = DestroyOrder[j] /\ main' = DestroyOrder[j + 1]
            BY <5>4 DEF ForceStopAndNotify
          <6> QED BY <3>1, <6>1, SMT DEF DestroyOrder
        <5> QED BY <5>1, <5>2, <5>3, <5>4
      <4>2. ~Pending(todo, "share")
        BY <1>5, <2>1, <3>1
      <4>3. SharePending /\ ~SharePending'
        <5>1. "used" \in {"use", "used"} /\ "api" \notin {"use", "used"}
          OBVIOUS
        <5> QED BY <1>1, <4>1, <4>2, <5>1 DEF SharePending
      <4>4. gpu_batches_to_consume = gpu_runs - shared - One(SharePending)
        <5>1. main \in {"api", "use", "used"}
          BY <4>1
        <5> QED BY <1>3, <3>1, <5>1 DEF RuleInv
      <4>5. One(SharePending) = 1 /\ One(SharePending)' = 0
        BY <4>3 DEF One
      <4>6. gpu_batches_to_consume = gpu_runs - shared - 1
        BY <4>4, <4>5
      <4>7. gpu_runs' - shared' - One(SharePending)' = gpu_runs - (shared + 1) - 0
        BY <1>4, <4>1, <4>5
      <4> QED BY <1>1, <1>2, <4>6, <4>7, SMTT(30)
    <3> QED BY <1>1, <1>3, <1>4, <3>1 DEF RuleInv
  <2> QED BY <1>1, <1>3, <2>1, <2>2, <2>3 DEF PlanInv
<1> QED BY <1>6, <1>7

\* The plan changes, the executor does not.
LEMMA Replanned ==
  ASSUME PlanInv, main = "api",
         UNCHANGED <<vars, scenario, cpu_batches_to_consume, gpu_batches_to_consume>>,
         Shape(scenario.client, todo'), Room(scenario.client, todo', "api", Len(in_use_queue)),
         Pending(todo', "share") <=> Pending(todo, "share")
  PROVE  PlanInv'
<1>1. UNCHANGED <<main, cpu_runs, gpu_runs, shared, in_use_queue>>
  BY DEF vars, queues, user
<1>2. RuleInv'
  BY <1>1, SameRule DEF PlanInv
<1> QED BY <1>1, <1>2 DEF PlanInv

\* What holds at a step of a plan.
LEMMA AtStep ==
  ASSUME ExecutorInv, PlanInv, NEW x, Step(x)
  PROVE  /\ main = "api" /\ todo # <<>> /\ Head(todo) = x /\ Len(in_use_queue) \in Nat
         /\ Shape(scenario.client, todo) /\ Room(scenario.client, todo, "api", Len(in_use_queue))
         /\ scenario.client # "cpp"
<1>1. main = "api" /\ todo # <<>> /\ Head(todo) = x
  BY DEF Step
<1>2. Shape(scenario.client, todo) /\ Room(scenario.client, todo, main, Len(in_use_queue))
  BY DEF PlanInv
<1>3. scenario.client # "cpp"
  BY <1>1, <1>2 DEF Shape
<1> QED BY <1>1, <1>2, <1>3, HeldNumber

\* A step of Pipeline that asks the executor for nothing.
LEMMA PassedPlan ==
  ASSUME ExecutorInv, PlanInv, NEW x, Step(x), x \notin Requests, x # "release_outputs",
         todo' = Tail(todo),
         UNCHANGED <<vars, scenario, cpu_batches_to_consume, gpu_batches_to_consume>>
  PROVE  PlanInv'
<1>1. /\ main = "api" /\ todo # <<>> /\ Head(todo) = x /\ Len(in_use_queue) \in Nat
      /\ Shape(scenario.client, todo) /\ Room(scenario.client, todo, "api", Len(in_use_queue))
  BY AtStep
<1>2. /\ Shape(scenario.client, Tail(todo)) /\ Room(scenario.client, Tail(todo), "api", Len(in_use_queue))
      /\ ~Pending(todo, "share") /\ ~Pending(Tail(todo), "share")
  BY <1>1, Passed
<1> QED BY <1>1, <1>2, Replanned

\* iter_setup, also when it ends the epoch, leaves a plan that is one of the calls.
LEMMA IterSetupPlan ==
  ASSUME ExecutorInv, PlanInv, IterSetup, scenario' = scenario
  PROVE  PlanInv' /\ UNCHANGED vars
<1>1. UNCHANGED <<vars, scenario, cpu_batches_to_consume, gpu_batches_to_consume>> /\ Step("iter_setup")
  BY DEF IterSetup
<1>2. todo' = Tail(todo) \/ todo' = Tail(Tail(Tail(todo)))
  BY DEF IterSetup
<1>3. /\ "iter_setup" \notin Requests /\ "iter_setup" # "release_outputs"
      /\ "run_cpu" \notin Requests /\ "run_cpu" # "release_outputs"
      /\ "run_gpu" \notin Requests /\ "run_gpu" # "release_outputs"
  BY DEF Requests
<1>4. CASE todo' = Tail(todo)
  BY <1>1, <1>3, <1>4, PassedPlan
<1>5. CASE todo' = Tail(Tail(Tail(todo)))
  <2> DEFINE c == scenario.client
             n == Len(in_use_queue)
             t == Tail(todo)
             u == Tail(t)
  <2>1. /\ main = "api" /\ todo # <<>> /\ Head(todo) = "iter_setup" /\ n \in Nat
        /\ Shape(c, todo) /\ Room(c, todo, "api", n)
    BY <1>1, AtStep
  <2>2. t # <<>> /\ Head(t) = "run_cpu" /\ u # <<>> /\ Head(u) = "run_gpu"
    <3>1. todo \in Seq(Steps) /\ Scheduling(todo)
      BY <2>1 DEF Shape
    <3>2. 1 \in 1 .. Len(todo) /\ todo[1] = "iter_setup"
      BY <2>1, <3>1, SMT
    <3>3. 1 + 2 <= Len(todo) /\ todo[1 + 1] = "run_cpu" /\ todo[1 + 2] = "run_gpu"
      BY <3>1, <3>2 DEF Scheduling
    <3>4. Len(todo) >= 3 /\ todo[2] = "run_cpu" /\ todo[3] = "run_gpu"
      BY <3>1, <3>3, SMT
    <3>5. /\ t \in Seq(Steps) /\ Len(t) = Len(todo) - 1 /\ Len(todo) \in Nat
          /\ \A k \in 1 .. Len(todo) - 1 : t[k] = todo[k + 1]
      BY <2>1, <3>1, TailSteps
    <3> HIDE DEF t, u
    <3>6. Len(t) >= 2 /\ t[1] = "run_cpu" /\ t[2] = "run_gpu"
      BY <3>4, <3>5, SMT
    <3>7. t \in Seq(Steps)
      BY <3>5
    <3>8. t # <<>> /\ Head(t) = t[1]
      BY <3>6, <3>7, SMT
    <3>9. u \in Seq(Steps) /\ Len(u) = Len(t) - 1 /\ Len(t) \in Nat
          /\ \A k \in 1 .. Len(t) - 1 : u[k] = t[k + 1]
      BY <3>7, <3>8, TailSteps DEF u
    <3>10. Len(u) >= 1 /\ u[1] = "run_gpu"
      BY <3>6, <3>9, SMT
    <3>11. u \in Seq(Steps)
      BY <3>9
    <3>12. u # <<>> /\ Head(u) = u[1]
      BY <3>10, <3>11, SMT
    <3> QED BY <3>6, <3>8, <3>10, <3>12
  <2> HIDE DEF c, n, t, u
  <2>3. Shape(c, t) /\ Room(c, t, "api", n) /\ ~Pending(todo, "share") /\ ~Pending(t, "share")
    BY <1>3, <2>1, Passed DEF t
  <2>4. Shape(c, u) /\ Room(c, u, "api", n)
    BY <1>3, <2>1, <2>2, <2>3, Passed DEF u
  <2>5. Shape(c, Tail(u)) /\ Room(c, Tail(u), "api", n) /\ ~Pending(Tail(u), "share")
    BY <1>3, <2>1, <2>2, <2>4, Passed
  <2> QED BY <1>1, <1>5, <2>1, <2>3, <2>5, Replanned DEF c, n, t, u
<1> QED BY <1>1, <1>2, <1>4, <1>5

\* The step that runs the CPU stage is allowed by the executor.
LEMMA RunCPUPlan ==
  ASSUME ExecutorInv, PlanInv, RunCPU, scenario' = scenario
  PROVE  PlanInv' /\ (UNCHANGED vars \/ ScheduleCPU)
<1>1. Step("run_cpu") /\ todo' = Tail(todo) /\ gpu_batches_to_consume' = gpu_batches_to_consume
  BY DEF RunCPU
<1>2. "run_cpu" \notin Requests /\ "run_cpu" # "release_outputs"
  BY DEF Requests
<1>3. CASE last_iter
  <2>1. UNCHANGED <<vars, scenario, cpu_batches_to_consume, gpu_batches_to_consume>>
    BY <1>1, <1>3 DEF RunCPU
  <2> QED BY <1>1, <1>2, <2>1, PassedPlan
<1>4. CASE ~last_iter
  <2>1. ScheduleCPU /\ cpu_batches_to_consume' = cpu_batches_to_consume + 1
    BY <1>4 DEF RunCPU
  <2>2. cpu_runs' = cpu_runs + 1 /\ UNCHANGED <<main, gpu_runs, shared, in_use_queue>>
    BY <2>1 DEF ScheduleCPU, queues
  <2> DEFINE c == scenario.client
             n == Len(in_use_queue)
  <2>3. /\ main = "api" /\ todo # <<>> /\ Head(todo) = "run_cpu" /\ n \in Nat /\ c # "cpp"
        /\ Shape(c, todo) /\ Room(c, todo, "api", n)
    BY <1>1, AtStep
  <2>4. /\ Shape(c, todo') /\ Room(c, todo', "api", n)
        /\ ~Pending(todo, "share") /\ ~Pending(todo', "share")
    BY <1>1, <1>2, <2>3, Passed
  <2>5. RuleInv'
    <3>1. /\ cpu_batches_to_consume \in Nat /\ gpu_batches_to_consume \in Nat
          /\ cpu_batches_to_consume = cpu_runs - gpu_runs
          /\ main \in {"api", "use", "used"} =>
               gpu_batches_to_consume = gpu_runs - shared - One(SharePending)
      BY <2>3 DEF PlanInv, RuleInv
    <3>2. cpu_runs \in Nat /\ gpu_runs \in Nat
      BY DEF ExecutorInv, TypeOK, UserType
    <3>3. cpu_batches_to_consume' \in Nat /\ cpu_batches_to_consume' = cpu_runs' - gpu_runs'
      <4>1. cpu_batches_to_consume \in Nat /\ cpu_batches_to_consume = cpu_runs - gpu_runs
        BY <3>1
      <4> QED BY <2>1, <2>2, <3>2, <4>1, SMTT(30)
    <3>4. One(SharePending)' = One(SharePending)
      BY <2>2, <2>4 DEF SharePending, One
    <3> QED BY <1>1, <2>2, <3>1, <3>3, <3>4 DEF RuleInv
  <2> QED BY <2>1, <2>2, <2>3, <2>4, <2>5 DEF PlanInv
<1> QED BY <1>3, <1>4

\* The step that runs the GPU stages is allowed by the executor.
LEMMA RunGPUPlan ==
  ASSUME ExecutorInv, PlanInv, RunGPU, scenario' = scenario
  PROVE  PlanInv' /\ (UNCHANGED vars \/ (gpu_runs < cpu_runs /\ ScheduleGPU))
<1>1. Step("run_gpu") /\ todo' = Tail(todo)
  BY DEF RunGPU
<1>2. "run_gpu" \notin Requests /\ "run_gpu" # "release_outputs"
  BY DEF Requests
<1>3. CASE cpu_batches_to_consume = 0
  <2>1. UNCHANGED <<vars, scenario, cpu_batches_to_consume, gpu_batches_to_consume>>
    BY <1>3 DEF RunGPU
  <2> QED BY <1>1, <1>2, <2>1, PassedPlan
<1>4. CASE cpu_batches_to_consume # 0
  <2>1. /\ ScheduleGPU /\ cpu_batches_to_consume' = cpu_batches_to_consume - 1
        /\ gpu_batches_to_consume' = gpu_batches_to_consume + 1
    BY <1>4 DEF RunGPU
  <2>2. gpu_runs' = gpu_runs + 1 /\ UNCHANGED <<main, cpu_runs, shared, in_use_queue>>
    BY <2>1 DEF ScheduleGPU, queues
  <2> DEFINE c == scenario.client
             n == Len(in_use_queue)
  <2>3. /\ main = "api" /\ todo # <<>> /\ Head(todo) = "run_gpu" /\ n \in Nat /\ c # "cpp"
        /\ Shape(c, todo) /\ Room(c, todo, "api", n)
    BY <1>1, AtStep
  <2>4. /\ Shape(c, todo') /\ Room(c, todo', "api", n)
        /\ ~Pending(todo, "share") /\ ~Pending(todo', "share")
    BY <1>1, <1>2, <2>3, Passed
  <2>5. /\ cpu_batches_to_consume \in Nat /\ gpu_batches_to_consume \in Nat
        /\ cpu_batches_to_consume = cpu_runs - gpu_runs
        /\ gpu_batches_to_consume = gpu_runs - shared - One(SharePending)
    <3>1. main \in {"api", "use", "used"}
      BY <2>3
    <3> QED BY <2>3, <3>1 DEF PlanInv, RuleInv
  <2>6. cpu_runs \in Nat /\ gpu_runs \in Nat /\ shared \in Nat
    BY DEF ExecutorInv, TypeOK, UserType
  <2>7. ~SharePending /\ ~SharePending'
    <3>1. "api" \notin {"use", "used"}
      OBVIOUS
    <3> QED BY <2>2, <2>3, <2>4, <3>1 DEF SharePending
  <2>8. One(SharePending) = 0 /\ One(SharePending)' = 0
    BY <2>7 DEF One
  <2>9. gpu_batches_to_consume = gpu_runs - shared - 0
    BY <2>5, <2>8
  <2>10. /\ gpu_runs < cpu_runs
         /\ cpu_batches_to_consume' \in Nat /\ cpu_batches_to_consume' = cpu_runs' - gpu_runs'
         /\ gpu_batches_to_consume' \in Nat /\ gpu_batches_to_consume' = gpu_runs' - shared' - 0
    <3>1. /\ cpu_batches_to_consume \in Nat /\ gpu_batches_to_consume \in Nat
          /\ cpu_batches_to_consume = cpu_runs - gpu_runs
      BY <2>5
    <3> QED BY <1>4, <2>1, <2>2, <2>6, <2>9, <3>1, SMTT(30)
  <2>11. RuleInv'
    BY <2>8, <2>10 DEF RuleInv
  <2> QED BY <2>1, <2>2, <2>3, <2>4, <2>10, <2>11 DEF PlanInv
<1> QED BY <1>3, <1>4

\* The step that counts consumed batches keeps the rules.
LEMMA ConsumePlan ==
  ASSUME ExecutorInv, PlanInv, Consume, scenario' = scenario
  PROVE  PlanInv' /\ UNCHANGED vars
<1> DEFINE c == scenario.client
           n == Len(in_use_queue)
<1>1. UNCHANGED <<vars, scenario, cpu_batches_to_consume>>
  BY DEF Consume
<1>2. UNCHANGED <<main, cpu_runs, gpu_runs, shared, in_use_queue>>
  BY <1>1 DEF vars, queues, user
<1>3. /\ main = "api" /\ todo # <<>> /\ n \in Nat /\ c # "cpp"
      /\ Head(todo) = "outputs" \/ Head(todo) = "share_outputs"
      /\ Shape(c, todo) /\ Room(c, todo, "api", n)
  BY AtStep DEF Consume
<1>4. "outputs" \notin {"share", "release_outputs"}
      /\ "share_outputs" \notin {"share", "release_outputs"}
      /\ "share_outputs" # "outputs"
  OBVIOUS
<1>5. ~Pending(todo, "share") /\ Shape(c, <<>>) /\ Room(c, <<>>, "api", n) /\ ~Pending(<<>>, "share")
  BY <1>3, <1>4, CallEnded
<1>6. CASE ~CanConsume
  <2>1. todo' = <<>> /\ gpu_batches_to_consume' = gpu_batches_to_consume
    BY <1>6 DEF Consume
  <2> QED BY <1>1, <1>3, <1>5, <2>1, Replanned
<1>7. CASE CanConsume
  <2>1. /\ todo' = (IF Head(todo) = "outputs" THEN <<"release_outputs", "share">>
                    ELSE <<"share">>) \o Tail(todo)
        /\ gpu_batches_to_consume' = gpu_batches_to_consume - 1 /\ gpu_batches_to_consume # 0
    BY <1>7 DEF Consume, CanConsume
  <2>2. Shape(c, todo') /\ Room(c, todo', "api", n) /\ Pending(todo', "share")
    <3>1. CASE Head(todo) = "outputs"
      <4>1. todo' = <<"release_outputs", "share">> \o Tail(todo)
        BY <2>1, <3>1
      <4>2. LET p == <<"release_outputs", "share">> \o Tail(todo)
            IN  Shape(c, p) /\ Room(c, p, "api", n) /\ Pending(p, "share")
        BY <1>3, <3>1, SharesLater
      <4> QED BY <4>1, <4>2
    <3>2. CASE Head(todo) = "share_outputs"
      <4>1. todo' = <<"share">> \o Tail(todo)
        BY <1>4, <2>1, <3>2
      <4>2. LET p == <<"share">> \o Tail(todo)
            IN  Shape(c, p) /\ Room(c, p, "api", n) /\ Pending(p, "share")
        BY <1>3, <3>2, SharesNow
      <4> QED BY <4>1, <4>2
    <3> QED BY <1>3, <3>1, <3>2
  <2>3. /\ cpu_batches_to_consume \in Nat /\ gpu_batches_to_consume \in Nat
        /\ cpu_batches_to_consume = cpu_runs - gpu_runs
        /\ gpu_batches_to_consume = gpu_runs - shared - One(SharePending)
    <3>1. main \in {"api", "use", "used"}
      BY <1>3
    <3> QED BY <1>3, <3>1 DEF PlanInv, RuleInv
  <2>4. One(SharePending) = 0 /\ One(SharePending)' = 1
    <3>1. "api" \notin {"use", "used"}
      OBVIOUS
    <3>2. ~SharePending /\ SharePending'
      BY <1>3, <1>5, <2>2, <3>1 DEF SharePending
    <3> QED BY <3>2 DEF One
  <2>5. gpu_batches_to_consume = gpu_runs - shared - 0 /\ gpu_batches_to_consume \in Nat
    BY <2>3, <2>4
  <2>6. gpu_batches_to_consume' \in Nat /\ gpu_batches_to_consume' = gpu_runs' - shared' - 1
    <3>1. gpu_runs \in Nat /\ shared \in Nat
      BY DEF ExecutorInv, TypeOK, UserType
    <3> QED BY <1>2, <2>1, <2>5, <3>1, SMTT(30)
  <2>7. RuleInv'
    BY <1>1, <1>2, <2>3, <2>4, <2>6 DEF RuleInv
  <2> QED BY <1>1, <1>2, <1>3, <2>2, <2>7 DEF PlanInv
<1> QED BY <1>6, <1>7

\* The step that releases outputs is allowed by the executor.
LEMMA PipeReleasePlan ==
  ASSUME ExecutorInv, PlanInv, PipeRelease, scenario' = scenario
  PROVE  PlanInv' /\ (UNCHANGED vars \/ ReleaseOutputs)
<1> DEFINE c == scenario.client
           n == Len(in_use_queue)
<1>1. /\ Step("release_outputs") /\ todo' = Tail(todo)
      /\ UNCHANGED <<scenario, cpu_batches_to_consume, gpu_batches_to_consume>>
      /\ (in_use_queue = <<>> /\ UNCHANGED vars) \/ ReleaseOutputs
  BY DEF PipeRelease
<1>2. /\ main = "api" /\ todo # <<>> /\ n \in Nat /\ Head(todo) = "release_outputs"
      /\ Shape(c, todo) /\ Room(c, todo, "api", n)
  BY <1>1, AtStep
<1>3. UNCHANGED <<main, cpu_runs, gpu_runs, shared>>
  BY <1>1 DEF vars, user, ReleaseOutputs
<1>4. Len(in_use_queue') \in Nat /\ (Len(in_use_queue') = n - 1 \/ (n = 0 /\ Len(in_use_queue') = 0))
  <2>1. in_use_queue \in Seq(Indices)
    BY HeldNumber
  <2>2. \/ in_use_queue = <<>> /\ in_use_queue' = in_use_queue
        \/ in_use_queue # <<>> /\ in_use_queue' = Tail(in_use_queue)
    BY <1>1 DEF vars, queues, ReleaseOutputs
  <2> QED BY <2>1, <2>2, SMT
<1>5. /\ Shape(c, todo') /\ Room(c, todo', "api", Len(in_use_queue'))
      /\ Pending(todo', "share") <=> Pending(todo, "share")
  <2> DEFINE m == Len(in_use_queue')
  <2> HIDE DEF n, m
  <2>1. m \in Nat /\ (m = n - 1 \/ (n = 0 /\ m = 0))
    BY <1>4 DEF n, m
  <2>2. Shape(c, Tail(todo)) /\ Room(c, Tail(todo), "api", m) /\ (Pending(Tail(todo), "share") <=> Pending(todo, "share"))
    BY <1>2, <2>1, Released
  <2> QED BY <1>1, <2>2 DEF m
<1>6. RuleInv'
  BY <1>1, <1>3, <1>5, SameRule DEF PlanInv
<1> QED BY <1>1, <1>2, <1>3, <1>5, <1>6 DEF PlanInv

\* The step that asks for outputs is allowed by the executor: one has been scheduled.
LEMMA PipeSharePlan ==
  ASSUME ExecutorInv, PlanInv, PipeShare, scenario' = scenario
  PROVE  PlanInv' /\ shared < gpu_runs /\ Len(in_use_queue) < Depth /\ ShareOutputs
<1> DEFINE c == scenario.client
           n == Len(in_use_queue)
<1>1. /\ Step("share") /\ todo' = Tail(todo) /\ ShareOutputs
      /\ UNCHANGED <<scenario, cpu_batches_to_consume, gpu_batches_to_consume>>
  BY DEF PipeShare
<1>2. /\ main = "api" /\ todo # <<>> /\ n \in Nat /\ Head(todo) = "share" /\ c # "cpp"
      /\ Shape(c, todo) /\ Room(c, todo, "api", n)
  BY <1>1, AtStep
<1>3. UNCHANGED <<cpu_runs, gpu_runs, shared, in_use_queue>> /\ main' \in {"use", "throw"}
  BY <1>1 DEF ShareOutputs, queues
<1>4. /\ Shape(c, todo') /\ Room(c, todo', main', n)
      /\ Pending(todo, "share") /\ ~Pending(todo', "share") /\ n < Depth
  BY <1>1, <1>2, <1>3, SharedNext
<1>5. /\ cpu_batches_to_consume \in Nat /\ gpu_batches_to_consume \in Nat
      /\ cpu_batches_to_consume = cpu_runs - gpu_runs
      /\ gpu_batches_to_consume = gpu_runs - shared - One(SharePending)
  <2>1. main \in {"api", "use", "used"}
    BY <1>2
  <2> QED BY <1>2, <2>1 DEF PlanInv, RuleInv
<1>6. One(SharePending) = 1
  BY <1>4 DEF SharePending, One
<1>7. gpu_batches_to_consume = gpu_runs - shared - 1 /\ gpu_batches_to_consume \in Nat
  BY <1>5, <1>6
<1>8. shared < gpu_runs
  <2>1. gpu_runs \in Nat /\ shared \in Nat
    BY DEF ExecutorInv, TypeOK, UserType
  <2> QED BY <1>7, <2>1, SMTT(30)
<1>9. main' \in {"api", "use", "used"} => main' \in {"use", "used"}
  BY <1>3
<1>10. main' \in {"use", "used"} => One(SharePending)' = 1
  BY DEF SharePending, One
<1>11. RuleInv'
  BY <1>1, <1>3, <1>5, <1>7, <1>9, <1>10 DEF RuleInv
<1> QED BY <1>1, <1>3, <1>4, <1>8, <1>11 DEF PlanInv

\* The other steps of Pipeline and of the iterator leave the executor alone.
LEMMA QuietPlan ==
  ASSUME ExecutorInv, PlanInv, Prefetched \/ CountBatch \/ RaiseStop, scenario' = scenario
  PROVE  PlanInv' /\ UNCHANGED vars
<1>1. UNCHANGED <<vars, scenario, cpu_batches_to_consume, gpu_batches_to_consume>>
  BY DEF Prefetched, CountBatch, RaiseStop
<1>2. /\ "prefetched" \notin Requests /\ "prefetched" # "release_outputs"
      /\ "count" \notin Requests /\ "count" # "release_outputs"
      /\ "count_first" \notin Requests /\ "count_first" # "release_outputs"
      /\ "stop" \notin {"share", "release_outputs"}
  BY DEF Requests
<1>3. CASE Prefetched
  <2>1. Step("prefetched") /\ todo' = Tail(todo)
    BY <1>3 DEF Prefetched
  <2> QED BY <1>1, <1>2, <2>1, PassedPlan
<1>4. CASE CountBatch
  <2>1. (Step("count") \/ Step("count_first")) /\ todo' = Tail(todo)
    BY <1>4 DEF CountBatch
  <2> QED BY <1>1, <1>2, <2>1, PassedPlan
<1>5. CASE RaiseStop
  <2> DEFINE c == scenario.client
             n == Len(in_use_queue)
  <2>1. Step("stop") /\ todo' = <<>>
    BY <1>5 DEF RaiseStop
  <2>2. /\ main = "api" /\ todo # <<>> /\ Head(todo) = "stop" /\ n \in Nat
        /\ Shape(c, todo) /\ Room(c, todo, "api", n)
    BY <2>1, AtStep
  <2>3. Shape(c, <<>>) /\ Room(c, <<>>, "api", n) /\ ~Pending(todo, "share") /\ ~Pending(<<>>, "share")
    BY <1>2, <2>2, CallEnded
  <2> QED BY <1>1, <2>1, <2>2, <2>3, Replanned
<1> QED BY <1>1, <1>3, <1>4, <1>5

-----------------------------------------------------------------------------
(* The calls of the user *)

\* A new call is one of the plans.
LEMMA CallPlan ==
  ASSUME ExecutorInv, PlanInv, Idle, scenario.client # "cpp",
         UNCHANGED <<vars, scenario, cpu_batches_to_consume, gpu_batches_to_consume>>,
         Callable(todo'), scenario.client = "iterator" => Paired(todo'),
         Pending(todo', "share_outputs") =>
           scenario.client = "iterator" \/ Len(in_use_queue) < Depth
  PROVE  PlanInv'
<1> DEFINE c == scenario.client
           n == Len(in_use_queue)
<1>1. main = "api" /\ todo = <<>>
  BY DEF Idle
<1>2. n \in Nat /\ Room(c, <<>>, "api", n)
  BY <1>1, HeldNumber DEF PlanInv
<1>3. Shape(c, todo') /\ Room(c, todo', "api", n)
  BY <1>2, NewPlan
<1>4. ~Pending(todo, "share") /\ ~Pending(todo', "share")
  BY <1>1, EmptyCall DEF Callable
<1> QED BY <1>1, <1>3, <1>4, Replanned

\* A schedule, then steps that ask for outputs or not.
LEMMA Scheduled ==
  ASSUME NEW a, NEW b, Schedule(a) \/ a = <<>>, Callable(b)
  PROVE  /\ Callable(a \o b)
         /\ Paired(b) => Paired(a \o b)
         /\ Pending(a \o b, "share_outputs") => Pending(b, "share_outputs")
<1>1. Callable(a) /\ Paired(a) /\ ~Asking(a) /\ ~Pending(a, "share_outputs")
  BY ScheduleCall, EmptyCall
<1> QED BY <1>1, JoinedCall

\* The calls of one step.
LEMMA Singles ==
  /\ \A x \in {"outputs", "share_outputs", "release_outputs", "stop", "count", "count_first"} :
       Callable(<<x>>)
  /\ \A x \in {"release_outputs", "stop", "count", "count_first"} :
       Paired(<<x>>) /\ ~Asking(<<x>>)
  /\ \A x \in {"outputs", "release_outputs", "stop"} : ~Pending(<<x>>, "share_outputs")
<1>1. ASSUME NEW x \in {"outputs", "share_outputs", "release_outputs", "stop", "count", "count_first"}
      PROVE  Callable(<<x>>)
  <2>1. x \in Steps /\ x \notin {"share", "iter_setup", "run_cpu"}
    BY DEF Steps
  <2> QED BY <2>1, SingleCall
<1>2. ASSUME NEW x \in {"release_outputs", "stop", "count", "count_first"}
      PROVE  Paired(<<x>>) /\ ~Asking(<<x>>)
  <2>1. x \in Steps /\ x \notin {"share", "iter_setup", "run_cpu"} /\ x \notin Requests
    BY DEF Steps, Requests
  <2> QED BY <2>1, SingleCall
<1>3. ASSUME NEW x \in {"outputs", "release_outputs", "stop"} PROVE ~Pending(<<x>>, "share_outputs")
  <2>1. x \in Steps /\ x \notin {"share", "iter_setup", "run_cpu"} /\ x # "share_outputs"
    BY DEF Steps
  <2> QED BY <2>1, SingleCall
<1> QED BY <1>1, <1>2, <1>3

\* schedule_run only schedules work.
LEMMA ScheduleRunSchedule == Schedule(ScheduleRun)
BY PrefetchSchedule, RunOnceSchedule DEF ScheduleRun

\* run() of the Python pipeline.
LEMMA CallRunPlan ==
  ASSUME ExecutorInv, PlanInv, CallRun, UNCHANGED <<vars, scenario>>
  PROVE  PlanInv' /\ (todo' = todo \/ Callable(todo'))
<1>1. /\ scenario.client = "run" /\ Idle /\ todo' = ScheduleRun \o <<"outputs">>
      /\ UNCHANGED <<cpu_batches_to_consume, gpu_batches_to_consume>>
  BY DEF CallRun, calls
<1>2. scenario.client # "cpp" /\ scenario.client # "iterator"
  BY <1>1
<1>3. Callable(<<"outputs">>) /\ ~Pending(<<"outputs">>, "share_outputs")
  BY Singles
<1>4. Callable(todo') /\ ~Pending(todo', "share_outputs")
  BY <1>1, <1>3, Scheduled, ScheduleRunSchedule
<1> QED BY <1>1, <1>2, <1>4, CallPlan

\* schedule_run(), share_outputs() and release_outputs() of the Python pipeline.
LEMMA CallScheduledPlan ==
  ASSUME ExecutorInv, PlanInv, CallScheduled, UNCHANGED <<vars, scenario>>
  PROVE  PlanInv' /\ (todo' = todo \/ Callable(todo'))
<1>1. /\ scenario.client = "scheduled" /\ Idle
      /\ UNCHANGED <<cpu_batches_to_consume, gpu_batches_to_consume>>
      /\ \/ todo' = ScheduleRun
         \/ Len(in_use_queue) < Depth /\ todo' \in {<<"share_outputs">>, <<"outputs">>}
         \/ todo' = <<"release_outputs">>
  BY DEF CallScheduled, calls
<1>2. scenario.client # "cpp" /\ scenario.client # "iterator"
  BY <1>1
<1>3. /\ Callable(<<"outputs">>) /\ Callable(<<"share_outputs">>)
      /\ Callable(<<"release_outputs">>) /\ ~Pending(<<"release_outputs">>, "share_outputs")
  BY Singles
<1>4. Callable(ScheduleRun) /\ ~Pending(ScheduleRun, "share_outputs")
  BY ScheduleRunSchedule, ScheduleCall
<1>5. Callable(todo') /\ (Pending(todo', "share_outputs") => Len(in_use_queue) < Depth)
  BY <1>1, <1>3, <1>4
<1> QED BY <1>1, <1>2, <1>5, CallPlan

\* The constructor of the iterator.
LEMMA IterInitPlan ==
  ASSUME ExecutorInv, PlanInv, IterInit, UNCHANGED <<vars, scenario>>
  PROVE  PlanInv' /\ (todo' = todo \/ Callable(todo'))
<1> DEFINE a == <<"share_outputs", "release_outputs">>
           b == <<"count_first">>
<1>1. /\ scenario.client = "iterator" /\ Idle
      /\ todo' = ((Prefetch \o a) \o RunOnce) \o b
      /\ UNCHANGED <<cpu_batches_to_consume, gpu_batches_to_consume>>
  <2>1. /\ scenario.client = "iterator" /\ Idle
        /\ UNCHANGED <<cpu_batches_to_consume, gpu_batches_to_consume>>
    BY DEF IterInit, calls
  <2>2. todo' = Prefetch \o a \o RunOnce \o b
    BY DEF IterInit
  <2> QED BY <2>1, <2>2
<1>2. scenario.client # "cpp"
  BY <1>1
<1>3. Callable(a) /\ Paired(a)
  BY FetchCall
<1>4. Callable(b) /\ Paired(b) /\ ~Asking(b)
  BY Singles
<1> HIDE DEF a, b
<1> DEFINE p == Prefetch \o a
           q == p \o RunOnce
<1>5. Callable(p) /\ Paired(p)
  <2>1. Callable(Prefetch) /\ Paired(Prefetch) /\ ~Asking(Prefetch)
    BY PrefetchSchedule, ScheduleCall
  <2> QED BY <1>3, <2>1, JoinedCall
<1> HIDE DEF p
<1>6. Callable(q) /\ Paired(q)
  <2>1. Callable(RunOnce) /\ Paired(RunOnce) /\ ~Asking(RunOnce)
    BY RunOnceSchedule, ScheduleCall
  <2> QED BY <1>5, <2>1, JoinedCall
<1>7. todo' = q \o b
  BY <1>1 DEF p, q
<1> HIDE DEF q
<1>8. Callable(todo') /\ Paired(todo')
  BY <1>4, <1>6, <1>7, JoinedCall
<1> QED BY <1>1, <1>2, <1>8, CallPlan

\* The plan after a reset of the iterator that is followed by rest.
LEMMA IterResetCall ==
  ASSUME NEW rest, IterReset(rest), Callable(rest), Paired(rest)
  PROVE  Callable(todo') /\ Paired(todo')
<1>1. CASE counter >= iter.size
  <2> DEFINE a == IF batches_to_consume # 0 THEN <<>> ELSE IF first_iter' THEN Prefetch ELSE RunOnce
  <2>1. todo' = a \o rest
    BY <1>1 DEF IterReset
  <2>2. Schedule(a) \/ a = <<>>
    BY PrefetchSchedule, RunOnceSchedule
  <2> HIDE DEF a
  <2> QED BY <2>1, <2>2, Scheduled
<1>2. CASE ~(counter >= iter.size)
  BY <1>2 DEF IterReset
<1> QED BY <1>1, <1>2

\* next() of the iterator.
LEMMA IterNextPlan ==
  ASSUME ExecutorInv, PlanInv, IterNext, UNCHANGED <<vars, scenario>>
  PROVE  PlanInv' /\ (todo' = todo \/ Callable(todo'))
<1>1. /\ scenario.client = "iterator" /\ Idle
      /\ UNCHANGED <<cpu_batches_to_consume, gpu_batches_to_consume>>
  BY DEF IterNext, calls
<1>2. scenario.client # "cpp"
  BY <1>1
<1>3. CASE first_batch
  <2>1. todo' = todo
    BY <1>3 DEF IterNext
  <2>2. UNCHANGED <<main, cpu_runs, gpu_runs, shared, in_use_queue>>
    BY DEF vars, queues, user
  <2> QED BY <1>1, <2>1, <2>2, SamePlan
<1>4. CASE ~first_batch
  <2> DEFINE a == <<"share_outputs", "release_outputs">>
  <2>1. \/ IterReset(<<"stop">>) \/ todo' = <<"stop">> \/ todo' = a \o ScheduleRun \o <<"count">>
    BY <1>4 DEF IterNext
  <2>2. /\ Callable(<<"stop">>) /\ Paired(<<"stop">>)
        /\ Callable(<<"count">>) /\ Paired(<<"count">>) /\ ~Asking(<<"count">>)
    BY Singles
  <2>3. Callable(a) /\ Paired(a)
    BY FetchCall
  <2>4. Callable(ScheduleRun) /\ Paired(ScheduleRun) /\ ~Asking(ScheduleRun)
    BY ScheduleRunSchedule, ScheduleCall
  <2> HIDE DEF a
  <2>5. Callable(a \o ScheduleRun) /\ Paired(a \o ScheduleRun)
    BY <2>3, <2>4, JoinedCall
  <2>6. Callable((a \o ScheduleRun) \o <<"count">>) /\ Paired((a \o ScheduleRun) \o <<"count">>)
    <3> DEFINE b == a \o ScheduleRun
    <3> HIDE DEF b
    <3>1. Callable(b) /\ Paired(b)
      BY <2>5 DEF b
    <3>2. Callable(b \o <<"count">>) /\ Paired(b \o <<"count">>)
      BY <2>2, <3>1, JoinedCall
    <3> QED BY <3>2 DEF b
  <2>7. Callable(todo') /\ Paired(todo')
    <3>1. CASE IterReset(<<"stop">>)
      BY <2>2, <3>1, IterResetCall
    <3>2. CASE todo' = <<"stop">>
      BY <2>2, <3>2
    <3>3. CASE todo' = a \o ScheduleRun \o <<"count">>
      BY <2>6, <3>3
    <3> QED BY <2>1, <3>1, <3>2, <3>3
  <2> QED BY <1>1, <1>2, <2>7, CallPlan
<1> QED BY <1>3, <1>4

\* reset() of the iterator and of the pipeline.
LEMMA NextEpochPlan ==
  ASSUME ExecutorInv, PlanInv, NextEpoch, UNCHANGED <<vars, scenario>>
  PROVE  PlanInv' /\ (todo' = todo \/ Callable(todo'))
<1>1. Idle /\ UNCHANGED <<cpu_batches_to_consume, gpu_batches_to_consume>>
  BY DEF NextEpoch, calls
<1>2. todo' = todo \/ (scenario.client = "iterator" /\ IterReset(<<>>))
  BY DEF NextEpoch
<1>3. CASE todo' = todo
  <2>1. UNCHANGED <<main, cpu_runs, gpu_runs, shared, in_use_queue>>
    BY DEF vars, queues, user
  <2> QED BY <1>1, <1>3, <2>1, SamePlan
<1>4. CASE scenario.client = "iterator" /\ IterReset(<<>>)
  <2>1. Callable(todo') /\ Paired(todo')
    BY <1>4, EmptyCall, IterResetCall
  <2>2. scenario.client # "cpp"
    BY <1>4
  <2> QED BY <1>1, <1>4, <2>1, <2>2, CallPlan
<1> QED BY <1>2, <1>3, <1>4

-----------------------------------------------------------------------------
\* At first there is no plan.
LEMMA InitPlan == PyInit => PlanInv
<1> SUFFICES ASSUME PyInit PROVE PlanInv
  OBVIOUS
<1> DEFINE c == scenario.client
           n == Len(in_use_queue)
<1>1. todo = <<>> /\ main = "api" /\ n = 0
  <2>1. todo = <<>> /\ main = "api" /\ in_use_queue = <<>>
    BY DEF PyInit, Init
  <2> QED BY <2>1
<1>2. cpu_runs = 0 /\ gpu_runs = 0 /\ shared = 0
      /\ cpu_batches_to_consume = 0 /\ gpu_batches_to_consume = 0
  BY DEF PyInit, Init
<1>3. Shape(c, todo)
  BY <1>1, EmptyCall DEF Shape, Callable
<1>4. Room(c, todo, main, n)
  <2>1. n <= Depth /\ n <= 1 /\ ~(n # 0)
    BY <1>1, DepthAssumption, SMT
  <2>2. "api" # "use" /\ "api" \notin {"use", "used"}
    OBVIOUS
  <2> QED BY <1>1, <2>1, <2>2, EmptyCall DEF Room
<1>5. RuleInv
  <2>1. ~SharePending
    <3>1. "api" \notin {"use", "used"}
      OBVIOUS
    <3> QED BY <1>1, <3>1, EmptyCall DEF SharePending
  <2>2. One(SharePending) = 0
    BY <2>1 DEF One
  <2>3. 0 = 0 - 0 /\ 0 = 0 - 0 - 0 /\ 0 \in Nat
    BY SMT
  <2> QED BY <1>2, <2>2, <2>3 DEF RuleInv
<1> QED BY <1>3, <1>4, <1>5 DEF PlanInv

\* A user of the C++ interface, who has no plan.
LEMMA UserCallPlan ==
  ASSUME PlanInv, scenario.client = "cpp", UNCHANGED <<pipe, scenario>>
  PROVE  PlanInv'
<1>1. UNCHANGED <<todo, cpu_batches_to_consume, gpu_batches_to_consume>>
  BY DEF pipe
<1>2. scenario.client # "iterator"
  OBVIOUS
<1> QED BY <1>1, <1>2 DEF PlanInv, RuleInv, Room

\* The copying threads of ExternalSource leave plan and executor alone.
LEMMA SourceFrame ==
  ASSUME SourceStep
  PROVE  UNCHANGED <<vars, pipe>>
BY DEF SourceStep, CopySample, CountSample

\* Every step keeps the plan and is a step of a user who keeps to the rules.
LEMMA NextPlan ==
  ASSUME ExecutorInv, PlanInv, [PyNext]_<<all, scenario>>
  PROVE  [Next]_<<vars, scenario>> /\ PlanInv'
<1>1. CASE UNCHANGED <<all, scenario>>
  <2>1. UNCHANGED <<vars, pipe, scenario>>
    BY <1>1 DEF all
  <2>2. UNCHANGED <<main, cpu_runs, gpu_runs, shared, in_use_queue>>
    BY <2>1 DEF vars, queues, user
  <2>3. UNCHANGED <<todo, cpu_batches_to_consume, gpu_batches_to_consume, scenario>>
    BY <2>1 DEF pipe
  <2> QED BY <2>1, <2>2, <2>3, SamePlan
<1> SUFFICES ASSUME PyNext PROVE [Next]_<<vars, scenario>> /\ PlanInv'
  BY <1>1
<1>2. scenario' = scenario
  BY DEF PyNext
<1>3. CASE PipelineStep
  <2>1. CASE IterSetup
    BY <1>2, <2>1, IterSetupPlan
  <2>2. CASE RunCPU
    BY <1>2, <2>2, RunCPUPlan DEF Next, UserCall
  <2>3. CASE RunGPU
    BY <1>2, <2>3, RunGPUPlan DEF Next, UserCall
  <2>4. CASE Consume
    BY <1>2, <2>4, ConsumePlan
  <2>5. CASE PipeRelease
    BY <1>2, <2>5, PipeReleasePlan DEF Next, UserCall
  <2>6. CASE PipeShare
    BY <1>2, <2>6, PipeSharePlan DEF Next, UserCall
  <2>7. CASE Prefetched \/ CountBatch \/ RaiseStop
    BY <1>2, <2>7, QuietPlan
  <2> QED BY <1>3, <2>1, <2>2, <2>3, <2>4, <2>5, <2>6, <2>7 DEF PipelineStep
<1>4. CASE (MainStep \/ SignalStop("main")) /\ Unconcerned
  <2>1. UNCHANGED <<pipe, scenario>>
    BY <1>2, <1>4 DEF Unconcerned
  <2>2. CASE MainStep
    BY <1>2, <2>1, <2>2, MainStepPlan DEF Next
  <2>3. CASE SignalStop("main")
    <3>1. UNCHANGED <<main, cpu_runs, gpu_runs, shared, in_use_queue>>
      BY <2>3 DEF SignalStop, queues, user
    <3>2. UNCHANGED <<todo, cpu_batches_to_consume, gpu_batches_to_consume, scenario>>
      BY <2>1 DEF pipe
    <3>3. "main" \in Threads
      BY DEF Threads
    <3> QED BY <1>2, <2>3, <3>1, <3>2, <3>3, SamePlan DEF Next
  <2> QED BY <1>4, <2>2, <2>3
<1>5. CASE SourceStep
  <2>1. UNCHANGED <<vars, pipe>>
    BY <1>5, SourceFrame
  <2>2. UNCHANGED <<main, cpu_runs, gpu_runs, shared, in_use_queue>>
    BY <2>1 DEF vars, queues, user
  <2>3. UNCHANGED <<todo, cpu_batches_to_consume, gpu_batches_to_consume, scenario>>
    BY <1>2, <2>1 DEF pipe
  <2> QED BY <1>2, <2>1, <2>2, <2>3, SamePlan
<1>6. CASE \E w \in Workers : WorkerThread(w)
  <2>1. PICK w \in Workers : WorkerThread(w)
    BY <1>6
  <2>2. (WorkerStep(w) \/ SignalStop(w)) /\ UNCHANGED pipe
    BY <2>1 DEF WorkerThread, ExecutorStep, Unconcerned
  <2>3. UNCHANGED <<main, cpu_runs, gpu_runs, shared, in_use_queue>>
    BY <2>2, WorkerFrame
  <2>4. UNCHANGED <<todo, cpu_batches_to_consume, gpu_batches_to_consume, scenario>>
    BY <1>2, <2>2 DEF pipe
  <2>5. w \in Threads
    BY DEF Threads
  <2> QED BY <1>2, <2>2, <2>3, <2>4, <2>5, SamePlan DEF Next
<1>7. CASE scenario.client = "cpp" /\ UserCall /\ cpu_runs' <= scenario.runs /\ Unconcerned
  <2>1. UNCHANGED <<pipe, scenario>> /\ UserCall
    BY <1>2, <1>7 DEF Unconcerned
  <2> QED BY <1>2, <1>7, <2>1, UserCallPlan DEF Next
<1>8. CASE PythonCall /\ UNCHANGED <<vars, source>>
  <2>1. UNCHANGED <<vars, scenario>>
    BY <1>2, <1>8
  <2>2. PlanInv'
    BY <1>8, <2>1, CallRunPlan, CallScheduledPlan, IterInitPlan, IterNextPlan, NextEpochPlan DEF
         PythonCall
  <2> QED BY <2>1, <2>2
<1> QED BY <1>3, <1>4, <1>5, <1>6, <1>7, <1>8 DEF PyNext, ThreadStep, MainThread

-----------------------------------------------------------------------------
(* What iter_setup fed is what the user gets *)

\* Every sample at index i is of the batch of that index.
Good(i) == \A s \in Samples : content[i][s] = batch[i]

\* All samples of a batch are copied and counted.
Copied == copied = Samples /\ uncounted = {}

\* The cpu thread has begun a batch whose data ExternalSource has not given up.
InHand ==
  \/ pc["cpu"] \in {"begin", "check", "acquire", "window", "acquired"}
  \/ at["cpu"] = "SUPPORT" /\ pc["cpu"] \in {"run", "release"}
  \/ at["cpu"] = "CPU" /\ pc["cpu"] = "run" /\ ~Copied

\* _run_cpu follows, for a batch that iter_setup has fed.
RunNext == todo # <<>> /\ Head(todo) = "run_cpu" /\ ~last_iter

SourceType == busy \in BOOLEAN /\ fed \in Nat /\ content \in [Indices -> [Samples -> Nat]]

\* samples_processed_ counts the samples of the batch that is being copied.
CountInv ==
  /\ uncounted \subseteq copied /\ copied \subseteq Samples
  /\ copied # {} => AtSource
  /\ samples_processed = IF Copied THEN 0 ELSE Cardinality(copied \ uncounted)

FedInv == scenario.feeds => data = fed /\ fed = cpu_runs + One(RunNext)

\* The source is busy exactly with the one batch fed that is not copied yet.
BusyInv ==
  scenario.feeds /\ ~Stopped => One(busy) = (fed - cpu_runs) + tasks["cpu"] + One(InHand)

\* The cpu thread works on the batch fed last until it is copied.
HandData ==
  scenario.feeds /\ ~Stopped =>
    /\ pc["cpu"] # "error"
    /\ \/ stage_work_queue["CPU"] = <<>>
       \/ /\ pc["cpu"] = "acquire" /\ at["cpu"] = "CPU"
          /\ \E i \in Indices : stage_work_queue["CPU"] = <<i>> /\ batch[i] = fed
    /\ InHand /\ idx["cpu"] # kInvalidIdx => batch[idx["cpu"]] = fed
    /\ AtSource => \A s \in copied : content[idx["cpu"]][s] = batch[idx["cpu"]]
    /\ at["cpu"] = "CPU" /\ pc["cpu"] = "release" => Good(idx["cpu"])

\* What is past the CPU stage has its data.
GoodInv ==
  scenario.feeds => \A i \in Indices : Output(i) \/ (~Stopped /\ Past(i)) => Good(i)

SourceInv == SourceType /\ CountInv /\ FedInv /\ BusyInv /\ HandData /\ GoodInv

-----------------------------------------------------------------------------
\* What the count of samples rests on: one sample more counts for one more, and the
\* number of samples is reached exactly when all are counted.
Counting ==
  /\ Cardinality({}) = 0
  /\ \A C \in SUBSET Samples : \A U \in SUBSET C : \A s \in U : \A V :
       V = U \ {s} =>
         /\ Cardinality(C \ V) = Cardinality(C \ U) + 1
         /\ Cardinality(C \ U) + 1 >= Cardinality(Samples) <=> C = Samples /\ V = {}

\* Without ExternalSource there is nothing to show but the count.
LEMMA NotFed ==
  ASSUME ~scenario.feeds, scenario' = scenario
  PROVE  FedInv' /\ BusyInv' /\ HandData' /\ GoodInv'
BY DEF FedInv, BusyInv, HandData, GoodInv

\* A step keeps GoodInv when it passes nothing on and leaves the data alone.
LEMMA SameGood ==
  ASSUME GoodInv, UNCHANGED <<scenario, content, batch>>, Stopped => Stopped',
         \A i \in Indices : Output(i)' => Output(i) \/ (~Stopped /\ Past(i)),
         \A i \in Indices : Past(i)' /\ ~Stopped' => Past(i)
  PROVE  GoodInv'
<1>1. \A i \in Indices : Good(i)' <=> Good(i)
  BY DEF Good
<1> QED BY <1>1 DEF GoodInv

\* The same for the other parts, when the cpu thread and the source stand still.
LEMMA SameHand ==
  ASSUME CountInv, HandData, Stopped => Stopped',
         UNCHANGED <<scenario, content, copied, uncounted, samples_processed, batch, fed>>,
         UNCHANGED <<pc["cpu"], at["cpu"], idx["cpu"], stage_work_queue["CPU"]>>
  PROVE  /\ CountInv' /\ HandData' /\ (InHand' <=> InHand)
<1>1. (Copied' <=> Copied) /\ (AtSource' <=> AtSource)
  BY DEF Copied, AtSource
<1>2. CountInv'
  BY <1>1 DEF CountInv
<1>3. InHand' <=> InHand
  BY <1>1 DEF InHand
<1>4. Good(idx["cpu"])' <=> Good(idx["cpu"])
  BY DEF Good
<1> QED BY <1>1, <1>2, <1>3, <1>4 DEF HandData

\* What is fed and in hand stays so in a step that touches neither.
LEMMA SameBusy ==
  ASSUME BusyInv, FedInv, UNCHANGED <<scenario, busy, fed, data, cpu_runs, tasks["cpu"]>>,
         Stopped => Stopped', InHand' <=> InHand, RunNext' <=> RunNext
  PROVE  BusyInv' /\ FedInv'
<1>1. One(InHand)' = One(InHand) /\ One(RunNext)' = One(RunNext)
  BY DEF One
<1> QED BY <1>1 DEF BusyInv, FedInv

\* A step of neither the cpu thread nor the source that starts no batch.
LEMMA SameSource ==
  ASSUME SourceInv, CpuStandsStill, UNCHANGED <<scenario, source, fed>>, RunNext' <=> RunNext
  PROVE  SourceInv'
<1>1. UNCHANGED <<busy, data, copied, uncounted, samples_processed, content>>
  BY DEF source
<1>2. SourceType /\ CountInv /\ FedInv /\ BusyInv /\ HandData /\ GoodInv
  BY DEF SourceInv
<1>3. /\ UNCHANGED <<batch, cpu_runs, tasks["cpu"], pc["cpu"], at["cpu"], idx["cpu"]>>
      /\ UNCHANGED <<stage_work_queue["CPU"]>> /\ (Stopped => Stopped')
      /\ \A i \in Indices : Output(i)' => Output(i) \/ (~Stopped /\ Past(i))
      /\ \A i \in Indices : Past(i)' /\ ~Stopped' => Past(i)
  BY DEF CpuStandsStill, PastShrinks
<1>4. SourceType'
  BY <1>1, <1>2 DEF SourceType
<1>5. CountInv' /\ HandData' /\ (InHand' <=> InHand)
  BY <1>1, <1>2, <1>3, SameHand
<1>6. BusyInv' /\ FedInv'
  BY <1>1, <1>2, <1>3, <1>5, SameBusy
<1>7. GoodInv'
  BY <1>1, <1>2, <1>3, SameGood
<1> QED BY <1>4, <1>5, <1>6, <1>7 DEF SourceInv

-----------------------------------------------------------------------------
(* The cpu thread *)

\* The CPU stage ends when all samples are copied, or with an error before the first;
\* no step of the cpu thread leaves a sample half done.
LEMMA CpuCount ==
  ASSUME Counting, CountInv, ExecutorStep("cpu"), scenario' = scenario
  PROVE  /\ CountInv' /\ ~Copied' /\ copied' = {}
         /\ AtSource => Copied \/ pc'["cpu"] = "error"
<1>1. UNCHANGED <<uncounted, samples_processed>>
  BY DEF ExecutorStep
<1>2. /\ AtSource => (Copied \/ copied = {}) /\ (Copied \/ pc'["cpu"] = "error") /\ copied' = {}
      /\ ~AtSource => copied' = copied
  BY DEF ExecutorStep, Copied
<1>3. /\ uncounted \subseteq copied /\ (copied # {} => AtSource)
      /\ samples_processed = IF Copied THEN 0 ELSE Cardinality(copied \ uncounted)
  BY DEF CountInv
<1>4. copied' = {} /\ uncounted = {}
  BY <1>2, <1>3 DEF Copied
<1>5. Samples # {}
  BY ClientAssumption
<1>6. ~Copied'
  BY <1>4, <1>5 DEF Copied
<1>7. samples_processed = 0
  <2>1. CASE Copied
    BY <1>3, <2>1
  <2>2. CASE ~Copied
    <3>1. copied \ uncounted = {}
      BY <1>2, <1>3, <2>2
    <3> QED BY <1>3, <2>2, <3>1 DEF Counting
  <2> QED BY <2>1, <2>2
<1>8. Cardinality(copied' \ uncounted') = 0
  <2>1. copied' \ uncounted' = {}
    BY <1>4
  <2> QED BY <2>1 DEF Counting
<1>9. CountInv'
  <2>1. uncounted' \subseteq copied' /\ copied' \subseteq Samples
    BY <1>1, <1>4
  <2>2. samples_processed' = 0
    BY <1>1, <1>7
  <2> QED BY <1>4, <1>6, <1>8, <2>1, <2>2 DEF CountInv
<1> QED BY <1>2, <1>4, <1>6, <1>9

\* The cpu thread passes on an index only with its data.
LEMMA CpuGood ==
  ASSUME CpuAdds, HandData, GoodInv, UNCHANGED <<scenario, content>>
  PROVE  GoodInv'
<1>1. SUFFICES ASSUME scenario.feeds, NEW i \in Indices, Output(i)' \/ (~Stopped' /\ Past(i)')
      PROVE  Good(i)'
  BY DEF GoodInv
<1>2. CASE Output(i) \/ (~Stopped /\ Past(i))
  <2>1. Good(i)
    BY <1>1, <1>2 DEF GoodInv
  <2>2. batch'[i] = batch[i]
    <3>1. Past(i)
      BY <1>2 DEF Past
    <3> QED BY <3>1 DEF CpuAdds
  <2> QED BY <2>1, <2>2 DEF Good
<1>3. CASE ~Stopped /\ i = idx["cpu"] /\ at["cpu"] = "CPU" /\ pc["cpu"] = "release" /\ batch' = batch
  <2>1. Good(i)
    BY <1>1, <1>3 DEF HandData
  <2> QED BY <1>3, <2>1 DEF Good
<1> QED BY <1>1, <1>2, <1>3 DEF CpuAdds

\* One(busy) leaves room for one batch.
LEMMA OneBatch ==
  ASSUME SourceInv, scenario.feeds, ~Stopped, cpu_runs \in Nat, tasks["cpu"] \in Nat, InHand
  PROVE  fed = cpu_runs /\ tasks["cpu"] = 0
<1>1. PICK a : a = One(busy)
  OBVIOUS
<1>2. PICK r : r = One(RunNext)
  OBVIOUS
<1>3. One(InHand) = 1 /\ (a = 0 \/ a = 1) /\ (r = 0 \/ r = 1)
  BY <1>1, <1>2 DEF One
<1>4. fed \in Nat /\ fed = cpu_runs + r /\ a = (fed - cpu_runs) + tasks["cpu"] + 1
  BY <1>1, <1>2, <1>3 DEF SourceInv, BusyInv, FedInv, SourceType
<1>5. a \in Nat /\ r \in Nat /\ a <= 1
  BY <1>3, SMT
<1> QED BY <1>4, <1>5, SMTT(30)

\* The cpu thread goes on.
LEMMA CpuGoesOnHand ==
  ASSUME HandData, scenario.feeds, scenario' = scenario, ~Stopped, at["cpu"] \in {"SUPPORT", "CPU"},
         CpuGoesOn, UNCHANGED <<at, idx, stage_work_queue, batch, fed, content>>,
         ~Copied', copied' = {}, AtSource => Copied \/ pc'["cpu"] = "error"
  PROVE  HandData' /\ (InHand' <=> InHand)
<1>1. /\ pc["cpu"] # "error"
      /\ \/ stage_work_queue["CPU"] = <<>>
         \/ pc["cpu"] = "acquire" /\ at["cpu"] = "CPU"
      /\ InHand /\ idx["cpu"] # kInvalidIdx => batch[idx["cpu"]] = fed
      /\ AtSource => \A s \in copied : content[idx["cpu"]][s] = batch[idx["cpu"]]
  BY DEF HandData
<1>2. stage_work_queue["CPU"] = <<>>
  BY <1>1 DEF CpuGoesOn
<1>3. pc'["cpu"] # "error"
  BY <1>1 DEF CpuGoesOn
<1>4. at'["cpu"] = "CPU" /\ pc'["cpu"] = "release" => AtSource /\ Copied
  BY <1>1 DEF CpuGoesOn, AtSource
<1>5. InHand' <=> InHand
  <2>1. pc["cpu"] = "run" /\ at["cpu"] = "CPU" => Copied
    BY <1>3 DEF AtSource
  <2> QED BY <1>1, <2>1 DEF CpuGoesOn, InHand
<1>6. at'["cpu"] = "CPU" /\ pc'["cpu"] = "release" => Good(idx["cpu"])'
  BY <1>1, <1>4 DEF Good, Copied
<1> QED BY <1>1, <1>2, <1>3, <1>5, <1>6 DEF HandData

\* It begins a batch.
LEMMA CpuBeginsHand ==
  ASSUME HandData, scenario.feeds, scenario' = scenario, ~Stopped, HandInv, CpuBegins, UNCHANGED <<fed, content>>
  PROVE  HandData' /\ ~InHand /\ InHand'
<1>1. /\ pc["cpu"] = "idle" /\ pc'["cpu"] = "begin" /\ at'["cpu"] = "SUPPORT"
      /\ UNCHANGED <<idx, stage_work_queue, batch>>
  BY DEF CpuBegins
<1>2. stage_work_queue["CPU"] = <<>>
  <2>1. stage_work_queue["CPU"] = <<>> \/ pc["cpu"] = "acquire"
    BY DEF HandData
  <2> QED BY <1>1, <2>1
<1>3. idx["cpu"] = kInvalidIdx
  BY <1>1 DEF HandInv, Workers
<1>4. ~InHand /\ InHand' /\ ~AtSource'
  BY <1>1 DEF InHand, AtSource
<1>5. pc'["cpu"] # "error" /\ pc'["cpu"] # "release"
  BY <1>1
<1> QED BY <1>1, <1>2, <1>3, <1>4, <1>5 DEF HandData

\* It takes a free index, for the batch fed last.
LEMMA CpuTakesFreeHand ==
  ASSUME SourceInv, scenario.feeds, scenario' = scenario, ~Stopped, cpu_runs \in Nat, tasks["cpu"] \in Nat,
         batch \in [Indices -> Nat], CpuTakesFree, UNCHANGED <<fed, content>>
  PROVE  HandData' /\ InHand /\ InHand'
<1>1. /\ pc["cpu"] = "acquire" /\ pc'["cpu"] = "acquired" /\ at["cpu"] = "SUPPORT" /\ at' = at
      /\ idx'["cpu"] \in Indices /\ batch' = [batch EXCEPT ![idx'["cpu"]] = cpu_runs - tasks["cpu"]]
      /\ stage_work_queue' = stage_work_queue
  BY DEF CpuTakesFree
<1>2. InHand /\ InHand' /\ ~AtSource'
  BY <1>1 DEF InHand, AtSource
<1>3. fed = cpu_runs /\ tasks["cpu"] = 0
  BY <1>2, OneBatch
<1>4. batch'[idx'["cpu"]] = fed
  BY <1>1, <1>3, SMTT(30)
<1>5. stage_work_queue["CPU"] = <<>>
  <2>1. stage_work_queue["CPU"] = <<>> \/ at["cpu"] = "CPU"
    BY DEF SourceInv, HandData
  <2> QED BY <1>1, <2>1
<1>6. pc'["cpu"] # "error" /\ pc'["cpu"] # "release"
  BY <1>1
<1> QED BY <1>1, <1>2, <1>4, <1>5, <1>6 DEF HandData

\* It takes the index from the queue of the CPU stage.
LEMMA CpuTakesHand ==
  ASSUME HandData, scenario.feeds, scenario' = scenario, ~Stopped, CpuTakes, UNCHANGED <<fed, content>>
  PROVE  HandData' /\ InHand /\ InHand'
<1>1. /\ pc["cpu"] = "acquire" /\ pc'["cpu"] = "acquired" /\ at["cpu"] = "CPU" /\ at' = at
      /\ idx'["cpu"] = Head(stage_work_queue["CPU"]) /\ stage_work_queue["CPU"] # <<>> /\ batch' = batch
      /\ stage_work_queue'["CPU"] = Tail(stage_work_queue["CPU"])
  BY DEF CpuTakes
<1>2. InHand /\ InHand' /\ ~AtSource'
  BY <1>1 DEF InHand, AtSource
<1>3. PICK i \in Indices : stage_work_queue["CPU"] = <<i>> /\ batch[i] = fed
  BY <1>1 DEF HandData
<1>4. stage_work_queue'["CPU"] = <<>> /\ idx'["cpu"] = i
  BY <1>1, <1>3, SMTT(30)
<1>5. pc'["cpu"] # "error" /\ pc'["cpu"] # "release"
  BY <1>1
<1> QED BY <1>1, <1>2, <1>3, <1>4, <1>5 DEF HandData

\* It passes its index on to the CPU stage.
LEMMA CpuPassesHand ==
  ASSUME HandData, scenario.feeds, scenario' = scenario, ~Stopped, CpuPasses, UNCHANGED <<fed, content>>
  PROVE  HandData' /\ InHand /\ InHand'
<1>1. PICK i : i = idx["cpu"]
  OBVIOUS
<1>2. /\ pc["cpu"] = "release" /\ pc'["cpu"] = "acquire" /\ at["cpu"] = "SUPPORT" /\ at'["cpu"] = "CPU"
      /\ i \in Indices /\ idx'["cpu"] = kInvalidIdx /\ batch' = batch
      /\ stage_work_queue'["CPU"] = Append(stage_work_queue["CPU"], i)
  BY <1>1 DEF CpuPasses
<1>3. InHand /\ InHand' /\ ~AtSource'
  BY <1>2 DEF InHand, AtSource
<1>4. stage_work_queue["CPU"] = <<>>
  <2>1. stage_work_queue["CPU"] = <<>> \/ at["cpu"] = "CPU"
    BY DEF HandData
  <2> QED BY <1>2, <2>1
<1>5. stage_work_queue'["CPU"] = <<i>>
  BY <1>2, <1>4, SMT
<1>6. batch[i] = fed
  <2>1. i # kInvalidIdx
    BY <1>2, SMTT(30) DEF Indices, kInvalidIdx
  <2> QED BY <1>1, <1>3, <2>1 DEF HandData
<1>7. pc'["cpu"] # "error" /\ pc'["cpu"] # "release"
  BY <1>2
<1> QED BY <1>2, <1>3, <1>5, <1>6, <1>7 DEF HandData

\* It passes its index on to the mixed stage.
LEMMA CpuEndsHand ==
  ASSUME HandData, scenario.feeds, scenario' = scenario, ~Stopped, CpuEnds, UNCHANGED <<fed, content>>
  PROVE  HandData' /\ ~InHand /\ ~InHand'
<1>1. /\ pc["cpu"] = "release" /\ pc'["cpu"] = "post" /\ at["cpu"] = "CPU" /\ at'["cpu"] = "CPU"
      /\ stage_work_queue'["CPU"] = stage_work_queue["CPU"]
  BY DEF CpuEnds
<1>2. ~InHand /\ ~InHand' /\ ~AtSource'
  BY <1>1 DEF InHand, AtSource
<1>3. stage_work_queue["CPU"] = <<>>
  <2>1. stage_work_queue["CPU"] = <<>> \/ pc["cpu"] = "acquire"
    BY DEF HandData
  <2> QED BY <1>1, <2>1
<1>4. pc'["cpu"] # "error" /\ pc'["cpu"] # "release"
  BY <1>1
<1> QED BY <1>1, <1>2, <1>3, <1>4 DEF HandData

\* What is left of the batch fed, for a step that begins one, ends one or does neither.
LEMMA CpuBusy ==
  ASSUME BusyInv, scenario.feeds, scenario' = scenario, ~Stopped, UNCHANGED <<busy, fed, cpu_runs>>,
         fed \in Nat, cpu_runs \in Nat, tasks["cpu"] \in Nat,
         \/ (InHand' <=> InHand) /\ tasks'["cpu"] = tasks["cpu"]
         \/ ~InHand /\ InHand' /\ tasks'["cpu"] = tasks["cpu"] - 1
  PROVE  BusyInv'
<1>1. One(busy) = (fed - cpu_runs) + tasks["cpu"] + One(InHand) /\ One(busy)' = One(busy)
  BY DEF BusyInv, One
<1>2. CASE (InHand' <=> InHand) /\ tasks'["cpu"] = tasks["cpu"]
  <2>1. One(InHand)' = One(InHand)
    BY <1>2 DEF One
  <2> QED BY <1>1, <1>2, <2>1 DEF BusyInv
<1>3. CASE ~InHand /\ InHand' /\ tasks'["cpu"] = tasks["cpu"] - 1
  <2>1. One(InHand)' = 1 /\ One(InHand) = 0
    BY <1>3 DEF One
  <2>2. (fed - cpu_runs) + tasks["cpu"] + 0 = (fed - cpu_runs) + (tasks["cpu"] - 1) + 1
    BY SMT
  <2> QED BY <1>1, <1>3, <2>1, <2>2 DEF BusyInv
<1> QED BY <1>2, <1>3

\* A step of the cpu thread.
LEMMA CpuSource ==
  ASSUME Counting, SourceInv, ExecutorStep("cpu"), scenario' = scenario, CpuAdds, ~Stopped' => CpuStep,
         HandInv, at["cpu"] \in {"SUPPORT", "CPU"}, UserType, WorkerType
  PROVE  SourceInv'
<1>1. UNCHANGED <<busy, data, content, pipe>>
  BY DEF ExecutorStep
<1>2. fed' = fed /\ (RunNext' <=> RunNext)
  BY <1>1 DEF pipe, RunNext
<1>3. SourceType /\ CountInv /\ FedInv /\ BusyInv /\ HandData /\ GoodInv
  BY DEF SourceInv
<1>4. CountInv' /\ ~Copied' /\ copied' = {} /\ (AtSource => Copied \/ pc'["cpu"] = "error")
  BY <1>3, CpuCount
<1>5. GoodInv'
  BY <1>1, <1>3, CpuGood
<1>6. SourceType'
  BY <1>1, <1>2, <1>3 DEF SourceType
<1>7. cpu_runs' = cpu_runs /\ (Stopped => Stopped')
  BY DEF CpuAdds
<1>8. FedInv'
  <2>1. One(RunNext)' = One(RunNext)
    BY <1>2 DEF One
  <2> QED BY <1>1, <1>2, <1>3, <1>7, <2>1 DEF FedInv
<1>9. cpu_runs \in Nat /\ tasks["cpu"] \in Nat /\ batch \in [Indices -> Nat] /\ fed \in Nat
  BY <1>3 DEF UserType, WorkerType, Workers, SourceType
<1>10. CASE scenario.feeds /\ ~Stopped'
  <2>1. ~Stopped /\ CpuStep
    BY <1>7, <1>10
  <2>2. CASE CpuGoesOn /\ UNCHANGED <<at, tasks, idx, stage_work_queue, batch>>
    <3>1. HandData' /\ (InHand' <=> InHand)
      BY <1>1, <1>2, <1>3, <1>4, <1>10, <2>1, <2>2, CpuGoesOnHand, ZenonT(40)
    <3>2. BusyInv'
      BY <1>1, <1>2, <1>3, <1>7, <1>9, <1>10, <2>1, <2>2, <3>1, CpuBusy, ZenonT(40)
    <3> QED BY <1>4, <1>5, <1>6, <1>8, <3>1, <3>2 DEF SourceInv
  <2>3. CASE CpuBegins
    <3>1. HandData' /\ ~InHand /\ InHand'
      BY <1>1, <1>2, <1>3, <1>10, <2>1, <2>3, CpuBeginsHand, ZenonT(40)
    <3>2. tasks'["cpu"] = tasks["cpu"] - 1
      BY <2>3 DEF CpuBegins
    <3>3. BusyInv'
      BY <1>1, <1>2, <1>3, <1>7, <1>9, <1>10, <2>1, <3>1, <3>2, CpuBusy, ZenonT(40)
    <3> QED BY <1>4, <1>5, <1>6, <1>8, <3>1, <3>3 DEF SourceInv
  <2>4. CASE CpuTakesFree \/ CpuTakes \/ CpuPasses \/ CpuEnds
    <3>1. HandData' /\ (InHand' <=> InHand)
      BY <1>1, <1>2, <1>3, <1>9, <1>10, <2>1, <2>4, CpuTakesFreeHand, CpuTakesHand, CpuPassesHand,
           CpuEndsHand, ZenonT(40)
    <3>2. tasks' = tasks
      BY <2>4 DEF CpuTakesFree, CpuTakes, CpuPasses, CpuEnds
    <3>3. BusyInv'
      BY <1>1, <1>2, <1>3, <1>7, <1>9, <1>10, <2>1, <3>1, <3>2, CpuBusy, ZenonT(40)
    <3> QED BY <1>4, <1>5, <1>6, <1>8, <3>1, <3>3 DEF SourceInv
  <2> QED BY <2>1, <2>2, <2>3, <2>4 DEF CpuStep
<1>11. CASE ~(scenario.feeds /\ ~Stopped')
  <2>1. BusyInv' /\ HandData'
    BY <1>11 DEF BusyInv, HandData
  <2> QED BY <1>4, <1>5, <1>6, <1>8, <2>1 DEF SourceInv
<1> QED BY <1>10, <1>11

-----------------------------------------------------------------------------
(* The threads of the pool in ExternalSource *)

\* A thread of the pool copies a sample: of the batch fed last, and at an index that
\* is not past the CPU stage.
LEMMA CopySource ==
  ASSUME SourceInv, NEW s \in Samples, CopySample(s), scenario' = scenario,
         idx["cpu"] \in Indices, \A i \in Indices : Past(i) => ~(at["cpu"] = "CPU" /\ idx["cpu"] = i)
  PROVE  SourceInv'
<1>1. PICK c : c = idx["cpu"]
  OBVIOUS
<1>2. /\ AtSource /\ s \notin copied /\ content' = [content EXCEPT ![c][s] = data]
      /\ copied' = copied \union {s} /\ uncounted' = uncounted \union {s}
      /\ UNCHANGED <<busy, data, samples_processed, pipe, vars>>
  BY <1>1 DEF CopySample
<1>3. /\ UNCHANGED <<pc, at, idx, tasks, stage_work_queue, batch, cpu_runs, in_use_queue, ready_queue>>
      /\ UNCHANGED <<exec_error, ready_stop>>
  BY <1>2 DEF vars, user, queues, stops, workers
<1>4. SourceType /\ CountInv /\ FedInv /\ BusyInv /\ HandData /\ GoodInv
  BY DEF SourceInv
<1>5. scenario.feeds /\ pc["cpu"] = "run" /\ at["cpu"] = "CPU" /\ c \in Indices
  BY <1>1, <1>2 DEF AtSource
<1>6. fed' = fed /\ (RunNext' <=> RunNext) /\ (Stopped' <=> Stopped) /\ AtSource'
  BY <1>2, <1>3 DEF pipe, RunNext, AtSource, Stopped
<1>7. ~Copied /\ ~Copied'
  BY <1>2 DEF Copied
<1>8. InHand /\ InHand'
  BY <1>3, <1>5, <1>7 DEF InHand
<1>9. content \in [Indices -> [Samples -> Nat]] /\ data \in Nat
  BY <1>4, <1>5 DEF SourceType, FedInv
<1>10. /\ content' \in [Indices -> [Samples -> Nat]] /\ content'[c][s] = data
       /\ \A x \in Samples : x # s => content'[c][x] = content[c][x]
       /\ \A i \in Indices : i # c => content'[i] = content[i]
  BY <1>2, <1>5, <1>9
<1>11. SourceType'
  BY <1>2, <1>4, <1>6, <1>10 DEF SourceType
<1>12. CountInv'
  <2>1. /\ uncounted \subseteq copied /\ copied \subseteq Samples
        /\ samples_processed = Cardinality(copied \ uncounted)
    BY <1>4, <1>7 DEF CountInv
  <2>2. copied' \ uncounted' = copied \ uncounted
    BY <1>2
  <2>3. uncounted' \subseteq copied' /\ copied' \subseteq Samples
    BY <1>2, <2>1
  <2> QED BY <1>2, <1>6, <1>7, <2>1, <2>2, <2>3, ZenonT(40) DEF CountInv
<1>13. FedInv' /\ BusyInv'
  <2>1. (InHand' <=> InHand) /\ (Stopped => Stopped')
    BY <1>6, <1>8
  <2> QED BY <1>2, <1>3, <1>4, <1>6, <2>1, SameBusy, ZenonT(40)
<1>14. HandData'
  <2>1. SUFFICES ASSUME ~Stopped PROVE HandData'
    BY <1>6 DEF HandData
  <2>2. c # kInvalidIdx
    BY <1>5, SMT DEF Indices, kInvalidIdx
  <2>3. batch[c] = fed /\ data = fed
    BY <1>1, <1>4, <1>5, <1>8, <2>1, <2>2, ZenonT(40) DEF HandData, FedInv
  <2>4. pc["cpu"] # "acquire" /\ pc["cpu"] # "release" /\ pc["cpu"] # "error"
    BY <1>5
  <2>5. stage_work_queue["CPU"] = <<>>
    BY <1>4, <1>5, <2>1, <2>4 DEF HandData
  <2>6. \A x \in copied : content[c][x] = batch[c]
    BY <1>1, <1>2, <1>4, <1>5, <2>1 DEF HandData
  <2>7. ASSUME NEW x \in copied' PROVE content'[c][x] = batch[c]
    <3>1. CASE x = s
      BY <1>10, <2>3, <3>1
    <3>2. CASE x # s
      <4>1. x \in copied /\ x \in Samples
        BY <1>2, <1>4, <2>7, <3>2 DEF CountInv
      <4> QED BY <1>10, <2>6, <3>2, <4>1
    <3> QED BY <3>1, <3>2
  <2> QED BY <1>1, <1>3, <1>5, <1>6, <2>3, <2>4, <2>5, <2>7, ZenonT(40) DEF HandData
<1>15. GoodInv'
  <2>1. ASSUME NEW i \in Indices, Output(i)' \/ (~Stopped' /\ Past(i)') PROVE Good(i)'
    <3>1. (Output(i)' <=> Output(i)) /\ (Past(i)' <=> Past(i))
      BY <1>3 DEF Output, Past, Running
    <3>2. Good(i)
      BY <1>4, <1>5, <1>6, <2>1, <3>1 DEF GoodInv
    <3>3. i # c
      <4>1. Past(i)
        BY <2>1, <3>1 DEF Past
      <4> QED BY <1>1, <1>5, <4>1
    <3> QED BY <1>3, <1>10, <3>2, <3>3 DEF Good
  <2> QED BY <2>1 DEF GoodInv
<1> QED BY <1>11, <1>12, <1>13, <1>14, <1>15 DEF SourceInv

\* A thread of the pool counts its sample; the last one frees the source.
LEMMA CountSource ==
  ASSUME Counting, SourceInv, NEW s \in Samples, CountSample(s), scenario' = scenario,
         cpu_runs \in Nat, tasks["cpu"] \in Nat
  PROVE  SourceInv'
<1>1. /\ s \in uncounted /\ uncounted' = uncounted \ {s} /\ UNCHANGED <<data, copied, content, pipe, vars>>
      /\ \/ samples_processed + 1 >= Cardinality(Samples) /\ samples_processed' = 0 /\ busy' = FALSE
         \/ /\ ~(samples_processed + 1 >= Cardinality(Samples))
            /\ samples_processed' = samples_processed + 1 /\ busy' = busy
  BY DEF CountSample
<1>2. /\ UNCHANGED <<pc, at, idx, tasks, stage_work_queue, batch, cpu_runs, in_use_queue, ready_queue>>
      /\ UNCHANGED <<exec_error, ready_stop>>
  BY <1>1 DEF vars, user, queues, stops, workers
<1>3. SourceType /\ CountInv /\ FedInv /\ BusyInv /\ HandData /\ GoodInv
  BY DEF SourceInv
<1>4. /\ fed' = fed /\ (RunNext' <=> RunNext) /\ (Stopped' <=> Stopped) /\ (AtSource' <=> AtSource)
  BY <1>1, <1>2 DEF pipe, RunNext, AtSource, Stopped
<1>5. uncounted \subseteq copied /\ copied \subseteq Samples /\ copied # {} => AtSource
  BY <1>3 DEF CountInv
<1>6. AtSource /\ ~Copied
  BY <1>1, <1>3 DEF CountInv, Copied
<1>7. samples_processed = Cardinality(copied \ uncounted)
  BY <1>3, <1>6 DEF CountInv
<1>8. /\ Cardinality(copied \ uncounted') = samples_processed + 1
      /\ samples_processed + 1 >= Cardinality(Samples) <=> Copied'
  <2>1. uncounted \in SUBSET copied /\ copied \in SUBSET Samples
    BY <1>3 DEF CountInv
  <2>2. /\ Cardinality(copied \ uncounted') = Cardinality(copied \ uncounted) + 1
        /\ Cardinality(copied \ uncounted) + 1 >= Cardinality(Samples) <=> copied = Samples /\ uncounted' = {}
    <3>1. \A U \in SUBSET copied : \A x \in U : \A V : V = U \ {x} =>
            /\ Cardinality(copied \ V) = Cardinality(copied \ U) + 1
            /\ Cardinality(copied \ U) + 1 >= Cardinality(Samples) <=> copied = Samples /\ V = {}
      BY <2>1 DEF Counting
    <3>2. \A V : V = uncounted \ {s} =>
            /\ Cardinality(copied \ V) = Cardinality(copied \ uncounted) + 1
            /\ Cardinality(copied \ uncounted) + 1 >= Cardinality(Samples) <=> copied = Samples /\ V = {}
      BY <1>1, <2>1, <3>1
    <3> QED BY <1>1, <3>2
  <2>3. Copied' <=> copied = Samples /\ uncounted' = {}
    BY <1>1 DEF Copied
  <2> QED BY <1>1, <1>7, <2>2, <2>3
<1>9. CountInv'
  <2>1. uncounted' \subseteq copied' /\ copied' \subseteq Samples
    BY <1>1, <1>3 DEF CountInv
  <2>2. samples_processed' = IF Copied' THEN 0 ELSE Cardinality(copied' \ uncounted')
    BY <1>1, <1>8
  <2> QED BY <1>4, <1>6, <2>1, <2>2 DEF CountInv
<1>10. SourceType'
  <2>1. busy' \in BOOLEAN
    BY <1>1, <1>3 DEF SourceType
  <2> QED BY <1>1, <1>3, <1>4, <2>1 DEF SourceType
<1>11. FedInv'
  <2>1. One(RunNext)' = One(RunNext)
    BY <1>4 DEF One
  <2> QED BY <1>1, <1>2, <1>3, <1>4, <2>1 DEF FedInv
<1>12. scenario.feeds /\ pc["cpu"] = "run" /\ at["cpu"] = "CPU"
  BY <1>6 DEF AtSource
<1>13. InHand /\ (InHand' <=> ~Copied')
  <2>1. InHand
    BY <1>6, <1>12 DEF InHand
  <2>2. pc'["cpu"] = "run" /\ at'["cpu"] = "CPU"
    BY <1>2, <1>12
  <2> QED BY <2>1, <2>2 DEF InHand
<1>14. BusyInv'
  <2>1. SUFFICES ASSUME ~Stopped PROVE BusyInv'
    BY <1>4 DEF BusyInv
  <2>2. fed = cpu_runs /\ tasks["cpu"] = 0
    BY <1>12, <1>13, <2>1, OneBatch
  <2>3. One(busy) = (fed - cpu_runs) + tasks["cpu"] + One(InHand)
    BY <1>3, <1>12, <2>1 DEF BusyInv
  <2>4. CASE Copied'
    <3>1. One(busy)' = 0 /\ One(InHand)' = 0
      BY <1>1, <1>8, <1>13, <2>4 DEF One
    <3>2. (fed - cpu_runs) + tasks["cpu"] + 0 = 0
      BY <2>2, SMTT(30)
    <3> QED BY <1>2, <1>4, <3>1, <3>2 DEF BusyInv
  <2>5. CASE ~Copied'
    <3>1. busy' = busy /\ (InHand' <=> InHand)
      BY <1>1, <1>8, <1>13, <2>5
    <3>3. One(busy)' = One(busy) /\ One(InHand)' = One(InHand)
      BY <3>1 DEF One
    <3> QED BY <1>2, <1>4, <2>3, <3>3 DEF BusyInv
  <2> QED BY <2>4, <2>5
<1>15. Good(idx["cpu"])' <=> Good(idx["cpu"])
  BY <1>1, <1>2 DEF Good
<1>16. HandData'
  BY <1>1, <1>2, <1>3, <1>4, <1>13, <1>15, ZenonT(40) DEF HandData
<1>17. GoodInv'
  <2>1. \A i \in Indices : (Output(i)' <=> Output(i)) /\ (Past(i)' <=> Past(i))
    BY <1>2 DEF Output, Past, Running
  <2> QED BY <1>1, <1>2, <1>3, <1>4, <2>1, SameGood, ZenonT(40)
<1> QED BY <1>9, <1>10, <1>11, <1>14, <1>16, <1>17, ZenonT(40) DEF SourceInv

-----------------------------------------------------------------------------
(* Pipeline and ExternalSource *)

\* Without data to feed.
LEMMA NotFedSource ==
  ASSUME SourceInv, ~scenario.feeds, UNCHANGED <<scenario, source>>, fed' \in Nat
  PROVE  SourceInv'
<1>1. UNCHANGED <<busy, data, copied, uncounted, samples_processed, content>>
  BY DEF source
<1>2. ~AtSource /\ ~AtSource' /\ (Copied' <=> Copied)
  BY <1>1 DEF AtSource, Copied
<1>3. CountInv'
  BY <1>1, <1>2 DEF SourceInv, CountInv
<1>4. SourceType'
  BY <1>1 DEF SourceInv, SourceType
<1> QED BY <1>3, <1>4, NotFed DEF SourceInv

\* iter_setup feeds a batch: the last one is copied, for SetDataSource has waited.
LEMMA FeedSource ==
  ASSUME SourceInv, scenario.feeds, scenario' = scenario, SetDataSource, fed' = fed + 1, UNCHANGED vars,
         ~RunNext, RunNext', cpu_runs \in Nat, tasks["cpu"] \in Nat
  PROVE  SourceInv'
<1>1. /\ ~busy /\ busy' = TRUE /\ data' = fed + 1
      /\ UNCHANGED <<copied, uncounted, samples_processed, content>>
  BY DEF SetDataSource
<1>2. /\ UNCHANGED <<pc, at, idx, tasks, stage_work_queue, batch, cpu_runs, in_use_queue, ready_queue>>
      /\ UNCHANGED <<exec_error, ready_stop>>
  BY DEF vars, user, queues, stops, workers
<1>3. SourceType /\ CountInv /\ FedInv /\ BusyInv /\ HandData /\ GoodInv
  BY DEF SourceInv
<1>4. /\ (Stopped' <=> Stopped) /\ (AtSource' <=> AtSource) /\ (Copied' <=> Copied)
  BY <1>1, <1>2 DEF AtSource, Stopped, Copied
<1>5. fed \in Nat /\ fed = cpu_runs + 0
  <2>1. One(RunNext) = 0
    BY DEF One
  <2> QED BY <1>3, <2>1 DEF FedInv, SourceType
<1>6. SourceType'
  <2>1. fed' \in Nat
    BY <1>5, SMTT(30)
  <2>2. busy' \in BOOLEAN
    BY <1>1
  <2> QED BY <1>1, <1>3, <2>1, <2>2 DEF SourceType
<1>7. CountInv'
  BY <1>1, <1>3, <1>4 DEF CountInv
<1>8. FedInv'
  <2>1. One(RunNext)' = 1
    BY DEF One
  <2>2. fed + 1 = cpu_runs + 1
    BY <1>5, SMT
  <2> QED BY <1>1, <1>2, <2>1, <2>2 DEF FedInv
<1>9. InHand' <=> InHand
  BY <1>2, <1>4 DEF InHand
<1>10. BusyInv' /\ HandData'
  <2>1. SUFFICES ASSUME ~Stopped PROVE BusyInv' /\ HandData'
    BY <1>4 DEF BusyInv, HandData
  <2>2. ~InHand /\ tasks["cpu"] = 0
    <3>1. PICK h : h = One(InHand)
      OBVIOUS
    <3>2. (h = 0 \/ h = 1) /\ (InHand => h = 1) /\ One(busy) = 0
      BY <1>1, <3>1 DEF One
    <3>3. 0 = (fed - cpu_runs) + tasks["cpu"] + h
      BY <1>3, <2>1, <3>1, <3>2 DEF BusyInv
    <3>4. h \in Nat
      BY <3>2, SMTT(30)
    <3>5. h = 0 /\ tasks["cpu"] = 0
      BY <1>5, <3>3, <3>4, SMTT(30)
    <3>6. h # 1
      BY <3>5, SMT
    <3> QED BY <3>2, <3>5, <3>6
  <2>3. BusyInv'
    <3>1. One(busy)' = 1 /\ One(InHand)' = 0
      BY <1>1, <1>9, <2>2 DEF One
    <3>2. 1 = ((fed + 1) - cpu_runs) + tasks["cpu"] + 0
      BY <1>5, <2>2, SMTT(30)
    <3> QED BY <1>2, <3>1, <3>2 DEF BusyInv
  <2>4. HandData'
    <3>1. pc["cpu"] # "acquire"
      BY <2>2 DEF InHand
    <3>2. Good(idx["cpu"])' <=> Good(idx["cpu"])
      BY <1>1, <1>2 DEF Good
    <3> QED BY <1>1, <1>2, <1>3, <1>4, <1>9, <2>1, <2>2, <3>1, <3>2, ZenonT(40) DEF HandData
  <2> QED BY <2>3, <2>4
<1>11. GoodInv'
  <2>1. \A i \in Indices : (Output(i)' <=> Output(i)) /\ (Past(i)' <=> Past(i))
    BY <1>2 DEF Output, Past, Running
  <2> QED BY <1>1, <1>2, <1>3, <1>4, <2>1, SameGood, ZenonT(40)
<1> QED BY <1>6, <1>7, <1>8, <1>10, <1>11 DEF SourceInv

\* _run_cpu gives the batch fed to the cpu thread.
LEMMA RunSource ==
  ASSUME SourceInv, UNCHANGED <<scenario, source, fed>>, ScheduleCPU, RunNext, ~RunNext',
         cpu_runs \in Nat, tasks \in [Workers -> Nat]
  PROVE  SourceInv'
<1>1. UNCHANGED <<busy, data, copied, uncounted, samples_processed, content>>
  BY DEF source
<1>2. /\ UNCHANGED <<pc, at, idx, stage_work_queue, batch, in_use_queue, ready_queue, exec_error, ready_stop>>
      /\ cpu_runs' = cpu_runs + 1 /\ tasks' = [tasks EXCEPT !["cpu"] = @ + 1]
  BY DEF ScheduleCPU, queues, stops
<1>3. SourceType /\ CountInv /\ FedInv /\ BusyInv /\ HandData /\ GoodInv
  BY DEF SourceInv
<1>4. Stopped' <=> Stopped
  BY <1>2 DEF Stopped
<1>5. SourceType'
  BY <1>1, <1>3 DEF SourceType
<1>6. CountInv' /\ HandData' /\ (InHand' <=> InHand)
  BY <1>1, <1>2, <1>3, <1>4, SameHand
<1>7. tasks'["cpu"] = tasks["cpu"] + 1 /\ tasks["cpu"] \in Nat
  BY <1>2 DEF Workers
<1>8. FedInv'
  <2>1. One(RunNext) = 1 /\ One(RunNext)' = 0
    BY DEF One
  <2>2. cpu_runs + 1 = (cpu_runs + 1) + 0
    BY SMT
  <2> QED BY <1>1, <1>2, <1>3, <2>1, <2>2 DEF FedInv
<1>9. BusyInv'
  <2>1. One(InHand)' = One(InHand) /\ One(busy)' = One(busy)
    BY <1>1, <1>6 DEF One
  <2>2. fed \in Nat
    BY <1>3 DEF SourceType
  <2>3. (fed - cpu_runs) + tasks["cpu"] = (fed - (cpu_runs + 1)) + (tasks["cpu"] + 1)
    BY <1>7, <2>2, SMTT(30)
  <2> QED BY <1>2, <1>3, <1>4, <1>7, <2>1, <2>3, ZenonT(40) DEF BusyInv
<1>10. GoodInv'
  <2>1. \A i \in Indices : (Output(i)' <=> Output(i)) /\ (Past(i)' <=> Past(i))
    BY <1>2 DEF Output, Past, Running
  <2> QED BY <1>1, <1>2, <1>3, <1>4, <2>1, SameGood, ZenonT(40)
<1> QED BY <1>5, <1>6, <1>8, <1>9, <1>10 DEF SourceInv

-----------------------------------------------------------------------------
(* _run_cpu is next only after iter_setup has fed a batch *)

\* A step of Pipeline other than these two.
LEMMA PassedNext ==
  ASSUME PlanInv, todo # <<>>, Head(todo) # "run_cpu", Head(todo) # "iter_setup",
         todo' = Tail(todo) \/ todo' = <<>>
  PROVE  ~RunNext /\ ~RunNext'
<1>1. todo \in Seq(Steps) /\ Scheduling(todo)
  BY DEF PlanInv, Shape
<1>2. Tail(todo) # <<>> => Tail(todo)[1] # "run_cpu"
  BY <1>1, AfterOther
<1>3. Tail(todo) # <<>> => Head(Tail(todo)) # "run_cpu"
  <2>1. Tail(todo) # <<>> => Head(Tail(todo)) = Tail(todo)[1]
    BY <1>1, SMTT(30)
  <2> QED BY <1>2, <2>1
<1> QED BY <1>3 DEF RunNext

\* iter_setup of a batch.
LEMMA FedNext ==
  ASSUME PlanInv, Step("iter_setup"), todo' = Tail(todo), ~last_iter, last_iter' = last_iter
  PROVE  ~RunNext /\ RunNext'
<1>1. todo \in Seq(Steps) /\ Scheduling(todo) /\ todo # <<>> /\ Head(todo) = "iter_setup"
  BY DEF PlanInv, Shape, Step
<1>2. 1 \in 1 .. Len(todo) /\ todo[1] = "iter_setup"
  BY <1>1, SMTT(30)
<1>3. 1 + 2 <= Len(todo) /\ todo[1 + 1] = "run_cpu"
  BY <1>1, <1>2 DEF Scheduling
<1>4. Tail(todo) # <<>> /\ Head(Tail(todo)) = "run_cpu"
  BY <1>1, <1>3, SMTT(30)
<1>5. ~RunNext
  BY <1>1 DEF RunNext
<1> QED BY <1>4, <1>5 DEF RunNext

\* _run_cpu of a batch.
LEMMA RanNext ==
  ASSUME PlanInv, Step("run_cpu"), todo' = Tail(todo), ~last_iter
  PROVE  RunNext /\ ~RunNext'
<1>1. todo \in Seq(Steps) /\ Scheduling(todo) /\ todo # <<>> /\ Head(todo) = "run_cpu"
  BY DEF PlanInv, Shape, Step
<1>2. Head(todo) # "iter_setup"
  BY <1>1
<1>3. Tail(todo) # <<>> => Tail(todo)[1] # "run_cpu"
  BY <1>1, <1>2, AfterOther
<1>4. Tail(todo) # <<>> => Head(Tail(todo)) # "run_cpu"
  <2>1. Tail(todo) # <<>> => Head(Tail(todo)) = Tail(todo)[1]
    BY <1>1, SMT
  <2> QED BY <1>3, <2>1
<1> QED BY <1>1, <1>4 DEF RunNext

\* outputs and share_outputs.
LEMMA ConsumedNext ==
  ASSUME PlanInv, Consume
  PROVE  ~RunNext /\ ~RunNext'
<1>1. /\ todo # <<>> /\ (Head(todo) = "outputs" \/ Head(todo) = "share_outputs")
      /\ \/ todo' = <<"release_outputs", "share">> \o Tail(todo)
         \/ todo' = <<"share">> \o Tail(todo)
         \/ todo' = <<>>
  BY DEF Consume, Step
<1>2. todo \in Seq(Steps)
  BY DEF PlanInv, Shape
<1>3. todo' # <<>> => Head(todo') # "run_cpu"
  <2>1. PICK t \in Seq(Steps) : t = Tail(todo)
    BY <1>1, <1>2, TailSteps
  <2>2. /\ Head(<<"release_outputs", "share">> \o t) = "release_outputs"
        /\ Head(<<"share">> \o t) = "share"
    BY <2>1, SMTT(30) DEF Steps
  <2>3. "release_outputs" # "run_cpu" /\ "share" # "run_cpu"
    OBVIOUS
  <2> QED BY <1>1, <2>1, <2>2, <2>3
<1>4. Head(todo) # "run_cpu"
  BY <1>1
<1> QED BY <1>3, <1>4 DEF RunNext

\* The steps of Pipeline, as ExternalSource and the cpu thread see them.
LEMMA PipelineCases ==
  ASSUME PlanInv, PipelineStep
  PROVE  \/ /\ UNCHANGED <<source, fed>> /\ (RunNext' <=> RunNext)
            /\ ScheduleGPU \/ ReleaseOutputs \/ ShareOutputs \/ UNCHANGED vars
         \/ UNCHANGED <<source, fed>> /\ RunNext /\ ~RunNext' /\ ScheduleCPU
         \/ scenario.feeds /\ SetDataSource /\ fed' = fed + 1 /\ UNCHANGED vars /\ ~RunNext /\ RunNext'
         \/ ~scenario.feeds /\ UNCHANGED <<source, vars>> /\ fed' = fed + 1
<1>1. CASE IterSetup
  <2>1. Step("iter_setup") /\ UNCHANGED vars
    BY <1>1 DEF IterSetup
  <2>2. \/ UNCHANGED <<source, fed>> /\ ((last_iter /\ last_iter' = last_iter) \/ last_iter' = TRUE)
        \/ /\ todo' = Tail(todo) /\ ~last_iter /\ last_iter' = last_iter /\ fed' = fed + 1
           /\ \/ scenario.feeds /\ SetDataSource
              \/ ~scenario.feeds /\ UNCHANGED source
    BY <1>1 DEF IterSetup
  <2>3. ~RunNext
    <3>1. Head(todo) = "iter_setup"
      BY <2>1 DEF Step
    <3> QED BY <3>1 DEF RunNext
  <2>4. CASE UNCHANGED <<source, fed>> /\ ((last_iter /\ last_iter' = last_iter) \/ last_iter' = TRUE)
    BY <2>1, <2>3, <2>4 DEF RunNext
  <2>5. CASE /\ todo' = Tail(todo) /\ ~last_iter /\ last_iter' = last_iter /\ fed' = fed + 1
             /\ \/ scenario.feeds /\ SetDataSource
                \/ ~scenario.feeds /\ UNCHANGED source
    BY <2>1, <2>5, FedNext
  <2> QED BY <2>2, <2>4, <2>5
<1>2. CASE RunCPU
  <2>1. Step("run_cpu") /\ todo' = Tail(todo) /\ UNCHANGED <<source, fed, last_iter>>
    BY <1>2 DEF RunCPU
  <2>2. CASE last_iter
    <3>1. UNCHANGED vars
      BY <1>2, <2>2 DEF RunCPU
    <3> QED BY <2>1, <2>2, <3>1 DEF RunNext
  <2>3. CASE ~last_iter
    <3>1. ScheduleCPU
      BY <1>2, <2>3 DEF RunCPU
    <3> QED BY <2>1, <2>3, <3>1, RanNext
  <2> QED BY <2>2, <2>3
<1>3. CASE Consume
  <2>1. UNCHANGED <<source, fed, vars>>
    BY <1>3 DEF Consume
  <2> QED BY <1>3, <2>1, ConsumedNext
<1>4. CASE RunGPU \/ Prefetched \/ PipeRelease \/ PipeShare
  <2>1. /\ Step("run_gpu") \/ Step("prefetched") \/ Step("release_outputs") \/ Step("share")
        /\ todo' = Tail(todo) /\ UNCHANGED <<source, fed>>
    BY <1>4 DEF RunGPU, Prefetched, PipeRelease, PipeShare
  <2>2. ScheduleGPU \/ ReleaseOutputs \/ ShareOutputs \/ UNCHANGED vars
    BY <1>4 DEF RunGPU, Prefetched, PipeRelease, PipeShare
  <2>3. todo # <<>> /\ Head(todo) # "run_cpu" /\ Head(todo) # "iter_setup"
    BY <2>1 DEF Step
  <2> QED BY <2>1, <2>2, <2>3, PassedNext
<1>5. CASE CountBatch \/ RaiseStop
  <2>1. /\ Step("count") \/ Step("count_first") \/ Step("stop")
        /\ todo' = Tail(todo) \/ todo' = <<>>
        /\ UNCHANGED <<source, fed, vars>>
    BY <1>5 DEF CountBatch, RaiseStop
  <2>2. todo # <<>> /\ Head(todo) # "run_cpu" /\ Head(todo) # "iter_setup"
    BY <2>1 DEF Step
  <2> QED BY <2>1, <2>2, PassedNext
<1> QED BY <1>1, <1>2, <1>3, <1>4, <1>5, ZenonT(40) DEF PipelineStep

\* The calls of the user.
LEMMA CallCases ==
  ASSUME ExecutorInv, PlanInv, PythonCall, UNCHANGED <<vars, scenario>>
  PROVE  fed' = fed /\ (RunNext' <=> RunNext)
<1>1. Idle /\ fed' = fed
  BY DEF PythonCall, CallRun, CallScheduled, IterInit, IterNext, NextEpoch, calls
<1>2. todo' = todo \/ Callable(todo')
  BY CallRunPlan, CallScheduledPlan, IterInitPlan, IterNextPlan, NextEpochPlan DEF PythonCall
<1> QED BY <1>1, <1>2 DEF RunNext, Idle, Callable

-----------------------------------------------------------------------------
\* At first nothing is fed.
LEMMA InitSource == Counting /\ PyInit => SourceInv
<1> SUFFICES ASSUME Counting, PyInit PROVE SourceInv
  OBVIOUS
<1>1. /\ todo = <<>> /\ fed = 0 /\ data = 0 /\ busy = FALSE /\ copied = {} /\ uncounted = {}
      /\ samples_processed = 0 /\ content = [i \in 0 .. Depth - 1 |-> [s \in Samples |-> 0]]
  BY DEF PyInit
<1>2. /\ pc = [w \in Workers |-> "idle"] /\ tasks = [w \in Workers |-> 0]
      /\ idx = [w \in Workers |-> kInvalidIdx] /\ cpu_runs = 0
      /\ in_use_queue = <<>> /\ ready_queue = <<>> /\ stage_work_queue = [s \in Stages |-> <<>>]
  BY DEF PyInit, Init
<1>3. SourceType
  <2>1. content \in [Indices -> [Samples -> Nat]]
    BY <1>1 DEF Indices
  <2>2. 0 \in Nat /\ FALSE \in BOOLEAN
    OBVIOUS
  <2> QED BY <1>1, <2>1, <2>2 DEF SourceType
<1>4. /\ pc["cpu"] = "idle" /\ tasks["cpu"] = 0 /\ \A w \in Workers : idx[w] = kInvalidIdx
      /\ \A s \in Stages : stage_work_queue[s] = <<>>
  BY <1>2 DEF Workers
<1>5. ~Copied
  BY <1>1, ClientAssumption DEF Copied
<1>6. CountInv
  <2>1. copied \ uncounted = {} /\ uncounted \subseteq copied /\ copied \subseteq Samples
    BY <1>1
  <2>2. Cardinality(copied \ uncounted) = 0
    BY <2>1 DEF Counting
  <2> QED BY <1>1, <1>5, <2>1, <2>2 DEF CountInv
<1>7. ~RunNext /\ One(RunNext) = 0
  BY <1>1 DEF RunNext, One
<1>8. ~InHand /\ ~AtSource /\ pc["cpu"] # "error" /\ pc["cpu"] # "release"
  BY <1>4 DEF InHand, AtSource
<1>9. FedInv
  <2>1. 0 = 0 + 0
    BY SMT
  <2> QED BY <1>1, <1>2, <1>7, <2>1 DEF FedInv
<1>10. BusyInv
  <2>1. One(busy) = 0 /\ One(InHand) = 0
    BY <1>1, <1>8 DEF One
  <2>2. 0 = (0 - 0) + 0 + 0
    BY SMT
  <2> QED BY <1>1, <1>2, <1>4, <2>1, <2>2 DEF BusyInv
<1>11. HandData
  <2>1. stage_work_queue["CPU"] = <<>>
    BY <1>4 DEF Stages
  <2> QED BY <1>8, <2>1 DEF HandData
<1>12. GoodInv
  <2>1. ASSUME NEW i \in Indices PROVE ~Past(i)
    <3>1. i # kInvalidIdx /\ ~In(i, <<>>)
      BY SMT DEF Indices, kInvalidIdx, In
    <3>2. idx["gpu"] = kInvalidIdx /\ idx["mixed"] = kInvalidIdx
      BY <1>4 DEF Workers
    <3>3. stage_work_queue["GPU"] = <<>> /\ stage_work_queue["MIXED"] = <<>>
      BY <1>4 DEF Stages
    <3> QED BY <1>2, <3>1, <3>2, <3>3, ZenonT(40) DEF Past, Output
  <2> QED BY <2>1 DEF GoodInv, Past
<1> QED BY <1>3, <1>6, <1>9, <1>10, <1>11, <1>12, ZenonT(40) DEF SourceInv

=============================================================================

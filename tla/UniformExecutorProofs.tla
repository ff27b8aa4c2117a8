------------------------ MODULE UniformExecutorProofs ------------------------
(***************************************************************************)
(* Proofs about the executor with uniform queues, for every depth, number  *)
(* of batches and set of failing stages: the inductive invariant holds,    *)
(* hence a stage always finds the index it takes, and outputs come back in *)
(* order.                                                                  *)
(***************************************************************************)
EXTENDS UniformExecutorInv, TLAPS

USE Zenon  \* the prover of every leaf that names none

-----------------------------------------------------------------------------
(* What Append, Head and Tail do to a queue, and the types by name *)

\* Append, Head and Tail on a queue.
LEMMA QueueFacts ==
  ASSUME NEW S, NEW q \in Seq(S)
  PROVE  /\ Len(q) \in Nat /\ (q # <<>> <=> Len(q) > 0)
         /\ \A x \in S : Append(q, x) \in Seq(S) /\ Len(Append(q, x)) = Len(q) + 1
         /\ q # <<>> => Head(q) \in S /\ Tail(q) \in Seq(S) /\ Len(Tail(q)) = Len(q) - 1
BY SMT

\* The types of what the threads work on, and the names of threads and stages.
LEMMA WorkerTypes ==
  ASSUME ExecutorInv
  PROVE  /\ pc \in [Workers -> Positions] /\ at \in [Workers -> Stages] /\ tasks \in [Workers -> Nat]
         /\ idx \in [Workers -> Indices \cup {kInvalidIdx}] /\ work_counter \in [Workers -> Int]
         /\ running \in [Workers -> BOOLEAN]
         /\ stage_work_queue \in [Stages -> Seq(Indices)]
         /\ "cpu" \in Workers /\ "mixed" \in Workers /\ "gpu" \in Workers
         /\ "SUPPORT" \in Stages /\ "CPU" \in Stages /\ "MIXED" \in Stages /\ "GPU" \in Stages
BY DEF ExecutorInv, TypeOK, WorkerType, QueueType, Workers, Stages

\* The work of a stage is a queue of indices.
LEMMA StageLengths ==
  ASSUME ExecutorInv, NEW s \in Stages
  PROVE  stage_work_queue[s] \in Seq(Indices) /\ Len(stage_work_queue[s]) \in Nat
<1>1. stage_work_queue[s] \in Seq(Indices)
  BY WorkerTypes
<1> QED BY <1>1, QueueFacts

\* What a thread's move and a change of a counter do to the functions.
LEMMA Moved ==
  ASSUME ExecutorInv, NEW w \in Workers, NEW p \in Positions, pc' = [pc EXCEPT ![w] = p]
  PROVE  pc' \in [Workers -> Positions] /\ \A v \in Workers : pc'[v] = IF v = w THEN p ELSE pc[v]
<1>1. pc \in [Workers -> Positions]
  BY WorkerTypes
<1> QED BY <1>1

\* Changing one counter leaves the others.
LEMMA Counted ==
  ASSUME ExecutorInv, NEW w \in Workers, NEW c \in Int, work_counter' = [work_counter EXCEPT ![w] = c]
  PROVE  /\ work_counter' \in [Workers -> Int]
         /\ \A v \in Workers : work_counter'[v] = IF v = w THEN c ELSE work_counter[v]
<1>1. work_counter \in [Workers -> Int]
  BY WorkerTypes
<1> QED BY <1>1

\* Changing the tasks of one thread leaves those of the others.
LEMMA Tasked ==
  ASSUME ExecutorInv, NEW w \in Workers, NEW c \in Nat, tasks' = [tasks EXCEPT ![w] = c]
  PROVE  /\ tasks' \in [Workers -> Nat]
         /\ \A v \in Workers : tasks'[v] = IF v = w THEN c ELSE tasks[v]
<1>1. tasks \in [Workers -> Nat]
  BY WorkerTypes
<1> QED BY <1>1

\* Changing the index of one thread leaves those of the others.
LEMMA Holding ==
  ASSUME ExecutorInv, NEW w \in Workers, NEW i \in Indices \cup {kInvalidIdx},
         idx' = [idx EXCEPT ![w] = i]
  PROVE  /\ idx' \in [Workers -> Indices \cup {kInvalidIdx}]
         /\ \A v \in Workers : idx'[v] = IF v = w THEN i ELSE idx[v]
<1>1. idx \in [Workers -> Indices \cup {kInvalidIdx}]
  BY WorkerTypes
<1> QED BY <1>1

\* The flags, where they stay.
LEMMA SameFlags ==
  ASSUME ExecutorInv, stops' = stops, exec_error' = exec_error, signal' = signal, errors' = errors
  PROVE  StopType' /\ (Stopped' <=> Stopped)
<1>1. stage_work_stop' = stage_work_stop /\ ready_stop' = ready_stop
  BY DEF stops
<1> QED BY <1>1 DEF ExecutorInv, TypeOK, StopType, Stopped

\* The flags stay consistent in a step that sets none of them.
LEMMA SameStopInv ==
  ASSUME ExecutorInv, stops' = stops, exec_error' = exec_error, signal' = signal,
         \A v \in Workers : pc'[v] = "abandon" \/ (pc'[v] = "acquired" /\ idx'[v] = kInvalidIdx) => Stopped
  PROVE  StopInv'
<1>1. stage_work_stop' = stage_work_stop /\ ready_stop' = ready_stop
  BY DEF stops
<1>2. Stopped => Stopped'
  BY <1>1 DEF Stopped
<1>3. /\ \A s \in Stages : stage_work_stop[s] => ready_stop
      /\ \A t \in Threads : signal[t] >= 2 => ready_stop
  BY DEF ExecutorInv, StopInv
<1> QED BY <1>1, <1>2, <1>3 DEF StopInv

-----------------------------------------------------------------------------
(* Steps that leave the queue and the counter of a stage alone *)

\* A unit of the counter still covers each index that waits for stage s of thread w.
LEMMA StaysCovered ==
  ASSUME ExecutorInv, NEW w \in Workers, NEW u \in Workers, NEW s \in Stages, Covered(w, s, u),
         Len(stage_work_queue'[s]) = Len(stage_work_queue[s]) /\ stage_work_queue'[s] = stage_work_queue[s],
         work_counter'[w] = work_counter[w], Stopped => Stopped',
         pc'[w] \in {"check", "acquire"} => pc[w] \in {"check", "acquire"},
         pc'[u] = "post" => pc[u] = "post",
         pc'[w] = "acquire" => pc[w] = "acquire" \/ (pc[w] = "check" /\ ~Stopped)
  PROVE  Covered(w, s, u)'
<1> DEFINE n == Len(stage_work_queue[s])
           c == work_counter[w]
           a == One(pc[w] \in {"check", "acquire"})
           b == One(pc[u] = "post")
<1>1. n \in Nat /\ c \in Int
  BY StageLengths, WorkerTypes
<1>2. /\ a \in Nat /\ b \in Nat
      /\ One(pc'[w] \in {"check", "acquire"}) \in Nat /\ One(pc'[u] = "post") \in Nat
      /\ One(pc'[w] \in {"check", "acquire"}) <= a /\ One(pc'[u] = "post") <= b
      /\ pc[w] = "check" => a = 1
  BY SMT DEF One
<1>3. ~Stopped => c >= 0 /\ n >= c + a + b
  BY DEF Covered
<1>4. pc[w] = "acquire" => stage_work_queue[s] # <<>>
  BY DEF Covered
<1> HIDE DEF n, c, a, b
<1>5. ~Stopped' => c >= 0 /\ n >= c + One(pc'[w] \in {"check", "acquire"}) + One(pc'[u] = "post")
  <2> DEFINE d == One(pc'[w] \in {"check", "acquire"})
             e == One(pc'[u] = "post")
  <2>1. d \in Nat /\ e \in Nat /\ d <= a /\ e <= b
    BY <1>2
  <2> HIDE DEF d, e
  <2>2. ~Stopped' => c >= 0 /\ n >= c + d + e
    BY <1>1, <1>2, <1>3, <2>1, SMT
  <2> QED BY <2>2 DEF d, e
<1>6. pc'[w] = "acquire" => stage_work_queue[s] # <<>>
  <2>1. CASE pc[w] = "acquire"
    BY <1>4, <2>1
  <2>2. CASE pc[w] = "check" /\ ~Stopped
    <3>1. n > 0
      BY <1>1, <1>2, <1>3, <2>2, SMT
    <3> QED BY <3>1, StageLengths, QueueFacts DEF n
  <2> QED BY <2>1, <2>2
<1> QED BY <1>5, <1>6 DEF Covered, n, c

\* The move of thread w to position p, with the stage and the index it has, is
\* one its Run function makes.
Reachable(w, p) ==
  /\ p \in Positions \ {"post"}
  /\ w = "cpu" => p # "presleep" /\ (p \in {"check", "window"} => at["cpu"] = "SUPPORT")
                  /\ (p = "begin" <=> pc["cpu"] = "begin")
  /\ w = "mixed" => p # "window"
  /\ w = "gpu" => p # "window"
  /\ p \in {"run", "error", "release"} => idx[w] # kInvalidIdx
  /\ p \in {"check", "acquire"} => w = "cpu" \/ pc[w] \in {"check", "acquire"}
  /\ p = "acquire" => (w = "cpu" /\ at["cpu"] = "SUPPORT") \/ (pc[w] = "check" /\ ~Stopped)

\* A step in which a thread only moves on keeps the invariant.
LEMMA MoveOn ==
  ASSUME ExecutorInv, NEW w \in Workers, NEW p, Reachable(w, p), pc' = [pc EXCEPT ![w] = p],
         UNCHANGED <<queues, stops, work_counter, tasks, running, at, idx, user, batch>>,
         StopType', SleepType', Stopped => Stopped',
         \A t \in Threads : signal'[t] >= 2 => signal[t] >= 2,
         p = "abandon" \/ (p = "acquired" /\ idx[w] = kInvalidIdx) => Stopped
  PROVE  ExecutorInv'
<1>1. /\ p \in Positions /\ p # "post"
      /\ w = "cpu" => p # "presleep" /\ (p \in {"check", "window"} => at["cpu"] = "SUPPORT")
      /\ w = "cpu" => (p = "begin" <=> pc["cpu"] = "begin")
      /\ w = "mixed" => p # "window"
      /\ w = "gpu" => p # "window"
      /\ p \in {"run", "error", "release"} => idx[w] # kInvalidIdx
      /\ p \in {"check", "acquire"} => w = "cpu" \/ pc[w] \in {"check", "acquire"}
      /\ p = "acquire" => (w = "cpu" /\ at["cpu"] = "SUPPORT") \/ (pc[w] = "check" /\ ~Stopped)
  BY DEF Reachable
<1>2. /\ pc' \in [Workers -> Positions]
      /\ \A v \in Workers : pc'[v] = IF v = w THEN p ELSE pc[v]
  BY <1>1, Moved
<1>3. /\ queues' = queues /\ stops' = stops /\ work_counter' = work_counter /\ tasks' = tasks
      /\ running' = running /\ at' = at /\ idx' = idx /\ user' = user /\ batch' = batch
  OBVIOUS
<1>4. QueueType' /\ UserType' /\ WorkerType'
  BY <1>2, <1>3 DEF ExecutorInv, TypeOK, QueueType, UserType, WorkerType, queues, user
<1>5. PlaceInv'
  BY <1>1, <1>2, <1>3 DEF ExecutorInv, PlaceInv, Workers
<1>6. StopInv'
  <2>1. /\ \A s \in Stages : stage_work_stop'[s] => ready_stop'
        /\ \A t \in Threads : signal'[t] >= 2 => ready_stop'
    BY <1>3 DEF ExecutorInv, StopInv, stops
  <2>2. \A v \in Workers : pc'[v] = "abandon" \/ (pc'[v] = "acquired"
        /\ idx'[v] = kInvalidIdx) => Stopped'
    BY <1>2, <1>3 DEF ExecutorInv, StopInv
  <2> QED BY <2>1, <2>2 DEF StopInv
<1>7. stage_work_queue' = stage_work_queue /\ cpu_runs' = cpu_runs
  BY <1>3 DEF queues, user
<1>8. \A v \in Workers : pc'[v] = "post" => pc[v] = "post"
  BY <1>1, <1>2
<1>9. \A v \in Workers : v # "cpu" =>
        /\ pc'[v] \in {"check", "acquire"} => pc[v] \in {"check", "acquire"}
        /\ pc'[v] = "acquire" => pc[v] = "acquire" \/ (pc[v] = "check" /\ ~Stopped)
  BY <1>1, <1>2
<1>10. "mixed" # "cpu" /\ "gpu" # "cpu"
  OBVIOUS
<1>11. Covered("mixed", "MIXED", "cpu")'
  BY <1>3, <1>7, <1>8, <1>9, <1>10, WorkerTypes, StaysCovered DEF ExecutorInv, WorkInv
<1>12. Covered("gpu", "GPU", "mixed")'
  BY <1>3, <1>7, <1>8, <1>9, <1>10, WorkerTypes, StaysCovered DEF ExecutorInv, WorkInv
<1>13. CounterInv'
  <2>1. pc'["cpu"] = "begin" <=> pc["cpu"] = "begin"
    BY <1>1, <1>2 DEF Workers
  <2>2. pc'["cpu"] = "acquire" /\ at["cpu"] = "CPU" => pc["cpu"] = "acquire"
    BY <1>1, <1>2 DEF Workers, ExecutorInv, PlaceInv
  <2>3. One(pc'["cpu"] = "begin") = One(pc["cpu"] = "begin")
    BY <2>1 DEF One
  <2> QED BY <1>3, <1>7, <2>2, <2>3 DEF ExecutorInv, WorkInv, CounterInv
<1> QED BY <1>4, <1>5, <1>6, <1>11, <1>12, <1>13 DEF ExecutorInv, TypeOK, WorkInv

\* The main thread and SignalStop: the work and the positions of the threads
\* stay as they are.
LEMMA UserStep ==
  ASSUME ExecutorInv, UNCHANGED <<pc, at, idx, stage_work_queue, work_counter, tasks, cpu_runs>>,
         running' \in [Workers -> BOOLEAN], QueueType', StopType', SleepType', UserType',
         Stopped => Stopped',
         \A s \in Stages : stage_work_stop'[s] => ready_stop',
         \A t \in Threads : signal'[t] >= 2 => ready_stop'
  PROVE  ExecutorInv'
<1>1. /\ pc' = pc /\ at' = at /\ idx' = idx
      /\ stage_work_queue' = stage_work_queue /\ work_counter' = work_counter
      /\ tasks' = tasks /\ cpu_runs' = cpu_runs
  OBVIOUS
<1>2. WorkerType'
  BY <1>1 DEF ExecutorInv, TypeOK, WorkerType
<1>3. PlaceInv'
  BY <1>1 DEF ExecutorInv, PlaceInv
<1>4. StopInv'
  BY <1>1 DEF ExecutorInv, StopInv
<1>5. Covered("mixed", "MIXED", "cpu")'
  BY <1>1, WorkerTypes, StaysCovered DEF ExecutorInv, WorkInv
<1>6. Covered("gpu", "GPU", "mixed")'
  BY <1>1, WorkerTypes, StaysCovered DEF ExecutorInv, WorkInv
<1>7. CounterInv'
  BY <1>1 DEF ExecutorInv, WorkInv, CounterInv
<1> QED BY <1>2, <1>3, <1>4, <1>5, <1>6, <1>7 DEF ExecutorInv, TypeOK, WorkInv

-----------------------------------------------------------------------------
(* The steps in which a thread only moves on *)

\* The types of the flags and of the sleeping threads, where they stay.
LEMMA SameStops ==
  ASSUME ExecutorInv, UNCHANGED <<stops, exec_error, signal>>, errors' \in BOOLEAN
  PROVE  /\ StopType' /\ (Stopped => Stopped')
         /\ \A t \in Threads : signal'[t] >= 2 => signal[t] >= 2
BY DEF ExecutorInv, TypeOK, StopType, Stopped, stops

\* Waking threads keeps the type of the set of sleeping ones.
LEMMA SameSleep ==
  ASSUME ExecutorInv, asleep' \subseteq asleep
  PROVE  SleepType'
BY DEF ExecutorInv, TypeOK, SleepType

\* A thread that finds no work goes to sleep.
LEMMA SleepInv ==
  ASSUME ExecutorInv, NEW w \in Workers, Sleep(w)
  PROVE  ExecutorInv'
<1>1. /\ UNCHANGED <<queues, stops, work_counter, tasks, running, at, idx, user, batch>>
      /\ UNCHANGED <<stops, exec_error, signal>> /\ errors' = errors
      /\ pc[w] = "presleep" /\ pc' = [pc EXCEPT ![w] = "begin"] /\ asleep' = asleep \cup {w}
  BY DEF Sleep, Goto
<1>2. w \in {"mixed", "gpu"}
  BY <1>1 DEF ExecutorInv, PlaceInv, Workers
<1>3. Reachable(w, "begin")
  BY <1>1, <1>2 DEF Reachable, Positions
<1>4. SleepType'
  BY <1>1, <1>2 DEF ExecutorInv, TypeOK, SleepType
<1>5. errors' \in BOOLEAN
  BY <1>1 DEF ExecutorInv, TypeOK, StopType
<1>6. "begin" # "abandon" /\ "begin" # "acquired"
  OBVIOUS
<1> QED BY <1>1, <1>3, <1>4, <1>5, <1>6, SameStops, MoveOn

\* RunCPU, RunMixed and RunGPU test exec_error_ and the stop flag first.
LEMMA CheckStopInv ==
  ASSUME ExecutorInv, NEW w \in Workers, CheckStop(w)
  PROVE  ExecutorInv'
<1>1. /\ UNCHANGED <<queues, stops, work_counter, tasks, running, at, idx, user, batch>>
      /\ UNCHANGED <<stops, exec_error, signal>> /\ errors' = errors
      /\ pc[w] = "check" /\ asleep' \subseteq asleep
      /\ pc' = [pc EXCEPT ![w] = "idle"] \/ (~Stopped /\ pc' = [pc EXCEPT ![w] = "acquire"])
  BY DEF CheckStop, Goto
<1>2. Reachable(w, "idle") /\ (~Stopped => Reachable(w, "acquire"))
  BY <1>1 DEF Reachable, Positions
<1>3. SleepType'
  BY <1>1, SameSleep
<1>4. errors' \in BOOLEAN
  BY <1>1 DEF ExecutorInv, TypeOK, StopType
<1>5. "idle" # "abandon" /\ "idle" # "acquired" /\ "acquire" # "abandon" /\ "acquire" # "acquired"
  OBVIOUS
<1>6. CASE pc' = [pc EXCEPT ![w] = "idle"]
  BY <1>1, <1>2, <1>3, <1>4, <1>5, <1>6, SameStops, MoveOn
<1>7. CASE ~Stopped /\ pc' = [pc EXCEPT ![w] = "acquire"]
  BY <1>1, <1>2, <1>3, <1>4, <1>5, <1>7, SameStops, MoveOn
<1> QED BY <1>1, <1>6, <1>7

\* An index that is not valid makes the Run function return.
LEMMA CheckIdxsInv ==
  ASSUME ExecutorInv, NEW w \in Workers, CheckIdxs(w)
  PROVE  ExecutorInv'
<1>1. /\ UNCHANGED <<queues, stops, work_counter, tasks, running, at, idx, user, batch>>
      /\ UNCHANGED <<stops, exec_error, signal>> /\ errors' = errors /\ asleep' = asleep
      /\ pc[w] = "acquired"
      /\ \/ pc' = [pc EXCEPT ![w] = "abandon"] /\ (Stopped \/ idx[w] = kInvalidIdx)
         \/ pc' = [pc EXCEPT ![w] = "run"] /\ idx[w] # kInvalidIdx
  BY DEF CheckIdxs, Goto
<1>2. Reachable(w, "abandon") /\ (idx[w] # kInvalidIdx => Reachable(w, "run"))
  BY <1>1 DEF Reachable, Positions
<1>3. SleepType'
  BY <1>1, SameSleep
<1>4. errors' \in BOOLEAN
  BY <1>1 DEF ExecutorInv, TypeOK, StopType
<1>5. "run" # "abandon" /\ "run" # "acquired" /\ "abandon" # "acquired"
  OBVIOUS
<1>6. CASE pc' = [pc EXCEPT ![w] = "abandon"] /\ (Stopped \/ idx[w] = kInvalidIdx)
  <2>1. Stopped
    BY <1>1, <1>6 DEF ExecutorInv, StopInv
  <2> QED BY <1>1, <1>2, <1>3, <1>4, <1>5, <1>6, <2>1, SameStops, MoveOn
<1>7. CASE pc' = [pc EXCEPT ![w] = "run"] /\ idx[w] # kInvalidIdx
  BY <1>1, <1>2, <1>3, <1>4, <1>5, <1>7, SameStops, MoveOn
<1> QED BY <1>1, <1>6, <1>7

\* The operators of a stage run.
LEMMA RunOpsInv ==
  ASSUME ExecutorInv, NEW w \in Workers, RunOps(w)
  PROVE  ExecutorInv'
<1>1. /\ UNCHANGED <<queues, stops, work_counter, tasks, running, at, idx, user, batch>>
      /\ UNCHANGED <<stops, exec_error, signal>> /\ errors' = errors /\ asleep' = asleep
      /\ pc[w] = "run" /\ pc' = [pc EXCEPT ![w] = "release"]
  BY DEF RunOps, Goto
<1>2. Reachable(w, "release")
  BY <1>1 DEF Reachable, Positions, ExecutorInv, PlaceInv
<1>3. SleepType'
  BY <1>1, SameSleep
<1>4. errors' \in BOOLEAN
  BY <1>1 DEF ExecutorInv, TypeOK, StopType
<1>5. "release" # "abandon" /\ "release" # "acquired"
  OBVIOUS
<1> QED BY <1>1, <1>2, <1>3, <1>4, <1>5, SameStops, MoveOn

\* HandleError signals stop in the thread of the stage that failed.
LEMMA HandleErrorInv ==
  ASSUME ExecutorInv, NEW w \in Workers, HandleError(w)
  PROVE  ExecutorInv'
<1>1. /\ UNCHANGED <<queues, stops, work_counter, tasks, running, at, idx, user, batch>>
      /\ UNCHANGED <<stops, exec_error, signal>> /\ errors' \in BOOLEAN /\ asleep' = asleep
      /\ pc[w] = "error" /\ pc' = [pc EXCEPT ![w] = "release"]
  BY DEF HandleError, Goto
<1>2. Reachable(w, "release")
  BY <1>1 DEF Reachable, Positions, ExecutorInv, PlaceInv
<1>3. SleepType'
  BY <1>1, SameSleep
<1>4. "release" # "abandon" /\ "release" # "acquired"
  OBVIOUS
<1> QED BY <1>1, <1>2, <1>3, <1>4, SameStops, MoveOn

\* The SUPPORT stage finds no free index and sleeps.
LEMMA SleepFreeInv ==
  ASSUME ExecutorInv, SleepFree
  PROVE  ExecutorInv'
<1>1. /\ UNCHANGED <<queues, stops, work_counter, tasks, running, at, idx, user, batch>>
      /\ UNCHANGED <<stops, exec_error, signal>> /\ errors' = errors
      /\ pc["cpu"] = "window" /\ pc' = [pc EXCEPT !["cpu"] = "acquire"] /\ asleep' = asleep \cup {"free"}
      /\ "cpu" \in Workers
  BY DEF SleepFree, Goto, Workers
<1>2. Reachable("cpu", "acquire")
  BY <1>1 DEF Reachable, Positions, ExecutorInv, PlaceInv
<1>3. SleepType'
  BY <1>1 DEF ExecutorInv, TypeOK, SleepType
<1>4. errors' \in BOOLEAN
  BY <1>1 DEF ExecutorInv, TypeOK, StopType
<1>5. "acquire" # "abandon" /\ "acquire" # "acquired"
  OBVIOUS
<1> QED BY <1>1, <1>2, <1>3, <1>4, <1>5, SameStops, MoveOn

\* An operator throws.
LEMMA OperatorThrowsInv ==
  ASSUME ExecutorInv, NEW w \in Workers, OperatorThrows(w)
  PROVE  ExecutorInv'
<1>1. /\ UNCHANGED <<queues, stops, work_counter, tasks, running, at, idx, user, batch>>
      /\ stops' = stops /\ exec_error' = TRUE /\ errors' = errors /\ asleep' = asleep
      /\ signal' = [signal EXCEPT ![w] = 1]
      /\ pc[w] = "run" /\ pc' = [pc EXCEPT ![w] = "error"]
  BY DEF OperatorThrows, Goto
<1>2. Reachable(w, "error")
  BY <1>1 DEF Reachable, Positions, ExecutorInv, PlaceInv
<1>3. SleepType'
  BY <1>1, SameSleep
<1>4. signal \in [Threads -> 0 .. 6]
  BY DEF ExecutorInv, TypeOK, StopType
<1>5. signal' \in [Threads -> 0 .. 6] /\ \A t \in Threads : signal'[t] >= 2 => signal[t] >= 2
  BY <1>1, <1>4, SMT DEF Threads
<1>6. StopType' /\ Stopped'
  BY <1>1, <1>5 DEF ExecutorInv, TypeOK, StopType, Stopped, stops
<1>7. "error" # "abandon" /\ "error" # "acquired"
  OBVIOUS
<1> QED BY <1>1, <1>2, <1>3, <1>5, <1>6, <1>7, MoveOn

-----------------------------------------------------------------------------
(* The steps that change a counter *)

\* A thread takes the next task from its work queue.
LEMMA TakeWorkInv ==
  ASSUME ExecutorInv, NEW w \in Workers, TakeWork(w)
  PROVE  ExecutorInv'
<1>1. /\ UNCHANGED <<queues, stops, work_counter, running, idx, exec_error, errors, asleep, signal,
                     user, batch>>
      /\ pc[w] = "idle" /\ tasks[w] > 0
      /\ tasks' = [tasks EXCEPT ![w] = tasks[w] - 1]
      /\ at' = [at EXCEPT ![w] = FirstStage[w]] /\ pc' = [pc EXCEPT ![w] = "begin"]
  BY DEF TakeWork, Goto
<1>2. /\ "begin" \in Positions /\ FirstStage[w] \in Stages
      /\ FirstStage["cpu"] = "SUPPORT" /\ FirstStage["mixed"] = "MIXED" /\ FirstStage["gpu"] = "GPU"
  BY SMT DEF Positions, FirstStage, Workers, Stages
<1>3. /\ pc' \in [Workers -> Positions] /\ at' \in [Workers -> Stages]
      /\ \A v \in Workers : /\ pc'[v] = IF v = w THEN "begin" ELSE pc[v]
                            /\ at'[v] = IF v = w THEN FirstStage[v] ELSE at[v]
  <2>1. at \in [Workers -> Stages]
    BY WorkerTypes
  <2>2. /\ at' \in [Workers -> Stages]
        /\ \A v \in Workers : at'[v] = IF v = w THEN FirstStage[v] ELSE at[v]
    BY <1>1, <1>2, <2>1
  <2> QED BY <1>1, <1>2, <2>2, Moved
<1>4. /\ tasks' \in [Workers -> Nat]
      /\ \A v \in Workers : tasks'[v] = IF v = w THEN tasks[v] - 1 ELSE tasks[v]
  <2>1. tasks[w] \in Nat
    BY WorkerTypes
  <2>2. tasks[w] - 1 \in Nat
    BY <1>1, <2>1, SMT
  <2> QED BY <1>1, <2>2, Tasked
<1>5. QueueType' /\ StopType' /\ SleepType' /\ WorkerType' /\ UserType' /\ (Stopped' <=> Stopped)
  BY <1>1, <1>3, <1>4 DEF ExecutorInv, TypeOK, QueueType, StopType, SleepType, WorkerType,
       UserType, queues, stops, user,
         Stopped
<1>6. PlaceInv'
  BY <1>1, <1>2, <1>3 DEF ExecutorInv, PlaceInv, Workers
<1>7. StopInv'
  BY <1>1, <1>3 DEF ExecutorInv, StopInv, Stopped, stops
<1>8. stage_work_queue' = stage_work_queue /\ cpu_runs' = cpu_runs /\ work_counter' = work_counter
  BY <1>1 DEF queues, user
<1>9. Covered("mixed", "MIXED", "cpu")'
  BY <1>3, <1>5, <1>8, WorkerTypes, StaysCovered DEF ExecutorInv, WorkInv
<1>10. Covered("gpu", "GPU", "mixed")'
  BY <1>3, <1>5, <1>8, WorkerTypes, StaysCovered DEF ExecutorInv, WorkInv
<1>11. CounterInv'
  <2>1. CounterInv /\ tasks["cpu"] \in Nat /\ cpu_runs \in Nat /\ "cpu" \in Workers
    BY WorkerTypes DEF ExecutorInv, WorkInv, TypeOK, UserType
  <2>2. CASE w = "cpu"
    <3>1. /\ pc'["cpu"] = "begin" /\ tasks'["cpu"] = tasks["cpu"] - 1
          /\ pc["cpu"] = "idle"
      BY <1>1, <1>3, <1>4, <2>1, <2>2
    <3> QED BY <1>8, <2>1, <3>1, SMTT(30) DEF CounterInv, One
  <2>3. CASE w # "cpu"
    <3>1. /\ pc'["cpu"] = pc["cpu"] /\ tasks'["cpu"] = tasks["cpu"] /\ at'["cpu"] = at["cpu"]
      BY <1>3, <1>4, <2>1, <2>3
    <3> QED BY <1>8, <2>1, <3>1 DEF CounterInv
  <2> QED BY <2>2, <2>3
<1> QED BY <1>5, <1>6, <1>7, <1>9, <1>10, <1>11 DEF ExecutorInv, TypeOK, WorkInv

\* The thread takes a unit of its counter.
LEMMA BeginInv ==
  ASSUME ExecutorInv, NEW w \in Workers, Begin(w)
  PROVE  ExecutorInv'
<1>1. /\ UNCHANGED <<queues, stops, tasks, running, at, idx, user, batch>>
      /\ UNCHANGED <<stops, exec_error, signal>> /\ errors' = errors /\ asleep' = asleep
      /\ pc[w] = "begin"
      /\ \/ w # "cpu" /\ pc' = [pc EXCEPT ![w] = "presleep"] /\ work_counter' = work_counter
         \/ /\ w = "cpu" \/ work_counter[w] # 0 \/ Stopped
            /\ work_counter' = [work_counter EXCEPT ![w] = work_counter[w] - 1]
            /\ pc' = [pc EXCEPT ![w] = "check"]
  BY DEF Begin, Goto
<1>2. SleepType'
  BY <1>1, SameSleep
<1>3. errors' \in BOOLEAN
  BY <1>1 DEF ExecutorInv, TypeOK, StopType
<1>4. CASE w # "cpu" /\ pc' = [pc EXCEPT ![w] = "presleep"] /\ work_counter' = work_counter
  <2>1. Reachable(w, "presleep") /\ "presleep" # "abandon" /\ "presleep" # "acquired"
    BY <1>4 DEF Reachable, Positions
  <2>2. UNCHANGED <<queues, stops, work_counter, tasks, running, at, idx, user, batch>>
    BY <1>1, <1>4
  <2> QED BY <1>1, <1>2, <1>3, <1>4, <2>1, <2>2, SameStops, MoveOn
<1>5. CASE /\ w = "cpu" \/ work_counter[w] # 0 \/ Stopped
           /\ work_counter' = [work_counter EXCEPT ![w] = work_counter[w] - 1]
           /\ pc' = [pc EXCEPT ![w] = "check"]
  <2>1. "check" \in Positions
    BY DEF Positions
  <2>2. /\ pc' \in [Workers -> Positions] /\ work_counter' \in [Workers -> Int]
        /\ \A v \in Workers : /\ pc'[v] = IF v = w THEN "check" ELSE pc[v]
                              /\ work_counter'[v] = IF v = w THEN work_counter[v] - 1 ELSE work_counter[v]
    <3>1. work_counter[w] \in Int
      BY WorkerTypes
    <3>2. work_counter[w] - 1 \in Int
      BY <3>1, SMT
    <3> QED BY <1>5, <2>1, <3>2, Moved, Counted
  <2>3. StopType' /\ (Stopped' <=> Stopped)
    BY <1>1, SameFlags
  <2>4. QueueType' /\ WorkerType' /\ UserType'
    BY <1>1, <2>2 DEF ExecutorInv, TypeOK, QueueType, WorkerType, UserType, queues, user
  <2>5. PlaceInv'
    <3>1. at' = at /\ idx' = idx
      BY <1>1
    <3> QED BY <1>1, <2>2, <3>1, SMTT(30) DEF ExecutorInv, PlaceInv, Workers
  <2>6. StopInv'
    <3>1. idx' = idx /\ stops' = stops /\ signal' = signal /\ exec_error' = exec_error
      BY <1>1
    <3>2. "check" # "abandon" /\ "check" # "acquired"
      OBVIOUS
    <3>3. \A v \in Workers : pc'[v] = "abandon" \/ (pc'[v] = "acquired"
          /\ idx'[v] = kInvalidIdx) => Stopped
      BY <2>2, <3>1, <3>2 DEF ExecutorInv, StopInv
    <3> QED BY <3>1, <3>3, SameStopInv
  <2>7. stage_work_queue' = stage_work_queue /\ cpu_runs' = cpu_runs /\ tasks' = tasks /\ at' = at
    BY <1>1 DEF queues, user
  <2>8. ASSUME NEW s \in Stages, NEW u \in Workers, u # w, Covered(w, s, u), w # "cpu"
        PROVE  Covered(w, s, u)'
    <3> DEFINE n == Len(stage_work_queue[s])
               c == work_counter[w]
               b == One(pc[u] = "post")
    <3>1. n \in Nat /\ c \in Int /\ b \in Nat
      BY StageLengths, WorkerTypes DEF One
    <3>2. pc'[w] = "check" /\ pc'[u] = pc[u] /\ work_counter'[w] = c - 1
      BY <2>2, <2>8
    <3>3. One(pc[w] \in {"check", "acquire"}) = 0 /\ One(pc'[w] \in {"check", "acquire"}) = 1
      BY <1>1, <3>2 DEF One
    <3>4. (~Stopped => c >= 0 /\ n >= c + 0 + b) /\ (c # 0 \/ Stopped)
      BY <1>5, <2>8, <3>3 DEF Covered
    <3> HIDE DEF n, c, b
    <3>5. ~Stopped => c - 1 >= 0 /\ n >= (c - 1) + 1 + b
      BY <3>1, <3>4, SMT
    <3> QED BY <2>3, <2>7, <3>2, <3>3, <3>5 DEF Covered, n, b
  <2>9. Covered("mixed", "MIXED", "cpu")'
    <3>1. CASE w = "mixed"
      BY <2>8, <3>1, WorkerTypes DEF ExecutorInv, WorkInv
    <3>2. CASE w # "mixed"
      <4>1. pc'["mixed"] = pc["mixed"] /\ work_counter'["mixed"] = work_counter["mixed"]
        BY <2>2, <3>2, WorkerTypes
      <4>2. pc'["cpu"] = "post" => pc["cpu"] = "post"
        BY <2>2 DEF Workers
      <4> QED BY <2>3, <2>7, <4>1, <4>2, WorkerTypes, StaysCovered DEF ExecutorInv, WorkInv
    <3> QED BY <3>1, <3>2
  <2>10. Covered("gpu", "GPU", "mixed")'
    <3>1. CASE w = "gpu"
      BY <2>8, <3>1, WorkerTypes DEF ExecutorInv, WorkInv
    <3>2. CASE w # "gpu"
      <4>1. pc'["gpu"] = pc["gpu"] /\ work_counter'["gpu"] = work_counter["gpu"]
        BY <2>2, <3>2, WorkerTypes
      <4>2. pc'["mixed"] = "post" => pc["mixed"] = "post"
        BY <2>2 DEF Workers
      <4> QED BY <2>3, <2>7, <4>1, <4>2, WorkerTypes, StaysCovered DEF ExecutorInv, WorkInv
    <3> QED BY <3>1, <3>2
  <2>11. CounterInv'
    <3>1. CounterInv /\ tasks["cpu"] \in Nat /\ "cpu" \in Workers
      BY WorkerTypes DEF ExecutorInv, WorkInv
    <3>2. CASE w = "cpu"
      <4>1. pc'["cpu"] = "check" /\ work_counter'["cpu"] = work_counter["cpu"] - 1 /\ pc["cpu"] = "begin"
        BY <1>1, <2>2, <3>1, <3>2
      <4> QED BY <2>7, <3>1, <4>1, SMTT(30) DEF CounterInv, One
    <3>3. CASE w # "cpu"
      <4>1. pc'["cpu"] = pc["cpu"] /\ work_counter'["cpu"] = work_counter["cpu"]
        BY <2>2, <3>1, <3>3
      <4> QED BY <2>7, <3>1, <4>1 DEF CounterInv
    <3> QED BY <3>2, <3>3
  <2> QED BY <1>2, <2>3, <2>4, <2>5, <2>6, <2>9, <2>10, <2>11 DEF ExecutorInv, TypeOK, WorkInv
<1> QED BY <1>1, <1>4, <1>5

\* The unit of the counter follows the index into the next stage.
LEMMA PostInv ==
  ASSUME ExecutorInv, NEW w \in Workers, w \in DOMAIN NextWorker, Post(w)
  PROVE  ExecutorInv'
<1> DEFINE x == NextWorker[w]
<1>1. /\ UNCHANGED <<queues, stops, tasks, running, at, idx, user, batch>>
      /\ UNCHANGED <<stops, exec_error, signal>> /\ errors' = errors /\ asleep' \subseteq asleep
      /\ pc[w] = "post" /\ pc' = [pc EXCEPT ![w] = "idle"]
      /\ work_counter' = [work_counter EXCEPT ![x] = work_counter[x] + 1]
  BY DEF Post, Goto
<1>2. (w = "cpu" /\ x = "mixed") \/ (w = "mixed" /\ x = "gpu")
  BY SMT DEF NextWorker
<1> HIDE DEF x
<1>3. "idle" \in Positions /\ x \in Workers
  BY <1>2 DEF Positions, Workers
<1>4. /\ pc' \in [Workers -> Positions] /\ work_counter' \in [Workers -> Int]
      /\ \A v \in Workers : /\ pc'[v] = IF v = w THEN "idle" ELSE pc[v]
                            /\ work_counter'[v] = IF v = x THEN work_counter[v] + 1 ELSE work_counter[v]
  <2>1. work_counter[x] \in Int
    BY <1>3, WorkerTypes
  <2>2. work_counter[x] + 1 \in Int
    BY <2>1, SMT
  <2> QED BY <1>1, <1>3, <2>2, Moved, Counted
<1>5. stops' = stops /\ exec_error' = exec_error /\ signal' = signal /\ errors' = errors
  BY <1>1
<1>6. StopType' /\ (Stopped' <=> Stopped) /\ SleepType'
  BY <1>1, <1>5, SameFlags, SameSleep
<1>7. QueueType' /\ WorkerType' /\ UserType'
  BY <1>1, <1>4 DEF ExecutorInv, TypeOK, QueueType, WorkerType, UserType, queues, user
<1>8. /\ at' = at /\ idx' = idx /\ stops' = stops /\ signal' = signal /\ tasks' = tasks
      /\ stage_work_queue' = stage_work_queue /\ cpu_runs' = cpu_runs
  BY <1>1 DEF queues, user
<1>9. PlaceInv'
  BY <1>4, <1>8 DEF ExecutorInv, PlaceInv, Workers
<1>10. StopInv'
  <2>1. "idle" # "abandon" /\ "idle" # "acquired"
    OBVIOUS
  <2>2. \A v \in Workers : pc'[v] = "abandon" \/ (pc'[v] = "acquired"
        /\ idx'[v] = kInvalidIdx) => Stopped
    BY <1>4, <1>8, <2>1 DEF ExecutorInv, StopInv
  <2> QED BY <1>5, <2>2, SameStopInv
<1>11. ASSUME NEW s \in Stages, Covered(x, s, w)
       PROVE  Covered(x, s, w)'
  <2> DEFINE n == Len(stage_work_queue[s])
             c == work_counter[x]
             a == One(pc[x] \in {"check", "acquire"})
  <2>1. n \in Nat /\ c \in Int /\ a \in Nat
    BY <1>3, StageLengths, WorkerTypes DEF One
  <2>2. pc'[x] = pc[x] /\ pc'[w] = "idle" /\ work_counter'[x] = c + 1
    BY <1>2, <1>3, <1>4
  <2>3. One(pc[w] = "post") = 1 /\ One(pc'[w] = "post") = 0
    BY <1>1, <2>2 DEF One
  <2>4. ~Stopped => c >= 0 /\ n >= c + a + 1
    BY <1>11, <2>3 DEF Covered
  <2>5. pc[x] = "acquire" => stage_work_queue[s] # <<>>
    BY <1>11 DEF Covered
  <2> HIDE DEF n, c, a
  <2>6. ~Stopped => c + 1 >= 0 /\ n >= (c + 1) + a + 0
    BY <2>1, <2>4, SMT
  <2> QED BY <1>6, <1>8, <2>2, <2>3, <2>5, <2>6 DEF Covered, n, a
<1>12. Covered("mixed", "MIXED", "cpu")'
  <2>1. CASE w = "cpu" /\ x = "mixed"
    BY <1>11, <2>1, WorkerTypes DEF ExecutorInv, WorkInv
  <2>2. CASE w = "mixed" /\ x = "gpu"
    <3>1. pc'["mixed"] = "idle" /\ pc'["cpu"] = pc["cpu"] /\ work_counter'["mixed"] = work_counter["mixed"]
      BY <1>4, <2>2 DEF Workers
    <3> QED BY <1>6, <1>8, <3>1, WorkerTypes, StaysCovered DEF ExecutorInv, WorkInv
  <2> QED BY <1>2, <2>1, <2>2
<1>13. Covered("gpu", "GPU", "mixed")'
  <2>1. CASE w = "mixed" /\ x = "gpu"
    BY <1>11, <2>1, WorkerTypes DEF ExecutorInv, WorkInv
  <2>2. CASE w = "cpu" /\ x = "mixed"
    <3>1. pc'["gpu"] = pc["gpu"] /\ pc'["mixed"] = pc["mixed"] /\ work_counter'["gpu"] = work_counter["gpu"]
      BY <1>4, <2>2 DEF Workers
    <3> QED BY <1>6, <1>8, <3>1, WorkerTypes, StaysCovered DEF ExecutorInv, WorkInv
  <2> QED BY <1>2, <2>1, <2>2
<1>14. CounterInv'
  <2>1. /\ pc["cpu"] # "begin" => pc'["cpu"] # "begin"
        /\ pc["cpu"] = "begin" => pc'["cpu"] = "begin"
        /\ pc'["cpu"] = "acquire" => pc["cpu"] = "acquire"
        /\ work_counter'["cpu"] = work_counter["cpu"]
    BY <1>1, <1>2, <1>4 DEF Workers
  <2>2. One(pc'["cpu"] = "begin") = One(pc["cpu"] = "begin")
    BY <2>1 DEF One
  <2> QED BY <1>8, <2>1, <2>2 DEF ExecutorInv, WorkInv, CounterInv
<1> QED BY <1>6, <1>7, <1>9, <1>10, <1>12, <1>13, <1>14 DEF ExecutorInv, TypeOK, WorkInv

-----------------------------------------------------------------------------
(* The steps that move an index *)

\* A stage takes the front of its queue.
LEMMA AcquireIdxsInv ==
  ASSUME ExecutorInv, NEW w \in Workers, AcquireIdxs(w)
  PROVE  ExecutorInv'
<1>20. PICK s \in Stages : s = at[w]
  BY WorkerTypes
<1>1. /\ UNCHANGED <<free_queue, ready_queue, in_use_queue, stops, work_counter, tasks, running, at,
                     exec_error, errors, asleep, signal, user, batch>>
      /\ pc[w] = "acquire" /\ s # "SUPPORT" /\ pc' = [pc EXCEPT ![w] = "acquired"]
      /\ \/ /\ stage_work_stop[s] /\ idx' = [idx EXCEPT ![w] = kInvalidIdx]
            /\ stage_work_queue' = stage_work_queue
         \/ /\ stage_work_queue[s] # <<>>
            /\ idx' = [idx EXCEPT ![w] = Head(stage_work_queue[s])]
            /\ stage_work_queue' = [stage_work_queue EXCEPT ![s] = Tail(stage_work_queue[s])]
  BY <1>20 DEF AcquireIdxs, Goto
<1>2. (w = "cpu" /\ s = "CPU") \/ (w = "mixed" /\ s = "MIXED") \/ (w = "gpu" /\ s = "GPU")
  BY <1>1, <1>20 DEF ExecutorInv, PlaceInv, Workers
<1>3. s \in Stages /\ "acquired" \in Positions
  BY <1>2 DEF Stages, Positions
<1>4. pc' \in [Workers -> Positions] /\ \A v \in Workers : pc'[v] = IF v = w THEN "acquired" ELSE pc[v]
  BY <1>1, <1>3, Moved
<1>5. stops' = stops /\ exec_error' = exec_error /\ signal' = signal /\ errors' = errors
  BY <1>1
<1>6. StopType' /\ (Stopped' <=> Stopped)
  BY <1>5, SameFlags
<1>7. \/ /\ Stopped /\ idx' = [idx EXCEPT ![w] = kInvalidIdx]
         /\ stage_work_queue' = stage_work_queue
      \/ /\ stage_work_queue[s] # <<>>
         /\ idx' = [idx EXCEPT ![w] = Head(stage_work_queue[s])]
         /\ stage_work_queue' = [stage_work_queue EXCEPT ![s] = Tail(stage_work_queue[s])]
  BY <1>1, <1>3 DEF ExecutorInv, StopInv, Stopped
<1>8. /\ stage_work_queue' \in [Stages -> Seq(Indices)]
      /\ \A r \in Stages : r # s => stage_work_queue'[r] = stage_work_queue[r]
      /\ Stopped \/ Len(stage_work_queue'[s]) = Len(stage_work_queue[s]) - 1
  <2>1. stage_work_queue \in [Stages -> Seq(Indices)]
    BY WorkerTypes
  <2>2. stage_work_queue[s] # <<>> =>
          /\ Tail(stage_work_queue[s]) \in Seq(Indices)
          /\ Len(Tail(stage_work_queue[s])) = Len(stage_work_queue[s]) - 1
    BY <1>3, <2>1, QueueFacts
  <2> DEFINE q == Tail(stage_work_queue[s])
  <2>3. CASE Stopped /\ stage_work_queue' = stage_work_queue
    BY <2>1, <2>3
  <2>4. CASE q \in Seq(Indices) /\ stage_work_queue' = [stage_work_queue EXCEPT ![s] = q]
    <3> HIDE DEF q
    <3>1. /\ stage_work_queue' \in [Stages -> Seq(Indices)]
          /\ \A r \in Stages : stage_work_queue'[r] = IF r = s THEN q ELSE stage_work_queue[r]
      BY <2>1, <2>4
    <3> QED BY <1>3, <1>7, <2>2, <3>1 DEF q
  <2> QED BY <1>7, <2>2, <2>3, <2>4
<1>9. /\ idx' \in [Workers -> Indices \cup {kInvalidIdx}]
      /\ \A v \in Workers : v # w => idx'[v] = idx[v]
      /\ Stopped \/ idx'[w] # kInvalidIdx
  <2>1. CASE Stopped /\ idx' = [idx EXCEPT ![w] = kInvalidIdx]
    <3>1. kInvalidIdx \in Indices \cup {kInvalidIdx}
      OBVIOUS
    <3> QED BY <2>1, <3>1, Holding
  <2>2. CASE stage_work_queue[s] # <<>> /\ idx' = [idx EXCEPT ![w] = Head(stage_work_queue[s])]
    <3>1. Head(stage_work_queue[s]) \in Indices
      BY <1>3, <2>2, StageLengths, QueueFacts
    <3>2. Head(stage_work_queue[s]) \in Indices \cup {kInvalidIdx}
          /\ Head(stage_work_queue[s]) # kInvalidIdx
      BY <3>1, SMT DEF Indices, kInvalidIdx
    <3> QED BY <2>2, <3>2, Holding
  <2> QED BY <1>7, <2>1, <2>2
<1>10. /\ at' = at /\ work_counter' = work_counter /\ tasks' = tasks /\ cpu_runs' = cpu_runs
       /\ asleep' = asleep
  BY <1>1 DEF user
<1>11. QueueType' /\ SleepType' /\ WorkerType' /\ UserType'
  BY <1>1, <1>4, <1>8, <1>9 DEF ExecutorInv, TypeOK, QueueType, SleepType, WorkerType, UserType, user
<1>12. PlaceInv'
  <2>1. PlaceInv
    BY DEF ExecutorInv
  <2> QED BY <1>4, <1>9, <1>10, <2>1, SMTT(30) DEF PlaceInv, Workers
<1>13. StopInv'
  <2>1. \A v \in Workers : pc'[v] = "abandon" \/ (pc'[v] = "acquired"
        /\ idx'[v] = kInvalidIdx) => Stopped
    <3>1. "acquired" # "abandon"
      OBVIOUS
    <3> QED BY <1>4, <1>9, <3>1 DEF ExecutorInv, StopInv
  <2> QED BY <1>5, <2>1, SameStopInv
<1>14. ASSUME NEW u \in Workers, u # w, Covered(w, s, u)
       PROVE  Covered(w, s, u)'
  <2> DEFINE n == Len(stage_work_queue[s])
             c == work_counter[w]
             b == One(pc[u] = "post")
  <2>1. n \in Nat /\ c \in Int /\ b \in Nat
    BY <1>3, StageLengths, WorkerTypes DEF One
  <2>2. pc'[w] = "acquired" /\ pc'[u] = pc[u] /\ work_counter'[w] = c
    BY <1>4, <1>10, <1>14
  <2>3. One(pc[w] \in {"check", "acquire"}) = 1 /\ One(pc'[w] \in {"check", "acquire"}) = 0
    BY <1>1, <2>2 DEF One
  <2>4. ~Stopped => c >= 0 /\ n >= c + 1 + b
    BY <1>14, <2>3 DEF Covered
  <2> HIDE DEF n, c, b
  <2>5. ~Stopped => c >= 0 /\ n - 1 >= c + 0 + b
    BY <2>1, <2>4, SMT
  <2>6. Stopped \/ Len(stage_work_queue'[s]) = n - 1
    BY <1>8 DEF n
  <2>7. "acquired" # "acquire"
    OBVIOUS
  <2> QED BY <1>6, <2>2, <2>3, <2>5, <2>6, <2>7 DEF Covered, b
<1>15. "acquired" # "acquire" /\ "acquired" # "post" /\ "acquired" # "check" /\ "acquired" # "begin"
  OBVIOUS
<1>16. ASSUME NEW v \in Workers, NEW u \in Workers, NEW r \in Stages, r # s, v # w, Covered(v, r, u)
       PROVE  Covered(v, r, u)'
  <2>1. pc'[v] = pc[v] /\ (pc'[u] = "post" => pc[u] = "post") /\ stage_work_queue'[r] = stage_work_queue[r]
    BY <1>4, <1>8, <1>15, <1>16
  <2> QED BY <1>6, <1>10, <1>16, <2>1, StaysCovered
<1>17. Covered("mixed", "MIXED", "cpu")'
  <2>1. CASE w = "mixed" /\ s = "MIXED"
    <3>1. "cpu" # "mixed" /\ Covered("mixed", "MIXED", "cpu")
      BY DEF ExecutorInv, WorkInv
    <3> QED BY <1>14, <2>1, <3>1, WorkerTypes
  <2>2. CASE w # "mixed" /\ s # "MIXED"
    BY <1>16, <2>2, WorkerTypes DEF ExecutorInv, WorkInv
  <2> QED BY <1>2, <2>1, <2>2
<1>18. Covered("gpu", "GPU", "mixed")'
  <2>1. CASE w = "gpu" /\ s = "GPU"
    <3>1. "mixed" # "gpu" /\ Covered("gpu", "GPU", "mixed")
      BY DEF ExecutorInv, WorkInv
    <3> QED BY <1>14, <2>1, <3>1, WorkerTypes
  <2>2. CASE w # "gpu" /\ s # "GPU"
    BY <1>16, <2>2, WorkerTypes DEF ExecutorInv, WorkInv
  <2> QED BY <1>2, <2>1, <2>2
<1>19. CounterInv'
  <2>1. /\ One(pc'["cpu"] = "begin") = One(pc["cpu"] = "begin")
        /\ pc'["cpu"] = "acquire" => pc["cpu"] = "acquire" /\ w # "cpu"
    BY <1>1, <1>4, <1>15 DEF One, Workers
  <2>2. w # "cpu" => stage_work_queue'["CPU"] = stage_work_queue["CPU"]
    BY <1>2, <1>8 DEF Stages
  <2> QED BY <1>10, <2>1, <2>2 DEF ExecutorInv, WorkInv, CounterInv
<1> QED BY <1>6, <1>11, <1>12, <1>13, <1>17, <1>18, <1>19 DEF ExecutorInv, TypeOK, WorkInv

\* The SUPPORT stage takes a free index; no other stage has a part in it.
LEMMA AcquireFreeInv ==
  ASSUME ExecutorInv, AcquireFree
  PROVE  ExecutorInv'
<1>1. /\ UNCHANGED <<ready_queue, in_use_queue, stage_work_queue, stops, work_counter, tasks, running,
                     at, exec_error, errors, asleep, signal, user>>
      /\ pc["cpu"] = "acquire" /\ at["cpu"] = "SUPPORT"
      /\ \/ /\ stage_work_stop["SUPPORT"]
            /\ idx' = [idx EXCEPT !["cpu"] = kInvalidIdx] /\ pc' = [pc EXCEPT !["cpu"] = "acquired"]
            /\ free_queue' = free_queue /\ batch' = batch
         \/ /\ free_queue # <<>>
            /\ idx' = [idx EXCEPT !["cpu"] = Head(free_queue)] /\ pc' = [pc EXCEPT !["cpu"] = "acquired"]
            /\ free_queue' = Tail(free_queue)
            /\ batch' = [batch EXCEPT ![Head(free_queue)] = cpu_runs - tasks["cpu"]]
         \/ /\ pc' = [pc EXCEPT !["cpu"] = "window"] /\ free_queue' = free_queue
            /\ idx' = idx /\ batch' = batch
  BY DEF AcquireFree, Goto
<1>2. "acquired" \in Positions /\ "window" \in Positions /\ "cpu" \in Workers
  BY DEF Positions, Workers
<1>3. PICK p \in {"acquired", "window"} : pc' = [pc EXCEPT !["cpu"] = p]
  BY <1>1
<1>4. pc' \in [Workers -> Positions] /\ \A v \in Workers : pc'[v] = IF v = "cpu" THEN p ELSE pc[v]
  BY <1>2, <1>3, Moved
<1>5. stops' = stops /\ exec_error' = exec_error /\ signal' = signal /\ errors' = errors
  BY <1>1
<1>6. StopType' /\ (Stopped' <=> Stopped)
  BY <1>5, SameFlags
<1>7. /\ free_queue \in Seq(Indices) /\ batch \in [Indices -> Nat]
      /\ cpu_runs \in Nat /\ tasks["cpu"] \in Nat /\ tasks["cpu"] <= cpu_runs
  BY <1>2 DEF ExecutorInv, TypeOK, QueueType, UserType, WorkerType, WorkInv, CounterInv
<1>8. free_queue # <<>> => Head(free_queue) \in Indices /\ Tail(free_queue) \in Seq(Indices)
  BY <1>7, QueueFacts
<1>9. cpu_runs - tasks["cpu"] \in Nat
  BY <1>7, SMT
<1>10. free_queue' \in Seq(Indices) /\ batch' \in [Indices -> Nat]
  <2> DEFINE i == Head(free_queue)
             n == cpu_runs - tasks["cpu"]
  <2>1. CASE free_queue' = free_queue /\ batch' = batch
    BY <1>7, <2>1
  <2>2. CASE free_queue # <<>> /\ free_queue' = Tail(free_queue) /\ batch' = [batch EXCEPT ![i] = n]
    <3>1. n \in Nat /\ batch \in [Indices -> Nat]
      BY <1>7, <1>9
    <3> HIDE DEF i, n
    <3>2. batch' \in [Indices -> Nat]
      BY <2>2, <3>1
    <3> QED BY <1>8, <2>2, <3>2
  <2> QED BY <1>1, <2>1, <2>2
<1>11. /\ idx' \in [Workers -> Indices \cup {kInvalidIdx}]
       /\ \A v \in Workers : v # "cpu" => idx'[v] = idx[v]
       /\ pc' = [pc EXCEPT !["cpu"] = "acquired"] => Stopped \/ idx'["cpu"] # kInvalidIdx
  <2>1. CASE stage_work_stop["SUPPORT"] /\ idx' = [idx EXCEPT !["cpu"] = kInvalidIdx]
    <3>1. kInvalidIdx \in Indices \cup {kInvalidIdx}
      OBVIOUS
    <3>2. Stopped
      BY <2>1, WorkerTypes DEF ExecutorInv, StopInv, Stopped
    <3> QED BY <1>2, <2>1, <3>1, <3>2, Holding
  <2>2. CASE free_queue # <<>> /\ idx' = [idx EXCEPT !["cpu"] = Head(free_queue)]
    <3>1. Head(free_queue) \in Indices \cup {kInvalidIdx} /\ Head(free_queue) # kInvalidIdx
      BY <1>8, <2>2, SMT DEF Indices, kInvalidIdx
    <3> QED BY <1>2, <2>2, <3>1, Holding
  <2>3. CASE pc' = [pc EXCEPT !["cpu"] = "window"] /\ idx' = idx
    <3>1. pc'["cpu"] = "window"
      BY <2>3, WorkerTypes
    <3>2. pc' # [pc EXCEPT !["cpu"] = "acquired"]
      BY <3>1, WorkerTypes
    <3> QED BY <2>3, <3>2, WorkerTypes
  <2> QED BY <1>1, <2>1, <2>2, <2>3
<1>12. /\ at' = at /\ work_counter' = work_counter /\ tasks' = tasks /\ cpu_runs' = cpu_runs
       /\ asleep' = asleep /\ stage_work_queue' = stage_work_queue
  BY <1>1 DEF user
<1>13. QueueType' /\ SleepType' /\ WorkerType' /\ UserType'
  BY <1>1, <1>4, <1>10, <1>11 DEF ExecutorInv, TypeOK, QueueType, SleepType, WorkerType, UserType, user
<1>14. PlaceInv'
  <2>1. PlaceInv
    BY DEF ExecutorInv
  <2> QED BY <1>1, <1>3, <1>4, <1>11, <1>12, <2>1, SMT DEF PlaceInv, Workers
<1>15. StopInv'
  <2>1. "acquired" # "abandon" /\ "window" # "abandon" /\ "window" # "acquired"
    OBVIOUS
  <2>2. \A v \in Workers : pc'[v] = "abandon" \/ (pc'[v] = "acquired"
        /\ idx'[v] = kInvalidIdx) => Stopped
    BY <1>3, <1>4, <1>11, <2>1 DEF ExecutorInv, StopInv
  <2> QED BY <1>5, <2>2, SameStopInv
<1>16. pc'["mixed"] = pc["mixed"] /\ pc'["gpu"] = pc["gpu"] /\ pc'["cpu"] = p
  BY <1>4 DEF Workers
<1>17. p # "post" /\ p # "acquire" /\ p # "begin"
  BY <1>3
<1>18. Covered("mixed", "MIXED", "cpu")'
  BY <1>6, <1>12, <1>16, <1>17, WorkerTypes, StaysCovered DEF ExecutorInv, WorkInv
<1>19. Covered("gpu", "GPU", "mixed")'
  BY <1>6, <1>12, <1>16, WorkerTypes, StaysCovered DEF ExecutorInv, WorkInv
<1>20. CounterInv'
  <2>1. One(pc'["cpu"] = "begin") = One(pc["cpu"] = "begin")
    BY <1>1, <1>16, <1>17 DEF One
  <2> QED BY <1>12, <1>16, <1>17, <2>1 DEF ExecutorInv, WorkInv, CounterInv
<1> QED BY <1>6, <1>13, <1>14, <1>15, <1>18, <1>19, <1>20 DEF ExecutorInv, TypeOK, WorkInv

\* A stage passes its index on before the unit of the counter that goes with it.
LEMMA ReleaseIdxsInv ==
  ASSUME ExecutorInv, NEW w \in Workers, ReleaseIdxs(w)
  PROVE  ExecutorInv'
<1>1. PICK s \in Stages : s = at[w]
  BY WorkerTypes
<1>2. \/ w = "cpu" /\ s = "SUPPORT" /\ NextStage[s] = "CPU"
      \/ w = "cpu" /\ s = "CPU" /\ NextStage[s] = "MIXED"
      \/ w = "mixed" /\ s = "MIXED" /\ NextStage[s] = "GPU"
  <2>1. s # "GPU" /\ PlaceInv
    BY <1>1 DEF ReleaseIdxs, ExecutorInv
  <2> QED BY <1>1, <2>1, SMT DEF PlaceInv, NextStage, Workers
<1>3. PICK r \in Stages : r = NextStage[s]
  BY <1>2 DEF Stages
<1>4. PICK p \in {"acquire", "post"} :
        /\ pc' = [pc EXCEPT ![w] = p]
        /\ p = "acquire" <=> s = "SUPPORT" /\ pc[w] = "release"
        /\ at' = IF p = "acquire" THEN [at EXCEPT ![w] = "CPU"] ELSE at
  <2>1. CASE s = "SUPPORT" /\ pc[w] = "release"
    BY <1>1, <2>1 DEF ReleaseIdxs, Goto
  <2>2. CASE ~(s = "SUPPORT" /\ pc[w] = "release")
    <3>1. "post" # "acquire"
      OBVIOUS
    <3> QED BY <1>1, <2>2, <3>1 DEF ReleaseIdxs, Goto
  <2> QED BY <2>1, <2>2
<1>5. /\ UNCHANGED <<free_queue, ready_queue, in_use_queue, stops, work_counter, tasks, running,
                     exec_error, errors, asleep, signal, user, batch>>
      /\ pc[w] \in {"release", "abandon"} /\ idx' = [idx EXCEPT ![w] = kInvalidIdx]
      /\ idx[w] = kInvalidIdx => stage_work_queue' = stage_work_queue
      /\ idx[w] # kInvalidIdx =>
           stage_work_queue' = [stage_work_queue EXCEPT ![r] = Append(stage_work_queue[r], idx[w])]
  BY <1>1, <1>3 DEF ReleaseIdxs
<1>6. p \in Positions /\ kInvalidIdx \in Indices \cup {kInvalidIdx}
  BY <1>4 DEF Positions
<1>7. /\ pc' \in [Workers -> Positions] /\ \A v \in Workers : pc'[v] = IF v = w THEN p ELSE pc[v]
      /\ idx' \in [Workers -> Indices \cup {kInvalidIdx}]
      /\ \A v \in Workers : idx'[v] = IF v = w THEN kInvalidIdx ELSE idx[v]
  BY <1>4, <1>5, <1>6, Moved, Holding
<1>8. stops' = stops /\ exec_error' = exec_error /\ signal' = signal /\ errors' = errors
  BY <1>5
<1>9. StopType' /\ (Stopped' <=> Stopped)
  BY <1>8, SameFlags
<1>10. Stopped \/ (pc[w] = "release" /\ idx[w] # kInvalidIdx)
  BY <1>5 DEF ExecutorInv, PlaceInv, StopInv
<1>11. /\ stage_work_queue' \in [Stages -> Seq(Indices)]
       /\ \A x \in Stages : stage_work_queue'[x] = IF x = r /\ idx[w] # kInvalidIdx
                                                   THEN Append(stage_work_queue[x], idx[w])
                                                   ELSE stage_work_queue[x]
  <2>1. stage_work_queue \in [Stages -> Seq(Indices)]
    BY WorkerTypes
  <2>2. CASE idx[w] = kInvalidIdx
    BY <1>5, <2>1, <2>2
  <2>3. CASE idx[w] # kInvalidIdx
    <3> DEFINE q == Append(stage_work_queue[r], idx[w])
    <3>1. idx[w] \in Indices
      BY <2>3, WorkerTypes
    <3>2. q \in Seq(Indices)
      BY <2>1, <3>1, QueueFacts
    <3> HIDE DEF q
    <3>3. stage_work_queue' = [stage_work_queue EXCEPT ![r] = q]
      BY <1>5, <2>3 DEF q
    <3>4. /\ stage_work_queue' \in [Stages -> Seq(Indices)]
          /\ \A x \in Stages : stage_work_queue'[x] = IF x = r THEN q ELSE stage_work_queue[x]
      BY <2>1, <3>2, <3>3
    <3> QED BY <2>3, <3>4 DEF q
  <2> QED BY <2>2, <2>3
<1>12. ASSUME NEW x \in Stages
       PROVE  /\ Len(stage_work_queue[x]) \in Nat /\ Len(stage_work_queue'[x]) \in Nat
              /\ Len(stage_work_queue'[x]) >= Len(stage_work_queue[x])
              /\ stage_work_queue[x] # <<>> => stage_work_queue'[x] # <<>>
              /\ x = r /\ idx[w] # kInvalidIdx =>
                   Len(stage_work_queue'[x]) = Len(stage_work_queue[x]) + 1 /\ stage_work_queue'[x] # <<>>
  <2> DEFINE q == stage_work_queue[x]
  <2>1. q \in Seq(Indices) /\ Len(q) \in Nat
    BY StageLengths
  <2>2. CASE x = r /\ idx[w] # kInvalidIdx
    <3>1. idx[w] \in Indices /\ stage_work_queue'[x] = Append(q, idx[w])
      BY <1>11, <2>2, WorkerTypes
    <3> HIDE DEF q
    <3>2. Len(Append(q, idx[w])) = Len(q) + 1 /\ Append(q, idx[w]) # <<>>
      BY <2>1, <3>1, QueueFacts, SMTT(30)
    <3>3. Len(q) + 1 \in Nat /\ Len(q) + 1 >= Len(q)
      BY <2>1, SMT
    <3> QED BY <2>1, <3>1, <3>2, <3>3 DEF q
  <2>3. CASE ~(x = r /\ idx[w] # kInvalidIdx)
    <3>1. stage_work_queue'[x] = q
      BY <1>11, <2>3
    <3> HIDE DEF q
    <3>2. Len(q) >= Len(q)
      BY <2>1, SMT
    <3> QED BY <2>1, <2>3, <3>1, <3>2 DEF q
  <2> QED BY <2>2, <2>3
<1>13. /\ work_counter' = work_counter /\ tasks' = tasks /\ cpu_runs' = cpu_runs /\ asleep' = asleep
  BY <1>5 DEF user
<1>14. at' \in [Workers -> Stages] /\ \A v \in Workers : at'[v] = IF v = w /\ p = "acquire" THEN "CPU" ELSE at[v]
  <2>1. at \in [Workers -> Stages] /\ "CPU" \in Stages
    BY WorkerTypes
  <2> QED BY <1>4, <2>1
<1>15. QueueType' /\ SleepType' /\ WorkerType' /\ UserType'
  BY <1>5, <1>7, <1>11, <1>14 DEF ExecutorInv, TypeOK, QueueType, SleepType, WorkerType, UserType, user
<1>16. PlaceInv'
  <2>1. PlaceInv
    BY DEF ExecutorInv
  <2> QED BY <1>1, <1>2, <1>4, <1>7, <1>14, <2>1, SMT DEF PlaceInv, Workers
<1>17. StopInv'
  <2>1. p # "abandon" /\ p # "acquired"
    BY <1>4
  <2>2. \A v \in Workers : pc'[v] = "abandon" \/ (pc'[v] = "acquired"
        /\ idx'[v] = kInvalidIdx) => Stopped
    BY <1>7, <2>1 DEF ExecutorInv, StopInv
  <2> QED BY <1>8, <2>2, SameStopInv
\* the thread that passes an index on has no work of its own in hand
<1>18. ASSUME NEW x \in Stages, NEW v \in Workers, v # w, Covered(v, x, w),
              Stopped \/ p = "acquire" \/ x = r
       PROVE  Covered(v, x, w)'
  <2> DEFINE n == Len(stage_work_queue[x])
             m == Len(stage_work_queue'[x])
             c == work_counter[v]
             a == One(pc[v] \in {"check", "acquire"})
             b == One(p = "post")
  <2>1. n \in Nat /\ m \in Nat /\ m >= n /\ c \in Int /\ a \in Nat
    BY <1>12, WorkerTypes DEF One
  <2>2. pc'[v] = pc[v] /\ pc'[w] = p /\ work_counter'[v] = c
    BY <1>7, <1>13, <1>18
  <2>3. One(pc[w] = "post") = 0 /\ b \in Nat /\ (b = 1 \/ b = 0) /\ (p = "acquire" => b = 0)
    BY <1>5 DEF One
  <2>4. (~Stopped => c >= 0 /\ n >= c + a + 0) /\ (pc[v] = "acquire" => stage_work_queue[x] # <<>>)
    BY <1>18, <2>3 DEF Covered
  <2>5. Stopped \/ b = 0 \/ m = n + 1
    BY <1>10, <1>12, <1>18, <2>3
  <2>6. pc[v] = "acquire" => stage_work_queue'[x] # <<>>
    BY <1>12, <2>4
  <2> HIDE DEF n, m, c, a, b
  <2>7. ~Stopped => c >= 0 /\ m >= c + a + b
    BY <2>1, <2>3, <2>4, <2>5, SMTT(30)
  <2> QED BY <1>9, <2>2, <2>6, <2>7 DEF Covered, m, a, b
<1>19. ASSUME NEW x \in Stages, NEW u \in Workers, u # w, Covered(w, x, u), p = "post"
       PROVE  Covered(w, x, u)'
  <2> DEFINE n == Len(stage_work_queue[x])
             m == Len(stage_work_queue'[x])
             c == work_counter[w]
             b == One(pc[u] = "post")
  <2>1. n \in Nat /\ m \in Nat /\ m >= n /\ c \in Int /\ b \in Nat
    BY <1>12, WorkerTypes DEF One
  <2>2. pc'[w] = "post" /\ pc'[u] = pc[u] /\ work_counter'[w] = c
    BY <1>7, <1>13, <1>19
  <2>3. One(pc[w] \in {"check", "acquire"}) = 0 /\ One("post" \in {"check", "acquire"}) = 0
    BY <1>5 DEF One
  <2>4. ~Stopped => c >= 0 /\ n >= c + 0 + b
    BY <1>19, <2>3 DEF Covered
  <2>5. "post" # "acquire"
    OBVIOUS
  <2> HIDE DEF n, m, c, b
  <2>7. ~Stopped => c >= 0 /\ m >= c + 0 + b
    BY <2>1, <2>4, SMT
  <2> QED BY <1>9, <2>2, <2>3, <2>5, <2>7 DEF Covered, m, b
<1>20. ASSUME NEW x \in Stages, NEW u \in Workers, NEW v \in Workers, x # r, u # w, v # w, Covered(v, x, u)
       PROVE  Covered(v, x, u)'
  <2>1. pc'[v] = pc[v] /\ pc'[u] = pc[u] /\ stage_work_queue'[x] = stage_work_queue[x]
    BY <1>7, <1>11, <1>20
  <2> QED BY <1>9, <1>13, <1>20, <2>1, StaysCovered
<1>21. "cpu" # "mixed" /\ "cpu" # "gpu" /\ "mixed" # "gpu"
  OBVIOUS
<1>22. Covered("mixed", "MIXED", "cpu")'
  <2>1. Covered("mixed", "MIXED", "cpu")
    BY DEF ExecutorInv, WorkInv
  <2>2. CASE w = "cpu"
    <3>1. Stopped \/ p = "acquire" \/ "MIXED" = r
      BY <1>2, <1>3, <1>4, <1>10, <2>2
    <3> QED BY <1>18, <1>21, <2>1, <2>2, <3>1, WorkerTypes
  <2>3. CASE w = "mixed"
    <3>1. p = "post"
      BY <1>2, <1>4, <2>3
    <3> QED BY <1>19, <1>21, <2>1, <2>3, <3>1, WorkerTypes
  <2> QED BY <1>2, <2>2, <2>3
<1>23. Covered("gpu", "GPU", "mixed")'
  <2>1. Covered("gpu", "GPU", "mixed")
    BY DEF ExecutorInv, WorkInv
  <2>2. CASE w = "cpu"
    <3>1. "GPU" # r
      BY <1>2, <1>3, <2>2
    <3> QED BY <1>20, <1>21, <2>1, <2>2, <3>1, WorkerTypes
  <2>3. CASE w = "mixed"
    <3>1. "GPU" = r
      BY <1>2, <1>3, <2>3
    <3> QED BY <1>18, <1>21, <2>1, <2>3, <3>1, WorkerTypes
  <2> QED BY <1>2, <2>2, <2>3
<1>24. CounterInv'
  <2>1. pc'["cpu"] = "begin" <=> pc["cpu"] = "begin"
    BY <1>4, <1>5, <1>7 DEF Workers
  <2>2. One(pc'["cpu"] = "begin") = One(pc["cpu"] = "begin")
    BY <2>1 DEF One
  <2>3. CASE w = "cpu"
    <3>1. pc'["cpu"] = p /\ (p = "acquire" => r = "CPU" /\ idx["cpu"] # kInvalidIdx)
      <4>1. p = "acquire" => pc["cpu"] = "release" /\ s = "SUPPORT"
        BY <1>4, <2>3
      <4>2. pc["cpu"] = "release" => idx["cpu"] # kInvalidIdx
        BY WorkerTypes DEF ExecutorInv, PlaceInv
      <4>3. s = "SUPPORT" => r = "CPU"
        BY <1>2, <1>3
      <4> QED BY <1>7, <2>3, <4>1, <4>2, <4>3
    <3>2. pc'["cpu"] = "acquire" => stage_work_queue'["CPU"] # <<>>
      BY <1>12, <2>3, <3>1, WorkerTypes
    <3> QED BY <1>13, <2>2, <3>2 DEF ExecutorInv, WorkInv, CounterInv
  <2>4. CASE w # "cpu"
    <3>1. pc'["cpu"] = pc["cpu"] /\ at'["cpu"] = at["cpu"]
      BY <1>7, <1>14, <2>4, WorkerTypes
    <3>2. stage_work_queue["CPU"] # <<>> => stage_work_queue'["CPU"] # <<>>
      BY <1>12, WorkerTypes
    <3> QED BY <1>13, <2>2, <3>1, <3>2 DEF ExecutorInv, WorkInv, CounterInv
  <2> QED BY <2>3, <2>4
<1> QED BY <1>9, <1>15, <1>16, <1>17, <1>22, <1>23, <1>24 DEF ExecutorInv, TypeOK, WorkInv

\* RunGPU queues the output.
LEMMA QueueOutputIdxsInv ==
  ASSUME ExecutorInv, QueueOutputIdxs
  PROVE  ExecutorInv'
<1>1. /\ UNCHANGED <<free_queue, in_use_queue, stage_work_queue, stops, work_counter, tasks, running,
                     at, exec_error, errors, signal, user, batch>>
      /\ pc["gpu"] \in {"release", "abandon"} /\ asleep' \subseteq asleep
      /\ \/ pc["gpu"] = "release" /\ ready_queue' = Append(ready_queue, idx["gpu"])
         \/ ready_queue' = ready_queue
      /\ idx' = [idx EXCEPT !["gpu"] = kInvalidIdx] /\ pc' = [pc EXCEPT !["gpu"] = "idle"]
  BY DEF QueueOutputIdxs, Goto
<1>2. "idle" \in Positions /\ kInvalidIdx \in Indices \cup {kInvalidIdx} /\ "gpu" \in Workers
  BY DEF Positions, Workers
<1>3. /\ pc' \in [Workers -> Positions] /\ \A v \in Workers : pc'[v] = IF v = "gpu" THEN "idle" ELSE pc[v]
      /\ idx' \in [Workers -> Indices \cup {kInvalidIdx}]
      /\ \A v \in Workers : idx'[v] = IF v = "gpu" THEN kInvalidIdx ELSE idx[v]
  BY <1>1, <1>2, Moved, Holding
<1>4. stops' = stops /\ exec_error' = exec_error /\ signal' = signal /\ errors' = errors
  BY <1>1
<1>5. StopType' /\ (Stopped' <=> Stopped) /\ SleepType'
  BY <1>1, <1>4, SameFlags, SameSleep
<1>6. ready_queue' \in Seq(Indices)
  <2>1. ready_queue \in Seq(Indices)
    BY DEF ExecutorInv, TypeOK, QueueType
  <2>2. pc["gpu"] = "release" => idx["gpu"] \in Indices
    BY <1>2, WorkerTypes DEF ExecutorInv, PlaceInv
  <2> QED BY <1>1, <2>1, <2>2, QueueFacts
<1>7. /\ at' = at /\ work_counter' = work_counter /\ tasks' = tasks /\ cpu_runs' = cpu_runs
      /\ stage_work_queue' = stage_work_queue
  BY <1>1 DEF user
<1>8. QueueType' /\ WorkerType' /\ UserType'
  BY <1>1, <1>3, <1>6 DEF ExecutorInv, TypeOK, QueueType, WorkerType, UserType, user
<1>9. PlaceInv'
  <2>1. PlaceInv
    BY DEF ExecutorInv
  <2> QED BY <1>3, <1>7, <2>1 DEF PlaceInv, Workers
<1>10. StopInv'
  <2>1. "idle" # "abandon" /\ "idle" # "acquired"
    OBVIOUS
  <2>2. \A v \in Workers : pc'[v] = "abandon" \/ (pc'[v] = "acquired"
        /\ idx'[v] = kInvalidIdx) => Stopped
    BY <1>3, <2>1 DEF ExecutorInv, StopInv
  <2> QED BY <1>4, <2>2, SameStopInv
<1>11. pc'["cpu"] = pc["cpu"] /\ pc'["mixed"] = pc["mixed"] /\ pc'["gpu"] = "idle"
  BY <1>3 DEF Workers
<1>12. Covered("mixed", "MIXED", "cpu")'
  BY <1>5, <1>7, <1>11, WorkerTypes, StaysCovered DEF ExecutorInv, WorkInv
<1>13. Covered("gpu", "GPU", "mixed")'
  BY <1>5, <1>7, <1>11, WorkerTypes, StaysCovered DEF ExecutorInv, WorkInv
<1>14. CounterInv'
  BY <1>7, <1>11 DEF ExecutorInv, WorkInv, CounterInv
<1> QED BY <1>5, <1>8, <1>9, <1>10, <1>12, <1>13, <1>14 DEF ExecutorInv, TypeOK, WorkInv

-----------------------------------------------------------------------------
(* SignalStop and the main thread *)

\* ready_stop is set before the stop flag of any stage.
LEMMA SignalStopInv ==
  ASSUME ExecutorInv, NEW t \in Threads, SignalStop(t)
  PROVE  ExecutorInv'
<1>1. /\ UNCHANGED <<queues, workers, exec_error, errors, user, batch>>
      /\ ready_stop' = (ready_stop \/ signal[t] = 1)
      /\ stage_work_stop' = [s \in Stages |-> stage_work_stop[s] \/
                               (signal[t] \in 2 .. 5 /\ StopOrder[signal[t] - 1] = s)]
      /\ asleep' \subseteq asleep
      /\ signal' = [signal EXCEPT ![t] = (signal[t] + 1) % 7]
  BY DEF SignalStop
<1>2. signal \in [Threads -> 0 .. 6] /\ \A u \in Threads : signal[u] >= 2 => ready_stop
  BY DEF ExecutorInv, TypeOK, StopType, StopInv
<1>3. signal[t] \in 0 .. 6 /\ (signal[t] >= 2 => ready_stop)
  BY <1>2
<1>4. /\ (signal[t] + 1) % 7 \in 0 .. 6
      /\ (signal[t] + 1) % 7 >= 2 => signal[t] = 1 \/ signal[t] >= 2
      /\ signal[t] \in 2 .. 5 => signal[t] >= 2
  BY <1>3, SMT
<1>5. /\ signal' \in [Threads -> 0 .. 6]
      /\ \A u \in Threads : signal'[u] = IF u = t THEN (signal[t] + 1) % 7 ELSE signal[u]
  <2> DEFINE n == (signal[t] + 1) % 7
  <2>1. n \in 0 .. 6 /\ signal' = [signal EXCEPT ![t] = n]
    BY <1>1, <1>4
  <2> HIDE DEF n
  <2>2. /\ signal' \in [Threads -> 0 .. 6]
        /\ \A u \in Threads : signal'[u] = IF u = t THEN n ELSE signal[u]
    BY <1>2, <2>1
  <2> QED BY <2>2 DEF n
<1>6. /\ ready_stop \in BOOLEAN /\ exec_error \in BOOLEAN /\ errors \in BOOLEAN
      /\ stage_work_stop \in [Stages -> BOOLEAN] /\ \A s \in Stages : stage_work_stop[s] => ready_stop
  BY DEF ExecutorInv, TypeOK, StopType, StopInv
<1>7. \A u \in Threads : signal'[u] >= 2 => ready_stop'
  BY <1>1, <1>2, <1>3, <1>4, <1>5
<1>8. stage_work_stop' \in [Stages -> BOOLEAN] /\ \A s \in Stages : stage_work_stop'[s] => ready_stop'
  <2>1. signal[t] \in 2 .. 5 => ready_stop
    BY <1>3, <1>4
  <2> QED BY <1>1, <1>6, <2>1
<1>9. StopType'
  BY <1>1, <1>5, <1>6, <1>8 DEF StopType
<1>10. Stopped => Stopped'
  BY <1>1 DEF Stopped
<1>11. QueueType' /\ UserType' /\ running' \in [Workers -> BOOLEAN]
  BY <1>1 DEF ExecutorInv, TypeOK, QueueType, UserType, WorkerType, queues, user, workers
<1>12. UNCHANGED <<pc, at, idx, stage_work_queue, work_counter, tasks, cpu_runs>>
  BY <1>1 DEF queues, user, workers
<1> QED BY <1>1, <1>7, <1>8, <1>9, <1>10, <1>11, <1>12, SameSleep, UserStep

MainPositions == {"api", "use", "used", "throw", "rethrow", "thrown", "stop_cpu", "stop_mixed",
                  "stop_gpu", "notify_mixed", "notify_gpu", "join", "destroyed"}

\* The main thread changes none of the flags that the stages test.
LEMMA MainMoves ==
  ASSUME ExecutorInv, UNCHANGED <<stops, pc, at, idx, stage_work_queue, work_counter, tasks, cpu_runs, batch>>,
         QueueType', SleepType', running' \in [Workers -> BOOLEAN],
         signal' = signal \/ signal' = [signal EXCEPT !["main"] = 1],
         exec_error' = exec_error \/ exec_error' = TRUE, errors' = errors,
         main' \in MainPositions,
         gpu_runs' \in Nat, shared' \in Nat, released' \in Nat
  PROVE  ExecutorInv'
<1>1. /\ stage_work_stop' = stage_work_stop /\ ready_stop' = ready_stop
      /\ cpu_runs' = cpu_runs /\ batch' = batch
      /\ UNCHANGED <<pc, at, idx, stage_work_queue, work_counter, tasks, cpu_runs>>
  BY DEF stops
<1>2. signal \in [Threads -> 0 .. 6] /\ \A t \in Threads : signal[t] >= 2 => ready_stop
  BY DEF ExecutorInv, TypeOK, StopType, StopInv
<1>3. signal' \in [Threads -> 0 .. 6] /\ \A t \in Threads : signal'[t] >= 2 => ready_stop'
  BY <1>1, <1>2, SMTT(30) DEF Threads
<1>4. StopType' /\ (Stopped => Stopped') /\ \A s \in Stages : stage_work_stop'[s] => ready_stop'
  BY <1>1, <1>3 DEF ExecutorInv, TypeOK, StopType, Stopped, StopInv
<1>5. UserType'
  BY <1>1 DEF ExecutorInv, TypeOK, UserType, MainPositions
<1> QED BY <1>1, <1>3, <1>4, <1>5, UserStep

\* Asking for outputs reads the stop flags only.
LEMMA ShareOutputsInv ==
  ASSUME ExecutorInv, ShareOutputs
  PROVE  ExecutorInv'
<1>1. /\ queues' = queues /\ stops' = stops /\ workers' = workers /\ errors' = errors
      /\ cpu_runs' = cpu_runs /\ batch' = batch /\ gpu_runs' = gpu_runs /\ released' = released
      /\ asleep' = asleep
      /\ signal' = signal
      /\ exec_error' = exec_error
      /\ main' \in {"throw", "use"} /\ shared' = shared
  BY DEF ShareOutputs
<1>2. main' \in MainPositions
  BY <1>1 DEF MainPositions
<1>3. /\ QueueType' /\ running' \in [Workers -> BOOLEAN] /\ gpu_runs' \in Nat /\ released' \in Nat
      /\ UNCHANGED <<stops, pc, at, idx, stage_work_queue, work_counter, tasks, cpu_runs, batch>>
      /\ shared \in Nat
  BY <1>1 DEF ExecutorInv, TypeOK, QueueType, WorkerType, UserType, queues, workers
<1>4. shared' \in Nat
  BY <1>1, <1>3
<1> QED BY <1>1, <1>2, <1>3, <1>4, SameSleep, MainMoves

\* Nothing the stages rely on changes when ShareOutputs returns.
LEMMA ShareOutputsReturnInv ==
  ASSUME ExecutorInv, ShareOutputsReturn
  PROVE  ExecutorInv'
<1>1. /\ queues' = queues /\ stops' = stops /\ workers' = workers /\ errors' = errors
      /\ cpu_runs' = cpu_runs /\ batch' = batch /\ gpu_runs' = gpu_runs /\ released' = released
      /\ asleep' = asleep
      /\ signal' = signal
      /\ exec_error' = exec_error
      /\ main' \in {"throw", "api"} /\ (shared' = shared \/ shared' = shared + 1)
  BY DEF ShareOutputsReturn
<1>2. main' \in MainPositions
  BY <1>1 DEF MainPositions
<1>3. /\ QueueType' /\ running' \in [Workers -> BOOLEAN] /\ gpu_runs' \in Nat /\ released' \in Nat
      /\ UNCHANGED <<stops, pc, at, idx, stage_work_queue, work_counter, tasks, cpu_runs, batch>>
      /\ shared \in Nat
  BY <1>1 DEF ExecutorInv, TypeOK, QueueType, WorkerType, UserType, queues, workers
<1>4. shared' \in Nat
  BY <1>1, <1>3, SMT
<1> QED BY <1>1, <1>2, <1>3, <1>4, SameSleep, MainMoves

\* Outputs passes an error on to the threads.
LEMMA OutputsThrowInv ==
  ASSUME ExecutorInv, OutputsThrow
  PROVE  ExecutorInv'
<1>1. /\ queues' = queues /\ stops' = stops /\ workers' = workers /\ errors' = errors
      /\ cpu_runs' = cpu_runs /\ batch' = batch /\ gpu_runs' = gpu_runs /\ released' = released
      /\ asleep' \subseteq asleep
      /\ signal' = signal \/ signal' = [signal EXCEPT !["main"] = 1]
      /\ exec_error' = exec_error \/ exec_error' = TRUE
      /\ main' \in {"rethrow", "thrown"} /\ shared' = shared
  BY DEF OutputsThrow
<1>2. main' \in MainPositions
  BY <1>1 DEF MainPositions
<1>3. /\ QueueType' /\ running' \in [Workers -> BOOLEAN] /\ gpu_runs' \in Nat /\ released' \in Nat
      /\ UNCHANGED <<stops, pc, at, idx, stage_work_queue, work_counter, tasks, cpu_runs, batch>>
      /\ shared \in Nat
  BY <1>1 DEF ExecutorInv, TypeOK, QueueType, WorkerType, UserType, queues, workers
<1>4. shared' \in Nat
  BY <1>1, <1>3
<1> QED BY <1>1, <1>2, <1>3, <1>4, SameSleep, MainMoves

\* The error leaves the executor as it is.
LEMMA OutputsRethrowInv ==
  ASSUME ExecutorInv, OutputsRethrow
  PROVE  ExecutorInv'
<1>1. /\ queues' = queues /\ stops' = stops /\ workers' = workers /\ errors' = errors
      /\ cpu_runs' = cpu_runs /\ batch' = batch /\ gpu_runs' = gpu_runs /\ released' = released
      /\ asleep' = asleep
      /\ signal' = signal
      /\ exec_error' = exec_error
      /\ main' = "thrown" /\ shared' = shared
  BY DEF OutputsRethrow
<1>2. main' \in MainPositions
  BY <1>1 DEF MainPositions
<1>3. /\ QueueType' /\ running' \in [Workers -> BOOLEAN] /\ gpu_runs' \in Nat /\ released' \in Nat
      /\ UNCHANGED <<stops, pc, at, idx, stage_work_queue, work_counter, tasks, cpu_runs, batch>>
      /\ shared \in Nat
  BY <1>1 DEF ExecutorInv, TypeOK, QueueType, WorkerType, UserType, queues, workers
<1>4. shared' \in Nat
  BY <1>1, <1>3
<1> QED BY <1>1, <1>2, <1>3, <1>4, SameSleep, MainMoves

\* The destructor begins with ShutdownQueue.
LEMMA DestroyInv ==
  ASSUME ExecutorInv, Destroy
  PROVE  ExecutorInv'
<1>1. /\ queues' = queues /\ stops' = stops /\ workers' = workers /\ errors' = errors
      /\ cpu_runs' = cpu_runs /\ batch' = batch /\ gpu_runs' = gpu_runs /\ released' = released
      /\ asleep' = asleep
      /\ signal' = [signal EXCEPT !["main"] = 1]
      /\ exec_error' = exec_error
      /\ main' = "stop_cpu" /\ shared' = shared
  BY DEF Destroy
<1>2. main' \in MainPositions
  BY <1>1 DEF MainPositions
<1>3. /\ QueueType' /\ running' \in [Workers -> BOOLEAN] /\ gpu_runs' \in Nat /\ released' \in Nat
      /\ UNCHANGED <<stops, pc, at, idx, stage_work_queue, work_counter, tasks, cpu_runs, batch>>
      /\ shared \in Nat
  BY <1>1 DEF ExecutorInv, TypeOK, QueueType, WorkerType, UserType, queues, workers
<1>4. shared' \in Nat
  BY <1>1, <1>3
<1> QED BY <1>1, <1>2, <1>3, <1>4, SameSleep, MainMoves

\* The destructor returns.
LEMMA JoinInv ==
  ASSUME ExecutorInv, Join
  PROVE  ExecutorInv'
<1>1. /\ queues' = queues /\ stops' = stops /\ workers' = workers /\ errors' = errors
      /\ cpu_runs' = cpu_runs /\ batch' = batch /\ gpu_runs' = gpu_runs /\ released' = released
      /\ asleep' = asleep
      /\ signal' = signal
      /\ exec_error' = exec_error
      /\ main' = "destroyed" /\ shared' = shared
  BY DEF Join
<1>2. main' \in MainPositions
  BY <1>1 DEF MainPositions
<1>3. /\ QueueType' /\ running' \in [Workers -> BOOLEAN] /\ gpu_runs' \in Nat /\ released' \in Nat
      /\ UNCHANGED <<stops, pc, at, idx, stage_work_queue, work_counter, tasks, cpu_runs, batch>>
      /\ shared \in Nat
  BY <1>1 DEF ExecutorInv, TypeOK, QueueType, WorkerType, UserType, queues, workers
<1>4. shared' \in Nat
  BY <1>1, <1>3
<1> QED BY <1>1, <1>2, <1>3, <1>4, SameSleep, MainMoves

\* ForceStop takes nothing from a queue.
LEMMA ForceStopAndNotifyInv ==
  ASSUME ExecutorInv, ForceStopAndNotify
  PROVE  ExecutorInv'
<1>1. /\ UNCHANGED <<queues, stops, work_counter, tasks, pc, at, idx, exec_error, errors, signal,
                     cpu_runs, gpu_runs, shared, released, batch>>
      /\ \E i \in 1 .. 5 :
           /\ main' = DestroyOrder[i + 1]
           /\ running' = IF i <= 3 THEN [running EXCEPT ![WorkerOrder[i]] = FALSE] ELSE running
           /\ asleep' \subseteq asleep
  BY DEF ForceStopAndNotify
<1>2. PICK i \in 1 .. 5 :
        /\ main' = DestroyOrder[i + 1]
        /\ running' = IF i <= 3 THEN [running EXCEPT ![WorkerOrder[i]] = FALSE] ELSE running
        /\ asleep' \subseteq asleep
  BY <1>1
<1>3. main' \in MainPositions
  <2>1. i + 1 \in {2, 3, 4, 5, 6}
    BY <1>2, SMTT(30)
  <2> QED BY <1>2, <2>1, SMTT(30) DEF DestroyOrder, MainPositions
<1>4. /\ running \in [Workers -> BOOLEAN] /\ gpu_runs' \in Nat /\ released' \in Nat /\ shared' \in Nat
      /\ QueueType'
      /\ UNCHANGED <<stops, pc, at, idx, stage_work_queue, work_counter, tasks, cpu_runs, batch>>
      /\ exec_error' = exec_error /\ errors' = errors /\ signal' = signal
  BY <1>1 DEF ExecutorInv, TypeOK, QueueType, WorkerType, UserType, queues
<1>5. running' \in [Workers -> BOOLEAN]
  BY <1>2, <1>4
<1> QED BY <1>2, <1>3, <1>4, <1>5, SameSleep, MainMoves

\* A shared output moves from the ready to the used indices.
LEMMA UseOutputIdxsInv ==
  ASSUME ExecutorInv, UseOutputIdxs
  PROVE  ExecutorInv'
<1>1. /\ UNCHANGED <<free_queue, stage_work_queue, stops, workers, exec_error, errors, signal,
                     cpu_runs, gpu_runs, shared, released, batch>>
      /\ main = "use" /\ (main' = main \/ main' = "used")
      /\ asleep' = asleep \/ asleep' = asleep \cup {"ready"}
      /\ \/ ready_queue' = ready_queue /\ in_use_queue' = in_use_queue
         \/ /\ ready_queue # <<>> /\ ready_queue' = Tail(ready_queue)
            /\ in_use_queue' = Append(in_use_queue, Head(ready_queue))
  BY DEF UseOutputIdxs
<1>2. main' \in MainPositions
  BY <1>1 DEF MainPositions
<1>3. SleepType'
  BY <1>1 DEF ExecutorInv, TypeOK, SleepType
<1>4. /\ ready_queue \in Seq(Indices) /\ in_use_queue \in Seq(Indices)
      /\ free_queue' \in Seq(Indices) /\ stage_work_queue' \in [Stages -> Seq(Indices)]
  BY <1>1 DEF ExecutorInv, TypeOK, QueueType
<1>5. ready_queue' \in Seq(Indices) /\ in_use_queue' \in Seq(Indices)
  <2>1. ready_queue # <<>> => Head(ready_queue) \in Indices /\ Tail(ready_queue) \in Seq(Indices)
    BY <1>4, QueueFacts
  <2>2. ready_queue # <<>> => Append(in_use_queue, Head(ready_queue)) \in Seq(Indices)
    BY <1>4, <2>1, QueueFacts
  <2> QED BY <1>1, <1>4, <2>1, <2>2
<1>6. QueueType'
  BY <1>4, <1>5 DEF QueueType
<1>7. /\ UNCHANGED <<stops, pc, at, idx, stage_work_queue, work_counter, tasks, cpu_runs, batch>>
      /\ exec_error' = exec_error /\ errors' = errors /\ signal' = signal
      /\ running' \in [Workers -> BOOLEAN] /\ gpu_runs' \in Nat /\ released' \in Nat /\ shared' \in Nat
  BY <1>1 DEF ExecutorInv, TypeOK, WorkerType, UserType, workers
<1> QED BY <1>2, <1>3, <1>6, <1>7, MainMoves

\* A released output returns to the free indices.
LEMMA ReleaseOutputsInv ==
  ASSUME ExecutorInv, ReleaseOutputs
  PROVE  ExecutorInv'
<1>1. /\ UNCHANGED <<ready_queue, stage_work_queue, stops, workers, exec_error, errors, signal, main,
                     cpu_runs, gpu_runs, shared, batch>>
      /\ asleep' \subseteq asleep /\ released' = released + 1 /\ in_use_queue # <<>>
      /\ free_queue' = Append(free_queue, Head(in_use_queue)) /\ in_use_queue' = Tail(in_use_queue)
  BY DEF ReleaseOutputs
<1>2. main' \in MainPositions /\ released \in Nat
  BY <1>1 DEF ExecutorInv, TypeOK, UserType, MainPositions
<1>3. released' \in Nat
  BY <1>1, <1>2, SMTT(30)
<1>4. /\ free_queue \in Seq(Indices) /\ in_use_queue \in Seq(Indices)
      /\ ready_queue' \in Seq(Indices) /\ stage_work_queue' \in [Stages -> Seq(Indices)]
  BY <1>1 DEF ExecutorInv, TypeOK, QueueType
<1>5. free_queue' \in Seq(Indices) /\ in_use_queue' \in Seq(Indices)
  <2>1. Head(in_use_queue) \in Indices /\ Tail(in_use_queue) \in Seq(Indices)
    BY <1>1, <1>4, QueueFacts
  <2>2. Append(free_queue, Head(in_use_queue)) \in Seq(Indices)
    BY <1>4, <2>1, QueueFacts
  <2> QED BY <1>1, <2>1, <2>2
<1>6. QueueType'
  BY <1>4, <1>5 DEF QueueType
<1>7. /\ UNCHANGED <<stops, pc, at, idx, stage_work_queue, work_counter, tasks, cpu_runs, batch>>
      /\ exec_error' = exec_error /\ errors' = errors /\ signal' = signal
      /\ running' \in [Workers -> BOOLEAN] /\ gpu_runs' \in Nat /\ shared' \in Nat
  BY <1>1 DEF ExecutorInv, TypeOK, WorkerType, UserType, workers
<1> QED BY <1>1, <1>2, <1>3, <1>6, <1>7, SameSleep, MainMoves

\* RunCPU adds to the counter and to the work together.
LEMMA ScheduleCPUInv ==
  ASSUME ExecutorInv, ScheduleCPU
  PROVE  ExecutorInv'
<1>1. /\ UNCHANGED <<queues, stops, running, pc, at, idx, exec_error, errors, asleep, signal, main,
                     gpu_runs, shared, released, batch>>
      /\ cpu_runs' = cpu_runs + 1
      /\ work_counter' = [work_counter EXCEPT !["cpu"] = work_counter["cpu"] + 1]
      /\ tasks' = [tasks EXCEPT !["cpu"] = tasks["cpu"] + 1]
  BY DEF ScheduleCPU
<1>2. /\ work_counter["cpu"] \in Int /\ tasks["cpu"] \in Nat /\ cpu_runs \in Nat /\ "cpu" \in Workers
      /\ work_counter["cpu"] = tasks["cpu"] + One(pc["cpu"] = "begin") /\ tasks["cpu"] <= cpu_runs
  BY WorkerTypes DEF ExecutorInv, TypeOK, UserType, WorkInv, CounterInv
<1>3. work_counter["cpu"] + 1 \in Int /\ tasks["cpu"] + 1 \in Nat /\ cpu_runs + 1 \in Nat
  BY <1>2, SMT
<1>4. /\ work_counter' \in [Workers -> Int] /\ tasks' \in [Workers -> Nat] /\ cpu_runs' \in Nat
      /\ work_counter'["cpu"] = work_counter["cpu"] + 1 /\ tasks'["cpu"] = tasks["cpu"] + 1
      /\ \A v \in Workers : v # "cpu" => work_counter'[v] = work_counter[v]
  BY <1>1, <1>2, <1>3, Counted, Tasked
<1>5. stops' = stops /\ exec_error' = exec_error /\ signal' = signal /\ errors' = errors
  BY <1>1
<1>6. StopType' /\ (Stopped' <=> Stopped)
  BY <1>5, SameFlags
<1>7. QueueType' /\ SleepType' /\ WorkerType' /\ UserType'
  BY <1>1, <1>4 DEF ExecutorInv, TypeOK, QueueType, SleepType, WorkerType, UserType, queues
<1>8. pc' = pc /\ at' = at /\ idx' = idx /\ stage_work_queue' = stage_work_queue
  BY <1>1 DEF queues
<1>9. PlaceInv'
  BY <1>8 DEF ExecutorInv, PlaceInv
<1>10. StopInv'
  BY <1>5, <1>8, SameStopInv DEF ExecutorInv, StopInv
<1>11. "mixed" # "cpu" /\ "gpu" # "cpu"
  OBVIOUS
<1>12. Covered("mixed", "MIXED", "cpu")'
  BY <1>4, <1>6, <1>8, <1>11, WorkerTypes, StaysCovered DEF ExecutorInv, WorkInv
<1>13. Covered("gpu", "GPU", "mixed")'
  BY <1>4, <1>6, <1>8, <1>11, WorkerTypes, StaysCovered DEF ExecutorInv, WorkInv
<1>14. CounterInv'
  <2> DEFINE a == One(pc["cpu"] = "begin")
  <2>1. a \in Nat
    BY DEF One
  <2>2. work_counter["cpu"] = tasks["cpu"] + a
    BY <1>2
  <2> HIDE DEF a
  <2>3. work_counter'["cpu"] = tasks'["cpu"] + a /\ tasks'["cpu"] <= cpu_runs'
    BY <1>1, <1>2, <1>4, <2>1, <2>2, SMTT(30)
  <2> QED BY <1>8, <2>3 DEF a, ExecutorInv, WorkInv, CounterInv
<1> QED BY <1>6, <1>7, <1>9, <1>10, <1>12, <1>13, <1>14 DEF ExecutorInv, TypeOK, WorkInv

\* RunMixed and RunGPU add work, which waits for the counters.
LEMMA ScheduleGPUInv ==
  ASSUME ExecutorInv, ScheduleGPU
  PROVE  ExecutorInv'
<1>1. /\ UNCHANGED <<queues, stops, work_counter, running, pc, at, idx, exec_error, errors, asleep,
                     signal, main, cpu_runs, shared, released, batch>>
      /\ gpu_runs' = gpu_runs + 1
      /\ tasks' = [tasks EXCEPT !["mixed"] = tasks["mixed"] + 1, !["gpu"] = @ + 1]
  BY DEF ScheduleGPU
<1>2. tasks \in [Workers -> Nat] /\ gpu_runs \in Nat
  BY WorkerTypes DEF ExecutorInv, TypeOK, UserType
<1>3. tasks' \in [Workers -> Nat] /\ tasks'["cpu"] = tasks["cpu"] /\ gpu_runs' \in Nat
  BY <1>1, <1>2, SMTT(30) DEF Workers
<1>4. stops' = stops /\ exec_error' = exec_error /\ signal' = signal /\ errors' = errors
  BY <1>1
<1>5. StopType' /\ (Stopped' <=> Stopped)
  BY <1>4, SameFlags
<1>6. QueueType' /\ SleepType' /\ WorkerType' /\ UserType'
  BY <1>1, <1>3 DEF ExecutorInv, TypeOK, QueueType, SleepType, WorkerType, UserType, queues
<1>7. /\ pc' = pc /\ at' = at /\ idx' = idx /\ stage_work_queue' = stage_work_queue
      /\ work_counter' = work_counter /\ cpu_runs' = cpu_runs
  BY <1>1 DEF queues
<1>8. PlaceInv'
  BY <1>7 DEF ExecutorInv, PlaceInv
<1>9. StopInv'
  BY <1>4, <1>7, SameStopInv DEF ExecutorInv, StopInv
<1>10. Covered("mixed", "MIXED", "cpu")'
  BY <1>5, <1>7, WorkerTypes, StaysCovered DEF ExecutorInv, WorkInv
<1>11. Covered("gpu", "GPU", "mixed")'
  BY <1>5, <1>7, WorkerTypes, StaysCovered DEF ExecutorInv, WorkInv
<1>12. CounterInv'
  BY <1>3, <1>7 DEF ExecutorInv, WorkInv, CounterInv
<1> QED BY <1>5, <1>6, <1>8, <1>9, <1>10, <1>11, <1>12 DEF ExecutorInv, TypeOK, WorkInv

\* Stuttering.
LEMMA StutterInv ==
  ASSUME ExecutorInv, UNCHANGED vars
  PROVE  ExecutorInv'
<1>1. /\ UNCHANGED <<stops, pc, at, idx, stage_work_queue, work_counter, tasks, cpu_runs, batch>>
      /\ exec_error' = exec_error /\ errors' = errors /\ signal' = signal /\ asleep' = asleep
      /\ UNCHANGED <<running, main, gpu_runs, shared, released, free_queue, ready_queue, in_use_queue>>
  BY DEF vars, queues, workers, user
<1>2. /\ QueueType' /\ SleepType' /\ running' \in [Workers -> BOOLEAN] /\ gpu_runs' \in Nat
      /\ released' \in Nat /\ shared' \in Nat /\ main' \in MainPositions
  BY <1>1 DEF ExecutorInv, TypeOK, QueueType, SleepType, WorkerType, UserType, MainPositions
<1> QED BY <1>1, <1>2, MainMoves

-----------------------------------------------------------------------------
(* The invariant *)

\* The indices 0, 1, ... that InitializeQueues makes free.
LEMMA FirstIndices ==
  ASSUME NEW n \in Nat, NEW q, q = [i \in 1 .. n |-> i - 1]
  PROVE  q \in Seq(0 .. n - 1) /\ Len(q) = n
BY SMT

\* InitializeQueues establishes the invariant.
LEMMA InitExecutor == Init => ExecutorInv
<1> SUFFICES ASSUME Init PROVE ExecutorInv
  OBVIOUS
<1>1. /\ free_queue = [i \in 1 .. Depth |-> i - 1] /\ ready_queue = <<>> /\ in_use_queue = <<>>
      /\ stage_work_queue = [s \in Stages |-> <<>>] /\ asleep = {}
      /\ stage_work_stop = [s \in Stages |-> FALSE] /\ ready_stop = FALSE
      /\ exec_error = FALSE /\ errors = FALSE /\ signal = [t \in Threads |-> 0]
      /\ work_counter = [w \in Workers |-> 0] /\ tasks = [w \in Workers |-> 0]
      /\ running = [w \in Workers |-> TRUE] /\ pc = [w \in Workers |-> "idle"] /\ at = FirstStage
      /\ idx = [w \in Workers |-> kInvalidIdx]
      /\ main = "api" /\ cpu_runs = 0 /\ gpu_runs = 0 /\ shared = 0 /\ released = 0
      /\ batch = [i \in 0 .. Depth - 1 |-> 0]
  BY DEF Init
<1>2. Depth \in Nat
  BY DepthAssumption
<1>3. free_queue \in Seq(Indices)
  BY <1>1, <1>2, FirstIndices DEF Indices
<1>4. ready_queue \in Seq(Indices) /\ stage_work_queue \in [Stages -> Seq(Indices)] /\ in_use_queue \in Seq(Indices)
  BY <1>1, SMTT(30)
<1>5. signal \in [Threads -> 0 .. 6] /\ at \in [Workers -> Stages]
  BY <1>1, SMTT(30) DEF FirstStage, Workers, Stages
<1>6. work_counter \in [Workers -> Int] /\ tasks \in [Workers -> Nat]
  BY <1>1, SMTT(30)
<1>7. pc \in [Workers -> Positions] /\ idx \in [Workers -> Indices \cup {kInvalidIdx}]
  BY <1>1 DEF Positions
<1>8. batch \in [Indices -> Nat]
  BY <1>1 DEF Indices
<1>9. 0 \in Nat
  OBVIOUS
<1>10. StopType /\ SleepType /\ QueueType /\ WorkerType
  BY <1>1, <1>3, <1>4, <1>5, <1>6, <1>7 DEF StopType, SleepType, QueueType, WorkerType
<1>11. UserType
  BY <1>1, <1>8, <1>9 DEF UserType
<1>12. PlaceInv
  BY <1>1 DEF PlaceInv, Workers, FirstStage, kInvalidIdx
<1>13. StopInv
  BY <1>1, SMTT(30) DEF StopInv
<1>14. WorkInv
  BY <1>1, SMT DEF WorkInv, CounterInv, Covered, One, Workers, Stages
<1> QED BY <1>10, <1>11, <1>12, <1>13, <1>14 DEF ExecutorInv, TypeOK

\* Every step keeps the invariant.
LEMMA NextExecutor ==
  ASSUME ExecutorInv, [Next]_<<vars, scenario>>
  PROVE  ExecutorInv'
<1>1. ASSUME NEW w \in Workers, WorkerStep(w) PROVE ExecutorInv'
  BY <1>1, TakeWorkInv, BeginInv, SleepInv, CheckStopInv, AcquireIdxsInv, CheckIdxsInv, RunOpsInv,
       OperatorThrowsInv, HandleErrorInv, ReleaseIdxsInv, PostInv, AcquireFreeInv, SleepFreeInv,
       QueueOutputIdxsInv DEF WorkerStep
<1>2. ASSUME MainStep PROVE ExecutorInv'
  BY <1>2, UseOutputIdxsInv, ShareOutputsReturnInv, OutputsThrowInv, OutputsRethrowInv,
       ForceStopAndNotifyInv, JoinInv DEF MainStep
<1>3. ASSUME UserCall PROVE ExecutorInv'
  BY <1>3, ScheduleCPUInv, ScheduleGPUInv, ShareOutputsInv, ReleaseOutputsInv, DestroyInv DEF UserCall
<1> QED BY <1>1, <1>2, <1>3, SignalStopInv, StutterInv DEF Next

\* The executor's invariant holds throughout, whatever its users call and
\* whichever stage fails.
THEOREM ExecutorInvariant == Spec => []ExecutorInv
BY InitExecutor, NextExecutor, PTL DEF Spec

\* The variables keep their types: a queue holds only indices of existing
\* buffers, and no thread is anywhere but at a step of its function.
THEOREM TypeCorrect == Spec => []TypeOK
<1>1. ExecutorInv => TypeOK
  BY DEF ExecutorInv
<1> QED BY <1>1, ExecutorInvariant, PTL

\* The invariant says what WorkIsThere asks.
LEMMA WorkHolds == ExecutorInv => WorkIsThere
<1> SUFFICES ASSUME ExecutorInv PROVE WorkIsThere
  OBVIOUS
<1>1. PlaceInv /\ Covered("mixed", "MIXED", "cpu") /\ Covered("gpu", "GPU", "mixed") /\ CounterInv
  BY DEF ExecutorInv, WorkInv
<1>2. \A w \in Workers : pc[w] = "acquire" /\ at[w] # "SUPPORT" => stage_work_queue[at[w]] # <<>>
  BY <1>1 DEF PlaceInv, Covered, CounterInv, Workers
<1>3. pc["cpu"] = "begin" => work_counter["cpu"] > 0
  <2>1. tasks["cpu"] \in Nat
    BY WorkerTypes
  <2> QED BY <1>1, <2>1, SMT DEF CounterInv, One
<1> QED BY <1>2, <1>3 DEF WorkIsThere

\* AcquireIdxs never takes the front of an empty queue, for every depth,
\* number of batches and set of failing stages, and across the destructor.
THEOREM WorkAlwaysThere == Spec => []WorkIsThere
BY ExecutorInvariant, WorkHolds, PTL

-----------------------------------------------------------------------------
(* Outputs come back in order *)

\* The first element of y moves to the end of x.
LEMMA Shift ==
  ASSUME NEW x \in Seq(Indices), NEW y \in Seq(Indices), NEW z \in Seq(Indices), y # <<>>
  PROVE  Append(x, Head(y)) \o (Tail(y) \o z) = x \o (y \o z)
BY SMTT(60)

\* The one element held between x and z moves to the end of x.
LEMMA ShiftOne ==
  ASSUME NEW x \in Seq(Indices), NEW e \in Indices, NEW z \in Seq(Indices)
  PROVE  Append(x, e) \o (<<>> \o z) = x \o (<<e>> \o z)
BY SMTT(60)

\* The same in front of a longer sequence.
LEMMA ShiftOver ==
  ASSUME NEW x \in Seq(Indices), NEW e \in Indices, NEW y \in Seq(Indices), NEW z \in Seq(Indices)
  PROVE  Append(x, e) \o (<<>> \o (y \o z)) = x \o (<<e>> \o (y \o z))
<1> DEFINE u == y \o z
<1>1. u \in Seq(Indices)
  BY SMT
<1> HIDE DEF u
<1>2. Append(x, e) \o (<<>> \o u) = x \o (<<e>> \o u)
  BY <1>1, ShiftOne
<1> QED BY <1>2 DEF u

\* The first element of y is taken in hand.
LEMMA ShiftHead ==
  ASSUME NEW y \in Seq(Indices), NEW z \in Seq(Indices), y # <<>>
  PROVE  <<Head(y)>> \o (Tail(y) \o z) = <<>> \o (y \o z)
BY SMT

\* The same at the end of the ring.
LEMMA ShiftFirst ==
  ASSUME NEW y \in Seq(Indices), y # <<>>
  PROVE  <<Head(y)>> \o Tail(y) = <<>> \o y
BY SMT

\* The element of s that is d from its end is h.
FromTheEnd(s, d, h) == s \in Seq(Indices) /\ d \in 1 .. Len(s) /\ s[Len(s) - d + 1] = h

\* What precedes a sequence does not change what is at its end.
LEMMA Preceded ==
  ASSUME NEW x \in Seq(Indices), NEW y, NEW d, NEW h, FromTheEnd(y, d, h)
  PROVE  FromTheEnd(x \o y, d, h)
BY SMTT(60) DEF FromTheEnd

\* The elements of x and y do not depend on what follows them.
LEMMA SamePrefix ==
  ASSUME NEW x \in Seq(Indices), NEW y \in Seq(Indices), NEW z \in Seq(Indices), NEW u \in Seq(Indices),
         NEW k \in 1 .. Len(x) + Len(y)
  PROVE  (x \o (y \o z))[k] = (x \o (y \o u))[k]
BY SMTT(60)

\* The length of a concatenation.
LEMMA Lengths ==
  ASSUME NEW S, NEW x \in Seq(S), NEW y \in Seq(S)
  PROVE  x \o y \in Seq(S) /\ Len(x \o y) = Len(x) + Len(y) /\ Len(x) \in Nat /\ Len(y) \in Nat
BY SMT

\* Where the elements go when the first of x moves to the end of z.
LEMMA RotatedAt ==
  ASSUME NEW S, NEW x \in Seq(S), NEW z \in Seq(S), x # <<>>
  PROVE  /\ Len(Tail(x) \o Append(z, Head(x))) = Len(x \o z)
         /\ Len(x \o z) \in Nat
         /\ \A k \in 1 .. Len(x \o z) :
              (Tail(x) \o Append(z, Head(x)))[k] = (x \o z)[IF k = Len(x \o z) THEN 1 ELSE k + 1]
BY SMTT(30)

\* Moving the first element to the end keeps the elements distinct.
LEMMA Rotated ==
  ASSUME NEW S, NEW x \in Seq(S), NEW z \in Seq(S), x # <<>>, Injective(x \o z)
  PROVE  Injective(Tail(x) \o Append(z, Head(x)))
<1> DEFINE s == x \o z
           t == Tail(x) \o Append(z, Head(x))
           m == [k \in 1 .. Len(s) |-> IF k = Len(s) THEN 1 ELSE k + 1]
<1>1. Len(t) = Len(s) /\ Len(s) \in Nat /\ \A k \in 1 .. Len(s) : t[k] = s[IF k = Len(s) THEN 1 ELSE k + 1]
  BY RotatedAt
<1>2. Injective(s)
  OBVIOUS
<1> HIDE DEF s, t
<1>3. m \in [1 .. Len(s) -> 1 .. Len(s)] /\ \A k \in 1 .. Len(s) : t[k] = s[m[k]]
  BY <1>1, SMTT(30)
<1>4. \A j, k \in 1 .. Len(s) : m[j] = m[k] => j = k
  BY <1>1, SMTT(30)
<1> HIDE DEF m
<1>5. ASSUME NEW j \in 1 .. Len(t), NEW k \in 1 .. Len(t), t[j] = t[k] PROVE j = k
  <2>1. m[j] \in 1 .. Len(s) /\ m[k] \in 1 .. Len(s) /\ s[m[j]] = s[m[k]]
    BY <1>1, <1>3, <1>5
  <2>2. m[j] = m[k]
    BY <1>2, <2>1 DEF Injective
  <2> QED BY <1>1, <1>4, <2>2
<1>6. Injective(t)
  BY <1>5 DEF Injective
<1> QED BY <1>6 DEF t

\* t is s with e at its end
Grown(s, t, e) == s \in Seq(Indices) /\ t = Append(s, e)

\* What is added at the end of s is added at the end of all.
LEMMA Grows ==
  ASSUME NEW x \in Seq(Indices), NEW s, NEW t, NEW e \in Indices, Grown(s, t, e)
  PROVE  Grown(x \o s, x \o t, e)
BY SMT DEF Grown

\* Where the elements are when one is dropped.
LEMMA DroppedAt ==
  ASSUME NEW S, NEW x \in Seq(S), NEW e \in S, NEW z \in Seq(S)
  PROVE  /\ Len(x \o z) = Len(x \o (<<e>> \o z)) - 1 /\ Len(x \o z) \in Nat /\ Len(x \o (<<e>> \o z)) \in Nat
         /\ Len(x) \in Nat
         /\ \A k \in 1 .. Len(x \o z) :
              (x \o z)[k] = (x \o (<<e>> \o z))[IF k <= Len(x) THEN k ELSE k + 1]
BY SMT

\* Dropping an element keeps the others distinct.
LEMMA Dropped ==
  ASSUME NEW S, NEW x \in Seq(S), NEW e \in S, NEW z \in Seq(S), Injective(x \o (<<e>> \o z))
  PROVE  Injective(x \o z)
<1> DEFINE s == x \o (<<e>> \o z)
           t == x \o z
           m == [k \in 1 .. Len(t) |-> IF k <= Len(x) THEN k ELSE k + 1]
<1>1. /\ Len(t) = Len(s) - 1 /\ Len(s) \in Nat /\ Len(t) \in Nat /\ Len(x) \in Nat
      /\ \A k \in 1 .. Len(t) : t[k] = s[IF k <= Len(x) THEN k ELSE k + 1]
  BY DroppedAt, SMTT(60)
<1>2. Injective(s)
  OBVIOUS
<1> HIDE DEF s, t
<1>3. m \in [1 .. Len(t) -> 1 .. Len(s)] /\ \A k \in 1 .. Len(t) : t[k] = s[m[k]]
  BY <1>1, SMT
<1>4. \A j, k \in 1 .. Len(t) : m[j] = m[k] => j = k
  BY <1>1, SMTT(30)
<1> HIDE DEF m
<1>5. ASSUME NEW j \in 1 .. Len(t), NEW k \in 1 .. Len(t), t[j] = t[k] PROVE j = k
  <2>1. m[j] \in 1 .. Len(s) /\ m[k] \in 1 .. Len(s) /\ s[m[j]] = s[m[k]]
    BY <1>1, <1>3, <1>5
  <2>2. m[j] = m[k]
    BY <1>2, <2>1 DEF Injective
  <2> QED BY <1>1, <1>4, <2>2
<1>6. Injective(t)
  BY <1>5 DEF Injective
<1> QED BY <1>6 DEF t

\* The same after two sequences.
LEMMA DroppedAfter ==
  ASSUME NEW x \in Seq(Indices), NEW y \in Seq(Indices), NEW e \in Indices, NEW z \in Seq(Indices),
         Injective(x \o (y \o (<<e>> \o z)))
  PROVE  Injective(x \o (y \o (<<>> \o z)))
<1>1. x \o y \in Seq(Indices)
  BY SMT
<1>2. x \o (y \o (<<e>> \o z)) = (x \o y) \o (<<e>> \o z)
  BY SMTT(30)
<1>3. x \o (y \o (<<>> \o z)) = (x \o y) \o z
  BY SMTT(30)
<1>4. Injective((x \o y) \o (<<e>> \o z))
  BY <1>2
<1> DEFINE p == x \o y
<1> HIDE DEF p
<1>5. Injective(p \o z)
  BY <1>1, <1>4, Dropped DEF p
<1> QED BY <1>3, <1>5 DEF p

\* The parts of the ring are sequences of indices.
LEMMA RingParts == QueueType /\ WorkerType => Sequences
<1> SUFFICES ASSUME QueueType, WorkerType PROVE Sequences
  OBVIOUS
<1>1. /\ in_use_queue \in Seq(Indices) /\ ready_queue \in Seq(Indices) /\ free_queue \in Seq(Indices)
      /\ \A s \in Stages : stage_work_queue[s] \in Seq(Indices)
  BY DEF QueueType
<1>2. ASSUME NEW w \in Workers PROVE Held(w) \in Seq(Indices)
  <2>1. idx[w] = kInvalidIdx \/ idx[w] \in Indices
    BY DEF WorkerType
  <2> QED BY <2>1, SMTT(30) DEF Held
<1>3. Held("gpu") \in Seq(Indices) /\ Held("mixed") \in Seq(Indices) /\ Held("cpu") \in Seq(Indices)
  BY <1>2 DEF Workers
<1>4. HeldAt("CPU") \in Seq(Indices) /\ HeldAt("SUPPORT") \in Seq(Indices)
  BY <1>3, SMT DEF HeldAt
<1>5. /\ stage_work_queue["CPU"] \in Seq(Indices) /\ stage_work_queue["MIXED"] \in Seq(Indices)
      /\ stage_work_queue["GPU"] \in Seq(Indices)
  BY <1>1 DEF Stages
<1>6. FromSUPPORT \in Seq(Indices)
  BY <1>1, <1>4, SMTT(30) DEF FromSUPPORT
<1>7. FromCPU \in Seq(Indices)
  BY <1>4, <1>5, <1>6, SMTT(30) DEF FromCPU
<1>8. FromMIXED \in Seq(Indices)
  BY <1>3, <1>5, <1>7, SMTT(30) DEF FromMIXED
<1>9. FromGPU \in Seq(Indices)
  BY <1>3, <1>5, <1>8, SMTT(30) DEF FromGPU
<1>10. Ring \in Seq(Indices)
  BY <1>1, <1>9, SMT DEF Ring
<1> QED BY <1>1, <1>3, <1>4, <1>6, <1>7, <1>8, <1>9, <1>10 DEF Sequences

\* How many of the ring are outputs and how many are in use.
LEMMA RingBounds == QueueType /\ WorkerType /\ PlaceInv => Bounds
<1> SUFFICES ASSUME QueueType, WorkerType, PlaceInv PROVE Bounds
  OBVIOUS
<1>1. Sequences
  BY RingParts
<1>2. /\ Len(FromSUPPORT) = Len(HeldAt("SUPPORT")) + Len(free_queue)
      /\ Len(HeldAt("SUPPORT")) \in Nat /\ Len(free_queue) \in Nat /\ Len(FromSUPPORT) \in Nat
  BY <1>1, Lengths DEF Sequences, FromSUPPORT
<1>3. Len(FromCPU) >= Len(FromSUPPORT) /\ Len(FromCPU) \in Nat
  <2>1. stage_work_queue["CPU"] \in Seq(Indices) /\ HeldAt("CPU") \in Seq(Indices) /\ FromSUPPORT \in Seq(Indices)
    BY <1>1 DEF Sequences, Stages
  <2> QED BY <1>2, <2>1, SMTT(30) DEF FromCPU
<1>4. Len(FromMIXED) >= Len(FromCPU) /\ Len(FromMIXED) \in Nat
  <2>1. stage_work_queue["MIXED"] \in Seq(Indices) /\ Held("mixed") \in Seq(Indices) /\ FromCPU \in Seq(Indices)
    BY <1>1 DEF Sequences, Stages
  <2> QED BY <1>3, <2>1, SMTT(30) DEF FromMIXED
<1>5. Len(FromGPU) >= Len(FromMIXED) + Len(Held("gpu")) /\ Len(FromGPU) \in Nat /\ Len(Held("gpu")) \in Nat
  <2>1. stage_work_queue["GPU"] \in Seq(Indices) /\ Held("gpu") \in Seq(Indices) /\ FromMIXED \in Seq(Indices)
    BY <1>1 DEF Sequences, Stages
  <2> QED BY <1>4, <2>1, SMTT(30) DEF FromGPU
<1>6. /\ Len(Ring) = Len(in_use_queue) + Len(ready_queue) + Len(FromGPU)
      /\ Len(in_use_queue) \in Nat /\ Len(ready_queue) \in Nat
      /\ \A k \in 1 .. Len(in_use_queue) : Ring[k] = in_use_queue[k]
  <2>1. in_use_queue \in Seq(Indices) /\ ready_queue \in Seq(Indices) /\ FromGPU \in Seq(Indices)
    BY <1>1 DEF Sequences
  <2> QED BY <2>1, SMTT(30) DEF Ring
<1>7. Len(Held("gpu")) = One(idx["gpu"] # kInvalidIdx)
  BY DEF Held, One
<1>8. Running => idx["gpu"] # kInvalidIdx
  BY DEF Running, PlaceInv, Workers
<1>9. One(Running) \in Nat /\ One(Running) <= Len(Held("gpu"))
  BY <1>7, <1>8, SMT DEF One
<1>10. idx["gpu"] # kInvalidIdx => Len(Held("gpu")) = 1
  BY <1>7 DEF One
<1>11. /\ Busy \in Nat /\ Busy <= Len(Ring) /\ Len(Ring) \in Nat
       /\ Len(in_use_queue) + Len(ready_queue) + Len(Held("gpu")) <= Busy
  BY <1>2, <1>3, <1>4, <1>5, <1>6, SMTT(30) DEF Busy
<1>12. Outputs \in Nat /\ Outputs <= Busy /\ Len(in_use_queue) <= Outputs
  BY <1>5, <1>6, <1>9, <1>11, SMTT(30) DEF Outputs
<1>13. idx["gpu"] # kInvalidIdx => Len(in_use_queue) + Len(ready_queue) + 1 <= Busy
  BY <1>6, <1>10, <1>11
<1> QED BY <1>2, <1>6, <1>11, <1>12, <1>13 DEF Bounds

\* Steps that leave the queues and the indices alone leave the ring alone.
LEMMA SameRing ==
  ASSUME RingInv, Bounds, Outputs' \in Int, Ring' = Ring, free_queue' = free_queue, batch' = batch,
         released' = released, Stopped => Stopped',
         Outputs' <= Outputs \/ (~Stopped /\ Outputs' <= Busy),
         ~Stopped' => cpu_runs' - tasks'["cpu"] - One(Waiting)' = cpu_runs - tasks["cpu"] - One(Waiting),
         cpu_runs \in Int, cpu_runs' \in Int, tasks["cpu"] \in Int, tasks'["cpu"] \in Int, released \in Int
  PROVE  RingInv'
<1>1. Injective(Ring)'
  <2>1. Injective(Ring)
    BY DEF RingInv
  <2> QED BY <2>1 DEF Injective
<1>2. InOrder(Outputs)'
  <2>1. InOrder(Outputs) /\ (~Stopped => InOrder(Busy))
    BY DEF RingInv
  <2>2. ASSUME NEW k \in 1 .. Outputs' PROVE batch[Ring[k]] = released + k
    <3>1. Outputs \in Int /\ Busy \in Int
      BY SMT DEF Bounds
    <3>2. k \in 1 .. Outputs \/ (~Stopped /\ k \in 1 .. Busy)
      BY <2>2, <3>1, SMT
    <3> QED BY <2>1, <3>2 DEF InOrder
  <2> QED BY <2>2 DEF InOrder
<1>3. Busy' = Busy
  BY DEF Busy
<1>4. ASSUME ~Stopped' PROVE InOrder(Busy)'
  <2>1. InOrder(Busy)
    BY <1>4 DEF RingInv
  <2> QED BY <1>3, <2>1 DEF InOrder
<1>5. ASSUME ~Stopped' PROVE (cpu_runs - tasks["cpu"] = released + Busy + One(Waiting))'
  <2>1. cpu_runs - tasks["cpu"] = released + Busy + One(Waiting)
    BY <1>5 DEF RingInv
  <2>2. cpu_runs' - tasks'["cpu"] - One(Waiting)' = cpu_runs - tasks["cpu"] - One(Waiting)
    BY <1>5
  <2>3. One(Waiting) \in Int /\ One(Waiting)' \in Int /\ Busy \in Int
    BY SMT DEF One, Bounds
  <2> QED BY <1>3, <2>1, <2>2, <2>3, SMTT(30)
<1> QED BY <1>1, <1>2, <1>4, <1>5 DEF RingInv

\* A step that keeps the ring, the numbers and what RingInv counts keeps OrderInv.
LEMMA Elsewhere ==
  ASSUME ExecutorInv, RingInv, UNCHANGED <<queues, idx, batch, released>>,
         at'["cpu"] = at["cpu"] \/ idx["cpu"] = kInvalidIdx, Stopped => Stopped',
         Running' => Running \/ (~Stopped /\ idx["gpu"] # kInvalidIdx),
         ~Stopped' => cpu_runs' - tasks'["cpu"] - One(Waiting)' = cpu_runs - tasks["cpu"] - One(Waiting),
         cpu_runs' \in Int, tasks'["cpu"] \in Int
  PROVE  RingInv'
<1>1. QueueType /\ WorkerType /\ PlaceInv /\ cpu_runs \in Int /\ released \in Int /\ tasks["cpu"] \in Int
  BY SMT DEF ExecutorInv, TypeOK, UserType, WorkerType, Workers
<1>2. Bounds
  BY <1>1, RingBounds
<1>3. /\ in_use_queue' = in_use_queue /\ ready_queue' = ready_queue /\ free_queue' = free_queue
      /\ stage_work_queue' = stage_work_queue /\ idx' = idx
  BY DEF queues
<1>4. \A w \in Workers : Held(w)' = Held(w)
  BY <1>3 DEF Held
<1>5. HeldAt("CPU")' = HeldAt("CPU") /\ HeldAt("SUPPORT")' = HeldAt("SUPPORT")
  BY <1>3 DEF HeldAt, Held
<1>6. Held("gpu")' = Held("gpu") /\ Held("mixed")' = Held("mixed")
  BY <1>4 DEF Workers
<1>7. FromCPU' = FromCPU
  BY <1>3, <1>5 DEF FromCPU, FromSUPPORT
<1>8. Ring' = Ring
  BY <1>3, <1>6, <1>7 DEF Ring, FromGPU, FromMIXED
<1>9. Outputs' \in Int /\ (Outputs' <= Outputs \/ (~Stopped /\ Outputs' <= Busy))
  <2>1. CASE Running' => Running
    BY <1>2, <1>3, <2>1, SMTT(30) DEF Outputs, Bounds, One
  <2>2. CASE ~Stopped /\ idx["gpu"] # kInvalidIdx
    BY <1>2, <1>3, <2>2, SMT DEF Outputs, Bounds, One
  <2> QED BY <2>1, <2>2
<1>10. free_queue' = free_queue /\ batch' = batch /\ released' = released
  BY <1>3
<1> QED BY <1>1, <1>2, <1>8, <1>9, <1>10, SameRing

\* The same for a step of a stage thread.
LEMMA StageElsewhere ==
  ASSUME ExecutorInv, OrderInv, UNCHANGED <<queues, stops, idx, batch, user>>, exec_error => exec_error',
         at'["cpu"] = at["cpu"] \/ idx["cpu"] = kInvalidIdx,
         Running' => Running \/ (~Stopped /\ idx["gpu"] # kInvalidIdx),
         ~Stopped' => tasks'["cpu"] + One(Waiting)' = tasks["cpu"] + One(Waiting),
         tasks'["cpu"] \in Int, HandInv'
  PROVE  OrderInv'
<1>1. /\ in_use_queue' = in_use_queue /\ shared' = shared /\ released' = released /\ main' = main
      /\ ready_stop' = ready_stop /\ cpu_runs' = cpu_runs
  BY DEF queues, stops, user
<1>2. SharedInv'
  <2>1. SharedInv
    BY DEF OrderInv
  <2> QED BY <1>1, <2>1 DEF SharedInv
<1>3. Stopped => Stopped'
  BY <1>1 DEF Stopped
<1>4. cpu_runs' \in Int /\ cpu_runs \in Int /\ tasks["cpu"] \in Int
  BY <1>1, SMTT(30) DEF ExecutorInv, TypeOK, UserType, WorkerType, Workers
<1>5. ~Stopped' => cpu_runs' - tasks'["cpu"] - One(Waiting)' = cpu_runs - tasks["cpu"] - One(Waiting)
  <2> DEFINE a == One(Waiting)
             b == One(Waiting)'
  <2>1. a \in Int /\ b \in Int
    BY SMTT(30) DEF One
  <2>2. ~Stopped' => tasks'["cpu"] + b = tasks["cpu"] + a
    OBVIOUS
  <2> HIDE DEF a, b
  <2>3. ~Stopped' => cpu_runs' - tasks'["cpu"] - b = cpu_runs - tasks["cpu"] - a
    BY <1>1, <1>4, <2>1, <2>2, SMTT(30)
  <2> QED BY <2>3 DEF a, b
<1>6. RingInv'
  <2>1. RingInv /\ UNCHANGED <<queues, idx, batch, released>>
    BY <1>1 DEF OrderInv
  <2> QED BY <1>3, <1>4, <1>5, <2>1, Elsewhere
<1> QED BY <1>2, <1>6 DEF OrderInv

\* A thread takes work: the batch is counted as waiting instead.
LEMMA TakeWorkOrder ==
  ASSUME ExecutorInv, OrderInv, NEW w \in Workers, TakeWork(w)
  PROVE  OrderInv'
<1>1. /\ UNCHANGED <<queues, stops, idx, batch, user>> /\ exec_error' = exec_error
      /\ tasks' = [tasks EXCEPT ![w] = @ - 1] /\ at' = [at EXCEPT ![w] = FirstStage[w]]
      /\ pc' = [pc EXCEPT ![w] = "begin"] /\ pc[w] = "idle" /\ tasks[w] > 0
  BY DEF TakeWork, Goto
<1>2. pc \in [Workers -> Positions] /\ at \in [Workers -> Stages] /\ tasks \in [Workers -> Nat]
  BY DEF ExecutorInv, TypeOK, WorkerType
<1>3. HandInv' /\ idx[w] = kInvalidIdx
  BY <1>1, <1>2 DEF OrderInv, HandInv
<1>4. at'["cpu"] = at["cpu"] \/ idx["cpu"] = kInvalidIdx
  BY <1>1, <1>2, <1>3 DEF Workers
<1>5. Running' => Running
  BY <1>1, <1>2 DEF Running, Workers
<1>6. tasks'["cpu"] + One(Waiting)' = tasks["cpu"] + One(Waiting) /\ tasks'["cpu"] \in Int
  BY <1>1, <1>2, SMTT(30) DEF Waiting, Workers, One
<1> QED BY <1>1, <1>3, <1>4, <1>5, <1>6, StageElsewhere

\* A step of a stage thread that changes its position and counters only.
LEMMA MoveOnOrder ==
  ASSUME ExecutorInv, OrderInv, NEW w \in Workers, NEW p \in Positions, pc' = [pc EXCEPT ![w] = p],
         UNCHANGED <<queues, stops, tasks, at, idx, batch, user>>, exec_error => exec_error',
         p \in {"idle", "begin", "presleep", "check", "acquire", "window", "post"} => idx[w] = kInvalidIdx,
         w = "gpu" /\ p \in {"run", "error", "release"} => Running \/ (~Stopped /\ idx["gpu"] # kInvalidIdx),
         w = "cpu" => Stopped' \/ (Waiting <=> p \in {"begin", "check", "window"} \/ (p = "acquire" /\ at["cpu"] = "SUPPORT"))
  PROVE  OrderInv'
<1>1. pc \in [Workers -> Positions] /\ at \in [Workers -> Stages] /\ tasks["cpu"] \in Int
  BY SMT DEF ExecutorInv, TypeOK, WorkerType, Workers
<1>2. HandInv'
  BY <1>1 DEF OrderInv, HandInv
<1>3. Running' => Running \/ (~Stopped /\ idx["gpu"] # kInvalidIdx)
  BY <1>1 DEF Running, Workers
<1>4. ~Stopped' => tasks'["cpu"] + One(Waiting)' = tasks["cpu"] + One(Waiting)
  <2>1. Stopped' \/ (Waiting' <=> Waiting)
    BY <1>1 DEF Waiting, Workers
  <2> QED BY <1>1, <2>1 DEF One
<1> QED BY <1>1, <1>2, <1>3, <1>4, StageElsewhere

\* The stage a thread is at, from its position.
LEMMA WorkerPositions ==
  ASSUME ExecutorInv, OrderInv, NEW w \in Workers
  PROVE  /\ pc[w] \in Positions /\ at["cpu"] \in {"SUPPORT", "CPU"} /\ pc["cpu"] # "presleep"
         /\ pc["cpu"] \in {"begin", "check", "window"} => at["cpu"] = "SUPPORT"
         /\ pc[w] \in {"idle", "begin", "presleep", "check", "acquire", "window", "post"} => idx[w] = kInvalidIdx
BY DEF ExecutorInv, TypeOK, WorkerType, PlaceInv, OrderInv, HandInv

\* The steps before a thread takes an index.
LEMMA BeginOrder ==
  ASSUME ExecutorInv, OrderInv, NEW w \in Workers, Begin(w)
  PROVE  OrderInv'
<1>1. /\ UNCHANGED <<queues, stops, tasks, at, idx, batch, user>> /\ exec_error' = exec_error /\ pc[w] = "begin"
      /\ \E p \in {"presleep", "check"} : pc' = [pc EXCEPT ![w] = p] /\ (p = "presleep" => w # "cpu")
  BY DEF Begin, Goto
<1>2. PICK p \in {"presleep", "check"} : pc' = [pc EXCEPT ![w] = p] /\ (p = "presleep" => w # "cpu")
  BY <1>1
<1>3. p \in Positions
  BY <1>2 DEF Positions
<1>4. w = "cpu" => Waiting /\ p \in {"begin", "check", "window"}
  BY <1>1, <1>2 DEF Waiting
<1>5. idx[w] = kInvalidIdx /\ p \notin {"run", "error", "release"}
  BY <1>1, <1>2, WorkerPositions
<1> QED BY <1>1, <1>2, <1>3, <1>4, <1>5, MoveOnOrder

\* Going to sleep moves no index.
LEMMA SleepOrder ==
  ASSUME ExecutorInv, OrderInv, NEW w \in Workers, Sleep(w)
  PROVE  OrderInv'
<1>1. /\ UNCHANGED <<queues, stops, tasks, at, idx, batch, user>> /\ exec_error' = exec_error /\ pc[w] = "presleep"
      /\ pc' = [pc EXCEPT ![w] = "begin"]
  BY DEF Sleep, Goto
<1>2. "begin" \in Positions
  BY DEF Positions
<1>3. w # "cpu" /\ idx[w] = kInvalidIdx
  BY <1>1, WorkerPositions
<1> QED BY <1>1, <1>2, <1>3, MoveOnOrder

\* The test of the stop flags moves no index.
LEMMA CheckStopOrder ==
  ASSUME ExecutorInv, OrderInv, NEW w \in Workers, CheckStop(w)
  PROVE  OrderInv'
<1>1. /\ UNCHANGED <<queues, stops, tasks, at, idx, batch, user>> /\ exec_error' = exec_error /\ pc[w] = "check"
      /\ \E p \in {"idle", "acquire"} : pc' = [pc EXCEPT ![w] = p] /\ (p = "idle" => Stopped)
  BY DEF CheckStop, Goto
<1>2. PICK p \in {"idle", "acquire"} : pc' = [pc EXCEPT ![w] = p] /\ (p = "idle" => Stopped)
  BY <1>1
<1>3. p \in Positions
  BY <1>2 DEF Positions
<1>4. Stopped => Stopped'
  BY <1>1 DEF Stopped, stops
<1>5. w = "cpu" => Waiting /\ (Stopped' \/ (p = "acquire" /\ at["cpu"] = "SUPPORT"))
  BY <1>1, <1>2, <1>4, WorkerPositions DEF Waiting
<1>6. idx[w] = kInvalidIdx /\ p \notin {"run", "error", "release"}
  BY <1>1, <1>2, WorkerPositions
<1> QED BY <1>1, <1>2, <1>3, <1>5, <1>6, MoveOnOrder

\* The steps between taking and passing on an index.
LEMMA CheckIdxsOrder ==
  ASSUME ExecutorInv, OrderInv, NEW w \in Workers, CheckIdxs(w)
  PROVE  OrderInv'
<1>1. /\ UNCHANGED <<queues, stops, tasks, at, idx, batch, user>> /\ exec_error' = exec_error /\ pc[w] = "acquired"
      /\ \E p \in {"abandon", "run"} : pc' = [pc EXCEPT ![w] = p] /\ (p = "run" => ~Stopped /\ idx[w] # kInvalidIdx)
  BY DEF CheckIdxs, Goto
<1>2. PICK p \in {"abandon", "run"} : pc' = [pc EXCEPT ![w] = p] /\ (p = "run" => ~Stopped /\ idx[w] # kInvalidIdx)
  BY <1>1
<1>3. p \in Positions
  BY <1>2 DEF Positions
<1>4. w = "cpu" => ~Waiting
  BY <1>1 DEF Waiting
<1> QED BY <1>1, <1>2, <1>3, <1>4, MoveOnOrder

\* Running the operators moves no index.
LEMMA RunOpsOrder ==
  ASSUME ExecutorInv, OrderInv, NEW w \in Workers, RunOps(w)
  PROVE  OrderInv'
<1>1. /\ UNCHANGED <<queues, stops, tasks, at, idx, batch, user>> /\ exec_error' = exec_error /\ pc[w] = "run"
      /\ pc' = [pc EXCEPT ![w] = "release"]
  BY DEF RunOps, Goto
<1>2. "release" \in Positions
  BY DEF Positions
<1>3. (w = "cpu" => ~Waiting) /\ (w = "gpu" => Running)
  BY <1>1 DEF Waiting, Running
<1> QED BY <1>1, <1>2, <1>3, MoveOnOrder

\* An operator that throws leaves the index with its thread.
LEMMA OperatorThrowsOrder ==
  ASSUME ExecutorInv, OrderInv, NEW w \in Workers, OperatorThrows(w)
  PROVE  OrderInv'
<1>1. /\ UNCHANGED <<queues, stops, tasks, at, idx, batch, user>> /\ exec_error' /\ pc[w] = "run"
      /\ pc' = [pc EXCEPT ![w] = "error"]
  BY DEF OperatorThrows, Goto
<1>2. "error" \in Positions
  BY DEF Positions
<1>3. (w = "cpu" => ~Waiting) /\ (w = "gpu" => Running)
  BY <1>1 DEF Waiting, Running
<1> QED BY <1>1, <1>2, <1>3, MoveOnOrder

\* HandleError drops the index only once stop is being signalled.
LEMMA HandleErrorOrder ==
  ASSUME ExecutorInv, OrderInv, NEW w \in Workers, HandleError(w)
  PROVE  OrderInv'
<1>1. /\ UNCHANGED <<queues, stops, tasks, at, idx, batch, user>> /\ exec_error' = exec_error /\ pc[w] = "error"
      /\ pc' = [pc EXCEPT ![w] = "release"]
  BY DEF HandleError, Goto
<1>2. "release" \in Positions
  BY DEF Positions
<1>3. (w = "cpu" => ~Waiting) /\ (w = "gpu" => Running)
  BY <1>1 DEF Waiting, Running
<1> QED BY <1>1, <1>2, <1>3, MoveOnOrder

\* The steps after it.
LEMMA PostOrder ==
  ASSUME ExecutorInv, OrderInv, NEW w \in Workers, Post(w)
  PROVE  OrderInv'
<1>1. /\ UNCHANGED <<queues, stops, tasks, at, idx, batch, user>> /\ exec_error' = exec_error /\ pc[w] = "post"
      /\ pc' = [pc EXCEPT ![w] = "idle"]
  BY DEF Post, Goto
<1>2. "idle" \in Positions
  BY DEF Positions
<1>3. (w = "cpu" => ~Waiting) /\ idx[w] = kInvalidIdx
  BY <1>1, WorkerPositions DEF Waiting
<1> QED BY <1>1, <1>2, <1>3, MoveOnOrder

\* Waiting for a free index moves none.
LEMMA SleepFreeOrder ==
  ASSUME ExecutorInv, OrderInv, SleepFree
  PROVE  OrderInv'
<1>1. /\ UNCHANGED <<queues, stops, tasks, at, idx, batch, user>> /\ exec_error' = exec_error /\ pc["cpu"] = "window"
      /\ pc' = [pc EXCEPT !["cpu"] = "acquire"]
  BY DEF SleepFree, Goto
<1>2. "acquire" \in Positions /\ "cpu" \in Workers
  BY DEF Positions, Workers
<1>3. Waiting /\ at["cpu"] = "SUPPORT" /\ idx["cpu"] = kInvalidIdx
  BY <1>1, <1>2, WorkerPositions DEF Waiting
<1> QED BY <1>1, <1>2, <1>3, MoveOnOrder

\* A step that moves an index along the ring keeps OrderInv.
LEMMA StageMoves ==
  ASSUME ExecutorInv, OrderInv, Ring' = Ring, UNCHANGED <<free_queue, in_use_queue, stops, tasks, batch, user, exec_error>>,
         Outputs' \in Int, Outputs' <= Outputs, Stopped \/ (Waiting' <=> Waiting), HandInv'
  PROVE  OrderInv'
<1>1. /\ shared' = shared /\ released' = released /\ main' = main /\ cpu_runs' = cpu_runs
      /\ ready_stop' = ready_stop /\ tasks' = tasks /\ free_queue' = free_queue /\ batch' = batch
      /\ in_use_queue' = in_use_queue
  BY DEF stops, user
<1>2. SharedInv'
  <2>1. SharedInv
    BY DEF OrderInv
  <2> QED BY <1>1, <2>1 DEF SharedInv
<1>3. Stopped' <=> Stopped
  BY <1>1 DEF Stopped
<1>4. /\ cpu_runs \in Int /\ tasks["cpu"] \in Int /\ released \in Int
      /\ QueueType /\ WorkerType /\ PlaceInv
  BY SMT DEF ExecutorInv, TypeOK, UserType, WorkerType, Workers
<1>5. cpu_runs' \in Int /\ tasks'["cpu"] \in Int
  BY <1>1, <1>4
<1>6. ~Stopped' => cpu_runs' - tasks'["cpu"] - One(Waiting)' = cpu_runs - tasks["cpu"] - One(Waiting)
  <2>1. ~Stopped' => One(Waiting)' = One(Waiting)
    BY <1>3 DEF One
  <2> QED BY <1>1, <2>1
<1>7. Bounds /\ RingInv
  BY <1>4, RingBounds DEF OrderInv
<1>8. RingInv'
  BY <1>1, <1>3, <1>4, <1>5, <1>6, <1>7, SameRing
<1> QED BY <1>2, <1>8 DEF OrderInv

\* A stage takes the front of its queue: the index moves from the queue to the hand.
LEMMA AcquireIdxsOrder ==
  ASSUME ExecutorInv, OrderInv, NEW w \in Workers, AcquireIdxs(w)
  PROVE  OrderInv'
<1>1. /\ UNCHANGED <<free_queue, ready_queue, in_use_queue, stops, tasks, at, batch, user, exec_error>>
      /\ pc[w] = "acquire" /\ at[w] # "SUPPORT" /\ pc' = [pc EXCEPT ![w] = "acquired"]
      /\ \/ idx' = [idx EXCEPT ![w] = kInvalidIdx] /\ stage_work_queue' = stage_work_queue
         \/ /\ stage_work_queue[at[w]] # <<>>
            /\ idx' = [idx EXCEPT ![w] = Head(stage_work_queue[at[w]])]
            /\ stage_work_queue' = [stage_work_queue EXCEPT ![at[w]] = Tail(@)]
  BY DEF AcquireIdxs, Goto
<1>2. /\ pc \in [Workers -> Positions] /\ idx \in [Workers -> Indices \cup {kInvalidIdx}]
      /\ stage_work_queue \in [Stages -> Seq(Indices)]
      /\ at["mixed"] = "MIXED" /\ at["gpu"] = "GPU" /\ at["cpu"] \in {"SUPPORT", "CPU"}
  BY DEF ExecutorInv, TypeOK, WorkerType, QueueType, PlaceInv
<1>3. idx[w] = kInvalidIdx
  BY <1>1, WorkerPositions
<1>4. (w = "cpu" => ~Waiting) /\ (w = "gpu" => ~Running)
  BY <1>1 DEF Waiting, Running
<1>5. CASE idx' = [idx EXCEPT ![w] = kInvalidIdx] /\ stage_work_queue' = stage_work_queue
  <2>1. idx' = idx
    BY <1>2, <1>3, <1>5
  <2>2. UNCHANGED <<queues, stops, tasks, at, idx, batch, user>> /\ exec_error' = exec_error
    BY <1>1, <1>5, <2>1 DEF queues
  <2>3. "acquired" \in Positions /\ pc' = [pc EXCEPT ![w] = "acquired"]
    BY <1>1 DEF Positions
  <2> QED BY <1>3, <1>4, <2>2, <2>3, MoveOnOrder
<1>6. CASE /\ stage_work_queue[at[w]] # <<>>
           /\ idx' = [idx EXCEPT ![w] = Head(stage_work_queue[at[w]])]
           /\ stage_work_queue' = [stage_work_queue EXCEPT ![at[w]] = Tail(@)]
  <2>1. Sequences
    BY RingParts DEF ExecutorInv, TypeOK
  <2>2. HandInv'
    BY <1>1, <1>2, <1>6 DEF OrderInv, HandInv
  <2>3. Waiting' <=> Waiting
    BY <1>1, <1>2, <1>4 DEF Waiting, Workers
  <2>4. Running' <=> Running
    BY <1>1, <1>2, <1>4 DEF Running, Workers
  <2>5. Outputs' = Outputs /\ Outputs \in Int
    <3>1. Outputs' = Outputs
      BY <1>1, <2>4 DEF Outputs, One
    <3>2. Bounds
      BY RingBounds DEF ExecutorInv, TypeOK
    <3> QED BY <3>1, <3>2, SMT DEF Bounds
  <2>6. Ring' = Ring
    <3> DEFINE q == stage_work_queue[at[w]]
    <3>1. q \in Seq(Indices) /\ q # <<>> /\ Head(q) # kInvalidIdx
      <4>1. q \in Seq(Indices) /\ q # <<>>
        BY <1>1, <1>2, <1>6 DEF Workers, Stages
      <4>2. Head(q) \in Indices
        BY <4>1, SMTT(30)
      <4> QED BY <4>1, <4>2, SMTT(30) DEF Indices, kInvalidIdx
    <3>2. /\ \A v \in Workers : v # w => Held(v)' = Held(v)
          /\ Held(w) = <<>> /\ Held(w)' = <<Head(q)>>
      BY <1>2, <1>3, <1>6, <3>1 DEF Held
    <3>3. \A s \in Stages : stage_work_queue'[s] = IF s = at[w] THEN Tail(q) ELSE stage_work_queue[s]
      BY <1>2, <1>6
    <3>4. in_use_queue' = in_use_queue /\ ready_queue' = ready_queue /\ free_queue' = free_queue /\ at' = at
      BY <1>1
    <3>5. FromSUPPORT \in Seq(Indices) /\ FromCPU \in Seq(Indices) /\ FromMIXED \in Seq(Indices)
      BY <2>1 DEF Sequences
    <3> HIDE DEF q
    <3>6. CASE w = "cpu" /\ at[w] = "CPU"
      <4>1. /\ HeldAt("SUPPORT")' = HeldAt("SUPPORT") /\ HeldAt("CPU")' = <<Head(q)>> /\ HeldAt("CPU") = <<>>
            /\ Held("mixed")' = Held("mixed") /\ Held("gpu")' = Held("gpu")
        BY <3>2, <3>4, <3>6 DEF HeldAt, Workers
      <4>2. /\ stage_work_queue'["CPU"] = Tail(q) /\ stage_work_queue["CPU"] = q
            /\ stage_work_queue'["MIXED"] = stage_work_queue["MIXED"]
            /\ stage_work_queue'["GPU"] = stage_work_queue["GPU"]
        BY <3>3, <3>6 DEF Stages, q
      <4>3. FromSUPPORT' = FromSUPPORT
        BY <3>4, <4>1 DEF FromSUPPORT
      <4>4. <<Head(q)>> \o (Tail(q) \o FromSUPPORT) = <<>> \o (q \o FromSUPPORT)
        BY <3>1, <3>5, ShiftHead, ZenonT(30)
      <4>5. FromCPU' = FromCPU
        BY <4>1, <4>2, <4>3, <4>4 DEF FromCPU
      <4> QED BY <3>4, <4>1, <4>2, <4>5 DEF Ring, FromGPU, FromMIXED
    <3>7. CASE w = "mixed"
      <4>1. /\ HeldAt("SUPPORT")' = HeldAt("SUPPORT") /\ HeldAt("CPU")' = HeldAt("CPU")
            /\ Held("mixed")' = <<Head(q)>> /\ Held("mixed") = <<>> /\ Held("gpu")' = Held("gpu")
        BY <3>2, <3>4, <3>7 DEF HeldAt, Workers
      <4>2. /\ stage_work_queue'["MIXED"] = Tail(q) /\ stage_work_queue["MIXED"] = q
            /\ stage_work_queue'["CPU"] = stage_work_queue["CPU"]
            /\ stage_work_queue'["GPU"] = stage_work_queue["GPU"]
        BY <1>2, <3>3, <3>7 DEF Stages, q
      <4>3. FromCPU' = FromCPU
        BY <3>4, <4>1, <4>2 DEF FromCPU, FromSUPPORT
      <4>4. <<Head(q)>> \o (Tail(q) \o FromCPU) = <<>> \o (q \o FromCPU)
        BY <3>1, <3>5, ShiftHead, ZenonT(30)
      <4>5. FromMIXED' = FromMIXED
        BY <4>1, <4>2, <4>3, <4>4 DEF FromMIXED
      <4> QED BY <3>4, <4>1, <4>2, <4>5 DEF Ring, FromGPU
    <3>8. CASE w = "gpu"
      <4>1. /\ HeldAt("SUPPORT")' = HeldAt("SUPPORT") /\ HeldAt("CPU")' = HeldAt("CPU")
            /\ Held("gpu")' = <<Head(q)>> /\ Held("gpu") = <<>> /\ Held("mixed")' = Held("mixed")
        BY <3>2, <3>4, <3>8 DEF HeldAt, Workers
      <4>2. /\ stage_work_queue'["GPU"] = Tail(q) /\ stage_work_queue["GPU"] = q
            /\ stage_work_queue'["CPU"] = stage_work_queue["CPU"]
            /\ stage_work_queue'["MIXED"] = stage_work_queue["MIXED"]
        BY <1>2, <3>3, <3>8 DEF Stages, q
      <4>3. FromMIXED' = FromMIXED
        BY <3>4, <4>1, <4>2 DEF FromMIXED, FromCPU, FromSUPPORT
      <4>4. <<Head(q)>> \o (Tail(q) \o FromMIXED) = <<>> \o (q \o FromMIXED)
        BY <3>1, <3>5, ShiftHead, ZenonT(30)
      <4>5. FromGPU' = FromGPU
        BY <4>1, <4>2, <4>3, <4>4 DEF FromGPU
      <4> QED BY <3>4, <4>5 DEF Ring
    <3> QED BY <1>1, <1>2, <3>6, <3>7, <3>8 DEF Workers
  <2>7. Outputs' \in Int /\ Outputs' <= Outputs
    BY <2>5, SMT
  <2> QED BY <1>1, <2>2, <2>3, <2>6, <2>7, StageMoves
<1> QED BY <1>1, <1>5, <1>6

\* A stage passes its index on: it moves from the hand to the end of the next queue.
LEMMA ReleaseIdxsOrder ==
  ASSUME ExecutorInv, OrderInv, NEW w \in Workers, ReleaseIdxs(w)
  PROVE  OrderInv'
<1>1. /\ UNCHANGED <<free_queue, ready_queue, in_use_queue, stops, tasks, batch, user, exec_error>>
      /\ pc[w] \in {"release", "abandon"} /\ at[w] # "GPU"
      /\ idx' = [idx EXCEPT ![w] = kInvalidIdx]
      /\ stage_work_queue' = IF idx[w] = kInvalidIdx THEN stage_work_queue
           ELSE [stage_work_queue EXCEPT ![NextStage[at[w]]] = Append(@, idx[w])]
  BY DEF ReleaseIdxs
<1>2. \/ /\ at[w] = "SUPPORT" /\ pc[w] = "release"
         /\ at' = [at EXCEPT ![w] = "CPU"] /\ pc' = [pc EXCEPT ![w] = "acquire"]
      \/ pc' = [pc EXCEPT ![w] = "post"] /\ at' = at
  BY DEF ReleaseIdxs, Goto
<1>3. /\ pc \in [Workers -> Positions] /\ idx \in [Workers -> Indices \cup {kInvalidIdx}]
      /\ stage_work_queue \in [Stages -> Seq(Indices)] /\ at \in [Workers -> Stages]
      /\ at["mixed"] = "MIXED" /\ at["gpu"] = "GPU" /\ at["cpu"] \in {"SUPPORT", "CPU"}
  BY DEF ExecutorInv, TypeOK, WorkerType, QueueType, PlaceInv
<1>4. (pc[w] = "release" => idx[w] # kInvalidIdx) /\ w \in {"cpu", "mixed"}
  BY <1>1, <1>3 DEF ExecutorInv, PlaceInv, Workers
<1>5. w = "cpu" => ~Waiting
  BY <1>1 DEF Waiting
<1>6. CASE idx[w] = kInvalidIdx
  <2>1. idx' = idx
    BY <1>1, <1>3, <1>6
  <2>2. UNCHANGED <<queues, stops, tasks, at, idx, batch, user>> /\ exec_error' = exec_error
    BY <1>1, <1>2, <1>4, <1>6, <2>1 DEF queues
  <2>3. "post" \in Positions /\ pc' = [pc EXCEPT ![w] = "post"]
    BY <1>2, <1>4, <1>6 DEF Positions
  <2> QED BY <1>5, <1>6, <2>2, <2>3, MoveOnOrder
<1>7. CASE idx[w] # kInvalidIdx
  <2>1. Sequences
    BY RingParts DEF ExecutorInv, TypeOK
  <2>2. HandInv'
    BY <1>1, <1>2, <1>3 DEF OrderInv, HandInv
  <2>3. Waiting' <=> Waiting
    <3>1. CASE w = "cpu"
      BY <1>2, <1>3, <1>5, <3>1 DEF Waiting, Workers
    <3>2. CASE w = "mixed"
      BY <1>2, <1>3, <3>2 DEF Waiting, Workers
    <3> QED BY <1>4, <3>1, <3>2
  <2>4. Running' <=> Running
    BY <1>2, <1>3, <1>4 DEF Running, Workers
  <2>5. Outputs' \in Int /\ Outputs' <= Outputs
    <3>1. Outputs' = Outputs
      BY <1>1, <2>4 DEF Outputs, One
    <3>2. Bounds
      BY RingBounds DEF ExecutorInv, TypeOK
    <3> QED BY <3>1, <3>2, SMT DEF Bounds
  <2>6. Ring' = Ring
    <3> DEFINE i == idx[w]
               n == NextStage[at[w]]
               q == stage_work_queue[n]
    <3>1. /\ i \in Indices
          /\ \/ w = "cpu" /\ at["cpu"] = "SUPPORT" /\ n = "CPU"
             \/ w = "cpu" /\ at["cpu"] = "CPU" /\ n = "MIXED" /\ at' = at
             \/ w = "mixed" /\ n = "GPU" /\ at'["cpu"] = at["cpu"]
      BY <1>1, <1>2, <1>3, <1>4, <1>7, SMTT(30) DEF NextStage, Workers
    <3>2. q \in Seq(Indices)
      BY <1>3, <3>1 DEF Stages
    <3>3. /\ \A v \in Workers : v # w => Held(v)' = Held(v)
          /\ Held(w) = <<i>> /\ Held(w)' = <<>>
      BY <1>1, <1>3, <1>7 DEF Held
    <3>4. \A s \in Stages : stage_work_queue'[s] = IF s = n THEN Append(q, i) ELSE stage_work_queue[s]
      BY <1>1, <1>3, <1>7
    <3>5. in_use_queue' = in_use_queue /\ ready_queue' = ready_queue /\ free_queue' = free_queue
      BY <1>1
    <3>6. /\ FromSUPPORT \in Seq(Indices) /\ FromCPU \in Seq(Indices) /\ FromMIXED \in Seq(Indices)
          /\ free_queue \in Seq(Indices)
          /\ stage_work_queue["CPU"] \in Seq(Indices) /\ stage_work_queue["MIXED"] \in Seq(Indices)
      BY <2>1 DEF Sequences, Stages
    <3>7. "cpu" \in Workers /\ "mixed" \in Workers /\ "gpu" \in Workers
      BY DEF Workers
    <3>8. "CPU" \in Stages /\ "MIXED" \in Stages /\ "GPU" \in Stages
      BY DEF Stages
    <3>9. w = "cpu" /\ at["cpu"] = "SUPPORT" => at' = at \/ at'["cpu"] = "CPU"
      BY <1>2, <1>3, <3>7
    <3>21. i \in Indices
      BY <3>1
    <3>22. stage_work_queue["CPU"] \in Seq(Indices) /\ FromSUPPORT \in Seq(Indices)
      BY <3>6
    <3>23. stage_work_queue["MIXED"] \in Seq(Indices) /\ FromCPU \in Seq(Indices)
      BY <3>6
    <3>24. free_queue \in Seq(Indices)
      BY <3>6
    <3> HIDE DEF i, n, q
    <3>10. CASE w = "cpu" /\ at["cpu"] = "SUPPORT" /\ n = "CPU"
      <4>1. /\ HeldAt("SUPPORT") = <<i>> /\ HeldAt("CPU")' = <<>> /\ HeldAt("CPU") = <<>>
            /\ HeldAt("SUPPORT")' = <<>>
            /\ Held("mixed")' = Held("mixed") /\ Held("gpu")' = Held("gpu")
        BY <3>3, <3>7, <3>9, <3>10 DEF HeldAt
      <4>2. /\ stage_work_queue'["CPU"] = Append(q, i) /\ stage_work_queue["CPU"] = q
            /\ stage_work_queue'["MIXED"] = stage_work_queue["MIXED"]
            /\ stage_work_queue'["GPU"] = stage_work_queue["GPU"]
        BY <3>4, <3>8, <3>10 DEF q
      <4>3. Append(q, i) \o (<<>> \o free_queue) = q \o (<<i>> \o free_queue)
        BY <3>21, <3>2, <3>24, ShiftOne, ZenonT(30)
      <4>4. FromCPU' = FromCPU
        BY <3>5, <4>1, <4>2, <4>3 DEF FromCPU, FromSUPPORT
      <4> QED BY <3>5, <4>1, <4>2, <4>4 DEF Ring, FromGPU, FromMIXED
    <3>11. CASE w = "cpu" /\ at["cpu"] = "CPU" /\ n = "MIXED" /\ at' = at
      <4>1. /\ HeldAt("CPU") = <<i>> /\ HeldAt("CPU")' = <<>> /\ HeldAt("SUPPORT") = <<>>
            /\ HeldAt("SUPPORT")' = <<>>
            /\ Held("mixed")' = Held("mixed") /\ Held("gpu")' = Held("gpu")
        BY <3>3, <3>7, <3>11 DEF HeldAt
      <4>2. /\ stage_work_queue'["MIXED"] = Append(q, i) /\ stage_work_queue["MIXED"] = q
            /\ stage_work_queue'["CPU"] = stage_work_queue["CPU"]
            /\ stage_work_queue'["GPU"] = stage_work_queue["GPU"]
        BY <3>4, <3>8, <3>11 DEF q
      <4>3. FromSUPPORT' = FromSUPPORT
        BY <3>5, <4>1 DEF FromSUPPORT
      <4>5. Append(q, i) \o (<<>> \o (stage_work_queue["CPU"] \o FromSUPPORT))
              = q \o (<<i>> \o (stage_work_queue["CPU"] \o FromSUPPORT))
        BY <3>21, <3>2, <3>22, ShiftOver, ZenonT(60)
      <4>6. FromMIXED' = FromMIXED
        BY <4>1, <4>2, <4>3, <4>5 DEF FromMIXED, FromCPU
      <4> QED BY <3>5, <4>1, <4>2, <4>6 DEF Ring, FromGPU
    <3>12. CASE w = "mixed" /\ n = "GPU" /\ at'["cpu"] = at["cpu"]
      <4>1. /\ HeldAt("CPU")' = HeldAt("CPU") /\ HeldAt("SUPPORT")' = HeldAt("SUPPORT")
            /\ Held("mixed") = <<i>> /\ Held("mixed")' = <<>> /\ Held("gpu")' = Held("gpu")
        BY <3>3, <3>7, <3>12 DEF HeldAt
      <4>2. /\ stage_work_queue'["GPU"] = Append(q, i) /\ stage_work_queue["GPU"] = q
            /\ stage_work_queue'["CPU"] = stage_work_queue["CPU"]
            /\ stage_work_queue'["MIXED"] = stage_work_queue["MIXED"]
        BY <3>4, <3>8, <3>12 DEF q
      <4>3. FromCPU' = FromCPU
        BY <3>5, <4>1, <4>2 DEF FromCPU, FromSUPPORT
      <4>5. Append(q, i) \o (<<>> \o (stage_work_queue["MIXED"] \o FromCPU))
              = q \o (<<i>> \o (stage_work_queue["MIXED"] \o FromCPU))
        BY <3>21, <3>2, <3>23, ShiftOver, ZenonT(60)
      <4>6. FromGPU' = FromGPU
        BY <4>1, <4>2, <4>3, <4>5 DEF FromGPU, FromMIXED
      <4> QED BY <3>5, <4>6 DEF Ring
    <3> QED BY ZenonT(40), <3>1, <3>10, <3>11, <3>12
  <2> QED BY <1>1, <2>2, <2>3, <2>5, <2>6, StageMoves
<1> QED BY <1>6, <1>7

\* The GPU stage queues its output; one given up leaves the ring, when the order of those
\* behind it no longer matters.
LEMMA QueueOutputIdxsOrder ==
  ASSUME ExecutorInv, OrderInv, QueueOutputIdxs
  PROVE  OrderInv'
<1>1. /\ UNCHANGED <<free_queue, in_use_queue, stage_work_queue, stops, tasks, at, batch, user, exec_error>>
      /\ pc["gpu"] \in {"release", "abandon"} /\ pc' = [pc EXCEPT !["gpu"] = "idle"]
      /\ idx' = [idx EXCEPT !["gpu"] = kInvalidIdx]
      /\ ready_queue' = IF pc["gpu"] = "release" THEN Append(ready_queue, idx["gpu"]) ELSE ready_queue
  BY DEF QueueOutputIdxs, Goto
<1>2. /\ pc \in [Workers -> Positions] /\ idx \in [Workers -> Indices \cup {kInvalidIdx}]
      /\ "gpu" \in Workers /\ "cpu" \in Workers /\ "mixed" \in Workers
  BY DEF ExecutorInv, TypeOK, WorkerType, Workers
<1>3. /\ pc["gpu"] = "release" => idx["gpu"] # kInvalidIdx
      /\ pc["gpu"] = "abandon" => Stopped
  BY <1>2 DEF ExecutorInv, PlaceInv, StopInv
<1>4. Sequences /\ Bounds
  BY RingParts, RingBounds DEF ExecutorInv, TypeOK
<1>5. HandInv'
  BY <1>1, <1>2 DEF OrderInv, HandInv
<1>6. Waiting' <=> Waiting
  BY <1>1, <1>2 DEF Waiting
<1>7. ~Running' /\ (Running <=> pc["gpu"] = "release")
  BY <1>1, <1>2 DEF Running
<1>8. /\ in_use_queue \in Seq(Indices) /\ ready_queue \in Seq(Indices) /\ FromMIXED \in Seq(Indices)
      /\ stage_work_queue["GPU"] \in Seq(Indices)
      /\ Len(in_use_queue) \in Nat /\ Len(ready_queue) \in Nat
  BY <1>4 DEF Sequences, Stages, Bounds
<1>9. CASE idx["gpu"] = kInvalidIdx
  <2>1. idx' = idx /\ ready_queue' = ready_queue
    BY <1>1, <1>2, <1>3, <1>9
  <2>2. UNCHANGED <<queues, stops, tasks, at, idx, batch, user>> /\ exec_error' = exec_error
    BY <1>1, <2>1 DEF queues
  <2>3. "idle" \in Positions /\ pc' = [pc EXCEPT !["gpu"] = "idle"]
    BY <1>1 DEF Positions
  <2> QED BY <1>2, <1>9, <2>2, <2>3, MoveOnOrder
<1>10. CASE idx["gpu"] # kInvalidIdx
  <2> DEFINE i == idx["gpu"]
             rest == stage_work_queue["GPU"] \o FromMIXED
  <2>1. i \in Indices
    BY <1>2, <1>10
  <2>2. Held("gpu") = <<i>> /\ Held("gpu")' = <<>> /\ FromMIXED' = FromMIXED
    <3>1. Held("mixed")' = Held("mixed") /\ Held("cpu")' = Held("cpu") /\ Held("gpu") = <<i>> /\ Held("gpu")' = <<>>
      BY <1>1, <1>2, <1>10 DEF Held
    <3>2. HeldAt("CPU")' = HeldAt("CPU") /\ HeldAt("SUPPORT")' = HeldAt("SUPPORT")
      BY <1>1, <3>1 DEF HeldAt
    <3> QED BY <1>1, <3>1, <3>2 DEF FromMIXED, FromCPU, FromSUPPORT
  <2>3. CASE pc["gpu"] = "release"
    <3>1. Append(ready_queue, i) \o (<<>> \o (stage_work_queue["GPU"] \o FromMIXED))
            = ready_queue \o (<<i>> \o (stage_work_queue["GPU"] \o FromMIXED))
      <4> HIDE DEF i
      <4> QED BY <1>8, <2>1, ShiftOver, ZenonT(60)
    <3>2. Ring' = Ring
      BY <1>1, <2>2, <2>3, <3>1 DEF Ring, FromGPU
    <3>3. Len(Append(ready_queue, i)) = Len(ready_queue) + 1
      BY <1>8, <2>1, SMT
    <3>4. Outputs' \in Int /\ Outputs' <= Outputs
      BY <1>1, <1>7, <1>8, <2>3, <3>3, SMT DEF Outputs, One
    <3> QED BY <1>1, <1>5, <1>6, <3>2, <3>4, StageMoves
  <2>4. CASE pc["gpu"] = "abandon"
    <3>1. Ring = in_use_queue \o (ready_queue \o (<<i>> \o rest))
          /\ Ring' = in_use_queue \o (ready_queue \o (<<>> \o rest))
      BY <1>1, <2>2, <2>4 DEF Ring, FromGPU
    <3>2. rest \in Seq(Indices) /\ <<i>> \o rest \in Seq(Indices) /\ <<>> \o rest \in Seq(Indices) /\ <<>> \o rest = rest
      BY <1>8, <2>1, SMT
    <3> HIDE DEF rest, i
    <3>3. Injective(Ring)'
      <4>1. Injective(in_use_queue \o (ready_queue \o (<<i>> \o rest)))
        BY <3>1 DEF OrderInv, RingInv
      <4>2. rest \in Seq(Indices) /\ in_use_queue \in Seq(Indices) /\ ready_queue \in Seq(Indices)
        BY <1>8, <3>2
      <4>3. Injective(in_use_queue \o (ready_queue \o (<<>> \o rest)))
        BY <2>1, <4>1, <4>2, DroppedAfter, ZenonT(30)
      <4> QED BY <3>1, <4>3 DEF Injective
    <3>4. InOrder(Outputs)'
      <4>1. Outputs' = Outputs /\ Outputs = Len(in_use_queue) + Len(ready_queue)
        BY <1>1, <1>7, <1>8, <2>4, SMTT(30) DEF Outputs, One
      <4>2. InOrder(Outputs)
        BY DEF OrderInv, RingInv
      <4>3. ASSUME NEW k \in 1 .. Len(in_use_queue) + Len(ready_queue) PROVE Ring'[k] = Ring[k]
        BY <1>8, <3>1, <3>2, SamePrefix, SMT
      <4> QED BY <1>1, <4>1, <4>2, <4>3 DEF InOrder, user
    <3>5. Stopped'
      BY <1>1, <1>3, <2>4 DEF Stopped, stops
    <3>6. RingInv'
      BY <3>3, <3>4, <3>5 DEF RingInv
    <3>7. SharedInv'
      BY <1>1 DEF OrderInv, SharedInv, stops, user
    <3> QED BY <1>5, <3>6, <3>7 DEF OrderInv
  <2> QED BY <1>1, <2>3, <2>4
<1> QED BY <1>9, <1>10

\* The SUPPORT stage takes a free index, and numbers it next.
LEMMA AcquireFreeOrder ==
  ASSUME ExecutorInv, OrderInv, AcquireFree
  PROVE  OrderInv'
<1>1. /\ UNCHANGED <<ready_queue, in_use_queue, stage_work_queue, stops, tasks, at, user, exec_error>>
      /\ pc["cpu"] = "acquire" /\ at["cpu"] = "SUPPORT"
  BY DEF AcquireFree
<1>2. /\ pc \in [Workers -> Positions] /\ idx \in [Workers -> Indices \cup {kInvalidIdx}]
      /\ "gpu" \in Workers /\ "cpu" \in Workers /\ "mixed" \in Workers
  BY DEF ExecutorInv, TypeOK, WorkerType, Workers
<1>3. idx["cpu"] = kInvalidIdx /\ Waiting
  BY <1>1, <1>2, WorkerPositions DEF Waiting
<1>4. CASE /\ stage_work_stop["SUPPORT"] /\ idx' = [idx EXCEPT !["cpu"] = kInvalidIdx]
           /\ pc' = [pc EXCEPT !["cpu"] = "acquired"] /\ free_queue' = free_queue /\ batch' = batch
  <2>1. idx' = idx
    BY <1>2, <1>3, <1>4
  <2>2. UNCHANGED <<queues, stops, tasks, at, idx, batch, user>> /\ exec_error' = exec_error
    BY <1>1, <1>4, <2>1 DEF queues
  <2>3. Stopped'
    BY <1>1, <1>4 DEF ExecutorInv, StopInv, Stopped, stops, Stages
  <2>4. "acquired" \in Positions
    BY DEF Positions
  <2> QED BY <1>2, <1>3, <1>4, <2>2, <2>3, <2>4, MoveOnOrder
<1>5. CASE /\ pc' = [pc EXCEPT !["cpu"] = "window"] /\ free_queue' = free_queue /\ batch' = batch /\ idx' = idx
  <2>1. UNCHANGED <<queues, stops, tasks, at, idx, batch, user>> /\ exec_error' = exec_error
    BY <1>1, <1>5 DEF queues
  <2>2. "window" \in Positions
    BY DEF Positions
  <2> QED BY <1>2, <1>3, <1>5, <2>1, <2>2, MoveOnOrder
<1>6. CASE /\ free_queue # <<>> /\ idx' = [idx EXCEPT !["cpu"] = Head(free_queue)]
           /\ pc' = [pc EXCEPT !["cpu"] = "acquired"] /\ free_queue' = Tail(free_queue)
           /\ batch' = [batch EXCEPT ![Head(free_queue)] = cpu_runs - tasks["cpu"]]
  <2> DEFINE h == Head(free_queue)
  <2>1. Sequences /\ Bounds
    BY RingParts, RingBounds DEF ExecutorInv, TypeOK
  <2>2. free_queue \in Seq(Indices) /\ h \in Indices /\ h # kInvalidIdx /\ Len(Tail(free_queue)) = Len(free_queue) - 1
        /\ Len(free_queue) \in Nat /\ Len(free_queue) > 0 /\ h = free_queue[1]
    <3>1. free_queue \in Seq(Indices)
      BY <2>1 DEF Sequences
    <3>2. h \in Indices /\ Len(Tail(free_queue)) = Len(free_queue) - 1
          /\ Len(free_queue) \in Nat /\ Len(free_queue) > 0 /\ h = free_queue[1]
      BY <1>6, <3>1, SMT
    <3> QED BY <3>1, <3>2, SMT DEF Indices, kInvalidIdx
  <2>3. Ring' = Ring
    <3>1. /\ Held("mixed")' = Held("mixed") /\ Held("gpu")' = Held("gpu")
          /\ HeldAt("SUPPORT") = <<>> /\ HeldAt("SUPPORT")' = <<h>> /\ HeldAt("CPU") = <<>> /\ HeldAt("CPU")' = <<>>
      BY <1>1, <1>2, <1>3, <1>6, <2>2 DEF Held, HeldAt
    <3>2. <<h>> \o Tail(free_queue) = <<>> \o free_queue
      BY <1>6, <2>2, ShiftFirst
    <3>3. FromSUPPORT' = FromSUPPORT
      BY <1>6, <3>1, <3>2 DEF FromSUPPORT
    <3> QED BY <1>1, <3>1, <3>3 DEF Ring, FromGPU, FromMIXED, FromCPU
  <2>4. Ring[Busy + 1] = h /\ Busy + 1 \in 1 .. Len(Ring)
    <3> DEFINE d == Len(free_queue)
    <3>1. /\ stage_work_queue["CPU"] \in Seq(Indices) /\ stage_work_queue["MIXED"] \in Seq(Indices)
          /\ stage_work_queue["GPU"] \in Seq(Indices)
      BY <2>1 DEF Sequences, Stages
    <3>2. FromTheEnd(free_queue, d, h)
      BY <2>2, SMT DEF FromTheEnd
    <3> HIDE DEF d, h
    <3>3. FromTheEnd(FromSUPPORT, d, h)
      BY <2>1, <3>2, Preceded DEF Sequences, FromSUPPORT
    <3>4. FromTheEnd(FromCPU, d, h)
      <4>1. FromTheEnd(stage_work_queue["CPU"] \o FromSUPPORT, d, h)
        BY <2>1, <3>1, <3>3, Preceded DEF Sequences
      <4> QED BY <2>1, <4>1, Preceded DEF Sequences, FromCPU
    <3>5. FromTheEnd(FromMIXED, d, h)
      <4>1. FromTheEnd(stage_work_queue["MIXED"] \o FromCPU, d, h)
        BY <2>1, <3>1, <3>4, Preceded DEF Sequences
      <4> QED BY <2>1, <4>1, Preceded DEF Sequences, FromMIXED
    <3>6. FromTheEnd(FromGPU, d, h)
      <4>1. FromTheEnd(stage_work_queue["GPU"] \o FromMIXED, d, h)
        BY <2>1, <3>1, <3>5, Preceded DEF Sequences
      <4> QED BY <2>1, <4>1, Preceded DEF Sequences, FromGPU
    <3>7. FromTheEnd(Ring, d, h)
      <4>1. FromTheEnd(ready_queue \o FromGPU, d, h)
        BY <2>1, <3>1, <3>6, Preceded DEF Sequences
      <4> QED BY <2>1, <4>1, Preceded DEF Sequences, Ring
    <3>8. d \in 1 .. Len(Ring) /\ Ring[Len(Ring) - d + 1] = h
      BY <3>7 DEF FromTheEnd
    <3>9. Len(Ring) \in Nat /\ Len(free_queue) \in Nat
      BY <2>1 DEF Bounds
    <3>10. PICK n \in Nat, m \in Nat : n = Len(Ring) /\ m = Len(free_queue)
      BY <3>9
    <3>11. m \in 1 .. n /\ Ring[n - m + 1] = h
      BY <3>8, <3>10 DEF d
    <3>12. Busy + 1 = n - m + 1 /\ n - m + 1 \in 1 .. n
      BY <3>10, <3>11, SMTT(30) DEF Busy
    <3> QED BY <3>10, <3>11, <3>12
  <2>5. ASSUME NEW n \in Nat, n <= Busy, InOrder(n), NEW k \in 1 .. n PROVE batch'[Ring[k]] = released + k
    <3>0. Busy \in Nat /\ Len(Ring) \in Nat /\ Busy <= Len(Ring) /\ Ring \in Seq(Indices)
      BY <2>1 DEF Sequences, Bounds
    <3>1. Ring[k] \in Indices /\ k \in 1 .. Len(Ring) /\ k # Busy + 1
      <4>1. k \in 1 .. Len(Ring) /\ k # Busy + 1
        BY <2>5, <3>0, SMTT(30)
      <4> QED BY <3>0, <4>1, SMTT(30)
    <3>2. Ring[k] # h
      BY <2>4, <3>1 DEF OrderInv, RingInv, Injective
    <3>3. batch'[Ring[k]] = batch[Ring[k]]
      BY <1>6, <3>1, <3>2 DEF ExecutorInv, TypeOK, UserType
    <3> QED BY <2>5, <3>3 DEF InOrder
  <2>6. UNCHANGED <<in_use_queue, ready_queue, released, cpu_runs, tasks, shared, main, ready_stop>>
        /\ (Stopped' <=> Stopped)
    BY <1>1 DEF user, stops, Stopped
  <2>7. /\ cpu_runs \in Int /\ tasks["cpu"] \in Int /\ released \in Int /\ batch \in [Indices -> Nat]
    BY SMT DEF ExecutorInv, TypeOK, UserType, WorkerType, Workers
  <2>8. InOrder(Outputs)'
    <3>1. Outputs' = Outputs
      BY <1>2, <1>6, <2>6 DEF Outputs, Running, One
    <3>2. Outputs \in Nat /\ Outputs <= Busy /\ InOrder(Outputs)
      BY <2>1 DEF Bounds, OrderInv, RingInv
    <3>3. \A k \in 1 .. Outputs : batch'[Ring[k]] = released + k
      BY <2>5, <3>2
    <3> QED BY <2>3, <2>6, <3>1, <3>3 DEF InOrder
  <2>9. Busy' = Busy + 1
    BY <1>6, <2>1, <2>2, <2>3, SMTT(30) DEF Busy, Bounds
  <2>10. ASSUME ~Stopped' PROVE InOrder(Busy)'
         /\ (cpu_runs - tasks["cpu"] = released + Busy + One(Waiting))'
    <3>1. InOrder(Busy) /\ cpu_runs - tasks["cpu"] = released + Busy + One(Waiting) /\ Busy \in Nat
      BY <2>1, <2>6, <2>10 DEF OrderInv, RingInv, Bounds
    <3>2. One(Waiting) = 1 /\ One(Waiting)' = 0
      BY <1>2, <1>3, <1>6 DEF Waiting, One
    <3>3. cpu_runs - tasks["cpu"] = released + Busy + 1
      BY <3>1, <3>2
    <3>4. batch'[Ring[Busy + 1]] = released + (Busy + 1)
      BY <1>6, <2>2, <2>4, <2>7, <3>1, <3>3, SMTT(30)
    <3>5. Busy <= Busy
      BY <3>1, SMT
    <3>6. \A k \in 1 .. Busy : batch'[Ring[k]] = released + k
      BY <2>5, <3>1, <3>5
    <3>7. ASSUME NEW k \in 1 .. Busy + 1 PROVE batch'[Ring[k]] = released + k
      <4>1. k \in 1 .. Busy \/ k = Busy + 1
        BY <3>1, SMT
      <4> QED BY <3>4, <3>6, <4>1
    <3>8. InOrder(Busy)'
      BY <2>3, <2>6, <2>9, <3>7 DEF InOrder
    <3>9. (cpu_runs - tasks["cpu"] = released + Busy + One(Waiting))'
      <4>1. cpu_runs - tasks["cpu"] = released + (Busy + 1) + 0
        BY <2>7, <3>1, <3>3, SMTT(30)
      <4> QED BY <2>6, <2>9, <3>2, <4>1
    <3> QED BY <3>8, <3>9
  <2>11. RingInv'
    <3>1. Injective(Ring)'
      BY <2>3 DEF OrderInv, RingInv, Injective
    <3> QED BY <2>8, <2>10, <3>1 DEF RingInv
  <2>12. HandInv'
    BY <1>2, <1>6 DEF OrderInv, HandInv
  <2>13. SharedInv'
    BY <2>6 DEF OrderInv, SharedInv
  <2> QED BY <2>11, <2>12, <2>13 DEF OrderInv
<1> QED BY <1>4, <1>5, <1>6 DEF AcquireFree, Goto

\* The user returns the oldest output: the ring turns by one.
LEMMA ReleaseOutputsOrder ==
  ASSUME ExecutorInv, OrderInv, ReleaseOutputs
  PROVE  OrderInv'
<1> DEFINE h == Head(in_use_queue)
<1>1. /\ UNCHANGED <<ready_queue, stage_work_queue, stops, pc, at, idx, tasks, exec_error, batch, cpu_runs, shared>>
      /\ in_use_queue # <<>> /\ main = "api" /\ main' = main
      /\ free_queue' = Append(free_queue, h) /\ in_use_queue' = Tail(in_use_queue)
      /\ released' = released + 1
  BY DEF ReleaseOutputs, workers
<1>2. Sequences /\ Bounds
  BY RingParts, RingBounds DEF ExecutorInv, TypeOK
<1>3. /\ in_use_queue \in Seq(Indices) /\ ready_queue \in Seq(Indices) /\ free_queue \in Seq(Indices)
      /\ FromGPU \in Seq(Indices) /\ Len(in_use_queue) \in Nat
  BY <1>2 DEF Sequences, Bounds
<1>4. h \in Indices /\ Len(Tail(in_use_queue)) = Len(in_use_queue) - 1 /\ Len(Append(free_queue, h)) = Len(free_queue) + 1
  BY <1>1, <1>3, SMTT(30)
<1> HIDE DEF h
<1>5. Grown(FromGPU, FromGPU', h)
  <2>1. /\ Held("mixed")' = Held("mixed") /\ Held("gpu")' = Held("gpu")
        /\ HeldAt("SUPPORT")' = HeldAt("SUPPORT") /\ HeldAt("CPU")' = HeldAt("CPU")
    BY <1>1 DEF Held, HeldAt
  <2>2. /\ stage_work_queue["CPU"] \in Seq(Indices) /\ stage_work_queue["MIXED"] \in Seq(Indices)
        /\ stage_work_queue["GPU"] \in Seq(Indices) /\ HeldAt("SUPPORT") \in Seq(Indices)
        /\ HeldAt("CPU") \in Seq(Indices) /\ Held("mixed") \in Seq(Indices) /\ Held("gpu") \in Seq(Indices)
    BY <1>2 DEF Sequences, Stages
  <2>3. Grown(FromSUPPORT, FromSUPPORT', h)
    <3>1. Grown(free_queue, free_queue', h)
      BY <1>1, <1>3 DEF Grown
    <3>2. Grown(HeldAt("SUPPORT") \o free_queue, HeldAt("SUPPORT") \o free_queue', h)
      BY <1>4, <2>2, <3>1, Grows
    <3>3. FromSUPPORT = HeldAt("SUPPORT") \o free_queue
          /\ FromSUPPORT' = HeldAt("SUPPORT") \o free_queue'
      BY <2>1 DEF FromSUPPORT
    <3> QED BY <3>2, <3>3
  <2>4. Grown(FromCPU, FromCPU', h)
    <3>1. Grown(stage_work_queue["CPU"] \o FromSUPPORT, stage_work_queue["CPU"] \o FromSUPPORT', h)
      BY <1>4, <2>2, <2>3, Grows
    <3>2. Grown(HeldAt("CPU") \o (stage_work_queue["CPU"] \o FromSUPPORT),
                HeldAt("CPU") \o (stage_work_queue["CPU"] \o FromSUPPORT'), h)
      BY <1>4, <2>2, <3>1, Grows
    <3>3. FromCPU = HeldAt("CPU") \o (stage_work_queue["CPU"] \o FromSUPPORT)
          /\ FromCPU' = HeldAt("CPU") \o (stage_work_queue["CPU"] \o FromSUPPORT')
      BY <1>1, <2>1 DEF FromCPU
    <3> QED BY <3>2, <3>3
  <2>5. Grown(FromMIXED, FromMIXED', h)
    <3>1. Grown(stage_work_queue["MIXED"] \o FromCPU, stage_work_queue["MIXED"] \o FromCPU', h)
      BY <1>4, <2>2, <2>4, Grows
    <3>2. Grown(Held("mixed") \o (stage_work_queue["MIXED"] \o FromCPU),
                Held("mixed") \o (stage_work_queue["MIXED"] \o FromCPU'), h)
      BY <1>4, <2>2, <3>1, Grows
    <3>3. FromMIXED = Held("mixed") \o (stage_work_queue["MIXED"] \o FromCPU)
          /\ FromMIXED' = Held("mixed") \o (stage_work_queue["MIXED"] \o FromCPU')
      BY <1>1, <2>1 DEF FromMIXED
    <3> QED BY <3>2, <3>3
  <2>6. Grown(FromGPU, FromGPU', h)
    <3>1. Grown(stage_work_queue["GPU"] \o FromMIXED, stage_work_queue["GPU"] \o FromMIXED', h)
      BY <1>4, <2>2, <2>5, Grows
    <3>2. Grown(Held("gpu") \o (stage_work_queue["GPU"] \o FromMIXED),
                Held("gpu") \o (stage_work_queue["GPU"] \o FromMIXED'), h)
      BY <1>4, <2>2, <3>1, Grows
    <3>3. FromGPU = Held("gpu") \o (stage_work_queue["GPU"] \o FromMIXED)
          /\ FromGPU' = Held("gpu") \o (stage_work_queue["GPU"] \o FromMIXED')
      BY <1>1, <2>1 DEF FromGPU
    <3> QED BY <3>2, <3>3
  <2> QED BY <2>6
<1> DEFINE z == ready_queue \o FromGPU
<1>6. Ring = in_use_queue \o z /\ Ring' = Tail(in_use_queue) \o Append(z, h) /\ z \in Seq(Indices)
  <2>1. Grown(ready_queue \o FromGPU, ready_queue \o FromGPU', h)
    BY <1>3, <1>4, <1>5, Grows
  <2>2. ready_queue \o FromGPU' = Append(z, h) /\ z \in Seq(Indices)
    BY <2>1 DEF Grown
  <2> QED BY <1>1, <2>2 DEF Ring
<1> HIDE DEF z
<1>7. Injective(Ring)'
  <2>1. Injective(in_use_queue \o z)
    BY <1>6 DEF OrderInv, RingInv
  <2>2. Injective(Tail(in_use_queue) \o Append(z, h))
    BY <1>1, <1>3, <1>6, <2>1, Rotated DEF h
  <2> QED BY <1>6, <2>2 DEF Injective
<1>8. /\ Len(Ring') = Len(Ring)
      /\ \A k \in 1 .. Len(Ring) - 1 : Ring'[k] = Ring[k + 1]
  <2>1. /\ Len(Ring') = Len(Ring) /\ Len(Ring) \in Nat
        /\ \A k \in 1 .. Len(Ring) : Ring'[k] = Ring[IF k = Len(Ring) THEN 1 ELSE k + 1]
    BY <1>1, <1>3, <1>6, RotatedAt, ZenonT(30) DEF h
  <2> QED BY <2>1, SMT
<1>9. ASSUME NEW n \in Nat, n <= Busy, InOrder(n), NEW k \in 1 .. n - 1 PROVE batch[Ring'[k]] = (released + 1) + k
  <2>1. k \in 1 .. Len(Ring) - 1 /\ k + 1 \in 1 .. n /\ released \in Int
    BY <1>2, <1>9, SMTT(30) DEF Bounds, ExecutorInv, TypeOK, UserType
  <2>2. Ring'[k] = Ring[k + 1]
    BY <1>8, <2>1
  <2>3. batch[Ring[k + 1]] = released + (k + 1)
    BY <1>9, <2>1 DEF InOrder
  <2>4. released + (k + 1) = (released + 1) + k
    BY <2>1, SMT
  <2> QED BY <2>2, <2>3, <2>4
<1>10. Busy' = Busy - 1 /\ Outputs' = Outputs - 1
  <2>1. Busy' = Busy - 1
    BY <1>1, <1>2, <1>4, <1>8, SMTT(30) DEF Busy, Bounds
  <2>2. One(Running)' = One(Running) /\ One(Running) \in Int
    BY <1>1, SMTT(30) DEF Running, One
  <2>3. Outputs' = Outputs - 1
    BY <1>1, <1>2, <1>3, <1>4, <2>2, SMTT(30) DEF Outputs, Bounds
  <2> QED BY <2>1, <2>3
<1>11. InOrder(Outputs)'
  <2>1. Outputs \in Nat /\ Outputs <= Busy /\ InOrder(Outputs)
    BY <1>2 DEF Bounds, OrderInv, RingInv
  <2>2. \A k \in 1 .. Outputs - 1 : batch[Ring'[k]] = (released + 1) + k
    BY <1>9, <2>1
  <2> QED BY <1>1, <1>10, <2>2 DEF InOrder
<1>12. ASSUME ~Stopped' PROVE InOrder(Busy)'
       /\ (cpu_runs - tasks["cpu"] = released + Busy + One(Waiting))'
  <2>1. InOrder(Busy) /\ cpu_runs - tasks["cpu"] = released + Busy + One(Waiting)
    BY <1>1, <1>12 DEF OrderInv, RingInv, Stopped, stops
  <2>2. Busy \in Nat /\ Busy <= Busy
    BY <1>2, SMT DEF Bounds
  <2>3. \A k \in 1 .. Busy - 1 : batch[Ring'[k]] = (released + 1) + k
    BY <1>9, <2>1, <2>2
  <2>4. InOrder(Busy)'
    BY <1>1, <1>10, <2>3 DEF InOrder
  <2>5. One(Waiting)' = One(Waiting) /\ released \in Int
    BY <1>1, SMTT(30) DEF Waiting, ExecutorInv, TypeOK, UserType
  <2>6. released + Busy = (released + 1) + (Busy - 1)
    BY <2>2, <2>5, SMT
  <2> QED BY <1>1, <1>10, <2>1, <2>4, <2>5, <2>6
<1>13. RingInv'
  BY <1>7, <1>11, <1>12 DEF RingInv
<1>14. HandInv'
  BY <1>1 DEF OrderInv, HandInv
<1>15. SharedInv'
  <2>1. SharedInv /\ shared \in Int /\ released \in Int
    BY SMT DEF OrderInv, ExecutorInv, TypeOK, UserType
  <2> QED BY <1>1, <1>3, <1>4, <2>1, SMTT(30) DEF SharedInv, One
<1> QED BY <1>13, <1>14, <1>15 DEF OrderInv

\* A step of the user or of SignalStop that leaves the queues alone.
LEMMA UserElsewhere ==
  ASSUME ExecutorInv, OrderInv, UNCHANGED <<queues, pc, at, idx, batch, released, cpu_runs>>,
         tasks'["cpu"] = tasks["cpu"], Stopped => Stopped', SharedInv'
  PROVE  OrderInv'
<1>1. (Waiting' <=> Waiting) /\ (Running' <=> Running)
  BY DEF Waiting, Running
<1>2. cpu_runs \in Int /\ tasks["cpu"] \in Int
  BY SMT DEF ExecutorInv, TypeOK, UserType, WorkerType, Workers
<1>3. cpu_runs' \in Int /\ tasks'["cpu"] \in Int /\ at'["cpu"] = at["cpu"]
  BY <1>2
<1>4. cpu_runs' - tasks'["cpu"] - One(Waiting)' = cpu_runs - tasks["cpu"] - One(Waiting)
  <2>1. One(Waiting)' = One(Waiting)
    BY <1>1 DEF One
  <2> QED BY <2>1
<1>5. RingInv'
  <2>1. RingInv /\ UNCHANGED <<queues, idx, batch, released>>
    BY DEF OrderInv
  <2> QED BY <1>1, <1>3, <1>4, <2>1, Elsewhere
<1>6. HandInv'
  BY DEF OrderInv, HandInv
<1> QED BY <1>5, <1>6 DEF OrderInv

\* RunCPU adds to the work and to the number of batches.
LEMMA ScheduleCPUOrder ==
  ASSUME ExecutorInv, OrderInv, ScheduleCPU
  PROVE  OrderInv'
<1>1. /\ UNCHANGED <<queues, pc, at, idx, batch, released, stops, exec_error, main, shared>>
      /\ cpu_runs' = cpu_runs + 1 /\ tasks' = [tasks EXCEPT !["cpu"] = @ + 1]
  BY DEF ScheduleCPU
<1>2. (Waiting' <=> Waiting) /\ (Running' <=> Running) /\ (Stopped' <=> Stopped)
  BY <1>1 DEF Waiting, Running, Stopped, stops
<1>3. cpu_runs \in Nat /\ tasks["cpu"] \in Nat /\ tasks'["cpu"] = tasks["cpu"] + 1
  BY <1>1 DEF ExecutorInv, TypeOK, UserType, WorkerType, Workers
<1>4. cpu_runs' \in Int /\ tasks'["cpu"] \in Int /\ at'["cpu"] = at["cpu"]
  BY <1>1, <1>3, SMT
<1>5. cpu_runs' - tasks'["cpu"] - One(Waiting)' = cpu_runs - tasks["cpu"] - One(Waiting)
  <2>1. One(Waiting)' = One(Waiting) /\ One(Waiting) \in Int
    BY <1>2, SMTT(30) DEF One
  <2>2. cpu_runs' - tasks'["cpu"] = cpu_runs - tasks["cpu"]
    BY <1>1, <1>3, SMT
  <2> QED BY <2>1, <2>2
<1>6. RingInv'
  <2>1. RingInv /\ UNCHANGED <<queues, idx, batch, released>>
    BY <1>1 DEF OrderInv
  <2> QED BY <1>2, <1>4, <1>5, <2>1, Elsewhere
<1>7. HandInv' /\ SharedInv'
  BY <1>1 DEF OrderInv, HandInv, SharedInv, queues, stops
<1> QED BY <1>6, <1>7 DEF OrderInv

\* An output is handed to the user.
LEMMA UseOutputIdxsOrder ==
  ASSUME ExecutorInv, OrderInv, UseOutputIdxs
  PROVE  OrderInv'
<1>1. /\ UNCHANGED <<free_queue, stage_work_queue, stops, pc, at, idx, tasks, exec_error, batch, cpu_runs, shared,
                     released>>
      /\ main = "use"
      /\ \/ ready_stop /\ main' = "used" /\ ready_queue' = ready_queue /\ in_use_queue' = in_use_queue
         \/ /\ ready_queue # <<>> /\ main' = "used"
            /\ in_use_queue' = Append(in_use_queue, Head(ready_queue)) /\ ready_queue' = Tail(ready_queue)
         \/ main' = main /\ ready_queue' = ready_queue /\ in_use_queue' = in_use_queue
  BY DEF UseOutputIdxs, workers
<1>2. SharedInv /\ RingInv /\ HandInv
  BY DEF OrderInv
<1>3. Sequences /\ Bounds
  BY RingParts, RingBounds DEF ExecutorInv, TypeOK
<1>4. in_use_queue \in Seq(Indices) /\ ready_queue \in Seq(Indices) /\ FromGPU \in Seq(Indices)
  BY <1>3 DEF Sequences
<1>5. shared \in Int /\ released \in Int /\ cpu_runs \in Int /\ tasks["cpu"] \in Int
  BY SMT DEF ExecutorInv, TypeOK, UserType, WorkerType, Workers
<1>6. Stopped' <=> Stopped
  BY <1>1 DEF Stopped, stops
<1>7. CASE ready_queue' = ready_queue /\ in_use_queue' = in_use_queue /\ (ready_stop \/ main' = "use")
  <2>1. SharedInv'
    BY <1>1, <1>2, <1>7 DEF SharedInv, One, stops
  <2>2. UNCHANGED <<queues, pc, at, idx, batch, released, cpu_runs>> /\ tasks'["cpu"] = tasks["cpu"]
    BY <1>1, <1>7 DEF queues
  <2> QED BY <1>6, <2>1, <2>2, UserElsewhere
<1>8. CASE /\ ready_queue # <<>> /\ main' = "used"
           /\ in_use_queue' = Append(in_use_queue, Head(ready_queue)) /\ ready_queue' = Tail(ready_queue)
  <2>1. FromGPU' = FromGPU
    BY <1>1 DEF FromGPU, FromMIXED, FromCPU, FromSUPPORT, Held, HeldAt
  <2>2. Append(in_use_queue, Head(ready_queue)) \o (Tail(ready_queue) \o FromGPU) = in_use_queue \o (ready_queue \o FromGPU)
    BY <1>4, <1>8, Shift, ZenonT(30)
  <2>3. Ring' = Ring
    BY <1>8, <2>1, <2>2 DEF Ring
  <2>4. /\ Len(in_use_queue') = Len(in_use_queue) + 1 /\ Len(ready_queue') = Len(ready_queue) - 1
        /\ Len(in_use_queue) \in Nat /\ Len(ready_queue) \in Nat
    BY <1>4, <1>8, SMT
  <2>5. One(Running)' = One(Running) /\ One(Waiting)' = One(Waiting)
    BY <1>1 DEF Running, Waiting, One
  <2>6. Outputs' = Outputs /\ Outputs' \in Int /\ Outputs' <= Outputs
    <3>1. One(Running) \in Int
      BY SMT DEF One
    <3> QED BY <2>4, <2>5, <3>1, SMT DEF Outputs
  <2>7. /\ cpu_runs' \in Int /\ tasks'["cpu"] \in Int /\ free_queue' = free_queue /\ batch' = batch
        /\ released' = released /\ cpu_runs' - tasks'["cpu"] - One(Waiting)' = cpu_runs - tasks["cpu"] - One(Waiting)
    BY <1>1, <1>5, <2>5
  <2>8. RingInv'
    BY <1>2, <1>3, <1>5, <1>6, <2>3, <2>6, <2>7, SameRing
  <2>9. HandInv'
    BY <1>1, <1>2 DEF HandInv
  <2>10. SharedInv'
    <3>1. shared' = shared /\ released' = released /\ main = "use"
      BY <1>1
    <3>2. Len(in_use_queue) >= shared - released
      BY <1>2, <1>5, <2>4, <3>1, SMTT(30) DEF SharedInv, One
    <3> QED BY <1>5, <2>4, <3>1, <3>2, SMTT(30) DEF SharedInv, One
  <2> QED BY <2>8, <2>9, <2>10 DEF OrderInv
<1> QED BY <1>1, <1>7, <1>8

\* The other steps of the main thread.
LEMMA OtherUserOrder ==
  ASSUME ExecutorInv, OrderInv,
         \/ ScheduleGPU \/ ShareOutputs \/ ShareOutputsReturn \/ OutputsThrow \/ OutputsRethrow \/ Destroy
         \/ ForceStopAndNotify \/ Join \/ UNCHANGED vars
  PROVE  OrderInv'
<1> DEFINE Same == UNCHANGED <<queues, pc, at, idx, batch, released, cpu_runs, ready_stop>>
<1>1. SharedInv /\ shared \in Int /\ released \in Int /\ tasks \in [Workers -> Nat] /\ Len(in_use_queue) \in Nat
  BY SMT DEF OrderInv, ExecutorInv, TypeOK, UserType, WorkerType, QueueType
<1>2. ASSUME Same, tasks'["cpu"] = tasks["cpu"], exec_error => exec_error', shared' = shared, main' # "used" \/ main' = main
      PROVE  OrderInv'
  <2>1. SharedInv'
    BY <1>1, <1>2, SMT DEF SharedInv, One, queues
  <2>2. Stopped => Stopped'
    BY <1>2 DEF Stopped
  <2> QED BY <1>2, <2>1, <2>2, UserElsewhere
<1>3. CASE ScheduleGPU
  <2>1. Same /\ exec_error' = exec_error /\ shared' = shared /\ main' = main
        /\ tasks' = [tasks EXCEPT !["mixed"] = @ + 1, !["gpu"] = @ + 1]
    BY <1>3 DEF ScheduleGPU, stops
  <2>2. tasks'["cpu"] = tasks["cpu"]
    BY <1>1, <2>1 DEF Workers
  <2> QED BY <1>2, <2>1, <2>2
<1>4. CASE ShareOutputs
  <2>1. Same /\ exec_error' = exec_error /\ shared' = shared /\ main' # "used" /\ tasks' = tasks
    BY <1>4 DEF ShareOutputs, stops, workers
  <2> QED BY <1>2, <2>1
<1>5. CASE ShareOutputsReturn
  <2>1. Same /\ exec_error' = exec_error /\ tasks' = tasks /\ main = "used" /\ main' # "used"
        /\ (shared' = shared \/ (~Stopped /\ shared' = shared + 1))
    BY <1>5 DEF ShareOutputsReturn, stops, workers
  <2>2. SharedInv'
    BY <1>1, <2>1, SMT DEF SharedInv, One, queues, Stopped
  <2>3. Stopped => Stopped'
    BY <2>1 DEF Stopped
  <2> QED BY <2>1, <2>2, <2>3, UserElsewhere
<1>6. CASE OutputsThrow
  <2>1. Same /\ (exec_error => exec_error') /\ shared' = shared /\ main' # "used" /\ tasks' = tasks
    BY <1>6, SMTT(30) DEF OutputsThrow, stops, workers
  <2> QED BY <1>2, <2>1
<1>7. CASE OutputsRethrow
  <2>1. Same /\ exec_error' = exec_error /\ shared' = shared /\ main' # "used" /\ tasks' = tasks
    BY <1>7 DEF OutputsRethrow, stops, workers
  <2> QED BY <1>2, <2>1
<1>8. CASE Destroy
  <2>1. Same /\ exec_error' = exec_error /\ shared' = shared /\ main' # "used" /\ tasks' = tasks
    BY <1>8 DEF Destroy, stops, workers
  <2> QED BY <1>2, <2>1
<1>9. CASE ForceStopAndNotify
  <2>1. /\ UNCHANGED <<queues, stops, work_counter, tasks, pc, at, idx, exec_error, errors, signal, cpu_runs, gpu_runs,
                       shared, released, batch>>
        /\ \E i \in 1 .. 5 : main' = DestroyOrder[i + 1]
    BY <1>9 DEF ForceStopAndNotify
  <2>2. ASSUME NEW i \in 1 .. 5 PROVE DestroyOrder[i + 1] # "used"
    <3>1. i + 1 = 2 \/ i + 1 = 3 \/ i + 1 = 4 \/ i + 1 = 5 \/ i + 1 = 6
      BY SMT
    <3>2. /\ DestroyOrder[2] # "used" /\ DestroyOrder[3] # "used" /\ DestroyOrder[4] # "used"
          /\ DestroyOrder[5] # "used" /\ DestroyOrder[6] # "used"
      BY DEF DestroyOrder
    <3> QED BY <3>1, <3>2
  <2>3. Same /\ exec_error' = exec_error /\ shared' = shared /\ tasks' = tasks /\ main' # "used"
    BY <2>1, <2>2 DEF stops
  <2> QED BY <1>2, <2>3
<1>10. CASE Join
  <2>1. Same /\ exec_error' = exec_error /\ shared' = shared /\ main' # "used" /\ tasks' = tasks
    BY <1>10 DEF Join, stops, workers
  <2> QED BY <1>2, <2>1
<1>11. CASE UNCHANGED vars
  <2>1. Same /\ exec_error' = exec_error /\ shared' = shared /\ main' = main /\ tasks' = tasks
    BY <1>11 DEF vars, stops, workers, user
  <2> QED BY <1>2, <2>1
<1> QED BY <1>3, <1>4, <1>5, <1>6, <1>7, <1>8, <1>9, <1>10, <1>11, ZenonT(40)

\* Signalling stop.
LEMMA SignalStopOrder ==
  ASSUME ExecutorInv, OrderInv, NEW t \in Threads, SignalStop(t)
  PROVE  OrderInv'
<1>1. /\ UNCHANGED <<queues, pc, at, idx, batch, released, cpu_runs, tasks, exec_error, main, shared>>
      /\ (ready_stop => ready_stop') /\ ready_stop' \in BOOLEAN /\ ready_stop \in BOOLEAN
  BY DEF SignalStop, workers, user, ExecutorInv, TypeOK, StopType
<1>2. Stopped => Stopped'
  BY <1>1 DEF Stopped
<1>3. SharedInv /\ shared \in Int /\ released \in Int /\ Len(in_use_queue) \in Nat
  BY SMTT(30) DEF OrderInv, ExecutorInv, TypeOK, UserType, QueueType
<1>4. SharedInv'
  BY <1>1, <1>3, SMT DEF SharedInv, One, queues
<1> QED BY <1>1, <1>2, <1>4, UserElsewhere

\* InitializeQueues establishes the order.
LEMMA InitOrder == Init => OrderInv
<1> SUFFICES ASSUME Init PROVE OrderInv
  OBVIOUS
<1>1. /\ free_queue = [i \in 1 .. Depth |-> i - 1] /\ ready_queue = <<>> /\ in_use_queue = <<>>
      /\ stage_work_queue = [s \in Stages |-> <<>>] /\ pc = [w \in Workers |-> "idle"]
      /\ idx = [w \in Workers |-> kInvalidIdx] /\ main = "api" /\ tasks = [w \in Workers |-> 0]
      /\ cpu_runs = 0 /\ shared = 0 /\ released = 0
  BY DEF Init
<1>2. free_queue \in Seq(Indices) /\ Len(free_queue) = Depth /\ Depth \in Nat /\ \A k \in 1 .. Depth : free_queue[k] = k - 1
  <2>1. Depth \in Nat /\ free_queue = [i \in 1 .. Depth |-> i - 1]
    BY <1>1, DepthAssumption
  <2>2. free_queue \in Seq(Indices) /\ Len(free_queue) = Depth
    BY <2>1, FirstIndices DEF Indices
  <2>3. \A k \in 1 .. Depth : free_queue[k] = k - 1
    BY <2>1
  <2> QED BY <2>1, <2>2, <2>3
<1>3. /\ Held("gpu") = <<>> /\ Held("mixed") = <<>> /\ HeldAt("CPU") = <<>> /\ HeldAt("SUPPORT") = <<>>
      /\ stage_work_queue["CPU"] = <<>> /\ stage_work_queue["MIXED"] = <<>> /\ stage_work_queue["GPU"] = <<>>
  BY <1>1 DEF Held, HeldAt, Workers, Stages
<1>4. <<>> \o free_queue = free_queue
  BY <1>2, SMT
<1>5. Ring = free_queue
  <2>1. FromSUPPORT = free_queue
    BY <1>3, <1>4 DEF FromSUPPORT
  <2>2. FromCPU = free_queue
    BY <1>3, <1>4, <2>1 DEF FromCPU
  <2>3. FromMIXED = free_queue
    BY <1>3, <1>4, <2>2 DEF FromMIXED
  <2>4. FromGPU = free_queue
    BY <1>3, <1>4, <2>3 DEF FromGPU
  <2> QED BY <1>1, <1>4, <2>4 DEF Ring
<1>6. Injective(Ring)
  BY <1>2, <1>5, SMTT(30) DEF Injective
<1>7. Outputs = 0 /\ Busy = 0
  <2>1. ~Running
    BY <1>1 DEF Running, Workers
  <2> QED BY <1>1, <1>2, <1>5, <2>1, SMTT(30) DEF Outputs, Busy, One
<1>8. ~Waiting /\ tasks["cpu"] = 0
  BY <1>1 DEF Waiting, Workers
<1>9. InOrder(0)
  BY SMTT(30) DEF InOrder
<1>10. RingInv
  BY <1>1, <1>6, <1>7, <1>8, <1>9, SMTT(30) DEF RingInv, One
<1>11. HandInv
  BY <1>1 DEF HandInv
<1>12. SharedInv
  BY <1>1, SMT DEF SharedInv, One
<1> QED BY <1>10, <1>11, <1>12 DEF OrderInv

\* Every step keeps it.
LEMMA NextOrder ==
  ASSUME ExecutorInv, OrderInv, [Next]_<<vars, scenario>>
  PROVE  OrderInv'
<1>1. ASSUME NEW w \in Workers, WorkerStep(w) PROVE OrderInv'
  <2>1. w \in DOMAIN NextWorker => w \in Workers
    BY <1>1
  <2> QED BY <1>1, <2>1, TakeWorkOrder, BeginOrder, SleepOrder, CheckStopOrder, AcquireIdxsOrder,
       CheckIdxsOrder, RunOpsOrder, OperatorThrowsOrder, HandleErrorOrder, ReleaseIdxsOrder, PostOrder,
       AcquireFreeOrder, SleepFreeOrder, QueueOutputIdxsOrder, ZenonT(40) DEF WorkerStep
<1>2. ASSUME MainStep PROVE OrderInv'
  BY <1>2, UseOutputIdxsOrder, OtherUserOrder DEF MainStep
<1>3. ASSUME UserCall PROVE OrderInv'
  BY <1>3, ScheduleCPUOrder, ReleaseOutputsOrder, OtherUserOrder DEF UserCall
<1>4. ASSUME UNCHANGED vars PROVE OrderInv'
  BY <1>4, OtherUserOrder
<1> QED BY <1>1, <1>2, <1>3, <1>4, SignalStopOrder DEF Next

\* The invariant says what OutputsInOrder asks.
LEMMA OrderHolds == ExecutorInv /\ OrderInv => OutputsInOrder
<1> SUFFICES ASSUME ExecutorInv, OrderInv, NEW k \in 1 .. shared - released
             PROVE  batch[in_use_queue[k]] = released + k
  BY DEF OutputsInOrder
<1>1. Bounds
  BY RingBounds DEF ExecutorInv, TypeOK
<1>2. SharedInv /\ shared \in Int /\ released \in Int
  BY SMTT(30) DEF OrderInv, ExecutorInv, TypeOK, UserType
<1>3. k \in 1 .. Len(in_use_queue) /\ k \in 1 .. Outputs
  BY <1>1, <1>2, SMT DEF SharedInv, One, Bounds
<1>4. Ring[k] = in_use_queue[k]
  BY <1>1, <1>3 DEF Bounds
<1>5. batch[Ring[k]] = released + k
  BY <1>3 DEF OrderInv, RingInv, InOrder
<1> QED BY <1>4, <1>5

\* The outputs come back in the order of the calls of RunCPU, for every depth,
\* number of batches and set of failing stages.
THEOREM OutputsAlwaysInOrder == Spec => []OutputsInOrder
<1>1. Init => ExecutorInv /\ OrderInv
  BY InitExecutor, InitOrder
<1>2. ExecutorInv /\ OrderInv /\ [Next]_<<vars, scenario>> => (ExecutorInv /\ OrderInv)'
  BY NextExecutor, NextOrder
<1> QED BY <1>1, <1>2, OrderHolds, PTL DEF Spec

-----------------------------------------------------------------------------
(* What is past the CPU stage *)

\* The elements of a concatenation.
LEMMA InBoth ==
  ASSUME NEW a \in Seq(Indices), NEW b \in Seq(Indices), NEW x
  PROVE  In(x, a) \/ In(x, b) => In(x, a \o b)
<1>1. /\ Len(a \o b) = Len(a) + Len(b) /\ Len(a) \in Nat /\ Len(b) \in Nat
      /\ \A k \in 1 .. Len(a) : (a \o b)[k] = a[k]
      /\ \A k \in 1 .. Len(b) : (a \o b)[Len(a) + k] = b[k]
  BY SMT
<1> DEFINE c == a \o b
<1>2. c = a \o b
  OBVIOUS
<1> HIDE DEF c
<1>3. ASSUME In(x, a) PROVE In(x, c)
  <2>1. PICK k \in 1 .. Len(a) : a[k] = x
    BY <1>3 DEF In
  <2>2. k \in 1 .. Len(c) /\ c[k] = x
    BY <1>1, <1>2, <2>1, SMT
  <2> QED BY <2>2 DEF In
<1>4. ASSUME In(x, b) PROVE In(x, c)
  <2>1. PICK k \in 1 .. Len(b) : b[k] = x
    BY <1>4 DEF In
  <2>2. Len(a) + k \in 1 .. Len(c) /\ c[Len(a) + k] = x
    BY <1>1, <1>2, <2>1, SMTT(30)
  <2> QED BY <2>2 DEF In
<1> QED BY <1>2, <1>3, <1>4

\* Two parts of a sequence without repetitions have no element in common.
LEMMA NoneInBoth ==
  ASSUME NEW a \in Seq(Indices), NEW b \in Seq(Indices), NEW x, Injective(a \o b)
  PROVE  Injective(b) /\ ~(In(x, a) /\ In(x, b))
<1>1. /\ Len(a \o b) = Len(a) + Len(b) /\ Len(a) \in Nat /\ Len(b) \in Nat
      /\ \A k \in 1 .. Len(a) : (a \o b)[k] = a[k]
      /\ \A k \in 1 .. Len(b) : (a \o b)[Len(a) + k] = b[k]
  BY SMT
<1> DEFINE c == a \o b
<1>2. Injective(c) /\ c = a \o b
  OBVIOUS
<1> HIDE DEF c
<1>3. ASSUME NEW j \in 1 .. Len(b), NEW k \in 1 .. Len(b), b[j] = b[k] PROVE j = k
  <2>1. Len(a) + j \in 1 .. Len(c) /\ Len(a) + k \in 1 .. Len(c) /\ c[Len(a) + j] = c[Len(a) + k]
    BY <1>1, <1>2, <1>3, SMTT(30)
  <2>2. Len(a) + j = Len(a) + k
    BY <1>2, <2>1 DEF Injective
  <2> QED BY <1>1, <2>2, SMTT(30)
<1>4. ASSUME In(x, a), In(x, b) PROVE FALSE
  <2>1. PICK j \in 1 .. Len(a) : a[j] = x
    BY <1>4 DEF In
  <2>2. PICK k \in 1 .. Len(b) : b[k] = x
    BY <1>4 DEF In
  <2>3. j \in 1 .. Len(c) /\ Len(a) + k \in 1 .. Len(c) /\ c[j] = c[Len(a) + k]
    BY <1>1, <1>2, <2>1, <2>2, SMTT(30)
  <2>4. j = Len(a) + k
    BY <1>2, <2>3 DEF Injective
  <2> QED BY <1>1, <2>4, SMT
<1> QED BY <1>3, <1>4 DEF Injective


\* What is past the CPU stage is neither free nor in the hand of the CPU stage.
LEMMA Apart ==
  ASSUME ExecutorInv, OrderInv, NEW i \in Indices, Past(i)
  PROVE  ~In(i, free_queue) /\ ~(at["cpu"] = "CPU" /\ idx["cpu"] = i)
<1> DEFINE g == stage_work_queue["GPU"]
           m == stage_work_queue["MIXED"]
           c == stage_work_queue["CPU"]
<1>1. Sequences
  BY RingParts DEF ExecutorInv, TypeOK
<1>2. /\ in_use_queue \in Seq(Indices) /\ ready_queue \in Seq(Indices) /\ free_queue \in Seq(Indices)
      /\ Held("gpu") \in Seq(Indices) /\ Held("mixed") \in Seq(Indices)
      /\ HeldAt("CPU") \in Seq(Indices) /\ HeldAt("SUPPORT") \in Seq(Indices)
      /\ FromSUPPORT \in Seq(Indices) /\ FromCPU \in Seq(Indices) /\ FromMIXED \in Seq(Indices)
      /\ FromGPU \in Seq(Indices)
  BY <1>1 DEF Sequences
<1>3. g \in Seq(Indices) /\ m \in Seq(Indices) /\ c \in Seq(Indices)
  BY <1>1 DEF Sequences, Stages
<1> HIDE DEF g, m, c
<1>4. /\ FromSUPPORT = HeldAt("SUPPORT") \o free_queue
      /\ FromCPU = HeldAt("CPU") \o (c \o FromSUPPORT)
      /\ FromMIXED = Held("mixed") \o (m \o FromCPU)
      /\ FromGPU = Held("gpu") \o (g \o FromMIXED)
      /\ Injective(in_use_queue \o (ready_queue \o FromGPU))
  BY DEF FromSUPPORT, FromCPU, FromMIXED, FromGPU, OrderInv, RingInv, Ring, g, m, c
<1>5. /\ c \o FromSUPPORT \in Seq(Indices) /\ m \o FromCPU \in Seq(Indices)
      /\ g \o FromMIXED \in Seq(Indices) /\ ready_queue \o FromGPU \in Seq(Indices)
  BY <1>2, <1>3, Lengths
<1>6. SUFFICES ASSUME In(i, FromCPU) PROVE FALSE
  <2>1. ASSUME In(i, free_queue) PROVE In(i, FromCPU)
    <3>1. In(i, FromSUPPORT)
      BY <1>2, <1>4, <2>1, InBoth
    <3>2. In(i, c \o FromSUPPORT)
      BY <1>2, <1>3, <3>1, InBoth
    <3> QED BY <1>2, <1>4, <1>5, <3>2, InBoth
  <2>2. ASSUME at["cpu"] = "CPU", idx["cpu"] = i PROVE In(i, FromCPU)
    <3>1. i # kInvalidIdx
      BY SMT DEF Indices, kInvalidIdx
    <3>2. HeldAt("CPU") = <<i>>
      BY <2>2, <3>1 DEF HeldAt, Held
    <3>3. In(i, HeldAt("CPU"))
      BY <3>2, SMT DEF In
    <3> QED BY <1>2, <1>4, <1>5, <3>3, InBoth
  <2> QED BY <2>1, <2>2
<1>7. In(i, m \o FromCPU)
  BY <1>2, <1>3, <1>6, InBoth
<1>8. In(i, FromMIXED)
  BY <1>2, <1>4, <1>5, <1>7, InBoth
<1>9. In(i, g \o FromMIXED)
  BY <1>2, <1>3, <1>8, InBoth
<1>10. In(i, FromGPU)
  BY <1>2, <1>4, <1>5, <1>9, InBoth
<1>11. In(i, ready_queue \o FromGPU)
  BY <1>2, <1>10, InBoth
<1>12. ~In(i, in_use_queue) /\ Injective(ready_queue \o FromGPU)
  BY <1>2, <1>4, <1>5, <1>11, NoneInBoth
<1>13. ~In(i, ready_queue) /\ Injective(FromGPU)
  BY <1>2, <1>10, <1>12, NoneInBoth
<1>14. ~In(i, Held("gpu")) /\ Injective(g \o FromMIXED)
  BY <1>2, <1>4, <1>5, <1>9, <1>13, NoneInBoth
<1>15. ~In(i, g) /\ Injective(FromMIXED)
  BY <1>2, <1>3, <1>8, <1>14, NoneInBoth
<1>16. ~In(i, Held("mixed")) /\ Injective(m \o FromCPU)
  BY <1>2, <1>4, <1>5, <1>7, <1>15, NoneInBoth
<1>17. ~In(i, m)
  BY <1>2, <1>3, <1>6, <1>16, NoneInBoth
<1>18. ASSUME NEW w \in Workers, idx[w] = i PROVE In(i, Held(w))
  <2>1. i # kInvalidIdx
    BY SMT DEF Indices, kInvalidIdx
  <2>2. Held(w) = <<i>>
    BY <1>18, <2>1 DEF Held
  <2> QED BY <2>2, SMT DEF In
<1>19. i # idx["gpu"] /\ i # idx["mixed"]
  BY <1>14, <1>16, <1>18 DEF Workers
<1> QED BY <1>12, <1>13, <1>15, <1>17, <1>19 DEF Past, Output, g, m

=============================================================================

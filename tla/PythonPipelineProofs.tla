------------------------ MODULE PythonPipelineProofs ------------------------
(***************************************************************************)
(* Proofs about the Python interface: Pipeline and the iterator keep to    *)
(* the rules of the executor, so what is proved about the executor holds   *)
(* under them, and the data iter_setup feeds is the data the user gets.    *)
(***************************************************************************)
EXTENDS PythonStepProofs, UniformExecutorProofs, FiniteSetTheorems

USE Zenon  \* the prover of every leaf that names none

PipelineInv == ExecutorInv /\ OrderInv /\ PlanInv

\* The invariants of the executor and of the plans hold at first.
LEMMA InitPipeline == PyInit => PipelineInv
BY InitExecutor, InitOrder, InitPlan DEF PipelineInv, PyInit

\* A step of the Python interface is a step the executor allows, and keeps both
\* invariants.
LEMMA NextPipeline ==
  ASSUME PipelineInv, [PyNext]_<<all, scenario>>
  PROVE  PipelineInv' /\ [Next]_<<vars, scenario>>
<1>1. ExecutorInv /\ OrderInv /\ PlanInv
  BY DEF PipelineInv
<1>2. [Next]_<<vars, scenario>> /\ PlanInv'
  BY <1>1, NextPlan
<1>3. ExecutorInv' /\ OrderInv'
  BY <1>1, <1>2, NextExecutor, NextOrder
<1> QED BY <1>2, <1>3 DEF PipelineInv

\* Under the Python interface the invariants of the executor and of the plans hold
\* throughout, for every scenario.
THEOREM PipelineInvariant == PySpec => []PipelineInv
<1>1. PipelineInv /\ [PyNext]_<<all, scenario>> => PipelineInv'
  BY NextPipeline
<1> QED BY <1>1, InitPipeline, PTL DEF PySpec

\* Pipeline and the iterator never call RunGPU without a batch from RunCPU, and never
\* ask for an output that was not scheduled or that has no buffer left, whatever the
\* user calls and wherever StopIteration ends a call.
THEOREM PipelineKeepsToTheRules == PySpec => KeepsToTheRules
<1>1. PipelineInv /\ [PyNext]_<<all, scenario>> => [Next]_<<vars, scenario>>
  BY NextPipeline
<1> QED BY <1>1, PipelineInvariant, PTL DEF PySpec, KeepsToTheRules

\* Hence what holds for the executor holds under the Python interface.
THEOREM PipelineOutputsInOrder == PySpec => [](OutputsInOrder /\ WorkIsThere)
<1>1. PipelineInv => OutputsInOrder /\ WorkIsThere
  BY OrderHolds, WorkHolds DEF PipelineInv
<1> QED BY <1>1, PipelineInvariant, PTL

-----------------------------------------------------------------------------
(* What iter_setup fed is what the user gets *)

\* The count of a sample copied; it is the last one exactly when the batch is copied.
LEMMA CountSet ==
  ASSUME NEW C \in SUBSET Samples, NEW U \in SUBSET C, NEW V, NEW s \in U, V = U \ {s}
  PROVE  /\ Cardinality(C \ V) = Cardinality(C \ U) + 1
         /\ Cardinality(C \ U) + 1 >= Cardinality(Samples) <=> C = Samples /\ V = {}
<1>1. IsFiniteSet(Samples)
  BY ClientAssumption
<1> DEFINE D == C \ U
           E == C \ V
<1>2. E = D \cup {s} /\ s \notin D /\ D \in SUBSET Samples /\ E \in SUBSET Samples
  BY SMT
<1>3. E = Samples <=> C = Samples /\ V = {}
  BY SMT
<1> HIDE DEF D, E
<1>4. IsFiniteSet(D) /\ IsFiniteSet(E)
  BY <1>1, <1>2, FS_Subset
<1>5. Cardinality(D) \in Nat /\ Cardinality(Samples) \in Nat
  BY <1>1, <1>4, FS_CardinalityType
<1>6. Cardinality(E) = Cardinality(D) + 1
  BY <1>2, <1>4, FS_AddElement
<1>7. Cardinality(E) <= Cardinality(Samples) /\ (Cardinality(Samples) = Cardinality(E) => E = Samples)
  BY <1>1, <1>2, FS_Subset
<1>8. Cardinality(D) + 1 >= Cardinality(Samples) <=> Cardinality(Samples) = Cardinality(E)
  BY <1>5, <1>6, <1>7, SMTT(30)
<1>9. E = Samples <=> Cardinality(D) + 1 >= Cardinality(Samples)
  BY <1>7, <1>8
<1> QED BY <1>3, <1>5, <1>6, <1>9 DEF D, E

\* Finite sets of samples are counted as the argument needs.
LEMMA CountingHolds == Counting
BY CountSet, FS_EmptySet DEF Counting

\* The main thread.
LEMMA MainSource ==
  ASSUME ExecutorInv, SourceInv, NEW t \in Threads,
         MainStep \/ SignalStop(t) \/ ScheduleGPU \/ ReleaseOutputs \/ ShareOutputs \/ UNCHANGED vars,
         UNCHANGED <<scenario, source, fed>>, RunNext' <=> RunNext
  PROVE  SourceInv'
<1>1. CpuStandsStill
  BY MainPast DEF CpuStandsStill
<1> QED BY <1>1, SameSource

\* The threads of the executor.
LEMMA WorkerSource ==
  ASSUME ExecutorInv, OrderInv, SourceInv, NEW w \in Workers, ExecutorStep(w), scenario' = scenario
  PROVE  SourceInv'
<1>1. WorkerStep(w) /\ UNCHANGED <<busy, data, uncounted, samples_processed, content, pipe>>
  BY DEF ExecutorStep
<1>2. CASE w = "cpu"
  <2>1. CpuAdds /\ (~Stopped' => CpuStep)
    BY <1>1, <1>2, Apart, CpuPast, CpuMoves
  <2>2. HandInv /\ at["cpu"] \in {"SUPPORT", "CPU"} /\ UserType /\ WorkerType
    BY DEF OrderInv, ExecutorInv, PlaceInv, TypeOK
  <2> QED BY <1>2, <2>1, <2>2, CpuSource, CountingHolds
<1>3. CASE w # "cpu"
  <2>1. UNCHANGED copied
    BY <1>3 DEF ExecutorStep
  <2>2. UNCHANGED <<source, fed>> /\ (RunNext' <=> RunNext)
    BY <1>1, <2>1 DEF source, pipe, RunNext
  <2>3. CpuStandsStill
    BY <1>1, <1>3, OtherPast, OtherThread DEF CpuStandsStill
  <2> QED BY <2>2, <2>3, SameSource
<1> QED BY <1>2, <1>3

\* The threads of the pool.
LEMMA PoolSource ==
  ASSUME ExecutorInv, OrderInv, SourceInv, SourceStep, scenario' = scenario
  PROVE  SourceInv'
<1>1. PICK s \in Samples : CopySample(s) \/ CountSample(s)
  BY DEF SourceStep
<1>2. CASE CopySample(s)
  <2>1. pc["cpu"] = "run"
    BY <1>2 DEF CopySample, AtSource
  <2>2. idx["cpu"] # kInvalidIdx /\ idx \in [Workers -> Indices \cup {kInvalidIdx}]
    BY <2>1, WorkerTypes, Names DEF ExecutorInv, PlaceInv
  <2>3. idx["cpu"] \in Indices
    BY <2>2, Names
  <2>4. \A i \in Indices : Past(i) => ~(at["cpu"] = "CPU" /\ idx["cpu"] = i)
    BY Apart
  <2> QED BY <1>2, <2>3, <2>4, CopySource
<1>3. CASE CountSample(s)
  <2>1. cpu_runs \in Nat /\ tasks["cpu"] \in Nat
    BY WorkerTypes, Names DEF ExecutorInv, TypeOK, UserType
  <2> QED BY <1>3, <2>1, CountSource, CountingHolds
<1> QED BY <1>1, <1>2, <1>3

\* Every step keeps what is known of the data.
LEMMA NextSource ==
  ASSUME PipelineInv, SourceInv, scenario \in Scenarios, [PyNext]_<<all, scenario>>
  PROVE  SourceInv' /\ scenario' \in Scenarios
<1>1. ExecutorInv /\ OrderInv /\ PlanInv
  BY DEF PipelineInv
<1>2. scenario' = scenario
  BY DEF PyNext
<1>3. cpu_runs \in Nat /\ tasks \in [Workers -> Nat] /\ tasks["cpu"] \in Nat /\ fed \in Nat
  BY <1>1, WorkerTypes, Names DEF ExecutorInv, TypeOK, UserType, SourceInv, SourceType
<1>4. "main" \in Threads /\ \A w \in Workers : w \in Threads
  BY SMTT(30) DEF Threads
<1>5. CASE UNCHANGED <<all, scenario>>
  <2>1. UNCHANGED <<vars, source, fed>> /\ (RunNext' <=> RunNext)
    BY <1>5 DEF all, pipe, RunNext
  <2> QED BY <1>1, <1>2, <1>4, <2>1, MainSource
<1>6. CASE PipelineStep
  <2>1. CASE /\ UNCHANGED <<source, fed>> /\ (RunNext' <=> RunNext)
             /\ ScheduleGPU \/ ReleaseOutputs \/ ShareOutputs \/ UNCHANGED vars
    BY <1>1, <1>2, <1>4, <2>1, MainSource
  <2>2. CASE UNCHANGED <<source, fed>> /\ RunNext /\ ~RunNext' /\ ScheduleCPU
    BY <1>2, <1>3, <2>2, RunSource
  <2>3. CASE scenario.feeds /\ SetDataSource /\ fed' = fed + 1 /\ UNCHANGED vars /\ ~RunNext /\ RunNext'
    BY <1>2, <1>3, <2>3, FeedSource
  <2>4. CASE ~scenario.feeds /\ UNCHANGED <<source, vars>> /\ fed' = fed + 1
    <3>1. fed' \in Nat
      BY <1>3, <2>4, SMTT(30)
    <3> QED BY <1>2, <2>4, <3>1, NotFedSource
  <2> QED BY <1>1, <1>6, <2>1, <2>2, <2>3, <2>4, PipelineCases
<1>7. CASE (MainStep \/ SignalStop("main")) /\ Unconcerned
  <2>1. UNCHANGED <<source, fed>> /\ (RunNext' <=> RunNext)
    BY <1>7 DEF Unconcerned, pipe, RunNext
  <2> QED BY <1>1, <1>2, <1>4, <1>7, <2>1, MainSource
<1>8. CASE SourceStep
  BY <1>1, <1>2, <1>8, PoolSource
<1>9. CASE \E w \in Workers : WorkerThread(w)
  <2>1. PICK w \in Workers : WorkerThread(w)
    BY <1>9
  <2>2. CASE ExecutorStep(w)
    BY <1>1, <1>2, <2>2, WorkerSource
  <2>3. CASE SignalStop(w) /\ Unconcerned
    <3>1. UNCHANGED <<source, fed>> /\ (RunNext' <=> RunNext)
      BY <2>3 DEF Unconcerned, pipe, RunNext
    <3> QED BY <1>1, <1>2, <1>4, <2>3, <3>1, MainSource
  <2> QED BY <2>1, <2>2, <2>3 DEF WorkerThread
<1>10. CASE scenario.client = "cpp" /\ Unconcerned
  <2>1. ~scenario.feeds
    <3>1. scenario.feeds => scenario.client # "cpp"
      BY ClientAssumption
    <3> QED BY <1>10, <3>1
  <2>2. UNCHANGED <<source, fed>>
    BY <1>10 DEF Unconcerned, pipe
  <2> QED BY <1>2, <1>3, <2>1, <2>2, NotFedSource
<1>11. CASE PythonCall /\ UNCHANGED <<vars, source>>
  <2>1. fed' = fed /\ (RunNext' <=> RunNext)
    BY <1>1, <1>2, <1>11, CallCases
  <2> QED BY <1>1, <1>2, <1>4, <1>11, <2>1, MainSource
<1> QED BY <1>2, <1>5, <1>6, <1>7, <1>8, <1>9, <1>10, <1>11 DEF PyNext, ThreadStep, MainThread

\* What the invariants say of the outputs the user holds.
LEMMA FedHolds == ExecutorInv /\ OrderInv /\ SourceInv => FedDataDelivered
<1> SUFFICES ASSUME ExecutorInv, OrderInv, SourceInv, scenario.feeds,
                    NEW k \in DOMAIN in_use_queue, NEW s \in Samples
             PROVE  content[in_use_queue[k]][s] = released + k
  BY DEF FedDataDelivered
<1>1. Bounds /\ in_use_queue \in Seq(Indices)
  BY RingBounds DEF ExecutorInv, TypeOK, QueueType
<1>2. k \in 1 .. Len(in_use_queue) /\ in_use_queue[k] \in Indices
  BY <1>1, SMTT(30)
<1>3. k \in 1 .. Outputs
  <2>1. Outputs \in Nat /\ Len(in_use_queue) \in Nat /\ Len(in_use_queue) <= Outputs
    BY <1>1 DEF Bounds
  <2> QED BY <1>2, <2>1, SMTT(30)
<1>4. Ring[k] = in_use_queue[k]
  BY <1>1, <1>2 DEF Bounds
<1>5. batch[in_use_queue[k]] = released + k
  BY <1>3, <1>4 DEF OrderInv, RingInv, InOrder
<1>6. Output(in_use_queue[k])
  BY <1>2 DEF Output, In
<1>7. Good(in_use_queue[k])
  BY <1>2, <1>6 DEF SourceInv, GoodInv
<1> QED BY <1>5, <1>7 DEF Good

\* What iter_setup feeds in the k-th place reaches the user in the k-th place, whole:
\* feed_input never overtakes the threads that copy the last batch, whatever the
\* depth, the samples of a batch and the calls.
THEOREM FedDataAlwaysDelivered == PySpec => []FedDataDelivered
<1>1. PyInit => PipelineInv /\ SourceInv /\ scenario \in Scenarios
  <2>1. PyInit => scenario \in Scenarios
    BY DEF PyInit, Init
  <2> QED BY <2>1, InitPipeline, InitSource, CountingHolds
<1>2. /\ PipelineInv /\ SourceInv /\ scenario \in Scenarios /\ [PyNext]_<<all, scenario>>
      => (PipelineInv /\ SourceInv /\ scenario \in Scenarios)'
  BY NextPipeline, NextSource
<1>3. PipelineInv /\ SourceInv => FedDataDelivered
  BY FedHolds DEF PipelineInv
<1> QED BY <1>1, <1>2, <1>3, PTL DEF PySpec

=============================================================================

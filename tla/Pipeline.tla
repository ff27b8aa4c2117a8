------------------------------ MODULE Pipeline ------------------------------
(***************************************************************************)
(* From the definition of a pipeline to the graph the executor runs:       *)
(* _prepare_graph of dali/python/nvidia/dali/pipeline.py orders the        *)
(* operators, Pipeline::AddOperator (dali/pipeline/pipeline.cc) checks     *)
(* them and inserts the copies between devices, Pipeline::Build makes the  *)
(* graph and its outputs, and Executor::Build (executor.h,                 *)
(* pipelined_executor.h) prunes, verifies and sizes it.                    *)
(*                                                                         *)
(* A definition is what the user wrote in define_graph (api "python") or   *)
(* the sequence of AddOperator and AddExternalInput calls (api "cpp"):     *)
(*   ops      the operators, each with its device, its inputs (the op and  *)
(*            output they come from, the device they are wanted on, and    *)
(*            whether they are argument inputs), the number and device of  *)
(*            its outputs, and its flags                                   *)
(*   outputs  the outputs of the pipeline                                  *)
(*   exec     the executor and its queue sizes                             *)
(* An exception ends the construction: "error" is a final state.           *)
(* Schema checks, memory hints and presizing are left out: they concern    *)
(* data no property tells apart.                                           *)
(***************************************************************************)
EXTENDS OpGraph, WorkspacePolicy

CONSTANTS
  Ops(_),       \* the operators the user may define after the given ones
  Requests(_),  \* what may be built from the given operators: [api, outputs, exec]
  MAX_SEEDS     \* Pipeline::MAX_SEEDS

ASSUME SeedsAssumption == MAX_SEEDS \in Nat \ {0}

VARIABLES
  def,        \* the definition being built
  pc,         \* "define", "prepare", "add", "graph", "outputs", "prune", "remove",
              \* "verify", "setup", "built" or "error"
  edges,      \* _prepare_graph: the operators whose edges are still to visit
  ops,        \* _prepare_graph: the operators found so far
  related,    \* _prepare_graph: related_logical_id
  pipe,       \* the fields of class Pipeline, with its graph
  k,          \* how many elements the current loop has handled
  outputs,    \* Executor::output_names_
  to_remove,  \* PruneUnusedGraphNodes: the operators to remove in this round
  full,       \* the graph before pruning (history)
  queue_sizes,\* GetTensorQueueSizes
  store       \* the workspaces of the AOT policy

vars == <<def, pc, edges, ops, related, pipe, k, outputs, to_remove, full, queue_sizes, store>>

-----------------------------------------------------------------------------
(* The operators a definition gives to the pipeline.                       *)

EdgeName(op, out) == <<op, out>>
Contiguous(name)  == <<"contiguous_">> \o name

OpSpec(op) ==
  LET o == def.ops[op]
  IN  [name |-> o.type, device |-> o.device, split |-> o.split, preserve |-> o.preserve,
       grouping |-> o.grouping, seed |-> 0,
       inputs |-> [i \in DOMAIN o.inputs |->
                     [name |-> EdgeName(o.inputs[i].op, o.inputs[i].out),
                      device |-> o.inputs[i].device, arg |-> o.inputs[i].arg]],
       outputs |-> [i \in 1..o.nouts |-> [name |-> EdgeName(op, i), device |-> o.outdev]]]

\* The operators the pipeline inserts are all MakeContiguous.
MakeContiguous(name, out) ==
  [name |-> "MakeContiguous", device |-> MIXED, split |-> FALSE, preserve |-> FALSE,
   grouping |-> TRUE, seed |-> 0,
   inputs |-> <<[name |-> name, device |-> CPU, arg |-> FALSE]>>, outputs |-> <<out>>]

EmptyPipeline ==
  [edge_names |-> [n \in {} |-> 0], op_specs |-> <<>>, op_specs_for_serialization |-> <<>>,
   external_inputs |-> <<>>, next_logical_id |-> 0, next_internal_logical_id |-> -1,
   logical_id_to_seed |-> [l \in {} |-> 0], current_seed |-> 1, graph |-> EmptyGraph,
   error |-> FALSE]

-----------------------------------------------------------------------------
(* Pipeline: adding operators.                                             *)

Failed(p) == [p EXCEPT !.error = TRUE]

NewEdge(device) ==
  [has_cpu |-> device = CPU, has_gpu |-> device = GPU, has_contiguous |-> FALSE,
   is_support |-> FALSE]

\* logical_ids_ groups the members of op_specs_ by logical id.
AddToOpSpecs(p, spec, logical_id) ==
  LET group == SelectSeq(p.op_specs, LAMBDA s : s.logical_id = logical_id)
  IN  IF group # <<>> /\ (Head(group).spec.name # spec.name \/ ~spec.grouping)
      THEN Failed(p)
      ELSE [p EXCEPT !.op_specs = Append(@, [spec |-> spec, logical_id |-> logical_id])]

\* A MakeContiguous with an internal logical id, in op_specs_ only.
InsertCopy(p, name, out) ==
  [AddToOpSpecs(p, MakeContiguous(name, out), p.next_internal_logical_id)
     EXCEPT !.next_internal_logical_id = @ - 1]

\* The operator being added and the pipeline it is added to: [p, spec].
SetupCPUInput(a, i) ==
  LET name == a.spec.inputs[i].name
      copy == [name |-> Contiguous(name), device |-> CPU]
  IN  [p    |-> IF a.p.edge_names[name].has_contiguous THEN a.p
                ELSE [InsertCopy(a.p, name, copy) EXCEPT !.edge_names[name].has_contiguous = TRUE],
       spec |-> [a.spec EXCEPT !.inputs[i].name = Contiguous(name)]]

SetupGPUInput(a, i) ==
  LET name == a.spec.inputs[i].name
      copy == [name |-> name, device |-> GPU]
  IN  IF a.p.edge_names[name].has_gpu THEN a
      ELSE [a EXCEPT !.p = [InsertCopy(a.p, name, copy) EXCEPT !.edge_names[name].has_gpu = TRUE]]

RegularInput(a, i) ==
  LET in     == a.spec.inputs[i]
      device == a.spec.device
      edge   == a.p.edge_names[in.name]
      failed == [a EXCEPT !.p = Failed(a.p)]
  IN  IF a.p.error \/ in.arg THEN a
      ELSE IF in.name \notin DOMAIN a.p.edge_names THEN failed
      ELSE IF device # GPU
           THEN IF in.device = CPU /\ edge.has_cpu /\ edge.is_support = (device = SUPPORT)
                THEN a ELSE failed
      ELSE IF in.device = GPU THEN SetupGPUInput(a, i)
      ELSE IF edge.has_cpu THEN SetupCPUInput(a, i) ELSE failed

ArgumentInputsKnown(p, spec) ==
  \A i \in DOMAIN spec.inputs :
     spec.inputs[i].arg => /\ spec.inputs[i].name \in DOMAIN p.edge_names
                           /\ p.edge_names[spec.inputs[i].name].has_cpu
                           /\ p.edge_names[spec.inputs[i].name].is_support

RecordOutput(a, i) ==
  LET out  == a.spec.outputs[i]
      meta == [NewEdge(out.device) EXCEPT
                 !.has_contiguous = a.spec.device = SUPPORT
                                    \/ (a.spec.device = GPU /\ out.device = CPU),
                 !.is_support = a.spec.device = SUPPORT]
  IN  IF \/ a.p.error \/ out.name \in DOMAIN a.p.edge_names
         \/ a.spec.device \in {CPU, SUPPORT} /\ out.device # CPU
      THEN [a EXCEPT !.p = Failed(a.p)]
      ELSE [a EXCEPT !.p.edge_names = @ @@ out.name :> meta]

ReserveLogicalId(p, logical_id) ==
  [p EXCEPT !.next_logical_id = IF logical_id > @ THEN logical_id + 1 ELSE @]

\* mutant: the specification is kept for serialization after its inputs are renamed
AddAndSerializeLast(p, spec, logical_id) ==
  LET inputs == FoldOver(RegularInput, [p |-> ReserveLogicalId(p, logical_id), spec |-> spec],
                         Indices(spec.inputs))
      args   == IF ArgumentInputsKnown(inputs.p, spec) THEN inputs
                ELSE [inputs EXCEPT !.p = Failed(inputs.p)]
      done   == FoldOver(RecordOutput, args, Indices(spec.outputs))
      kept   == [done.p EXCEPT !.op_specs_for_serialization =
                   Append(@, [spec |-> done.spec, logical_id |-> logical_id])]
  IN  IF done.p.error THEN done.p ELSE AddToOpSpecs(kept, done.spec, logical_id)

AddWholeOperator(p, spec, logical_id) ==
  LET start  == [ReserveLogicalId(p, logical_id) EXCEPT !.op_specs_for_serialization =
                   Append(@, [spec |-> spec, logical_id |-> logical_id])]
      inputs == FoldOver(RegularInput, [p |-> start, spec |-> spec], Indices(spec.inputs))
      args   == IF ArgumentInputsKnown(inputs.p, spec) THEN inputs
                ELSE [inputs EXCEPT !.p = Failed(inputs.p)]
      done   == FoldOver(RecordOutput, args, Indices(spec.outputs))
  IN  IF done.p.error THEN done.p ELSE AddToOpSpecs(done.p, done.spec, logical_id)

\* The CPU stage takes over the inputs and the GPU stage the output of a split
\* decoder; three tensors connect them.
CPUStage(spec) ==
  [spec EXCEPT !.name = "nvJPEGDecoderCPUStage", !.device = CPU, !.split = FALSE,
               !.outputs = [i \in 1..3 |-> [name |-> <<"CPUStage", spec.outputs[1].name[1], i>>,
                                            device |-> CPU]]]

GPUStage(spec) ==
  [spec EXCEPT !.name = "nvJPEGDecoderGPUStage", !.split = FALSE,
               !.inputs = [i \in 1..3 |-> [name |-> CPUStage(spec).outputs[i].name,
                                           device |-> CPU, arg |-> FALSE]],
               !.outputs = <<[name |-> spec.outputs[1].name, device |-> GPU]>>]

AddSplitHybridDecoder(p, spec, logical_id) ==
  LET cpu == AddWholeOperator(p, CPUStage(spec), logical_id)
  IN  IF cpu.error THEN cpu
      ELSE AddWholeOperator([cpu EXCEPT !.next_logical_id = @ + 1], GPUStage(spec),
                            cpu.next_logical_id)

AddOperator(p, spec, logical_id) ==
  IF ~(spec.split /\ spec.device = MIXED) THEN AddWholeOperator(p, spec, logical_id)
  ELSE AddSplitHybridDecoder(
         [ReserveLogicalId(p, logical_id) EXCEPT !.op_specs_for_serialization =
            Append(@, [spec |-> spec, logical_id |-> logical_id])], spec, logical_id)

\* AddOperator without a logical id takes the next one.
AddNewOperator(p, spec) ==
  AddOperator([p EXCEPT !.next_logical_id = @ + 1], spec, p.next_logical_id)

\* mutant: every operator gets a seed of its own
PrepareWithFreshSeed(p, spec, logical_id) ==
  LET added == AddOp(p.graph, [spec EXCEPT !.seed = p.current_seed])
  IN  [p EXCEPT !.current_seed = (@ % MAX_SEEDS) + 1,
                !.graph = added, !.error = @ \/ added.error]

\* The seed of a logical id is chosen when the id is first seen; the seed
\* counter moves on every call.  seed_ is represented by its indices.
PrepareOpSpec(p, spec, logical_id) ==
  LET seeds == p.logical_id_to_seed @@ logical_id :> p.current_seed
      added == AddOp(p.graph, [spec EXCEPT !.seed = seeds[logical_id]])
  IN  [p EXCEPT !.logical_id_to_seed = seeds, !.current_seed = (@ % MAX_SEEDS) + 1,
                !.graph = added, !.error = @ \/ added.error]

\* An external input goes straight to the graph.
AddExternalInput(p, spec) ==
  LET name == spec.outputs[1].name
  IN  IF name \in DOMAIN p.edge_names THEN Failed(p)
      ELSE PrepareOpSpec(
             [p EXCEPT !.edge_names = @ @@ name :> NewEdge(CPU),
                       !.next_logical_id = @ + 1,
                       !.external_inputs = Append(@, spec)],
             spec, p.next_logical_id)

-----------------------------------------------------------------------------
(* _prepare_graph.                                                         *)

\* The edges of the sinks: an operator to be preserved is visited once for
\* each of its outputs, or once when it has none.
Sinks ==
  FlattenSeq([o \in DOMAIN def.ops |->
    IF ~def.ops[o].preserve THEN <<>>
    ELSE [i \in 1..(IF def.ops[o].nouts = 0 THEN 1 ELSE def.ops[o].nouts) |-> o]])

Init ==
  /\ def = [ops |-> <<>>, api |-> "python", outputs |-> <<>>, exec |-> <<>>]
  /\ pc = "define"
  /\ edges = <<>> /\ ops = <<>>
  /\ related = [r \in {} |-> 0]
  /\ pipe = EmptyPipeline
  /\ k = 0
  /\ outputs = <<>> /\ to_remove = <<>> /\ full = EmptyGraph
  /\ queue_sizes = <<>> /\ store = <<>>

DefineOp ==
  /\ pc = "define"
  /\ \E o \in Ops(def.ops) : def' = [def EXCEPT !.ops = Append(@, o)]
  /\ UNCHANGED <<pc, edges, ops, related, pipe, k, outputs, to_remove, full, queue_sizes, store>>

\* define_graph returns; in C++ the operators are added as they are written.
Request ==
  /\ pc = "define"
  /\ \E r \in Requests(def.ops) :
       /\ def' = [ops |-> def.ops, api |-> r.api, outputs |-> r.outputs, exec |-> r.exec]
       /\ IF r.api = "python"
          THEN /\ pc' = "prepare"
               /\ edges' = [i \in DOMAIN r.outputs |-> r.outputs[i].op] \o Sinks
               /\ ops' = ops
          ELSE pc' = "add" /\ edges' = edges /\ ops' = Reverse(Indices(def.ops))
  /\ UNCHANGED <<related, pipe, k, outputs, to_remove, full, queue_sizes, store>>

\* mutant: an operator met again keeps its place
BacktrackInPlace ==
  /\ pc = "prepare"
  /\ IF edges = <<>> THEN pc' = "add" /\ UNCHANGED <<edges, ops>>
     ELSE LET source_op == Head(edges)
              inputs    == def.ops[source_op].inputs
          IN  /\ ops' = IF source_op \in Range(ops) THEN ops ELSE Append(ops, source_op)
              /\ edges' = Tail(edges) \o [i \in DOMAIN inputs |-> inputs[i].op]
              /\ pc' = pc
  /\ UNCHANGED <<def, related, pipe, k, outputs, to_remove, full, queue_sizes, store>>

\* An operator met again moves to the end of the list, so that it is added
\* before all its consumers.
Backtrack ==
  /\ pc = "prepare"
  /\ IF edges = <<>> THEN pc' = "add" /\ UNCHANGED <<edges, ops>>
     ELSE LET source_op == Head(edges)
              inputs    == def.ops[source_op].inputs
          IN  /\ ops' = Append(SelectSeq(ops, LAMBDA o : o # source_op), source_op)
              /\ edges' = Tail(edges) \o [i \in DOMAIN inputs |-> inputs[i].op]
              /\ pc' = pc
  /\ UNCHANGED <<def, related, pipe, k, outputs, to_remove, full, queue_sizes, store>>

\* The last operator of the list is added.  Operators made by one call for
\* several input sets share the logical id of the first.
Add ==
  /\ pc = "add" /\ ops # <<>>
  /\ LET op   == Last(ops)
         rel  == def.ops[op].relation_id
         spec == OpSpec(op)
     IN  /\ pipe' = IF def.ops[op].external THEN AddExternalInput(pipe, spec)
                    ELSE IF rel \in DOMAIN related THEN AddOperator(pipe, spec, related[rel])
                    ELSE AddNewOperator(pipe, spec)
         /\ related' = IF rel \in DOMAIN related THEN related
                       ELSE related @@ rel :> pipe.next_logical_id
  /\ ops' = Front(ops)
  /\ pc' = IF pipe'.error THEN "error" ELSE pc
  /\ UNCHANGED <<def, edges, k, outputs, to_remove, full, queue_sizes, store>>

-----------------------------------------------------------------------------
(* Pipeline::Build.                                                        *)

StartBuild ==
  /\ pc = "add" /\ ops = <<>>
  /\ pc' = IF def.outputs = <<>> THEN "error" ELSE "graph"
  /\ UNCHANGED <<def, edges, ops, related, pipe, k, outputs, to_remove, full, queue_sizes, store>>

BuildOp ==
  /\ pc = "graph" /\ k < Len(pipe.op_specs)
  /\ pipe' = PrepareOpSpec(pipe, pipe.op_specs[k + 1].spec, pipe.op_specs[k + 1].logical_id)
  /\ k' = k + 1
  /\ pc' = IF pipe'.error THEN "error" ELSE pc
  /\ UNCHANGED <<def, edges, ops, related, outputs, to_remove, full, queue_sizes, store>>

GraphDone ==
  /\ pc = "graph" /\ k = Len(pipe.op_specs)
  /\ pc' = "outputs" /\ k' = 0
  /\ UNCHANGED <<def, edges, ops, related, pipe, outputs, to_remove, full, queue_sizes, store>>

\* mutant: a CPU output is taken as it is
BuildOutputAsIs(p, name, device) ==
  LET gpu == [name |-> name, device |-> GPU]
  IN  CASE name \notin DOMAIN p.edge_names \/ (device = CPU /\ ~p.edge_names[name].has_cpu) ->
             [p |-> Failed(p), output |-> <<name, device>>]
        [] device = GPU /\ ~p.edge_names[name].has_gpu ->
             [p |-> PrepareOpSpec([p EXCEPT !.next_logical_id = @ + 1],
                                  MakeContiguous(name, gpu), p.next_logical_id),
              output |-> TensorName(gpu)]
        [] OTHER -> [p |-> p, output |-> <<name, device>>]

\* A requested output and the pipeline with the operator that makes it: a CPU
\* output is made contiguous unless the edge is, a GPU output is copied unless
\* the edge is on the GPU.  The edge is not marked as copied.
BuildOutput(p, name, device) ==
  LET edge == p.edge_names[name]
      copy == [name |-> Contiguous(name), device |-> CPU]
      gpu  == [name |-> name, device |-> GPU]
  IN  CASE name \notin DOMAIN p.edge_names \/ (device = CPU /\ ~edge.has_cpu) ->
             [p |-> Failed(p), output |-> <<name, device>>]
        [] device = CPU /\ ~edge.has_contiguous ->
             [p |-> PrepareOpSpec([p EXCEPT !.next_internal_logical_id = @ - 1],
                                  MakeContiguous(name, copy), p.next_internal_logical_id),
              output |-> TensorName(copy)]
        [] device = GPU /\ ~edge.has_gpu ->
             [p |-> PrepareOpSpec([p EXCEPT !.next_logical_id = @ + 1],
                                  MakeContiguous(name, gpu), p.next_logical_id),
              output |-> TensorName(gpu)]
        [] OTHER -> [p |-> p, output |-> <<name, device>>]

AddOutputOp ==
  /\ pc = "outputs" /\ k < Len(def.outputs)
  /\ LET o     == def.outputs[k + 1]
         built == BuildOutput(pipe, EdgeName(o.op, o.out), o.device)
     IN  /\ pipe' = built.p
         /\ outputs' = Append(outputs, built.output)
         /\ pc' = IF built.p.error THEN "error" ELSE pc
  /\ k' = k + 1
  /\ UNCHANGED <<def, edges, ops, related, to_remove, full, queue_sizes, store>>

OutputsDone ==
  /\ pc = "outputs" /\ k = Len(def.outputs)
  /\ pc' = "prune" /\ full' = pipe.graph
  /\ UNCHANGED <<def, edges, ops, related, pipe, k, outputs, to_remove, queue_sizes, store>>

-----------------------------------------------------------------------------
(* Executor::Build.                                                        *)

CanBePruned(spec) == ~spec.preserve

MakesOutput(spec) == \E o \in Range(spec.outputs) : TensorName(o) \in Range(outputs)

Unused(g) ==
  SelectSeq(Indices(g.op_nodes),
            LAMBDA n : /\ g.op_nodes[n].children = {}
                       /\ CanBePruned(g.op_nodes[n].spec)
                       /\ ~MakesOutput(g.op_nodes[n].spec))

\* One round of PruneUnusedGraphNodes: the graph is not changed while the
\* operators are collected.
CollectUnused ==
  /\ pc = "prune"
  /\ to_remove' = Unused(pipe.graph)
  /\ k' = 0
  /\ pc' = IF to_remove' # <<>> THEN "remove"
           ELSE IF pipe.graph.op_nodes = <<>> THEN "error" ELSE "verify"
  /\ UNCHANGED <<def, edges, ops, related, pipe, outputs, full, queue_sizes, store>>

\* mutant: one round of pruning
RemoveInOneRound ==
  /\ pc = "remove"
  /\ pipe' = [pipe EXCEPT !.graph = RemoveOp(@, to_remove[k + 1] - k)]
  /\ k' = k + 1
  /\ pc' = IF pipe'.graph.error THEN "error"
           ELSE IF k + 1 = Len(to_remove) THEN "verify" ELSE pc
  /\ UNCHANGED <<def, edges, ops, related, outputs, to_remove, full, queue_sizes, store>>

\* The ids were collected in increasing order: k removals have moved the next
\* one down by k.
RemoveUnused ==
  /\ pc = "remove"
  /\ pipe' = [pipe EXCEPT !.graph = RemoveOp(@, to_remove[k + 1] - k)]
  /\ k' = k + 1
  /\ pc' = IF pipe'.graph.error THEN "error"
           ELSE IF k + 1 = Len(to_remove) THEN "prune" ELSE pc
  /\ UNCHANGED <<def, edges, ops, related, outputs, to_remove, full, queue_sizes, store>>

\* CheckGraphConstraints, then SetupOutputInfo, which refuses support outputs.
OutputTensors(g) == {g.tensor_name_to_id[o] : o \in Range(outputs)}

Verify ==
  /\ pc = "verify"
  /\ pc' = IF /\ CheckGraphConstraints(pipe.graph)
              /\ \A t \in OutputTensors(pipe.graph) : ~pipe.graph.tensor_nodes[t].producer.is_support
           THEN "setup" ELSE "error"
  /\ UNCHANGED <<def, edges, ops, related, pipe, k, outputs, to_remove, full, queue_sizes, store>>

StageQueueDepths ==
  IF def.exec.kind = "separated" THEN SeparateDepths(def.exec) ELSE UniformDepths(def.exec)

\* mutant: support tensors are never buffered
QueueSizesNoSupport(g) ==
  [t \in DOMAIN g.tensor_nodes |->
     LET stage == TensorOpType(g, t)
         base  == IF t \in OutputTensors(g) THEN StageQueueDepths[stage] ELSE 1
     IN  IF def.exec.kind = "simple" \/ t \notin GetStageOutputs(g, stage) THEN base
         ELSE IF stage = SUPPORT THEN 1
         ELSE StageQueueDepths[stage]]

\* The pipelined executors buffer what leaves a stage; a support tensor read by
\* CPU operators only stays with one buffer.
GetTensorQueueSizes(g) ==
  [t \in DOMAIN g.tensor_nodes |->
     LET stage == TensorOpType(g, t)
         base  == IF t \in OutputTensors(g) THEN StageQueueDepths[stage] ELSE 1
     IN  IF def.exec.kind = "simple" \/ t \notin GetStageOutputs(g, stage) THEN base
         ELSE IF stage = SUPPORT /\ ConsumerStages(g, t) = {CPU} THEN 1
         ELSE StageQueueDepths[stage]]

Setup ==
  /\ pc = "setup"
  /\ queue_sizes' = GetTensorQueueSizes(pipe.graph)
  /\ store' = IF def.exec.kind = "separated"
              THEN SeparateWorkspaceStore(pipe.graph, queue_sizes', StageQueueDepths)
              ELSE UniformWorkspaceStore(pipe.graph, queue_sizes', StageQueueDepths)
  /\ pc' = "built"
  /\ UNCHANGED <<def, edges, ops, related, pipe, k, outputs, to_remove, full>>

Next ==
  \/ DefineOp \/ Request
  \/ Backtrack \/ Add \/ StartBuild \/ BuildOp \/ GraphDone \/ AddOutputOp \/ OutputsDone
  \/ CollectUnused \/ RemoveUnused \/ Verify \/ Setup

Spec == Init /\ [][Next]_vars

-----------------------------------------------------------------------------
(* Properties.                                                             *)

\* The loop counters stay within the lists they run over, and the lists hold
\* operators of the definition.
TypeOK ==
  /\ pc \in {"define", "prepare", "add", "graph", "outputs", "prune", "remove", "verify",
             "setup", "built", "error"}
  /\ Range(edges) \union Range(ops) \subseteq DOMAIN def.ops
  /\ pc = "graph" => k \in 0..Len(pipe.op_specs)
  /\ pc = "outputs" => k \in 0..Len(def.outputs)
  /\ pc = "remove" => k \in 0..(Len(to_remove) - 1)
  /\ pipe.current_seed \in 1..MAX_SEEDS

\* Between any two calls on the graph its redundant parts agree: ids are
\* positions, parents and children are inverse and follow the tensors, every
\* tensor is found under its name, by its producer and by exactly its
\* consumers, every operator reads the tensors its specification names, and
\* the partitions list the operators of each stage in order.  RemoveOp renames
\* all of these by swaps.  The construction itself keeps to its lists (TypeOK).
GraphConsistent ==
  LET g      == pipe.graph
      Op     == DOMAIN g.op_nodes
      Tensor == DOMAIN g.tensor_nodes
  IN  TypeOK /\ (pc # "error" =>
      /\ \A n \in Op :
           LET node == g.op_nodes[n]
           IN  /\ node.id = n
               /\ node.parents = {g.tensor_nodes[t].producer.node : t \in Range(node.parent_tensors)}
               /\ node.children = {m \in Op : n \in g.op_nodes[m].parents}
               /\ g.op_partitions[node.op_type][node.partition_index] = n
               /\ [i \in DOMAIN node.parent_tensors |-> g.tensor_nodes[node.parent_tensors[i]].name]
                    = [i \in DOMAIN node.spec.inputs |-> TensorName(node.spec.inputs[i])]
               /\ [i \in DOMAIN node.children_tensors |-> g.tensor_nodes[node.children_tensors[i]].name]
                    = [i \in DOMAIN node.spec.outputs |-> TensorName(node.spec.outputs[i])]
      /\ \A t \in Tensor :
           LET tensor == g.tensor_nodes[t]
               read   == {<<n, i>> \in Op \X (1..3) : i \in DOMAIN g.op_nodes[n].parent_tensors
                                                    /\ g.op_nodes[n].parent_tensors[i] = t}
           IN  /\ tensor.id = t
               /\ g.tensor_name_to_id[tensor.name] = t
               /\ g.op_nodes[tensor.producer.node].children_tensors[tensor.producer.index] = t
               /\ {<<c.node, c.index>> : c \in Range(tensor.consumers)} = read
               /\ Len(tensor.consumers) = Cardinality(read)
      /\ Cardinality(DOMAIN g.tensor_name_to_id) = Len(g.tensor_nodes)
      /\ \A s \in Range(Stages) :
           g.op_partitions[s] = SelectSeq(Indices(g.op_nodes), LAMBDA n : g.op_nodes[n].op_type = s))

\* What the comments of AddOperator and the stages allow: an operator reads
\* what earlier stages make, argument inputs come from support operators, and
\* operators with one logical id are of one kind.  Three restrictions come from
\* the code alone: support operators take no regular inputs (the verifier
\* rejects them), a GPU operator takes on the CPU only what a CPU operator made,
\* and no output that needs a copy is requested twice.
InputAllowed(o, in) ==
  LET src == def.ops[in.op]
  IN  CASE in.arg -> src.device = SUPPORT /\ o.device # SUPPORT
        [] ~in.arg /\ o.device = GPU -> src.device = CPU \/ (in.device = GPU /\ src.outdev = GPU)
        [] ~in.arg /\ o.device # GPU -> src.device = CPU /\ in.device = CPU /\ o.device # SUPPORT

OutputAllowed(i) ==
  LET out == def.outputs[i]
      src == def.ops[out.op]
  IN  \/ src.device = CPU /\ \A j \in DOMAIN def.outputs : def.outputs[j] = out => i = j
      \/ src.device \in {MIXED, GPU} /\ src.outdev = out.device

ValidDefinition ==
  /\ def.outputs # <<>>
  /\ \A o \in Range(def.ops) : \A in \in Range(o.inputs) : InputAllowed(o, in)
  /\ \A i \in DOMAIN def.outputs : OutputAllowed(i)
  /\ \A a, b \in DOMAIN def.ops :
       a # b /\ def.ops[a].relation_id = def.ops[b].relation_id
         => def.ops[a].grouping /\ def.ops[a].type = def.ops[b].type

\* A valid definition is built: whatever its shape, _prepare_graph hands the
\* operators over in an order AddOperator and AddOp accept, the inserted copies
\* have a source and a name of their own, pruning never removes an operator
\* still in use, and the verifier finds nothing.
ValidIsBuilt ==
  pc = "error" => ~ValidDefinition

\* Pruning keeps, in their order, exactly the operators from which a requested
\* output or an operator to be preserved is reached.
PrunedExactly ==
  LET Op     == DOMAIN full.op_nodes
      roots  == {n \in Op : full.op_nodes[n].spec.preserve \/ MakesOutput(full.op_nodes[n].spec)}
      needed == FoldOver(LAMBDA S, i : S \union {n \in Op : full.op_nodes[n].children \cap S # {}},
                         roots, Indices(full.op_nodes))
      Specs(g, S) == [i \in DOMAIN S |-> g.op_nodes[S[i]].spec]
  IN  pc \in {"verify", "setup", "built"} =>
        Specs(pipe.graph, Indices(pipe.graph.op_nodes))
          = Specs(full, SelectSeq(Indices(full.op_nodes), LAMBDA n : n \in needed))

\* The executor runs the stages in order, and each stage in the order of its
\* partition: every operator then runs after all its parents.
RunsAfterParents ==
  LET g == pipe.graph
      Rank(n) == SelectInSeq(Stages, LAMBDA s : s = g.op_nodes[n].op_type)
  IN  pc = "built" =>
        \A n \in DOMAIN g.op_nodes : \A p \in g.op_nodes[n].parents :
           \/ Rank(p) < Rank(n)
           \/ Rank(p) = Rank(n) /\ g.op_nodes[p].partition_index < g.op_nodes[n].partition_index

\* The queue indices a batch can have when a stage runs: the GPU index is the
\* mixed index in a separated executor (GpuIsMixed of SeparateQueuePolicy), and
\* all indices are one in a uniform executor.
BatchIdxs ==
  IF def.exec.kind = "separated" THEN QueueIdxs(StageQueueDepths, GPU)
  ELSE {Idxs(i, i, i, i) : i \in 0..(def.exec.cpu_size - 1)}

Position(op_type, idxs) ==
  IF def.exec.kind = "separated" THEN SeparatePosition(StageQueueDepths, op_type, idxs)
  ELSE UniformPosition(op_type, idxs)

GetWorkspace(idxs, n) ==
  LET node == pipe.graph.op_nodes[n]
  IN  store[node.op_type][Position(node.op_type, idxs)][node.partition_index]

\* With the workspaces a batch is given, every operator has all its inputs, each
\* is the buffer the producer wrote for that batch, and a GPU operator waits for
\* the event of every mixed operator it reads from.  The workspaces are made in
\* advance and found again by arithmetic on the queue indices; an input whose
\* producer the stage does not allow would be left out silently.
ReadsWhatParentsWrote ==
  LET g == pipe.graph
      Written(idxs, t) == GetWorkspace(idxs, g.tensor_nodes[t].producer.node)
                            .outputs[g.tensor_nodes[t].producer.index]
  IN  pc = "built" =>
        \A idxs \in BatchIdxs : \A n \in DOMAIN g.op_nodes :
          LET node == g.op_nodes[n]
              ws   == GetWorkspace(idxs, n)
              In(arg) == SelectSeq(Indices(node.parent_tensors), LAMBDA i : node.spec.inputs[i].arg = arg)
              From(arg) == [i \in DOMAIN In(arg) |-> Written(idxs, node.parent_tensors[In(arg)[i]])]
          IN  /\ Position(node.op_type, idxs) \in DOMAIN store[node.op_type]
              /\ ws.inputs = From(FALSE)
              /\ ws.args = Range(From(TRUE))
              /\ \A p \in node.parents :
                   node.op_type = GPU => GetWorkspace(idxs, p).records \subseteq ws.awaits

\* Two batches in flight do not share a buffer that a later stage or the user
\* still reads: batches with different indices for a stage get different
\* buffers for what leaves that stage.  Support tensors read by CPU operators
\* only are the exception, as the support and CPU stages of a batch run in one
\* call.  In the simple executor, which runs one batch at a time, only the
\* outputs of the pipeline are kept apart.
BuffersKeptApart ==
  LET g == pipe.graph
      Kept == {t \in DOMAIN g.tensor_nodes :
                 \/ t \in OutputTensors(g)
                 \/ def.exec.kind # "simple"
                    /\ \E c \in Range(g.tensor_nodes[t].consumers) :
                         LET from == TensorOpType(g, t)
                             to   == g.op_nodes[c.node].op_type
                         IN  from # to /\ <<from, to>> # <<SUPPORT, CPU>>}
  IN  pc = "built" =>
        \A t \in Kept : \A q, r \in BatchIdxs :
          LET n == g.tensor_nodes[t].producer.node
              i == g.tensor_nodes[t].producer.index
          IN  q[TensorOpType(g, t)] # r[TensorOpType(g, t)]
                => GetWorkspace(q, n).outputs[i] # GetWorkspace(r, n).outputs[i]

\* ShareOutputs knows outputs of mixed and GPU operators only: every output of a
\* built pipeline is one, except a CPU output that a GPU operator also takes as
\* a CPU input.
OutputsCanBeShared ==
  pc = "built" =>
    \A i \in DOMAIN outputs :
      \/ TensorOpType(pipe.graph, pipe.graph.tensor_name_to_id[outputs[i]]) \in {MIXED, GPU}
      \/ \E o \in Range(def.ops) : \E in \in Range(o.inputs) :
           o.device = GPU /\ ~in.arg /\ def.outputs[i] = [op |-> in.op, out |-> in.out, device |-> CPU]
              /\ in.device = CPU

\* Operators made by one call for several input sets get one seed, and no other
\* two operators of the definition do, as long as there are seeds left.
SeedsFollowRelation ==
  LET FromUser == {n \in DOMAIN full.op_nodes :
                     LET s == full.op_nodes[n].spec
                     IN  s.name # "MakeContiguous" /\ s.outputs # <<>> /\ Len(s.outputs[1].name) = 2}
      Relation(n) == def.ops[full.op_nodes[n].spec.outputs[1].name[1]].relation_id
      Seed(n)     == full.op_nodes[n].spec.seed
  IN  Len(full.op_nodes) <= MAX_SEEDS =>
        \A a, b \in FromUser : Seed(a) = Seed(b) <=> Relation(a) = Relation(b)

\* The constructor that takes a serialized pipeline.
Deserialized(p) ==
  FoldOver(LAMBDA q, s : IF q.error THEN q ELSE AddOperator(q, s.spec, s.logical_id),
           FoldOver(AddExternalInput, EmptyPipeline, p.external_inputs),
           p.op_specs_for_serialization)

\* A pipeline without split decoders comes back from its serialized form with
\* the same operators, copies included, under the same logical ids.
SerializationKeepsOperators ==
  pc = "graph" /\ k = 0 /\ (\A o \in Range(def.ops) : ~o.split) =>
    /\ Deserialized(pipe).op_specs = pipe.op_specs
    /\ Deserialized(pipe).edge_names = pipe.edge_names
=============================================================================

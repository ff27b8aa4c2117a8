-------------------------- MODULE WorkspacePolicy --------------------------
(***************************************************************************)
(* The workspaces of the operators (dali/pipeline/executor/                *)
(* workspace_policy.h): for each operator and each choice of buffers, the  *)
(* buffers it reads and writes and the events it waits for.  A buffer is a *)
(* pair of a tensor and a position in the queue of that tensor.  Queue     *)
(* indices count from 0, as in the code; the module has no state.          *)
(***************************************************************************)
EXTENDS OpGraph

\* StageQueues of the two queue policies.
UniformDepths(sizes) == [s \in Range(Stages) |-> sizes.cpu_size]

SeparateDepths(sizes) ==
  [s \in Range(Stages) |-> CASE s = SUPPORT -> sizes.cpu_size * sizes.gpu_size
                             [] s = CPU     -> sizes.cpu_size
                             [] OTHER       -> sizes.gpu_size]

\* allowed_input_ops and allowed_input_tensors: add_input does nothing for any
\* other input.
AllowsInput(op_type, producer_type, device) ==
  CASE op_type = GPU -> producer_type \in {MIXED, GPU}
    [] op_type = SUPPORT -> producer_type = SUPPORT /\ device = CPU
    [] OTHER -> producer_type = CPU /\ device = CPU

\* A queue of one buffer is not indexed.
Buffer(sizes, t, idx) == <<t, IF sizes[t] = 1 THEN 0 ELSE idx>>

\* SetupInputOutput and SetupStreamsAndEvents; sizes are those of the queues of
\* the tensors.
CreateWorkspace(g, n, sizes, idxs) ==
  LET node    == g.op_nodes[n]
      regular == SelectSeq(Indices(node.parent_tensors), LAMBDA i : ~node.spec.inputs[i].arg)
      taken   == SelectSeq([i \in DOMAIN regular |-> node.parent_tensors[regular[i]]],
                           LAMBDA t : AllowsInput(node.op_type, TensorOpType(g, t),
                                                  g.tensor_nodes[t].producer.storage_device))
      Event(m) == <<g.op_nodes[m].partition_index, idxs[MIXED]>>
  IN  [inputs  |-> [i \in DOMAIN taken |-> Buffer(sizes, taken[i], idxs[TensorOpType(g, taken[i])])],
       args    |-> {Buffer(sizes, node.parent_tensors[i], idxs[SUPPORT]) :
                      i \in {j \in DOMAIN node.parent_tensors : node.spec.inputs[j].arg}},
       outputs |-> [i \in DOMAIN node.children_tensors |->
                      Buffer(sizes, node.children_tensors[i], idxs[node.op_type])],
       records |-> IF node.op_type = MIXED THEN {Event(n)} ELSE {},
       awaits  |-> IF node.op_type # GPU THEN {}
                   ELSE {Event(m) : m \in {m \in node.parents : g.op_nodes[m].op_type = MIXED}}]

\* Horner's method over the stages up to last_stage.
SequentialIndex(idxs, depth, last_stage) ==
  LET order == SelectInSeq(Stages, LAMBDA s : s = last_stage)
  IN  FoldOver(LAMBDA r, s : r * depth[s] + idxs[s], 0, SubSeq(Stages, 1, order))

\* mutant: GPU workspaces are indexed by the GPU queue as well
GroupedAsItself(op_type) == op_type

\* Mixed and GPU workspaces are indexed together.
GroupedAs(op_type) == IF op_type = GPU THEN MIXED ELSE op_type

Idxs(s, c, m, g) == SUPPORT :> s @@ CPU :> c @@ MIXED :> m @@ GPU :> g

\* The queue indices for which the separated policy makes workspaces for the
\* operators of a stage.
QueueIdxs(depths, op_type) ==
  LET D(stage) == 0..(depths[stage] - 1)
  IN  CASE op_type = SUPPORT -> {Idxs(s, 0, 0, 0) : s \in D(SUPPORT)}
        [] op_type = CPU     -> {Idxs(s, c, 0, 0) : s \in D(SUPPORT), c \in D(CPU)}
        [] op_type = MIXED   -> {Idxs(s, c, m, 0) : s \in D(SUPPORT), c \in D(CPU), m \in D(MIXED)}
        [] op_type = GPU     -> {Idxs(s, c, m, m) : s \in D(SUPPORT), c \in D(CPU), m \in D(MIXED)}

StoreSize(depths, op_type) ==
  CASE op_type = SUPPORT -> depths[SUPPORT]
    [] op_type = CPU     -> depths[CPU] * depths[SUPPORT]
    [] OTHER             -> depths[MIXED] * depths[CPU] * depths[SUPPORT]

PlaceWorkspaces(g, sizes, op_type, idxs) ==
  [p \in DOMAIN g.op_partitions[op_type] |-> CreateWorkspace(g, g.op_partitions[op_type][p], sizes, idxs)]

\* AOT_WS_Policy<SeparateQueuePolicy>: the position of a workspace is computed
\* from the queue indices, and a later one overwrites an earlier one there.
SeparateWorkspaceStore(g, sizes, depths) ==
  [op_type \in Range(Stages) |->
     FoldSet(LAMBDA idxs, wss : [wss EXCEPT
               ![SequentialIndex(idxs, depths, GroupedAs(op_type))] =
                  PlaceWorkspaces(g, sizes, op_type, idxs)],
             [i \in 0..(StoreSize(depths, op_type) - 1) |-> <<>>],
             QueueIdxs(depths, op_type))]

\* AOT_WS_Policy<UniformQueuePolicy>: all stages use the same index.
UniformWorkspaceStore(g, sizes, depths) ==
  [op_type \in Range(Stages) |->
     [i \in 0..(depths[op_type] - 1) |-> PlaceWorkspaces(g, sizes, op_type, Idxs(i, i, i, i))]]

\* GetWorkspace of the two policies: where it looks for the workspace.
SeparatePosition(depths, op_type, idxs) == SequentialIndex(idxs, depths, GroupedAs(op_type))
UniformPosition(op_type, idxs) == idxs[op_type]
=============================================================================

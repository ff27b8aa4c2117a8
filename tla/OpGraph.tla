------------------------------ MODULE OpGraph ------------------------------
(***************************************************************************)
(* The operator graph of a pipeline (dali/pipeline/graph/graph_descr.cc,   *)
(* op_graph_verifier.cc).  A graph is a record                             *)
(*                                                                         *)
(*   op_nodes           op_nodes_: the operators, in order of addition     *)
(*   tensor_nodes       tensor_nodes_: the tensors they produce            *)
(*   tensor_name_to_id  tensor_name_to_id_                                 *)
(*   op_partitions      op_partitions_: the ids of the operators by stage  *)
(*   error              an exception was thrown while it was changed       *)
(*                                                                         *)
(* Ids and indices are positions in sequences and count from 1.  The name  *)
(* of a tensor is the pair of the name of its edge and its device (the     *)
(* code joins them with an underscore).  The module has no state: each     *)
(* method of OpGraph is an operator from a graph to a graph, and the loops *)
(* over the nodes that a method changes are folds that read the graph as   *)
(* the earlier iterations left it, as the C++ references do.               *)
(***************************************************************************)
EXTENDS Integers, Sequences, FiniteSets, SequencesExt

SUPPORT == "support"
CPU     == "cpu"
MIXED   == "mixed"
GPU     == "gpu"
Stages  == <<SUPPORT, CPU, MIXED, GPU>>

EmptyGraph ==
  [op_nodes |-> <<>>, tensor_nodes |-> <<>>, tensor_name_to_id |-> [n \in {} |-> 0],
   op_partitions |-> [t \in Range(Stages) |-> <<>>], error |-> FALSE]

\* FoldLeft of SequencesExt by recursion on the length, which TLC evaluates in
\* less stack than the fold over sets.
FoldOver(op(_, _), base, s) ==
  LET f[i \in 0..Len(s)] == IF i = 0 THEN base ELSE op(f[i - 1], s[i]) IN f[Len(s)]

Indices(s) == [i \in DOMAIN s |-> i]

-----------------------------------------------------------------------------
(* Adding an operator.                                                     *)

\* The constraints AddOp enforces before it touches the graph.
DevicesAllowed(spec) ==
  LET AllCPU(s) == \A i \in DOMAIN s : s[i].device = CPU
  IN  /\ spec.device # GPU => AllCPU(spec.inputs)
      /\ spec.device = CPU => AllCPU(spec.outputs)

PlaceNewOp(g, op_spec) ==
  LET id == Len(g.op_nodes) + 1
  IN  [g EXCEPT !.op_nodes = Append(@,
                  [id |-> id, spec |-> op_spec, op_type |-> op_spec.device,
                   partition_index |-> Len(g.op_partitions[op_spec.device]) + 1,
                   parents |-> {}, children |-> {},
                   parent_tensors |-> <<>>, children_tensors |-> <<>>]),
                !.op_partitions[op_spec.device] = Append(@, id)]

TensorName(edge) == <<edge.name, edge.device>>

\* The i-th input of the new (last) node.
AddInput(g, i) ==
  LET id     == Len(g.op_nodes)
      input  == g.op_nodes[id].spec.inputs[i]
      t      == g.tensor_name_to_id[TensorName(input)]
      parent == g.tensor_nodes[t].producer.node
  IN  IF g.error \/ TensorName(input) \notin DOMAIN g.tensor_name_to_id
      THEN [g EXCEPT !.error = TRUE]
      ELSE [g EXCEPT !.op_nodes[id].parents = @ \union {parent},
                     !.op_nodes[parent].children = @ \union {id},
                     !.op_nodes[id].parent_tensors = Append(@, t),
                     !.tensor_nodes[t].consumers =
                        Append(@, [node |-> id, index |-> i, is_support |-> input.arg,
                                   storage_device |-> input.device])]

\* The i-th output of the new node: the tensor is placed before its name is
\* found to be taken.
AddOutput(g, i) ==
  LET id     == Len(g.op_nodes)
      spec   == g.op_nodes[id].spec
      name   == TensorName(spec.outputs[i])
      t      == Len(g.tensor_nodes) + 1
      known  == DOMAIN g.tensor_name_to_id
      tensor == [id |-> t, name |-> name, consumers |-> <<>>,
                 producer |-> [node |-> id, index |-> i, is_support |-> spec.device = SUPPORT,
                               storage_device |-> spec.outputs[i].device]]
  IN  IF g.error THEN g
      ELSE [g EXCEPT !.tensor_nodes = Append(@, tensor),
                     !.op_nodes[id].children_tensors = Append(@, t),
                     !.tensor_name_to_id = @ @@ name :> t,
                     !.error = name \in known]

AddOp(g, spec) ==
  IF g.error \/ ~DevicesAllowed(spec) THEN [g EXCEPT !.error = TRUE]
  ELSE FoldOver(AddOutput,
                FoldOver(AddInput, PlaceNewOp(g, spec), Indices(spec.inputs)),
                Indices(spec.outputs))

-----------------------------------------------------------------------------
(* Removing an operator.                                                   *)

SwapTensorNodes(g, left_id, right_id) ==
  LET left  == g.tensor_nodes[left_id]
      right == g.tensor_nodes[right_id]
      Rename(ops, edges, new) ==
        FoldOver(LAMBDA o, e : [o EXCEPT ![e.node].parent_tensors[e.index] = new], ops, edges)
      produced == [g.op_nodes EXCEPT
                     ![left.producer.node].children_tensors[left.producer.index] = right_id,
                     ![right.producer.node].children_tensors[right.producer.index] = left_id]
  IN  [g EXCEPT !.op_nodes = Rename(Rename(produced, left.consumers, right_id),
                                    right.consumers, left_id),
                !.tensor_name_to_id[left.name] = right_id,
                !.tensor_name_to_id[right.name] = left_id,
                !.tensor_nodes[left_id] = [right EXCEPT !.id = left_id],
                !.tensor_nodes[right_id] = [left EXCEPT !.id = right_id]]

\* The tensor is carried to the end of the list by swaps with its neighbours.
RemoveTensorNode(g, id) ==
  LET removed_name == g.tensor_nodes[id].name
      swapped == FoldOver(LAMBDA h, i : SwapTensorNodes(h, id + i, id + i - 1), g,
                          [i \in 1..(Len(g.tensor_nodes) - id) |-> i])
      names   == DOMAIN g.tensor_name_to_id \ {removed_name}
  IN  IF g.tensor_nodes[id].consumers # <<>> THEN [g EXCEPT !.error = TRUE]
      ELSE [swapped EXCEPT !.tensor_nodes = Front(@),
                           !.tensor_name_to_id = [n \in names |-> @[n]]]

\* swap_ids_in_parent_tensor.
RenameProducer(g, n, new) ==
  FoldOver(LAMBDA h, t : [h EXCEPT !.tensor_nodes[t].producer.node = new],
           g, g.op_nodes[n].children_tensors)

\* swap_ids_in_child_tensor: old becomes new among the consumers of the
\* tensors that node n takes.
RenameConsumers(g, n, old, new) ==
  LET Edges(h, t) ==
        FoldOver(LAMBDA f, i : [f EXCEPT !.tensor_nodes[t].consumers[i].node =
                                           IF @ = old THEN new ELSE @],
                 h, Indices(h.tensor_nodes[t].consumers))
  IN  FoldOver(Edges, g, g.op_nodes[n].parent_tensors)

\* remove_id_in_family_op and add_id_in_family_op.
RemoveInFamily(g, n, old) ==
  FoldSet(LAMBDA o, h : [h EXCEPT !.op_nodes[o].parents = @ \ {old}],
          FoldSet(LAMBDA o, h : [h EXCEPT !.op_nodes[o].children = @ \ {old}],
                  g, g.op_nodes[n].parents),
          g.op_nodes[n].children)

AddInFamily(g, n, new) ==
  FoldSet(LAMBDA o, h : [h EXCEPT !.op_nodes[o].parents = @ \union {new}],
          FoldSet(LAMBDA o, h : [h EXCEPT !.op_nodes[o].children = @ \union {new}],
                  g, g.op_nodes[n].parents),
          g.op_nodes[n].children)

\* mutant: the tensors that the right node takes keep its old id
SwapWithoutConsumers(g, left, right) ==
  LET g1 == RenameProducer(RenameProducer(g, left, right), right, left)
      g2 == RenameConsumers(g1, left, left, right)
      g3 == RemoveInFamily(RemoveInFamily(g2, left, left), right, right)
      g4 == AddInFamily(AddInFamily(g3, left, right), right, left)
  IN  [g4 EXCEPT !.op_nodes[left] = [g4.op_nodes[right] EXCEPT !.id = left],
                 !.op_nodes[right] = [g4.op_nodes[left] EXCEPT !.id = right]]

\* The consumers are renamed through the dummy id 0, since left and right may
\* take the same tensor.
SwapOpNodes(g, left, right) ==
  LET g1 == RenameProducer(RenameProducer(g, left, right), right, left)
      g2 == RenameConsumers(RenameConsumers(RenameConsumers(
              g1, left, left, 0), right, right, left), left, 0, right)
      g3 == RemoveInFamily(RemoveInFamily(g2, left, left), right, right)
      g4 == AddInFamily(AddInFamily(g3, left, right), right, left)
  IN  [g4 EXCEPT !.op_nodes[left] = [g4.op_nodes[right] EXCEPT !.id = left],
                 !.op_nodes[right] = [g4.op_nodes[left] EXCEPT !.id = right]]

RemoveOpNode(g, id) ==
  LET moved == FoldOver(LAMBDA h, i : SwapOpNodes(h, id + i - 1, id + i), g,
                        [i \in 1..(Len(g.op_nodes) - id) |-> i])
      last  == Len(g.op_nodes)
      cut   == FoldSet(LAMBDA o, h : [h EXCEPT !.op_nodes[o].children = @ \ {last}],
                       moved, moved.op_nodes[last].parents)
  IN  [cut EXCEPT !.op_nodes = Front(@)]

RepartitionOps(g) ==
  LET Place(h, id) ==
        LET type == h.op_nodes[id].op_type
        IN  [h EXCEPT !.op_nodes[id].partition_index = Len(h.op_partitions[type]) + 1,
                      !.op_partitions[type] = Append(@, id)]
  IN  FoldOver(Place, [g EXCEPT !.op_partitions = EmptyGraph.op_partitions],
               Indices(g.op_nodes))

RemoveVectorElement(v, i) == Front([v EXCEPT ![i] = Last(v)])

\* One pass over the consumers of a tensor: the element moved into the place of
\* a removed one is not looked at again in this pass.
RemoveConsumer(consumers, id) ==
  FoldOver(LAMBDA c, i : IF i <= Len(c) /\ c[i].node = id THEN RemoveVectorElement(c, i) ELSE c,
           consumers, Indices(consumers))

\* The list of produced tensors is read anew for each of them: the swaps that
\* remove one rename the others.
RemoveChildrenTensors(g, id) ==
  LET cut == FoldOver(LAMBDA h, j : RemoveTensorNode(h, h.op_nodes[id].children_tensors[j]),
                      g, Indices(g.op_nodes[id].children_tensors))
  IN  [cut EXCEPT !.op_nodes[id].children_tensors = <<>>]

RemoveFromParents(g, id) ==
  FoldOver(LAMBDA h, t : [h EXCEPT !.tensor_nodes[t].consumers = RemoveConsumer(@, id)],
           g, g.op_nodes[id].parent_tensors)

RemoveOp(g, id) ==
  IF \/ g.op_nodes[id].children # {}
     \/ \E t \in Range(g.op_nodes[id].children_tensors) : g.tensor_nodes[t].consumers # <<>>
  THEN [g EXCEPT !.error = TRUE]
  ELSE RepartitionOps(RemoveOpNode(RemoveFromParents(RemoveChildrenTensors(g, id), id), id))

-----------------------------------------------------------------------------
(* Questions asked of a graph.                                             *)

TensorOpType(g, t) == g.op_nodes[g.tensor_nodes[t].producer.node].op_type

ConsumerStages(g, t) ==
  {g.op_nodes[c.node].op_type : c \in Range(g.tensor_nodes[t].consumers)}

GetStageOutputs(g, stage) ==
  {t \in DOMAIN g.tensor_nodes : TensorOpType(g, t) = stage /\ ConsumerStages(g, t) \ {stage} # {}}

\* parent_constraints of op_graph_verifier.h.
AllowedParents ==
  [t \in Range(Stages) |-> CASE t = SUPPORT -> {SUPPORT}
                             [] t = CPU     -> {CPU, SUPPORT}
                             [] t = MIXED   -> {CPU, SUPPORT}
                             [] t = GPU     -> {GPU, MIXED, SUPPORT}]

\* mutant: an operator may have parents of any stage
AnyParents(g, n) == TRUE

CheckParentConstraints(g, n) ==
  \A p \in g.op_nodes[n].parents : g.op_nodes[p].op_type \in AllowedParents[g.op_nodes[n].op_type]

CheckArgumentInputConstraints(g, n) ==
  \A i \in DOMAIN g.op_nodes[n].spec.inputs :
     g.op_nodes[n].spec.inputs[i].arg
       => /\ g.op_nodes[n].op_type # SUPPORT
          /\ g.tensor_nodes[g.op_nodes[n].parent_tensors[i]].producer.is_support

CheckConsistentTensorEdges(g) ==
  \A t \in DOMAIN g.tensor_nodes :
     \A c \in Range(g.tensor_nodes[t].consumers) :
        /\ c.is_support = g.tensor_nodes[t].producer.is_support
        /\ c.storage_device = g.tensor_nodes[t].producer.storage_device

CheckGraphConstraints(g) ==
  /\ \A n \in DOMAIN g.op_nodes : CheckParentConstraints(g, n) /\ CheckArgumentInputConstraints(g, n)
  /\ CheckConsistentTensorEdges(g)
=============================================================================

---------------------------- MODULE MCPipeline ----------------------------
(***************************************************************************)
(* Small pipelines for TLC: every pipeline of up to three operators with   *)
(* at most two inputs each, and some larger shapes.                        *)
(***************************************************************************)
EXTENDS Pipeline

MCOp(device, outdev, nouts, inputs) ==
  [type |-> device, device |-> device, outdev |-> outdev, nouts |-> nouts, inputs |-> inputs,
   preserve |-> FALSE, split |-> FALSE, grouping |-> TRUE, external |-> FALSE, relation_id |-> 0]

MCFrom(o, i, device) == [op |-> o, out |-> i, device |-> device, arg |-> FALSE]
MCArg(o) == [op |-> o, out |-> 1, device |-> CPU, arg |-> TRUE]

\* The edges an operator can take after the operators in d.
MCEdges(d) ==
  {e \in [op : DOMAIN d, out : 1..2, device : {CPU, GPU}, arg : BOOLEAN] :
     e.out <= d[e.op].nouts /\ (e.arg => e.device = CPU)}

\* Edges of the right kind for a device, to keep the larger pipelines few.
MCFit(d, device) ==
  {e \in MCEdges(d) : LET src == d[e.op] IN
     CASE e.arg -> src.device = SUPPORT /\ device # SUPPORT
       [] OTHER -> IF device = GPU THEN src.device = CPU \/ (e.device = GPU /\ src.outdev = GPU)
                   ELSE e.device = CPU /\ src.device = CPU /\ device # SUPPORT}

MCFirst ==
  {MCOp(SUPPORT, CPU, 1, <<>>), MCOp(CPU, CPU, 1, <<>>), MCOp(CPU, CPU, 2, <<>>),
   MCOp(GPU, CPU, 1, <<>>), [MCOp(CPU, CPU, 1, <<>>) EXCEPT !.external = TRUE]}

MCLater(E(_)) ==
  {MCOp(SUPPORT, CPU, 1, <<>>)}
  \union {MCOp(CPU, CPU, 1, in) : in \in [1..1 -> E(CPU)] \union [1..2 -> E(CPU)]}
  \union {MCOp(MIXED, GPU, 1, in) : in \in [1..1 -> E(MIXED)]}
  \union {MCOp(GPU, GPU, 1, in) : in \in [1..1 -> E(GPU)] \union [1..2 -> E(GPU)]}

MCBad == {MCOp(SUPPORT, CPU, 1, <<MCFrom(1, 1, CPU)>>)}

\* One operator that does not fit ends a definition.
MCFits(d) == \A o \in Range(d) : \A e \in Range(o.inputs) : e \in MCFit(d, o.device)

MCRelated(n, o)  == [o EXCEPT !.relation_id = n]
MCPreserved(o)   == [o EXCEPT !.preserve = TRUE]
MCReader(n)      == MCOp(CPU, CPU, n, <<>>)

\* Larger pipelines: shared arguments and two stages; a short and a long path
\* from one operator; a split decoder; two input sets; a sink without outputs;
\* an operator preserved although unused; copies used by several consumers.
MCScripts ==
  {<<MCReader(2), MCOp(MIXED, GPU, 1, <<MCFrom(1, 1, CPU)>>), MCOp(SUPPORT, CPU, 1, <<>>),
     MCOp(GPU, GPU, 1, <<MCFrom(2, 1, GPU), MCArg(3)>>),
     MCOp(GPU, GPU, 1, <<MCFrom(4, 1, GPU), MCFrom(1, 2, GPU), MCArg(3)>>)>>,
   <<MCReader(1), MCOp(CPU, CPU, 1, <<MCFrom(1, 1, CPU)>>), MCOp(CPU, CPU, 1, <<MCFrom(2, 1, CPU)>>),
     MCOp(CPU, CPU, 1, <<MCFrom(1, 1, CPU), MCFrom(3, 1, CPU)>>),
     MCOp(MIXED, GPU, 1, <<MCFrom(4, 1, CPU)>>)>>,
   <<MCReader(1), [MCOp(MIXED, GPU, 1, <<MCFrom(1, 1, CPU)>>) EXCEPT !.split = TRUE],
     MCOp(CPU, CPU, 1, <<MCFrom(1, 1, CPU)>>), MCOp(GPU, GPU, 1, <<MCFrom(2, 1, GPU), MCFrom(3, 1, GPU)>>)>>,
   <<MCReader(2), MCOp(CPU, CPU, 1, <<MCFrom(1, 1, CPU)>>),
     [MCOp(CPU, CPU, 1, <<MCFrom(1, 2, CPU)>>) EXCEPT !.relation_id = 2],
     MCOp(GPU, GPU, 1, <<MCFrom(2, 1, GPU), MCFrom(3, 1, CPU)>>)>>,
   <<MCReader(1), MCPreserved(MCOp(CPU, CPU, 0, <<MCFrom(1, 1, CPU)>>)),
     MCOp(CPU, CPU, 2, <<MCFrom(1, 1, CPU)>>), MCOp(GPU, GPU, 1, <<MCFrom(3, 2, GPU)>>)>>,
   <<MCReader(2), MCPreserved(MCOp(CPU, CPU, 2, <<MCFrom(1, 1, CPU)>>)),
     MCOp(GPU, GPU, 1, <<MCFrom(1, 2, GPU), MCFrom(1, 2, CPU)>>),
     MCOp(GPU, GPU, 1, <<MCFrom(1, 2, GPU), MCFrom(1, 2, CPU)>>)>>}

\* Operators with no relation of their own are related to themselves only.
MCScript(s) == [i \in DOMAIN s |-> IF s[i].relation_id = 0 THEN MCRelated(i, s[i]) ELSE s[i]]

MCScriptOps(d) ==
  {MCScript(s)[Len(d) + 1] :
     s \in {s \in MCScripts : Len(s) > Len(d) /\ SubSeq(MCScript(s), 1, Len(d)) = d}}

MCOps(d) ==
  MCScriptOps(d) \union
  {MCRelated(Len(d) + 1, o) :
     o \in CASE Len(d) = 0 -> MCFirst
             [] Len(d) = 1 -> MCLater(LAMBDA device : MCEdges(d)) \union MCBad
             [] Len(d) = 2 /\ MCFits(d) -> MCLater(LAMBDA device : MCFit(d, device))
             [] OTHER -> {}}

MCExec(kind, c, g) == [kind |-> kind, cpu_size |-> c, gpu_size |-> g]

\* Requested outputs: any edge on any device.
MCOutputs(d) ==
  {o \in [op : DOMAIN d, out : 1..2, device : {CPU, GPU}] : o.out <= d[o.op].nouts}

\* Outputs that are there or can be copied.
MCGoodOutputs(d) ==
  {o \in MCOutputs(d) : d[o.op].device = CPU \/ (d[o.op].device # SUPPORT /\ o.device = d[o.op].outdev)}

MCRequests(d) ==
  (IF Len(d) # 2 THEN {} ELSE
     [api : {"cpp"}, outputs : {<<>>} \union [1..1 -> MCOutputs(d)] \union [1..2 -> MCOutputs(d)],
      exec : {MCExec("separated", 2, 1)}])
  \union
  (IF Len(d) # 3 \/ ~MCFits(d) THEN {} ELSE
     [api : {"cpp"}, outputs : [1..1 -> MCGoodOutputs(d)], exec : {MCExec("pipelined", 2, 2)}])
  \union
  (IF \A s \in MCScripts : MCScript(s) # d THEN {} ELSE
     [api : {"cpp", "python"}, outputs : [1..1 -> MCGoodOutputs(d)] \union [1..2 -> MCGoodOutputs(d)],
      exec : {MCExec("separated", 2, 2), MCExec("simple", 2, 2)}])
=============================================================================

-------------------------- MODULE MCUniformExecutor --------------------------
(***************************************************************************)
(* UniformExecutor and its users on a few batches: stages that fail (two   *)
(* at once), a destructor at any moment, more batches than buffers and up  *)
(* to two epochs of the Python interface and of the iterator, one of them  *)
(* over a data set that is not a multiple of the batch.                    *)
(***************************************************************************)
EXTENDS PythonPipeline

MCIter(size, fill, padded, auto) ==
  [size |-> size, fill_last_batch |-> fill, last_batch_padded |-> padded, auto_reset |-> auto]

MCCpp(runs, fail, destroy) ==
  [runs |-> runs, fail |-> fail, destroy |-> destroy, client |-> "cpp", feeds |-> FALSE,
   epoch |-> 0, epochs |-> 0, iter |-> MCIter(1, TRUE, FALSE, FALSE)]

MCPython(client, epoch, n, fail) ==
  [MCCpp(epoch * (n + 1), fail, FALSE) EXCEPT
     !.client = client, !.feeds = TRUE, !.epoch = epoch, !.epochs = n,
     !.iter = MCIter(2 * epoch, TRUE, FALSE, client = "iterator")]

MCIterator(n, args) ==
  [MCCpp(9, {}, FALSE) EXCEPT !.client = "iterator", !.epochs = n, !.iter = args]

MCScenarios == {
  MCCpp(2, {}, FALSE),
  MCCpp(1, {"GPU"}, TRUE),
  MCPython("run", 2, 1, {}),
  MCPython("run", 1, 2, {}),
  MCPython("run", 1, 1, {"SUPPORT", "MIXED"}),
  MCPython("scheduled", 1, 1, {}),
  MCPython("scheduled", 1, 1, {"GPU"}),
  [MCPython("iterator", 1, 2, {}) EXCEPT !.iter = MCIter(1, FALSE, TRUE, TRUE)],
  MCIterator(2, MCIter(3, TRUE, FALSE, FALSE))}

DestroyOnly == {MCCpp(1, {}, TRUE)}

=============================================================================

------------------------ MODULE MCSeparatedExecutor ------------------------
(***************************************************************************)
(* SeparatedExecutor on a few batches: more batches than buffers without   *)
(* failures, so that every buffer is reused while kernels are pending; and *)
(* operators that fail in any stage, with a destructor at any moment.      *)
(***************************************************************************)
EXTENDS SeparatedExecutor

MCScenarios == {
  [runs |-> 3, output |-> "GPU", fail |-> {}, destroy |-> FALSE],
  [runs |-> 1, output |-> "MIXED", fail |-> Stages, destroy |-> TRUE]}
=============================================================================

----------------------- MODULE MCSeparateQueuePolicy -----------------------
(***************************************************************************)
(* SeparateQueuePolicy with queues that are shorter than the number of     *)
(* batches in flight, and with stop signalled by the main thread and by a  *)
(* failing stage.  The state space is finite without further bounds.       *)
(***************************************************************************)
EXTENDS SeparateQueuePolicy
=============================================================================

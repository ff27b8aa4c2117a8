--------------------------- MODULE MCCachedDecoder ---------------------------
(* Six images, two decoder threads.  Each scenario takes the cache through   *)
(* filling, being full and being read, with the images of one batch at       *)
(* another sample, or among others, in a later one.  The image of kind       *)
(* "late" comes last, so that no thread decodes another image after it:      *)
(* OutputsDecoded fails where one does (README.md, section 4).               *)
EXTENDS CachedDecoder

MCImages == 1 .. 6
MCSize == <<2, 3, 2, 1, 4, 1>>
MCKind == <<"jpeg", "jpeg", "jpeg", "host", "host", "late">>

MCScenarios ==
  { [policy |-> "threshold", batches |-> << <<1, 2, 3>>, <<2, 6, 1>> >>],
    [policy |-> "threshold", batches |-> << <<1, 1>>, <<4, 3>>, <<5, 1>> >>],
    [policy |-> "largest", batches |-> << <<1, 3>>, <<4, 5>>, <<5, 1>>, <<4, 5>> >>] }

Repeated == { [policy |-> "threshold", batches |-> << <<1, 1>> >>] }

=============================================================================

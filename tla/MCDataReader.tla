---------------------------- MODULE MCDataReader ----------------------------
(* Instances of DataReader and of VideoReader for TLC. *)
EXTENDS VideoReader

K(f) == [frame |-> f, key |-> TRUE]
P(f) == [frame |-> f, key |-> FALSE]

\* two groups of pictures, with pictures that are decoded before earlier ones
Film == <<K(0), P(2), P(1), K(3), P(4)>>
Long == <<K(0), P(2), P(1), P(3), K(4)>>
\* so long that reading ends before the file does
Clip == <<K(0), P(2), P(1), P(4), P(3)>>

Reader == [video |-> TRUE, files |-> <<Film>>, count |-> 2, stride |-> 1, step |-> 2,
           unreliable |-> FALSE, bad |-> {}, interlaced |-> FALSE, runs |-> 1]

MCReaders ==
  { [Reader EXCEPT !.video = FALSE, !.runs = MaxRuns],
    [Reader EXCEPT !.files = <<Long>>, !.step = 3, !.unreliable = TRUE],
    [Reader EXCEPT !.stride = 2, !.step = 1, !.unreliable = TRUE],
    [Reader EXCEPT !.files = <<Clip, Film>>],
    [Reader EXCEPT !.bad = {<<1, 3>>}],
    [Reader EXCEPT !.interlaced = TRUE] }
=============================================================================

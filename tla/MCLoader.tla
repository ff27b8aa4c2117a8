------------------------------- MODULE MCLoader -------------------------------
(***************************************************************************)
(* Readers for TLC.                                                        *)
(***************************************************************************)
EXTENDS Loader

\* shards of different size, a buffer smaller than a shard, one batch slot
Uneven ==
  [size |-> 9, num_shards |-> 2, shard_id |-> 1, initial_fill |-> 3, batch_size |-> 2,
   queue_depth |-> 1, random_shuffle |-> TRUE, stick_to_shard |-> FALSE, pad_last_batch |-> FALSE,
   lazy_init |-> TRUE, user_asks |-> FALSE, max_index |-> 26]

\* a buffer larger than a shard, padded batches in a ring of two slots
Padded ==
  [size |-> 8, num_shards |-> 3, shard_id |-> 0, initial_fill |-> 4, batch_size |-> 2,
   queue_depth |-> 2, random_shuffle |-> TRUE, stick_to_shard |-> FALSE, pad_last_batch |-> TRUE,
   lazy_init |-> FALSE, user_asks |-> TRUE, max_index |-> 22]

\* a reader that keeps to one of two shards of equal size
Sticking ==
  [size |-> 6, num_shards |-> 2, shard_id |-> 1, initial_fill |-> 4, batch_size |-> 2,
   queue_depth |-> 2, random_shuffle |-> TRUE, stick_to_shard |-> TRUE, pad_last_batch |-> TRUE,
   lazy_init |-> FALSE, user_asks |-> FALSE, max_index |-> 22]

\* ... and the same with other data sets, shards and buffers
Variants ==
  {[Padded EXCEPT !.size = n, !.num_shards = k, !.shard_id = k - 1, !.initial_fill = f,
                  !.pad_last_batch = p, !.max_index = 2 * n + f] :
     n \in 4 .. 7, k \in 1 .. 3, f \in {1, 3}, p \in BOOLEAN}

MCArguments == {Uneven, Padded, Sticking} \cup Variants

\* a reader that keeps to the larger of two shards
StickingUneven == {
  [size |-> 5, num_shards |-> 2, shard_id |-> 0, initial_fill |-> 1, batch_size |-> 3,
   queue_depth |-> 1, random_shuffle |-> FALSE, stick_to_shard |-> TRUE, pad_last_batch |-> TRUE,
   lazy_init |-> FALSE, user_asks |-> FALSE, max_index |-> 20]}

=============================================================================

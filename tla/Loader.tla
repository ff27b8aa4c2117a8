-------------------------------- MODULE Loader --------------------------------
(***************************************************************************)
(* Loader (loader.h) with FileLoader's ReadSample and Reset: a buffer of   *)
(* samples read ahead, drawn from at random, in which the samples of one   *)
(* shard (an epoch) never mix with those of the next.  The client is the   *)
(* prefetch thread of a reader, filling a ring of batches; another thread  *)
(* may ask for Size.  A sample is its index in the data set.               *)
(***************************************************************************)
EXTENDS Integers, Sequences, FiniteSets, SequencesExt

CONSTANT Arguments   \* the data sets, arguments and clients considered

ASSUME LoaderAssumption ==
  \A a \in Arguments :
    /\ {a.size, a.num_shards, a.initial_fill, a.batch_size, a.queue_depth} \subseteq Nat \ {0}
    /\ a.shard_id \in 0 .. a.num_shards - 1
    /\ a.size >= a.num_shards

VARIABLE arg         \* the member of Arguments in use

DatasetSize == arg.size
NumShards == arg.num_shards
ShardId == arg.shard_id
BatchSize == arg.batch_size
QueueDepth == arg.queue_depth
Shuffle == arg.random_shuffle
StickToShard == arg.stick_to_shard
PadLastBatch == arg.pad_last_batch
LazyInit == arg.lazy_init     \* metadata are prepared by the first read, not by the constructor
UserAsks == arg.user_asks     \* whether another thread calls Size
MaxIndex == arg.max_index     \* bound: samples put into the buffer

VARIABLES
  loading_flag, size,       \* loading_flag_; SizeImpl(), 0 until the metadata are there
  meta,                     \* thread -> its position in PrepareMetadata
  asked,                    \* what the last Size returned, -1 before
  current_index,            \* of FileLoader
  read_sample_counter, virtual_shard_id,
  shards,                   \* shards_: a sequence of [start, end]
  sample_buffer, initial_buffer_filled,
  empty_tensors,            \* number of tensors in the pool
  last_sample, last_orphan, \* last_sample_ptr_tmp; it alone holds its tensor
  ring, slot,               \* batches of the reader, the one being filled
  pc,                       \* position of the prefetch thread
  epoch_shard, seen         \* shard whose samples are returned now, those returned

metadata == <<loading_flag, size, meta, asked>>
reading == <<current_index, read_sample_counter, virtual_shard_id, shards>>
buffer == <<sample_buffer, initial_buffer_filled, empty_tensors, last_sample, last_orphan>>
client == <<ring, slot, pc>>
history == <<epoch_shard, seen>>
vars == <<metadata, reading, buffer, client, history>>

Null == -1
initial_buffer_fill == IF Shuffle THEN arg.initial_fill ELSE 1
initial_empty_size == 2 * QueueDepth * BatchSize

start_index(shard_id, shard_num, total) ==
  LET remainder == total % shard_num IN
  IF shard_id < remainder THEN (total \div shard_num) * shard_id + shard_id
                          ELSE (total \div shard_num) * shard_id + remainder

\* the data set is there, and the reader is at the start of its shard
Init ==
  /\ arg \in Arguments
  /\ loading_flag = ~LazyInit /\ size = IF LazyInit THEN 0 ELSE DatasetSize
  /\ meta = [t \in {"prefetch", "user"} |-> "none"] /\ asked = -1
  /\ current_index = IF LazyInit THEN 0 ELSE start_index(ShardId, NumShards, DatasetSize)
  /\ read_sample_counter = 0 /\ virtual_shard_id = ShardId /\ shards = <<>>
  /\ sample_buffer = <<>> /\ initial_buffer_filled = FALSE /\ empty_tensors = 0
  /\ last_sample = Null /\ last_orphan = FALSE
  /\ ring = [i \in 0 .. QueueDepth - 1 |-> <<>>] /\ slot = 0 /\ pc = "clear"
  /\ epoch_shard = ShardId /\ seen = <<>>

-----------------------------------------------------------------------------
(* PrepareMetadata and Size *)

\* with the mutex: if the flag is not set, set it and prepare
PrepareMetadataLock(t) ==
  /\ meta[t] = "lock" /\ \A u \in DOMAIN meta : meta[u] # "impl"
  /\ meta' = [meta EXCEPT ![t] = IF loading_flag THEN "none" ELSE "impl"]
  /\ loading_flag' = TRUE
  /\ UNCHANGED <<size, asked, reading, buffer, client, history>>

PrepareMetadataImpl(t) ==
  /\ meta[t] = "impl"
  /\ size' = DatasetSize
  /\ current_index' = start_index(ShardId, NumShards, DatasetSize)
  /\ meta' = [meta EXCEPT ![t] = "none"]
  /\ UNCHANGED <<loading_flag, asked, read_sample_counter, virtual_shard_id, shards, buffer, client,
                 history>>

\* Size, from another thread
Size ==
  /\ UserAsks /\ meta["user"] = "none"
  /\ IF loading_flag THEN asked' = size /\ UNCHANGED meta
                     ELSE meta' = [meta EXCEPT !["user"] = "lock"] /\ UNCHANGED asked
  /\ UNCHANGED <<loading_flag, size, reading, buffer, client, history>>

-----------------------------------------------------------------------------
(* Reading one sample from the data set *)

\* has the reader moved to the next shard
IsNextShard(index) ==
  \/ index >= DatasetSize
  \/ /\ StickToShard /\ ShardId + 1 < NumShards
     /\ index >= start_index(ShardId + 1, NumShards, DatasetSize)

\* Reset(stick_to_shard_)
Reset == IF StickToShard THEN start_index(ShardId, NumShards, DatasetSize) ELSE 0

\* ReadSample of FileLoader returns the sample at current_index_ and moves on
ReadSample ==
  current_index' = IF IsNextShard(current_index + 1) THEN Reset ELSE current_index + 1

IsNextShardRelative(already_read, shard) ==
  LET index == already_read + start_index(shard, NumShards, DatasetSize) IN
  \/ index >= DatasetSize
  \/ shard + 1 < NumShards /\ index >= start_index(shard + 1, NumShards, DatasetSize)

Back(s) == s[Len(s)]
\* ++shards_.back().end
Grow(s) == [s EXCEPT ![Len(s)].end = @ + 1]

\* mutant: off by one
IncreaseReadSampleCounterEarly(s) ==
  IF IsNextShardRelative(read_sample_counter + 1, virtual_shard_id)
  THEN /\ virtual_shard_id' = (virtual_shard_id + 1) % NumShards
       /\ read_sample_counter' = 1
       /\ shards' = Grow(Append(s, [start |-> Back(s).end, end |-> Back(s).end]))
  ELSE /\ read_sample_counter' = read_sample_counter + 1
       /\ shards' = Grow(s) /\ UNCHANGED virtual_shard_id

\* mutant: the new shard starts behind the sample
IncreaseReadSampleCounterOpen(s) ==
  IF IsNextShardRelative(read_sample_counter, virtual_shard_id)
  THEN /\ virtual_shard_id' = (virtual_shard_id + 1) % NumShards
       /\ read_sample_counter' = 1
       /\ shards' = Append(Grow(s), [start |-> Back(s).end + 1, end |-> Back(s).end + 1])
  ELSE /\ read_sample_counter' = read_sample_counter + 1
       /\ shards' = Grow(s) /\ UNCHANGED virtual_shard_id

\* IncreaseReadSampleCounter opens a new shard when the sample just read is its
\* first, and the sample is then added to the last shard
IncreaseReadSampleCounter(s) ==
  IF IsNextShardRelative(read_sample_counter, virtual_shard_id)
  THEN /\ virtual_shard_id' = (virtual_shard_id + 1) % NumShards
       /\ read_sample_counter' = 1
       /\ shards' = Grow(Append(s, [start |-> Back(s).end, end |-> Back(s).end]))
  ELSE /\ read_sample_counter' = read_sample_counter + 1
       /\ shards' = Grow(s) /\ UNCHANGED virtual_shard_id

-----------------------------------------------------------------------------
(* The prefetch thread *)

\* Recycling: the deleter of a sample returns its tensor to the pool
\* the reader drops the batch in the slot it is about to fill; a tensor that
\* last_sample_ptr_tmp still shares is not recycled
Clear ==
  /\ pc = "clear"
  /\ LET fresh == Cardinality({k \in DOMAIN ring[slot] : ~ring[slot][k].copy})
         shares == QueueDepth = 1 /\ fresh > 0
     IN /\ empty_tensors' = empty_tensors + fresh - (IF shares THEN 1 ELSE 0)
        /\ last_orphan' = shares
  /\ ring' = [ring EXCEPT ![slot] = <<>>] /\ pc' = "read"
  /\ UNCHANGED <<metadata, reading, sample_buffer, initial_buffer_filled, last_sample, slot, history>>

\* the batch is complete: the reader goes to its next slot
NextBatch ==
  /\ pc = "read" /\ Len(ring[slot]) = BatchSize
  /\ slot' = (slot + 1) % QueueDepth /\ pc' = "clear"
  /\ UNCHANGED <<metadata, reading, buffer, ring, history>>

\* ReadOne: metadata, then the initial fill, then a sample of the first shard
ReadOneMetadata ==
  /\ pc = "read" /\ Len(ring[slot]) < BatchSize
  /\ meta["prefetch"] = "none"
  /\ IF loading_flag THEN pc' = (IF initial_buffer_filled THEN "choose" ELSE "fill") /\ UNCHANGED meta
                     ELSE meta' = [meta EXCEPT !["prefetch"] = "lock"] /\ UNCHANGED pc
  /\ UNCHANGED <<loading_flag, size, asked, reading, buffer, ring, slot, history>>

FillOne ==
  /\ pc = "fill" /\ size > 0 /\ Len(sample_buffer) < initial_buffer_fill
  /\ ReadSample
  /\ IncreaseReadSampleCounter(IF shards = <<>> THEN <<[start |-> 0, end |-> 0]>> ELSE shards)
  /\ sample_buffer' = Append(sample_buffer, current_index)
  /\ UNCHANGED <<metadata, initial_buffer_filled, empty_tensors, last_sample, last_orphan, client,
                 history>>

FillEmpty ==
  /\ pc = "fill" /\ Len(sample_buffer) = initial_buffer_fill
  /\ empty_tensors' = initial_empty_size
  /\ initial_buffer_filled' = TRUE /\ pc' = "choose"
  /\ UNCHANGED <<metadata, reading, sample_buffer, last_sample, last_orphan, ring, slot, history>>

Exhausted == shards[1].start = shards[1].end

\* mutant: a batch is not padded after its first sample
MustPadLate == Exhausted /\ Len(ring[slot]) > 1 /\ PadLastBatch

\* !is_new_epoch && pad_last_batch_, the shard being used up
MustPad == Exhausted /\ ring[slot] # <<>> /\ PadLastBatch

ReadOnePad ==
  /\ pc = "choose" /\ MustPad
  /\ ring' = [ring EXCEPT ![slot] = Append(@, [sample |-> last_sample, copy |-> TRUE])]
  /\ pc' = "read"
  /\ UNCHANGED <<metadata, reading, buffer, slot, history>>

\* the slot a sample is taken from and the slot the next one is put into
Slot(i) == (i % Len(sample_buffer)) + 1

\* sample_buffer_[i] is released and swapped with the first sample of the shard
Swap(b, i, start) == [b EXCEPT ![Slot(i)] = b[Slot(start)], ![Slot(start)] = Null]

\* a sample is drawn from the first shard and replaced by one read into a tensor
\* of the pool
ReadOneSample ==
  /\ pc = "choose" /\ size > 0
  /\ ~MustPad
  /\ empty_tensors > 0
  /\ LET s == IF Exhausted THEN Tail(shards) ELSE shards
         start == s[1].start
     IN /\ Back(s).end < MaxIndex
        /\ \E offset \in IF Shuffle THEN 0 .. s[1].end - start - 1 ELSE {0} :
             LET sample == sample_buffer[Slot(start + offset)] IN
             /\ ring' = [ring EXCEPT ![slot] = Append(@, [sample |-> sample, copy |-> FALSE])]
             /\ last_sample' = sample
             /\ sample_buffer' = [Swap(sample_buffer, start + offset, start)
                                    EXCEPT ![Slot(Back(s).end)] = current_index]
             /\ seen' = Append(IF Exhausted THEN <<>> ELSE seen, sample)
        /\ ReadSample
        /\ IncreaseReadSampleCounter([s EXCEPT ![1].start = @ + 1])
  /\ epoch_shard' = IF Exhausted /\ ~StickToShard THEN (epoch_shard + 1) % NumShards ELSE epoch_shard
  /\ empty_tensors' = empty_tensors - 1 + (IF last_orphan THEN 1 ELSE 0)
  /\ last_orphan' = FALSE
  /\ pc' = "read"
  /\ UNCHANGED <<metadata, initial_buffer_filled, slot>>

-----------------------------------------------------------------------------
Next ==
  /\ \/ \E t \in {"prefetch", "user"} : PrepareMetadataLock(t) \/ PrepareMetadataImpl(t)
     \/ Size
     \/ Clear \/ NextBatch \/ ReadOneMetadata \/ FillOne \/ FillEmpty \/ ReadOnePad \/ ReadOneSample
  /\ UNCHANGED arg

Spec == Init /\ [][Next]_<<vars, arg>>

-----------------------------------------------------------------------------
Samples == 0 .. DatasetSize - 1

\* the samples of a shard
ShardSamples(k) ==
  {i \in Samples : /\ i >= start_index(k, NumShards, DatasetSize)
                   /\ k + 1 < NumShards => i < start_index(k + 1, NumShards, DatasetSize)}

\* The types of the variables.
TypeOK ==
  /\ loading_flag \in BOOLEAN /\ size \in {0, DatasetSize} /\ asked \in {-1, 0, DatasetSize}
  /\ current_index \in Samples /\ virtual_shard_id \in 0 .. NumShards - 1
  /\ read_sample_counter \in 0 .. DatasetSize
  /\ shards \in Seq([start : 0 .. MaxIndex, end : 0 .. MaxIndex])
  /\ sample_buffer \in Seq(Samples)
  /\ empty_tensors \in 0 .. initial_empty_size
  /\ ring \in [0 .. QueueDepth - 1 -> Seq([sample : Samples, copy : BOOLEAN])]
  /\ slot \in 0 .. QueueDepth - 1 /\ pc \in {"clear", "read", "fill", "choose"}

\* The reader goes through the data shard by shard: when the first shard of the
\* buffer is used up, the samples returned since the last one are exactly those
\* of the shard the reader is in, each once, however far the buffer has read
\* ahead and in whatever order samples were drawn from it.
EpochIsShard ==
  initial_buffer_filled /\ Exhausted =>
    /\ ToSet(seen) = ShardSamples(epoch_shard)
    /\ Len(seen) = Cardinality(ShardSamples(epoch_shard))

\* "If set to true, the Loader will pad the last batch with the last image when
\* the batch size is not aligned with the shard size": a batch never holds
\* samples of two shards.
BatchOfOneShard ==
  PadLastBatch =>
    \A i \in DOMAIN ring : \E k \in 0 .. NumShards - 1 :
      \A j \in DOMAIN ring[i] : ring[i][j].sample \in ShardSamples(k)

\* The variables have their types, the buffer has a sample in every slot between
\* calls, and the shards of the buffer cover it: a shard that is used up is
\* followed by one that is not empty.  And "No empty tensors - did you forget to
\* return them?" is never thrown: the pool has a tensor whenever a sample is read,
\* though the last sample is kept beyond its batch.
BufferFull ==
  TypeOK /\ (pc = "choose" => empty_tensors > 0) /\ (initial_buffer_filled =>
    /\ Null \notin ToSet(sample_buffer)
    /\ Back(shards).end - shards[1].start = Len(sample_buffer)
    /\ \A k \in 2 .. Len(shards) :
         shards[k].start = shards[k - 1].end /\ shards[k].start < shards[k].end)

\* "Whether reader should stick to given data shard instead of going through the
\* whole dataset" (loader.cc:34) and "pad the last batch ... when the batch size is
\* not aligned with the shard size" (loader.cc:51): the reader that sticks to its
\* shard pads a batch only when it has returned its whole shard.
PadsAtEndOfShard ==
  StickToShard /\ pc = "choose" /\ initial_buffer_filled /\ MustPad =>
    ToSet(seen) = ShardSamples(ShardId)

=============================================================================

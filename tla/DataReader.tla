----------------------------- MODULE DataReader -----------------------------
(***************************************************************************)
(* The prefetching half of a reader operator                               *)
(* (src/dali/pipeline/operators/reader/reader_op.h).                       *)
(*                                                                         *)
(* A prefetch thread fills the slots of a ring of prefetch_queue_depth_    *)
(* batches; the executor's thread consumes one slot per Run.  Ring full    *)
(* and ring empty are told apart by two cycle bits.  Both threads sleep on *)
(* condition variables that share prefetch_access_mutex_: one step of the  *)
(* model is one critical section, one notify, or one access to a slot.     *)
(*                                                                         *)
(* The content of a batch is abstracted to its number: the k-th batch the  *)
(* loader delivers is k (counted from 0).                                  *)
(***************************************************************************)
EXTENDS Integers, FiniteSets

CONSTANTS
  Depth,        \* prefetch_queue_depth_
  MaxRuns,      \* bound: number of calls of Run
  MoveSamples,  \* TRUE: GPU readers, which move the samples out of the slot
  LoaderFails   \* TRUE: Prefetch may throw

ASSUME DepthAssumption == Depth \in Nat \ {0}
ASSUME RunsAssumption == MaxRuns \in Nat
ASSUME FlagAssumption == MoveSamples \in BOOLEAN /\ LoaderFails \in BOOLEAN

Empty == -1      \* a cleared slot, or one that is being filled

Slots == 0 .. Depth - 1

Threads == {"producer", "consumer"}

VARIABLES
  prefetched_batch_queue,  \* slot -> number of the batch in it, or Empty
  curr_batch_producer, producer_cycle,
  curr_batch_consumer, consumer_cycle,
  finished,                \* finished_
  prefetch_error,          \* prefetch_error_ is set
  waiting,                 \* threads asleep on producer_ / consumer_
  producer,                \* control state of the prefetch thread
  consumer,                \* control state of the thread that calls Run
  destructor,              \* control state of ~DataReader
  runs,                    \* Run calls begun (history)
  produced,                \* batches the loader has delivered (history)
  consumed                 \* batches Run has finished with (history)

ring == <<prefetched_batch_queue, curr_batch_producer, producer_cycle,
          curr_batch_consumer, consumer_cycle>>
history == <<runs, produced, consumed>>
vars == <<ring, finished, prefetch_error, waiting, producer, consumer,
          destructor, history>>

Init ==
  /\ prefetched_batch_queue = [i \in Slots |-> Empty]
  /\ curr_batch_producer = 0 /\ producer_cycle = FALSE
  /\ curr_batch_consumer = 0 /\ consumer_cycle = FALSE
  /\ finished = FALSE /\ prefetch_error = FALSE
  /\ waiting = {}
  /\ producer = "none" /\ consumer = "idle" /\ destructor = "none"
  /\ runs = 0 /\ produced = 0 /\ consumed = 0

-----------------------------------------------------------------------------
(* AdvanceIndex, IsPrefetchQueueEmpty, IsPrefetchQueueFull *)

AdvanceIndex(index) == (index + 1) % Depth

\* mutant: the cycle bit is never flipped
AdvanceCycleStuck(index, cycle) == cycle

AdvanceCycle(index, cycle) == IF AdvanceIndex(index) = 0 THEN ~cycle ELSE cycle

\* mutant: the emptiness test forgets the cycle bits' meaning
IsPrefetchQueueNeverEmpty == FALSE

IsPrefetchQueueEmpty ==
  /\ curr_batch_producer = curr_batch_consumer
  /\ consumer_cycle = producer_cycle

IsPrefetchQueueFull ==
  /\ curr_batch_producer = curr_batch_consumer
  /\ consumer_cycle # producer_cycle

-----------------------------------------------------------------------------
(* The prefetch thread: PrefetchWorker. *)

\* producer_.wait(lock, [&]() { return finished_ || !IsPrefetchQueueFull(); })
ProducerWait ==
  /\ producer = "wait" /\ "producer" \notin waiting
  /\ IF finished \/ ~IsPrefetchQueueFull
     THEN /\ producer' = "check"
          /\ UNCHANGED waiting
     ELSE /\ waiting' = waiting \cup {"producer"}
          /\ UNCHANGED producer
  /\ UNCHANGED <<ring, finished, prefetch_error, consumer, destructor, history>>

\* while (!finished_): finished_ is read outside the mutex
ProducerCheck ==
  /\ producer = "check"
  /\ producer' = IF finished THEN "done" ELSE "prefetch"
  /\ UNCHANGED <<ring, finished, prefetch_error, waiting, consumer, destructor, history>>

\* Prefetch, first half: curr_batch.clear()
PrefetchClear ==
  /\ producer = "prefetch"
  /\ prefetched_batch_queue' = [prefetched_batch_queue EXCEPT ![curr_batch_producer] = Empty]
  /\ producer' = "fill"
  /\ UNCHANGED <<curr_batch_producer, producer_cycle, curr_batch_consumer, consumer_cycle,
                 finished, prefetch_error, waiting, consumer, destructor, history>>

\* Prefetch, second half: batch_size_ calls of loader_->ReadOne
PrefetchFill ==
  /\ producer = "fill"
  /\ prefetched_batch_queue' = [prefetched_batch_queue EXCEPT ![curr_batch_producer] = produced]
  /\ produced' = produced + 1
  /\ producer' = "advance"
  /\ UNCHANGED <<curr_batch_producer, producer_cycle, curr_batch_consumer, consumer_cycle,
                 finished, prefetch_error, waiting, consumer, destructor, runs, consumed>>

\* ReadOne throws: ProducerStop(std::current_exception()), critical section
PrefetchThrows ==
  /\ producer = "fill" /\ LoaderFails
  /\ finished' = TRUE /\ prefetch_error' = TRUE
  /\ producer' = "stopped"
  /\ UNCHANGED <<ring, waiting, consumer, destructor, history>>

ProducerAdvanceQueue ==
  /\ producer = "advance"
  /\ curr_batch_producer' = AdvanceIndex(curr_batch_producer)
  /\ producer_cycle' = AdvanceCycle(curr_batch_producer, producer_cycle)
  /\ producer' = "notify"
  /\ UNCHANGED <<prefetched_batch_queue, curr_batch_consumer, consumer_cycle,
                 finished, prefetch_error, waiting, consumer, destructor, history>>

\* consumer_.notify_all() of ProducerAdvanceQueue and of ProducerStop
ProducerNotify ==
  /\ producer \in {"notify", "stopped"}
  /\ waiting' = waiting \ {"consumer"}
  /\ producer' = IF producer = "notify" THEN "wait" ELSE "done"
  /\ UNCHANGED <<ring, finished, prefetch_error, consumer, destructor, history>>

-----------------------------------------------------------------------------
(* The executor's thread: Run(HostWorkspace) and Run(DeviceWorkspace). *)

\* Run: StartPrefetchThread starts the thread once, then ConsumerWait
RunStart ==
  /\ consumer = "idle" /\ destructor = "none" /\ runs < MaxRuns
  /\ runs' = runs + 1
  /\ producer' = IF producer = "none" THEN "wait" ELSE producer
  /\ consumer' = "wait"
  /\ UNCHANGED <<ring, finished, prefetch_error, waiting, destructor, produced, consumed>>

\* consumer_.wait(...); if (prefetch_error_) std::rethrow_exception(prefetch_error_)
ConsumerWait ==
  /\ consumer = "wait" /\ "consumer" \notin waiting
  /\ IF finished \/ ~IsPrefetchQueueEmpty
     THEN /\ consumer' = IF prefetch_error THEN "idle" ELSE "run"
          /\ UNCHANGED waiting
     ELSE /\ waiting' = waiting \cup {"consumer"}
          /\ UNCHANGED consumer
  /\ UNCHANGED <<ring, finished, prefetch_error, producer, destructor, history>>

\* Operator::Run, and for GPU readers MoveSample for every sample of the slot
RunConsume ==
  /\ consumer = "run"
  /\ prefetched_batch_queue' =
       IF MoveSamples
       THEN [prefetched_batch_queue EXCEPT ![curr_batch_consumer] = Empty]
       ELSE prefetched_batch_queue
  /\ consumer' = "advance"
  /\ UNCHANGED <<curr_batch_producer, producer_cycle, curr_batch_consumer, consumer_cycle,
                 finished, prefetch_error, waiting, producer, destructor, history>>

\* Operator::Run throws (a parser error): the slot is not given back
RunThrows ==
  /\ consumer = "run"
  /\ consumer' = "idle"
  /\ UNCHANGED <<ring, finished, prefetch_error, waiting, producer, destructor, history>>

ConsumerAdvanceQueue ==
  /\ consumer = "advance"
  /\ curr_batch_consumer' = AdvanceIndex(curr_batch_consumer)
  /\ consumer_cycle' = AdvanceCycle(curr_batch_consumer, consumer_cycle)
  /\ consumed' = consumed + 1
  /\ consumer' = "notify"
  /\ UNCHANGED <<prefetched_batch_queue, curr_batch_producer, producer_cycle,
                 finished, prefetch_error, waiting, producer, destructor, runs, produced>>

\* producer_.notify_one()
ConsumerNotify ==
  /\ consumer = "notify"
  /\ waiting' = waiting \ {"producer"}
  /\ consumer' = "idle"
  /\ UNCHANGED <<ring, finished, prefetch_error, producer, destructor, history>>

-----------------------------------------------------------------------------
(* ~DataReader: StopPrefetchThread, then the slots are cleared.  The       *)
(* operator is destroyed when no Run is in progress.                       *)

\* ProducerStop(), critical section
StopPrefetchThread ==
  /\ destructor = "none" /\ consumer = "idle"
  /\ finished' = TRUE
  /\ destructor' = "notify"
  /\ UNCHANGED <<ring, prefetch_error, waiting, producer, consumer, history>>

\* mutant: the notify of producer_ in StopPrefetchThread is missing
StopNotifyConsumerOnly ==
  /\ destructor = "notify"
  /\ waiting' = waiting \ {"consumer"}
  /\ destructor' = "join"
  /\ UNCHANGED <<ring, finished, prefetch_error, producer, consumer, history>>

\* consumer_.notify_all(); if (prefetch_thread_.joinable()) producer_.notify_one()
StopNotify ==
  /\ destructor = "notify"
  /\ waiting' = waiting \ (IF producer = "none" THEN {"consumer"} ELSE Threads)
  /\ destructor' = "join"
  /\ UNCHANGED <<ring, finished, prefetch_error, producer, consumer, history>>

\* prefetch_thread_.join(), batch.clear() for every slot
StopJoin ==
  /\ destructor = "join" /\ producer \in {"none", "done"}
  /\ prefetched_batch_queue' = [i \in Slots |-> Empty]
  /\ destructor' = "done"
  /\ UNCHANGED <<curr_batch_producer, producer_cycle, curr_batch_consumer, consumer_cycle,
                 finished, prefetch_error, waiting, producer, consumer, history>>

-----------------------------------------------------------------------------
PrefetchWorker ==
  \/ ProducerWait \/ ProducerCheck \/ PrefetchClear \/ PrefetchFill
  \/ PrefetchThrows \/ ProducerAdvanceQueue \/ ProducerNotify

\* the steps of a Run that has begun
Run ==
  ConsumerWait \/ RunConsume \/ RunThrows \/ ConsumerAdvanceQueue \/ ConsumerNotify

Destroy == StopPrefetchThread \/ StopNotify \/ StopJoin

Next == PrefetchWorker \/ RunStart \/ Run \/ Destroy

\* Threads that can run do run; nobody is obliged to call Run or to destroy
\* the reader, but a destructor that has begun goes on.
Fairness ==
  /\ WF_vars(PrefetchWorker)
  /\ WF_vars(Run)
  /\ WF_vars(StopNotify \/ StopJoin)

Spec == Init /\ [][Next]_vars /\ Fairness

-----------------------------------------------------------------------------
(* Properties. *)

TypeOK ==
  /\ prefetched_batch_queue \in [Slots -> Nat \cup {Empty}]
  /\ curr_batch_producer \in Slots /\ producer_cycle \in BOOLEAN
  /\ curr_batch_consumer \in Slots /\ consumer_cycle \in BOOLEAN
  /\ finished \in BOOLEAN /\ prefetch_error \in BOOLEAN
  /\ waiting \in SUBSET Threads
  /\ producer \in {"none", "wait", "check", "prefetch", "fill", "advance", "notify",
                   "stopped", "done"}
  /\ consumer \in {"idle", "wait", "run", "advance", "notify"}
  /\ destructor \in {"none", "notify", "join", "done"}
  /\ runs \in Nat /\ produced \in Nat /\ consumed \in Nat

\* The prefetch thread never clears or fills the slot that a Run is reading:
\* the cycle bits, not the indices alone, keep them apart (no data race on
\* prefetched_batch_queue_, which no mutex protects).
NoSlotRace ==
  consumer \in {"run", "advance"} /\ producer \in {"prefetch", "fill", "advance"}
    => curr_batch_producer # curr_batch_consumer

\* Every Run reads the batch that follows the one the previous Run finished
\* with: nothing is lost, repeated or reordered by the ring, for any number
\* of wrap-arounds of the indices and the cycle bits.
ReadsInOrder ==
  consumer = "run" => prefetched_batch_queue[curr_batch_consumer] = consumed

\* Neither thread can be asleep when its predicate holds, unless the notify
\* that wakes it is still to be executed: no wake-up is lost.
NoLostWakeup ==
  /\ ("consumer" \in waiting /\ (finished \/ ~IsPrefetchQueueEmpty))
       => (producer \in {"notify", "stopped"} \/ destructor = "notify")
  /\ ("producer" \in waiting /\ (finished \/ ~IsPrefetchQueueFull))
       => (consumer = "notify" \/ destructor = "notify")

\* The ring is a bounded FIFO channel.
Occupancy ==
  IF consumer_cycle = producer_cycle
  THEN curr_batch_producer - curr_batch_consumer
  ELSE Depth + curr_batch_producer - curr_batch_consumer

=============================================================================

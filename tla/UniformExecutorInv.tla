------------------------- MODULE UniformExecutorInv -------------------------
(***************************************************************************)
(* The inductive invariants of the executor with uniform queues.           *)
(* ExecutorInv: types, where each thread can be, and that a stage's queue  *)
(* has an index for every unit of work its thread has been given.          *)
(* OrderInv: the queues and the indices in the hands of the threads, read  *)
(* as one sequence, the ring.  An index only ever moves across the border  *)
(* of two neighbouring parts of it, which leaves the ring as it is, or     *)
(* from its front to its end when it is released.                          *)
(***************************************************************************)
EXTENDS UniformExecutor

\* Where the threads can be: the stage each runs, and what each holds.
PlaceInv ==
  /\ at["mixed"] = "MIXED" /\ at["gpu"] = "GPU" /\ at["cpu"] \in {"SUPPORT", "CPU"}
  /\ pc["cpu"] \in {"begin", "check", "window"} => at["cpu"] = "SUPPORT"
  /\ pc["cpu"] # "presleep" /\ pc["mixed"] # "window" /\ pc["gpu"] \notin {"window", "post"}
  /\ \A w \in Workers : pc[w] \in {"run", "error", "release"} => idx[w] # kInvalidIdx

\* A stage is stopped, or gives up, only after the stop flag of the outputs is
\* set or an error has occurred, which threads test before they begin.
StopInv ==
  /\ \A s \in Stages : stage_work_stop[s] => ready_stop
  /\ \A t \in Threads : signal[t] >= 2 => ready_stop
  /\ \A w \in Workers : pc[w] = "abandon" \/ (pc[w] = "acquired" /\ idx[w] = kInvalidIdx) => Stopped

One(b) == IF b THEN 1 ELSE 0

\* Until then the queue of a thread has an index for every unit of its counter,
\* for the unit it has taken and for the one the thread before it will add.
Covered(w, stage, previous) ==
  /\ ~Stopped =>
       /\ work_counter[w] >= 0
       /\ Len(stage_work_queue[stage]) >=
            work_counter[w] + One(pc[w] \in {"check", "acquire"}) + One(pc[previous] = "post")
  /\ pc[w] = "acquire" => stage_work_queue[stage] # <<>>

CounterInv ==
  /\ pc["cpu"] = "acquire" /\ at["cpu"] = "CPU" => stage_work_queue["CPU"] # <<>>
  /\ work_counter["cpu"] = tasks["cpu"] + One(pc["cpu"] = "begin")
  /\ tasks["cpu"] <= cpu_runs

WorkInv ==
  /\ Covered("mixed", "MIXED", "cpu") /\ Covered("gpu", "GPU", "mixed")
  /\ CounterInv

ExecutorInv == TypeOK /\ PlaceInv /\ StopInv /\ WorkInv

-----------------------------------------------------------------------------
(* The ring *)

\* The index a thread holds, as a sequence.
Held(w) == IF idx[w] = kInvalidIdx THEN <<>> ELSE <<idx[w]>>

\* The one the cpu thread holds for stage s.
HeldAt(s) == IF at["cpu"] = s THEN Held("cpu") ELSE <<>>

\* All indices in the order of their batches, from a stage back to the free ones.
FromSUPPORT == HeldAt("SUPPORT") \o free_queue

FromCPU == HeldAt("CPU") \o (stage_work_queue["CPU"] \o FromSUPPORT)

FromMIXED == Held("mixed") \o (stage_work_queue["MIXED"] \o FromCPU)

FromGPU == Held("gpu") \o (stage_work_queue["GPU"] \o FromMIXED)

\* The ring of all indices: the outputs the user holds, those that are ready, and so on
\* back to the free ones, which are next.
Ring == in_use_queue \o (ready_queue \o FromGPU)

\* No index is twice in s.
Injective(s) == \A j, k \in 1 .. Len(s) : s[j] = s[k] => j = k

\* The GPU stage runs the batch of its index.
Running == pc["gpu"] \in {"run", "error", "release"}

\* The SUPPORT stage waits for an index for a batch it has begun.
Waiting == pc["cpu"] \in {"begin", "check", "window"} \/ (pc["cpu"] = "acquire" /\ at["cpu"] = "SUPPORT")

\* How many indices at the front of the ring are outputs, whatever else has failed.
Outputs == Len(in_use_queue) + Len(ready_queue) + One(Running)

\* How many indices are not free.
Busy == Len(Ring) - Len(free_queue)

\* The first n indices of the ring are of the batches after those released.
InOrder(n) == \A k \in 1 .. n : batch[Ring[k]] = released + k

\* The ring has every index once, and its indices are of successive batches: its outputs always,
\* all that are in use as long as nothing has failed.
RingInv ==
  /\ Injective(Ring)
  /\ InOrder(Outputs)
  /\ ~Stopped => /\ InOrder(Busy)
                 /\ cpu_runs - tasks["cpu"] = released + Busy + One(Waiting)

\* A thread holds an index only between taking and passing it on.
HandInv ==
  \A w \in Workers :
    pc[w] \in {"idle", "begin", "presleep", "check", "acquire", "window", "post"} => idx[w] = kInvalidIdx

\* The user holds what was shared and not released, and the one about to be returned.
SharedInv == Len(in_use_queue) >= shared - released + One(main = "used" /\ ~ready_stop)

OrderInv == RingInv /\ HandInv /\ SharedInv

\* The types of the parts.
Sequences ==
  /\ in_use_queue \in Seq(Indices) /\ ready_queue \in Seq(Indices) /\ free_queue \in Seq(Indices)
  /\ \A s \in Stages : stage_work_queue[s] \in Seq(Indices)
  /\ Held("gpu") \in Seq(Indices) /\ Held("mixed") \in Seq(Indices)
  /\ HeldAt("CPU") \in Seq(Indices) /\ HeldAt("SUPPORT") \in Seq(Indices)
  /\ FromSUPPORT \in Seq(Indices) /\ FromCPU \in Seq(Indices) /\ FromMIXED \in Seq(Indices)
  /\ FromGPU \in Seq(Indices) /\ Ring \in Seq(Indices)

\* The lengths of the parts.
Bounds ==
  /\ Outputs \in Nat /\ Busy \in Nat /\ Outputs <= Busy
  /\ Len(in_use_queue) \in Nat /\ Len(in_use_queue) <= Outputs
  /\ Len(ready_queue) \in Nat /\ Len(free_queue) \in Nat
  /\ Len(Ring) \in Nat /\ Busy <= Len(Ring)
  /\ \A k \in 1 .. Len(in_use_queue) : Ring[k] = in_use_queue[k]
  /\ idx["gpu"] # kInvalidIdx => Len(in_use_queue) + Len(ready_queue) + 1 <= Busy

-----------------------------------------------------------------------------
(* The indices past the CPU stage *)

\* x is an element of the sequence q.
In(x, q) == \E k \in 1 .. Len(q) : q[k] = x

\* An output, or about to be one whatever fails.
Output(i) == In(i, in_use_queue) \/ In(i, ready_queue) \/ (Running /\ i = idx["gpu"])

\* An index the CPU stage has passed on.
Past(i) ==
  \/ Output(i) \/ i = idx["gpu"] \/ i = idx["mixed"]
  \/ In(i, stage_work_queue["GPU"]) \/ In(i, stage_work_queue["MIXED"])

\* The outputs and what is past the CPU stage do not grow.
PastShrinks ==
  /\ \A i \in Indices : Output(i)' => Output(i) \/ (~Stopped /\ Past(i))
  /\ \A i \in Indices : Past(i)' /\ ~Stopped' => Past(i)

\* A step that leaves the cpu thread and its index alone and passes nothing on.
CpuStandsStill ==
  /\ UNCHANGED <<batch, cpu_runs, tasks["cpu"], pc["cpu"], at["cpu"], idx["cpu"], stage_work_queue["CPU"]>>
  /\ PastShrinks /\ (Stopped => Stopped')

-----------------------------------------------------------------------------
(* The steps of the cpu thread *)

\* The steps in which the cpu thread neither takes nor passes on an index.
CpuGoesOn ==
  \/ pc["cpu"] = "begin" /\ pc'["cpu"] = "check"
  \/ pc["cpu"] = "check" /\ pc'["cpu"] = "acquire"
  \/ pc["cpu"] = "acquire" /\ at["cpu"] = "SUPPORT" /\ pc'["cpu"] = "window"
  \/ pc["cpu"] = "window" /\ pc'["cpu"] = "acquire"
  \/ pc["cpu"] = "acquired" /\ pc'["cpu"] = "run"
  \/ pc["cpu"] = "run" /\ pc'["cpu"] = "release"
  \/ pc["cpu"] = "error" /\ pc'["cpu"] = "release"
  \/ pc["cpu"] = "post" /\ pc'["cpu"] = "idle"

\* It takes up a piece of work, ...
CpuBegins ==
  /\ pc["cpu"] = "idle" /\ pc'["cpu"] = "begin" /\ at'["cpu"] = "SUPPORT"
  /\ tasks'["cpu"] = tasks["cpu"] - 1 /\ UNCHANGED <<idx, stage_work_queue, batch>>

\* ... a free index, ...
CpuTakesFree ==
  /\ pc["cpu"] = "acquire" /\ pc'["cpu"] = "acquired" /\ at["cpu"] = "SUPPORT"
  /\ idx'["cpu"] \in Indices /\ In(idx'["cpu"], free_queue)
  /\ batch' = [batch EXCEPT ![idx'["cpu"]] = cpu_runs - tasks["cpu"]]
  /\ UNCHANGED <<at, tasks, stage_work_queue>>

\* ... one from the queue of the CPU stage, ...
CpuTakes ==
  /\ pc["cpu"] = "acquire" /\ pc'["cpu"] = "acquired" /\ at["cpu"] = "CPU"
  /\ idx'["cpu"] = Head(stage_work_queue["CPU"])
  /\ stage_work_queue["CPU"] # <<>> /\ stage_work_queue'["CPU"] = Tail(stage_work_queue["CPU"])
  /\ stage_work_queue'["MIXED"] = stage_work_queue["MIXED"] /\ UNCHANGED <<at, tasks, batch>>

\* ... passes it on to the CPU stage, ...
CpuPasses ==
  /\ pc["cpu"] = "release" /\ pc'["cpu"] = "acquire" /\ at["cpu"] = "SUPPORT" /\ at'["cpu"] = "CPU"
  /\ idx["cpu"] \in Indices /\ idx'["cpu"] = kInvalidIdx
  /\ stage_work_queue'["CPU"] = Append(stage_work_queue["CPU"], idx["cpu"])
  /\ stage_work_queue'["MIXED"] = stage_work_queue["MIXED"] /\ UNCHANGED <<tasks, batch>>

\* ... or to the mixed stage.
CpuEnds ==
  /\ pc["cpu"] = "release" /\ pc'["cpu"] = "post" /\ at["cpu"] = "CPU" /\ at'["cpu"] = "CPU"
  /\ idx["cpu"] \in Indices /\ idx'["cpu"] = kInvalidIdx
  /\ stage_work_queue'["MIXED"] = Append(stage_work_queue["MIXED"], idx["cpu"])
  /\ stage_work_queue'["CPU"] = stage_work_queue["CPU"] /\ UNCHANGED <<tasks, batch>>

CpuStep ==
  \/ CpuGoesOn /\ UNCHANGED <<at, tasks, idx, stage_work_queue, batch>>
  \/ CpuBegins \/ CpuTakesFree \/ CpuTakes \/ CpuPasses \/ CpuEnds

\* The cpu thread adds to what is past the CPU stage only what it passes on, and
\* starts a batch only at an index that is not past it.
CpuAdds ==
  /\ cpu_runs' = cpu_runs /\ (Stopped => Stopped')
  /\ \A i \in Indices : Output(i)' => Output(i)
  /\ \A i \in Indices : Past(i) => batch'[i] = batch[i]
  /\ \A i \in Indices : Past(i)' /\ ~Stopped' =>
       Past(i) \/ (i = idx["cpu"] /\ at["cpu"] = "CPU" /\ pc["cpu"] = "release" /\ batch' = batch)

=============================================================================

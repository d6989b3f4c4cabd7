---------------------------- MODULE SPSCTaskQueue ----------------------------
(***************************************************************************)
(* include/lumen/concurrency/SPSCTaskQueue.hpp: the bounded lock-free      *)
(* queue for one producer (the server thread) and one consumer (the only   *)
(* worker: the configuration forces thread_count to 1 for this queue).     *)
(*                                                                         *)
(* Only the producer writes tail and only the consumer writes head, so     *)
(* each thread's load of its own counter is exact; its load of the other   *)
(* counter is the shared access, and may be stale when it is used.         *)
(* Counters are natural numbers (size_t would need 2^64 pushes to wrap).   *)
(***************************************************************************)
EXTENDS Naturals, Sequences, Functions

CONSTANTS Worker,     \* the consumer
          Tasks,      \* the inference tasks
          Moved,      \* a task object that was moved from, or default-made
          Capacity,   \* number of cells, 1024 in the code
          BatchMax,   \* pop_batch's limit; pop alone is the limit 1
          Word        \* number of values of size_t, 2^64

ASSUME SPSCAssumption == /\ Capacity \in Nat /\ Capacity >= 2
                         /\ BatchMax \in Nat
                         /\ Word \in Nat /\ Word >= Capacity
                         /\ Moved \notin Tasks

VARIABLES buffer, head, tail, stop_flag,
          ppc, item,          \* the producer's next access and the task of its call
          cpc, taken, batch,  \* the consumer's next access, task and batches
          size,               \* what the last call of size returned
          log                 \* history: the accepted tasks in order

vars == <<buffer, head, tail, stop_flag, ppc, item, cpc, taken, batch, size, log>>
producer == <<ppc, item>>
consumer == <<cpc, taken, batch>>

Slots == 0..(Capacity - 1)
Slot(k) == k % Capacity

Init ==
  /\ buffer = [i \in Slots |-> Moved]
  /\ head = 0 /\ tail = 0
  /\ stop_flag = FALSE
  /\ ppc = "idle" /\ item = Moved
  /\ cpc = "idle" /\ taken = Moved
  /\ batch = [c \in {Worker} |-> << >>]
  /\ size = 0
  /\ log = << >>

----------------------------------------------------------------------------
(* Plausible mistakes.                                                     *)
(* PushRoom: the test is left out.                                         *)
IgnoresFull ==
  /\ ppc = "load"
  /\ ppc' = "write"
  /\ UNCHANGED <<buffer, head, tail, stop_flag, item, consumer, size, log>>

(* WriteCell: the cell of the next ticket is written.                      *)
WritesNextCell ==
  /\ ppc = "write"
  /\ buffer' = [buffer EXCEPT ![Slot(tail + 1)] = item]
  /\ ppc' = "publish"
  /\ UNCHANGED <<head, tail, stop_flag, item, consumer, size, log>>

(* ReleaseCell: head is not stored.                                        *)
KeepsHead ==
  /\ cpc = "release"
  /\ batch' = [batch EXCEPT ![Worker] = Append(@, taken)]
  /\ taken' = Moved /\ cpc' = "idle"
  /\ UNCHANGED <<buffer, head, tail, stop_flag, producer, size, log>>

(* PopAgain: the comparison reversed.                                      *)
PopsNever(n) == IF n > BatchMax THEN "load" ELSE "idle"

----------------------------------------------------------------------------
(* push                                                                    *)

(* Bound of the model: a task is submitted again only after a refusal.     *)
CallPush(t) ==
  /\ ppc = "idle" /\ t \notin Range(log)
  /\ ~stop_flag
  /\ ppc' = "load" /\ item' = t
  /\ UNCHANGED <<buffer, head, tail, stop_flag, consumer, size, log>>

Full == Slot(tail + 1) = Slot(head)

(* The load of head and the test of the local copies.                      *)
PushRoom ==
  /\ ppc = "load" /\ ~Full
  /\ ppc' = "write"
  /\ UNCHANGED <<buffer, head, tail, stop_flag, item, consumer, size, log>>

PushRefused ==
  /\ ppc = "load" /\ Full
  /\ ppc' = "idle" /\ item' = Moved
  /\ UNCHANGED <<buffer, head, tail, stop_flag, consumer, size, log>>

WriteCell ==
  /\ ppc = "write"
  /\ buffer' = [buffer EXCEPT ![Slot(tail)] = item]
  /\ ppc' = "publish"
  /\ UNCHANGED <<head, tail, stop_flag, item, consumer, size, log>>

Publish ==
  /\ ppc = "publish"
  /\ tail' = tail + 1 /\ log' = Append(log, item)
  /\ item' = Moved /\ ppc' = "idle"
  /\ UNCHANGED <<buffer, head, stop_flag, consumer, size>>

PushStep == PushRoom \/ PushRefused \/ WriteCell \/ Publish

----------------------------------------------------------------------------
(* pop and pop_batch                                                       *)

PopAgain(n) == IF n < BatchMax THEN "load" ELSE "idle"

CallPopBatch ==
  /\ cpc = "idle"
  /\ batch' = [batch EXCEPT ![Worker] = << >>]
  /\ cpc' = PopAgain(0)
  /\ UNCHANGED <<buffer, head, tail, stop_flag, producer, taken, size, log>>

(* The load of tail and the test of the local copies.                      *)
PopFinds ==
  /\ cpc = "load" /\ head # tail
  /\ cpc' = "take"
  /\ UNCHANGED <<buffer, head, tail, stop_flag, producer, taken, batch, size, log>>

PopNothing ==
  /\ cpc = "load" /\ head = tail
  /\ cpc' = "idle"
  /\ UNCHANGED <<buffer, head, tail, stop_flag, producer, taken, batch, size, log>>

TakeCell ==
  /\ cpc = "take"
  /\ taken' = buffer[Slot(head)]
  /\ buffer' = [buffer EXCEPT ![Slot(head)] = Moved]
  /\ cpc' = "release"
  /\ UNCHANGED <<head, tail, stop_flag, producer, batch, size, log>>

ReleaseCell ==
  /\ cpc = "release"
  /\ head' = head + 1
  /\ batch' = [batch EXCEPT ![Worker] = Append(@, taken)]
  /\ taken' = Moved
  /\ cpc' = PopAgain(Len(batch[Worker]) + 1)
  /\ UNCHANGED <<buffer, tail, stop_flag, producer, size, log>>

PopStep == PopFinds \/ PopNothing \/ TakeCell \/ ReleaseCell

----------------------------------------------------------------------------
(* size, empty and shutdown                                                *)

(* size() on one of the queue's own threads: one of the two loads is of a  *)
(* counter that nobody else writes, so the two loads act as one.           *)
SizeByProducer ==
  /\ ppc = "idle"
  /\ size' = (Word + tail - head) % Word
  /\ UNCHANGED <<buffer, head, tail, stop_flag, producer, consumer, log>>

SizeByConsumer ==
  /\ cpc = "idle"
  /\ size' = (Word + tail - head) % Word
  /\ UNCHANGED <<buffer, head, tail, stop_flag, producer, consumer, log>>

Shutdown ==
  /\ ~stop_flag /\ stop_flag' = TRUE
  /\ UNCHANGED <<buffer, head, tail, producer, consumer, size, log>>

Next == \/ PushStep \/ PopStep \/ CallPopBatch
        \/ \E t \in Tasks : CallPush(t)
        \/ SizeByProducer \/ SizeByConsumer \/ Shutdown

Spec == Init /\ [][Next]_vars

(* A call that has begun goes on.  The worker keeps asking for work until  *)
(* the pool is stopped: ThreadPool::shutdown sets its own flag, which ends *)
(* the worker's loop, and then shuts the queue down.                       *)
FairSpec == /\ Spec /\ WF_vars(PushStep) /\ WF_vars(PopStep)
            /\ WF_vars(CallPopBatch /\ ~stop_flag)

----------------------------------------------------------------------------
(* Properties                                                              *)

(* Every variable has its type.                                            *)
TypeOK ==
  /\ buffer \in [Slots -> Tasks \cup {Moved}]
  /\ head \in Nat /\ tail \in Nat
  /\ stop_flag \in BOOLEAN
  /\ ppc \in {"idle", "load", "write", "publish"}
  /\ item \in Tasks \cup {Moved}
  /\ ppc # "idle" => item \in Tasks
  /\ cpc \in {"idle", "load", "take", "release"}
  /\ taken \in Tasks \cup {Moved}
  /\ batch \in [{Worker} -> Seq(Tasks \cup {Moved})]
  /\ size \in Nat
  /\ log \in Seq(Tasks)

(* No data race: while the producer writes a cell, between its test of a   *)
(* possibly stale head and its store of tail, the consumer moves out of    *)
(* another one.                                                            *)
ExclusiveCells ==
  ppc \in {"write", "publish"} /\ cpc \in {"take", "release"} => Slot(tail) # Slot(head)

(* One cell always stays unused, and size() is never larger than the rest. *)
RingBounded == head <= tail /\ tail < head + Capacity
SizeInRange == size < Capacity

(* The consumer gets the tasks in the order of their acceptance, each      *)
(* whole: never a cell that is still empty or already taken.               *)
TakesOldest == /\ cpc = "take" => buffer[Slot(head)] = log[head + 1]
               /\ cpc = "release" => taken = log[head + 1]

(* What makes it so: the cells between head and tail hold the accepted     *)
(* tasks, and a thread that was admitted keeps the room it saw, because    *)
(* the other thread only makes more of it.                                 *)
Filled(k) == buffer[Slot(k)] = log[k + 1]
Inductive ==
  /\ TypeOK /\ RingBounded /\ SizeInRange /\ Len(log) = tail
  /\ \A k \in head..(tail - 1) : Filled(k) \/ (k = head /\ cpc = "release")
  /\ cpc = "release" => taken = log[head + 1]
  /\ cpc \in {"take", "release"} => head < tail
  /\ cpc # "idle" => Len(batch[Worker]) < BatchMax
  /\ ppc \in {"write", "publish"} => tail + 1 < head + Capacity
  /\ ppc = "publish" => buffer[Slot(tail)] = item

(* The queue implements the contract of ITaskQueue.                        *)
Contract == INSTANCE TaskQueue WITH
              Consumers <- {Worker}, queue <- SubSeq(log, head + 1, tail)
ImplementsContract == Contract!Spec

(* Every accepted task reaches the worker's batch, unless the queue is     *)
(* shut down: the worker may then leave without asking again.              *)
AcceptedDelivered ==
  \A t \in Tasks : t \in Range(SubSeq(log, head + 1, tail))
                     ~> t \in Range(batch[Worker]) \/ stop_flag
=============================================================================

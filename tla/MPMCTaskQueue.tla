---------------------------- MODULE MPMCTaskQueue ----------------------------
(***************************************************************************)
(* include/lumen/concurrency/MPMCTaskQueue.hpp: the bounded lock-free      *)
(* queue for many producers and many consumers.                            *)
(*                                                                         *)
(* Each call of push or pop_batch is split at its accesses to shared       *)
(* memory, one action per access.  The values that a thread holds in local *)
(* variables between two accesses (t, h, task) are in pos and item.        *)
(* Tickets are natural numbers: the code's size_t counters would need 2^64 *)
(* pushes to wrap, and `& Mask` is `% Capacity` because Capacity is a      *)
(* power of two.  A thread may stop between any two actions, which covers  *)
(* the delay of a relaxed load of head or tail.                            *)
(***************************************************************************)
EXTENDS Naturals, Sequences, FiniteSets, Functions

CONSTANTS Producers,   \* threads that call push
          Consumers,   \* threads that call pop or pop_batch
          Observers,   \* threads that call size or empty
          Tasks,       \* the inference tasks
          Moved,       \* a task object that was moved from, or default-made
          Capacity,    \* number of cells, 1024 in the code
          BatchMax     \* pop_batch's limit; pop alone is the limit 1

ASSUME CapacityAssumption == Capacity \in Nat /\ Capacity >= 2
ASSUME BatchMaxAssumption == BatchMax \in Nat
ASSUME MovedAssumption == Moved \notin Tasks
ASSUME ThreadAssumption == /\ Producers \cap Consumers = {}
                           /\ Producers \cap Observers = {}
                           /\ Consumers \cap Observers = {}

VARIABLES sequence,    \* buffer[i].sequence
          data,        \* buffer[i].data
          head, tail,  \* the next ticket to pop and to push
          stop_flag,
          pc,          \* the next access of each thread
          pos,         \* its t, or h
          item,        \* its task
          batch,       \* a consumer's batch vector
          size,        \* what an observer's last call of size returned
          log          \* history: the accepted tasks in ticket order

vars == <<sequence, data, head, tail, stop_flag, pc, pos, item, batch, size, log>>
cells == <<sequence, data>>

Threads == Producers \cup Consumers \cup Observers
Slots == 0..(Capacity - 1)

(* t & Mask                                                                *)
Slot(k) == k % Capacity

Init ==
  /\ sequence = [i \in Slots |-> i]
  /\ data = [i \in Slots |-> Moved]
  /\ head = 0 /\ tail = 0
  /\ stop_flag = FALSE
  /\ pc = [th \in Threads |-> "idle"]
  /\ pos = [th \in Threads |-> 0]
  /\ item = [th \in Threads |-> Moved]
  /\ batch = [c \in Consumers |-> << >>]
  /\ size = [o \in Observers |-> 0]
  /\ log = << >>

Goto(th, label) == pc' = [pc EXCEPT ![th] = label]
Keep(th, value) == pos' = [pos EXCEPT ![th] = value]
Hold(th, value) == item' = [item EXCEPT ![th] = value]

(* A step that only loads: the thread goes on at label with ticket value.  *)
Reads(th, label, value) ==
  /\ Goto(th, label) /\ Keep(th, value)
  /\ UNCHANGED <<cells, head, tail, stop_flag, item, batch, size, log>>

----------------------------------------------------------------------------
(* Plausible mistakes in this code.  Each is a variant of the action named *)
(* in its comment and is part of no specification; it is there to show     *)
(* that a property notices the mistake.                                    *)
(* CasTail: a store of t + 1 instead of a compare-exchange.                *)
StoresTail(p) ==
  /\ pc[p] = "p_cas"
  /\ tail' = pos[p] + 1
  /\ log' = Append(log, item[p])
  /\ Goto(p, "p_write")
  /\ UNCHANGED <<cells, head, stop_flag, pos, item, batch, size>>

(* CasTail: the cell is published before its data is written.              *)
PublishesEarly(p) ==
  /\ pc[p] = "p_cas" /\ tail = pos[p]
  /\ tail' = tail + 1
  /\ log' = Append(log, item[p])
  /\ sequence' = [sequence EXCEPT ![Slot(pos[p])] = pos[p] + 1]
  /\ Goto(p, "p_write")
  /\ UNCHANGED <<data, head, stop_flag, pos, item, batch, size>>

(* Release: the cell is released for the ticket after the next lap's.      *)
ReleasesOneTooFar(c) ==
  /\ pc[c] = "c_release"
  /\ sequence' = [sequence EXCEPT ![Slot(pos[c])] = pos[c] + Capacity + 1]
  /\ batch' = [batch EXCEPT ![c] = Append(@, item[c])]
  /\ Hold(c, Moved) /\ Goto(c, "idle")
  /\ UNCHANGED <<data, head, tail, stop_flag, pos, size, log>>

(* PushRefused: any difference counts as full.                             *)
RefusesWhenBehind(p) ==
  /\ pc[p] = "p_seq" /\ sequence[Slot(pos[p])] # pos[p]
  /\ Goto(p, "idle") /\ Hold(p, Moved)
  /\ UNCHANGED <<cells, head, tail, stop_flag, pos, batch, size, log>>

(* PopAgain: `count <= max`.                                               *)
PopsOneTooMany(n) == IF n <= BatchMax THEN "c_load" ELSE "idle"

(* PushBehind: tail is not loaded again.                                   *)
RetriesOldTicket(p) ==
  /\ pc[p] = "p_seq" /\ sequence[Slot(pos[p])] > pos[p]
  /\ Reads(p, "p_seq", pos[p])

----------------------------------------------------------------------------
(* push                                                                    *)

(* Bound of the model: a task is submitted again only after a refusal, so  *)
(* there are at most Cardinality(Tasks) tickets.                           *)
Fresh(t) == /\ t \notin Range(log)
            /\ \A p \in Producers : item[p] # t

(* push(task) with the stop flag not set; a call that finds it set returns *)
(* false and changes nothing.                                              *)
CallPush(p, t) ==
  /\ pc[p] = "idle" /\ Fresh(t)
  /\ ~stop_flag
  /\ Goto(p, "p_load") /\ Hold(p, t)
  /\ UNCHANGED <<cells, head, tail, stop_flag, pos, batch, size, log>>

LoadTail(p) ==
  /\ pc[p] = "p_load"
  /\ Reads(p, "p_seq", tail)

(* diff == 0: try to claim the cell.                                       *)
PushCellFree(p) ==
  /\ pc[p] = "p_seq" /\ sequence[Slot(pos[p])] = pos[p]
  /\ Reads(p, "p_cas", pos[p])

(* diff < 0: push returns false, and its by-value argument is destroyed.   *)
PushRefused(p) ==
  /\ pc[p] = "p_seq" /\ sequence[Slot(pos[p])] < pos[p]
  /\ Goto(p, "idle") /\ Hold(p, Moved)
  /\ UNCHANGED <<cells, head, tail, stop_flag, pos, batch, size, log>>

(* diff > 0: another producer has used this ticket.                        *)
PushBehind(p) ==
  /\ pc[p] = "p_seq" /\ sequence[Slot(pos[p])] > pos[p]
  /\ Reads(p, "p_load", pos[p])

CasTail(p) ==
  /\ pc[p] = "p_cas" /\ tail = pos[p]
  /\ tail' = tail + 1
  /\ log' = Append(log, item[p])
  /\ Goto(p, "p_write")
  /\ UNCHANGED <<cells, head, stop_flag, pos, item, batch, size>>

(* compare_exchange_weak failed, because tail moved or spuriously; t gets  *)
(* the current tail and the loop starts again at the sequence load.        *)
CasTailFails(p) ==
  /\ pc[p] = "p_cas"
  /\ Reads(p, "p_seq", tail)

WriteCell(p) ==
  /\ pc[p] = "p_write"
  /\ data' = [data EXCEPT ![Slot(pos[p])] = item[p]]
  /\ Hold(p, Moved) /\ Goto(p, "p_publish")
  /\ UNCHANGED <<sequence, head, tail, stop_flag, pos, batch, size, log>>

Publish(p) ==
  /\ pc[p] = "p_publish"
  /\ sequence' = [sequence EXCEPT ![Slot(pos[p])] = pos[p] + 1]
  /\ Goto(p, "idle")
  /\ UNCHANGED <<data, head, tail, stop_flag, pos, item, batch, size, log>>

PushStep(p) == \/ LoadTail(p) \/ PushCellFree(p) \/ PushRefused(p)
               \/ PushBehind(p) \/ CasTail(p) \/ CasTailFails(p)
               \/ WriteCell(p) \/ Publish(p)

----------------------------------------------------------------------------
(* pop and pop_batch                                                       *)

(* pop_batch goes on while it has fewer than max tasks.                    *)
PopAgain(n) == IF n < BatchMax THEN "c_load" ELSE "idle"

CallPopBatch(c) ==
  /\ pc[c] = "idle"
  /\ batch' = [batch EXCEPT ![c] = << >>]
  /\ Goto(c, PopAgain(0))
  /\ UNCHANGED <<cells, head, tail, stop_flag, pos, item, size, log>>

LoadHead(c) ==
  /\ pc[c] = "c_load"
  /\ Reads(c, "c_seq", head)

PopCellFull(c) ==
  /\ pc[c] = "c_seq" /\ sequence[Slot(pos[c])] = pos[c] + 1
  /\ Reads(c, "c_cas", pos[c])

(* diff < 0: pop returns nullopt, pop_batch what it has.                   *)
PopNothing(c) ==
  /\ pc[c] = "c_seq" /\ sequence[Slot(pos[c])] < pos[c] + 1
  /\ Reads(c, "idle", pos[c])

PopBehind(c) ==
  /\ pc[c] = "c_seq" /\ sequence[Slot(pos[c])] > pos[c] + 1
  /\ Reads(c, "c_load", pos[c])

CasHead(c) ==
  /\ pc[c] = "c_cas" /\ head = pos[c]
  /\ head' = head + 1
  /\ Goto(c, "c_take")
  /\ UNCHANGED <<cells, tail, stop_flag, pos, item, batch, size, log>>

CasHeadFails(c) ==
  /\ pc[c] = "c_cas"
  /\ Reads(c, "c_seq", head)

TakeCell(c) ==
  /\ pc[c] = "c_take"
  /\ Hold(c, data[Slot(pos[c])])
  /\ data' = [data EXCEPT ![Slot(pos[c])] = Moved]
  /\ Goto(c, "c_release")
  /\ UNCHANGED <<sequence, head, tail, stop_flag, pos, batch, size, log>>

(* The cell becomes free for the ticket one lap later, pop returns the     *)
(* task and pop_batch appends it.                                          *)
Release(c) ==
  /\ pc[c] = "c_release"
  /\ sequence' = [sequence EXCEPT ![Slot(pos[c])] = pos[c] + Capacity]
  /\ batch' = [batch EXCEPT ![c] = Append(@, item[c])]
  /\ Hold(c, Moved)
  /\ Goto(c, PopAgain(Len(batch[c]) + 1))
  /\ UNCHANGED <<data, head, tail, stop_flag, pos, size, log>>

PopStep(c) == \/ LoadHead(c) \/ PopCellFull(c) \/ PopNothing(c)
              \/ PopBehind(c) \/ CasHead(c) \/ CasHeadFails(c)
              \/ TakeCell(c) \/ Release(c)

----------------------------------------------------------------------------
(* size, empty and shutdown                                                *)

SizeLoadTail(o) ==
  /\ pc[o] = "idle"
  /\ Reads(o, "s_head", tail)

SizeLoadHead(o) ==
  /\ pc[o] = "s_head"
  /\ size' = [size EXCEPT ![o] = IF pos[o] > head THEN pos[o] - head ELSE 0]
  /\ Goto(o, "idle")
  /\ UNCHANGED <<cells, head, tail, stop_flag, pos, item, batch, log>>

Shutdown ==
  /\ ~stop_flag
  /\ stop_flag' = TRUE
  /\ UNCHANGED <<cells, head, tail, pc, pos, item, batch, size, log>>

Next == \/ \E p \in Producers : PushStep(p) \/ \E t \in Tasks : CallPush(p, t)
        \/ \E c \in Consumers : PopStep(c) \/ CallPopBatch(c)
        \/ \E o \in Observers : SizeLoadTail(o) \/ SizeLoadHead(o)
        \/ Shutdown

Spec == Init /\ [][Next]_vars

----------------------------------------------------------------------------
(* Properties                                                              *)

PushLabels == {"idle", "p_load", "p_seq", "p_cas", "p_write", "p_publish"}
PopLabels == {"idle", "c_load", "c_seq", "c_cas", "c_take", "c_release"}
SizeLabels == {"idle", "s_head"}
Holding == {"p_load", "p_seq", "p_cas", "p_write"}

(* Every variable has its type.                                            *)
TypeOK ==
  /\ sequence \in [Slots -> Nat]
  /\ data \in [Slots -> Tasks \cup {Moved}]
  /\ head \in Nat /\ tail \in Nat
  /\ stop_flag \in BOOLEAN
  /\ pc \in [Threads -> PushLabels \cup PopLabels \cup SizeLabels]
  /\ \A p \in Producers : pc[p] \in PushLabels
  /\ \A c \in Consumers : pc[c] \in PopLabels
  /\ \A o \in Observers : pc[o] \in SizeLabels
  /\ pos \in [Threads -> Nat]
  /\ item \in [Threads -> Tasks \cup {Moved}]
  /\ batch \in [Consumers -> Seq(Tasks \cup {Moved})]
  /\ size \in [Observers -> Nat]
  /\ \A p \in Producers : pc[p] \in Holding => item[p] \in Tasks
  /\ log \in Seq(Tasks)

(* A thread owns the cell of its ticket between its successful             *)
(* compare-exchange and its store of the cell's sequence number.           *)
Owns(th) == pc[th] \in {"p_write", "p_publish", "c_take", "c_release"}

(* No data race: a cell's data, which is not atomic, is never open to two  *)
(* threads at once, whether both write or one writes and one moves out.    *)
ExclusiveCells ==
  \A a, b \in Threads :
     a # b /\ Owns(a) /\ Owns(b) => Slot(pos[a]) # Slot(pos[b])

(* The ring never overruns: at most Capacity tickets lie between head and  *)
(* tail, although head and tail are advanced by unrelated threads.         *)
RingBounded == head <= tail /\ tail <= head + Capacity

(* The task a consumer moves out of a cell is the one that was accepted    *)
(* with its ticket: no task is skipped, duplicated, reordered or seen as a *)
(* moved-from object.                                                      *)
TakesItsTicket ==
  \A c \in Consumers :
     /\ pc[c] = "c_take" => data[Slot(pos[c])] = log[pos[c] + 1]
     /\ pc[c] = "c_release" => item[c] = log[pos[c] + 1]

(* size() never exceeds the capacity and never wraps below zero, although  *)
(* it reads tail and head at different moments.                            *)
SizeInRange == \A o \in Observers : size[o] \in 0..Capacity

(***************************************************************************)
(* Why the queue is correct: the state of the cell of every ticket in the  *)
(* window head .. head + Capacity - 1, and what each thread knows.         *)
(***************************************************************************)
Filled(k) == sequence[Slot(k)] = k + 1 /\ data[Slot(k)] = log[k + 1]

Filling(k) == /\ sequence[Slot(k)] = k
              /\ \E p \in Producers : Owns(p) /\ pos[p] = k

Free(k) == sequence[Slot(k)] = k

Draining(k) == /\ sequence[Slot(k)] + Capacity = k + 1
               /\ \E c \in Consumers : Owns(c) /\ pos[c] + Capacity = k

(* Every ticket of the window is in one of the stages of its life.         *)
Window ==
  /\ \A k \in head..(tail - 1) : Filled(k) \/ Filling(k)
  /\ \A k \in tail..(head + Capacity - 1) : Free(k) \/ Draining(k)

(* A cell's sequence number never falls back behind a used ticket.         *)
Past == /\ \A k \in 0..(tail - 1) : sequence[Slot(k)] >= k
        /\ \A k \in 0..(head - 1) : sequence[Slot(k)] >= k + 1

ProducerKnows(p) ==
  /\ pc[p] \in {"p_seq", "p_cas"} => pos[p] <= tail
  /\ pc[p] = "p_cas" /\ pos[p] = tail => Free(tail)
  /\ Owns(p) => /\ pos[p] \in head..(tail - 1)
                /\ sequence[Slot(pos[p])] = pos[p]
  /\ pc[p] = "p_write" => item[p] = log[pos[p] + 1]
  /\ pc[p] = "p_publish" => data[Slot(pos[p])] = log[pos[p] + 1]

ConsumerKnows(c) ==
  /\ pc[c] \in {"c_seq", "c_cas"} => pos[c] <= head
  /\ pc[c] = "c_cas" /\ pos[c] = head => sequence[Slot(head)] = head + 1
  /\ Owns(c) => /\ pos[c] < head /\ tail <= pos[c] + Capacity
                /\ sequence[Slot(pos[c])] = pos[c] + 1
  /\ pc[c] = "c_take" => data[Slot(pos[c])] = log[pos[c] + 1]
  /\ pc[c] = "c_release" => item[c] = log[pos[c] + 1]
  /\ pc[c] # "idle" => Len(batch[c]) < BatchMax

ObserverKnows(o) == /\ pos[o] <= head + Capacity
                    /\ size[o] <= Capacity

(* The inductive invariant: the window, what each thread knows, and that a *)
(* ticket belongs to one thread.                                           *)
Inductive ==
  /\ RingBounded /\ Len(log) = tail
  /\ Window /\ Past
  /\ \A p \in Producers : ProducerKnows(p)
  /\ \A c \in Consumers : ConsumerKnows(c)
  /\ \A o \in Observers : ObserverKnows(o)
  /\ \A a, b \in Producers : a # b /\ Owns(a) /\ Owns(b) => pos[a] # pos[b]
  /\ \A a, b \in Consumers : a # b /\ Owns(a) /\ Owns(b) => pos[a] # pos[b]

(* push returns false only for a reason: the queue holds Capacity tasks,   *)
(* or the consumer of the ticket one lap back has not released the cell    *)
(* yet.  The second case may refuse a task while the queue is not full.    *)
RefusalJustified ==
  [][\A p \in Producers :
       pc[p] = "p_seq" /\ pc'[p] = "idle" =>
         /\ pos[p] = tail
         /\ \/ tail = head + Capacity
            \/ \E c \in Consumers : /\ pc[c] \in {"c_take", "c_release"}
                                    /\ pos[c] + Capacity = tail]_vars

(* pop returns nullopt only when the queue is empty, or when the producer  *)
(* that holds the oldest ticket has not published it yet.                  *)
EmptyJustified ==
  [][\A c \in Consumers :
       pc[c] = "c_seq" /\ pc'[c] = "idle" =>
         /\ pos[c] = head
         /\ \/ head = tail
            \/ \E p \in Producers : /\ pc[p] \in {"p_write", "p_publish"}
                                    /\ pos[p] = head]_vars

(* No call gives up without a reason, on either side.                      *)
CallsJustified == RefusalJustified /\ EmptyJustified

(* The queue implements the contract of ITaskQueue: a task is accepted at  *)
(* the exchange of tail and handed over at the exchange of head.           *)
Pending(c) == IF pc[c] \in {"c_take", "c_release"}
              THEN Append(batch[c], log[pos[c] + 1])
              ELSE batch[c]

Contract == INSTANCE TaskQueue WITH
              queue <- SubSeq(log, head + 1, tail),
              batch <- [c \in Consumers |-> Pending(c)]

ImplementsContract == Contract!Spec
=============================================================================

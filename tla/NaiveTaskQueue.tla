---------------------------- MODULE NaiveTaskQueue ----------------------------
(***************************************************************************)
(* include/lumen/concurrency/NaiveTaskQueue.hpp: the unbounded queue with  *)
(* a mutex and a condition variable, used by the queue types naive and     *)
(* batched.                                                                *)
(*                                                                         *)
(* A critical section of `guard` is one action.  A notification is sent    *)
(* after the mutex was released, so it is an action of its own.  A thread  *)
(* at "wait" sleeps in cv.wait; a notification or a spurious wake-up takes *)
(* it back to "check", where it evaluates the predicate under the mutex.   *)
(***************************************************************************)
EXTENDS Naturals, Sequences, FiniteSets, Functions

CONSTANTS Producers,   \* threads that call push
          Consumers,   \* threads that call pop or pop_batch
          Tasks,       \* the inference tasks
          BatchMax     \* pop_batch's limit; pop alone is the limit 1

ASSUME NaiveAssumption == /\ BatchMax \in Nat
                          /\ Producers \cap Consumers = {}

VARIABLES data,        \* the std::queue
          stop,
          pc,          \* where each thread is
          batch,       \* a consumer's batch vector
          closing,     \* how far shutdown has got
          accepted     \* history: the tasks pushed so far

vars == <<data, stop, pc, batch, closing, accepted>>

Threads == Producers \cup Consumers

Init ==
  /\ data = << >>
  /\ stop = FALSE
  /\ pc = [th \in Threads |-> "idle"]
  /\ batch = [c \in Consumers |-> << >>]
  /\ closing = "open"
  /\ accepted = {}

Goto(th, label) == pc' = [pc EXCEPT ![th] = label]
Waiting == {c \in Consumers : pc[c] = "wait"}

(* Plausible mistakes.  Take: the loop tests `count <= max`; Push: nobody  *)
(* is notified; NotifyAll: notify_one instead of notify_all.               *)
TakesOneTooMany(c) ==
  LET n == IF Len(data) <= BatchMax THEN Len(data) ELSE BatchMax + 1 IN
    /\ pc[c] = "check" /\ data # << >>
    /\ batch' = [batch EXCEPT ![c] = @ \o SubSeq(data, 1, n)]
    /\ data' = SubSeq(data, n + 1, Len(data))
    /\ Goto(c, "idle")
    /\ UNCHANGED <<stop, closing, accepted>>

PushesSilently(p, t) ==
  /\ pc[p] = "idle" /\ t \notin accepted
  /\ data' = Append(data, t)
  /\ accepted' = accepted \cup {t}
  /\ UNCHANGED <<stop, pc, batch, closing>>

NotifiesOne ==
  /\ closing = "notify"
  /\ closing' = "closed"
  /\ \/ Waiting = {} /\ UNCHANGED pc
     \/ \E c \in Waiting : Goto(c, "check")
  /\ UNCHANGED <<data, stop, batch, accepted>>
----------------------------------------------------------------------------

(* push: the critical section.  It does not look at stop.  Bound of the    *)
(* model: each task is pushed once.                                        *)
Push(p, t) ==
  /\ pc[p] = "idle" /\ t \notin accepted
  /\ data' = Append(data, t)
  /\ accepted' = accepted \cup {t}
  /\ Goto(p, "notify")
  /\ UNCHANGED <<stop, batch, closing>>

(* cv.notify_one wakes one sleeper, if there is one.                       *)
NotifyOne(p) ==
  /\ pc[p] = "notify"
  /\ \/ Waiting = {} /\ Goto(p, "idle")
     \/ \E c \in Waiting : pc' = [pc EXCEPT ![p] = "idle", ![c] = "check"]
  /\ UNCHANGED <<data, stop, batch, closing, accepted>>

(* The worker clears its vector and calls pop_batch.                       *)
CallPopBatch(c) ==
  /\ pc[c] = "idle"
  /\ batch' = [batch EXCEPT ![c] = << >>]
  /\ Goto(c, "check")
  /\ UNCHANGED <<data, stop, closing, accepted>>

(* The predicate is false: release the mutex and sleep.                    *)
Sleep(c) ==
  /\ pc[c] = "check" /\ data = << >> /\ ~stop
  /\ Goto(c, "wait")
  /\ UNCHANGED <<data, stop, batch, closing, accepted>>

(* cv.wait may return without a notification.                              *)
SpuriousWakeup(c) ==
  /\ pc[c] = "wait"
  /\ Goto(c, "check")
  /\ UNCHANGED <<data, stop, batch, closing, accepted>>

(* Take up to max tasks, all under one lock.                               *)
Take(c) ==
  LET n == IF Len(data) < BatchMax THEN Len(data) ELSE BatchMax IN
    /\ pc[c] = "check" /\ data # << >>
    /\ batch' = [batch EXCEPT ![c] = @ \o SubSeq(data, 1, n)]
    /\ data' = SubSeq(data, n + 1, Len(data))
    /\ Goto(c, "idle")
    /\ UNCHANGED <<stop, closing, accepted>>

(* Stopped and nothing left: pop_batch returns 0, pop nullopt.             *)
ReturnNothing(c) ==
  /\ pc[c] = "check" /\ data = << >> /\ stop
  /\ Goto(c, "idle")
  /\ UNCHANGED <<data, stop, batch, closing, accepted>>

PopStep(c) == Sleep(c) \/ Take(c) \/ ReturnNothing(c)

(* shutdown: set stop under the mutex, then notify everyone.               *)
Shutdown ==
  /\ closing = "open"
  /\ stop' = TRUE /\ closing' = "notify"
  /\ UNCHANGED <<data, pc, batch, accepted>>

NotifyAll ==
  /\ closing = "notify"
  /\ closing' = "closed"
  /\ pc' = [th \in Threads |-> IF th \in Waiting THEN "check" ELSE pc[th]]
  /\ UNCHANGED <<data, stop, batch, accepted>>

Next == \/ \E p \in Producers : NotifyOne(p) \/ \E t \in Tasks : Push(p, t)
        \/ \E c \in Consumers : CallPopBatch(c) \/ PopStep(c) \/ SpuriousWakeup(c)
        \/ Shutdown \/ NotifyAll

Spec == Init /\ [][Next]_vars

----------------------------------------------------------------------------
(* Properties                                                              *)

(* Every variable has its type.                                            *)
TypeOK ==
  /\ data \in Seq(Tasks) /\ stop \in BOOLEAN
  /\ pc \in [Threads -> {"idle", "notify", "check", "wait"}]
  /\ \A p \in Producers : pc[p] \in {"idle", "notify"}
  /\ \A c \in Consumers : pc[c] # "notify"
  /\ batch \in [Consumers -> Seq(Tasks)]
  /\ closing \in {"open", "notify", "closed"}
  /\ accepted \subseteq Tasks

(* A call of pop_batch that is still looking has taken nothing, so what it *)
(* takes under one lock is its whole batch.                                *)
Looking(c) == pc[c] \in {"check", "wait"}
Inductive == /\ TypeOK
             /\ \A c \in Consumers : Looking(c) => batch[c] = << >>
             /\ closing # "open" <=> stop

(* The queue implements the contract of ITaskQueue.                        *)
Contract == INSTANCE TaskQueue WITH queue <- data
ImplementsContract == Contract!Spec

(* No wake-up is missed: while a task waits, some consumer is awake, or a  *)
(* notification for it is on its way; and once shutdown has notified,      *)
(* nobody sleeps.                                                          *)
NoMissedWakeup ==
  /\ data # << >> /\ Consumers # {} =>
       \/ Waiting # Consumers
       \/ \E p \in Producers : pc[p] = "notify"
       \/ closing = "notify"
  /\ closing = "closed" => Waiting = {}
=============================================================================

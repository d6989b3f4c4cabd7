------------------------ MODULE MPMCTaskQueue_proofs ------------------------
(***************************************************************************)
(* The lock-free queue is correct for any number of threads, tasks and     *)
(* cells (at least two).                                                   *)
(***************************************************************************)
EXTENDS MPMCTaskQueue, RingLemmas

(* What the proofs need to know of `& Mask`.                               *)
LEMMA SlotFacts ==
  /\ \A k \in Nat : Slot(k) \in Slots
  /\ \A k \in Nat : Slot(k + Capacity) = Slot(k)
  /\ \A j, k \in Nat : j < k /\ Slot(j) = Slot(k) => j + Capacity <= k
<1>1. ASSUME NEW k \in Nat PROVE Slot(k) \in Slots
  BY CapacityAssumption, SlotInRange DEF Slot, Slots
<1>2. ASSUME NEW k \in Nat PROVE Slot(k + Capacity) = Slot(k)
  BY CapacityAssumption, SlotNextLap DEF Slot
<1>3. ASSUME NEW j \in Nat, NEW k \in Nat, j < k, Slot(j) = Slot(k)
      PROVE  j + Capacity <= k
  BY <1>3, CapacityAssumption, SlotsApart DEF Slot
<1> QED BY <1>1, <1>2, <1>3

(* Every variable keeps its type.                                          *)
LEMMA TypeStep == TypeOK /\ [Next]_vars => TypeOK'
<1> SUFFICES ASSUME TypeOK, [Next]_vars PROVE TypeOK'
  OBVIOUS
<1> USE ThreadAssumption DEF TypeOK, Threads, PushLabels, PopLabels, SizeLabels,
        Holding, Reads, Goto, Keep, Hold, cells
<1>1. ASSUME NEW p \in Producers, NEW t \in Tasks, CallPush(p, t) PROVE TypeOK'
  BY <1>1 DEF CallPush
<1>2. ASSUME NEW p \in Producers, LoadTail(p) PROVE TypeOK'
  BY <1>2 DEF LoadTail
<1>3. ASSUME NEW p \in Producers, PushCellFree(p) PROVE TypeOK'
  BY <1>3 DEF PushCellFree
<1>4. ASSUME NEW p \in Producers, PushRefused(p) PROVE TypeOK'
  BY <1>4 DEF PushRefused
<1>5. ASSUME NEW p \in Producers, PushBehind(p) PROVE TypeOK'
  BY <1>5 DEF PushBehind
<1>6. ASSUME NEW p \in Producers, CasTail(p) PROVE TypeOK'
  <2>1. tail + 1 \in Nat OBVIOUS
  <2>2. log' \in Seq(Tasks) BY <1>6 DEF CasTail
  <2> QED BY <1>6, <2>1, <2>2 DEF CasTail
<1>7. ASSUME NEW p \in Producers, CasTailFails(p) PROVE TypeOK'
  BY <1>7 DEF CasTailFails
<1>8. ASSUME NEW p \in Producers, WriteCell(p) PROVE TypeOK'
  <2>1. Slot(pos[p]) \in Slots BY SlotFacts
  <2> QED BY <1>8, <2>1 DEF WriteCell
<1>9. ASSUME NEW p \in Producers, Publish(p) PROVE TypeOK'
  <2>1. Slot(pos[p]) \in Slots /\ pos[p] + 1 \in Nat BY SlotFacts
  <2> QED BY <1>9, <2>1 DEF Publish
<1>10. ASSUME NEW c \in Consumers, CallPopBatch(c) PROVE TypeOK'
  <2>1. PopAgain(0) \in {"c_load", "idle"} BY DEF PopAgain
  <2>2. << >> \in Seq(Tasks \cup {Moved}) OBVIOUS
  <2> QED BY <1>10, <2>1, <2>2 DEF CallPopBatch
<1>11. ASSUME NEW c \in Consumers, LoadHead(c) PROVE TypeOK'
  BY <1>11 DEF LoadHead
<1>12. ASSUME NEW c \in Consumers, PopCellFull(c) PROVE TypeOK'
  BY <1>12 DEF PopCellFull
<1>13. ASSUME NEW c \in Consumers, PopNothing(c) PROVE TypeOK'
  BY <1>13 DEF PopNothing
<1>14. ASSUME NEW c \in Consumers, PopBehind(c) PROVE TypeOK'
  BY <1>14 DEF PopBehind
<1>15. ASSUME NEW c \in Consumers, CasHead(c) PROVE TypeOK'
  <2>1. head + 1 \in Nat OBVIOUS
  <2> QED BY <1>15, <2>1 DEF CasHead
<1>16. ASSUME NEW c \in Consumers, CasHeadFails(c) PROVE TypeOK'
  BY <1>16 DEF CasHeadFails
<1>17. ASSUME NEW c \in Consumers, TakeCell(c) PROVE TypeOK'
  <2>1. Slot(pos[c]) \in Slots BY SlotFacts
  <2> QED BY <1>17, <2>1 DEF TakeCell
<1>18. ASSUME NEW c \in Consumers, Release(c) PROVE TypeOK'
  <2>1. PopAgain(Len(batch[c]) + 1) \in {"c_load", "idle"} BY DEF PopAgain
  <2>0. pos[c] \in Nat OBVIOUS
  <2>2. /\ Slot(pos[c]) \in Slots
        /\ pos[c] + Capacity \in Nat
    <3>1. Slot(pos[c]) \in Slots BY <2>0, SlotFacts
    <3>2. pos[c] + Capacity \in Nat BY <2>0, CapacityAssumption
    <3> QED BY <3>1, <3>2
  <2>3. Append(batch[c], item[c]) \in Seq(Tasks \cup {Moved}) OBVIOUS
  <2>4. sequence' \in [Slots -> Nat] BY <1>18, <2>2 DEF Release
  <2>5. batch' \in [Consumers -> Seq(Tasks \cup {Moved})]
    BY <1>18, <2>3 DEF Release
  <2>6. /\ pc' = [pc EXCEPT ![c] = PopAgain(Len(batch[c]) + 1)]
        /\ item' = [item EXCEPT ![c] = Moved]
        /\ UNCHANGED <<data, head, tail, stop_flag, pos, size, log>>
    BY <1>18 DEF Release
  <2> QED BY <2>1, <2>4, <2>5, <2>6
<1>19. ASSUME NEW o \in Observers, SizeLoadTail(o) PROVE TypeOK'
  BY <1>19 DEF SizeLoadTail
<1>20. ASSUME NEW o \in Observers, SizeLoadHead(o) PROVE TypeOK'
  <2>1. (IF pos[o] > head THEN pos[o] - head ELSE 0) \in Nat OBVIOUS
  <2> QED BY <1>20, <2>1 DEF SizeLoadHead
<1>21. CASE Shutdown BY <1>21 DEF Shutdown
<1>22. CASE UNCHANGED vars BY <1>22 DEF vars
<1> QED
  BY <1>1, <1>2, <1>3, <1>4, <1>5, <1>6, <1>7, <1>8, <1>9, <1>10, <1>11,
     <1>12, <1>13, <1>14, <1>15, <1>16, <1>17, <1>18, <1>19, <1>20, <1>21,
     <1>22 DEF Next, PushStep, PopStep

(* The part of the inductive invariant that speaks of cells and tickets    *)
(* holds after a step that leaves the shared memory and every owner alone. *)
LEMMA FrameStep ==
  ASSUME Inductive, UNCHANGED <<sequence, data, head, tail, log>>,
         \A th \in Threads : Owns(th)' <=> Owns(th),
         \A th \in Threads : Owns(th) => pos'[th] = pos[th]
  PROVE  /\ RingBounded' /\ (Len(log) = tail)'
         /\ Window' /\ Past'
         /\ \A a, b \in Producers : a # b /\ Owns(a)' /\ Owns(b)' => pos'[a] # pos'[b]
         /\ \A a, b \in Consumers : a # b /\ Owns(a)' /\ Owns(b)' => pos'[a] # pos'[b]
<1>1. RingBounded' /\ (Len(log) = tail)' /\ Past'
  BY DEF Inductive, RingBounded, Past
<1>2. Window'
  <2>1. Window BY DEF Inductive
  <2>2. ASSUME NEW k \in head..(tail - 1) PROVE Filled(k)' \/ Filling(k)'
    <3>1. CASE Filled(k) BY <3>1 DEF Filled
    <3>2. CASE Filling(k) BY <3>2 DEF Filling, Threads
    <3> QED BY <2>1, <3>1, <3>2 DEF Window
  <2>3. ASSUME NEW k \in tail..(head + Capacity - 1) PROVE Free(k)' \/ Draining(k)'
    <3>1. CASE Free(k) BY <3>1 DEF Free
    <3>2. CASE Draining(k) BY <3>2 DEF Draining, Threads
    <3> QED BY <2>1, <3>1, <3>2 DEF Window
  <2> QED BY <2>2, <2>3 DEF Window
<1>3. /\ \A a, b \in Producers : a # b /\ Owns(a)' /\ Owns(b)' => pos'[a] # pos'[b]
      /\ \A a, b \in Consumers : a # b /\ Owns(a)' /\ Owns(b)' => pos'[a] # pos'[b]
  BY DEF Inductive, Threads
<1> QED BY <1>1, <1>2, <1>3

(* The steps that change only what the acting thread knows.                *)
LEMMA LocalStep ==
  ASSUME TypeOK, Inductive,
         \/ \E p \in Producers :
              \/ \E t \in Tasks : CallPush(p, t)
              \/ LoadTail(p) \/ PushCellFree(p) \/ PushRefused(p) \/ PushBehind(p)
              \/ CasTailFails(p)
         \/ \E c \in Consumers :
              \/ CallPopBatch(c) \/ LoadHead(c) \/ PopCellFull(c) \/ PopNothing(c)
              \/ PopBehind(c) \/ CasHeadFails(c)
         \/ \E o \in Observers : SizeLoadTail(o) \/ SizeLoadHead(o)
         \/ Shutdown
  PROVE  Inductive'
<1> USE CapacityAssumption, BatchMaxAssumption, ThreadAssumption
        DEF TypeOK, Threads, PushLabels, PopLabels, SizeLabels, Reads, Goto, Keep, Hold, cells
<1>1. ASSUME NEW p \in Producers, NEW t \in Tasks, CallPush(p, t) PROVE Inductive'
  <2>1. /\ UNCHANGED <<sequence, data, head, tail, log>>
        /\ \A th \in Threads : Owns(th)' <=> Owns(th)
        /\ \A th \in Threads : Owns(th) => pos'[th] = pos[th]
    BY <1>1 DEF CallPush, Owns
  <2>2. \A x \in Producers : ProducerKnows(x)'
    BY <1>1, <2>1 DEF CallPush, Inductive, ProducerKnows, Free, Owns
  <2>3. \A x \in Consumers : ConsumerKnows(x)'
    BY <1>1, <2>1 DEF CallPush, Inductive, ConsumerKnows, Owns
  <2>4. \A x \in Observers : ObserverKnows(x)'
    BY <1>1, <2>1 DEF CallPush, Inductive, ObserverKnows, RingBounded
  <2> QED BY <2>1, <2>2, <2>3, <2>4, FrameStep DEF Inductive
<1>2. ASSUME NEW p \in Producers, LoadTail(p) PROVE Inductive'
  <2>1. /\ UNCHANGED <<sequence, data, head, tail, log>>
        /\ \A th \in Threads : Owns(th)' <=> Owns(th)
        /\ \A th \in Threads : Owns(th) => pos'[th] = pos[th]
    BY <1>2 DEF LoadTail, Owns
  <2>2. \A x \in Producers : ProducerKnows(x)'
    BY <1>2, <2>1 DEF LoadTail, Inductive, ProducerKnows, Free, Owns
  <2>3. \A x \in Consumers : ConsumerKnows(x)'
    BY <1>2, <2>1 DEF LoadTail, Inductive, ConsumerKnows, Owns
  <2>4. \A x \in Observers : ObserverKnows(x)'
    BY <1>2, <2>1 DEF LoadTail, Inductive, ObserverKnows, RingBounded
  <2> QED BY <2>1, <2>2, <2>3, <2>4, FrameStep DEF Inductive
<1>3. ASSUME NEW p \in Producers, PushCellFree(p) PROVE Inductive'
  <2>1. /\ UNCHANGED <<sequence, data, head, tail, log>>
        /\ \A th \in Threads : Owns(th)' <=> Owns(th)
        /\ \A th \in Threads : Owns(th) => pos'[th] = pos[th]
    BY <1>3 DEF PushCellFree, Owns
  <2>2. \A x \in Producers : ProducerKnows(x)'
    BY <1>3, <2>1 DEF PushCellFree, Inductive, ProducerKnows, Free, Owns
  <2>3. \A x \in Consumers : ConsumerKnows(x)'
    BY <1>3, <2>1 DEF PushCellFree, Inductive, ConsumerKnows, Owns
  <2>4. \A x \in Observers : ObserverKnows(x)'
    BY <1>3, <2>1 DEF PushCellFree, Inductive, ObserverKnows, RingBounded
  <2> QED BY <2>1, <2>2, <2>3, <2>4, FrameStep DEF Inductive
<1>4. ASSUME NEW p \in Producers, PushRefused(p) PROVE Inductive'
  <2>1. /\ UNCHANGED <<sequence, data, head, tail, log>>
        /\ \A th \in Threads : Owns(th)' <=> Owns(th)
        /\ \A th \in Threads : Owns(th) => pos'[th] = pos[th]
    BY <1>4 DEF PushRefused, Owns
  <2>2. \A x \in Producers : ProducerKnows(x)'
    BY <1>4, <2>1 DEF PushRefused, Inductive, ProducerKnows, Free, Owns
  <2>3. \A x \in Consumers : ConsumerKnows(x)'
    BY <1>4, <2>1 DEF PushRefused, Inductive, ConsumerKnows, Owns
  <2>4. \A x \in Observers : ObserverKnows(x)'
    BY <1>4, <2>1 DEF PushRefused, Inductive, ObserverKnows, RingBounded
  <2> QED BY <2>1, <2>2, <2>3, <2>4, FrameStep DEF Inductive
<1>5. ASSUME NEW p \in Producers, PushBehind(p) PROVE Inductive'
  <2>1. /\ UNCHANGED <<sequence, data, head, tail, log>>
        /\ \A th \in Threads : Owns(th)' <=> Owns(th)
        /\ \A th \in Threads : Owns(th) => pos'[th] = pos[th]
    BY <1>5 DEF PushBehind, Owns
  <2>2. \A x \in Producers : ProducerKnows(x)'
    BY <1>5, <2>1 DEF PushBehind, Inductive, ProducerKnows, Free, Owns
  <2>3. \A x \in Consumers : ConsumerKnows(x)'
    BY <1>5, <2>1 DEF PushBehind, Inductive, ConsumerKnows, Owns
  <2>4. \A x \in Observers : ObserverKnows(x)'
    BY <1>5, <2>1 DEF PushBehind, Inductive, ObserverKnows, RingBounded
  <2> QED BY <2>1, <2>2, <2>3, <2>4, FrameStep DEF Inductive
<1>6. ASSUME NEW p \in Producers, CasTailFails(p) PROVE Inductive'
  <2>1. /\ UNCHANGED <<sequence, data, head, tail, log>>
        /\ \A th \in Threads : Owns(th)' <=> Owns(th)
        /\ \A th \in Threads : Owns(th) => pos'[th] = pos[th]
    BY <1>6 DEF CasTailFails, Owns
  <2>2. \A x \in Producers : ProducerKnows(x)'
    BY <1>6, <2>1 DEF CasTailFails, Inductive, ProducerKnows, Free, Owns
  <2>3. \A x \in Consumers : ConsumerKnows(x)'
    BY <1>6, <2>1 DEF CasTailFails, Inductive, ConsumerKnows, Owns
  <2>4. \A x \in Observers : ObserverKnows(x)'
    BY <1>6, <2>1 DEF CasTailFails, Inductive, ObserverKnows, RingBounded
  <2> QED BY <2>1, <2>2, <2>3, <2>4, FrameStep DEF Inductive
<1>7. ASSUME NEW c \in Consumers, CallPopBatch(c) PROVE Inductive'
  <2>1. /\ UNCHANGED <<sequence, data, head, tail, log>>
        /\ \A th \in Threads : Owns(th)' <=> Owns(th)
        /\ \A th \in Threads : Owns(th) => pos'[th] = pos[th]
    BY <1>7 DEF CallPopBatch, PopAgain, Owns
  <2>2. \A x \in Producers : ProducerKnows(x)'
    BY <1>7, <2>1 DEF CallPopBatch, PopAgain, Inductive, ProducerKnows, Free, Owns
  <2>3. \A x \in Consumers : ConsumerKnows(x)'
    BY <1>7, <2>1 DEF CallPopBatch, PopAgain, Inductive, ConsumerKnows, Owns
  <2>4. \A x \in Observers : ObserverKnows(x)'
    BY <1>7, <2>1 DEF CallPopBatch, PopAgain, Inductive, ObserverKnows, RingBounded
  <2> QED BY <2>1, <2>2, <2>3, <2>4, FrameStep DEF Inductive
<1>8. ASSUME NEW c \in Consumers, LoadHead(c) PROVE Inductive'
  <2>1. /\ UNCHANGED <<sequence, data, head, tail, log>>
        /\ \A th \in Threads : Owns(th)' <=> Owns(th)
        /\ \A th \in Threads : Owns(th) => pos'[th] = pos[th]
    BY <1>8 DEF LoadHead, Owns
  <2>2. \A x \in Producers : ProducerKnows(x)'
    BY <1>8, <2>1 DEF LoadHead, Inductive, ProducerKnows, Free, Owns
  <2>3. \A x \in Consumers : ConsumerKnows(x)'
    BY <1>8, <2>1 DEF LoadHead, Inductive, ConsumerKnows, Owns
  <2>4. \A x \in Observers : ObserverKnows(x)'
    BY <1>8, <2>1 DEF LoadHead, Inductive, ObserverKnows, RingBounded
  <2> QED BY <2>1, <2>2, <2>3, <2>4, FrameStep DEF Inductive
<1>9. ASSUME NEW c \in Consumers, PopCellFull(c) PROVE Inductive'
  <2>1. /\ UNCHANGED <<sequence, data, head, tail, log>>
        /\ \A th \in Threads : Owns(th)' <=> Owns(th)
        /\ \A th \in Threads : Owns(th) => pos'[th] = pos[th]
    BY <1>9 DEF PopCellFull, Owns
  <2>2. \A x \in Producers : ProducerKnows(x)'
    BY <1>9, <2>1 DEF PopCellFull, Inductive, ProducerKnows, Free, Owns
  <2>3. \A x \in Consumers : ConsumerKnows(x)'
    BY <1>9, <2>1 DEF PopCellFull, Inductive, ConsumerKnows, Owns
  <2>4. \A x \in Observers : ObserverKnows(x)'
    BY <1>9, <2>1 DEF PopCellFull, Inductive, ObserverKnows, RingBounded
  <2> QED BY <2>1, <2>2, <2>3, <2>4, FrameStep DEF Inductive
<1>10. ASSUME NEW c \in Consumers, PopNothing(c) PROVE Inductive'
  <2>1. /\ UNCHANGED <<sequence, data, head, tail, log>>
        /\ \A th \in Threads : Owns(th)' <=> Owns(th)
        /\ \A th \in Threads : Owns(th) => pos'[th] = pos[th]
    BY <1>10 DEF PopNothing, Owns
  <2>2. \A x \in Producers : ProducerKnows(x)'
    BY <1>10, <2>1 DEF PopNothing, Inductive, ProducerKnows, Free, Owns
  <2>3. \A x \in Consumers : ConsumerKnows(x)'
    BY <1>10, <2>1 DEF PopNothing, Inductive, ConsumerKnows, Owns
  <2>4. \A x \in Observers : ObserverKnows(x)'
    BY <1>10, <2>1 DEF PopNothing, Inductive, ObserverKnows, RingBounded
  <2> QED BY <2>1, <2>2, <2>3, <2>4, FrameStep DEF Inductive
<1>11. ASSUME NEW c \in Consumers, PopBehind(c) PROVE Inductive'
  <2>1. /\ UNCHANGED <<sequence, data, head, tail, log>>
        /\ \A th \in Threads : Owns(th)' <=> Owns(th)
        /\ \A th \in Threads : Owns(th) => pos'[th] = pos[th]
    BY <1>11 DEF PopBehind, Owns
  <2>2. \A x \in Producers : ProducerKnows(x)'
    BY <1>11, <2>1 DEF PopBehind, Inductive, ProducerKnows, Free, Owns
  <2>3. \A x \in Consumers : ConsumerKnows(x)'
    BY <1>11, <2>1 DEF PopBehind, Inductive, ConsumerKnows, Owns
  <2>4. \A x \in Observers : ObserverKnows(x)'
    BY <1>11, <2>1 DEF PopBehind, Inductive, ObserverKnows, RingBounded
  <2> QED BY <2>1, <2>2, <2>3, <2>4, FrameStep DEF Inductive
<1>12. ASSUME NEW c \in Consumers, CasHeadFails(c) PROVE Inductive'
  <2>1. /\ UNCHANGED <<sequence, data, head, tail, log>>
        /\ \A th \in Threads : Owns(th)' <=> Owns(th)
        /\ \A th \in Threads : Owns(th) => pos'[th] = pos[th]
    BY <1>12 DEF CasHeadFails, Owns
  <2>2. \A x \in Producers : ProducerKnows(x)'
    BY <1>12, <2>1 DEF CasHeadFails, Inductive, ProducerKnows, Free, Owns
  <2>3. \A x \in Consumers : ConsumerKnows(x)'
    BY <1>12, <2>1 DEF CasHeadFails, Inductive, ConsumerKnows, Owns
  <2>4. \A x \in Observers : ObserverKnows(x)'
    BY <1>12, <2>1 DEF CasHeadFails, Inductive, ObserverKnows, RingBounded
  <2> QED BY <2>1, <2>2, <2>3, <2>4, FrameStep DEF Inductive
<1>13. ASSUME NEW o \in Observers, SizeLoadTail(o) PROVE Inductive'
  <2>1. /\ UNCHANGED <<sequence, data, head, tail, log>>
        /\ \A th \in Threads : Owns(th)' <=> Owns(th)
        /\ \A th \in Threads : Owns(th) => pos'[th] = pos[th]
    BY <1>13 DEF SizeLoadTail, Owns
  <2>2. \A x \in Producers : ProducerKnows(x)'
    BY <1>13, <2>1 DEF SizeLoadTail, Inductive, ProducerKnows, Free, Owns
  <2>3. \A x \in Consumers : ConsumerKnows(x)'
    BY <1>13, <2>1 DEF SizeLoadTail, Inductive, ConsumerKnows, Owns
  <2>4. \A x \in Observers : ObserverKnows(x)'
    BY <1>13, <2>1 DEF SizeLoadTail, Inductive, ObserverKnows, RingBounded
  <2> QED BY <2>1, <2>2, <2>3, <2>4, FrameStep DEF Inductive
<1>14. ASSUME NEW o \in Observers, SizeLoadHead(o) PROVE Inductive'
  <2>1. /\ UNCHANGED <<sequence, data, head, tail, log>>
        /\ \A th \in Threads : Owns(th)' <=> Owns(th)
        /\ \A th \in Threads : Owns(th) => pos'[th] = pos[th]
    BY <1>14 DEF SizeLoadHead, Owns
  <2>2. \A x \in Producers : ProducerKnows(x)'
    BY <1>14, <2>1 DEF SizeLoadHead, Inductive, ProducerKnows, Free, Owns
  <2>3. \A x \in Consumers : ConsumerKnows(x)'
    BY <1>14, <2>1 DEF SizeLoadHead, Inductive, ConsumerKnows, Owns
  <2>4. \A x \in Observers : ObserverKnows(x)'
    BY <1>14, <2>1 DEF SizeLoadHead, Inductive, ObserverKnows, RingBounded
  <2> QED BY <2>1, <2>2, <2>3, <2>4, FrameStep DEF Inductive
<1>15. ASSUME Shutdown PROVE Inductive'
  <2>1. /\ UNCHANGED <<sequence, data, head, tail, log>>
        /\ \A th \in Threads : Owns(th)' <=> Owns(th)
        /\ \A th \in Threads : Owns(th) => pos'[th] = pos[th]
    BY <1>15 DEF Shutdown, Owns
  <2>2. \A x \in Producers : ProducerKnows(x)'
    BY <1>15, <2>1 DEF Shutdown, Inductive, ProducerKnows, Free, Owns
  <2>3. \A x \in Consumers : ConsumerKnows(x)'
    BY <1>15, <2>1 DEF Shutdown, Inductive, ConsumerKnows, Owns
  <2>4. \A x \in Observers : ObserverKnows(x)'
    BY <1>15, <2>1 DEF Shutdown, Inductive, ObserverKnows, RingBounded
  <2> QED BY <2>1, <2>2, <2>3, <2>4, FrameStep DEF Inductive
<1> QED BY <1>1, <1>2, <1>3, <1>4, <1>5, <1>6, <1>7, <1>8, <1>9, <1>10, <1>11, <1>12, <1>13, <1>14, <1>15

(* Claiming a ticket for a push: the window gains a ticket being filled.   *)
LEMMA CasTailStep ==
  ASSUME TypeOK, Inductive, NEW p \in Producers, CasTail(p)
  PROVE  Inductive'
<1>0. PICK n \in Nat : n = tail BY DEF TypeOK
<1> USE CapacityAssumption, BatchMaxAssumption, ThreadAssumption
        DEF TypeOK, Threads, PushLabels, PopLabels, SizeLabels, Holding,
            Reads, Goto, Keep, Hold, cells
<1>1. /\ n \in Nat /\ head \in Nat /\ pos[p] = n /\ sequence[Slot(n)] = n
      /\ head <= n /\ n <= head + Capacity /\ Len(log) = n
      /\ head' = head /\ tail' = n + 1 /\ ~Owns(p)
      /\ UNCHANGED <<sequence, data, pos, item, batch, size>>
      /\ pc' = [pc EXCEPT ![p] = "p_write"]
  BY <1>0 DEF CasTail, Inductive, ProducerKnows, Free, RingBounded, Owns
<1>2. /\ \A k \in 0..(n - 1) : log'[k + 1] = log[k + 1]
      /\ log'[n + 1] = item[p] /\ Len(log') = n + 1
  BY <1>0, <1>1 DEF CasTail
<1>3. /\ \A th \in Threads \ {p} : Owns(th)' <=> Owns(th)
      /\ Owns(p)'
  BY <1>0, <1>1 DEF Owns
<1>4. n < head + Capacity
  <2> SUFFICES ASSUME n = head + Capacity PROVE FALSE
    BY <1>0, <1>1
  <2>1. Slot(n) = Slot(head) BY <1>0, <1>1, SlotFacts
  <2>2. Filled(head) \/ Filling(head) BY <1>0, <1>1 DEF Inductive, Window
  <2> QED BY <1>0, <1>1, <2>1, <2>2 DEF Filled, Filling
<1>5. RingBounded' BY <1>0, <1>1, <1>4 DEF RingBounded
<1>6. Window'
  <2>1. ASSUME NEW k \in head..(n - 1) PROVE Filled(k)' \/ Filling(k)'
    <3>1. CASE Filled(k) BY <1>0, <1>1, <1>2, <3>1 DEF Filled
    <3>2. CASE Filling(k) BY <1>0, <1>1, <1>3, <3>2 DEF Filling
    <3> QED BY <1>0, <1>1, <3>1, <3>2 DEF Inductive, Window
  <2>2. Filling(n)' BY <1>0, <1>1, <1>3 DEF Filling
  <2>3. ASSUME NEW k \in (n + 1)..(head + Capacity - 1) PROVE Free(k)' \/ Draining(k)'
    <3>1. CASE Free(k) BY <1>0, <1>1, <3>1 DEF Free
    <3>2. CASE Draining(k) BY <1>0, <1>1, <1>3, <3>2 DEF Draining
    <3> QED BY <1>0, <1>1, <3>1, <3>2 DEF Inductive, Window
  <2>4. ASSUME NEW k \in head..n PROVE Filled(k)' \/ Filling(k)'
    <3>1. CASE k = n BY <2>2, <3>1
    <3>2. CASE k # n BY <1>0, <1>1, <2>1, <3>2
    <3> QED BY <3>1, <3>2
  <2> QED BY <1>0, <1>1, <2>3, <2>4 DEF Window
<1>7. Past' BY <1>0, <1>1 DEF Inductive, Past
<1>8. ASSUME NEW x \in Producers PROVE ProducerKnows(x)'
  <2>1. CASE x = p BY <1>0, <1>1, <1>2, <1>3, <2>1 DEF ProducerKnows, Owns
  <2>2. CASE x # p
    BY <1>0, <1>1, <1>2, <1>3, <2>2 DEF Inductive, ProducerKnows, Owns, Free
  <2> QED BY <2>1, <2>2
<1>9. ASSUME NEW x \in Consumers PROVE ConsumerKnows(x)'
  <2>1. Owns(x) => n < pos[x] + Capacity
    <3> SUFFICES ASSUME Owns(x) PROVE n < pos[x] + Capacity
      OBVIOUS
    <3>1. /\ pos[x] \in Nat /\ n <= pos[x] + Capacity
          /\ sequence[Slot(pos[x])] = pos[x] + 1
      BY <1>0 DEF Inductive, ConsumerKnows
    <3>2. ASSUME n = pos[x] + Capacity PROVE FALSE
      <4>1. Slot(n) = Slot(pos[x]) BY <3>1, <3>2, SlotFacts
      <4> QED BY <1>1, <3>1, <3>2, <4>1
    <3> HIDE DEF TypeOK
    <3> QED BY <1>0, <3>1, <3>2
  <2> QED BY <1>0, <1>1, <1>2, <1>3, <2>1 DEF Inductive, ConsumerKnows, Owns
<1>10. ASSUME NEW x \in Observers PROVE ObserverKnows(x)'
  BY <1>0, <1>1 DEF Inductive, ObserverKnows
<1>11. ASSUME NEW a \in Producers, NEW b \in Producers, a # b, Owns(a)', Owns(b)'
       PROVE  pos'[a] # pos'[b]
  BY <1>0, <1>1, <1>3, <1>11 DEF Inductive, ProducerKnows
<1>12. ASSUME NEW a \in Consumers, NEW b \in Consumers, a # b, Owns(a)', Owns(b)'
       PROVE  pos'[a] # pos'[b]
  BY <1>0, <1>1, <1>3, <1>12, ZenonT(30) DEF Inductive
<1> QED
  BY <1>0, <1>1, <1>2, <1>5, <1>6, <1>7, <1>8, <1>9, <1>10, <1>11, <1>12 DEF Inductive

(* Claiming a ticket for a pop: its cell drains for the ticket a lap ahead. *)
LEMMA CasHeadStep ==
  ASSUME TypeOK, Inductive, NEW c \in Consumers, CasHead(c)
  PROVE  Inductive'
<1>0. PICK h \in Nat : h = head BY DEF TypeOK
<1> USE CapacityAssumption, BatchMaxAssumption, ThreadAssumption
        DEF TypeOK, Threads, PushLabels, PopLabels, SizeLabels, Holding,
            Reads, Goto, Keep, Hold, cells
<1>1. /\ h \in Nat /\ tail \in Nat /\ pos[c] = h /\ sequence[Slot(h)] = h + 1
      /\ h <= tail /\ tail <= h + Capacity
      /\ head' = h + 1 /\ tail' = tail /\ ~Owns(c)
      /\ UNCHANGED <<sequence, data, pos, item, batch, size, log>>
      /\ pc' = [pc EXCEPT ![c] = "c_take"]
  BY <1>0 DEF CasHead, Inductive, ConsumerKnows, RingBounded, Owns
<1>2. /\ \A th \in Threads \ {c} : Owns(th)' <=> Owns(th)
      /\ Owns(c)'
  BY <1>0, <1>1 DEF Owns
<1>3. h < tail
  <2> SUFFICES ASSUME h = tail PROVE FALSE
    BY <1>0, <1>1
  <2>1. Free(h) \/ Draining(h) BY <1>0, <1>1 DEF Inductive, Window
  <2> QED BY <1>0, <1>1, <2>1 DEF Free, Draining
<1>4. data[Slot(h)] = log[h + 1]
  <2>1. Filled(h) \/ Filling(h) BY <1>0, <1>1, <1>3 DEF Inductive, Window
  <2> QED BY <1>0, <1>1, <2>1 DEF Filled, Filling
<1>5. RingBounded' BY <1>0, <1>1, <1>3 DEF RingBounded
<1>6. Window'
  <2>1. ASSUME NEW k \in (h + 1)..(tail - 1) PROVE Filled(k)' \/ Filling(k)'
    <3>1. CASE Filled(k) BY <1>0, <1>1, <3>1 DEF Filled
    <3>2. CASE Filling(k) BY <1>0, <1>1, <1>2, <3>2 DEF Filling
    <3> QED BY <1>0, <1>1, <3>1, <3>2 DEF Inductive, Window
  <2>2. Draining(h + Capacity)'
    <3>1. Slot(h + Capacity) = Slot(h) BY <1>0, <1>1, SlotFacts
    <3>2. sequence'[Slot(h + Capacity)] = h + 1 BY <1>1, <3>1
    <3>3. Owns(c)' /\ pos'[c] + Capacity = h + Capacity BY <1>1, <1>2
    <3>4. (h + 1) + Capacity = (h + Capacity) + 1 BY <1>0
    <3> QED BY <3>2, <3>3, <3>4 DEF Draining
  <2>3. ASSUME NEW k \in tail..(h + Capacity) PROVE Free(k)' \/ Draining(k)'
    <3>1. CASE k = h + Capacity BY <2>2, <3>1
    <3>2. CASE k # h + Capacity
      <4>1. Free(k) \/ Draining(k) BY <1>0, <1>1, <3>2 DEF Inductive, Window
      <4>2. CASE Free(k) BY <1>0, <1>1, <4>2 DEF Free
      <4>3. CASE Draining(k) BY <1>0, <1>1, <1>2, <4>3 DEF Draining
      <4> QED BY <4>1, <4>2, <4>3
    <3> QED BY <3>1, <3>2
  <2>4. head' + Capacity - 1 = h + Capacity BY <1>0, <1>1
  <2> QED BY <1>0, <1>1, <2>1, <2>3, <2>4 DEF Window
<1>7. Past' BY <1>0, <1>1 DEF Inductive, Past
<1>8. ASSUME NEW x \in Producers PROVE ProducerKnows(x)'
  <2>1. Owns(x) => pos[x] # h BY <1>0, <1>1 DEF Inductive, ProducerKnows
  <2> QED BY <1>0, <1>1, <1>2, <2>1 DEF Inductive, ProducerKnows, Owns, Free
<1>9. ASSUME NEW x \in Consumers PROVE ConsumerKnows(x)'
  <2>1. CASE x = c
    <3>1. Len(batch[c]) < BatchMax BY DEF CasHead, Inductive, ConsumerKnows
    <3>2. /\ pc'[c] = "c_take" /\ pos'[c] = h /\ head' = h + 1 /\ tail' = tail
          /\ batch'[c] = batch[c] /\ sequence' = sequence /\ data' = data
          /\ log' = log
      BY <1>0, <1>1
    <3> QED BY <1>0, <1>1, <1>4, <2>1, <3>1, <3>2 DEF ConsumerKnows, Owns
  <2>2. CASE x # c BY <1>0, <1>1, <1>2, <2>2 DEF Inductive, ConsumerKnows, Owns
  <2> QED BY <2>1, <2>2
<1>10. ASSUME NEW x \in Observers PROVE ObserverKnows(x)'
  BY <1>0, <1>1 DEF Inductive, ObserverKnows
<1>11. ASSUME NEW a \in Producers, NEW b \in Producers, a # b, Owns(a)', Owns(b)'
       PROVE  pos'[a] # pos'[b]
  BY <1>0, <1>1, <1>2, <1>11 DEF Inductive
<1>12. ASSUME NEW a \in Consumers, NEW b \in Consumers, a # b, Owns(a)', Owns(b)'
       PROVE  pos'[a] # pos'[b]
  BY <1>0, <1>1, <1>2, <1>12, SMTT(30) DEF Inductive, ConsumerKnows
<1>13. (Len(log) = tail)' BY <1>0, <1>1 DEF Inductive
<1> QED
  BY <1>5, <1>6, <1>7, <1>8, <1>9, <1>10, <1>11, <1>12, <1>13 DEF Inductive

(* Tickets less than a lap apart have cells of their own.                  *)
LEMMA SlotsDiffer ==
  \A j, k \in Nat : j < k /\ k < j + Capacity => Slot(j) # Slot(k)
BY SlotFacts, CapacityAssumption

(* Storing the task: nobody else looks at the data of the cell.            *)
LEMMA WriteCellStep ==
  ASSUME TypeOK, Inductive, NEW p \in Producers, WriteCell(p)
  PROVE  Inductive'
<1>0. PICK n \in Nat : n = pos[p] BY DEF TypeOK, Threads
<1> USE CapacityAssumption, BatchMaxAssumption, ThreadAssumption
        DEF TypeOK, Threads, PushLabels, PopLabels, SizeLabels, Holding,
            Reads, Goto, Keep, Hold, cells
<1>s. Slot(n) \in Slots BY SlotFacts
<1>1. /\ head \in Nat /\ tail \in Nat /\ head <= n /\ n < tail /\ tail <= head + Capacity
      /\ sequence[Slot(n)] = n /\ Owns(p) /\ item[p] = log[n + 1]
      /\ data' = [data EXCEPT ![Slot(n)] = item[p]]
      /\ UNCHANGED <<sequence, head, tail, pos, batch, size, log>>
      /\ pc' = [pc EXCEPT ![p] = "p_publish"] /\ item' = [item EXCEPT ![p] = Moved]
  BY <1>0 DEF WriteCell, Inductive, ProducerKnows, RingBounded, Owns
<1>2. \A th \in Threads : Owns(th)' <=> Owns(th)
  BY <1>1 DEF Owns
<1>3. ASSUME NEW k \in Nat, sequence[Slot(k)] = k + 1
      PROVE  data'[Slot(k)] = data[Slot(k)]
  <2>1. Slot(k) # Slot(n) BY <1>1, <1>3, SlotsDiffer
  <2>2. Slot(k) \in Slots BY SlotFacts
  <2> QED BY <1>s, <1>1, <2>1, <2>2
<1>4. Window'
  <2>1. ASSUME NEW k \in head..(tail - 1) PROVE Filled(k)' \/ Filling(k)'
    <3>1. CASE Filled(k) BY <1>1, <1>3, <3>1 DEF Filled
    <3>2. CASE Filling(k) BY <1>1, <1>2, <3>2 DEF Filling
    <3> QED BY <3>1, <3>2 DEF Inductive, Window
  <2>2. ASSUME NEW k \in tail..(head + Capacity - 1) PROVE Free(k)' \/ Draining(k)'
    <3>1. CASE Free(k) BY <1>1, <3>1 DEF Free
    <3>2. CASE Draining(k) BY <1>1, <1>2, <3>2 DEF Draining
    <3> QED BY <3>1, <3>2 DEF Inductive, Window
  <2> QED BY <1>1, <2>1, <2>2 DEF Window
<1>5. ASSUME NEW x \in Producers PROVE ProducerKnows(x)'
  <2>1. CASE x = p
    <3>1. data'[Slot(n)] = log[n + 1] BY <1>s, <1>1
    <3> QED BY <1>0, <1>1, <2>1, <3>1 DEF ProducerKnows, Owns
  <2>2. CASE x # p
    <3>1. pc[x] = "p_publish" => data'[Slot(pos[x])] = data[Slot(pos[x])]
      <4> SUFFICES ASSUME pc[x] = "p_publish"
                   PROVE  data'[Slot(pos[x])] = data[Slot(pos[x])]
        OBVIOUS
      <4>1. pos[x] \in Nat /\ head <= pos[x] /\ pos[x] < tail /\ pos[x] # n
        BY <1>0, <1>1, <2>2 DEF Inductive, ProducerKnows, Owns
      <4>2. Slot(pos[x]) # Slot(n) BY <1>1, <4>1, SlotsDiffer
      <4>3. Slot(pos[x]) \in Slots BY <4>1, SlotFacts
      <4> QED BY <1>s, <1>1, <4>2, <4>3
    <3> QED BY <1>1, <1>2, <2>2, <3>1 DEF Inductive, ProducerKnows, Free, Owns
  <2> QED BY <2>1, <2>2
<1>6. ASSUME NEW x \in Consumers PROVE ConsumerKnows(x)'
  <2>1. pc[x] = "c_take" => data'[Slot(pos[x])] = data[Slot(pos[x])]
    BY <1>3 DEF Inductive, ConsumerKnows, Owns
  <2> QED BY <1>1, <1>2, <2>1 DEF Inductive, ConsumerKnows, Owns
<1>7. RingBounded' /\ (Len(log) = tail)' /\ Past' /\ \A x \in Observers : ObserverKnows(x)'
  BY <1>1 DEF Inductive, RingBounded, Past, ObserverKnows
<1>8. ASSUME NEW a \in Producers, NEW b \in Producers, a # b, Owns(a)', Owns(b)'
      PROVE  pos'[a] # pos'[b]
  BY <1>1, <1>2, <1>8 DEF Inductive
<1>9. ASSUME NEW a \in Consumers, NEW b \in Consumers, a # b, Owns(a)', Owns(b)'
      PROVE  pos'[a] # pos'[b]
  BY <1>1, <1>2, <1>9 DEF Inductive
<1> QED BY <1>4, <1>5, <1>6, <1>7, <1>8, <1>9 DEF Inductive

(* Publishing: the ticket turns from being filled to filled.               *)
LEMMA PublishStep ==
  ASSUME TypeOK, Inductive, NEW p \in Producers, Publish(p)
  PROVE  Inductive'
<1>0. PICK n \in Nat : n = pos[p] BY DEF TypeOK, Threads
<1> USE CapacityAssumption, BatchMaxAssumption, ThreadAssumption
        DEF TypeOK, Threads, PushLabels, PopLabels, SizeLabels, Holding,
            Reads, Goto, Keep, Hold, cells
<1>s. Slot(n) \in Slots BY SlotFacts
<1>1. /\ head \in Nat /\ tail \in Nat /\ head <= n /\ n < tail /\ tail <= head + Capacity
      /\ sequence[Slot(n)] = n /\ Owns(p)
      /\ data[Slot(n)] = log[n + 1]
      /\ sequence' = [sequence EXCEPT ![Slot(n)] = n + 1]
      /\ UNCHANGED <<data, head, tail, pos, item, batch, size, log>>
      /\ pc' = [pc EXCEPT ![p] = "idle"]
  BY <1>0 DEF Publish, Inductive, ProducerKnows, RingBounded, Owns
<1>2. /\ \A th \in Threads \ {p} : Owns(th)' <=> Owns(th)
      /\ ~Owns(p)'
  BY <1>1 DEF Owns
<1>3. ASSUME NEW k \in Nat, Slot(k) # Slot(n)
      PROVE  sequence'[Slot(k)] = sequence[Slot(k)]
  BY <1>s, <1>1, <1>3, SlotFacts
<1>4. Window'
  <2>1. ASSUME NEW k \in head..(tail - 1) PROVE Filled(k)' \/ Filling(k)'
    <3>1. CASE k = n BY <1>s, <1>1, <3>1 DEF Filled
    <3>2. CASE k # n
      <4>1. Slot(k) # Slot(n) BY <1>1, <3>2, SlotsDiffer
      <4>2. sequence'[Slot(k)] = sequence[Slot(k)] BY <1>1, <1>3, <4>1
      <4>3. CASE Filled(k) BY <1>1, <4>2, <4>3 DEF Filled
      <4>4. CASE Filling(k) BY <1>0, <1>1, <1>2, <3>2, <4>2, <4>4 DEF Filling
      <4> QED BY <4>3, <4>4 DEF Inductive, Window
    <3> QED BY <3>1, <3>2
  <2>2. ASSUME NEW k \in tail..(head + Capacity - 1) PROVE Free(k)' \/ Draining(k)'
    <3>1. Slot(k) # Slot(n) BY <1>1, SlotsDiffer
    <3>2. sequence'[Slot(k)] = sequence[Slot(k)] BY <1>1, <1>3, <3>1
    <3>3. CASE Free(k) BY <3>2, <3>3 DEF Free
    <3>4. CASE Draining(k) BY <1>1, <1>2, <3>2, <3>4 DEF Draining
    <3> QED BY <3>3, <3>4 DEF Inductive, Window
  <2> QED BY <1>1, <2>1, <2>2 DEF Window
<1>5. Past'
  <2>1. ASSUME NEW k \in Nat PROVE sequence'[Slot(k)] >= sequence[Slot(k)]
    <3>1. Slot(k) \in Slots /\ sequence[Slot(k)] \in Nat BY SlotFacts
    <3>2. CASE Slot(k) = Slot(n) BY <1>s, <1>1, <3>2
    <3>3. CASE Slot(k) # Slot(n) BY <1>3, <3>1, <3>3
    <3> QED BY <3>2, <3>3
  <2>2. ASSUME NEW k \in Nat PROVE sequence[Slot(k)] \in Nat /\ sequence'[Slot(k)] \in Nat
    BY <1>s, <1>1, <1>3, SlotFacts
  <2> QED BY <1>1, <2>1, <2>2 DEF Inductive, Past
<1>6. ASSUME NEW x \in Producers PROVE ProducerKnows(x)'
  <2>1. CASE x = p BY <1>1, <2>1 DEF ProducerKnows, Owns
  <2>2. CASE x # p
    <3>1. Owns(x) => sequence'[Slot(pos[x])] = sequence[Slot(pos[x])]
      BY <1>0, <1>1, <1>3, <2>2, SlotsDiffer DEF Inductive, ProducerKnows
    <3>2. Free(tail) => Free(tail)'
      BY <1>1, <1>3 DEF Free
    <3> QED BY <1>1, <1>2, <2>2, <3>1, <3>2 DEF Inductive, ProducerKnows, Owns
  <2> QED BY <2>1, <2>2
<1>7. ASSUME NEW x \in Consumers PROVE ConsumerKnows(x)'
  <2>1. ASSUME NEW k \in Nat, sequence[Slot(k)] = k + 1
        PROVE  sequence'[Slot(k)] = k + 1
    BY <1>1, <1>3, <2>1, SlotsDiffer
  <2> QED BY <1>1, <1>2, <2>1 DEF Inductive, ConsumerKnows, Owns
<1>8. RingBounded' /\ (Len(log) = tail)' /\ \A x \in Observers : ObserverKnows(x)'
  BY <1>1 DEF Inductive, RingBounded, ObserverKnows
<1>9. ASSUME NEW a \in Producers, NEW b \in Producers, a # b, Owns(a)', Owns(b)'
      PROVE  pos'[a] # pos'[b]
  BY <1>1, <1>2, <1>9 DEF Inductive
<1>10. ASSUME NEW a \in Consumers, NEW b \in Consumers, a # b, Owns(a)', Owns(b)'
      PROVE  pos'[a] # pos'[b]
  BY <1>1, <1>2, <1>10 DEF Inductive
<1> QED BY <1>4, <1>5, <1>6, <1>7, <1>8, <1>9, <1>10 DEF Inductive

(* Moving the task out: the cell holds no other thread's task.             *)
LEMMA TakeCellStep ==
  ASSUME TypeOK, Inductive, NEW c \in Consumers, TakeCell(c)
  PROVE  Inductive'
<1>0. PICK n \in Nat : n = pos[c] BY DEF TypeOK, Threads
<1> USE CapacityAssumption, BatchMaxAssumption, ThreadAssumption
        DEF TypeOK, Threads, PushLabels, PopLabels, SizeLabels, Holding,
            Reads, Goto, Keep, Hold, cells
<1>s. Slot(n) \in Slots BY SlotFacts
<1>1. /\ head \in Nat /\ tail \in Nat /\ n < head /\ head <= tail /\ tail <= n + Capacity
      /\ sequence[Slot(n)] = n + 1 /\ Owns(c) /\ data[Slot(n)] = log[n + 1]
      /\ data' = [data EXCEPT ![Slot(n)] = Moved]
      /\ UNCHANGED <<sequence, head, tail, pos, batch, size, log>>
      /\ pc' = [pc EXCEPT ![c] = "c_release"]
      /\ item' = [item EXCEPT ![c] = data[Slot(n)]]
  BY <1>0 DEF TakeCell, Inductive, ConsumerKnows, RingBounded, Owns
<1>2. \A th \in Threads : Owns(th)' <=> Owns(th)
  BY <1>1 DEF Owns
<1>3. ASSUME NEW k \in Nat, Slot(k) # Slot(n)
      PROVE  data'[Slot(k)] = data[Slot(k)]
  BY <1>s, <1>1, <1>3, SlotFacts
<1>4. ASSUME NEW k \in head..(tail - 1) PROVE Slot(k) # Slot(n)
  BY <1>1, SlotsDiffer
<1>5. Window'
  <2>1. ASSUME NEW k \in head..(tail - 1) PROVE Filled(k)' \/ Filling(k)'
    <3>1. CASE Filled(k) BY <1>1, <1>3, <1>4, <3>1 DEF Filled
    <3>2. CASE Filling(k) BY <1>1, <1>2, <3>2 DEF Filling
    <3> QED BY <3>1, <3>2 DEF Inductive, Window
  <2>2. ASSUME NEW k \in tail..(head + Capacity - 1) PROVE Free(k)' \/ Draining(k)'
    <3>1. CASE Free(k) BY <1>1, <3>1 DEF Free
    <3>2. CASE Draining(k) BY <1>1, <1>2, <3>2 DEF Draining
    <3> QED BY <3>1, <3>2 DEF Inductive, Window
  <2> QED BY <1>1, <2>1, <2>2 DEF Window
<1>6. ASSUME NEW x \in Producers PROVE ProducerKnows(x)'
  <2>1. pc[x] = "p_publish" => data'[Slot(pos[x])] = data[Slot(pos[x])]
    BY <1>1, <1>3, <1>4 DEF Inductive, ProducerKnows, Owns
  <2> QED BY <1>1, <1>2, <2>1 DEF Inductive, ProducerKnows, Free, Owns
<1>7. ASSUME NEW x \in Consumers PROVE ConsumerKnows(x)'
  <2>1. CASE x = c BY <1>0, <1>1, <2>1 DEF Inductive, ConsumerKnows, Owns
  <2>2. CASE x # c
    <3>1. pc[x] = "c_take" => data'[Slot(pos[x])] = data[Slot(pos[x])]
      <4> SUFFICES ASSUME pc[x] = "c_take"
                   PROVE  Slot(pos[x]) # Slot(n)
        BY <1>3
      <4>1. pos[x] \in Nat /\ sequence[Slot(pos[x])] = pos[x] + 1 /\ pos[x] # n
        BY <1>0, <1>1, <2>2 DEF Inductive, ConsumerKnows, Owns
      <4> QED BY <1>1, <4>1
    <3> QED BY <1>1, <1>2, <2>2, <3>1 DEF Inductive, ConsumerKnows, Owns
  <2> QED BY <2>1, <2>2
<1>8. RingBounded' /\ (Len(log) = tail)' /\ Past' /\ \A x \in Observers : ObserverKnows(x)'
  BY <1>1 DEF Inductive, RingBounded, Past, ObserverKnows
<1>9. ASSUME NEW a \in Producers, NEW b \in Producers, a # b, Owns(a)', Owns(b)'
      PROVE  pos'[a] # pos'[b]
  BY <1>1, <1>2, <1>9 DEF Inductive
<1>10. ASSUME NEW a \in Consumers, NEW b \in Consumers, a # b, Owns(a)', Owns(b)'
      PROVE  pos'[a] # pos'[b]
  BY <1>1, <1>2, <1>10 DEF Inductive
<1> QED BY <1>5, <1>6, <1>7, <1>8, <1>9, <1>10 DEF Inductive

(* Releasing: the cell becomes free for the ticket one lap ahead.          *)
LEMMA ReleaseStep ==
  ASSUME TypeOK, Inductive, NEW c \in Consumers, Release(c)
  PROVE  Inductive'
<1>0. PICK n \in Nat : n = pos[c] BY DEF TypeOK, Threads
<1> USE CapacityAssumption, BatchMaxAssumption, ThreadAssumption
        DEF TypeOK, Threads, PushLabels, PopLabels, SizeLabels, Holding,
            Reads, Goto, Keep, Hold, cells
<1>s. Slot(n) \in Slots BY SlotFacts
<1>1. /\ head \in Nat /\ tail \in Nat /\ n < head /\ head <= tail /\ tail <= n + Capacity
      /\ sequence[Slot(n)] = n + 1 /\ Owns(c)
      /\ sequence' = [sequence EXCEPT ![Slot(n)] = n + Capacity]
      /\ batch' = [batch EXCEPT ![c] = Append(@, item[c])]
      /\ UNCHANGED <<data, head, tail, pos, size, log>>
      /\ pc' = [pc EXCEPT ![c] = PopAgain(Len(batch[c]) + 1)]
      /\ item' = [item EXCEPT ![c] = Moved]
  BY <1>0 DEF Release, Inductive, ConsumerKnows, RingBounded, Owns
<1>a. PopAgain(Len(batch[c]) + 1) \in {"c_load", "idle"} BY DEF PopAgain
<1>2. /\ \A th \in Threads \ {c} : Owns(th)' <=> Owns(th)
      /\ ~Owns(c)'
  BY <1>1, <1>a DEF Owns
<1>3. ASSUME NEW k \in Nat, Slot(k) # Slot(n)
      PROVE  sequence'[Slot(k)] = sequence[Slot(k)]
  BY <1>s, <1>1, <1>3, SlotFacts
<1>4. ASSUME NEW k \in head..(tail - 1) PROVE Slot(k) # Slot(n)
  BY <1>1, SlotsDiffer
<1>5. Window'
  <2>1. ASSUME NEW k \in head..(tail - 1) PROVE Filled(k)' \/ Filling(k)'
    <3>2. sequence'[Slot(k)] = sequence[Slot(k)] BY <1>1, <1>3, <1>4
    <3>3. CASE Filled(k) BY <1>1, <3>2, <3>3 DEF Filled
    <3>4. CASE Filling(k) BY <1>1, <1>2, <3>2, <3>4 DEF Filling
    <3> QED BY <3>3, <3>4 DEF Inductive, Window
  <2>2. ASSUME NEW k \in tail..(head + Capacity - 1) PROVE Free(k)' \/ Draining(k)'
    <3>0. k \in Nat /\ n + Capacity \in Nat /\ Slot(n + Capacity) = Slot(n)
      BY <1>1, SlotFacts
    <3>1. CASE k = n + Capacity BY <1>s, <1>1, <3>0, <3>1 DEF Free
    <3>2. CASE k # n + Capacity
      <4>1. Slot(k) # Slot(n)
        <5>1. CASE k < n + Capacity BY <1>1, <5>1, SlotsDiffer
        <5>2. CASE k > n + Capacity
          <6>1. k < (n + Capacity) + Capacity BY <1>1
          <6> QED BY <3>0, <5>2, <6>1, SlotsDiffer
        <5> QED BY <3>0, <3>2, <5>1, <5>2
      <4>2. sequence'[Slot(k)] = sequence[Slot(k)] BY <1>3, <3>0, <4>1
      <4>3. CASE Free(k) BY <4>2, <4>3 DEF Free
      <4>4. CASE Draining(k)
        <5>1. PICK x \in Consumers : Owns(x) /\ pos[x] + Capacity = k
          BY <4>4 DEF Draining
        <5>2. x # c BY <1>0, <3>2, <5>1
        <5>3. Owns(x)' /\ pos'[x] + Capacity = k BY <1>1, <1>2, <5>1, <5>2
        <5> QED BY <4>2, <4>4, <5>3 DEF Draining
      <4> QED BY <4>3, <4>4 DEF Inductive, Window
    <3> QED BY <3>1, <3>2
  <2> QED BY <1>1, <2>1, <2>2 DEF Window
<1>6. Past'
  <2>1. ASSUME NEW k \in Nat PROVE sequence'[Slot(k)] >= sequence[Slot(k)]
    <3>1. Slot(k) \in Slots /\ sequence[Slot(k)] \in Nat BY SlotFacts
    <3>2. CASE Slot(k) = Slot(n) BY <1>s, <1>1, <3>2
    <3>3. CASE Slot(k) # Slot(n) BY <1>3, <3>1, <3>3
    <3> QED BY <3>2, <3>3
  <2>2. ASSUME NEW k \in Nat PROVE sequence[Slot(k)] \in Nat /\ sequence'[Slot(k)] \in Nat
    BY <1>s, <1>1, <1>3, SlotFacts
  <2> QED BY <1>1, <2>1, <2>2 DEF Inductive, Past
<1>7. ASSUME NEW x \in Producers PROVE ProducerKnows(x)'
  <2>1. Owns(x) => sequence'[Slot(pos[x])] = sequence[Slot(pos[x])]
    BY <1>1, <1>3, <1>4 DEF Inductive, ProducerKnows
  <2>2. Free(tail) => Free(tail)'
    BY <1>1, <1>3, SlotsDiffer DEF Free
  <2> QED BY <1>1, <1>2, <2>1, <2>2 DEF Inductive, ProducerKnows, Owns
<1>8. ASSUME NEW x \in Consumers PROVE ConsumerKnows(x)'
  <2>0. ASSUME NEW k \in Nat, sequence[Slot(k)] = k + 1, k # n
        PROVE  sequence'[Slot(k)] = k + 1
    BY <1>1, <1>3, <2>0
  <2>1. CASE x = c
    <3>1. pc'[c] # "idle" => Len(batch'[c]) < BatchMax
      BY <1>1 DEF PopAgain
    <3> QED BY <1>1, <1>a, <2>1, <3>1 DEF ConsumerKnows, Owns
  <2>2. CASE x # c
    <3>1. Owns(x) => pos[x] # n BY <1>0, <1>1, <2>2 DEF Inductive
    <3>2. pc[x] = "c_cas" /\ pos[x] = head => sequence'[Slot(head)] = head + 1
      BY <1>1, <2>0 DEF Inductive, ConsumerKnows
    <3>3. Owns(x) => sequence'[Slot(pos[x])] = pos[x] + 1
      BY <2>0, <3>1 DEF Inductive, ConsumerKnows
    <3>4. pc'[x] = pc[x] /\ item'[x] = item[x] /\ batch'[x] = batch[x]
      BY <1>1, <2>2
    <3> QED BY <1>1, <1>2, <3>2, <3>3, <3>4 DEF Inductive, ConsumerKnows, Owns
  <2> QED BY <2>1, <2>2
<1>9. RingBounded' /\ (Len(log) = tail)' /\ \A x \in Observers : ObserverKnows(x)'
  BY <1>1 DEF Inductive, RingBounded, ObserverKnows
<1>10. ASSUME NEW a \in Producers, NEW b \in Producers, a # b, Owns(a)', Owns(b)'
      PROVE  pos'[a] # pos'[b]
  BY <1>1, <1>2, <1>10 DEF Inductive
<1>11. ASSUME NEW a \in Consumers, NEW b \in Consumers, a # b, Owns(a)', Owns(b)'
      PROVE  pos'[a] # pos'[b]
  BY <1>1, <1>2, <1>11 DEF Inductive
<1> QED BY <1>5, <1>6, <1>7, <1>8, <1>9, <1>10, <1>11 DEF Inductive

(* The inductive invariant holds in the initial state.                     *)
LEMMA InductiveInit == Init => TypeOK /\ Inductive
<1> SUFFICES ASSUME Init PROVE TypeOK /\ Inductive
  OBVIOUS
<1> USE CapacityAssumption, BatchMaxAssumption DEF Init
<1>1. TypeOK
  <2>1. sequence \in [Slots -> Nat] BY DEF Slots
  <2>2. << >> \in Seq(Tasks) /\ << >> \in Seq(Tasks \cup {Moved}) OBVIOUS
  <2>3. batch \in [Consumers -> Seq(Tasks \cup {Moved})] /\ log \in Seq(Tasks)
    BY <2>2
  <2>4. /\ data \in [Slots -> Tasks \cup {Moved}]
        /\ pos \in [Threads -> Nat] /\ size \in [Observers -> Nat]
        /\ item \in [Threads -> Tasks \cup {Moved}]
        /\ head \in Nat /\ tail \in Nat /\ stop_flag \in BOOLEAN
    OBVIOUS
  <2>5. /\ pc \in [Threads -> PushLabels \cup PopLabels \cup SizeLabels]
        /\ \A th \in Threads : pc[th] = "idle"
    BY DEF PushLabels
  <2> QED BY <2>1, <2>3, <2>4, <2>5
          DEF TypeOK, Threads, PushLabels, PopLabels, SizeLabels, Holding
<1>2. \A th \in Threads : ~Owns(th) BY DEF Owns
<1>3. Window
  <2> SUFFICES ASSUME NEW k \in 0..(Capacity - 1) PROVE Free(k)
    BY DEF Window
  <2>1. Slot(k) = k BY DEF Slot
  <2> QED BY <2>1 DEF Free, Slots
<1>4. /\ RingBounded /\ Len(log) = tail /\ Past
      /\ \A p \in Producers : ProducerKnows(p)
      /\ \A c \in Consumers : ConsumerKnows(c)
      /\ \A o \in Observers : ObserverKnows(o)
  BY <1>2 DEF RingBounded, Past, ProducerKnows, ConsumerKnows, ObserverKnows, Threads
<1> QED BY <1>1, <1>2, <1>3, <1>4 DEF Inductive, Threads

(* The inductive invariant is preserved by every step.                     *)
LEMMA InductiveStep == TypeOK /\ Inductive /\ [Next]_vars => TypeOK' /\ Inductive'
<1> SUFFICES ASSUME TypeOK, Inductive, [Next]_vars PROVE Inductive'
  BY TypeStep
<1>1. CASE UNCHANGED vars
  <2>1. UNCHANGED <<sequence, data, head, tail, log, pc, pos, item, batch, size>>
    BY <1>1 DEF vars
  <2> QED BY <2>1 DEF Inductive, RingBounded, Window, Past, Filled, Filling, Free,
        Draining, Owns, ProducerKnows, ConsumerKnows, ObserverKnows
<1>2. CASE Next
  BY <1>2, LocalStep, CasTailStep, CasHeadStep, WriteCellStep, PublishStep,
     TakeCellStep, ReleaseStep DEF Next, PushStep, PopStep
<1> QED BY <1>1, <1>2

(* Type correctness.                                                       *)
THEOREM TypeCorrect == Spec => []TypeOK
<1>1. TypeOK /\ [Next]_vars => TypeOK' BY TypeStep
<1>2. Init => TypeOK BY InductiveInit
<1> QED BY <1>1, <1>2, PTL DEF Spec

(* The life of every ticket in the window is as Inductive describes it.    *)
THEOREM WindowInvariant == Spec => [](TypeOK /\ Inductive)
BY InductiveInit, InductiveStep, PTL DEF Spec

(* No two threads ever access the data of one cell at the same time, for   *)
(* any number of producers, consumers and cells.                           *)
THEOREM NoDataRace == Spec => []ExclusiveCells
<1>1. TypeOK /\ Inductive => ExclusiveCells
  <2> SUFFICES ASSUME TypeOK, Inductive, NEW a \in Threads, NEW b \in Threads,
                      a # b, Owns(a), Owns(b), Slot(pos[a]) = Slot(pos[b])
               PROVE  FALSE
    BY DEF ExclusiveCells
  <2>0. pos[a] \in Nat /\ pos[b] \in Nat BY DEF TypeOK
  <2> USE CapacityAssumption
  <2>1. ASSUME NEW x \in Producers, Owns(x)
        PROVE  /\ pos[x] \in Nat /\ head \in Nat /\ head <= pos[x]
               /\ pos[x] < head + Capacity /\ sequence[Slot(pos[x])] = pos[x]
    BY <2>1 DEF TypeOK, Threads, Inductive, ProducerKnows, RingBounded
  <2>2. ASSUME NEW x \in Consumers, Owns(x)
        PROVE  pos[x] \in Nat /\ sequence[Slot(pos[x])] = pos[x] + 1
    BY <2>2 DEF TypeOK, Threads, Inductive, ConsumerKnows
  <2>3. CASE a \in Producers /\ b \in Producers
    <3>1. pos[a] # pos[b] BY <2>3 DEF Inductive
    <3> QED BY <2>0, <2>1, <2>3, <3>1, SlotsDiffer
  <2>4. CASE a \in Consumers /\ b \in Consumers
    <3>1. pos[a] # pos[b] BY <2>4 DEF Inductive
    <3> QED BY <2>0, <2>2, <2>4, <3>1
  <2>5. CASE a \in Producers /\ b \in Consumers
    BY <2>0, <2>1, <2>2, <2>5, SlotsDiffer
  <2>6. CASE a \in Consumers /\ b \in Producers
    BY <2>0, <2>1, <2>2, <2>6, SlotsDiffer
  <2>7. a \notin Observers /\ b \notin Observers
    BY DEF TypeOK, Owns, SizeLabels
  <2> QED BY <2>3, <2>4, <2>5, <2>6, <2>7 DEF Threads
<1> QED BY <1>1, WindowInvariant, PTL

(* The ring never holds more than Capacity tickets, size() stays in range, *)
(* and every consumer takes the task that was accepted with its ticket.    *)
THEOREM TicketsInOrder == Spec => [](RingBounded /\ SizeInRange /\ TakesItsTicket)
<1>1. TypeOK /\ Inductive => RingBounded /\ SizeInRange /\ TakesItsTicket
  <2> SUFFICES ASSUME TypeOK, Inductive PROVE RingBounded /\ SizeInRange /\ TakesItsTicket
    OBVIOUS
  <2>1. RingBounded BY DEF Inductive
  <2>2. SizeInRange
    BY CapacityAssumption DEF SizeInRange, Inductive, ObserverKnows, TypeOK
  <2>3. TakesItsTicket BY DEF TakesItsTicket, Inductive, ConsumerKnows
  <2> QED BY <2>1, <2>2, <2>3
<1> QED BY <1>1, WindowInvariant, PTL

(* push is refused only when the ring is full or when the cell one lap     *)
(* back has not been released; pop comes back empty only when the queue is *)
(* empty or its oldest ticket has not been published.                      *)
THEOREM ReturnsJustified == Spec => CallsJustified
<1> DEFINE Refusal == \A p \in Producers :
                        pc[p] = "p_seq" /\ pc'[p] = "idle" =>
                          /\ pos[p] = tail
                          /\ \/ tail = head + Capacity
                             \/ \E c \in Consumers : /\ pc[c] \in {"c_take", "c_release"}
                                                     /\ pos[c] + Capacity = tail
           Nothing == \A c \in Consumers :
                        pc[c] = "c_seq" /\ pc'[c] = "idle" =>
                          /\ pos[c] = head
                          /\ \/ head = tail
                             \/ \E p \in Producers : /\ pc[p] \in {"p_write", "p_publish"}
                                                     /\ pos[p] = head
<1> USE CapacityAssumption DEF TypeOK, Threads, PushLabels, PopLabels, SizeLabels
<1>1. TypeOK /\ Inductive /\ [Next]_vars => [Refusal]_vars
  <2> SUFFICES ASSUME TypeOK, Inductive, Next, NEW p \in Producers,
                      pc[p] = "p_seq", pc'[p] = "idle"
               PROVE  /\ pos[p] = tail
                      /\ \/ tail = head + Capacity
                         \/ \E c \in Consumers : /\ pc[c] \in {"c_take", "c_release"}
                                                 /\ pos[c] + Capacity = tail
    OBVIOUS
  <2>1. sequence[Slot(pos[p])] < pos[p]
    <3>1. PushRefused(p)
      BY ThreadAssumption, ZenonT(60) DEF Next, PushStep, PopStep, CallPush, LoadTail, PushCellFree,
         PushRefused, PushBehind, CasTail, CasTailFails, WriteCell, Publish, CallPopBatch,
         LoadHead, PopCellFull, PopNothing, PopBehind, CasHead, CasHeadFails, TakeCell,
         Release, SizeLoadTail, SizeLoadHead, Shutdown, Reads, Goto, PopAgain
    <3> QED BY <3>1 DEF PushRefused
  <2>2. pos[p] \in Nat /\ pos[p] <= tail /\ tail \in Nat /\ head \in Nat
        /\ tail <= head + Capacity /\ Slot(pos[p]) \in Slots
    BY SlotFacts DEF Inductive, ProducerKnows, RingBounded
  <2>3. pos[p] = tail
    <3>1. pos[p] < tail => sequence[Slot(pos[p])] >= pos[p]
      BY <2>2 DEF Inductive, Past
    <3> QED BY <2>1, <2>2, <3>1
  <2>4. ASSUME tail # head + Capacity PROVE Draining(tail)
    <3>1. Free(tail) \/ Draining(tail) BY <2>2, <2>4 DEF Inductive, Window
    <3> QED BY <2>1, <2>3, <3>1 DEF Free
  <2>5. ASSUME Draining(tail)
        PROVE  \E c \in Consumers : /\ pc[c] \in {"c_take", "c_release"}
                                    /\ pos[c] + Capacity = tail
    BY <2>5 DEF Draining, Owns
  <2> QED BY <2>3, <2>4, <2>5
<1>2. TypeOK /\ Inductive /\ [Next]_vars => [Nothing]_vars
  <2> SUFFICES ASSUME TypeOK, Inductive, Next, NEW c \in Consumers,
                      pc[c] = "c_seq", pc'[c] = "idle"
               PROVE  /\ pos[c] = head
                      /\ \/ head = tail
                         \/ \E p \in Producers : /\ pc[p] \in {"p_write", "p_publish"}
                                                 /\ pos[p] = head
    OBVIOUS
  <2>1. sequence[Slot(pos[c])] < pos[c] + 1
    <3>1. PopNothing(c)
      BY ThreadAssumption, ZenonT(60) DEF Next, PushStep, PopStep, CallPush, LoadTail, PushCellFree,
         PushRefused, PushBehind, CasTail, CasTailFails, WriteCell, Publish, CallPopBatch,
         LoadHead, PopCellFull, PopNothing, PopBehind, CasHead, CasHeadFails, TakeCell,
         Release, SizeLoadTail, SizeLoadHead, Shutdown, Reads, Goto, PopAgain
    <3> QED BY <3>1 DEF PopNothing
  <2>2. pos[c] \in Nat /\ pos[c] <= head /\ tail \in Nat /\ head \in Nat
        /\ head <= tail /\ Slot(pos[c]) \in Slots
    BY SlotFacts DEF Inductive, ConsumerKnows, RingBounded
  <2>3. pos[c] = head
    <3>1. pos[c] < head => sequence[Slot(pos[c])] >= pos[c] + 1
      BY <2>2 DEF Inductive, Past
    <3> QED BY <2>1, <2>2, <3>1
  <2>4. ASSUME head # tail PROVE Filling(head)
    <3>1. Filled(head) \/ Filling(head) BY <2>2, <2>4 DEF Inductive, Window
    <3> QED BY <2>1, <2>2, <2>3, <3>1 DEF Filled
  <2>5. ASSUME Filling(head)
        PROVE  \E p \in Producers : /\ pc[p] \in {"p_write", "p_publish"}
                                    /\ pos[p] = head
    BY <2>5 DEF Filling, Owns
  <2> QED BY <2>3, <2>4, <2>5
<1> QED BY <1>1, <1>2, WindowInvariant, PTL
  DEF Spec, CallsJustified, RefusalJustified, EmptyJustified

(* The queue implements the contract of ITaskQueue: whatever the           *)
(* interleaving, tasks leave in the order in which they were accepted,     *)
(* each into exactly one batch, and no batch exceeds its limit.            *)
THEOREM Refinement == Spec => ImplementsContract
<1> DEFINE Q == SubSeq(log, head + 1, tail)
           B == [c \in Consumers |-> Pending(c)]
<1> USE CapacityAssumption, BatchMaxAssumption, ThreadAssumption
<1>1. Init => Contract!Init
  <2> SUFFICES ASSUME Init PROVE Contract!Init
    OBVIOUS
  <2>1. Q = << >> BY DEF Init
  <2>2. B = [c \in Consumers |-> << >>] BY DEF Init, Pending, Threads
  <2> QED BY <2>1, <2>2 DEF Contract!Init
<1>2. TypeOK /\ Inductive /\ [Next]_vars => [Contract!Next]_(Contract!vars)
  <2> SUFFICES ASSUME TypeOK, Inductive, [Next]_vars
               PROVE  Contract!Next \/ UNCHANGED <<Q, B>>
    BY DEF Contract!vars
  <2>0. /\ head \in Nat /\ tail \in Nat /\ head <= tail /\ Len(log) = tail
        /\ log \in Seq(Tasks)
        /\ \A c \in Consumers : pos[c] \in Nat /\ (Owns(c) => pos[c] < head)
    BY DEF TypeOK, Threads, Inductive, RingBounded, ConsumerKnows
  <2>1. ASSUME UNCHANGED <<head, tail, log>>,
               \A c \in Consumers : Pending(c)' = Pending(c)
        PROVE  UNCHANGED <<Q, B>>
    BY <2>1
  <2>2. ASSUME UNCHANGED <<head, tail, log, batch>>,
               \A c \in Consumers : /\ Owns(c)' <=> Owns(c)
                                    /\ Owns(c) => pos'[c] = pos[c]
        PROVE  UNCHANGED <<Q, B>>
    <3>1. ASSUME NEW c \in Consumers
          PROVE  /\ pc[c] \in {"c_take", "c_release"} <=> Owns(c)
                 /\ Owns(c)' <=> pc'[c] \in {"c_take", "c_release"}
      <4>1. pc[c] \in PopLabels /\ pc'[c] \in PopLabels BY TypeStep DEF TypeOK
      <4> QED BY <4>1 DEF Owns, PopLabels
    <3>2. ASSUME NEW c \in Consumers PROVE Pending(c)' = Pending(c)
      BY <2>2, <3>1 DEF Pending
    <3> QED BY <2>1, <2>2, <3>2
  <2>3. ASSUME NEW p \in Producers, CasTail(p) PROVE Contract!Next
    <3>1. /\ log' = Append(log, item[p]) /\ item[p] \in Tasks
          /\ tail' = tail + 1 /\ head' = head
          /\ UNCHANGED <<batch, pos>>
          /\ pc' = [pc EXCEPT ![p] = "p_write"] /\ pc \in [Threads -> PushLabels \cup PopLabels \cup SizeLabels]
      BY <2>3 DEF CasTail, Goto, TypeOK, Holding
    <3>2. Q' = Append(Q, item[p]) BY <2>0, <3>1, SuffixAppend
    <3>3. ASSUME NEW c \in Consumers PROVE Pending(c)' = Pending(c)
      <4>1. pc'[c] = pc[c] BY <3>1 DEF Threads
      <4>2. Owns(c) => log'[pos[c] + 1] = log[pos[c] + 1] BY <2>0, <3>1
      <4> QED BY <3>1, <4>1, <4>2 DEF Pending, Owns
    <3>4. B' = B BY <3>3
    <3>5. Contract!Push(item[p]) BY <3>2, <3>4 DEF Contract!Push
    <3> QED BY <3>1, <3>5 DEF Contract!Next
  <2>4. ASSUME NEW c \in Consumers, CasHead(c) PROVE Contract!Next
    <3>1. /\ head' = head + 1 /\ tail' = tail /\ log' = log /\ pos[c] = head
          /\ UNCHANGED <<batch, pos>> /\ pc[c] = "c_cas"
          /\ pc' = [pc EXCEPT ![c] = "c_take"] /\ pc \in [Threads -> PushLabels \cup PopLabels \cup SizeLabels]
      BY <2>4 DEF CasHead, Goto, TypeOK
    <3>2. head < tail
      BY <2>0, <2>4, CasHeadStep, <3>1 DEF Inductive, RingBounded
    <3>3. /\ 1 <= Len(Q) /\ SubSeq(Q, 1, 1) = <<log[head + 1]>>
          /\ SubSeq(Q, 1 + 1, Len(Q)) = Q'
      BY <2>0, <3>1, <3>2, SuffixTail
    <3>4. Pending(c) = batch[c] BY <3>1 DEF Pending
    <3>5. Pending(c)' = Pending(c) \o SubSeq(Q, 1, 1)
      <4>1. Pending(c)' = Append(batch[c], log[head + 1])
        BY <3>1 DEF Pending, Threads
      <4>2. batch[c] \in Seq(Tasks \cup {Moved}) /\ log[head + 1] \in Tasks
        BY <2>0, <3>2 DEF TypeOK
      <4>3. Append(batch[c], log[head + 1]) = batch[c] \o <<log[head + 1]>>
        BY <4>2, AppendIsConcat
      <4> QED BY <3>3, <3>4, <4>1, <4>3
    <3>6. ASSUME NEW x \in Consumers, x # c PROVE Pending(x)' = Pending(x)
      BY <3>1, <3>6 DEF Pending, Threads
    <3>7. B' = [B EXCEPT ![c] = @ \o SubSeq(Q, 1, 1)] BY <3>5, <3>6
    <3>8. Len(B[c]) + 1 <= BatchMax /\ 1 \in 1..BatchMax
      <4>1. Len(batch[c]) < BatchMax /\ Len(batch[c]) \in Nat
        BY <3>1 DEF Inductive, ConsumerKnows, TypeOK
      <4> QED BY <3>4, <4>1
    <3>9. Contract!PopBatch(c, 1)
      BY <3>3, <3>7, <3>8 DEF Contract!PopBatch
    <3> QED BY <3>8, <3>9 DEF Contract!Next
  <2>5. ASSUME NEW c \in Consumers, CallPopBatch(c) PROVE Contract!Next
    <3>1. /\ pc[c] = "idle" /\ batch' = [batch EXCEPT ![c] = << >>]
          /\ pc' = [pc EXCEPT ![c] = PopAgain(0)]
          /\ UNCHANGED <<head, tail, log, pos>>
      BY <2>5 DEF CallPopBatch, Goto
    <3>2. ASSUME NEW x \in Consumers
          PROVE  Pending(x)' = IF x = c THEN << >> ELSE Pending(x)
      BY <3>1 DEF Pending, PopAgain, TypeOK, Threads
    <3>3. B' = [B EXCEPT ![c] = << >>] BY <3>2
    <3>4. Q' = Q BY <3>1
    <3>5. Contract!Clear(c) BY <3>3, <3>4 DEF Contract!Clear
    <3> QED BY <3>5 DEF Contract!Next
  <2>6. ASSUME NEW c \in Consumers, Release(c) PROVE UNCHANGED <<Q, B>>
    <3>1. /\ pc[c] = "c_release" /\ batch' = [batch EXCEPT ![c] = Append(@, item[c])]
          /\ pc' = [pc EXCEPT ![c] = PopAgain(Len(batch[c]) + 1)]
          /\ UNCHANGED <<head, tail, log, pos>> /\ item[c] = log[pos[c] + 1]
      BY <2>6 DEF Release, Goto, Inductive, ConsumerKnows
    <3>2. ASSUME NEW x \in Consumers PROVE Pending(x)' = Pending(x)
      <4>1. CASE x = c BY <3>1, <4>1 DEF Pending, PopAgain, TypeOK, Threads
      <4>2. CASE x # c BY <3>1, <4>2 DEF Pending, TypeOK, Threads
      <4> QED BY <4>1, <4>2
    <3> QED BY <2>1, <3>1, <3>2
  <2>7. ASSUME NEW p \in Producers, NEW t \in Tasks, CallPush(p, t)
        PROVE  UNCHANGED <<Q, B>>
    BY <2>2, <2>7 DEF CallPush, Goto, TypeOK, Threads, Owns
  <2>8. ASSUME NEW p \in Producers,
               \/ LoadTail(p) \/ PushCellFree(p) \/ PushRefused(p) \/ PushBehind(p)
               \/ CasTailFails(p) \/ WriteCell(p) \/ Publish(p)
        PROVE  UNCHANGED <<Q, B>>
    BY <2>2, <2>8 DEF LoadTail, PushCellFree, PushRefused, PushBehind, CasTailFails,
       WriteCell, Publish, Reads, Goto, Keep, TypeOK, Threads, Owns
  <2>9. ASSUME NEW c \in Consumers,
               \/ LoadHead(c) \/ PopCellFull(c) \/ PopNothing(c) \/ PopBehind(c)
               \/ CasHeadFails(c) \/ TakeCell(c)
        PROVE  UNCHANGED <<Q, B>>
    BY <2>2, <2>9 DEF LoadHead, PopCellFull, PopNothing, PopBehind, CasHeadFails,
       TakeCell, Reads, Goto, Keep, TypeOK, Threads, Owns
  <2>10. ASSUME NEW o \in Observers, SizeLoadTail(o) \/ SizeLoadHead(o)
         PROVE  UNCHANGED <<Q, B>>
    BY <2>2, <2>10 DEF SizeLoadTail, SizeLoadHead, Reads, Goto, Keep, TypeOK, Threads, Owns
  <2>11. CASE Shutdown BY <2>2, <2>11 DEF Shutdown, Owns
  <2>12. CASE UNCHANGED vars BY <2>2, <2>12 DEF vars, Owns
  <2> QED
    BY <2>3, <2>4, <2>5, <2>6, <2>7, <2>8, <2>9, <2>10, <2>11, <2>12
       DEF Next, PushStep, PopStep
<1> QED
  BY <1>1, <1>2, WindowInvariant, PTL DEF Spec, ImplementsContract, Contract!Spec
==============================================================================

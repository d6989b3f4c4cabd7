------------------------ MODULE SPSCTaskQueue_proofs ------------------------
(* Proofs about SPSCTaskQueue, for every capacity and batch limit.         *)
EXTENDS SPSCTaskQueue, RingLemmas

(* The cell of a ticket is a cell.                                         *)
LEMMA SlotIsCell == ASSUME NEW k \in Nat PROVE Slot(k) \in Slots
BY SlotInRange, SPSCAssumption DEF Slot, Slots

(* Two tickets less than a lap apart have different cells.                 *)
LEMMA WindowApart ==
  ASSUME NEW j \in Nat, NEW k \in Nat, j < k, k < j + Capacity
  PROVE  Slot(j) # Slot(k)
<1>1. SUFFICES ASSUME j % Capacity = k % Capacity PROVE FALSE
  BY DEF Slot
<1>2. Capacity \in Nat /\ Capacity >= 2 BY SPSCAssumption
<1>3. j + Capacity <= k BY <1>1, <1>2, SlotsApart
<1> QED BY <1>2, <1>3

(* The test for a full ring finds a ring of Capacity - 1 tasks full, so    *)
(* when it lets the producer pass there is room for two more tickets.      *)
LEMMA RoomLeft ==
  ASSUME NEW h \in Nat, NEW t \in Nat, h <= t, t < h + Capacity,
         Slot(t + 1) # Slot(h)
  PROVE  t + 1 < h + Capacity
<1>1. SUFFICES ASSUME t + 1 = h + Capacity PROVE FALSE
  BY SPSCAssumption
<1>2. Slot(h + Capacity) = Slot(h)
  BY SlotNextLap, SPSCAssumption DEF Slot
<1> QED BY <1>1, <1>2

(* The size is the number of tasks as long as these fit the word.          *)
LEMMA SizeIsLength ==
  ASSUME NEW h \in Nat, NEW t \in Nat, h <= t, t < h + Capacity
  PROVE  (Word + t - h) % Word = t - h
<1>1. PICK d \in Nat : d = t - h OBVIOUS
<1>2. d < Word /\ Word \in Nat /\ Word >= 2 BY <1>1, SPSCAssumption
<1>3. (d + Word) % Word = d % Word BY <1>2, SlotNextLap
<1>4. d % Word = d BY <1>2
<1>5. Word + t - h = d + Word BY <1>1, <1>2
<1> QED BY <1>1, <1>3, <1>4, <1>5

(* The initial state satisfies the invariant.                              *)
LEMMA InitInductive == Init => Inductive
<1> SUFFICES ASSUME Init PROVE Inductive
  OBVIOUS
<1>0. << >> \in Seq(Tasks) /\ << >> \in Seq(Tasks \cup {Moved}) OBVIOUS
<1>1. TypeOK BY <1>0 DEF Init, TypeOK
<1>2. RingBounded /\ SizeInRange /\ Len(log) = tail
  BY SPSCAssumption DEF Init, RingBounded, SizeInRange
<1>3. \A k \in head..(tail - 1) : Filled(k) \/ (k = head /\ cpc = "release")
  BY DEF Init
<1> QED BY <1>1, <1>2, <1>3 DEF Inductive, Init

(* Every step keeps the invariant.                                         *)
LEMMA StepInductive == Inductive /\ [Next]_vars => Inductive'
<1> SUFFICES ASSUME Inductive, [Next]_vars PROVE Inductive'
  OBVIOUS
<1>0. TypeOK /\ RingBounded BY DEF Inductive
<1>h. PICK h \in Nat : h = head BY <1>0 DEF TypeOK
<1>t. PICK t \in Nat : t = tail BY <1>0 DEF TypeOK
<1>c. Capacity \in Nat /\ Capacity >= 2 /\ BatchMax \in Nat BY SPSCAssumption
<1>1. ASSUME NEW x \in Tasks, CallPush(x) PROVE Inductive'
  BY <1>1 DEF CallPush, Inductive, TypeOK, RingBounded, SizeInRange, Filled, consumer
<1>2. CASE PushRoom
  <2>1. tail + 1 < head + Capacity
    BY <1>2, <1>0, RoomLeft DEF PushRoom, Full, TypeOK, RingBounded
  <2> QED BY <1>2, <2>1
       DEF PushRoom, Inductive, TypeOK, RingBounded, SizeInRange, Filled, consumer
<1>3. CASE PushRefused
  BY <1>3 DEF PushRefused, Inductive, TypeOK, RingBounded, SizeInRange, Filled, consumer
<1>4. CASE WriteCell
  <2>1. /\ ppc = "write" /\ ppc' = "publish" /\ item \in Tasks
        /\ buffer' = [buffer EXCEPT ![Slot(t)] = item]
        /\ UNCHANGED <<head, tail, stop_flag, item, cpc, taken, batch, size, log>>
    BY <1>4, <1>0, <1>t DEF WriteCell, TypeOK, consumer
  <2>2. Slot(t) \in Slots BY SlotIsCell
  <2>3. t + 1 < h + Capacity /\ h <= t
    BY <2>1, <1>h, <1>t DEF Inductive, RingBounded
  <2>4. TypeOK' BY <2>1, <2>2, <1>0 DEF TypeOK
  <2>5. \A k \in head'..(tail' - 1) : Filled(k)' \/ (k = head' /\ cpc' = "release")
    <3> SUFFICES ASSUME NEW k \in h..(t - 1)
                 PROVE  Filled(k)' \/ (k = head' /\ cpc' = "release")
      BY <2>1, <1>h, <1>t
    <3>1. k \in Nat /\ k < t /\ t < k + Capacity BY <2>3, <1>c
    <3>2. Slot(k) # Slot(t) /\ Slot(k) \in Slots BY <3>1, WindowApart, SlotIsCell
    <3>3. buffer'[Slot(k)] = buffer[Slot(k)] BY <2>1, <3>2, <1>0 DEF TypeOK
    <3>4. Filled(k) \/ (k = head /\ cpc = "release") BY <1>h, <1>t DEF Inductive
    <3> QED BY <3>3, <3>4, <2>1 DEF Filled
  <2>6. buffer'[Slot(tail')] = item' BY <2>1, <2>2, <1>0, <1>t DEF TypeOK
  <2> QED BY <2>1, <2>3, <2>4, <2>5, <2>6, <1>h, <1>t DEF Inductive, RingBounded, SizeInRange
<1>5. CASE Publish
  <2>1. /\ ppc = "publish" /\ ppc' = "idle" /\ item \in Tasks
        /\ tail' = t + 1 /\ log' = Append(log, item) /\ item' = Moved
        /\ UNCHANGED <<buffer, head, stop_flag, cpc, taken, batch, size>>
    BY <1>5, <1>0, <1>t DEF Publish, TypeOK, consumer
  <2>2. /\ t + 1 < h + Capacity /\ h <= t /\ Len(log) = t /\ buffer[Slot(t)] = item
        /\ log \in Seq(Tasks)
    BY <2>1, <1>h, <1>t DEF Inductive, RingBounded, TypeOK
  <2>3. /\ log' \in Seq(Tasks) /\ Len(log') = t + 1 /\ log'[t + 1] = item
        /\ \A k \in 1..t : log'[k] = log[k]
    BY <2>1, <2>2
  <2>4. TypeOK' BY <2>1, <2>3, <1>0 DEF TypeOK
  <2>5. \A k \in head'..(tail' - 1) : Filled(k)' \/ (k = head' /\ cpc' = "release")
    <3> SUFFICES ASSUME NEW k \in h..t
                 PROVE  Filled(k)' \/ (k = head' /\ cpc' = "release")
      BY <2>1, <1>h, <1>t
    <3>1. CASE k = t BY <3>1, <2>1, <2>2, <2>3 DEF Filled
    <3>2. CASE k < t
      <4>1. k \in head..(tail - 1) /\ k + 1 \in 1..t BY <3>2, <1>h, <1>t
      <4>2. Filled(k) \/ (k = head /\ cpc = "release") BY <4>1 DEF Inductive
      <4> QED BY <4>1, <4>2, <2>1, <2>3 DEF Filled
    <3> QED BY <3>1, <3>2
  <2>6. cpc' = "release" => taken' = log'[head' + 1]
    <3> SUFFICES ASSUME cpc = "release" PROVE taken = log'[h + 1]
      BY <2>1, <1>h
    <3>1. h < t /\ taken = log[h + 1] BY <1>h, <1>t DEF Inductive
    <3>2. h + 1 \in 1..t BY <3>1
    <3> QED BY <3>1, <3>2, <2>3
  <2>7. cpc \in {"take", "release"} => head < tail BY DEF Inductive
  <2> QED BY <2>1, <2>2, <2>3, <2>4, <2>5, <2>6, <2>7, <1>h, <1>t
          DEF Inductive, RingBounded, SizeInRange
<1>6. CASE CallPopBatch
  <2>1. << >> \in Seq(Tasks \cup {Moved}) /\ Len(<< >>) = 0 OBVIOUS
  <2>2. TypeOK' BY <1>6, <1>0, <2>1 DEF CallPopBatch, PopAgain, TypeOK, producer
  <2>3. cpc' # "idle" => Len(batch'[Worker]) < BatchMax
    BY <1>6, <1>0, <2>1 DEF CallPopBatch, PopAgain, TypeOK
  <2>4. cpc' \notin {"take", "release"} /\ cpc # "release"
    BY <1>6 DEF CallPopBatch, PopAgain
  <2> QED BY <1>6, <2>2, <2>3, <2>4
          DEF CallPopBatch, Inductive, RingBounded, SizeInRange, Filled, producer
<1>7. CASE PopFinds
  <2>1. head < tail BY <1>7, <1>0 DEF PopFinds, RingBounded, TypeOK
  <2> QED BY <1>7, <2>1
          DEF PopFinds, Inductive, TypeOK, RingBounded, SizeInRange, Filled, producer
<1>8. CASE PopNothing
  BY <1>8 DEF PopNothing, Inductive, TypeOK, RingBounded, SizeInRange, Filled, producer
<1>9. CASE TakeCell
  <2>1. /\ cpc = "take" /\ cpc' = "release" /\ taken' = buffer[Slot(h)]
        /\ buffer' = [buffer EXCEPT ![Slot(h)] = Moved]
        /\ UNCHANGED <<head, tail, stop_flag, ppc, item, batch, size, log>>
    BY <1>9, <1>h DEF TakeCell, producer
  <2>2. Slot(h) \in Slots /\ Slot(t) \in Slots BY SlotIsCell
  <2>3. h < t /\ t < h + Capacity BY <2>1, <1>h, <1>t DEF Inductive, RingBounded
  <2>4. TypeOK' BY <2>1, <2>2, <1>0 DEF TypeOK
  <2>5. Filled(h)
    <3>1. h \in head..(tail - 1) BY <2>3, <1>h, <1>t
    <3> QED BY <3>1, <2>1 DEF Inductive
  <2>6. taken' = log'[head' + 1] BY <2>1, <2>5, <1>h DEF Filled
  <2>7. \A k \in head'..(tail' - 1) : Filled(k)' \/ (k = head' /\ cpc' = "release")
    <3> SUFFICES ASSUME NEW k \in h..(t - 1), k # h PROVE Filled(k)'
      BY <2>1, <1>h, <1>t
    <3>1. k \in Nat /\ h < k /\ k < h + Capacity BY <2>3, <1>c
    <3>2. Slot(h) # Slot(k) /\ Slot(k) \in Slots BY <3>1, WindowApart, SlotIsCell
    <3>3. buffer'[Slot(k)] = buffer[Slot(k)] BY <2>1, <3>2, <1>0 DEF TypeOK
    <3>4. Filled(k) BY <2>1, <1>h, <1>t DEF Inductive
    <3> QED BY <3>3, <3>4, <2>1 DEF Filled
  <2>8. ppc = "publish" => buffer'[Slot(tail')] = item
    <3>1. Slot(h) # Slot(t) BY <2>3, WindowApart
    <3> QED BY <3>1, <2>1, <2>2, <1>0, <1>t DEF TypeOK, Inductive
  <2> QED BY <2>1, <2>3, <2>4, <2>6, <2>7, <2>8, <1>h, <1>t
          DEF Inductive, RingBounded, SizeInRange
<1>10. CASE ReleaseCell
  <2> DEFINE b == Append(batch[Worker], taken)
  <2>1. /\ cpc = "release" /\ head' = h + 1 /\ taken' = Moved
        /\ batch' = [batch EXCEPT ![Worker] = b]
        /\ cpc' = PopAgain(Len(batch[Worker]) + 1)
        /\ UNCHANGED <<buffer, tail, stop_flag, ppc, item, size, log>>
    BY <1>10, <1>h DEF ReleaseCell, producer
  <2>2. batch[Worker] \in Seq(Tasks \cup {Moved}) /\ taken \in Tasks \cup {Moved}
    BY <1>0 DEF TypeOK
  <2>3. b \in Seq(Tasks \cup {Moved}) /\ Len(b) = Len(batch[Worker]) + 1 BY <2>2
  <2> HIDE DEF b
  <2>4. batch' \in [{Worker} -> Seq(Tasks \cup {Moved})] /\ batch'[Worker] = b
    BY <2>1, <2>3, <1>0 DEF TypeOK
  <2>5. cpc' \in {"load", "idle"} /\ (cpc' # "idle" => Len(batch'[Worker]) < BatchMax)
    BY <2>1, <2>3, <2>4 DEF PopAgain
  <2>6. TypeOK' BY <2>1, <2>4, <2>5, <1>0 DEF TypeOK
  <2>7. h < t /\ t < h + Capacity BY <2>1, <1>h, <1>t DEF Inductive, RingBounded
  <2>8. \A k \in head'..(tail' - 1) : Filled(k)' \/ (k = head' /\ cpc' = "release")
    <3> SUFFICES ASSUME NEW k \in (h + 1)..(t - 1) PROVE Filled(k)'
      BY <2>1, <1>h, <1>t
    <3>1. k \in head..(tail - 1) /\ k # head BY <1>h, <1>t
    <3>2. Filled(k) BY <3>1 DEF Inductive
    <3> QED BY <3>2, <2>1 DEF Filled
  <2>9. ppc \in {"write", "publish"} => t + 1 < h + Capacity BY <1>h, <1>t DEF Inductive
  <2>10. head' <= tail' /\ tail' < head' + Capacity
    BY <2>1, <2>7, <1>h, <1>t, <1>c
  <2>11. ppc' \in {"write", "publish"} => tail' + 1 < head' + Capacity
    BY <2>1, <2>9, <1>h, <1>t, <1>c
  <2> QED BY <2>1, <2>5, <2>6, <2>8, <2>10, <2>11
          DEF Inductive, RingBounded, SizeInRange
<1>11. CASE SizeByProducer \/ SizeByConsumer
  <2>1. /\ size' = (Word + tail - head) % Word
        /\ UNCHANGED <<buffer, head, tail, stop_flag, ppc, item, cpc, taken, batch, log>>
    BY <1>11 DEF SizeByProducer, SizeByConsumer, producer, consumer
  <2>2. h <= t /\ t < h + Capacity BY <1>0, <1>h, <1>t DEF RingBounded
  <2>3. size' = t - h BY <2>1, <2>2, SizeIsLength, <1>h, <1>t
  <2>4. size' \in Nat /\ size' < Capacity BY <2>2, <2>3, <1>c
  <2> QED BY <2>1, <2>4 DEF Inductive, TypeOK, RingBounded, SizeInRange, Filled
<1>12. CASE Shutdown
  BY <1>12 DEF Shutdown, Inductive, TypeOK, RingBounded, SizeInRange, Filled, producer, consumer
<1>13. CASE UNCHANGED vars
  BY <1>13 DEF vars, Inductive, TypeOK, RingBounded, SizeInRange, Filled
<1> QED BY <1>1, <1>2, <1>3, <1>4, <1>5, <1>6, <1>7, <1>8, <1>9, <1>10, <1>11, <1>12, <1>13
        DEF Next, PushStep, PopStep

(* The cells between head and tail hold the accepted tasks, the ring is    *)
(* never overrun, and a thread keeps the room that it saw.                 *)
THEOREM InductiveInvariant == Spec => []Inductive
BY InitInductive, StepInductive, PTL DEF Spec

(* The producer's cell and the consumer's cell are always different.       *)
THEOREM NoDataRace == Spec => []ExclusiveCells
<1>1. Inductive => ExclusiveCells
  <2> SUFFICES ASSUME Inductive, cpc \in {"take", "release"} PROVE Slot(tail) # Slot(head)
    BY DEF ExclusiveCells
  <2>1. head \in Nat /\ tail \in Nat /\ head < tail /\ tail < head + Capacity
    BY DEF Inductive, TypeOK, RingBounded
  <2> QED BY <2>1, WindowApart
<1> QED BY <1>1, InductiveInvariant, PTL

(* The consumer always takes the oldest accepted task.                     *)
THEOREM OldestFirst == Spec => []TakesOldest
<1>1. Inductive => TakesOldest
  <2> SUFFICES ASSUME Inductive PROVE TakesOldest
    OBVIOUS
  <2>1. ASSUME cpc = "take" PROVE buffer[Slot(head)] = log[head + 1]
    <3>1. head \in head..(tail - 1) BY <2>1 DEF Inductive, TypeOK
    <3> QED BY <3>1, <2>1 DEF Inductive, Filled
  <2> QED BY <2>1 DEF TakesOldest, Inductive
<1> QED BY <1>1, InductiveInvariant, PTL

(* The queue implements the contract: a task is accepted at the store of   *)
(* tail and handed over at the store of head.                              *)
THEOREM Refinement == Spec => ImplementsContract
<1>1. Init => Contract!Init
  <2> SUFFICES ASSUME Init PROVE Contract!Init
    OBVIOUS
  <2>1. SubSeq(log, head + 1, tail) = << >> BY DEF Init
  <2> QED BY <2>1 DEF Init, Contract!Init
<1>2. Inductive /\ Inductive' /\ [Next]_vars => [Contract!Next]_(Contract!vars)
  <2> SUFFICES ASSUME Inductive, Inductive', [Next]_vars
               PROVE  Contract!Next \/ UNCHANGED Contract!vars
    OBVIOUS
  <2>h. PICK h \in Nat : h = head BY DEF Inductive, TypeOK
  <2>t. PICK t \in Nat : t = tail BY DEF Inductive, TypeOK
  <2>l. log \in Seq(Tasks) /\ Len(log) = t /\ h <= t
    BY <2>h, <2>t DEF Inductive, TypeOK, RingBounded
  <2> DEFINE q == SubSeq(log, h + 1, t)
  <2>1. CASE Publish
    <3>1. item \in Tasks /\ tail' = t + 1 /\ log' = Append(log, item) /\ UNCHANGED <<head, batch>>
      BY <2>1, <2>t DEF Publish, Inductive, TypeOK, consumer
    <3>2. h \in 0..Len(log) BY <2>l
    <3>3. SubSeq(Append(log, item), h + 1, Len(log) + 1) = Append(SubSeq(log, h + 1, Len(log)), item)
      BY <3>1, <3>2, <2>l, SuffixAppend
    <3>4. SubSeq(log', head' + 1, tail') = Append(q, item)
      BY <3>1, <3>3, <2>l, <2>h
    <3> QED BY <3>1, <3>4, <2>h, <2>t DEF Contract!Next, Contract!Push
  <2>2. CASE CallPopBatch
    BY <2>2 DEF CallPopBatch, Contract!Next, Contract!Clear
  <2>3. CASE ReleaseCell
    <3>1. /\ head' = h + 1 /\ UNCHANGED <<tail, log>> /\ h < t
          /\ batch' = [batch EXCEPT ![Worker] = Append(@, taken)]
          /\ taken = log[h + 1] /\ Len(batch[Worker]) < BatchMax
      BY <2>3, <2>h, <2>t DEF ReleaseCell, Inductive
    <3>2. /\ 1 <= Len(q) /\ SubSeq(q, 1, 1) = <<taken>>
          /\ SubSeq(q, 1 + 1, Len(q)) = SubSeq(log', head' + 1, tail')
      <4>1. q = SubSeq(log, h + 1, Len(log)) BY <2>l
      <4>2. LET s == SubSeq(log, h + 1, Len(log))
            IN  /\ 1 <= Len(s) /\ SubSeq(s, 1, 1) = <<log[h + 1]>>
                /\ SubSeq(s, 1 + 1, Len(s)) = SubSeq(log, (h + 1) + 1, Len(log))
        BY <3>1, <2>l, SuffixTail
      <4>3. SubSeq(log', head' + 1, tail') = SubSeq(log, (h + 1) + 1, Len(log))
        BY <3>1, <2>l, <2>t
      <4> HIDE DEF q
      <4> QED BY <4>1, <4>2, <4>3, <3>1
    <3>3. batch[Worker] \in Seq(Tasks \cup {Moved}) /\ taken \in Tasks \cup {Moved}
      BY DEF Inductive, TypeOK
    <3>4. Append(batch[Worker], taken) = batch[Worker] \o <<taken>>
      BY <3>3, AppendIsConcat
    <3>5. batch' = [batch EXCEPT ![Worker] = @ \o SubSeq(q, 1, 1)]
      BY <3>1, <3>2, <3>4
    <3>6. Len(batch[Worker]) + 1 <= BatchMax /\ 1 \in 1..BatchMax
      <4>1. Len(batch[Worker]) \in Nat /\ BatchMax \in Nat BY <3>3, SPSCAssumption
      <4> QED BY <4>1, <3>1
    <3> HIDE DEF q
    <3>7. Contract!PopBatch(Worker, 1)
      BY <3>2, <3>5, <3>6, <2>h, <2>t DEF Contract!PopBatch, q
    <3> QED BY <3>6, <3>7 DEF Contract!Next
  <2>4. CASE \/ \E x \in Tasks : CallPush(x)
             \/ PushRoom \/ PushRefused \/ WriteCell \/ PopFinds \/ PopNothing \/ TakeCell
             \/ SizeByProducer \/ SizeByConsumer \/ Shutdown \/ UNCHANGED vars
    BY <2>4 DEF CallPush, PushRoom, PushRefused, WriteCell, PopFinds, PopNothing, TakeCell,
                SizeByProducer, SizeByConsumer, Shutdown, vars, consumer, producer, Contract!vars
  <2> QED BY <2>1, <2>2, <2>3, <2>4 DEF Next, PushStep, PopStep
<1> QED BY <1>1, <1>2, InductiveInvariant, PTL DEF Spec, ImplementsContract, Contract!Spec
=============================================================================

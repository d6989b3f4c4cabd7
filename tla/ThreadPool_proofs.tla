-------------------------- MODULE ThreadPool_proofs --------------------------
(* Proofs about NaiveTaskQueue and the ThreadPool over it, for any number  *)
(* of threads and tasks.                                                   *)
EXTENDS ThreadPool, SequenceTheorems, FiniteSetTheorems, TLAPS

(* Taking n tasks off the front leaves two sequences of tasks, and the     *)
(* batch is no longer than the limit.                                      *)
LEMMA TakeSplits ==
  ASSUME NEW s \in Seq(Tasks), NEW n \in 0..Len(s)
  PROVE  /\ SubSeq(s, 1, n) \in Seq(Tasks) /\ Len(SubSeq(s, 1, n)) = n
         /\ SubSeq(s, n + 1, Len(s)) \in Seq(Tasks)
OBVIOUS

LEMMA InductiveInit == Init => Inductive
<1> SUFFICES ASSUME Init PROVE Inductive
  OBVIOUS
<1>1. << >> \in Seq(Tasks) OBVIOUS
<1>2. TypeOK BY <1>1 DEF Init, TypeOK, Threads
<1>3. \A c \in Consumers : Looking(c) => batch[c] = << >> BY DEF Init
<1>4. closing # "open" <=> stop BY Zenon DEF Init
<1> QED BY <1>2, <1>3, <1>4 DEF Inductive

(* The initial state and every step keep the inductive invariant: a call   *)
(* of pop_batch that still looks for tasks has an empty batch.             *)
LEMMA InductiveStep == Inductive /\ [Next]_vars => Inductive'
<1> SUFFICES ASSUME Inductive, [Next]_vars PROVE Inductive'
  OBVIOUS
<1> USE NaiveAssumption DEF Inductive, TypeOK, Looking, Threads, Goto
<1>1. ASSUME NEW p \in Producers, NEW t \in Tasks, Push(p, t) PROVE Inductive'
  BY <1>1 DEF Push
<1>2. ASSUME NEW p \in Producers, NotifyOne(p) PROVE Inductive'
  <2>1. CASE Waiting = {} /\ Goto(p, "idle")
    BY <1>2, <2>1 DEF NotifyOne
  <2>2. ASSUME NEW c \in Consumers, pc[c] = "wait",
               pc' = [pc EXCEPT ![p] = "idle", ![c] = "check"]
        PROVE  Inductive'
    BY <1>2, <2>2 DEF NotifyOne
  <2> QED BY <1>2, <2>1, <2>2 DEF NotifyOne, Waiting
<1>3. ASSUME NEW c \in Consumers, CallPopBatch(c) PROVE Inductive'
  BY <1>3 DEF CallPopBatch
<1>4. ASSUME NEW c \in Consumers, Sleep(c) PROVE Inductive'
  BY <1>4 DEF Sleep
<1>5. ASSUME NEW c \in Consumers, Take(c) PROVE Inductive'
  <2> DEFINE n == IF Len(data) < BatchMax THEN Len(data) ELSE BatchMax
             b == SubSeq(data, 1, n)
  <2>1. n \in 0..Len(data) OBVIOUS
  <2>2. b \in Seq(Tasks) /\ SubSeq(data, n + 1, Len(data)) \in Seq(Tasks)
    BY <2>1, TakeSplits
  <2>3. /\ data' \in Seq(Tasks) /\ pc' = [pc EXCEPT ![c] = "idle"]
        /\ batch' = [batch EXCEPT ![c] = @ \o b]
        /\ UNCHANGED <<stop, closing, accepted>>
    BY <1>5, <2>2 DEF Take
  <2>4. batch[c] \o b \in Seq(Tasks) BY <2>2
  <2> HIDE DEF b
  <2>5. batch' \in [Consumers -> Seq(Tasks)] BY <2>3, <2>4
  <2>6. \A d \in Consumers : Looking(d)' => batch'[d] = << >> BY <2>3
  <2> QED BY <2>3, <2>5, <2>6
<1>6. ASSUME NEW c \in Consumers, ReturnNothing(c) PROVE Inductive'
  BY <1>6 DEF ReturnNothing
<1>7. ASSUME NEW c \in Consumers, SpuriousWakeup(c) PROVE Inductive'
  BY <1>7 DEF SpuriousWakeup
<1>8. CASE Shutdown BY <1>8 DEF Shutdown
<1>9. CASE NotifyAll BY <1>9 DEF NotifyAll, Waiting
<1>10. CASE UNCHANGED vars BY <1>10 DEF vars
<1> QED
  BY <1>1, <1>2, <1>3, <1>4, <1>5, <1>6, <1>7, <1>8, <1>9, <1>10 DEF Next, PopStep

(* push and pop_batch: the types hold, and a consumer that still looks for *)
(* tasks has an empty batch.                                               *)
THEOREM InductiveInvariant == Spec => []Inductive
  BY InductiveInit, InductiveStep, PTL DEF Spec

(* No step loses a wake-up: push notifies after it appends, a consumer     *)
(* sleeps only when the queue is empty and open, and shutdown notifies all *)
(* after it has set stop.                                                  *)
LEMMA WakeupStep == Inductive /\ NoMissedWakeup /\ [Next]_vars => NoMissedWakeup'
<1> SUFFICES ASSUME Inductive, NoMissedWakeup, [Next]_vars PROVE NoMissedWakeup'
  OBVIOUS
<1> USE NaiveAssumption DEF Inductive, TypeOK, Threads, Goto, NoMissedWakeup, Waiting
<1>1. ASSUME NEW p \in Producers, NEW t \in Tasks, Push(p, t) PROVE NoMissedWakeup'
  BY <1>1 DEF Push
<1>2. ASSUME NEW p \in Producers, NotifyOne(p) PROVE NoMissedWakeup'
  BY <1>2 DEF NotifyOne
<1>3. ASSUME NEW c \in Consumers, CallPopBatch(c) PROVE NoMissedWakeup'
  BY <1>3 DEF CallPopBatch
<1>4. ASSUME NEW c \in Consumers, Sleep(c) PROVE NoMissedWakeup'
  BY <1>4 DEF Sleep
<1>5. ASSUME NEW c \in Consumers, Take(c) PROVE NoMissedWakeup'
  BY <1>5 DEF Take
<1>6. ASSUME NEW c \in Consumers, ReturnNothing(c) PROVE NoMissedWakeup'
  BY <1>6 DEF ReturnNothing
<1>7. ASSUME NEW c \in Consumers, SpuriousWakeup(c) PROVE NoMissedWakeup'
  BY <1>7 DEF SpuriousWakeup
<1>8. CASE Shutdown BY <1>8 DEF Shutdown
<1>9. CASE NotifyAll BY <1>9 DEF NotifyAll
<1>10. CASE UNCHANGED vars BY <1>10 DEF vars
<1> QED
  BY <1>1, <1>2, <1>3, <1>4, <1>5, <1>6, <1>7, <1>8, <1>9, <1>10 DEF Next, PopStep

(* While a task waits, some consumer is awake or a notification is due,    *)
(* and nobody sleeps through shutdown.                                     *)
THEOREM WakeupsReachConsumers == Spec => []NoMissedWakeup
<1>1. Init => NoMissedWakeup
  BY DEF Init, NoMissedWakeup
<1> QED BY <1>1, InductiveInvariant, WakeupStep, PTL DEF Spec

(* The mutex queue implements the contract: push appends, pop_batch moves  *)
(* the oldest tasks into an empty batch, and every other step stutters.    *)
THEOREM Refinement == Spec => ImplementsContract
<1>1. Init => Contract!Init
  BY DEF Init, Contract!Init
<1>2. Inductive /\ [Next]_vars => [Contract!Next]_(Contract!vars)
  <2> SUFFICES ASSUME Inductive, [Next]_vars
               PROVE  Contract!Next \/ UNCHANGED <<data, batch>>
    BY DEF Contract!vars
  <2> USE NaiveAssumption DEF Inductive, TypeOK, Looking, Threads
  <2>1. ASSUME NEW p \in Producers, NEW t \in Tasks, Push(p, t) PROVE Contract!Next
    BY <2>1 DEF Push, Contract!Next, Contract!Push
  <2>2. ASSUME NEW c \in Consumers, CallPopBatch(c) PROVE Contract!Next
    BY <2>2 DEF CallPopBatch, Contract!Next, Contract!Clear
  <2>3. ASSUME NEW c \in Consumers, Take(c)
        PROVE  Contract!Next \/ UNCHANGED <<data, batch>>
    <3> DEFINE n == IF Len(data) < BatchMax THEN Len(data) ELSE BatchMax
    <3>1. n \in Nat /\ n <= Len(data) /\ n <= BatchMax OBVIOUS
    <3>2. batch[c] = << >> BY <2>3 DEF Take
    <3>3. /\ batch' = [batch EXCEPT ![c] = @ \o SubSeq(data, 1, n)]
          /\ data' = SubSeq(data, n + 1, Len(data))
      BY <2>3 DEF Take
    <3>4. CASE n = 0
      <4> HIDE DEF n
      <4>1. SubSeq(data, 1, 0) = << >> OBVIOUS
      <4>2. SubSeq(data, 1, Len(data)) = data OBVIOUS
      <4>3. batch[c] \o << >> = batch[c] BY <3>2
      <4>4. data' = data
        <5>1. n + 1 = 1 BY <3>4
        <5> QED BY <3>3, <5>1, <4>2
      <4>5. batch' = [batch EXCEPT ![c] = batch[c]] BY <3>3, <3>4, <4>1, <4>3
      <4> QED BY <4>4, <4>5
    <3>5. CASE n > 0
      <4> HIDE DEF n
      <4>1. n \in 1..BatchMax BY <3>1, <3>5
      <4>2. Len(batch[c]) + n <= BatchMax BY <3>1, <3>2
      <4>3. Contract!PopBatch(c, n) BY <3>1, <3>3, <4>2 DEF Contract!PopBatch
      <4> QED BY <4>1, <4>3 DEF Contract!Next
    <3> QED BY <3>1, <3>4, <3>5
  <2>4. CASE \/ \E p \in Producers : NotifyOne(p)
             \/ \E c \in Consumers : Sleep(c) \/ ReturnNothing(c) \/ SpuriousWakeup(c)
             \/ Shutdown \/ NotifyAll \/ UNCHANGED vars
    BY <2>4 DEF NotifyOne, Sleep, ReturnNothing, SpuriousWakeup, Shutdown, NotifyAll, vars
  <2> QED BY <2>1, <2>2, <2>3, <2>4 DEF Next, PopStep
<1> QED BY <1>1, <1>2, InductiveInvariant, PTL DEF Spec, ImplementsContract, Contract!Spec
------------------------------------------------------------------------------
(* The pool                                                                *)

(* Every step of the pool is a step of the queue or leaves it alone, so    *)
(* what is proved of the queue holds inside the pool.                      *)
LEMMA PoolStepIsQueueStep == [PoolNext]_allvars => [Next]_vars
<1> USE DEF NoQueueStep
<1> SUFFICES ASSUME [PoolNext]_allvars PROVE [Next]_vars
  OBVIOUS
<1>1. CASE MainStep
  BY <1>1 DEF MainStep, StartWorker, Built, SubmitNotifies, QueueShutdown,
              QueueNotifyAll, Joined, Next
<1>2. CASE StopPool \/ PodFails
  BY <1>2 DEF StopPool, PodFails
<1>3. ASSUME NEW p \in Producers, NEW t \in Tasks, Submit(p, t) PROVE Next
  BY <1>3 DEF Submit, Next
<1>4. ASSUME NEW c \in Consumers, WorkerStep(c) PROVE [Next]_vars
  BY <1>4 DEF WorkerStep, WorkerCalls, WorkerExits, WorkerSleeps, WorkerPops,
              WorkerGetsNothing, RunTask, BatchDone, Next, PopStep
<1>5. ASSUME NEW c \in Consumers, WorkerWakes(c) PROVE Next
  BY <1>5 DEF WorkerWakes, Next
<1>6. CASE UNCHANGED allvars
  BY <1>6 DEF allvars
<1> QED BY <1>1, <1>2, <1>3, <1>4, <1>5, <1>6 DEF PoolNext

(* worker_loop, submit and shutdown use the queue only by its operations.  *)
THEOREM PoolUsesQueue == PoolSpec => Spec
  BY PoolStepIsQueueStep, PTL DEF PoolSpec, PoolInit, Spec

(* So the pool's queue keeps its contract and misses no wake-up.           *)
THEOREM PoolQueueContract == PoolSpec => ImplementsContract /\ []NoMissedWakeup
  BY PoolUsesQueue, Refinement, WakeupsReachConsumers, PTL
------------------------------------------------------------------------------

(* The positions of worker c's batch that it has taken and not answered.   *)
Unfinished(c) == {k \in DOMAIN batch[c] : at[c] = "run" /\ k > done[c]}

(* What makes NothingLost inductive, position by position: the queue, the  *)
(* results and the unfinished parts of the batches hold accepted tasks,    *)
(* hold all of them, and no two of those positions hold the same one.      *)
Held ==
  /\ \A k \in DOMAIN data : data[k] \in accepted
  /\ \A k \in DOMAIN results : results[k] \in accepted
  /\ \A c \in Consumers : \A k \in Unfinished(c) : batch[c][k] \in accepted
All ==
  \A t \in accepted :
    \/ \E k \in DOMAIN data : data[k] = t
    \/ \E k \in DOMAIN results : results[k] = t
    \/ \E c \in Consumers : \E k \in Unfinished(c) : batch[c][k] = t
Once ==
  /\ \A j, k \in DOMAIN data : data[j] = data[k] => j = k
  /\ \A j, k \in DOMAIN results : results[j] = results[k] => j = k
  /\ \A c, d \in Consumers : \A j \in Unfinished(c), k \in Unfinished(d) :
       batch[c][j] = batch[d][k] => c = d /\ j = k
Apart ==
  /\ \A j \in DOMAIN data, k \in DOMAIN results : data[j] # results[k]
  /\ \A c \in Consumers : \A j \in Unfinished(c) :
       /\ \A k \in DOMAIN data : batch[c][j] # data[k]
       /\ \A k \in DOMAIN results : batch[c][j] # results[k]
Conserved == Held /\ All /\ Once /\ Apart
PoolInd == PoolTypeOK /\ Inductive /\ Conserved

LEMMA PoolIndInit == PoolInit => PoolInd
<1> SUFFICES ASSUME PoolInit PROVE PoolInd
  OBVIOUS
<1>1. Inductive
  BY InductiveInit DEF PoolInit
<1>2. << >> \in Seq(Tasks) OBVIOUS
<1>3. \A c \in Consumers : pc[c] = "idle" BY DEF PoolInit, Init, Threads
<1>4. PoolTypeOK
  BY <1>1, <1>2, <1>3 DEF PoolInit, PoolTypeOK, Inductive
<1> QED BY <1>1, <1>4 DEF PoolInd, Conserved, Held, All, Once, Apart, Unfinished, PoolInit, Init

(* Queue steps and worker steps agree on who is inside pop_batch.          *)
LEMMA PoolTypeStep ==
  PoolTypeOK /\ Inductive /\ [PoolNext]_allvars => PoolTypeOK' /\ Inductive'
<1> SUFFICES ASSUME PoolTypeOK, Inductive, [PoolNext]_allvars
             PROVE  PoolTypeOK' /\ Inductive'
  OBVIOUS
<1>1. Inductive'
  BY PoolStepIsQueueStep, InductiveStep
<1>2. TypeOK /\ TypeOK'
  BY <1>1 DEF Inductive
<1> DEFINE Rest == /\ main' \in {"building", "serving", "stopping", "notifying",
                                "joining", "joined", "failed", "terminated"}
                   /\ pool_stop' \in BOOLEAN
                   /\ at' \in [Consumers -> {"none", "loop", "pop", "run", "exited"}]
                   /\ done' \in [Consumers -> Nat]
                   /\ results' \in Seq(Tasks)
           Agree == \A c \in Consumers : /\ at'[c] = "pop" <=> pc'[c] # "idle"
                                         /\ at'[c] = "run" => done'[c] <= Len(batch'[c])
<1> SUFFICES Rest /\ Agree
  BY <1>1, <1>2 DEF PoolTypeOK
<1> USE NaiveAssumption DEF PoolTypeOK, TypeOK, Threads, Goto, Move, NoQueueStep, vars, pool
<1>3. ASSUME NEW c \in Consumers, StartWorker(c) PROVE Rest /\ Agree
  BY <1>2, <1>3 DEF StartWorker
<1>4. CASE Built \/ Joined \/ StopPool \/ PodFails
  BY <1>2, <1>4 DEF Built, Joined, StopPool, PodFails
<1>5. ASSUME NEW p \in Producers, SubmitNotifies(p) PROVE Rest /\ Agree
  BY <1>2, <1>5 DEF SubmitNotifies, NotifyOne, Waiting
<1>6. CASE QueueShutdown
  BY <1>2, <1>6 DEF QueueShutdown, Shutdown
<1>7. CASE QueueNotifyAll
  BY <1>2, <1>7 DEF QueueNotifyAll, NotifyAll, Waiting
<1>8. ASSUME NEW p \in Producers, NEW t \in Tasks, Submit(p, t) PROVE Rest /\ Agree
  BY <1>2, <1>8 DEF Submit, Push
<1>9. ASSUME NEW c \in Consumers, WorkerCalls(c) PROVE Rest /\ Agree
  BY <1>2, <1>9 DEF WorkerCalls, CallPopBatch
<1>10. ASSUME NEW c \in Consumers, WorkerExits(c) \/ BatchDone(c) PROVE Rest /\ Agree
  BY <1>2, <1>10, ZenonT(30) DEF WorkerExits, BatchDone
<1>11. ASSUME NEW c \in Consumers, WorkerSleeps(c) \/ WorkerWakes(c) PROVE Rest /\ Agree
  BY <1>2, <1>11 DEF WorkerSleeps, WorkerWakes, Sleep, SpuriousWakeup
<1>12. ASSUME NEW c \in Consumers, WorkerPops(c) PROVE Rest /\ Agree
  <2>1. Len(batch'[c]) \in Nat
    BY <1>2
  <2>2. /\ at' = [at EXCEPT ![c] = "run"] /\ done' = [done EXCEPT ![c] = 0]
        /\ pc' = [pc EXCEPT ![c] = "idle"]
        /\ \A d \in Consumers \ {c} : batch'[d] = batch[d]
        /\ UNCHANGED <<main, pool_stop, results>>
    BY <1>12 DEF WorkerPops, Take
  <2> QED BY <1>2, <2>1, <2>2
<1>13. ASSUME NEW c \in Consumers, WorkerGetsNothing(c) PROVE Rest /\ Agree
  BY <1>2, <1>13 DEF WorkerGetsNothing, ReturnNothing
<1>14. ASSUME NEW c \in Consumers, RunTask(c) PROVE Rest /\ Agree
  BY <1>2, <1>14 DEF RunTask, PushResult
<1>15. CASE UNCHANGED allvars
  BY <1>2, <1>15 DEF allvars
<1> QED
  BY <1>3, <1>4, <1>5, <1>6, <1>7, <1>8, <1>9, <1>10, <1>11, <1>12, <1>13, <1>14, <1>15
     DEF PoolNext, MainStep, WorkerStep

(* A step that moves no task keeps them all where they are.                *)
LEMMA Undisturbed ==
  ASSUME Conserved, UNCHANGED <<data, results, accepted>>,
         \A c \in Consumers : Unfinished(c)' = Unfinished(c),
         \A c \in Consumers : \A k \in Unfinished(c) : batch'[c][k] = batch[c][k]
  PROVE  Conserved'
<1>1. Held' BY DEF Conserved, Held
<1>2. All' BY DEF Conserved, All
<1>3. Once' BY DEF Conserved, Once
<1>4. Apart' BY DEF Conserved, Apart
<1> QED BY <1>1, <1>2, <1>3, <1>4 DEF Conserved

(* push puts a new task at the end of the queue.                           *)
LEMMA SubmitConserves ==
  ASSUME PoolInd, NEW p \in Producers, NEW t \in Tasks, Submit(p, t)
  PROVE  Conserved'
<1>1. /\ data \in Seq(Tasks) /\ data' = Append(data, t) /\ t \notin accepted
      /\ accepted' = accepted \cup {t} /\ UNCHANGED <<results, batch, at, done>>
  BY DEF PoolInd, Inductive, TypeOK, Submit, Push, pool
<1>2. /\ DOMAIN data = 1..Len(data) /\ DOMAIN data' = 1..(Len(data) + 1) /\ Len(data) \in Nat
      /\ data'[Len(data) + 1] = t /\ \A k \in DOMAIN data : data'[k] = data[k]
  BY <1>1
<1>3. \A c : Unfinished(c)' = Unfinished(c)
  BY <1>1 DEF Unfinished
<1> USE DEF PoolInd, Conserved
<1>4. Held' BY <1>1, <1>2, <1>3 DEF Held
<1>5. All' BY <1>1, <1>2, <1>3 DEF All
<1>6. Once' BY <1>1, <1>2, <1>3 DEF Once, Held
<1>7. Apart' BY <1>1, <1>2, <1>3 DEF Apart, Held
<1> QED BY <1>4, <1>5, <1>6, <1>7

(* pop_batch moves the front of the queue into an empty batch.             *)
LEMMA PopConserves ==
  ASSUME PoolInd, NEW c \in Consumers, WorkerPops(c)
  PROVE  Conserved'
<1> DEFINE n == IF Len(data) < BatchMax THEN Len(data) ELSE BatchMax
<1>1. /\ data \in Seq(Tasks) /\ n \in 0..Len(data) /\ Len(data) \in Nat
      /\ batch \in [Consumers -> Seq(Tasks)] /\ batch[c] = << >>
      /\ done \in [Consumers -> Nat] /\ at \in [Consumers -> {"none", "loop", "pop", "run", "exited"}]
      /\ at[c] = "pop" /\ at' = [at EXCEPT ![c] = "run"] /\ done' = [done EXCEPT ![c] = 0]
      /\ batch' = [batch EXCEPT ![c] = @ \o SubSeq(data, 1, n)]
      /\ data' = SubSeq(data, n + 1, Len(data))
      /\ UNCHANGED <<results, accepted>>
  BY NaiveAssumption DEF PoolInd, PoolTypeOK, Inductive, TypeOK, WorkerPops, Take, Looking, Move
<1> HIDE DEF n
<1>2. /\ DOMAIN data = 1..Len(data)
      /\ Len(data') = Len(data) - n /\ DOMAIN data' = 1..(Len(data) - n)
      /\ \A k \in 1..(Len(data) - n) : data'[k] = data[n + k]
  BY <1>1, SMTT(30)
<1>3. /\ batch'[c] = SubSeq(data, 1, n) /\ DOMAIN batch'[c] = 1..n
      /\ \A k \in 1..n : batch'[c][k] = data[k]
  BY <1>1
<1>4. /\ Unfinished(c)' = 1..n /\ Unfinished(c) = {}
      /\ \A d \in Consumers \ {c} : /\ Unfinished(d)' = Unfinished(d)
                                    /\ batch'[d] = batch[d]
  BY <1>1, <1>3 DEF Unfinished
<1>5. /\ n \in Nat /\ Len(data) \in Nat /\ n <= Len(data)
      /\ results' = results /\ accepted' = accepted
  BY <1>1
<1>6. /\ \A k \in DOMAIN data' : n + k \in DOMAIN data /\ data'[k] = data[n + k]
      /\ \A k \in 1..n : k \in DOMAIN data
      /\ \A j \in 1..n, k \in DOMAIN data' : j # n + k
      /\ \A j, k \in DOMAIN data' : n + j = n + k => j = k
  BY <1>2, <1>5
<1>7. \A d \in Consumers : \A j \in Unfinished(d)' :
        \/ d = c /\ j \in 1..n /\ batch'[d][j] = data[j]
        \/ d # c /\ j \in Unfinished(d) /\ batch'[d][j] = batch[d][j]
  BY <1>3, <1>4
<1> USE DEF PoolInd, Conserved
<1>8. Held'
  BY <1>5, <1>6, <1>7 DEF Held
<1>9. All'
  <2> SUFFICES ASSUME NEW t \in accepted
               PROVE  \/ \E k \in DOMAIN data' : data'[k] = t
                      \/ \E k \in DOMAIN results' : results'[k] = t
                      \/ \E d \in Consumers : \E k \in Unfinished(d)' : batch'[d][k] = t
    BY <1>5 DEF All
  <2>1. ASSUME NEW k \in DOMAIN data, data[k] = t, k > n PROVE \E l \in DOMAIN data' : data'[l] = t
    <3>1. k - n \in DOMAIN data' /\ data'[k - n] = data[k] BY <1>5, <1>2, <2>1
    <3> QED BY <2>1, <3>1
  <2>2. ASSUME NEW k \in DOMAIN data, data[k] = t, k <= n
        PROVE  \E l \in Unfinished(c)' : batch'[c][l] = t
    BY <1>5, <1>2, <1>3, <1>4, <2>2
  <2>3. ASSUME NEW d \in Consumers, NEW k \in Unfinished(d), batch[d][k] = t
        PROVE  d # c /\ k \in Unfinished(d)' /\ batch'[d][k] = t
    BY <1>4, <2>3
  <2>4. \A k \in DOMAIN data : k > n \/ k <= n BY <1>5, <1>2
  <2> QED BY <1>5, <2>1, <2>2, <2>3, <2>4 DEF All
<1>10. Once'
  <2>1. ASSUME NEW j \in DOMAIN data', NEW k \in DOMAIN data', data'[j] = data'[k] PROVE j = k
    <3>1. n + j \in DOMAIN data /\ n + k \in DOMAIN data /\ data[n + j] = data[n + k]
      BY <1>6, <2>1
    <3> QED BY <1>6, <3>1 DEF Once
  <2>2. ASSUME NEW d \in Consumers, NEW e \in Consumers,
               NEW j \in Unfinished(d)', NEW k \in Unfinished(e)', batch'[d][j] = batch'[e][k]
        PROVE  d = e /\ j = k
    <3>1. CASE d = c /\ e = c
      <4>1. j \in DOMAIN data /\ k \in DOMAIN data /\ data[j] = data[k] BY <1>6, <1>7, <2>2, <3>1
      <4> QED BY <3>1, <4>1 DEF Once
    <3>2. CASE d = c /\ e # c BY <1>6, <1>7, <2>2, <3>2 DEF Apart
    <3>3. CASE d # c /\ e = c BY <1>6, <1>7, <2>2, <3>3 DEF Apart
    <3>4. CASE d # c /\ e # c BY <1>7, <2>2, <3>4 DEF Once
    <3> QED BY <3>1, <3>2, <3>3, <3>4
  <2> QED BY <1>5, <2>1, <2>2 DEF Once
<1>11. Apart'
  <2>1. \A j \in DOMAIN data', k \in DOMAIN results' : data'[j] # results'[k]
    BY <1>5, <1>6 DEF Apart
  <2>2. ASSUME NEW d \in Consumers, NEW j \in Unfinished(d)'
        PROVE  /\ \A k \in DOMAIN data' : batch'[d][j] # data'[k]
               /\ \A k \in DOMAIN results' : batch'[d][j] # results'[k]
    <3>1. CASE d = c BY <1>5, <1>6, <1>7, <3>1 DEF Apart, Once
    <3>2. CASE d # c BY <1>5, <1>6, <1>7, <3>2 DEF Apart
    <3> QED BY <3>1, <3>2
  <2> QED BY <2>1, <2>2 DEF Apart
<1> QED BY <1>8, <1>9, <1>10, <1>11

(* A worker turns the next task of its batch into a result.                *)
LEMMA RunConserves ==
  ASSUME PoolInd, NEW c \in Consumers, RunTask(c)
  PROVE  Conserved'
<1> DEFINE n == done[c] + 1
           t == batch[c][n]
<1>1. /\ results \in Seq(Tasks) /\ done \in [Consumers -> Nat]
      /\ batch \in [Consumers -> Seq(Tasks)] /\ at[c] = "run"
      /\ n \in DOMAIN batch[c] /\ DOMAIN batch[c] \subseteq Nat
      /\ results' = Append(results, t) /\ done' = [done EXCEPT ![c] = n]
      /\ UNCHANGED <<at, data, accepted, batch>>
  BY DEF PoolInd, PoolTypeOK, Inductive, TypeOK, RunTask, PushResult, NoQueueStep, vars
<1>2. /\ DOMAIN results = 1..Len(results) /\ Len(results) \in Nat
      /\ DOMAIN results' = 1..(Len(results) + 1)
      /\ results'[Len(results) + 1] = t /\ \A k \in DOMAIN results : results'[k] = results[k]
  BY <1>1
<1>3. /\ n \in Unfinished(c) /\ Unfinished(c)' = Unfinished(c) \ {n}
      /\ \A d \in Consumers \ {c} : Unfinished(d)' = Unfinished(d)
  BY <1>1 DEF Unfinished
<1>4. data' = data /\ accepted' = accepted /\ batch' = batch /\ n \in Nat
  BY <1>1
<1>9. t = batch[c][n] OBVIOUS
<1> HIDE DEF n, t
<1> USE DEF PoolInd, Conserved
<1>5. Held' BY <1>4, <1>9, <1>2, <1>3 DEF Held
<1>6. All'
  <2> SUFFICES ASSUME NEW u \in accepted
               PROVE  \/ \E k \in DOMAIN data' : data'[k] = u
                      \/ \E k \in DOMAIN results' : results'[k] = u
                      \/ \E d \in Consumers : \E k \in Unfinished(d)' : batch'[d][k] = u
    BY <1>4, <1>9 DEF All
  <2>1. CASE u = t BY <1>2, <2>1
  <2>2. CASE u # t BY <1>4, <1>9, <1>2, <1>3, <2>2 DEF All
  <2> QED BY <2>1, <2>2
<1>7. \A d \in Consumers : \A j \in Unfinished(d)' : j \in Unfinished(d) /\ ~(d = c /\ j = n)
  BY <1>3
<1>8. \A k \in DOMAIN results' : \/ k \in DOMAIN results /\ results'[k] = results[k]
                                 \/ k = Len(results) + 1 /\ results'[k] = t
  BY <1>2
<1>10. Once'
  <2>1. ASSUME NEW j \in DOMAIN results', NEW k \in DOMAIN results', results'[j] = results'[k]
        PROVE  j = k
    BY <1>3, <1>8, <1>9, <2>1 DEF Once, Apart
  <2>2. ASSUME NEW d \in Consumers, NEW e \in Consumers,
               NEW j \in Unfinished(d)', NEW k \in Unfinished(e)', batch'[d][j] = batch'[e][k]
        PROVE  d = e /\ j = k
    BY <1>4, <1>7, <2>2 DEF Once
  <2> QED BY <1>4, <2>1, <2>2 DEF Once
<1>11. Apart'
  <2>1. \A j \in DOMAIN data', k \in DOMAIN results' : data'[j] # results'[k]
    BY <1>3, <1>4, <1>8, <1>9 DEF Apart
  <2>2. ASSUME NEW d \in Consumers, NEW j \in Unfinished(d)'
        PROVE  /\ \A k \in DOMAIN data' : batch'[d][j] # data'[k]
               /\ \A k \in DOMAIN results' : batch'[d][j] # results'[k]
    <3>1. batch'[d][j] # t BY <1>3, <1>4, <1>7, <1>9 DEF Once
    <3> QED BY <1>4, <1>7, <1>8, <3>1 DEF Apart
  <2> QED BY <2>1, <2>2 DEF Apart
<1> QED BY <1>5, <1>6, <1>10, <1>11

LEMMA PoolIndStep == PoolInd /\ [PoolNext]_allvars => PoolInd'
<1> SUFFICES ASSUME PoolInd, [PoolNext]_allvars PROVE Conserved'
  BY PoolTypeStep DEF PoolInd
<1> USE DEF PoolInd, NoQueueStep, vars, pool
<1>1. ASSUME UNCHANGED <<data, results, accepted, batch, at, done>> PROVE Conserved'
  BY <1>1, Undisturbed DEF Unfinished
<1>2. ASSUME NEW c \in Consumers, NEW label,
             at[c] # "run", label # "run",
             UNCHANGED <<data, results, accepted, done>>,
             at' = [at EXCEPT ![c] = label],
             \A d \in Consumers \ {c} : batch'[d] = batch[d]
      PROVE  Conserved'
  <2>1. at \in [Consumers -> {"none", "loop", "pop", "run", "exited"}]
    BY DEF PoolTypeOK
  <2>2. Unfinished(c) = {} /\ Unfinished(c)' = {}
    BY <1>2, <2>1 DEF Unfinished
  <2>3. \A d \in Consumers \ {c} : Unfinished(d)' = Unfinished(d)
    BY <1>2, <2>1 DEF Unfinished
  <2> QED BY <1>2, <2>2, <2>3, Undisturbed
<1>3. CASE \/ Built \/ QueueShutdown \/ QueueNotifyAll \/ Joined \/ StopPool \/ PodFails
           \/ UNCHANGED allvars
  BY <1>1, <1>3 DEF Built, QueueShutdown, QueueNotifyAll, Joined, StopPool, PodFails,
                    Shutdown, NotifyAll, allvars
<1>4. ASSUME NEW p \in Producers, SubmitNotifies(p) PROVE Conserved'
  BY <1>1, <1>4 DEF SubmitNotifies, NotifyOne
<1>5. ASSUME NEW c \in Consumers, WorkerSleeps(c) \/ WorkerWakes(c) PROVE Conserved'
  BY <1>1, <1>5 DEF WorkerSleeps, WorkerWakes, Sleep, SpuriousWakeup
<1>6. ASSUME NEW c \in Consumers,
             StartWorker(c) \/ WorkerCalls(c) \/ WorkerExits(c) \/ WorkerGetsNothing(c)
      PROVE  Conserved'
  <2>1. batch \in [Consumers -> Seq(Tasks)]
    BY DEF Inductive, TypeOK
  <2> QED
    BY <1>2, <1>6, <2>1 DEF StartWorker, WorkerCalls, WorkerExits, WorkerGetsNothing, Move,
                     CallPopBatch, ReturnNothing
<1>7. ASSUME NEW c \in Consumers, BatchDone(c) PROVE Conserved'
  <2>1. /\ at \in [Consumers -> {"none", "loop", "pop", "run", "exited"}]
        /\ DOMAIN batch[c] = 1..Len(batch[c]) /\ Len(batch[c]) \in Nat
    BY DEF PoolTypeOK, Inductive, TypeOK
  <2>2. /\ at[c] = "run" /\ done[c] = Len(batch[c]) /\ at' = [at EXCEPT ![c] = "loop"]
        /\ UNCHANGED <<data, results, accepted, batch, done>>
    BY <1>7 DEF BatchDone, Move
  <2>3. \A d \in Consumers : Unfinished(d)' = Unfinished(d)
    BY <2>1, <2>2 DEF Unfinished
  <2> QED BY <2>2, <2>3, Undisturbed
<1> QED
  BY <1>3, <1>4, <1>5, <1>6, <1>7, SubmitConserves, PopConserves, RunConserves
     DEF PoolNext, MainStep, WorkerStep

(* Held, All, Once and Apart put every accepted task in one place.         *)
LEMMA OnePlace == PoolInd => NothingLost
<1> SUFFICES ASSUME PoolInd, NEW t \in accepted PROVE \E x : Places(t) = {x}
  BY FS_Singleton DEF NothingLost
<1>1. \A x : x \in Places(t) <=>
        \/ \E k \in DOMAIN data : data[k] = t /\ x = <<"queue", k>>
        \/ \E k \in DOMAIN results : results[k] = t /\ x = <<"result", k>>
        \/ \E c \in Consumers : \E k \in Unfinished(c) : batch[c][k] = t /\ x = <<"batch", c, k>>
  BY DEF Places, Unfinished
<1> USE DEF PoolInd, Conserved
<1>2. ASSUME NEW k \in DOMAIN data, data[k] = t PROVE Places(t) = {<<"queue", k>>}
  BY <1>1, <1>2 DEF Once, Apart
<1>3. ASSUME NEW k \in DOMAIN results, results[k] = t PROVE Places(t) = {<<"result", k>>}
  BY <1>1, <1>3 DEF Once, Apart
<1>4. ASSUME NEW c \in Consumers, NEW k \in Unfinished(c), batch[c][k] = t
      PROVE  Places(t) = {<<"batch", c, k>>}
  BY <1>1, <1>4 DEF Once, Apart
<1> QED BY <1>2, <1>3, <1>4 DEF All

(* A task that was accepted is always in exactly one place: the queue, the *)
(* unfinished part of one worker's batch, or the results - at any moment   *)
(* of a pop, of a batch and of a stop.                                     *)
THEOREM NoTaskLost == PoolSpec => []PoolInv
<1>1. PoolInd => PoolInv
  BY OnePlace DEF PoolInd, PoolInv
<1> QED BY <1>1, PoolIndInit, PoolIndStep, PTL DEF PoolSpec
=============================================================================

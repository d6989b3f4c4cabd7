------------------------------ MODULE ThreadPool ------------------------------
(***************************************************************************)
(* src/ThreadPool.cpp over the naive task queue and NaiveResultQueue: the  *)
(* pool is built worker by worker, the workers drain the task queue in     *)
(* batches, and the main thread, which is also the server thread and the   *)
(* only producer, stops and joins them (src/main.cpp: the server is        *)
(* destroyed before the pool).                                             *)
(*                                                                         *)
(* The consumers of NaiveTaskQueue are the workers; its pop_batch actions  *)
(* are conjoined with where the worker is in worker_loop.  Inference is a  *)
(* single step that turns a task into its result.                          *)
(***************************************************************************)
EXTENDS NaiveTaskQueue

CONSTANTS PodMayFail   \* may building a worker's engine throw?

ASSUME PoolAssumption == /\ PodMayFail \in BOOLEAN
                         /\ IsFiniteSet(Consumers) /\ Consumers # {}

VARIABLES main,        \* what the main thread does
          pool_stop,   \* ThreadPool::stop
          at,          \* where each worker is in worker_loop
          done,        \* tasks of its batch that a worker has finished
          results      \* history: what was pushed to the response queue

pool == <<main, pool_stop, at, done, results>>
allvars == <<vars, pool>>

PoolInit ==
  /\ Init
  /\ main = "building"
  /\ pool_stop = FALSE
  /\ at = [c \in Consumers |-> "none"]
  /\ done = [c \in Consumers |-> 0]
  /\ results = << >>

Move(c, label) == at' = [at EXCEPT ![c] = label]
NoQueueStep == UNCHANGED vars

(* NaiveResultQueue::push: one critical section.                           *)
PushResult(r) == results' = Append(results, r)

(* Plausible mistakes.  RunTask: stop is tested between the tasks of a     *)
(* batch; QueueShutdown: forgotten.                                        *)
AbandonsBatch(c) ==
  /\ at[c] = "run" /\ done[c] < Len(batch[c])
  /\ IF pool_stop
     THEN Move(c, "loop") /\ done' = [done EXCEPT ![c] = Len(batch[c])] /\ UNCHANGED results
     ELSE /\ results' = Append(results, batch[c][done[c] + 1])
          /\ done' = [done EXCEPT ![c] = @ + 1] /\ UNCHANGED at
  /\ UNCHANGED <<main, pool_stop>> /\ NoQueueStep

LeavesQueueOpen ==
  /\ main = "stopping" /\ main' = "joining"
  /\ UNCHANGED <<pool_stop, at, done, results>> /\ NoQueueStep
----------------------------------------------------------------------------
(* The main thread                                                         *)

(* One turn of the constructor's loop: a pod, then its thread.             *)
StartWorker(c) ==
  /\ main = "building" /\ at[c] = "none"
  /\ Move(c, "loop")
  /\ UNCHANGED <<main, pool_stop, done, results>> /\ NoQueueStep

(* The engine of a pod throws.  The exception leaves the constructor: main *)
(* catches it, unless a thread already runs, whose std::thread is then     *)
(* destroyed while joinable, which terminates the process.                 *)
PodFails ==
  /\ PodMayFail /\ main = "building" /\ \E c \in Consumers : at[c] = "none"
  /\ main' = IF \E c \in Consumers : at[c] # "none" THEN "terminated" ELSE "failed"
  /\ UNCHANGED <<pool_stop, at, done, results>> /\ NoQueueStep

Built ==
  /\ main = "building" /\ \A c \in Consumers : at[c] # "none"
  /\ main' = "serving"
  /\ UNCHANGED <<pool_stop, at, done, results>> /\ NoQueueStep

Submit(p, t) ==
  /\ main = "serving" /\ Push(p, t)
  /\ UNCHANGED pool

SubmitNotifies(p) == NotifyOne(p) /\ UNCHANGED pool

(* ThreadPool::shutdown sets stop, shuts the queue down, and joins.        *)
StopPool ==
  /\ main = "serving" /\ \A p \in Producers : pc[p] = "idle"
  /\ main' = "stopping" /\ pool_stop' = TRUE
  /\ UNCHANGED <<at, done, results>> /\ NoQueueStep

QueueShutdown ==
  /\ main = "stopping" /\ Shutdown
  /\ main' = "notifying"
  /\ UNCHANGED <<pool_stop, at, done, results>>

QueueNotifyAll ==
  /\ main = "notifying" /\ NotifyAll
  /\ main' = "joining"
  /\ UNCHANGED <<pool_stop, at, done, results>>

Joined ==
  /\ main = "joining" /\ \A c \in Consumers : at[c] = "exited"
  /\ main' = "joined"
  /\ UNCHANGED <<pool_stop, at, done, results>> /\ NoQueueStep

----------------------------------------------------------------------------
(* worker_loop                                                             *)

WorkerCalls(c) ==
  /\ at[c] = "loop" /\ ~pool_stop
  /\ CallPopBatch(c) /\ Move(c, "pop")
  /\ UNCHANGED <<main, pool_stop, done, results>>

WorkerExits(c) ==
  /\ at[c] = "loop" /\ pool_stop
  /\ Move(c, "exited")
  /\ UNCHANGED <<main, pool_stop, done, results>> /\ NoQueueStep

WorkerSleeps(c) == at[c] = "pop" /\ Sleep(c) /\ UNCHANGED pool

WorkerWakes(c) == at[c] = "pop" /\ SpuriousWakeup(c) /\ UNCHANGED pool

WorkerPops(c) ==
  /\ at[c] = "pop" /\ Take(c)
  /\ Move(c, "run") /\ done' = [done EXCEPT ![c] = 0]
  /\ UNCHANGED <<main, pool_stop, results>>

(* count == 0: continue.                                                   *)
WorkerGetsNothing(c) ==
  /\ at[c] = "pop" /\ ReturnNothing(c)
  /\ Move(c, "loop")
  /\ UNCHANGED <<main, pool_stop, done, results>>

(* One task of the batch: run the engine, push the result.  The stop flag  *)
(* is not looked at before the batch is finished.                          *)
RunTask(c) ==
  /\ at[c] = "run" /\ done[c] < Len(batch[c])
  /\ PushResult(batch[c][done[c] + 1])
  /\ done' = [done EXCEPT ![c] = @ + 1]
  /\ UNCHANGED <<main, pool_stop, at>> /\ NoQueueStep

BatchDone(c) ==
  /\ at[c] = "run" /\ done[c] = Len(batch[c])
  /\ Move(c, "loop")
  /\ UNCHANGED <<main, pool_stop, done, results>> /\ NoQueueStep

WorkerStep(c) == \/ WorkerCalls(c) \/ WorkerExits(c) \/ WorkerSleeps(c)
                 \/ WorkerPops(c) \/ WorkerGetsNothing(c)
                 \/ RunTask(c) \/ BatchDone(c)

Alive == main \notin {"failed", "terminated"}

MainStep == \/ \E c \in Consumers : StartWorker(c)
            \/ Built \/ \E p \in Producers : SubmitNotifies(p)
            \/ QueueShutdown \/ QueueNotifyAll \/ Joined

PoolNext ==
  /\ Alive
  /\ \/ MainStep \/ StopPool \/ PodFails
     \/ \E p \in Producers, t \in Tasks : Submit(p, t)
     \/ \E c \in Consumers : WorkerStep(c) \/ WorkerWakes(c)

PoolSpec == PoolInit /\ [][PoolNext]_allvars

(* Every thread that can run does; nothing forces a spurious wake-up or    *)
(* the end of serving.                                                     *)
PoolFairness == /\ WF_allvars(Alive /\ MainStep)
                /\ \A c \in Consumers : WF_allvars(Alive /\ WorkerStep(c))

FairPoolSpec == PoolSpec /\ PoolFairness

----------------------------------------------------------------------------
(* Properties                                                              *)

(* Every variable of the pool has its type, a worker is inside pop_batch   *)
(* exactly when the queue thinks so, and it never runs past its batch.     *)
PoolTypeOK ==
  /\ TypeOK
  /\ main \in {"building", "serving", "stopping", "notifying", "joining", "joined",
               "failed", "terminated"}
  /\ pool_stop \in BOOLEAN
  /\ at \in [Consumers -> {"none", "loop", "pop", "run", "exited"}]
  /\ done \in [Consumers -> Nat]
  /\ results \in Seq(Tasks)
  /\ \A c \in Consumers : /\ at[c] = "pop" <=> pc[c] # "idle"
                          /\ at[c] = "run" => done[c] <= Len(batch[c])

(* A task that was accepted is in exactly one place: still queued, in the  *)
(* unfinished part of one worker's batch, or answered once.  In particular *)
(* a batch that is in progress when the pool stops is finished, and only   *)
(* tasks that no worker took are left behind.                              *)
Places(t) == {<<"queue", k>> : k \in {k \in DOMAIN data : data[k] = t}}
        \cup {<<"result", k>> : k \in {k \in DOMAIN results : results[k] = t}}
        \cup UNION {{<<"batch", c, k>> : k \in {k \in DOMAIN batch[c] :
                        at[c] = "run" /\ k > done[c] /\ batch[c][k] = t}} : c \in Consumers}

NothingLost == \A t \in accepted : Cardinality(Places(t)) = 1

(* Types, what the queue knows of its consumers, and no task lost: at any  *)
(* moment of a batch, and of a stop, pool and queue agree.                 *)
PoolInv == PoolTypeOK /\ Inductive /\ NothingLost

(* The pool's destructor returns: once stop is set every worker leaves its *)
(* loop, asleep or in the middle of a batch, and join succeeds.            *)
StopJoins == main = "stopping" ~> main = "joined"

(* While the pool serves, every accepted task is answered.                 *)
TaskAnswered ==
  \A t \in Tasks : t \in accepted ~> (t \in Range(results) \/ pool_stop)
=============================================================================

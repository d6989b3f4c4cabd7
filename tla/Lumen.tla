-------------------------------- MODULE Lumen --------------------------------
(***************************************************************************)
(* The whole program, src/main.cpp: the configuration decides which queue, *)
(* how many workers, which batches and which processors; main builds the   *)
(* pool and the server, serves until SIGINT or an exception, and takes     *)
(* them down in the order of their destructors.                            *)
(*                                                                         *)
(* The parts appear by what they promise: the server by RequestResponse    *)
(* (which TCPServer implements), the queue by TaskQueue (which the three   *)
(* queues implement), each narrowed to the class that main chose.  Main is *)
(* also the server's thread; a step of it is one such promise.             *)
(***************************************************************************)
EXTENDS ConfigManager, Sequences, SequencesExt

CONSTANTS Conns,        \* the connections clients make
          ShortConns,   \* those whose payload is too short for the model
          MaxRequests,  \* bound: requests of each connection
          Workers,      \* worker threads, 1..n: as many as may be asked for
          Capacity,     \* cells of the bounded queues
          Loadable,     \* model paths that name a model
          PodsThatFit,  \* worker pods that memory allows
          PodLimit,     \* the most pods that a vector can be reserved for
          BatchLimit,   \* the most tasks that a batch can be reserved for
          Throwing      \* telemetry paths of which exists or file_size throws

ASSUME LumenAssumption ==
  /\ ShortConns \subseteq Conns /\ MaxRequests \in [Conns -> Nat]
  /\ Workers \subseteq Nat \ {0} /\ 1 \in Workers /\ IsFiniteSet(Workers)
  /\ Capacity \in Nat \ {0} /\ PodsThatFit \in Nat
  /\ PodLimit \in Nat /\ PodLimit < SizeMax /\ BatchLimit \in Nat /\ BatchLimit < SizeMax

VARIABLES
  main,       \* where the main thread is
  failed,     \* main is leaving its try block by an exception
  cause,      \* history: why the process was terminated
  running,    \* g_running
  stop,       \* ThreadPool::stop
  queue_stop, \* the queue was shut down
  at,         \* where each worker is in worker_loop
  batch,      \* what is left of each worker's batch
  tasks,      \* the task queue
  results,    \* the response queue
  telemetry,  \* the drain thread
  next_id,    \* trace_id_gen
  handed_ids, \* history: trace ids in the order telemetry captured them
  stage, handed, answered   \* the server's sessions, as in RequestResponse

started == <<json, m, step, queue, workers>>
server == <<stage, handed, answered>>
pool == <<stop, queue_stop, at, batch, tasks, results>>
traces == <<telemetry, next_id, handed_ids>>
allvars == <<started, main, failed, cause, running, pool, traces, server>>

(* The lanes of the pool, where a request is on its way from the server    *)
(* and back: the task queue, each worker's batch, the response queue.      *)
TaskLane == 0
ResultLane == -1
Lanes == Workers \cup {TaskLane, ResultLane}
lane == [l \in Lanes |-> IF l = TaskLane THEN tasks
                         ELSE IF l = ResultLane THEN results ELSE batch[l]]
Held(L) == UNION {Range(L[l]) : l \in Lanes}
Pending == {t.of : t \in Held(lane)}

Requests == INSTANCE RequestResponse WITH pending <- Pending
Queue == INSTANCE TaskQueue WITH
  Consumers <- Workers, Tasks <- [of : Conns \X Nat, id : Nat],
  BatchMax <- SizeMax, queue <- tasks, batch <- batch

LumenInit ==
  /\ Init /\ Queue!Init
  /\ main = "load" /\ failed = FALSE /\ cause = "none" /\ running = TRUE
  /\ stop = FALSE /\ queue_stop = FALSE
  /\ at = [w \in Workers |-> "none"] /\ results = << >>
  /\ Requests!RRInit
  /\ telemetry = "none" /\ next_id = 0 /\ handed_ids = << >>

Alive == main \notin {"aborted", "exit0", "exit1"}
Abort(why) == main' = "aborted" /\ cause' = why
Fail(next) == main' = next /\ failed' = TRUE

----------------------------------------------------------------------------
(* main: start                                                             *)

Load ==
  /\ main = "load"
  /\ \/ Open \/ ThreadCount \/ BatchSize \/ QueueTypeKey \/ AllocatorType
     \/ TelemetryPath \/ ModelPath \/ Processor \/ Metadata
  /\ UNCHANGED <<main, failed, cause, running, pool, traces, server>>

(* The queue, then the processors (a label_path that is not a string       *)
(* throws), then the pool, whose vector of pods has to be reserved.  An    *)
(* exception here unwinds nothing that runs.                               *)
Construct ==
  /\ main = "load" /\ Start
  /\ IF \/ m.proc_type = "IMAGENET" /\ m.label = "bad_label"
        \/ workers' > PodLimit
     THEN Fail("exit1")
     ELSE main' = "build" /\ UNCHANGED failed
  /\ UNCHANGED <<cause, running, pool, traces, server>>

Started == {w \in Workers : at[w] # "none"}
NextPod == Cardinality(Started) + 1
PodBuilds == m.model_path \in Loadable /\ NextPod <= PodsThatFit

(* One turn of the pool's constructor.                                     *)
StartWorker(w) ==
  /\ main = "build" /\ w = NextPod /\ w <= workers /\ PodBuilds
  /\ at' = [at EXCEPT ![w] = "loop"]
  /\ UNCHANGED <<started, main, failed, cause, running, stop, queue_stop, batch, tasks, results,
                 traces, server>>

(* A plausible mistake: the thread is started before its pod is built.     *)
StartsThreadFirst ==
  /\ main = "build" /\ NextPod <= workers /\ ~PodBuilds
  /\ Abort("pod")
  /\ UNCHANGED <<started, failed, running, pool, traces, server>>

(* A pod's engine or arena throws.  The vector of threads is destroyed: a  *)
(* thread that runs is joinable, which terminates the process.             *)
PodFails ==
  /\ main = "build" /\ NextPod <= workers /\ ~PodBuilds
  /\ IF Started = {} THEN Fail("exit1") /\ UNCHANGED cause
     ELSE Abort("pod") /\ UNCHANGED failed
  /\ UNCHANGED <<started, running, pool, traces, server>>

(* The server's constructor binds and listens, or throws.                  *)
ServerUp ==
  /\ main = "build" /\ NextPod > workers
  /\ main' = "serve"
  /\ UNCHANGED <<started, failed, cause, running, pool, traces, server>>

ServerFails ==
  /\ main = "build" /\ NextPod > workers
  /\ Fail("stop")
  /\ UNCHANGED <<started, cause, running, pool, traces, server>>

----------------------------------------------------------------------------
(* main: serve                                                             *)

Serving == main = "serve" /\ running
Elsewhere == UNCHANGED <<started, main, failed, cause, running>>

(* push() of the chosen queue: the naive one never refuses; the ring of    *)
(* the single-producer queue keeps one cell free; the other bounded one is *)
(* full, or meets the cell of a whole lap before, which a worker that is   *)
(* still in its call of pop has claimed and need not have released yet.    *)
AcceptedIds == Range(handed_ids) \cup {t.id : t \in Held(lane)}
Unreleased(w) ==
  /\ at[w] = "pop" /\ batch[w] # << >>
  /\ Cardinality({i \in AcceptedIds : i >= Last(batch[w]).id}) = Capacity
MayAccept == \/ queue = "NaiveTaskQueue"
             \/ queue = "SPSCTaskQueue" /\ Len(tasks) < Capacity - 1
             \/ queue = "MPMCTaskQueue" /\ Len(tasks) < Capacity
MayRefuse == \/ queue = "SPSCTaskQueue" /\ ~MayAccept
             \/ queue = "MPMCTaskQueue" /\ (~MayAccept \/ \E w \in Workers : Unreleased(w))

Admit(c) ==
  /\ Serving /\ Elsewhere /\ UNCHANGED <<pool, traces>>
  /\ Requests!Admit(c)

Accepted(c) ==
  /\ Serving /\ handed[c] < MaxRequests[c] /\ MayAccept
  /\ Queue!Push([of |-> Requests!Current(c), id |-> next_id])
  /\ UNCHANGED <<stop, queue_stop, at, results>>
  /\ Requests!Submit(c, TRUE)
  /\ next_id' = next_id + 1
  /\ Elsewhere /\ UNCHANGED <<telemetry, handed_ids>>

Refused(c) ==
  /\ Serving /\ handed[c] < MaxRequests[c] /\ MayRefuse
  /\ UNCHANGED pool
  /\ Requests!Submit(c, FALSE)
  /\ next_id' = next_id + 1
  /\ Elsewhere /\ UNCHANGED <<telemetry, handed_ids>>

(* A plausible mistake: the newest result is answered first.               *)
RepliesLatest(c) ==
  /\ Serving /\ results # << >> /\ Last(results).of[1] = c
  /\ results' = Front(results)
  /\ UNCHANGED <<stop, queue_stop, at, batch, tasks>>
  /\ Requests!Reply(c)
  /\ telemetry' = IF telemetry = "none" THEN "running" ELSE telemetry
  /\ handed_ids' = Append(handed_ids, Last(results).id)
  /\ Elsewhere /\ UNCHANGED next_id

(* The oldest result goes to its session, its trace to telemetry, whose    *)
(* first use starts the drain thread (what that may meet: ReporterThrows). *)
Reply(c) ==
  /\ Serving /\ results # << >> /\ Head(results).of[1] = c
  /\ results' = Tail(results)
  /\ UNCHANGED <<stop, queue_stop, at, batch, tasks>>
  /\ Requests!Reply(c)
  /\ telemetry' = IF telemetry = "none" THEN "running" ELSE telemetry
  /\ handed_ids' = Append(handed_ids, Head(results).id)
  /\ Elsewhere /\ UNCHANGED next_id

Answer(c) ==
  /\ Serving /\ Elsewhere /\ UNCHANGED <<pool, traces>>
  /\ Requests!Answer(c)

Close(c) ==
  /\ Serving /\ Elsewhere /\ UNCHANGED <<pool, traces>>
  /\ Requests!Close(c)

(* A client that left while its response was being sent: SIGPIPE.          *)
Killed(c) ==
  /\ Serving /\ stage[c] = "replying" /\ Abort("sigpipe")
  /\ UNCHANGED <<started, failed, running, pool, traces, server>>

(* The drain thread saves a captured trace to a path of which exists or    *)
(* file_size throws: nothing catches it.                                   *)
ReporterThrows ==
  /\ Alive /\ telemetry = "running" /\ handed_ids # << >>
  /\ m.telemetry_path \in Throwing
  /\ Abort("telemetry")
  /\ UNCHANGED <<started, failed, running, pool, traces, server>>

SignalHandler ==
  /\ Alive /\ running /\ running' = FALSE
  /\ UNCHANGED <<started, main, failed, cause, pool, traces, server>>

----------------------------------------------------------------------------
(* main: the way out                                                       *)

(* run() returns, or throws bad_alloc at a request: the server is the last *)
(* that was built and the first to be destroyed.                           *)
ServerDown ==
  /\ main = "serve" /\ UNCHANGED <<started, cause, running, pool, traces>>
  /\ \/ ~running /\ main' = "stop" /\ UNCHANGED failed
     \/ running /\ (\E c \in Conns : stage[c] = "reading") /\ Fail("stop")
  /\ Requests!Stop /\ \A c \in Conns : stage[c] = "new" => stage'[c] = "new"

(* ~ThreadPool                                                             *)
StopPool ==
  /\ main = "stop" /\ main' = "shutdown" /\ stop' = TRUE
  /\ UNCHANGED <<started, failed, cause, running, queue_stop, at, batch, tasks, results,
                 traces, server>>

(* A plausible mistake: the queue is not told.                             *)
ForgetsQueue ==
  /\ main = "shutdown" /\ main' = "join"
  /\ UNCHANGED <<started, failed, cause, running, pool, traces, server>>

QueueShutdown ==
  /\ main = "shutdown" /\ main' = "join" /\ queue_stop' = TRUE
  /\ UNCHANGED <<started, failed, cause, running, stop, at, batch, tasks, results,
                 traces, server>>

(* A plausible mistake: the threads are detached, not joined.              *)
Detaches ==
  /\ main = "join" /\ main' = "telemetry"
  /\ UNCHANGED <<started, failed, cause, running, pool, traces, server>>

Join ==
  /\ main = "join" /\ \A w \in Started : at[w] = "exited"
  /\ main' = "telemetry"
  /\ UNCHANGED <<started, failed, cause, running, pool, traces, server>>

(* get().shutdown() before `return 0'; after an exception the destructor   *)
(* of the static TelemetryManager does the same, if there is one.          *)
Finish ==
  /\ main = "telemetry"
  /\ telemetry' = IF failed /\ telemetry = "none" THEN "none" ELSE "joined"
  /\ main' = IF failed THEN "exit1" ELSE "exit0"
  /\ UNCHANGED <<started, failed, cause, running, pool, next_id, handed_ids, server>>

----------------------------------------------------------------------------
(* The workers                                                             *)

Outside == UNCHANGED <<started, failed, running, stop, queue_stop, traces, server>>
MainGoesOn == Outside /\ UNCHANGED <<main, cause>>

(* A plausible mistake: a worker leaves when there is nothing to do.       *)
ExitsWhenIdle(w) ==
  /\ at[w] = "loop"
  /\ at' = [at EXCEPT ![w] = IF stop \/ tasks = << >> THEN "exited" ELSE "pop"]
  /\ MainGoesOn /\ UNCHANGED <<batch, tasks, results>>

(* `while (!stop)', batch_buffer.clear() and pop_batch.  The first thing a *)
(* worker does is to reserve its batch, which may throw on its thread.     *)
Loop(w) ==
  /\ at[w] = "loop"
  /\ IF m.batch_size > BatchLimit
     THEN Abort("reserve") /\ UNCHANGED at
     ELSE /\ at' = [at EXCEPT ![w] = IF stop THEN "exited" ELSE "pop"]
          /\ UNCHANGED <<main, cause>>
  /\ Outside /\ UNCHANGED <<batch, tasks, results>>

Lesser(j, k) == IF j < k THEN j ELSE k

(* A plausible mistake: a task is copied from the queue and stays there.   *)
PopCopies(w) ==
  /\ at[w] = "pop" /\ tasks # << >> /\ Len(batch[w]) < m.batch_size
  /\ batch' = [batch EXCEPT ![w] = Append(@, Head(tasks))]
  /\ at' = [at EXCEPT ![w] = "run"]
  /\ MainGoesOn /\ UNCHANGED <<tasks, results>>

(* The naive queue gives what there is, up to the batch size, at once; the *)
(* others give one task after another.                                     *)
Pop(w) ==
  /\ at[w] = "pop" /\ tasks # << >> /\ Len(batch[w]) < m.batch_size
  /\ IF queue = "NaiveTaskQueue"
     THEN /\ Queue!PopBatch(w, Lesser(Len(tasks), m.batch_size))
          /\ at' = [at EXCEPT ![w] = "run"]
     ELSE Queue!PopBatch(w, 1) /\ UNCHANGED at
  /\ MainGoesOn /\ UNCHANGED results

(* pop_batch returns: nothing, and the naive queue only when there is a    *)
(* task (for a batch size of 0) or it was shut down; or what it has got.   *)
PopReturns(w) ==
  /\ at[w] = "pop"
  /\ \/ Len(batch[w]) = m.batch_size
     \/ tasks = << >>
  /\ queue = "NaiveTaskQueue" => tasks # << >> \/ queue_stop
  /\ at' = [at EXCEPT ![w] = IF batch[w] = << >> THEN "loop" ELSE "run"]
  /\ MainGoesOn /\ UNCHANGED <<batch, tasks, results>>

Task(w) == Head(batch[w])
IsShort(t) == t.of[1] \in ShortConns

(* engine->run on the next task and the push of its result.  A payload     *)
(* that is too short is answered before a processor is needed.             *)
Run(w) ==
  /\ at[w] = "run" /\ batch[w] # << >>
  /\ IsShort(Task(w)) \/ m.proc_type = "IMAGENET"
  /\ results' = Append(results, Task(w))
  /\ batch' = [batch EXCEPT ![w] = Tail(@)]
  /\ MainGoesOn /\ UNCHANGED <<at, tasks>>

(* The other processor types leave pre and post null.                      *)
NullProcessor(w) ==
  /\ at[w] = "run" /\ batch[w] # << >>
  /\ ~IsShort(Task(w)) /\ m.proc_type # "IMAGENET"
  /\ Abort("processor")
  /\ Outside /\ UNCHANGED <<at, batch, tasks, results>>

(* ONNX Runtime may throw, which nothing on a worker thread catches.       *)
EngineThrows(w) ==
  /\ Alive /\ at[w] = "run" /\ batch[w] # << >>
  /\ ~IsShort(Task(w)) /\ m.proc_type = "IMAGENET"
  /\ Abort("engine")
  /\ Outside /\ UNCHANGED <<at, batch, tasks, results>>

BatchDone(w) ==
  /\ at[w] = "run" /\ batch[w] = << >>
  /\ at' = [at EXCEPT ![w] = "loop"]
  /\ MainGoesOn /\ UNCHANGED <<batch, tasks, results>>

WorkerStep(w) ==
  /\ Alive
  /\ Loop(w) \/ Pop(w) \/ PopReturns(w) \/ Run(w) \/ NullProcessor(w) \/ BatchDone(w)

MainStep == \/ Load \/ Construct \/ PodFails \/ ServerUp \/ ServerDown
            \/ StopPool \/ QueueShutdown \/ Join \/ Finish
            \/ \E w \in Workers : StartWorker(w)

Turn(c) == Admit(c) \/ Accepted(c) \/ Refused(c) \/ Reply(c) \/ Answer(c) \/ Close(c)

LumenNext ==
  \/ MainStep \/ ServerFails \/ SignalHandler \/ ReporterThrows
  \/ \E c \in Conns : Turn(c) \/ Killed(c)
  \/ \E w \in Workers : WorkerStep(w) \/ EngineThrows(w)

LumenSpec == LumenInit /\ [][LumenNext]_allvars

(* Every thread that can run does.  Main goes on whatever clients do: they *)
(* cannot keep the server from seeing a result, or from stopping.          *)
LumenFairness ==
  /\ WF_allvars(MainStep /\ ~Serving)
  /\ \A c \in Conns : WF_allvars(Reply(c))
  /\ \A w \in Workers : WF_allvars(WorkerStep(w))

FairLumenSpec == LumenSpec /\ LumenFairness

----------------------------------------------------------------------------
(* Properties                                                              *)

Mains == {"load", "build", "serve", "stop", "shutdown", "join", "telemetry",
          "exit0", "exit1", "aborted"}
TaskType == [of : Conns \X Nat, id : Nat]

(* Every variable has its type, and a batch never exceeds the batch size.  *)
LumenTypeOK ==
  /\ main \in Mains /\ failed \in BOOLEAN /\ running \in BOOLEAN
  /\ cause \in {"none", "pod", "reserve", "processor", "engine", "sigpipe", "telemetry"}
  /\ stop \in BOOLEAN /\ queue_stop \in BOOLEAN
  /\ at \in [Workers -> {"none", "loop", "pop", "run", "exited"}]
  /\ batch \in [Workers -> Seq(TaskType)]
  /\ \A w \in Workers : Len(batch[w]) <= m.batch_size
  /\ tasks \in Seq(TaskType) /\ results \in Seq(TaskType)
  /\ telemetry \in {"none", "running", "joined"}
  /\ next_id \in Nat /\ handed_ids \in Seq(Nat)
  /\ stage \in [Conns -> {"new", "reading", "waiting", "replying", "closed"}]
  /\ handed \in [Conns -> Nat] /\ answered \in [Conns -> Nat]
  /\ \A c \in Conns : handed[c] <= MaxRequests[c] /\ answered[c] <= handed[c]

(* No request, and no trace id, is in two places of the pool.              *)
Apart(L) ==
  \A i, l \in Lanes : \A j \in DOMAIN L[i], k \in DOMAIN L[l] :
    <<i, j>> # <<l, k>> => L[i][j].of # L[l][k].of /\ L[i][j].id # L[l][k].id

(* From its submission to its answer a request is in exactly one place,    *)
(* through every worker, through stop and unwinding; and with the queue    *)
(* that never refuses, every connection that waits has its request there.  *)
Accounted ==
  /\ Apart(lane)
  /\ \A t \in Held(lane) : t.of[2] = handed[t.of[1]] + 1 /\ t.id \notin Range(handed_ids)
  /\ queue = "NaiveTaskQueue" =>
       \A c \in Conns : stage[c] = "waiting" => Requests!Current(c) \in Pending

(* Until main serves, nothing is in the pool and no client has been        *)
(* admitted; a worker that runs is one of those asked for, and had its pod.*)
StartInOrder ==
  /\ main = "load" <=> step # "started"
  /\ main = "load" => \A w \in Workers : at[w] = "none"
  /\ main \in {"load", "build"} => /\ Held(lane) = {} /\ handed_ids = << >>
                                   /\ telemetry = "none"
                                   /\ \A c \in Conns : stage[c] = "new"
  /\ \A w \in Workers : at[w] # "none" =>
       w <= workers /\ m.model_path \in Loadable /\ 1 <= PodsThatFit

(* A worker holds tasks only between pop_batch and the end of its batch.   *)
BatchesInHand ==
  \A w \in Workers :
    /\ at[w] \in {"none", "loop", "exited"} => batch[w] = << >>
    /\ at[w] = "pop" /\ queue = "NaiveTaskQueue" => batch[w] = << >>

(* Trace ids are given out once, and while the server runs, the connection *)
(* of every request in the pool waits for it.                              *)
InFlight ==
  /\ \A t \in Held(lane) :
       /\ t.id < next_id
       /\ stage[t.of[1]] # "new"
       /\ main = "serve" => stage[t.of[1]] = "waiting"
  /\ \A k \in DOMAIN handed_ids : handed_ids[k] < next_id
  /\ \A c \in Conns :
       /\ stage[c] = "waiting" => handed[c] < MaxRequests[c]
       /\ stage[c] = "replying" => answered[c] < handed[c]

(* Types, batches within the batch size, every request accounted for, and  *)
(* what this rests on in each phase of the program.                        *)
SystemInv == /\ ConfigInv /\ LumenTypeOK /\ Accounted
             /\ StartInOrder /\ BatchesInHand /\ InFlight

(* No thread outlives what it uses: when main is past the pool, every      *)
(* worker has left its loop; when main has returned, the drain thread has  *)
(* been joined, and it exists whenever a trace was captured.               *)
NoOrphans ==
  /\ main \in {"telemetry", "exit0", "exit1"} =>
       \A w \in Workers : at[w] \in {"none", "exited"}
  /\ main \in {"exit0", "exit1"} => telemetry # "running"
  /\ main = "exit0" => telemetry = "joined"
  /\ handed_ids # << >> => telemetry # "none"

(* Trace ids in the order of the pool, the oldest first.                   *)
Ids(s) == [k \in DOMAIN s |-> s[k].id]
Order == handed_ids \o Ids(results) \o Ids(batch[1]) \o Ids(tasks)
Increasing(s) == \A j, k \in DOMAIN s : j < k => s[j] < s[k]

(* With one worker, whatever the queue and the batch size, requests are    *)
(* answered in the order in which the server submitted them.               *)
SingleWorkerInOrder == workers = 1 => Increasing(Order)

(* A start that cannot give the pool its first worker: labels that are not *)
(* a string, more workers than a vector can hold, no model, no memory.     *)
Unservable == \/ m.proc_type = "IMAGENET" /\ m.label = "bad_label"
              \/ workers > PodLimit
              \/ m.model_path \notin Loadable \/ PodsThatFit = 0

(* Such a start never serves: main's handler ends it in `return 1' with no *)
(* thread running, whenever SIGINT comes.  No end is abrupt before a       *)
(* worker runs.  And `return 0' means that SIGINT, and nothing else, ended *)
(* the service.                                                            *)
FailsCleanly ==
  /\ step = "started" /\ Unservable =>
       main \in {"build", "exit1"} /\ Started = {} /\ telemetry = "none"
  /\ main = "aborted" => Started # {}
  /\ main = "exit0" => ~running /\ ~failed

(* SIGINT, at any moment from the start on, and an exception of the server *)
(* end the program: no join waits for ever.                                *)
Terminates == ~running \/ failed ~> ~Alive

(* A request that the queue accepted is answered, unless the program stops *)
(* or the batch size is 0.                                                 *)
Served ==
  \A c \in Conns : \A k \in 1..MaxRequests[c] :
    <<c, k>> \in Pending
      ~> (handed[c] >= k \/ main # "serve" \/ ~running \/ m.batch_size = 0)
=============================================================================

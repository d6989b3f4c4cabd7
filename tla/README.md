# Lumen engine: TLA+ specification

Lumen is an inference server: one thread accepts connections and reads requests
with `poll`, a pool of worker threads runs a neural network over them, and the
server thread sends the answers back. This directory holds TLA+ modules
translated from that code, TLC configurations that check them on small
instances, and TLAPS proofs that lift the most important results to every
instance. `PROJECT.json` maps each definition to the lines it models.

- [The system](#the-system)
- [Modules and how they correspond to the code](#modules-and-how-they-correspond-to-the-code)
- [Runs and what they show](#runs-and-what-they-show)
- [Bounds](#bounds)
- [Fairness](#fairness)
- [Proofs](#proofs)
- [Where code and text disagree](#where-code-and-text-disagree)
- [What is not modelled](#what-is-not-modelled)
- [Plan](#plan)

## The system

| Component | State | Operations | Hard behaviour | What makes it correct |
|---|---|---|---|---|
| `ITaskQueue` | accepted tasks, a batch per consumer | push, pop, pop_batch, size, empty, shutdown | – | first in first out, each task to one consumer |
| `MPMCTaskQueue` | ring of cells with sequence numbers, head, tail, stop flag | the same, lock-free | interleaved accesses, stale tickets, weak compare-exchange, a full ring | no data race, no overrun, ticket order, the contract, loops end |
| `SPSCTaskQueue` | ring, head, tail, stop flag | the same, two threads | stale copies of the other side's counter | no data race, oldest first, the contract |
| `NaiveTaskQueue` | `std::queue`, mutex, condition variable, stop | the same, blocking | missed and spurious wake-ups, shutdown against sleep | no missed wake-up, the contract |
| `NaiveResultQueue` | `std::queue`, mutex | push, pop_immediate (pop and shutdown unused) | – | with pool and server |
| `ThreadPool` | stop flag, threads, a pod (engine and allocator) each | construct, worker_loop, shutdown | stop in the middle of a batch, a pod that fails to build | nothing lost or repeated, join returns |
| `TCPServer` | poll vector, session map, descriptors | accept, header, body, finalize, responses, send, close | partial reads and writes, pipelining, hang-ups, descriptor reuse, a vector changed while scanned, SIGPIPE, bodies too large | framing, own answers, every request answered, descriptors come back |
| `InferenceEngine` | session, model shape, metadata in the arena, a task's tensors and trace | construct, run | payloads and models of every shape, two allocators, two ways out of run | tensors inside their buffers and planar, results whole, the arena used in order |
| image processors | labels | transform, handle_results | index arithmetic, blank label lines | the planar image, the label of the class |
| `StandardOrtAllocator` | byte counter | Alloc, Free | – | with the engine |
| `LumenArena` | slab, offset, warm-up mark | alloc, reset | the slab's end, what a reset keeps | live blocks apart, no null pointer if it fits |
| `TelemetryManager` | buffer, running flag, reporter thread, CSV file | capture_trace, reporting_loop, shutdown | hand-over between threads, an unlocked flag | each trace once and in order, shutdown returns |
| `ConfigManager` | the settings | load_from_file, save_template | loading broken off halfway, negative numbers | the pieces fit together |
| `main` | signal flag, everything above | start, serve, take down | SIGINT and exceptions at any moment, order of destruction | nothing lost or doubled, no thread left behind, it ends, and cleanly |

Interaction: the server thread is the only producer of the task queue and the
only consumer of the result queue; the workers are the opposite. `main` builds
configuration, queues, pool and server in this order, loops in `TCPServer::run`
until SIGINT, and destroys the server before the pool. `capture_trace` is called
by the server thread, and telemetry is shut down last. The configuration is
written once, before any other thread exists.

## Modules and how they correspond to the code

**`TaskQueue`** is the abstract contract of `ITaskQueue`: a sequence and one
batch per consumer. A refused push or an empty pop is a stuttering step.

**`MPMCTaskQueue`** splits each call at its accesses to shared memory. `pc[th]`
is a thread's next access (`p_tail`, `p_seq`, `p_cas`, `p_write`, `p_publish`
and the same for consumers), `pos[th]` its ticket `t` or `h`, `item[th]` the
task in its hands. A weak compare-exchange may fail at any time and reloads the
ticket. `log` is a history variable: the accepted tasks in ticket order. Memory
is sequentially consistent: the accesses whose order matters are the
acquire/release pairs on `sequence`, and a delayed relaxed load of `head` or
`tail` looks like a thread that pauses after its load. Tickets are natural
numbers, because a `size_t` ticket would need 2^64 pushes to wrap.

**`SPSCTaskQueue`** is written the same way for one producer and one consumer.
Its `size` keeps the word width (`Word`).

**`NaiveTaskQueue`** has one action per critical section; the notification after
the unlock is a separate action, and `cv.wait` is the pair of states `check` and
`wait` with spurious wake-ups.

**`ThreadPool`** EXTENDS `NaiveTaskQueue`: its workers are the queue's consumers
and each queue action is conjoined with where the worker is in `worker_loop`.
The main thread builds the pool pod by pod, submits, stops, shuts the queue
down and joins.

**`FuzzConcurrency`** EXTENDS `MPMCTaskQueue` with the repository's own fuzz test:
producers that push each task until it is accepted, consumers that pop until
every task is counted, and the main thread that joins them and looks at the
checksums. Each step of a call is a step of the queue's module.

**`RequestResponse`** is the abstract specification of the server: a connection
is new, reading, waiting, replying or closed; it has one request with the pool
at a time and is never closed while it waits.

**`TCPServer`** is the loop of `TCPServer::run`: `handle_responses`, then poll,
then the scan, one action per turn of each loop. Around it act clients, kernel
and pool. Bytes are counted; what a read returns follows from its position in
the client's stream (`Consumed`, `HeaderAt`, `BodyAt`), so that a wrong
remainder makes the server read a body as a header. A request's content is the
pair of its connection and its number, which its result repeats, so that an answer
that goes to the wrong client, twice or out of order is visible. The new entry's
uninitialised `revents` is a nondeterministic choice. Descriptors are given out again
after `close`. `INFERENCE_PENDING` sessions ask poll for nothing, so a client that
hangs up in this state is noticed only when its answer is sent; poll may report
the reset of its connection (`hup`) over and over until then. A body that is too
large to allocate leaves `run` (`Throw`), and a write on a connection that the client
has reset may end the process (`SigPipe`), the first write included. The module
implements `RequestResponse` under the mapping at its end.

**`Lumen`** is the whole program. It EXTENDS `ConfigManager`, and takes the server
by what it promises (`RequestResponse`, which `TCPServer` is checked to
implement) and the queue by what it promises (`TaskQueue`, which the three
queues are checked and proved to implement), narrowed to the class that `main`
chose: which pushes it may refuse, and whether `pop_batch` sleeps, spins, takes
tasks one by one or all at once. (An MPMC ring refuses when it is full, or when its
next cell was claimed a lap before by a worker that may still be inside `pop`:
`Unreleased`.) `PodLimit` and `BatchLimit` are the largest numbers that the pool's
vectors and a worker's batch can be reserved for, `PodsThatFit` the pods that memory
has room for, `Throwing` the telemetry paths that make the reporter throw. `main` is a
location from `load` to `exit0`, `exit1` or `aborted`; `cause` remembers what ended the
process abruptly, for the reader of a trace. The places of the pool where a request can be (queue, results, each worker's batch) are its
lanes, and `Pending`, what the lanes hold, is the pending set of the request cycle.

**`LumenArena`** has `alloc_raw` (padding, rounding, limit), `reset` with the
warm-up mark, and the engine as its caller: metadata when it is built, then
input, output and scratch memory per request, `reset` after each. `blocks`,
`meta`, `used` are history: who holds which bytes. The base address is a multiple
of the alignment (`aligned_alloc(64, ...)`), so only the offset is modelled.

**`InferenceEngine`** EXTENDS `LumenArena` and conjoins what `run` does at each of the
arena's steps: the payload guard, the pre-processor, the session, the
post-processor, the scope guards and timers. The pod has either allocator;
for the standard one, `heap` holds the live blocks. The session is external and
writes any scores.

**`ImageNetProcessor`** holds the pure operators: the index arithmetic of
`transform`, with a definition of the planar image from the other side to check it
against, the labels of a file, the class of scores, the answer. Floating point is left
out: a normalised value is the pair of its channel and its pixel.

**`Telemetry`** has the server thread (capture, notify, shutdown, join) and the
reporter thread (test, sleep, wake or time out, swap, write, summary). The mutex
is held from the predicate to the sleep; clearing `m_running` needs no mutex. The CSV
path is empty, cannot be opened, makes `exists` or `file_size` throw (a special file,
a directory that may not be searched), or is a file with any earlier contents
(`Contents`). An exception there is on the reporter thread, which catches nothing: the
process is terminated (`SaveThrows`, in the whole program `ReporterThrows`).

**`ConfigManager`** has one action per member that `load_from_file` reads, so
that an exception can fall between any two. A number of the file becomes a `size_t`
(`SizeT`: a negative one is huge). `Template` is the file that `save_template` writes;
`FilesAssumption` says what a file can be: each member absent, of a wrong type, or a value.

`RingLemmas` and the `*_proofs` modules hold lemmas, theorems and proofs
(`ThreadPool_proofs` those of `NaiveTaskQueue` too, `Lumen_proofs` those of
`ConfigManager` too, `InferenceEngine_proofs` those of the arena and the processors); the
`MC*` modules define symmetry, models, files and request counts for TLC.

Each module also contains, next to the definition it distorts, a "plausible
mistake" for every property: with it in place of the original, TLC finds the
property violated. They are not used by any specification.

## Runs and what they show

| Run | Checks | What it shows |
|---|---|---|
| `mpmc_safety` | `Inductive ExclusiveCells TakesItsTicket CallsJustified ImplementsContract` | two producers, two consumers and a caller of `size`, two laps: no data race, no overrun, `size` in range, ticket order; a push is refused and a pop empty only for the two reasons named; refinement of `TaskQueue`; the invariant of the proofs |
| `fuzz` | `TestSucceeds` | the fuzz test over the queue's steps: every task is counted exactly once and the test ends: every retry loop ends, inside the queue and around it |
| `spsc` | `ExclusiveCells TakesOldest ImplementsContract AcceptedDelivered` | the same for one producer and one consumer with stale counters; an accepted task reaches the worker unless the queue is shut down |
| `pool` | `PoolInv NoMissedWakeup ImplementsContract StopJoins TaskAnswered` | three workers over the naive queue: no wake-up is missed, the queue refines `TaskQueue`, each accepted task is queued, in one unfinished batch, or answered once whenever the pool is stopped (`NothingLost`, in `PoolInv`); the destructor returns; until then tasks are answered |
| `server_clients` | `ServerInv OwnResponses ImplementsRequests` | three clients on two descriptors come and go during scans: poll vector, session map and descriptors agree (`PollMatchesSessions`, in `ServerInv`); no descriptor is reused while a result for it is due (`InFlightOwned`); own answers, once; refinement of `RequestResponse` |
| `server_sessions` | `Framing Answered EmptyBodyClosed DescriptorsReclaimed` | two clients on one descriptor, two pipelined requests in pieces: framing kept, each request answered by a queue that accepts everything, an empty body ends its session, and a departed client's descriptor comes back in whatever state its session was |
| `server_refused` | `Answered` | **violated** with a queue that may refuse |
| `engine` | `BlocksApart NoNullWhenFits TensorPlanar TransformInside ResultWhole LabelOfLine ArenaDiscipline` | live blocks never overlap or leave the slab, also when it runs out; an allocation fails only if metadata and *two* requests do not fit; the tensor is the planar image, whole exactly for models of one three-channel image; `transform` leaves its buffers only for models with fewer planes or a dynamic width or height; results are whole on both ways out; labels; the engine uses the arena in the order that its module (and its proofs) assume |
| `telemetry` | `Inductive WellFormedCsv TraceReported ShutdownReturns` | traces once and in order; the file's earlier contents stay, an empty file gets one header and no other file any; the time limit of the wait makes up for a missed notification; an exception of the file system ends the process |
| `telemetry_drain` | `Drained` | **violated** |
| `system` | `SystemInv NoOrphans SingleWorkerInOrder FailsCleanly SpscSingleWorker Terminates Served` | from the reading of any kind of file to the end of the program, over all three queues: each request is in one place (`Accounted`, in `SystemInv`); the ring for one consumer has one worker; one worker answers in order; nothing runs on after `main`; a start that cannot have a worker ends in `return 1` with nothing running, and `return 0` follows only SIGINT; SIGINT and exceptions always end the program; what the queue accepted is answered unless the batch size is 0 |
| `config_fallback` | `FallsBack` | **violated** |

Why `InFlightOwned` is worth checking: a result names only a descriptor, and
`handle_responses` sends it to whatever session has that descriptor. It is safe
because a session that waits for the pool asks poll for no events, so nothing
closes it; the mistake `StaysInBody` shows that one forgotten assignment
suffices to break it.

## Bounds

- Rings: `Capacity` 2 and 3 instead of 1024. Four or five tasks lap such a ring, so
  that a thread can be a full lap behind. The proofs remove the bound.
- Threads: two on each side are enough for every pair of conflicting accesses;
  the pool has three workers, so that a notification can wake the wrong one of
  several, and one producer, as the program does.
- Each task is pushed once (it identifies itself); a worker calls pop_batch
  without limit.
- `fuzz`: two threads on each side and four tasks in a ring of two cells, so that
  pushes are refused and retried and both ends are contended.
- `server_clients`: three connections and two descriptors: an append and a swap in
  the same scan, and a descriptor that is given out again; one request each, of
  one byte per part.
- `server_sessions`: one descriptor, so that `accept` fails until it is closed; a
  client that pipelines two requests with headers, bodies and responses of up
  to two bytes, so that each may be split, empty bodies, and bodies that may be
  too large; a second client that waits for the descriptor. Liveness is therefore
  checked for one session at a time; the interplay of sessions is checked for safety.
- `engine`: alignment 4 instead of 64, block sizes below, at and above it; three
  requests (the first sets the mark, the others live with it). The slab holds
  two requests only when the metadata is small, so that allocations fail in
  some behaviours and must not fail in others. Models of one, three and six planes,
  with a dynamic batch dimension and with a dynamic width; payloads below, at and
  above each; label files with a blank line at the end and before a label.
- `system`: two clients (one of them with two requests, one with payloads that are
  too short), up to two workers, a ring of two cells, batch sizes 0, 1, 2, 7 and
  negative, of which 7 is positive and cannot be reserved, files that break off at
  each key, a telemetry path that throws, room for two pods.
- Telemetry: four traces, each kind of path, and a file that is empty, has its header
  and a row, or has rows and no header.
- Config: `Counts` 0, 1, 2 and 4 are the values the code tells apart, 7 one that is too
  large to reserve; `SizeMax` stands for a negative number converted.

Deadlock checking is off where the system may really stop: after a shutdown, a
crash, or the last request of the bound.

## Fairness

- Queues: a thread that has begun a call continues (the operating system schedules
  every runnable thread) and the test's loops go on. A weak
  compare-exchange is assumed to succeed in the end if it can succeed again and
  again (strong fairness on the successful exchange), which is what the hardware
  gives. Nothing is assumed of spurious wake-ups or of new pushes. The consumer of the
  SPSC queue asks again and again only until the queue is shut down:
  `ThreadPool::shutdown` sets the flag that ends the worker's loop just before.
- Pool: the main thread and each worker run; nobody is forced to stop serving.
- Server: the server thread runs, the pool finishes what it accepted (the run
  `pool` shows it), bytes on the way arrive, and a client that reads makes room for
  `send` again and again (strong fairness per connection).
- System: the main thread goes on whenever it is not serving, each result that
  waits is seen by the server (its loop polls with a time limit), and each worker
  runs. Nothing is assumed of clients, signals or exceptions; an engine
  that throws is possible at every task, a reporter that throws at every captured
  trace if its path is such a one, and neither is forced.
- Telemetry: both threads run and the timed wait ends.

## Proofs

Each theorem holds for arbitrary constants under the assumptions its module
names: rings of at least two cells, disjoint sets of threads, positive header and
response lengths, a configuration file of the kinds `Files` describes, worker
numbers that start at 1. Numbers of clients, descriptors, requests, tasks and
threads, batch sizes and lengths are otherwise free. TLC evaluates the
assumptions in the runs, and checks every property below on a small instance.

Queues.

- `RingLemmas`: arithmetic of `k % Capacity` (two tickets less than a lap apart
  share no cell), equality of sequences, and induction and recursion up to a bound
  (`InductionUpTo`, `RecursionUpTo`), by the least counterexample, from the library's
  well-foundedness of `<` on the naturals. With them the recursive functions of the
  models (`EndOf`, `Count`, `Labels`) can be reasoned about without the library's
  induction theorems, whose operator parameter the provers cannot instantiate.
- `MPMCTaskQueue_proofs`: `TypeCorrect`, `WindowInvariant`, `NoDataRace`,
  `TicketsInOrder`, `ReturnsJustified`, `Refinement`. The properties are not
  inductive: that two owners have different cells needs that their tickets lie in
  one window of `Capacity` tickets, which needs the sequence numbers.
  `Inductive` therefore states the stage of each ticket from `head` to
  `head + Capacity - 1`: filled or being filled below `tail`, free or still being
  drained from `tail` on; that no sequence number falls behind a used ticket
  (`Past`, for threads with stale tickets); and what each thread knows between two
  accesses. One lemma per action shows that it is preserved.
- `SPSCTaskQueue_proofs`: `InductiveInvariant`, `NoDataRace`, `OldestFirst`,
  `Refinement`. The invariant says that the ring holds the last accepted tasks
  and that room (or a task) once seen stays there, because only the thread
  that saw it can use it up.

Pool (`ThreadPool_proofs`, for `NaiveTaskQueue` and `ThreadPool`).

- Of the queue alone: `InductiveInvariant`, `WakeupsReachConsumers`,
  `Refinement`. `NoMissedWakeup` is inductive with the types; the refinement
  needs that a consumer that still looks has an empty batch.
- `PoolUsesQueue`: the pool implements the queue's own specification, so that
  the three results above hold inside the pool (`PoolQueueContract`).
- `NoTaskLost` (`PoolInv`). `NothingLost` counts occurrences, which no prover here
  handles well; `Conserved` says the same by positions. Each position of the
  queue, of the results and of the unfinished part of a batch holds an accepted
  task, each accepted task has such a position, and no two positions hold the
  same one. A lemma per kind of step preserves it, and the last lemma leads back
  to the count.

Server (`TCPServer_proofs`).

- `ServerInvariant` (`ServerInv`), `StreamsFramed` (`Framing`), `OwnAnswers`
  (`OwnResponses`) follow from one inductive invariant, `Ind`: types; poll vector,
  session map and descriptors agree; a stray event is harmless (`StrayHarmless`:
  the write event of an entry that is still to be scanned finds a session
  that sends or has nothing to send); a task or result in flight belongs to a
  session that waits for it (`FlightOK`); each session is at the place of its
  cycle and of its client's stream that its state says (`Cycle`, `Framed`); what
  a client got is its first answers (`CountsOK`). None of the three properties is
  inductive alone: a descriptor can be trusted only because sessions in flight are
  not closed, which needs the poll vector, which needs the scan index.
- Framing is about sums: the k-th request ends at byte `EndOf(sizes, k)`, a
  recursive function over the client's requests. `InductionUpTo`
  gives that the function exists, its equation, that it increases, and that a
  new request leaves the ends of the earlier ones alone.
- `ServerImplementsRequests`: the refinement of `RequestResponse`. `StageFact`
  gives the stage of a connection from its link and its session, and each step of
  the server is matched with the step of the abstract cycle or shown to
  leave stages and pending requests as they are.

Telemetry (`Telemetry_proofs`).

- `TracesInOrder`: reported, swapped and waiting traces, one after the other,
  are always 1..captured.
- `FileWellFormed` (`WellFormedCsv`): for arbitrary earlier contents, the file is these
  contents followed by the reported rows, with one header between them exactly if
  there were no contents; other kinds of path leave it as it was. `RowsGrow` is the step:
  what one row adds to a file of this form.

Arena and engine (`InferenceEngine_proofs`, for `LumenArena`, `ImageNetProcessor` and
`InferenceEngine`).

- Of the arena alone: `ArenaInvariant`, `LiveBlocksApart`, `TwoRequestsSuffice`. The
  invariant places metadata below the floor (the mark, or the end of the metadata
  before the first reset) and the request between floor and offset, and bounds the
  mark by one request.
- `EngineUsesArena` (`ArenaDiscipline`): every step of the engine that touches the
  arena is a step of `LumenArena!Next`, so the invariant holds inside the engine
  (`EngineMemory`). A pod with the standard allocator leaves its arena alone, which
  is a separate case of the induction.
- `BuffersRespected` (`TransformInside`) and `ImagesPlanar` (`TensorPlanar`), for every
  width and height. `Count` is a recursive function, so its equation and the product
  `Planes * Height * Width` come first (`CountOf`, `InputShape`). Offsets are sums of
  products of variables, out of the solver's reach as they stand: `PixelInPlane`
  bounds `y * w + x`, `OffsetsInside` the two offsets of a visit, and `TakenApart`
  reads channel and pixel back off an offset, which makes the visit of an offset
  unique and its value the one `Planar` names. The invariant (`TensorMade`) is that the
  tensor is the transform of this payload until the session is done.
- `ResultsWhole` (`ResultWhole`) and `LabelsRight` (`LabelOfLine`). `ResultWhole` needs what holds
  between requests and during one (`Clean`), and that an idle arena is unused.
  `LabelOfLine` needs, for every label file, that labels are the first lines if no
  blank line comes before one (`LabelsAreFirst`, by induction over the lines), and for
  every output, that a first largest score exists (`BestExists`).
- `ModelAssumption`: a model has four input dimensions, each positive or -1 (dynamic);
  scores are integers, which stand for totally ordered floats (no NaN).

The whole program (`Lumen_proofs`, for `ConfigManager` and `Lumen`).

- `ConfigSound`: wherever the loading of a file breaks off, every setting is of its
  type, and the queue for one consumer has one worker. `OneConsumer` is the same
  for the program.
- `RequestsAccounted` (`SystemInv`). The queue, the results and each worker's batch
  are *lanes*; a step of the pool moves tasks from the front of one lane to the end
  of another, or appends a new one, or drops the front (`Moved`, `Pushed`,
  `Taken`). Three lemmas say what such a step does to the tasks held and to their
  being apart, so that each action has only to say which move it is. `Accounted`
  needs the phases of the program (`StartInOrder`: nothing is in the pool before
  `main` serves), what a worker holds where (`BatchesInHand`), and that the
  connection of a task in flight waits and its trace id was given out (`InFlight`).
- `ThreadsJoined` (`NoOrphans`), with what it needs to know of where `main` and the
  workers are.
- `CleanStartOrReturnOne` (`FailsCleanly`). The strengthening (`CleanInv`): a mistake that
  `main` itself meets ends at once; whenever `main` is past the pool's constructor, or
  telemetry exists, some worker was started, and a started worker had a model and
  memory (`StartInOrder`); the way out is taken after SIGINT or an exception only. The
  theorem does not say which abrupt ends there are: the ones the model
  contains are listed in the next section.
- `OneWorkerInOrder` (`SingleWorkerInOrder`): the line of trace ids through
  answers, results, batch and queue stays increasing. Steps of the pool cut the line
  elsewhere and leave it as it is; a submission appends to it. The strengthening
  (`OrderKept`) is that all its ids are below the next one.

What ties the proofs together: the three queues implement `TaskQueue` and the
server implements `RequestResponse`; `Lumen` uses both only by these contracts.

Only model-checked:

- All liveness properties: `TestSucceeds`, `AcceptedDelivered`, `StopJoins`,
  `TaskAnswered`, `Answered`, `EmptyBodyClosed`, `DescriptorsReclaimed`,
  `TraceReported`, `ShutdownReturns`, `Terminates`, `Served`. The prover handles
  neither fairness nor ENABLED.

Every invariant and every refinement or action property of the passing runs is proved.

## Where code and text disagree

Three runs are expected to fail; each states what a message, a test or a
condition of the repository says, and TLC shows a behaviour of the code that
contradicts it. The quotations are in `PROJECT.json` under `findings`.

1. `server_refused`: the result of `push` is ignored; a refused request is never
   answered and its connection stays open.
2. `telemetry_drain`: traces captured while the reporter is away from its wait, writing
   or on its way back to the top of its loop, are left behind
   by a shutdown, although the loop has a test meant to drain the buffer.
3. `config_fallback`: a file that breaks off halfway is kept halfway, although
   the message says "Falling back to defaults."

The models also contain these behaviours, without a run of their own:

- A new entry's uninitialised `revents` (`TCPServer::handle_new_connection`), swapped
  into the scan by a close, can make `process_header` read before anything
  has arrived and close a healthy connection (`Accept` with a stray event, then
  `HeaderFails`).
- A consumer delayed between its claim and its release makes an MPMC queue that
  is not full refuse a task: the second case of `RefusalJustified`, a part of `CallsJustified`.
- `pop_batch` of the naive queue returns as soon as one task is there; the README's
  "waiting to pack full chunks" does not happen (`Take`).
- A pod that fails to build after others started terminates the process
  (`PodFails`), because running `std::thread`s are destroyed; a `batch_size` that is
  negative or too large to reserve does so on the first worker thread (`Loop`), the
  processor types `raw` and `detection` at the first good payload (`NullProcessor`), and
  an exception of ONNX Runtime at any task (`EngineThrows`).
- A `telemetry_csv_path` of which `exists` or `file_size` throws terminates the process
  at the first trace that is saved (`SaveThrows`, `ReporterThrows`); the start gives no hint.
- A telemetry file that is not empty and has no header never gets one (`WellFormedCsv`).
- A batch size of 0 serves nothing (`Served` names it); the program still stops.
- A request that announces an empty body is never answered (`EmptyBodyClosed`).
- A body that is too large for memory ends the server for every client (`Throw`),
  and so may a client that leaves before or during its response (`SigPipe`).
- A model with fewer than three planes, or with a dynamic width or height, makes
  `transform` leave its buffers (`TransformInside`); with more than one image per
  batch part of the tensor is left over from earlier (`TensorPlanar`).
- `StandardOrtAllocator` adds to `current_allocated_bytes` and never subtracts
  (`allocated`).

- The first `reset` keeps the first request's memory for good; hence the *two*
  requests in `NoNullWhenFits`.
- `tests/bench_pure_latency.cpp:66` says a refused push leaves the task untouched;
  push takes it by value, so a refused task is gone (`PushRefused`), and the retry
  pushes a moved-from one. The fuzz test's retries push an empty payload likewise.
- The queue type `batched` is not looked for (`OtherQueue`): the batch size decides.

## What is not modelled

- Floating-point values (normalisation, softmax, statistics), clock readings, and
  formatting.
- What ONNX Runtime computes: scores are arbitrary and an exception is possible at
  every task.
- The configuration's setters, the result queue's blocking `pop` and `shutdown`:
  they have no caller.
- Single failures inside the server's constructor: `ServerFails` stands for all of them.
- The benchmark and the clients' measurements; the tests that are commented out
  of the build.

- Weaker memory orders than sequential consistency (see `MPMCTaskQueue` above).
- Scripts and dashboard.

## Plan

Done, in this order: the queue contract and its three implementations with
refinements and proofs, the server, the pool, telemetry, arena, configuration;
then the request cycle and the server's refinement of it, the composition of
the whole program, the engine with its processors and both allocators, and the
fuzz test; then the proofs of pool, server, telemetry file, configuration, the
whole program and the engine.

Next:

1. The fuzz test as a client of the queue: that each of its steps is a step of
   `MPMCTaskQueue` or leaves it alone, so that the queue's theorems hold inside the
   test, and the safety half of `TestSucceeds` (the checksums, whenever it ends).
2. The pieces of the liveness arguments that are invariants: who can run in each state
   in which the pool, the reporter or `main` has not come to rest.

------------------------------ MODULE TCPServer ------------------------------
(***************************************************************************)
(* src/TCPServer.cpp: the single server thread that accepts connections,   *)
(* reads requests, hands them to the task queue and sends the results.     *)
(*                                                                         *)
(* The thread runs  responses -> scan -> responses ...; each action is one *)
(* turn of one of its loops.  Around it are the kernel (connections, file  *)
(* descriptors, bytes), the clients and the worker pool, which act at any  *)
(* moment.  Bytes are counted, not stored: what the server reads is known  *)
(* from its position in the client's stream.  The content of a request is  *)
(* the pair <<connection, number>>, and the result that the pool makes of  *)
(* it carries the same pair.                                               *)
(***************************************************************************)
EXTENDS Integers, Sequences, SequencesExt

CONSTANTS Conns,          \* the connections clients make, each once
          Fds,            \* file descriptors the kernel may hand out
          Listener,       \* sockfd
          HeaderBytes,    \* 4 in the code
          Sizes,          \* body sizes a client may announce
          Huge,           \* those that may be too large to allocate
          ResponseBytes,  \* length of a response
          MaxRequests,    \* bound: requests of each connection
          Pipeline,       \* bound: requests a client sends ahead of its answers
          PushResults     \* what task_queue->push may return: {TRUE} for the
                          \* naive queue, {TRUE, FALSE} for the bounded ones

ASSUME ServerAssumption ==
  /\ HeaderBytes \in Nat \ {0} /\ ResponseBytes \in Nat \ {0}
  /\ MaxRequests \in [Conns -> Nat] /\ Pipeline \in Nat
  /\ Sizes \subseteq Nat /\ Huge \subseteq Sizes
  /\ PushResults \subseteq BOOLEAN
  /\ Listener \notin Fds

VARIABLES
  running,                   \* g_running
  pc,                        \* where the server thread is
  i, current_size,           \* the scan's index and limit
  pollfds,                   \* sequence of [fd, revents]
  sessions,                  \* fd -> ClientSession
  table,                     \* kernel: open fd -> connection
  link,                      \* kernel: state of each connection
  inbuf,                     \* kernel: bytes that arrived and are unread
  hungup,                    \* the client closed its end
  unsent,                    \* bytes of its requests that have not arrived
  sizes,                     \* body sizes of the requests a client has made
  got,                       \* the responses sent to the client completely
  traced,                    \* telemetry: traces captured, per connection
  tasks, results             \* accepted tasks; results waiting for the server

server == <<pc, i, current_size, pollfds, sessions, table, link>>
client == <<hungup, unsent, sizes>>
queues == <<tasks, results>>
vars == <<running, server, inbuf, client, got, traced, queues>>

NewSession == [state |-> "HEADER_PENDING", header |-> 0, expected |-> 0,
               received |-> 0, response |-> << >>, sent |-> 0]

Init ==
  /\ running = TRUE
  /\ pc = "responses" /\ i = 1 /\ current_size = 0
  /\ pollfds = << [fd |-> Listener, revents |-> "none"] >>
  /\ sessions = << >> /\ table = << >>
  /\ link = [c \in Conns |-> "unused"]
  /\ inbuf = [c \in Conns |-> 0]
  /\ hungup = [c \in Conns |-> FALSE]
  /\ unsent = [c \in Conns |-> 0]
  /\ sizes = [c \in Conns |-> << >>]
  /\ got = [c \in Conns |-> << >>] /\ traced = [c \in Conns |-> 0]
  /\ tasks = << >> /\ results = << >>

----------------------------------------------------------------------------
(* Clients, network and pool                                               *)

Connect(c) ==
  /\ link[c] = "unused"
  /\ link' = [link EXCEPT ![c] = "backlog"]
  /\ UNCHANGED <<running, pc, i, current_size, pollfds, sessions, table, inbuf,
                 client, got, traced, queues>>

(* A client sends its next request once the previous ones are answered; a  *)
(* client that pipelines sends up to Pipeline requests ahead.              *)
Request(c, s) ==
  /\ link[c] \in {"backlog", "open"} /\ ~hungup[c]
  /\ Len(sizes[c]) < MaxRequests[c] /\ Len(sizes[c]) - Len(got[c]) < Pipeline
  /\ sizes' = [sizes EXCEPT ![c] = Append(@, s)]
  /\ unsent' = [unsent EXCEPT ![c] = @ + HeaderBytes + s]
  /\ UNCHANGED <<running, server, inbuf, hungup, got, traced, queues>>

Deliver(c) ==
  /\ unsent[c] > 0 /\ ~hungup[c] /\ link[c] # "closed"
  /\ unsent' = [unsent EXCEPT ![c] = @ - 1]
  /\ inbuf' = [inbuf EXCEPT ![c] = @ + 1]
  /\ UNCHANGED <<running, server, hungup, sizes, got, traced, queues>>

(* The client goes away, perhaps in the middle of a request.               *)
Hangup(c) ==
  /\ link[c] \in {"backlog", "open"} /\ ~hungup[c]
  /\ hungup' = [hungup EXCEPT ![c] = TRUE]
  /\ UNCHANGED <<running, server, inbuf, unsent, sizes, got, traced, queues>>

(* Positions in a client's stream: where its first k requests end, how far *)
(* the server has read, and what it finds when it has read up to pos: the  *)
(* size that a header announces (0 where no header ends) and the request   *)
(* whose body ends there (0 where none does).                              *)
EndOf(s, k) ==
  LET end[j \in 0..k] == IF j = 0 THEN 0 ELSE end[j - 1] + HeaderBytes + s[j]
  IN  end[k]
BytesOf(c, k) == EndOf(sizes[c], k)
Consumed(c) == BytesOf(c, Len(sizes[c])) - unsent[c] - inbuf[c]
HeaderAt(c, pos) ==
  LET ks == {k \in DOMAIN sizes[c] : BytesOf(c, k - 1) + HeaderBytes = pos}
  IN  IF ks = {} THEN 0 ELSE sizes[c][CHOOSE k \in ks : TRUE]
BodyAt(c, pos) ==
  LET ks == {k \in DOMAIN sizes[c] : BytesOf(c, k) = pos}
  IN  <<c, IF ks = {} THEN 0 ELSE CHOOSE k \in ks : TRUE>>

(* Some worker finishes some task: with several workers, in any order.     *)
Infer(k) ==
  /\ pc # "killed"
  /\ tasks' = RemoveAt(tasks, k)
  /\ results' = Append(results, tasks[k])
  /\ UNCHANGED <<running, server, inbuf, client, got, traced>>

SignalHandler ==
  /\ running /\ pc # "killed" /\ running' = FALSE
  /\ UNCHANGED <<server, inbuf, client, got, traced, queues>>

----------------------------------------------------------------------------
(* The server thread                                                       *)

(* `while (g_running.load())`                                              *)
LoopTop == IF running THEN "responses" ELSE "done"

(* A plausible mistake in handle_responses: the response is stored and the *)
(* state left alone.                                                       *)
StoresOnly ==
  /\ pc = "responses" /\ results # << >>
  /\ LET r == Head(results) IN
       IF r.fd \in DOMAIN sessions
       THEN /\ sessions' = [sessions EXCEPT ![r.fd] = [@ EXCEPT !.response = r.data, !.sent = 0]]
            /\ traced' = [traced EXCEPT ![table[r.fd]] = @ + 1]
       ELSE UNCHANGED <<sessions, traced>>
  /\ results' = Tail(results)
  /\ UNCHANGED <<running, pc, i, current_size, pollfds, table, link, inbuf,
                 client, got, tasks>>

(* NaiveResultQueue::pop_immediate: the oldest result, if there is one.    *)
PopImmediate == results # << >> /\ results' = Tail(results)

(* One turn of handle_responses; capture_trace takes the result's trace.   *)
PopResponse ==
  /\ pc = "responses" /\ PopImmediate
  /\ LET r == Head(results) IN
       IF r.fd \in DOMAIN sessions
       THEN /\ sessions' = [sessions EXCEPT ![r.fd] =
                              [@ EXCEPT !.state = "RESPONSE_SENDING",
                                        !.response = r.data, !.sent = 0]]
            /\ traced' = [traced EXCEPT ![table[r.fd]] = @ + 1]
       ELSE UNCHANGED <<sessions, traced>>
  /\ UNCHANGED <<running, pc, i, current_size, pollfds, table, link, inbuf,
                 client, got, tasks>>

(* What poll reports for an entry, given the events asked for its session. *)
(* A session that waits for its result asks for nothing, but poll reports  *)
(* the reset of its connection (`hup') unasked.                            *)
Ready(fd, hup) ==
  IF fd = Listener THEN IF \E c \in Conns : link[c] = "backlog" THEN "in" ELSE "none"
  ELSE CASE sessions[fd].state = "RESPONSE_SENDING" -> "out"
         [] sessions[fd].state = "INFERENCE_PENDING" -> IF hungup[table[fd]] THEN hup ELSE "none"
         [] OTHER -> IF inbuf[table[fd]] > 0 \/ hungup[table[fd]] THEN "in" ELSE "none"

(* No more results: set the events, poll with a time limit, and scan the   *)
(* entries if poll reports any.                                            *)
Poll(hup) ==
  /\ pc = "responses" /\ results = << >>
  /\ pollfds' = [k \in DOMAIN pollfds |->
                   [pollfds[k] EXCEPT !.revents = Ready(pollfds[k].fd, hup)]]
  /\ IF \E k \in DOMAIN pollfds : pollfds'[k].revents # "none"
     THEN pc' = "scan" /\ i' = 1 /\ current_size' = Len(pollfds)
     ELSE pc' = LoopTop /\ UNCHANGED <<i, current_size>>
  /\ UNCHANGED <<running, sessions, table, link, inbuf, client, got, traced, queues>>

Entry == pollfds[i]
Conn == table[Entry.fd]
Session == sessions[Entry.fd]
Scanning(event) == pc = "scan" /\ i <= current_size /\ Entry.revents = event
NextEntry == i' = i + 1 /\ UNCHANGED <<pc, current_size>>
Throw == pc' = "threw" /\ UNCHANGED <<i, current_size>>

(* Neither POLLIN nor POLLOUT, so a bare POLLHUP is passed over too.       *)
SkipEntry ==
  /\ Scanning("none") \/ Scanning("hup")
  /\ NextEntry
  /\ UNCHANGED <<running, pollfds, sessions, table, link, inbuf, client, got, traced, queues>>

(* handle_new_connection.  The new entry's revents is not initialised: it  *)
(* may hold any events until the next poll.                                *)
Accept(c, fd, stray) ==
  /\ Scanning("in") /\ Entry.fd = Listener
  /\ link[c] = "backlog" /\ fd \notin DOMAIN table
  /\ link' = [link EXCEPT ![c] = "open"]
  /\ table' = [f \in DOMAIN table \cup {fd} |-> IF f = fd THEN c ELSE table[f]]
  /\ pollfds' = Append(pollfds, [fd |-> fd, revents |-> stray])
  /\ sessions' = [f \in DOMAIN sessions \cup {fd} |->
                    IF f = fd THEN NewSession ELSE sessions[f]]
  /\ NextEntry
  /\ UNCHANGED <<running, inbuf, client, got, traced, queues>>

(* accept() fails when every descriptor is in use.                         *)
AcceptFails ==
  /\ Scanning("in") /\ Entry.fd = Listener
  /\ Fds \subseteq DOMAIN table
  /\ NextEntry
  /\ UNCHANGED <<running, pollfds, sessions, table, link, inbuf, client, got, traced, queues>>

Update(session) == sessions' = [sessions EXCEPT ![Entry.fd] = session]

(* recv() of at most `wanted` bytes: what has arrived, 0 at end of file,   *)
(* Again when nothing has arrived.                                         *)
Again == -1
Recv(wanted) == IF inbuf[Conn] > 0
                THEN IF inbuf[Conn] < wanted THEN inbuf[Conn] ELSE wanted
                ELSE IF hungup[Conn] THEN 0 ELSE Again
Consume(r) == inbuf' = [inbuf EXCEPT ![Conn] = IF r > 0 THEN @ - r ELSE @]

Receiving(state) ==
  /\ Scanning("in") /\ Entry.fd # Listener
  /\ Session.state = state

(* Plausible mistakes in the receiving half: a header read that asks for a *)
(* whole header although part of it has arrived; a finalize_request that   *)
(* forgets to leave BODY_PENDING.                                          *)
ReadsWholeHeader ==
  /\ Receiving("HEADER_PENDING")
  /\ \E r \in {Recv(HeaderBytes)} \ {0, Again} :
       /\ Consume(r)
       /\ Update(IF Session.header + r >= HeaderBytes
                 THEN [Session EXCEPT !.header = HeaderBytes,
                                      !.state = "BODY_PENDING",
                                      !.expected = HeaderAt(Conn, Consumed(Conn) + r)]
                 ELSE [Session EXCEPT !.header = @ + r])
  /\ NextEntry
  /\ UNCHANGED <<running, pollfds, table, link, client, got, traced, queues>>

StaysInBody ==
  /\ Receiving("BODY_PENDING") /\ Session.expected > 0
  /\ \E r \in {Recv(Session.expected - Session.received)} \ {0, Again} :
       /\ Consume(r)
       /\ Update([Session EXCEPT !.received = @ + r])
       /\ tasks' = IF Session.received + r = Session.expected
                   THEN Append(tasks, [fd |-> Entry.fd,
                                       data |-> BodyAt(Conn, Consumed(Conn) + r)])
                   ELSE tasks
  /\ NextEntry
  /\ UNCHANGED <<running, pollfds, table, link, client, got, traced, results>>

(* process_header with bytes to read.  The body's buffer is allocated as   *)
(* soon as its size is known: a size too large leaves run() as bad_alloc.  *)
ProcessHeader ==
  /\ Receiving("HEADER_PENDING")
  /\ \E r \in {Recv(HeaderBytes - Session.header)} \ {0, Again} :
       LET announced == HeaderAt(Conn, Consumed(Conn) + r) IN
         /\ Consume(r)
         /\ IF Session.header + r = HeaderBytes
            THEN /\ Update([Session EXCEPT !.header = HeaderBytes,
                                           !.state = "BODY_PENDING",
                                           !.expected = announced])
                 /\ NextEntry \/ (announced \in Huge /\ Throw)
            ELSE /\ Update([Session EXCEPT !.header = @ + r])
                 /\ NextEntry
  /\ UNCHANGED <<running, pollfds, table, link, client, got, traced, queues>>

(* process_body, with finalize_request when the body is complete: the      *)
(* result of the push is ignored.                                          *)
ProcessBody ==
  /\ Receiving("BODY_PENDING") /\ Session.expected > 0
  /\ \E r \in {Recv(Session.expected - Session.received)} \ {0} :
       LET n == IF r = Again THEN Session.received ELSE Session.received + r IN
         /\ Consume(r)
         /\ IF n = Session.expected
            THEN /\ Update([Session EXCEPT !.received = n, !.state = "INFERENCE_PENDING"])
                 /\ \E pushed \in PushResults :
                      tasks' = IF pushed
                               THEN Append(tasks, [fd |-> Entry.fd,
                                                   data |-> BodyAt(Conn, Consumed(Conn) + r)])
                               ELSE tasks
            ELSE /\ Update([Session EXCEPT !.received = n])
                 /\ UNCHANGED tasks
  /\ NextEntry
  /\ UNCHANGED <<running, pollfds, table, link, client, got, traced, results>>

(* Plausible mistakes in close_connection and its caller: the scan's limit *)
(* not lowered; the descriptor not closed.                                 *)
KeepsLimit ==
  /\ pollfds' = Front([pollfds EXCEPT ![i] = Last(pollfds)])
  /\ sessions' = [f \in DOMAIN sessions \ {Entry.fd} |-> sessions[f]]
  /\ table' = [f \in DOMAIN table \ {Entry.fd} |-> table[f]]
  /\ link' = [link EXCEPT ![Conn] = "closed"]
  /\ UNCHANGED <<running, pc, i, current_size, inbuf, client, got, traced, queues>>

LeaksDescriptor ==
  /\ pollfds' = Front([pollfds EXCEPT ![i] = Last(pollfds)])
  /\ current_size' = current_size - 1
  /\ sessions' = [f \in DOMAIN sessions \ {Entry.fd} |-> sessions[f]]
  /\ UNCHANGED <<running, pc, i, table, link, inbuf, client, got, traced, queues>>

(* close_connection: the last entry takes the place of the closed one and  *)
(* is the next to be looked at.                                            *)
CloseEntry ==
  /\ pollfds' = Front([pollfds EXCEPT ![i] = Last(pollfds)])
  /\ current_size' = current_size - 1
  /\ sessions' = [f \in DOMAIN sessions \ {Entry.fd} |-> sessions[f]]
  /\ table' = [f \in DOMAIN table \ {Entry.fd} |-> table[f]]
  /\ link' = [link EXCEPT ![Conn] = "closed"]
  /\ UNCHANGED <<running, pc, i, inbuf, client, got, traced, queues>>

(* process_header found the connection closed, or nothing to read.         *)
HeaderFails ==
  /\ Receiving("HEADER_PENDING")
  /\ Recv(HeaderBytes) \in {0, Again}
  /\ CloseEntry

(* A plausible mistake: an empty body is passed over.                      *)
IgnoresEmptyBody ==
  /\ Receiving("BODY_PENDING")
  /\ IF Session.expected = 0
     THEN /\ NextEntry
          /\ UNCHANGED <<running, pollfds, sessions, table, link, inbuf, client, got,
                         traced, queues>>
     ELSE Recv(Session.expected) = 0 /\ CloseEntry

(* process_body found the connection closed, or an empty body announced.   *)
BodyFails ==
  /\ Receiving("BODY_PENDING")
  /\ Session.expected = 0 \/ Recv(Session.expected) = 0
  /\ CloseEntry

(* A plausible mistake: a reset() that leaves the state alone.             *)
SendsAgain(n) ==
  /\ Scanning("out")
  /\ n \in IF Session.response = << >> THEN {0} ELSE 0..(ResponseBytes - Session.sent)
  /\ IF n > 0 /\ Session.sent + n = ResponseBytes
     THEN /\ Update([Session EXCEPT !.sent = 0])
          /\ got' = [got EXCEPT ![Conn] = Append(@, Session.response)]
     ELSE /\ Update([Session EXCEPT !.sent = @ + n])
          /\ UNCHANGED got
  /\ NextEntry
  /\ UNCHANGED <<running, pollfds, table, link, inbuf, client, traced, queues>>

(* send() took n bytes; 0 when the response buffer is empty, which only a  *)
(* stray POLLOUT can lead to, or when the send buffer is full.             *)
Send(n) ==
  /\ Scanning("out")
  /\ n \in IF Session.response = << >> THEN {0} ELSE 0..(ResponseBytes - Session.sent)
  /\ IF n > 0 /\ Session.sent + n = ResponseBytes
     THEN /\ Update([NewSession EXCEPT !.response = Session.response,
                                       !.sent = ResponseBytes])
          /\ got' = [got EXCEPT ![Conn] = Append(@, Session.response)]
     ELSE /\ Update([Session EXCEPT !.sent = @ + n])
          /\ UNCHANGED got
  /\ NextEntry
  /\ UNCHANGED <<running, pollfds, table, link, inbuf, client, traced, queues>>

SendFails ==
  /\ Scanning("out") /\ hungup[Conn] /\ Session.response # << >>
  /\ CloseEntry

(* Nothing ignores SIGPIPE: writing on a connection that the client has    *)
(* reset, in answer to an earlier write or before the first, ends the      *)
(* process, the pool with it.                                              *)
SigPipe ==
  /\ Scanning("out") /\ hungup[Conn] /\ Session.response # << >>
  /\ pc' = "killed"
  /\ UNCHANGED <<running, i, current_size, pollfds, sessions, table, link, inbuf,
                 client, got, traced, queues>>

EndScan ==
  /\ pc = "scan" /\ i > current_size
  /\ pc' = LoopTop
  /\ UNCHANGED <<running, i, current_size, pollfds, sessions, table, link, inbuf,
                 client, got, traced, queues>>

(* ~TCPServer closes every descriptor, after run() or when it throws.      *)
Destroy ==
  /\ pc \in {"done", "threw"} /\ pollfds # << >>
  /\ pollfds' = << >> /\ table' = << >> /\ sessions' = << >>
  /\ link' = [c \in Conns |-> IF link[c] = "unused" THEN "unused" ELSE "closed"]
  /\ UNCHANGED <<running, pc, i, current_size, inbuf, client, got, traced, queues>>

Stray == {"none", "in", "out"}

ServerStep ==
  \/ PopResponse \/ SkipEntry \/ AcceptFails \/ ProcessHeader \/ ProcessBody
  \/ HeaderFails \/ BodyFails \/ SendFails \/ SigPipe \/ EndScan \/ Destroy
  \/ \E hup \in {"none", "hup"} : Poll(hup)
  \/ \E c \in Conns, fd \in Fds, stray \in Stray : Accept(c, fd, stray)
  \/ \E n \in 0..ResponseBytes : Send(n)

Next == \/ ServerStep \/ SignalHandler
        \/ \E c \in Conns : \/ Connect(c) \/ Deliver(c) \/ Hangup(c)
                            \/ \E s \in Sizes : Request(c, s)
        \/ \E k \in DOMAIN tasks : Infer(k)

Spec == Init /\ [][Next]_vars

(* The server thread runs, workers finish what they took, bytes on the way *)
(* arrive, and a client that reads makes room in its send buffer.          *)
SendsTo(c) == Scanning("out") /\ Conn = c /\ \E n \in 1..ResponseBytes : Send(n)
Fairness == /\ WF_vars(ServerStep)
            /\ WF_vars(\E k \in DOMAIN tasks : Infer(k))
            /\ \A c \in Conns : WF_vars(Deliver(c)) /\ SF_vars(SendsTo(c))

FairSpec == Spec /\ Fairness

----------------------------------------------------------------------------
(* Properties                                                              *)

States == {"HEADER_PENDING", "BODY_PENDING", "INFERENCE_PENDING", "RESPONSE_SENDING"}
Contents == Conns \X Nat
Ended == ~running \/ pc \in {"threw", "killed"}
SessionOf(c) == sessions[CHOOSE fd \in DOMAIN table : table[fd] = c]

(* Every variable has its type.                                            *)
PollEntry == [fd : Fds \cup {Listener}, revents : Stray \cup {"hup"}]
ClientSession == [state : States, header : 0..HeaderBytes, expected : Sizes \cup {0},
                  received : Nat, response : Contents \cup {<< >>}, sent : 0..ResponseBytes]
Work == [fd : Fds, data : Contents]
TypeOK ==
  /\ running \in BOOLEAN /\ pc \in {"responses", "scan", "done", "threw", "killed"}
  /\ i \in Nat \ {0} /\ current_size \in Nat
  /\ pollfds \in Seq(PollEntry)
  /\ DOMAIN sessions \subseteq Fds /\ sessions \in [DOMAIN sessions -> ClientSession]
  /\ DOMAIN table \subseteq Fds /\ table \in [DOMAIN table -> Conns]
  /\ link \in [Conns -> {"unused", "backlog", "open", "closed"}]
  /\ inbuf \in [Conns -> Nat] /\ unsent \in [Conns -> Nat]
  /\ hungup \in [Conns -> BOOLEAN] /\ traced \in [Conns -> Nat]
  /\ sizes \in [Conns -> Seq(Sizes)] /\ \A c \in Conns : Len(sizes[c]) <= MaxRequests[c]
  /\ got \in [Conns -> Seq(Contents)]
  /\ tasks \in Seq(Work) /\ results \in Seq(Work)

(* The poll set, the session map and the open connections stay in step     *)
(* while entries are appended and swapped during a scan: the listener is   *)
(* first, every other entry is one live session on one open connection, no *)
(* open connection is forgotten, and the scan stays inside the vector.     *)
PollMatchesSessions ==
  /\ DOMAIN table = DOMAIN sessions
  /\ DOMAIN sessions = {pollfds[k].fd : k \in 2..Len(pollfds)}
  /\ \A c \in Conns : link[c] = "open" <=> \E fd \in DOMAIN table : table[fd] = c
  /\ \A f, g \in DOMAIN table : f # g => table[f] # table[g]
  /\ IF pollfds = << >> THEN pc \in {"done", "threw"}
     ELSE /\ pollfds[1].fd = Listener
          /\ \A j, k \in DOMAIN pollfds : j # k => pollfds[j].fd # pollfds[k].fd
          /\ pc = "scan" => current_size <= Len(pollfds)

(* A request that is with the pool belongs to a live session that waits    *)
(* for it, on the connection that sent it, and each session has at most    *)
(* one.  So no descriptor is closed, or reused, while a result for it is   *)
(* still to come.                                                          *)
InFlight == tasks \o results
InFlightOwned ==
  pollfds # << >> =>
    /\ \A k \in DOMAIN InFlight :
         LET x == InFlight[k] IN
           /\ x.fd \in DOMAIN sessions
           /\ sessions[x.fd].state = "INFERENCE_PENDING"
           /\ x.data = <<table[x.fd], traced[table[x.fd]] + 1>>
    /\ \A j, k \in DOMAIN InFlight : j # k => InFlight[j].fd # InFlight[k].fd

(* An entry that is still to be scanned and claims to be writable, perhaps *)
(* only because its revents was never initialised, belongs to a session    *)
(* that sends or that never had a response: nothing is sent out of turn.   *)
StrayHarmless ==
  pc = "scan" =>
    \A k \in DOMAIN pollfds : k >= i /\ pollfds[k].revents = "out" =>
      /\ pollfds[k].fd \in DOMAIN sessions
      /\ \/ sessions[pollfds[k].fd].state = "RESPONSE_SENDING"
         \/ sessions[pollfds[k].fd].response = << >>

(* Where a session is in its cycle agrees with what it has buffered and    *)
(* with what its connection has got: a partial header or body is really    *)
(* partial, and only a session that sends owes its client a response.      *)
Cycle(fd) ==
  LET c == table[fd]
      s == sessions[fd]
  IN  /\ s.state = "HEADER_PENDING" => s.header < HeaderBytes /\ s.received = 0
      /\ s.state = "BODY_PENDING" => s.received < s.expected \/ s.expected = 0
      /\ s.state \in {"BODY_PENDING", "INFERENCE_PENDING"} => traced[c] < Len(sizes[c])
      /\ IF s.state = "RESPONSE_SENDING"
         THEN /\ s.response = <<c, traced[c]>> /\ s.sent < ResponseBytes
              /\ traced[c] = Len(got[c]) + 1
         ELSE /\ s.response = << >> \/ s.sent = ResponseBytes
              /\ traced[c] = Len(got[c])

Counted(c) ==
  /\ Len(got[c]) <= traced[c] /\ traced[c] <= Len(sizes[c])
  /\ link[c] \in {"unused", "backlog"} => traced[c] = 0 /\ Consumed(c) = 0

(* Types, the poll set, the requests with the pool and the sessions'       *)
(* cycles, together.                                                       *)
ServerInv == /\ TypeOK /\ PollMatchesSessions /\ InFlightOwned /\ StrayHarmless
             /\ \A fd \in DOMAIN sessions : Cycle(fd)
             /\ \A c \in Conns : Counted(c)

(* A client receives exactly the answers to its own requests, in order:    *)
(* never another client's, never one twice.                                *)
OwnResponses ==
  \A c \in Conns : /\ Len(got[c]) <= Len(sizes[c])
                    /\ \A k \in DOMAIN got[c] : got[c][k] = <<c, k>>

(* A session's place in its client's stream.                               *)
Framed(fd) ==
  LET c == table[fd]
      s == sessions[fd]
      base == BytesOf(c, traced[c])
  IN  CASE s.state = "HEADER_PENDING" -> Consumed(c) = base + s.header
        [] s.state = "BODY_PENDING" ->
             /\ s.expected = sizes[c][traced[c] + 1]
             /\ Consumed(c) = base + HeaderBytes + s.received
        [] s.state = "INFERENCE_PENDING" -> Consumed(c) = BytesOf(c, traced[c] + 1)
        [] s.state = "RESPONSE_SENDING" -> Consumed(c) = base

(* The stream never loses its framing, also when requests are pipelined    *)
(* and read in pieces: with k results traced, the server has read the      *)
(* first k requests and exactly the part of the next one that its session  *)
(* records, whose announced size is the one the client sent.               *)
Framing == \A fd \in DOMAIN sessions : Framed(fd)

(* A request on an accepted connection is answered, unless its client      *)
(* leaves, the connection is closed, the server is stopped, or some        *)
(* request of the client announced an empty body.                          *)
Answered ==
  \A c \in Conns : \A k \in 1..MaxRequests[c] :
    link[c] = "open" /\ Len(sizes[c]) >= k
      ~> (Len(got[c]) >= k \/ hungup[c] \/ link[c] = "closed" \/ Ended
          \/ \E j \in DOMAIN sizes[c] : sizes[c][j] = 0)

(* A request that announces an empty body is never answered: the session   *)
(* is closed when the client sends another byte or leaves, and does not    *)
(* keep its descriptor.                                                    *)
EmptyBodyClosed ==
  \A c \in Conns :
    (link[c] = "open" /\ (inbuf[c] > 0 \/ hungup[c])
      /\ SessionOf(c).state = "BODY_PENDING" /\ SessionOf(c).expected = 0)
      ~> (link[c] = "closed" \/ Ended)

(* No descriptor is lost: a connection waiting to be accepted is accepted  *)
(* once every other client has gone, whatever its session was doing when   *)
(* its client left - waiting for a header, a body, the pool (where poll    *)
(* may report the hang-up over and over) or the send.                      *)
DescriptorsReclaimed ==
  \A c \in Conns :
    (link[c] = "backlog" /\ \A d \in Conns \ {c} : hungup[d] \/ link[d] = "closed")
      ~> (link[c] # "backlog" \/ Ended)

(* The server implements the request cycle of RequestResponse: the states  *)
(* of a ClientSession are its stages, the queues hold its pending set.     *)
Stage(c) ==
  IF link[c] \in {"unused", "backlog"} THEN "new"
  ELSE IF link[c] = "closed" THEN "closed"
  ELSE CASE SessionOf(c).state = "INFERENCE_PENDING" -> "waiting"
         [] SessionOf(c).state = "RESPONSE_SENDING" -> "replying"
         [] OTHER -> "reading"

Requests == INSTANCE RequestResponse WITH
  stage <- [c \in Conns |-> Stage(c)],
  pending <- {InFlight[k].data : k \in DOMAIN InFlight},
  handed <- traced,
  answered <- [c \in Conns |-> Len(got[c])]

(* Whatever clients, network and pool do, a session never has two requests *)
(* with the pool, is never closed while it waits, and gets every result    *)
(* once, with its trace, before the next request is read.                  *)
ImplementsRequests == Requests!RRSpec
=============================================================================

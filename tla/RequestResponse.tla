--------------------------- MODULE RequestResponse ---------------------------
(***************************************************************************)
(* What the server promises its clients and the pool, whatever happens on  *)
(* the wire: a connection has one request at a time with the pool, a       *)
(* connection that waits for its result is never closed, so that its       *)
(* result always finds it, and every result is handed on once.             *)
(*                                                                         *)
(* TCPServer implements this (the states of ClientSession are the stages); *)
(* Lumen puts it together with the queue, the pool and main.               *)
(***************************************************************************)
EXTENDS Naturals

CONSTANTS Conns       \* the connections clients make, each once

VARIABLES stage,      \* where a connection is in its request cycle
          pending,    \* requests <<connection, number>> that are with the pool
          handed,     \* results handed to a connection's session, and traced
          answered    \* responses a connection has sent completely

rrvars == <<stage, pending, handed, answered>>

RRInit ==
  /\ stage = [c \in Conns |-> "new"]
  /\ pending = {}
  /\ handed = [c \in Conns |-> 0] /\ answered = [c \in Conns |-> 0]

Turn(c, from, to) == stage[c] = from /\ stage' = [stage EXCEPT ![c] = to]

(* The request that a connection reads, or waits for.                      *)
Current(c) == <<c, handed[c] + 1>>

(* accept()                                                                *)
Admit(c) == Turn(c, "new", "reading") /\ UNCHANGED <<pending, handed, answered>>

(* finalize_request: the session waits whether or not the queue accepted.  *)
Submit(c, accepted) ==
  /\ Turn(c, "reading", "waiting")
  /\ pending' = IF accepted THEN pending \cup {Current(c)} ELSE pending
  /\ UNCHANGED <<handed, answered>>

(* handle_responses: the result comes back, its trace goes to telemetry.   *)
Reply(c) ==
  /\ Current(c) \in pending /\ Turn(c, "waiting", "replying")
  /\ pending' = pending \ {Current(c)}
  /\ handed' = [handed EXCEPT ![c] = @ + 1]
  /\ UNCHANGED answered

(* The last byte of the response was sent: ready for the next request.     *)
Answer(c) ==
  /\ Turn(c, "replying", "reading")
  /\ answered' = [answered EXCEPT ![c] = @ + 1]
  /\ UNCHANGED <<pending, handed>>

(* close_connection, never while the pool has the request.                 *)
Close(c) ==
  /\ stage[c] \in {"reading", "replying"}
  /\ stage' = [stage EXCEPT ![c] = "closed"]
  /\ UNCHANGED <<pending, handed, answered>>

(* ~TCPServer closes what is open; what the pool still has is abandoned.   *)
Stop ==
  /\ stage' \in [Conns -> {"new", "closed"}]
  /\ \A c \in Conns : stage'[c] = "new" => stage[c] = "new"
  /\ UNCHANGED <<pending, handed, answered>>

RRNext ==
  \/ Stop
  \/ \E c \in Conns : \/ Admit(c) \/ Reply(c) \/ Answer(c) \/ Close(c)
                      \/ \E accepted \in BOOLEAN : Submit(c, accepted)

RRSpec == RRInit /\ [][RRNext]_rrvars
==============================================================================

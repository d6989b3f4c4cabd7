------------------------------ MODULE Telemetry ------------------------------
(***************************************************************************)
(* src/TelemetryManager.cpp: the server thread hands over the trace of     *)
(* each answered request, a reporter thread swaps the buffer out, writes   *)
(* one CSV row per trace and prints a summary.  The main thread, which is  *)
(* the server thread, shuts the manager down after the server loop.        *)
(*                                                                         *)
(* A critical section of m_mutex is one action.  m_running is an atomic    *)
(* that shutdown clears without the mutex, so its notification may fall    *)
(* between the reporter's test of the predicate and its sleep; the wait    *)
(* has a time limit.                                                       *)
(***************************************************************************)
EXTENDS Naturals, Sequences

CONSTANTS MaxTraces,   \* bound: traces captured in one run
          Paths,       \* what the CSV path may lead to
          Contents,    \* what the file may hold before the program starts
          Header       \* the header line of the file

(* An empty path, one that cannot be opened, one of which filesystem::      *)
(* exists or file_size throws (in a directory that may not be searched, a  *)
(* name that is too long, a special file such as /dev/null), and a file.   *)
PathKinds == {"none", "closed", "throws", "file"}

(* A line of the file is the header or the row of a trace.                 *)
Line == {Header} \cup Nat

ASSUME TelemetryAssumption == /\ MaxTraces \in Nat
                              /\ Paths \subseteq PathKinds
                              /\ Contents \subseteq Seq(Line)
                              /\ Header \notin Nat

VARIABLES m_running,
          m_trace_buffer,
          local_batch,   \* what the reporter swapped out
          csv,           \* the path's kind, the lines of the file and the
                         \* lines it had before the program started
          server,        \* what the server thread does
          reporter,      \* what the reporter thread does; "terminated" when
                         \* an exception on it has ended the process
          captured,      \* history: number of traces handed over
          reported       \* history: the traces that the reporter has dealt with

vars == <<m_running, m_trace_buffer, local_batch, csv, server, reporter, captured, reported>>

Init ==
  /\ m_running = TRUE
  /\ m_trace_buffer = << >> /\ local_batch = << >>
  /\ \E p \in Paths, b \in Contents : csv = [path |-> p, before |-> b, lines |-> b]
  /\ server = "serving" /\ reporter = "top"
  /\ captured = 0 /\ reported = << >>

(* Plausible mistakes.  Swap: the buffer is copied, or the swap forgotten; *)
(* SaveToCsv: the header is written for every trace; TimeOut: a wait       *)
(* without a time limit.                                                   *)
Copies ==
  /\ reporter = "locked" /\ (m_running \/ m_trace_buffer # << >>)
  /\ local_batch' = m_trace_buffer
  /\ reporter' = IF m_trace_buffer = << >> THEN "top" ELSE "process"
  /\ UNCHANGED <<m_running, m_trace_buffer, csv, server, captured, reported>>

ForgetsSwap ==
  /\ reporter = "locked" /\ (m_running \/ m_trace_buffer # << >>)
  /\ reporter' = "top"
  /\ UNCHANGED <<m_running, m_trace_buffer, local_batch, csv, server, captured, reported>>

HeaderEachTime(file, t) ==
  IF file.path = "closed" THEN file ELSE [file EXCEPT !.lines = @ \o << Header, t >>]

NoTimeLimit == FALSE /\ reporter' = "locked"

----------------------------------------------------------------------------
(* The server thread                                                       *)

Alive == reporter # "terminated"

(* The reporter holds m_mutex from its test of the predicate to its sleep  *)
(* and from its wake-up to its swap.                                       *)
MutexFree == reporter \notin {"sleep", "locked"}

(* capture_trace: append under the mutex, then notify.                     *)
CaptureTrace ==
  /\ Alive /\ server = "serving" /\ captured < MaxTraces /\ MutexFree
  /\ captured' = captured + 1
  /\ m_trace_buffer' = Append(m_trace_buffer, captured + 1)
  /\ server' = "wake"
  /\ UNCHANGED <<m_running, local_batch, csv, reporter, reported>>

(* notify_one and notify_all both reach the only waiter, if it waits.      *)
Notify(from, to) ==
  /\ Alive /\ server = from /\ server' = to
  /\ reporter' = IF reporter = "wait" THEN "check" ELSE reporter
  /\ UNCHANGED <<m_running, m_trace_buffer, local_batch, csv, captured, reported>>

Shutdown ==
  /\ Alive /\ server = "serving" /\ m_running
  /\ m_running' = FALSE /\ server' = "notify"
  /\ UNCHANGED <<m_trace_buffer, local_batch, csv, reporter, captured, reported>>

Join ==
  /\ server = "join" /\ reporter = "exited"
  /\ server' = "joined"
  /\ UNCHANGED <<m_running, m_trace_buffer, local_batch, csv, reporter, captured, reported>>

----------------------------------------------------------------------------
(* reporting_loop                                                          *)

ReporterAt(from, to) ==
  /\ reporter = from /\ reporter' = to
  /\ UNCHANGED <<m_running, m_trace_buffer, local_batch, csv, server, captured, reported>>

(* `while (m_running)`                                                     *)
LoopTop == ReporterAt("top", IF m_running THEN "check" ELSE "exited")

(* The predicate of wait_for, and the sleep if it is false.  The clearing  *)
(* of m_running is not guarded by the mutex: it may come in between.       *)
Predicate ==
  ReporterAt("check", IF m_trace_buffer # << >> \/ ~m_running THEN "locked" ELSE "sleep")
FallAsleep == ReporterAt("sleep", "wait")

(* After one second the wait ends whatever the predicate says.             *)
TimeOut == ReporterAt("wait", "locked")
Wakeup == ReporterAt("wait", "check")

Break == m_trace_buffer = << >> /\ ~m_running /\ ReporterAt("locked", "exited")

(* local_batch.swap(m_trace_buffer).                                       *)
Swap ==
  /\ reporter = "locked" /\ (m_running \/ m_trace_buffer # << >>)
  /\ local_batch' = m_trace_buffer /\ m_trace_buffer' = << >>
  /\ reporter' = IF m_trace_buffer = << >> THEN "top" ELSE "process"
  /\ UNCHANGED <<m_running, csv, server, captured, reported>>

(* save_to_csv: the header goes first into a file that is new or empty.    *)
SaveToCsv(file, t) ==
  IF file.path = "closed" THEN file
  ELSE [file EXCEPT !.lines = Append(IF @ = << >> THEN << Header >> ELSE @, t)]

(* process_snapshot: a row for each trace, then the summary.               *)
SaveTrace ==
  /\ reporter = "process" /\ local_batch # << >> /\ csv.path # "throws"
  /\ csv' = IF csv.path = "none" THEN csv ELSE SaveToCsv(csv, Head(local_batch))
  /\ reported' = Append(reported, Head(local_batch))
  /\ local_batch' = Tail(local_batch)
  /\ UNCHANGED <<m_running, m_trace_buffer, server, reporter, captured>>

(* exists or file_size throws before a line is written.  Nothing on the    *)
(* reporter thread catches it: std::terminate.                             *)
SaveThrows ==
  /\ csv.path = "throws" /\ local_batch # << >>
  /\ ReporterAt("process", "terminated")

Summary == local_batch = << >> /\ ReporterAt("process", "top")

ServerStep == Notify("wake", "serving") \/ Notify("notify", "join") \/ Join
ReporterStep == \/ LoopTop \/ Predicate \/ FallAsleep \/ TimeOut \/ Break
                \/ Swap \/ SaveTrace \/ SaveThrows \/ Summary

Next == CaptureTrace \/ Shutdown \/ ServerStep \/ ReporterStep \/ Wakeup

Spec == Init /\ [][Next]_vars

(* Both threads run, and the wait has a time limit.                        *)
FairSpec == Spec /\ WF_vars(ServerStep) /\ WF_vars(ReporterStep)

----------------------------------------------------------------------------
(* Properties                                                              *)

(* Every variable has its type.                                            *)
TypeOK ==
  /\ m_running \in BOOLEAN
  /\ m_trace_buffer \in Seq(Nat) /\ local_batch \in Seq(Nat) /\ reported \in Seq(Nat)
  /\ server \in {"serving", "wake", "notify", "join", "joined"}
  /\ reporter \in {"top", "check", "sleep", "wait", "locked", "process", "exited",
                  "terminated"}
  /\ captured \in 0..MaxTraces

(* Every trace is in one place and the traces stay in order: reported,     *)
(* then swapped out, then waiting.  None is lost or reported twice by the  *)
(* hand-over between the threads.                                          *)
InOrder == reported \o (local_batch \o m_trace_buffer) = [k \in 1..captured |-> k]

(* Together with: only a reporter that is processing, or was when the      *)
(* process ended, holds a batch.                                           *)
Inductive == /\ TypeOK /\ InOrder
             /\ reporter \notin {"process", "terminated"} => local_batch = << >>

(* Whatever the file held before stays above the new rows, which are the   *)
(* reported traces; an empty file gets its header once, with the first     *)
(* row, and no other gets one.  No other kind of path is ever written to.  *)
NewLines == IF reported = << >> \/ csv.path # "file" THEN << >>
            ELSE IF csv.before = << >> THEN << Header >> \o reported
            ELSE reported
WellFormedCsv == csv.lines = csv.before \o NewLines

(* A trace is reported, unless the manager is shut down first or an        *)
(* exception of the reporter ends the process.                             *)
TraceReported ==
  \A k \in 1..MaxTraces :
    captured >= k ~> (Len(reported) >= k \/ ~m_running \/ ~Alive)

(* shutdown returns although its notification may be missed, unless an     *)
(* exception of the reporter ends the process.                             *)
ShutdownReturns == ~m_running ~> server = "joined" \/ ~Alive

(* The last traces are drained: when shutdown has joined the reporter, no  *)
(* trace is left behind.                                                   *)
Drained == server = "joined" => m_trace_buffer = << >>
=============================================================================

------------------------------- MODULE MCLumen -------------------------------
(* Small instances of Lumen for TLC.                                       *)
EXTENDS Lumen

(* One client makes two requests, the other one.                           *)
Favoured == CHOOSE c \in Conns : c \notin ShortConns
Uneven == [c \in Conns |-> IF c = Favoured THEN 2 ELSE 1]

Count(n) == [kind |-> "number", value |-> n]

(* Every queue with every number of workers and batch size, ...            *)
Cores == {[Template EXCEPT !.thread_count = t, !.batch_size = b, !.queue_type = q] :
            t \in {Count(1), Count(2), [kind |-> Negative]},
            b \in {Count(0), Count(2), [kind |-> Negative]},
            q \in {"spsc", "mpmc", "batched"}}

(* ... files that break off the loading behind each key, and the mistakes  *)
(* that only main or a worker meets.                                       *)
Base == [Template EXCEPT !.thread_count = Count(4), !.queue_type = "spsc"]
Mistakes ==
  {Template,
   [Base EXCEPT !.text = "missing"], [Base EXCEPT !.text = "malformed"],
   [Base EXCEPT !.engine = "absent"], [Base EXCEPT !.engine = "bad"],
   [Base EXCEPT !.thread_count = [kind |-> Bad]], [Base EXCEPT !.thread_count = [kind |-> Absent]],
   [Base EXCEPT !.batch_size = [kind |-> Bad]], [Base EXCEPT !.batch_size = [kind |-> Absent]],
   [Base EXCEPT !.queue_type = "bad"], [Base EXCEPT !.queue_type = "absent"],
   [Base EXCEPT !.allocator_type = "bad"],
   [Base EXCEPT !.telemetry_csv_path = "bad"], [Base EXCEPT !.telemetry_csv_path = "absent"],
   [Base EXCEPT !.telemetry_csv_path = "other"],
   [Base EXCEPT !.thread_count = Count(7), !.queue_type = "mpmc"],
   [Base EXCEPT !.batch_size = Count(7)],
   [Base EXCEPT !.model = "absent"], [Base EXCEPT !.model = "bad"],
   [Base EXCEPT !.path = "absent"], [Base EXCEPT !.path = "bad"],
   [Base EXCEPT !.processor_type = "bad"], [Base EXCEPT !.processor_type = "raw"],
   [Base EXCEPT !.metadata = "absent"], [Base EXCEPT !.metadata = "bad_label"]}

SystemFiles == Cores \cup Mistakes
=============================================================================

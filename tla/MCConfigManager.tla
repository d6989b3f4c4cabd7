--------------------------- MODULE MCConfigManager ---------------------------
(* Small instances of ConfigManager for TLC.                               *)
EXTENDS ConfigManager

(* The numbers and the queue in every combination ...                      *)
Cores == {[Template EXCEPT !.thread_count = t, !.batch_size = b, !.queue_type = q] :
            t \in Numbers, b \in Numbers,
            q \in {"absent", "bad", "spsc", "mpmc", "naive", "batched"}}

(* ... and with each, every other key missing or wrong, one at a time.     *)
Variants(f) ==
  {f} \cup {[f EXCEPT !.text = v] : v \in {"missing", "malformed"}}
      \cup {[f EXCEPT !.engine = v] : v \in {"absent", "bad"}}
      \cup {[f EXCEPT !.allocator_type = v] : v \in {"absent", "bad", "lumen_arena"}}
      \cup {[f EXCEPT !.telemetry_csv_path = v] : v \in {"absent", "bad"}}
      \cup {[f EXCEPT !.model = v] : v \in {"absent", "bad"}}
      \cup {[f EXCEPT !.path = v] : v \in {"absent", "bad"}}
      \cup {[f EXCEPT !.processor_type = v] : v \in {"absent", "bad", "raw", "detection"}}
      \cup {[f EXCEPT !.metadata = v] : v \in {"absent", "unlabelled", "bad_label"}}

EveryFile == UNION {Variants(f) : f \in Cores}
=============================================================================

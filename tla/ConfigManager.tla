---------------------------- MODULE ConfigManager ----------------------------
(***************************************************************************)
(* src/LumenConfigManager.cpp: load_from_file reads config.json into the   *)
(* settings one member after another; a value of the wrong type throws,    *)
(* and the handler leaves everything as it is at that moment.  Then main   *)
(* picks the queue and the pool the number of workers.                     *)
(*                                                                         *)
(* The file is a record of the keys that decide something; a key is absent,*)
(* of the wrong type (bad), or has one of the values told apart here.  A   *)
(* negative number is converted to size_t, where it is huge.               *)
(***************************************************************************)
EXTENDS Integers

Absent == "absent"
Bad == "bad"
Negative == "negative"

CONSTANTS Counts,     \* numbers that may stand in the file
          SizeMax,    \* what a negative number becomes: 2^64 - 1 and the like
          Hardware,   \* hardware_concurrency()
          FileSet     \* the files that the program may find

ASSUME ConfigAssumption == /\ Counts \subseteq Nat /\ Hardware \in Nat
                           /\ SizeMax \in Nat /\ \A n \in Counts : n < SizeMax

VARIABLES json,       \* the file
          m,          \* the settings
          step,       \* the next part of load_from_file
          queue,      \* the queue class that main made
          workers     \* the number of workers of the pool

vars == <<json, m, step, queue, workers>>

Numbers == [kind : {"number"}, value : Counts] \cup [kind : {Absent, Bad, Negative}]
Files == [text : {"missing", "malformed", "object"},
          engine : {"absent", "bad", "object"},
          thread_count : Numbers,
          batch_size : Numbers,
          queue_type : {"absent", "bad", "spsc", "mpmc", "naive", "batched"},
          allocator_type : {"absent", "bad", "standard", "lumen_arena"},
          telemetry_csv_path : {"absent", "bad", "given", "other"},
          model : {"absent", "bad", "object"},
          path : {"absent", "bad", "given"},
          processor_type : {"absent", "bad", "imagenet", "raw", "detection"},
          metadata : {"absent", "unlabelled", "bad_label", "labelled"}]

ASSUME FilesAssumption == FileSet \subseteq Files

(* The file that save_template writes.                                     *)
Template == [text |-> "object", engine |-> "object",
             thread_count |-> [kind |-> "number", value |-> 0],
             batch_size |-> [kind |-> "number", value |-> 1],
             queue_type |-> "naive", allocator_type |-> "standard",
             telemetry_csv_path |-> "given", model |-> "object", path |-> "given",
             processor_type |-> "imagenet", metadata |-> "labelled"]

Defaults == [thread_count |-> 0, batch_size |-> 1, queue_type |-> "NAIVE_MUTEX",
             alloc_type |-> "STANDARD", proc_type |-> "IMAGENET",
             telemetry_path |-> "results", model_path |-> "default", label |-> "default"]

Init == /\ json \in FileSet
        /\ m = Defaults
        /\ step = "open" /\ queue = "none" /\ workers = 0

Throws == step' = "error" /\ UNCHANGED m
Set(settings, next) == m' = settings /\ step' = next
Loading == UNCHANGED <<json, queue, workers>>

(* No file: the settings stay as they are.  Malformed text throws.         *)
Open ==
  /\ step = "open" /\ Loading
  /\ \/ json.text = "missing" /\ Set(m, "done")
     \/ json.text = "malformed" /\ Throws
     \/ json.text = "object" /\ Set(m, IF json.engine = "absent" THEN "model"
                                       ELSE "thread_count")

(* A section that is not an object contains nothing, and value() throws.   *)
Key(number) == IF json.engine = "bad" THEN [kind |-> Absent] ELSE number
SizeT(number) == IF number.kind = Negative THEN SizeMax ELSE number.value

Number(here, field, number, next) ==
  /\ step = here /\ Loading
  /\ CASE Key(number).kind = Absent -> Set(m, next)
       [] Key(number).kind = Bad -> Throws
       [] OTHER -> Set([m EXCEPT ![field] = SizeT(number)], next)

ThreadCount == Number("thread_count", "thread_count", json.thread_count, "batch_size")
BatchSize == Number("batch_size", "batch_size", json.batch_size, "queue_type")

(* The string "batched" is not looked for: the batch size decides.         *)
OtherQueue == IF m.batch_size > 1 THEN "BATCHED" ELSE "NAIVE_MUTEX"

(* A plausible mistake: the single worker is forgotten.                    *)
KeepsThreadCount ==
  /\ step = "queue_type" /\ Loading
  /\ json.engine # "bad" /\ json.queue_type = "spsc"
  /\ Set([m EXCEPT !.queue_type = "SPSC"], "allocator_type")

QueueTypeKey ==
  /\ step = "queue_type" /\ Loading
  /\ CASE json.engine = "bad" \/ json.queue_type = "bad" -> Throws
       [] json.queue_type = "spsc" ->
            Set([m EXCEPT !.queue_type = "SPSC", !.thread_count = 1], "allocator_type")
       [] json.queue_type = "mpmc" -> Set([m EXCEPT !.queue_type = "MPMC"], "allocator_type")
       [] OTHER -> Set([m EXCEPT !.queue_type = OtherQueue], "allocator_type")

AllocatorType ==
  /\ step = "allocator_type" /\ Loading
  /\ IF json.allocator_type = "bad" THEN Throws
     ELSE Set([m EXCEPT !.alloc_type = IF json.allocator_type = "lumen_arena"
                                       THEN "LUMEN_ARENA" ELSE "STANDARD"], "telemetry")

(* An absent path is not the member's default but another one.             *)
TelemetryPath ==
  /\ step = "telemetry" /\ Loading
  /\ CASE json.telemetry_csv_path = "bad" -> Throws
       [] json.telemetry_csv_path = "absent" ->
            Set([m EXCEPT !.telemetry_path = "baseline"], "model")
       [] OTHER -> Set([m EXCEPT !.telemetry_path = json.telemetry_csv_path], "model")

(* The model section: the path, where an absent one is empty ...           *)
ModelPath ==
  /\ step = "model" /\ Loading
  /\ CASE json.model = "absent" -> Set(m, "done")
       [] json.model = "bad" \/ json.path = "bad" -> Throws
       [] OTHER -> Set([m EXCEPT !.model_path = IF json.path = "given" THEN "given"
                                                ELSE "empty"], "processor")

(* ... then the processor ...                                              *)
Processor ==
  /\ step = "processor" /\ Loading
  /\ IF json.processor_type = "bad" THEN Throws
     ELSE Set([m EXCEPT !.proc_type = CASE json.processor_type = "raw" -> "RAW_TENSOR"
                                        [] json.processor_type = "detection" -> "OBJECT_DETECTION"
                                        [] OTHER -> "IMAGENET"], "metadata")

(* ... then the metadata, whose label_path is not looked at yet.           *)
Metadata ==
  /\ step = "metadata" /\ Loading
  /\ Set(IF json.metadata = "absent" THEN m ELSE [m EXCEPT !.label = json.metadata], "done")

----------------------------------------------------------------------------

Loaded == step \in {"done", "error"}

(* main makes the queue, and the pool decides on its workers.  The parsed  *)
(* file, and whether it was complete, is forgotten: both were local.       *)
Start ==
  /\ Loaded /\ queue = "none"
  /\ queue' = CASE m.queue_type = "SPSC" -> "SPSCTaskQueue"
                [] m.queue_type = "MPMC" -> "MPMCTaskQueue"
                [] OTHER -> "NaiveTaskQueue"
  /\ workers' = IF m.thread_count > 0 THEN m.thread_count
                ELSE IF Hardware > 0 THEN Hardware ELSE 2
  /\ json' = [text |-> "closed"] /\ step' = "started"
  /\ UNCHANGED m

Next == \/ Open \/ ThreadCount \/ BatchSize \/ QueueTypeKey \/ AllocatorType
        \/ TelemetryPath \/ ModelPath \/ Processor \/ Metadata \/ Start

Spec == Init /\ [][Next]_vars

----------------------------------------------------------------------------
(* Properties                                                              *)

(* The queue for a single consumer never gets a second worker, whatever    *)
(* thread_count the file asks for and wherever its loading was broken off. *)
SpscSingleWorker == queue = "SPSCTaskQueue" => workers = 1

(* The settings are of their types whatever the file says, and the single  *)
(* worker, once it is chosen with its queue, is not overridden by a later  *)
(* key.                                                                    *)
Settings == [thread_count : Nat, batch_size : Nat,
             queue_type : {"NAIVE_MUTEX", "BATCHED", "SPSC", "MPMC"},
             alloc_type : {"STANDARD", "LUMEN_ARENA"},
             proc_type : {"IMAGENET", "RAW_TENSOR", "OBJECT_DETECTION"},
             telemetry_path : {"results", "given", "other", "baseline"},
             model_path : {"default", "given", "empty"},
             label : {"default", "unlabelled", "bad_label", "labelled"}]
ConfigInv ==
  /\ m \in Settings /\ workers \in Nat
  /\ step # "started" => json \in Files /\ queue = "none"
  /\ step = "started" => queue # "none" /\ workers > 0
  /\ m.queue_type = "SPSC" =>
       /\ m.thread_count = 1
       /\ step \notin {"open", "thread_count", "batch_size", "queue_type"}
  /\ SpscSingleWorker

(* A file that cannot be read falls back to the defaults.                  *)
FallsBack == step = "error" => m = Defaults
=============================================================================

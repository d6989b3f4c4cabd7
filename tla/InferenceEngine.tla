--------------------------- MODULE InferenceEngine ---------------------------
(***************************************************************************)
(* src/InferenceEngine.cpp on one pod: the engine reads the model's shape, *)
(* and run() turns one task after another into a result, with its tensors  *)
(* from the pod's allocator, the arena (LumenArena) or the standard one.   *)
(*                                                                         *)
(* The steps of the arena are conjoined with what the engine does at them. *)
(* ONNX Runtime is external: it returns any scores.                        *)
(***************************************************************************)
EXTENDS LumenArena, ImageNetProcessor

CONSTANTS Models,      \* [input, output]: dimensions, -1 for a dynamic one
          LabelFiles,  \* label files, as sequences of lines
          Payloads,    \* lengths a task's data may have
          FloatBytes,  \* sizeof(float)
          Scores,      \* values in the model's output
          Requested    \* sizes that the session and the metadata ask for

ASSUME EngineAssumption == FloatBytes \in Nat \ {0} /\ Requested \subseteq Sizes

VARIABLES model, labels,   \* what the engine and the post-processor loaded
          alloc_type,      \* the pod's allocator
          payload,         \* length of the task's data
          tensor,          \* what transform wrote to the input tensor
          scores,          \* what the session wrote to the output tensor
          timed,           \* the fields of the trace that a Timer has set
          response,        \* of the result
          heap,            \* standard allocator: live blocks
          allocated,       \* ... and current_allocated_bytes
          fault            \* transform went outside a buffer

task == <<payload, tensor, scores, timed, response>>
pod == <<model, labels, alloc_type>>
standard == <<heap, allocated>>
enginevars == <<vars, pod, task, standard, fault>>

(* A dynamic batch dimension counts as 1, and so does any other dynamic    *)
(* one in the number of elements.                                          *)
Count(dims) ==
  LET prod[k \in 0..Len(dims)] ==
        IF k = 0 THEN 1 ELSE IF dims[k] > 0 THEN prod[k - 1] * dims[k] ELSE prod[k - 1]
  IN  prod[Len(dims)]

(* A model takes an image: batch, channels, height, width.                 *)
Dim == {-1} \cup (Nat \ {0})
ASSUME ModelAssumption ==
  /\ Models \subseteq [input : Seq(Dim), output : Seq(Dim)]
  /\ \A n \in Models : /\ Len(n.input) = 4
                        /\ Count(n.input) * FloatBytes \in Sizes
                        /\ Count(n.output) * FloatBytes \in Sizes
  /\ LabelFiles \subseteq Seq(STRING) /\ Payloads \subseteq Nat /\ Scores \subseteq Int

InputCount == Count(model.input)
OutputCount == Count(model.output)
Height == model.input[3]
Width == model.input[4]
Planes == Count(SubSeq(model.input, 1, 2))
Dynamic == Height <= 0 \/ Width <= 0

EngineInit ==
  /\ Init
  /\ model \in Models /\ labels \in LabelFiles
  /\ alloc_type \in {"LUMEN_ARENA", "STANDARD"}
  /\ payload = 0 /\ tensor = << >> /\ scores = << >> /\ timed = {} /\ response = ""
  /\ heap = {} /\ allocated = 0 /\ fault = FALSE

(* ILumenAllocator::Alloc of the two allocators.  A block of the standard  *)
(* one is named after the phase that it opens.                             *)
ArenaAlloc(from, to, size) ==
  /\ alloc_type = "LUMEN_ARENA" /\ RequestAlloc(from, to, size)
  /\ UNCHANGED standard

StandardAlloc(from, to, size) ==
  /\ alloc_type = "STANDARD" /\ phase = from /\ phase' = to
  /\ heap' = heap \cup {to} /\ allocated' = allocated + size
  /\ UNCHANGED <<offset, warmup_offset, warmed_up, blocks, meta, used, served>>

Alloc(from, to, size) == ArenaAlloc(from, to, size) \/ StandardAlloc(from, to, size)

(* The destructors of the guards; for the arena, Free does nothing.        *)
ScopedFree(names) == heap' = heap \ names /\ UNCHANGED allocated

(* The destructor of a Timer writes its field of the trace.                *)
Timer(fields) == timed' = timed \cup fields

----------------------------------------------------------------------------

(* The constructor: what the session and migrate_metadata_to_arena take.   *)
Migrate(size) ==
  /\ alloc_type = "LUMEN_ARENA" /\ BuildAlloc(size)
  /\ UNCHANGED <<pod, task, standard, fault>>

Ready == Built /\ UNCHANGED <<pod, task, standard, fault>>

Calls == phase = "idle" /\ served < MaxRequests /\ ~fault

(* A plausible mistake: one byte short is let through.                     *)
LetsOneThrough(p) == p + 1 < InputCount

(* The payload's bytes against the tensor's elements.                      *)
TooShort(p) == p < InputCount

Mismatch(p) ==
  /\ Calls /\ TooShort(p) /\ PayloadMismatch
  /\ payload' = p /\ response' = "Error: Payload size mismatch" /\ timed' = {}
  /\ UNCHANGED <<pod, tensor, scores, standard, fault>>

(* The input tensor and the pre-processor.  A dynamic width or height is a *)
(* huge size_t there.                                                      *)
Preprocess(p) ==
  /\ Calls /\ ~TooShort(p)
  /\ Alloc("idle", "input", InputCount * FloatBytes)
  /\ payload' = p
  /\ LET inside == ~Dynamic /\ InBounds(Width, Height, InputCount, p) IN
       /\ fault' = ~inside
       /\ tensor' = IF inside THEN Transform([k \in 0..(p - 1) |-> k], Width, Height)
                    ELSE << >>
  /\ Timer({"preprocess_ms"})
  /\ UNCHANGED <<pod, scores, response>>

AllocateOutput ==
  /\ ~fault /\ Alloc("input", "output", OutputCount * FloatBytes)
  /\ UNCHANGED <<pod, task, fault>>

SessionScratch(size) ==
  /\ alloc_type = "LUMEN_ARENA" /\ Scratch(size)
  /\ UNCHANGED <<pod, task, standard, fault>>

(* A plausible mistake: the input tensor has no guard.                     *)
FreesOutputOnly(out) ==
  /\ Finish
  /\ scores' = out /\ response' = HandleResults(out, Labels(labels))
  /\ Timer({"inference_ms", "postprocess_ms"})
  /\ ScopedFree({"output"}) /\ tensor' = << >>
  /\ UNCHANGED <<pod, payload, fault>>

(* The session runs, the post-processor answers, and the guards free both  *)
(* tensors, which only the standard allocator notices.                     *)
RunSession(out) ==
  /\ Finish
  /\ scores' = out /\ response' = HandleResults(out, Labels(labels))
  /\ Timer({"inference_ms", "postprocess_ms"})
  /\ ScopedFree({"output", "input"}) /\ tensor' = << >>
  /\ UNCHANGED <<pod, payload, fault>>

(* A plausible mistake: the arena is not reset.                            *)
KeepsArena ==
  /\ phase = "ran" /\ phase' = "idle" /\ served' = served + 1
  /\ payload' = 0 /\ scores' = << >> /\ timed' = {} /\ response' = ""
  /\ UNCHANGED <<offset, warmup_offset, warmed_up, blocks, meta, used>>
  /\ UNCHANGED <<pod, tensor, standard, fault>>

(* The worker resets an arena, and pushes the result.                      *)
ResetArena ==
  /\ IF alloc_type = "LUMEN_ARENA" THEN Reset
     ELSE /\ phase = "ran" /\ phase' = "idle" /\ served' = served + 1
          /\ UNCHANGED <<offset, warmup_offset, warmed_up, blocks, meta, used>>
  /\ payload' = 0 /\ scores' = << >> /\ timed' = {} /\ response' = ""
  /\ UNCHANGED <<pod, tensor, standard, fault>>

EngineNext ==
  \/ \E size \in Requested : Migrate(size) \/ SessionScratch(size)
  \/ Ready \/ AllocateOutput \/ ResetArena
  \/ \E p \in Payloads : Mismatch(p) \/ Preprocess(p)
  \/ \E out \in [1..OutputCount -> Scores] : RunSession(out)

EngineSpec == EngineInit /\ [][EngineNext]_enginevars

----------------------------------------------------------------------------
(* Properties                                                              *)

(* Whatever task arrives, the engine and the worker use the arena in the   *)
(* order that LumenArena assumes of them: tensors, scratch memory, and one *)
(* reset behind each request, also behind a refused one.                   *)
ArenaDiscipline == [][alloc_type = "LUMEN_ARENA" => Next]_vars

(* The tensor that the session reads is the planar form of the image, and  *)
(* whole exactly if the model takes one image of three channels: with more *)
(* planes the rest of it is what the memory held before.                   *)
TensorPlanar ==
  phase \in {"input", "output"} /\ ~fault =>
    /\ DOMAIN tensor \subseteq 0..(InputCount - 1)
    /\ \A d \in DOMAIN tensor :
         tensor[d] = Planar([k \in 0..(payload - 1) |-> k], Width, Height, d)
    /\ Planes = 3 <=> DOMAIN tensor = 0..(InputCount - 1)

(* The payload check, which compares bytes with elements, keeps transform  *)
(* inside both of its buffers, unless the model has fewer than three       *)
(* planes or a dynamic width or height.                                    *)
TransformInside == fault => Planes < 3 \/ Dynamic

(* A result that leaves the engine is whole: an error has taken no memory  *)
(* and no time, an answer has all three times; and every block of the      *)
(* standard allocator was freed, on both ways out of run.                  *)
ResultWhole ==
  phase = "ran" =>
    /\ heap = {} /\ response # ""
    /\ payload < InputCount => timed = {} /\ used = 0
    /\ payload >= InputCount =>
         timed = {"preprocess_ms", "inference_ms", "postprocess_ms"}

(* The answer is the line of the label file that the best class numbers,   *)
(* or Unknown where the file has none, unless a blank line comes before a  *)
(* label: those after it move up.                                          *)
Shifted == \E j, k \in DOMAIN labels : j < k /\ labels[j] = "" /\ labels[k] # ""
LabelOfLine ==
  phase = "ran" /\ scores # << >> /\ ~Shifted =>
    \E i \in DOMAIN scores :
      /\ \A j \in DOMAIN scores : scores[j] <= scores[i]
      /\ response = IF i \in DOMAIN labels /\ labels[i] # "" THEN labels[i] ELSE "Unknown"
=============================================================================

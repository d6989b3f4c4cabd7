------------------------------ MODULE LumenArena ------------------------------
(***************************************************************************)
(* src/LumenArena.cpp, with the calls that src/InferenceEngine.cpp and     *)
(* ThreadPool::worker_loop make on it.  One pod: the arena belongs to one  *)
(* worker, so everything here happens on one thread.                       *)
(*                                                                         *)
(* Memory is the interval 0..Capacity of offsets from arena_ptr, which is  *)
(* aligned.  A block is live from its allocation on; those of the engine's *)
(* metadata stay live, those of a request die at reset.  What the engine   *)
(* and ONNX Runtime ask for is bounded by two budgets, counted in bytes    *)
(* with padding; sizes are far from the width of size_t.                   *)
(***************************************************************************)
EXTENDS Naturals, FiniteSets

CONSTANTS Align,          \* 64 in the code
          Capacity,       \* 64 MB in the code
          Sizes,          \* sizes that may be asked for
          MetaBudget,     \* bound: bytes taken while the engine is built
          RequestBudget,  \* bound: bytes taken by one request
          MaxRequests     \* bound: requests

ASSUME ArenaAssumption ==
  /\ Align \in Nat \ {0} /\ Capacity \in Nat
  /\ MetaBudget \in Nat /\ RequestBudget \in Nat /\ MaxRequests \in Nat
  /\ Sizes \subseteq Nat

VARIABLES offset, warmup_offset, warmed_up,   \* the arena's members
          phase,       \* what the worker does with it
          blocks,      \* live blocks: [lo, hi, kind]
          meta, used,  \* bytes taken by the metadata, and by the request
          served       \* requests finished

vars == <<offset, warmup_offset, warmed_up, phase, blocks, meta, used, served>>

Init ==
  /\ offset = 0 /\ warmup_offset = 0 /\ warmed_up = FALSE
  /\ phase = "building"
  /\ blocks = {} /\ meta = 0 /\ used = 0 /\ served = 0

(* alloc_raw: the padding before a block and the rounding of its size.     *)
Padding == (Align - (offset % Align)) % Align
RoundUp(size) == size + Align - 1 - ((size + Align - 1) % Align)

Need(size) == Padding + RoundUp(size)

(* The limit.                                                              *)
Fits(size) == offset + Need(size) <= Capacity

(* The pointer bump: a live block of `size` bytes behind the padding.      *)
Take(size, kind) ==
  /\ offset' = offset + Need(size)
  /\ blocks' = blocks \cup {[lo |-> offset + Padding, hi |-> offset + Padding + size,
                             kind |-> kind]}

(* nullptr is not tested by the engine, and makes ONNX Runtime throw on    *)
(* the worker thread: either way the process ends.                         *)
NullPointer(size) ==
  /\ ~Fits(size)
  /\ phase' = "crashed"
  /\ UNCHANGED <<offset, warmup_offset, warmed_up, blocks, meta, used, served>>

----------------------------------------------------------------------------
(* The engine is built                                                     *)

(* migrate_metadata_to_arena, and what the session takes when it is made.  *)
BuildAlloc(size) ==
  /\ phase = "building" /\ meta + Need(size) <= MetaBudget
  /\ \/ NullPointer(size)
     \/ /\ Fits(size) /\ Take(size, "meta")
        /\ meta' = meta + Need(size)
        /\ UNCHANGED <<warmup_offset, warmed_up, phase, used, served>>

Built ==
  /\ phase = "building" /\ phase' = "idle"
  /\ UNCHANGED <<offset, warmup_offset, warmed_up, blocks, meta, used, served>>

----------------------------------------------------------------------------
(* A request                                                               *)

(* The payload is too short: run returns an error and allocates nothing.   *)
PayloadMismatch ==
  /\ phase = "idle" /\ served < MaxRequests /\ phase' = "ran"
  /\ UNCHANGED <<offset, warmup_offset, warmed_up, blocks, meta, used, served>>

RequestAlloc(from, to, size) ==
  /\ phase = from /\ used + Need(size) <= RequestBudget
  /\ \/ NullPointer(size)
     \/ /\ Fits(size) /\ Take(size, "request")
        /\ used' = used + Need(size) /\ phase' = to
        /\ UNCHANGED <<warmup_offset, warmed_up, meta, served>>

AllocInput(size) == served < MaxRequests /\ RequestAlloc("idle", "input", size)
AllocOutput(size) == RequestAlloc("input", "output", size)

(* What the session takes from the arena while it runs.                    *)
Scratch(size) == RequestAlloc("output", "output", size)

Finish ==
  /\ phase = "output" /\ phase' = "ran"
  /\ UNCHANGED <<offset, warmup_offset, warmed_up, blocks, meta, used, served>>

(* A plausible mistake: back to the start of the slab.                     *)
RewindsFully ==
  /\ phase = "ran" /\ phase' = "idle"
  /\ offset' = 0
  /\ blocks' = {b \in blocks : b.kind = "meta"}
  /\ used' = 0 /\ served' = served + 1
  /\ UNCHANGED <<warmup_offset, warmed_up, meta>>

(* Another: the mark is set again after every request.                     *)
MarksAlways ==
  /\ phase = "ran" /\ phase' = "idle"
  /\ warmup_offset' = offset /\ warmed_up' = TRUE
  /\ blocks' = {b \in blocks : b.kind = "meta"}
  /\ used' = 0 /\ served' = served + 1
  /\ UNCHANGED <<offset, meta>>

(* reset, after every request: the first call sets the mark.               *)
Reset ==
  /\ phase = "ran" /\ phase' = "idle"
  /\ warmup_offset' = IF warmed_up THEN warmup_offset ELSE offset
  /\ warmed_up' = TRUE
  /\ offset' = warmup_offset'
  /\ blocks' = {b \in blocks : b.kind = "meta"}
  /\ used' = 0 /\ served' = served + 1
  /\ UNCHANGED meta

Next == \/ \E size \in Sizes : \/ BuildAlloc(size) \/ AllocInput(size)
                              \/ AllocOutput(size) \/ Scratch(size)
        \/ Built \/ PayloadMismatch \/ Finish \/ Reset

Spec == Init /\ [][Next]_vars

----------------------------------------------------------------------------
(* Properties                                                              *)

Block == [lo : Nat, hi : Nat, kind : {"meta", "request"}]

(* Every variable has its type.                                            *)
TypeOK ==
  /\ offset \in Nat /\ warmup_offset \in Nat /\ warmed_up \in BOOLEAN
  /\ phase \in {"building", "idle", "input", "output", "ran", "crashed"}
  /\ blocks \subseteq Block
  /\ meta \in Nat /\ used \in Nat /\ served \in Nat

Apart(a, b) == a.hi <= b.lo \/ b.hi <= a.lo

(* No two live blocks overlap and all lie inside the slab: a request never *)
(* writes over the engine's metadata or over another tensor of its own,    *)
(* before and after any number of resets.                                  *)
BlocksApart ==
  /\ \A a, b \in blocks : a # b => Apart(a, b)
  /\ \A b \in blocks : b.lo <= b.hi /\ b.hi <= Capacity

(* Where a request's memory begins.                                        *)
Floor == IF warmed_up THEN warmup_offset ELSE meta

(* Why it holds: the metadata lies below the floor, the request between    *)
(* the floor and the offset; the mark is at most one request high.         *)
Inductive ==
  /\ TypeOK /\ BlocksApart
  /\ offset = Floor + used /\ offset <= Capacity
  /\ meta <= MetaBudget /\ used <= RequestBudget
  /\ warmed_up => meta <= warmup_offset /\ warmup_offset <= meta + RequestBudget
  /\ \A b \in blocks : b.kind = "meta" => b.hi <= meta
  /\ \A b \in blocks : b.kind = "request" => Floor <= b.lo /\ b.hi <= offset
  /\ phase = "building" => ~warmed_up /\ \A b \in blocks : b.kind = "meta"
  /\ phase \in {"building", "idle"} => used = 0

(* An allocation fails only if the slab does not hold the metadata and two *)
(* requests: the mark keeps the first request's memory for good, so one    *)
(* request is not enough.                                                  *)
NoNullWhenFits ==
  phase = "crashed" => \/ Capacity < MetaBudget
                       \/ Capacity < meta + 2 * RequestBudget
=============================================================================

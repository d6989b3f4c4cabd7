------------------------ MODULE InferenceEngine_proofs ------------------------
(* Proofs about LumenArena, and about InferenceEngine and the processors   *)
(* over it, for every slab, model, image and sequence of requests.         *)
EXTENDS InferenceEngine, RingLemmas, TLAPS

(* A remainder is a natural number below the divisor.                      *)
LEMMA Remainder ==
  ASSUME NEW n \in Nat \ {0}, NEW k \in Nat
  PROVE  k % n \in Nat /\ k % n < n
OBVIOUS

(* A block takes at least its padding and its size.                        *)
LEMMA NeedCovers ==
  ASSUME offset \in Nat, NEW size \in Sizes
  PROVE  /\ size \in Nat /\ Padding \in Nat /\ Need(size) \in Nat
         /\ Padding + size <= Need(size)
<1>0. Align \in Nat \ {0} /\ size \in Nat BY ArenaAssumption
<1>1. PICK r \in Nat : r = offset % Align /\ r < Align BY <1>0, Remainder
<1>2. Align - r \in Nat BY <1>0, <1>1
<1>3. (Align - r) % Align \in Nat BY <1>0, <1>2, Remainder
<1>4. Padding \in Nat BY <1>1, <1>3 DEF Padding
<1>5. size + Align - 1 \in Nat BY <1>0
<1>6. PICK s \in Nat : s = (size + Align - 1) % Align /\ s < Align BY <1>0, <1>5, Remainder
<1>7. RoundUp(size) = size + Align - 1 - s BY <1>6 DEF RoundUp
<1>8. RoundUp(size) \in Nat /\ size <= RoundUp(size) BY <1>0, <1>6, <1>7
<1> HIDE DEF Padding
<1> QED BY <1>0, <1>4, <1>8 DEF Need

(* A block taken at the offset is apart from every block below it.         *)
LEMMA TakeKeepsApart ==
  ASSUME Inductive, NEW size \in Sizes, Fits(size), NEW kind \in {"meta", "request"},
         Take(size, kind)
  PROVE  /\ offset' = offset + Need(size) /\ offset' \in Nat /\ offset' <= Capacity
         /\ blocks' \subseteq Block /\ BlocksApart'
         /\ \E n \in Block : /\ blocks' = blocks \cup {n} /\ n.kind = kind
                             /\ offset <= n.lo /\ n.hi <= offset'
<1> DEFINE n == [lo |-> offset + Padding, hi |-> offset + Padding + size, kind |-> kind]
<1>1. /\ offset \in Nat /\ meta \in Nat /\ used \in Nat /\ warmup_offset \in Nat
      /\ blocks \subseteq Block /\ Capacity \in Nat
  BY ArenaAssumption DEF Inductive, TypeOK
<1>2. /\ size \in Nat /\ Padding \in Nat /\ Need(size) \in Nat
      /\ Padding + size <= Need(size)
  BY <1>1, NeedCovers
<1>3. offset' = offset + Need(size) /\ blocks' = blocks \cup {n} BY DEF Take
<1>4. offset' \in Nat /\ offset' <= Capacity BY <1>1, <1>2, <1>3 DEF Fits
<1>5. n \in Block /\ offset <= n.lo /\ n.lo <= n.hi /\ n.hi <= offset' /\ n.kind = kind
  BY <1>1, <1>2, <1>3 DEF Block
<1>6. ASSUME NEW b \in blocks PROVE b.hi <= offset
  <2>1. b \in Block BY <1>1
  <2>2. CASE b.kind = "meta"
    <3>1. b.hi <= meta BY <2>2 DEF Inductive
    <3>2. meta <= offset BY <1>1 DEF Inductive, Floor
    <3> QED BY <3>1, <3>2, <2>1, <1>1 DEF Block
  <2>3. CASE b.kind = "request" BY <2>3 DEF Inductive
  <2> QED BY <2>1, <2>2, <2>3 DEF Block
<1> HIDE DEF n
<1>7. ASSUME NEW b \in blocks PROVE Apart(b, n) /\ Apart(n, b)
  <2>1. b.hi \in Nat /\ n.lo \in Nat BY <1>1, <1>5 DEF Block
  <2>2. b.hi <= n.lo BY <2>1, <1>1, <1>5, <1>6
  <2> QED BY <2>2 DEF Apart
<1>8. \A a, b \in blocks : a # b => Apart(a, b) BY DEF Inductive, BlocksApart
<1>9. \A a, b \in blocks' : a # b => Apart(a, b) BY <1>3, <1>7, <1>8
<1>10. \A b \in blocks' : b.lo <= b.hi /\ b.hi <= Capacity
  <2>1. n.hi <= Capacity
    <3>1. n.hi \in Nat BY <1>5 DEF Block
    <3> QED BY <3>1, <1>1, <1>4, <1>5
  <2> QED BY <2>1, <1>3, <1>5 DEF Inductive, BlocksApart
<1>11. BlocksApart' BY <1>9, <1>10 DEF BlocksApart, Apart
<1> QED BY <1>1, <1>3, <1>4, <1>5, <1>11

(* A null pointer changes nothing but the phase.                           *)
LEMMA NullStep ==
  ASSUME Inductive, NEW size \in Sizes, NullPointer(size)
  PROVE  Inductive'
BY DEF NullPointer, Inductive, TypeOK, BlocksApart, Apart, Floor

(* Every step keeps the invariant.                                         *)
LEMMA StepInductive == Inductive /\ [Next]_vars => Inductive'
<1> SUFFICES ASSUME Inductive, [Next]_vars PROVE Inductive'
  OBVIOUS
<1>0. /\ offset \in Nat /\ meta \in Nat /\ used \in Nat /\ warmup_offset \in Nat
      /\ blocks \subseteq Block /\ MetaBudget \in Nat /\ RequestBudget \in Nat
      /\ served \in Nat /\ warmed_up \in BOOLEAN
  BY ArenaAssumption DEF Inductive, TypeOK
<1>1. ASSUME NEW size \in Sizes, BuildAlloc(size) PROVE Inductive'
  <2>1. CASE NullPointer(size) BY <2>1, NullStep
  <2>2. CASE Fits(size) /\ Take(size, "meta") /\ meta' = meta + Need(size)
             /\ UNCHANGED <<warmup_offset, warmed_up, phase, used, served>>
    <3>1. phase = "building" /\ meta + Need(size) <= MetaBudget /\ ~warmed_up /\ used = 0
      BY <1>1 DEF BuildAlloc, Inductive
    <3>2. offset = meta BY <3>1, <1>0 DEF Inductive, Floor
    <3>3. Need(size) \in Nat BY <1>0, NeedCovers
    <3>4. /\ offset' = offset + Need(size) /\ offset' \in Nat /\ offset' <= Capacity
          /\ blocks' \subseteq Block /\ BlocksApart'
      BY <2>2, TakeKeepsApart
    <3>5. PICK n \in Block : /\ blocks' = blocks \cup {n} /\ n.kind = "meta"
                             /\ offset <= n.lo /\ n.hi <= offset'
      BY <2>2, TakeKeepsApart
    <3>6. meta' \in Nat /\ meta' = offset' /\ meta <= meta' /\ meta' <= MetaBudget
      BY <2>2, <3>1, <3>2, <3>3, <3>4, <1>0
    <3>7. TypeOK' BY <2>2, <3>4, <3>6 DEF Inductive, TypeOK
    <3>8. \A b \in blocks' : b.kind = "meta" => b.hi <= meta'
      <4>1. ASSUME NEW b \in blocks, b.kind = "meta" PROVE b.hi <= meta'
        <5>1. b.hi <= meta /\ b.hi \in Nat BY <4>1, <1>0 DEF Inductive, Block
        <5> QED BY <5>1, <3>6, <1>0
      <4> QED BY <4>1, <3>5, <3>6
    <3>9. \A b \in blocks' : b.kind = "meta" BY <3>1, <3>5 DEF Inductive
    <3>10. Floor' = meta' BY <2>2, <3>1 DEF Floor
    <3>11. ~warmed_up' /\ used' = 0 BY <2>2, <3>1
    <3>12. offset' = Floor' + used'
      <4>1. used' = 0 BY <3>11
      <4>2. Floor' = offset' BY <3>6, <3>10
      <4> QED BY <3>4, <4>1, <4>2
    <3>13. used' <= RequestBudget BY <3>11, <1>0
    <3> QED BY <3>4, <3>6, <3>7, <3>8, <3>9, <3>11, <3>12, <3>13 DEF Inductive
  <2> QED BY <1>1, <2>1, <2>2 DEF BuildAlloc
<1>2. CASE Built
  BY <1>2 DEF Built, Inductive, TypeOK, BlocksApart, Apart, Floor
<1>3. CASE PayloadMismatch
  BY <1>3 DEF PayloadMismatch, Inductive, TypeOK, BlocksApart, Apart, Floor
<1>4. CASE Finish
  BY <1>4 DEF Finish, Inductive, TypeOK, BlocksApart, Apart, Floor
<1>5. ASSUME NEW size \in Sizes, NEW from \in {"idle", "input", "output"},
             NEW to \in {"input", "output"}, RequestAlloc(from, to, size)
      PROVE  Inductive'
  <2>1. CASE NullPointer(size) BY <2>1, NullStep
  <2>2. CASE Fits(size) /\ Take(size, "request") /\ used' = used + Need(size) /\ phase' = to
             /\ UNCHANGED <<warmup_offset, warmed_up, meta, served>>
    <3>1. phase # "building" /\ used + Need(size) <= RequestBudget BY <1>5 DEF RequestAlloc
    <3>2. Need(size) \in Nat BY <1>0, NeedCovers
    <3>3. /\ offset' = offset + Need(size) /\ offset' \in Nat /\ offset' <= Capacity
          /\ blocks' \subseteq Block /\ BlocksApart'
      BY <2>2, TakeKeepsApart
    <3>4. PICK n \in Block : /\ blocks' = blocks \cup {n} /\ n.kind = "request"
                             /\ offset <= n.lo /\ n.hi <= offset'
      BY <2>2, TakeKeepsApart
    <3>5. used' \in Nat /\ used' <= RequestBudget BY <2>2, <3>1, <3>2, <1>0
    <3>6. Floor' = Floor /\ Floor \in Nat /\ Floor <= offset
      BY <2>2, <1>0 DEF Floor, Inductive
    <3>7. offset' = Floor' + used' BY <2>2, <3>2, <3>3, <3>6, <1>0 DEF Inductive
    <3>8. TypeOK' BY <2>2, <3>3, <3>5 DEF Inductive, TypeOK
    <3>9. \A b \in blocks' : b.kind = "meta" => b.hi <= meta'
      BY <2>2, <3>4 DEF Inductive
    <3>10. \A b \in blocks' : b.kind = "request" => Floor' <= b.lo /\ b.hi <= offset'
      <4>1. ASSUME NEW b \in blocks, b.kind = "request" PROVE Floor <= b.lo /\ b.hi <= offset'
        <5>1. Floor <= b.lo /\ b.hi <= offset /\ b.hi \in Nat
          BY <4>1, <1>0 DEF Inductive, Block
        <5> QED BY <5>1, <3>2, <3>3, <1>0
      <4>2. Floor <= n.lo
        <5>1. n.lo \in Nat BY DEF Block
        <5> QED BY <5>1, <3>4, <3>6, <1>0
      <4> QED BY <4>1, <4>2, <3>4, <3>6
    <3>11. /\ warmed_up' => meta' <= warmup_offset' /\ warmup_offset' <= meta' + RequestBudget
           /\ meta' <= MetaBudget /\ phase' \notin {"building", "idle"}
      BY <2>2 DEF Inductive
    <3> QED BY <3>3, <3>5, <3>7, <3>8, <3>9, <3>10, <3>11 DEF Inductive
  <2> QED BY <1>5, <2>1, <2>2 DEF RequestAlloc
<1>6. CASE Reset
  <2>1. /\ phase' = "idle" /\ warmed_up' = TRUE /\ offset' = warmup_offset'
        /\ warmup_offset' = (IF warmed_up THEN warmup_offset ELSE offset)
        /\ blocks' = {b \in blocks : b.kind = "meta"}
        /\ used' = 0 /\ served' = served + 1 /\ meta' = meta
    BY <1>6 DEF Reset
  <2>2. TypeOK' BY <2>1, <1>0 DEF Inductive, TypeOK
  <2>3. BlocksApart' BY <2>1 DEF Inductive, BlocksApart, Apart
  <2>4. Floor' = warmup_offset' BY <2>1 DEF Floor
  <2>5. meta <= warmup_offset' /\ warmup_offset' <= meta + RequestBudget
    BY <2>1, <1>0 DEF Inductive, Floor
  <2>6. offset' <= Capacity
    BY <2>1, <1>0, ArenaAssumption DEF Inductive, Floor
  <2>7. \A b \in blocks' : b.kind = "meta" /\ b.hi <= meta' BY <2>1 DEF Inductive
  <2>8. offset' = Floor' + used' BY <2>1, <2>2, <2>4 DEF TypeOK
  <2>9. meta' <= MetaBudget /\ used' <= RequestBudget BY <2>1, <1>0 DEF Inductive
  <2> QED BY <2>1, <2>2, <2>3, <2>5, <2>6, <2>7, <2>8, <2>9 DEF Inductive
<1>7. CASE UNCHANGED vars
  BY <1>7 DEF vars, Inductive, TypeOK, BlocksApart, Apart, Floor
<1> QED BY <1>1, <1>2, <1>3, <1>4, <1>5, <1>6, <1>7
        DEF Next, AllocInput, AllocOutput, Scratch

LEMMA ArenaInit == Init => Inductive
<1> SUFFICES ASSUME Init PROVE Inductive
  OBVIOUS
<1>1. TypeOK BY DEF Init, TypeOK
<1>2. BlocksApart BY DEF Init, BlocksApart
<1>3. ~warmed_up BY DEF Init
<1>4. Floor = 0 BY <1>3 DEF Init, Floor
<1> QED BY <1>1, <1>2, <1>3, <1>4, ArenaAssumption DEF Init, Inductive

(* Metadata below the floor, the request above it, the mark at most one    *)
(* request high.                                                           *)
THEOREM ArenaInvariant == Spec => []Inductive
BY ArenaInit, StepInductive, PTL DEF Spec

(* Live blocks never overlap and never leave the slab.                     *)
THEOREM LiveBlocksApart == Spec => []BlocksApart
<1>1. Inductive => BlocksApart BY DEF Inductive
<1> QED BY <1>1, ArenaInvariant, PTL

(* A null pointer means that the slab is too small for two requests.       *)
LEMMA NoNullStep == Inductive /\ NoNullWhenFits /\ [Next]_vars => NoNullWhenFits'
<1> DEFINE TooSmall == Capacity < MetaBudget \/ Capacity < meta + 2 * RequestBudget
<1> SUFFICES ASSUME Inductive, NoNullWhenFits, [Next]_vars, phase' = "crashed"
             PROVE  TooSmall'
  BY DEF NoNullWhenFits
<1>0. /\ offset \in Nat /\ meta \in Nat /\ used \in Nat /\ warmup_offset \in Nat
      /\ MetaBudget \in Nat /\ RequestBudget \in Nat /\ Capacity \in Nat
  BY ArenaAssumption DEF Inductive, TypeOK
<1>1. ASSUME NEW size \in Sizes, NullPointer(size),
             \/ phase = "building" /\ meta + Need(size) <= MetaBudget
             \/ phase # "building" /\ used + Need(size) <= RequestBudget
      PROVE  TooSmall'
  <2>1. Need(size) \in Nat BY <1>0, NeedCovers
  <2>2. offset + Need(size) > Capacity BY <1>0, <1>1, <2>1 DEF NullPointer, Fits
  <2>3. CASE phase = "building" /\ meta + Need(size) <= MetaBudget
    <3>1. offset = meta BY <2>3, <1>0 DEF Inductive, Floor
    <3> QED BY <2>1, <2>2, <2>3, <3>1, <1>0
  <2>4. CASE used + Need(size) <= RequestBudget
    <3>1. Floor \in Nat /\ Floor <= meta + RequestBudget
      BY <1>0 DEF Inductive, Floor
    <3>2. offset = Floor + used BY DEF Inductive
    <3>3. Capacity < meta + 2 * RequestBudget
      BY <2>1, <2>2, <2>4, <3>1, <3>2, <1>0
    <3>4. meta' = meta BY <1>1 DEF NullPointer
    <3> QED BY <3>3, <3>4
  <2> QED BY <1>1, <2>3, <2>4
<1>2. ASSUME NEW size \in Sizes, BuildAlloc(size) PROVE TooSmall'
  <2>1. CASE NullPointer(size) BY <1>1, <1>2, <2>1 DEF BuildAlloc
  <2>2. CASE UNCHANGED phase BY <1>2, <2>2 DEF BuildAlloc
  <2> QED BY <1>2, <2>1, <2>2 DEF BuildAlloc
<1>3. ASSUME NEW size \in Sizes, NEW from \in {"idle", "input", "output"},
             NEW to \in {"input", "output"}, RequestAlloc(from, to, size)
      PROVE  TooSmall'
  <2>1. CASE NullPointer(size) BY <1>1, <1>3, <2>1 DEF RequestAlloc
  <2>2. CASE phase' = to BY <2>2
  <2> QED BY <1>3, <2>1, <2>2 DEF RequestAlloc
<1>4. CASE Built \/ PayloadMismatch \/ Finish \/ Reset
  BY <1>4 DEF Built, PayloadMismatch, Finish, Reset
<1>5. CASE UNCHANGED vars
  BY <1>5 DEF NoNullWhenFits, vars
<1> QED BY <1>2, <1>3, <1>4, <1>5 DEF Next, AllocInput, AllocOutput, Scratch

(* A slab for the metadata and two requests never runs out: one request's  *)
(* worth may stay below the mark for good, one is in use.                  *)
THEOREM TwoRequestsSuffice == Spec => []NoNullWhenFits
<1>1. Init => NoNullWhenFits BY DEF Init, NoNullWhenFits
<1> QED BY <1>1, NoNullStep, ArenaInvariant, PTL DEF Spec

----------------------------------------------------------------------------
(* The engine over the arena                                               *)

(* What the pod was built with stays.                                      *)
PodOK == /\ model \in Models /\ labels \in LabelFiles
         /\ alloc_type \in {"LUMEN_ARENA", "STANDARD"}

LEMMA PodStep == [EngineNext]_enginevars => UNCHANGED pod
BY DEF EngineNext, Migrate, SessionScratch, Ready, AllocateOutput, ResetArena, Mismatch,
       Preprocess, RunSession, enginevars

LEMMA PodKept == EngineSpec => []PodOK
<1>1. EngineInit => PodOK BY DEF EngineInit, PodOK
<1>2. PodOK /\ [EngineNext]_enginevars => PodOK' BY PodStep DEF PodOK, pod
<1> QED BY <1>1, <1>2, PTL DEF EngineSpec

(* With the arena, every step of run and of the worker is one of those     *)
(* that LumenArena knows, and other steps leave the arena alone.           *)
LEMMA ArenaStep ==
  ASSUME PodOK, [EngineNext]_enginevars, alloc_type = "LUMEN_ARENA"
  PROVE  [Next]_vars
<1>1. InputCount * FloatBytes \in Sizes /\ OutputCount * FloatBytes \in Sizes
  BY ModelAssumption DEF PodOK, InputCount, OutputCount
<1>2. ASSUME NEW size \in Requested, Migrate(size) \/ SessionScratch(size) PROVE Next
  BY <1>2, EngineAssumption DEF Migrate, SessionScratch, Next
<1>3. CASE Ready BY <1>3 DEF Ready, Next
<1>4. CASE AllocateOutput
  <2>1. RequestAlloc("input", "output", OutputCount * FloatBytes)
    BY <1>4 DEF AllocateOutput, Alloc, ArenaAlloc, StandardAlloc
  <2> QED BY <1>1, <2>1 DEF Next, AllocOutput
<1>5. CASE ResetArena BY <1>5 DEF ResetArena, Next
<1>6. ASSUME NEW p \in Payloads, Mismatch(p) PROVE Next BY <1>6 DEF Mismatch, Next
<1>7. ASSUME NEW p \in Payloads, Preprocess(p) PROVE Next
  <2>1. RequestAlloc("idle", "input", InputCount * FloatBytes) /\ served < MaxRequests
    BY <1>7 DEF Preprocess, Calls, Alloc, ArenaAlloc, StandardAlloc
  <2> QED BY <1>1, <2>1 DEF Next, AllocInput
<1>8. ASSUME NEW out \in [1..OutputCount -> Scores], RunSession(out) PROVE Next
  BY <1>8 DEF RunSession, Next
<1>9. CASE UNCHANGED enginevars BY <1>9 DEF enginevars, vars
<1> QED BY <1>2, <1>3, <1>4, <1>5, <1>6, <1>7, <1>8, <1>9 DEF EngineNext

(* InferenceEngine::run and worker_loop: on every way through run, the     *)
(* arena is used in the order that its theorems assume.                    *)
THEOREM EngineUsesArena == EngineSpec => ArenaDiscipline
<1>1. PodOK /\ [EngineNext]_enginevars => [alloc_type = "LUMEN_ARENA" => Next]_vars
  BY ArenaStep DEF enginevars
<1> QED BY <1>1, PodKept, PTL DEF EngineSpec, ArenaDiscipline

(* A pod with the standard allocator leaves its arena alone.               *)
LEMMA StandardStep ==
  ASSUME PodOK, [EngineNext]_enginevars, alloc_type = "STANDARD", TypeOK
  PROVE  /\ UNCHANGED <<offset, warmup_offset, warmed_up, blocks, meta, used>>
         /\ phase' # "building" \/ phase' = phase
         /\ phase' \in {"building", "idle", "input", "output", "ran", phase}
         /\ served' \in Nat
<1> USE DEF TypeOK
<1>1. ASSUME NEW size \in Requested, Migrate(size) \/ SessionScratch(size) PROVE FALSE
  BY <1>1 DEF Migrate, SessionScratch
<1>2. CASE Ready BY <1>2 DEF Ready, Built
<1>3. CASE AllocateOutput BY <1>3 DEF AllocateOutput, Alloc, ArenaAlloc, StandardAlloc
<1>4. CASE ResetArena
  <2>1. /\ phase' = "idle" /\ served' = served + 1
        /\ UNCHANGED <<offset, warmup_offset, warmed_up, blocks, meta, used>>
    <3>1. alloc_type # "LUMEN_ARENA" OBVIOUS
    <3> QED BY <1>4, <3>1 DEF ResetArena
  <2> QED BY <2>1
<1>5. ASSUME NEW p \in Payloads, Mismatch(p) \/ Preprocess(p)
      PROVE  /\ UNCHANGED <<offset, warmup_offset, warmed_up, blocks, meta, used, served>>
             /\ phase' \in {"ran", "input"}
  BY <1>5 DEF Mismatch, PayloadMismatch, Preprocess, Alloc, ArenaAlloc, StandardAlloc
<1>6. ASSUME NEW out \in [1..OutputCount -> Scores], RunSession(out)
      PROVE  /\ UNCHANGED <<offset, warmup_offset, warmed_up, blocks, meta, used, served>>
             /\ phase' = "ran"
  BY <1>6 DEF RunSession, Finish
<1>7. CASE UNCHANGED enginevars BY <1>7 DEF enginevars, vars
<1> QED BY <1>1, <1>2, <1>3, <1>4, <1>5, <1>6, <1>7 DEF EngineNext

(* The arena's invariant inside the engine.                                *)
EngineArena == /\ Inductive /\ NoNullWhenFits
               /\ alloc_type = "STANDARD" => used = 0 /\ phase # "crashed"

LEMMA EngineArenaStep == PodOK /\ EngineArena /\ [EngineNext]_enginevars => EngineArena'
<1> SUFFICES ASSUME PodOK, EngineArena, [EngineNext]_enginevars PROVE EngineArena'
  OBVIOUS
<1>0. alloc_type' = alloc_type BY PodStep DEF pod
<1>1. CASE alloc_type = "LUMEN_ARENA"
  <2>1. [Next]_vars BY <1>1, ArenaStep
  <2> QED BY <1>0, <1>1, <2>1, StepInductive, NoNullStep DEF EngineArena
<1>2. CASE alloc_type = "STANDARD"
  <2>1. TypeOK BY DEF EngineArena, Inductive
  <2>2. /\ UNCHANGED <<offset, warmup_offset, warmed_up, blocks, meta, used>>
        /\ phase' # "building" \/ phase' = phase
        /\ phase' \in {"building", "idle", "input", "output", "ran", phase}
        /\ served' \in Nat
    BY <1>2, <2>1, StandardStep
  <2>3. used = 0 /\ phase # "crashed" BY <1>2 DEF EngineArena
  <2>4. TypeOK' BY <2>1, <2>2 DEF TypeOK
  <2>5. BlocksApart' /\ Floor' = Floor
    BY <2>2 DEF EngineArena, Inductive, BlocksApart, Apart, Floor
  <2>6. Inductive' BY <2>2, <2>3, <2>4, <2>5 DEF EngineArena, Inductive
  <2>7. phase' # "crashed" BY <2>2, <2>3
  <2> QED BY <1>0, <2>2, <2>3, <2>6, <2>7 DEF EngineArena, NoNullWhenFits
<1> QED BY <1>1, <1>2 DEF PodOK

LEMMA EngineArenaHolds == EngineSpec => []EngineArena
<1>1. EngineInit => EngineArena
  BY ArenaInit DEF EngineInit, Init, EngineArena, NoNullWhenFits
<1> QED BY <1>1, EngineArenaStep, PodKept, PTL DEF EngineSpec

(* run's tensors, what the session takes and the metadata never overlap or *)
(* leave the slab, and the slab runs out only if it does not hold the      *)
(* metadata and two requests, for every model and payload.                 *)
THEOREM EngineMemory == EngineSpec => [](BlocksApart /\ NoNullWhenFits)
<1>1. EngineArena => BlocksApart /\ NoNullWhenFits BY DEF EngineArena, Inductive
<1> QED BY <1>1, EngineArenaHolds, PTL

----------------------------------------------------------------------------
(* The number of a tensor's elements                                       *)

(* The factor that dimension d contributes, and the equation that Count's  *)
(* recursive function solves.                                              *)
Times(i, d) == IF d > 0 THEN i * d ELSE i
IsProd(dims, f) == f = [k \in 0..Len(dims) |-> IF k = 0 THEN 1 ELSE Times(f[k - 1], dims[k])]

LEMMA CountChoice == \A dims : Count(dims) = (CHOOSE f : IsProd(dims, f))[Len(dims)]
  BY DEF Count, IsProd, Times

LEMMA TimesPositive ==
  ASSUME NEW i \in Nat \ {0}, NEW d \in Dim
  PROVE  Times(i, d) \in Nat \ {0}
<1>1. CASE d > 0
  <2>1. d \in Nat \ {0} BY <1>1 DEF Dim
  <2>2. i * d \in Nat \ {0} BY <2>1
  <2> QED BY <1>1, <2>2 DEF Times
<1>2. CASE ~(d > 0) BY <1>2 DEF Times
<1> QED BY <1>1, <1>2

LEMMA ProdExists ==
  ASSUME NEW dims \in Seq(Dim)
  PROVE  \E f : IsProd(dims, f)
<1> DEFINE n == Len(dims)
           S == Nat \ {0}
           G == [p \in (1..n) \X S |-> Times(p[2], dims[p[1]])]
<1>1. n \in Nat /\ \A k \in 1..n : dims[k] \in Dim OBVIOUS
<1>2. G \in [(1..n) \X S -> S]
  <2>1. ASSUME NEW p \in (1..n) \X S PROVE Times(p[2], dims[p[1]]) \in S
    <3>1. p[2] \in S /\ p[1] \in 1..n OBVIOUS
    <3>2. dims[p[1]] \in Dim BY <1>1, <3>1
    <3> QED BY <3>1, <3>2, TimesPositive
  <2> QED BY <2>1
<1>3. \A k \in 1..n, i \in S : G[<<k, i>>] = Times(i, dims[k]) OBVIOUS
<1>4. 1 \in S OBVIOUS
<1> HIDE DEF n, G, S
<1>5. PICK f \in [0..n -> S] : f[0] = 1 /\ \A k \in 1..n : f[k] = G[<<k, f[k - 1]>>]
  <2>1. Solvable(n, S, 1, G) BY <1>1, <1>2, <1>4, RecursionUpTo, Zenon
  <2> QED BY <2>1 DEF Solvable
<1>6. ASSUME NEW k \in 0..n PROVE f[k] = IF k = 0 THEN 1 ELSE Times(f[k - 1], dims[k])
  <2>1. CASE k = 0 BY <1>5, <2>1
  <2>2. CASE k # 0
    <3>1. k \in 1..n /\ k - 1 \in 0..n BY <1>1, <2>2
    <3>2. f[k - 1] \in S BY <3>1
    <3>3. f[k] = G[<<k, f[k - 1]>>] BY <1>5, <3>1
    <3>4. f[k] = Times(f[k - 1], dims[k]) BY <1>3, <3>1, <3>2, <3>3, Zenon
    <3> QED BY <2>2, <3>4
  <2> QED BY <2>1, <2>2
<1>7. f = [k \in 0..n |-> IF k = 0 THEN 1 ELSE Times(f[k - 1], dims[k])]
  <2>1. f = [k \in 0..n |-> f[k]] OBVIOUS
  <2> QED BY <1>6, <2>1
<1>8. IsProd(dims, f) BY <1>7 DEF IsProd, n
<1> QED BY <1>8

LEMMA CountOf ==
  ASSUME NEW dims \in Seq(Dim)
  PROVE  \E f \in [0..Len(dims) -> Nat \ {0}] :
           /\ Count(dims) = f[Len(dims)] /\ f[0] = 1
           /\ \A k \in 1..Len(dims) : f[k] = Times(f[k - 1], dims[k])
<1>1. PICK f : IsProd(dims, f) /\ Count(dims) = f[Len(dims)]
  BY ProdExists, CountChoice
<1>2. PICK n \in Nat : n = Len(dims) OBVIOUS
<1>3. \A k \in 1..n : dims[k] \in Dim BY <1>2
<1>4. f = [k \in 0..n |-> IF k = 0 THEN 1 ELSE Times(f[k - 1], dims[k])]
  BY <1>1, <1>2 DEF IsProd
<1>5. f[0] = 1 /\ \A k \in 1..n : f[k] = Times(f[k - 1], dims[k])
  <2>1. \A k \in 0..n : f[k] = IF k = 0 THEN 1 ELSE Times(f[k - 1], dims[k]) BY <1>4
  <2>2. \A k \in 1..n : k \in 0..n /\ k # 0 OBVIOUS
  <2>3. 0 \in 0..n OBVIOUS
  <2> QED BY <2>1, <2>2, <2>3
<1> DEFINE T == {k \in 0..n : f[k] \in Nat \ {0}}
<1>6. 0 \in T BY <1>5
<1>7. ASSUME NEW k \in 1..n, k - 1 \in T PROVE k \in T
  <2>1. f[k - 1] \in Nat \ {0} /\ dims[k] \in Dim BY <1>3, <1>7
  <2>2. f[k] \in Nat \ {0} BY <1>5, <2>1, TimesPositive
  <2> QED BY <2>2
<1> HIDE DEF T
<1>8. \A k \in 0..n : k \in T BY <1>6, <1>7, InductionUpTo
<1>9. f \in [0..n -> Nat \ {0}]
  <2>1. \A k \in 0..n : f[k] \in Nat \ {0} BY <1>8 DEF T
  <2>2. f = [k \in 0..n |-> f[k]] BY <1>4
  <2> QED BY <2>1, <2>2
<1> QED BY <1>1, <1>2, <1>5, <1>9

LEMMA CountPositive ==
  ASSUME NEW dims \in Seq(Dim)
  PROVE  Count(dims) \in Nat \ {0}
<1>1. PICK f \in [0..Len(dims) -> Nat \ {0}] : Count(dims) = f[Len(dims)] BY CountOf
<1>2. Len(dims) \in 0..Len(dims) OBVIOUS
<1> QED BY <1>1, <1>2

(* An image with a width and a height has Planes planes of their product.  *)
LEMMA InputShape ==
  ASSUME NEW dims \in Seq(Dim), Len(dims) = 4, dims[3] > 0, dims[4] > 0
  PROVE  /\ dims[3] \in Nat \ {0} /\ dims[4] \in Nat \ {0}
         /\ Count(SubSeq(dims, 1, 2)) \in Nat \ {0}
         /\ Count(dims) = (Count(SubSeq(dims, 1, 2)) * dims[3]) * dims[4]
<1> DEFINE e == SubSeq(dims, 1, 2)
<1>1. e \in Seq(Dim) /\ Len(e) = 2 /\ e[1] = dims[1] /\ e[2] = dims[2] OBVIOUS
<1>2. dims[3] \in Nat \ {0} /\ dims[4] \in Nat \ {0}
  <2>1. 3 \in 1..Len(dims) /\ 4 \in 1..Len(dims) OBVIOUS
  <2>2. PICK D : D = Dim OBVIOUS
  <2>3. \A d \in Seq(D) : \A k \in 1..Len(d) : d[k] \in D OBVIOUS
  <2>4. dims[3] \in Dim /\ dims[4] \in Dim BY <2>1, <2>2, <2>3, Zenon
  <2> QED BY <2>4 DEF Dim
<1> HIDE DEF e
<1>3. PICK f \in [0..4 -> Nat \ {0}] :
        /\ Count(dims) = f[4] /\ f[0] = 1 /\ \A k \in 1..4 : f[k] = Times(f[k - 1], dims[k])
  <2>1. \E f \in [0..Len(dims) -> Nat \ {0}] :
           /\ Count(dims) = f[Len(dims)] /\ f[0] = 1
           /\ \A k \in 1..Len(dims) : f[k] = Times(f[k - 1], dims[k])
    BY CountOf
  <2> QED BY <2>1, Zenon
<1>4. PICK g \in [0..2 -> Nat \ {0}] :
        /\ Count(e) = g[2] /\ g[0] = 1 /\ \A k \in 1..2 : g[k] = Times(g[k - 1], e[k])
  <2>1. \E g \in [0..Len(e) -> Nat \ {0}] :
           /\ Count(e) = g[Len(e)] /\ g[0] = 1
           /\ \A k \in 1..Len(e) : g[k] = Times(g[k - 1], e[k])
    BY <1>1, CountOf
  <2> QED BY <1>1, <2>1, Zenon
<1>5. /\ f[1] = Times(f[0], dims[1]) /\ f[2] = Times(f[1], dims[2])
      /\ f[3] = Times(f[2], dims[3]) /\ f[4] = Times(f[3], dims[4])
  BY <1>3
<1>6. g[1] = Times(g[0], e[1]) /\ g[2] = Times(g[1], e[2]) BY <1>4
<1>7. f[2] = g[2]
  <2>1. f[1] = g[1] BY <1>1, <1>3, <1>4, <1>5, <1>6, ZenonT(30)
  <2> QED BY <1>1, <1>5, <1>6, <2>1, ZenonT(30)
<1>8. f[3] = f[2] * dims[3] /\ f[4] = f[3] * dims[4] BY <1>5 DEF Times
<1>9. Count(e) \in Nat \ {0} BY <1>4
<1> QED BY <1>2, <1>3, <1>4, <1>7, <1>8, <1>9, Zenon DEF e

----------------------------------------------------------------------------
(* The index arithmetic of transform                                       *)

(* A pixel's number inside its plane.                                      *)
LEMMA PixelInPlane ==
  ASSUME NEW w \in Nat \ {0}, NEW h \in Nat \ {0}, NEW y \in 0..(h - 1), NEW x \in 0..(w - 1)
  PROVE  y * w + x \in 0..(w * h - 1)
<1>1. PICK z \in Nat : z = (h - 1) - y OBVIOUS
<1>2. y = (h - 1) - z BY <1>1
<1>3. z * w \in Nat /\ y * w \in Nat BY <1>1
<1>4. (y + z + 1) * w = y * w + z * w + w BY <1>1
<1>5. y + z + 1 = h BY <1>1
<1>6. w * h = y * w + z * w + w BY <1>4, <1>5
<1> QED BY <1>3, <1>6

LEMMA AreaPositive ==
  ASSUME NEW w \in Nat \ {0}, NEW h \in Nat \ {0}
  PROVE  w * h \in Nat \ {0}
OBVIOUS

(* Plane c of a tensor of three planes of a values; three bytes a pixel.   *)
LEMMA OffsetsInside ==
  ASSUME NEW a \in Nat \ {0}, NEW c \in 0..2, NEW r \in 0..(a - 1)
  PROVE  /\ c * a + r \in 0..(3 * a - 1)
         /\ r * 3 + c \in 0..(3 * a - 1)
<1>1. c = 0 \/ c = 1 \/ c = 2 OBVIOUS
<1>2. CASE c = 0 BY <1>2
<1>3. CASE c = 1 BY <1>3
<1>4. CASE c = 2 BY <1>4
<1> QED BY <1>1, <1>2, <1>3, <1>4

(* Division by the area takes an offset apart.                             *)
LEMMA TakenApart ==
  ASSUME NEW a \in Nat \ {0}, NEW c \in Nat, NEW r \in 0..(a - 1)
  PROVE  (c * a + r) \div a = c /\ (c * a + r) % a = r
<1>1. PICK d \in Nat : d = c * a + r OBVIOUS
<1>2. PICK q \in Nat : q = d \div a OBVIOUS
<1>3. PICK s \in 0..(a - 1) : s = d % a /\ d = a * q + s BY <1>2
<1>4. a * c = c * a /\ a * q = q * a OBVIOUS
<1>5. a * c + r = a * q + s BY <1>1, <1>3, <1>4
<1>6. q = c
  <2>1. CASE q < c
    <3>1. PICK e \in Nat : c = q + 1 + e
      <4>1. c - q - 1 \in Nat /\ c = q + 1 + (c - q - 1) BY <1>2, <2>1
      <4> QED BY <4>1, Zenon
    <3>2. a * c = a * q + a + a * e BY <1>2, <3>1
    <3>3. a * e \in Nat /\ a * q \in Nat BY <1>2, <3>1
    <3> QED BY <1>3, <1>5, <3>2, <3>3
  <2>2. CASE q > c
    <3>1. PICK e \in Nat : q = c + 1 + e
      <4>1. q - c - 1 \in Nat /\ q = c + 1 + (q - c - 1) BY <1>2, <2>2
      <4> QED BY <4>1, Zenon
    <3>2. a * q = a * c + a + a * e BY <3>1
    <3>3. a * e \in Nat /\ a * c \in Nat BY <3>1
    <3> QED BY <1>3, <1>5, <3>2, <3>3
  <2> QED BY <1>2, <2>1, <2>2
<1>7. s = r BY <1>3, <1>5, <1>6
<1> QED BY <1>1, <1>2, <1>3, <1>6, <1>7

(* What a visit reads and writes, by its pixel and its channel.            *)
LEMMA VisitOf ==
  ASSUME NEW w \in Nat \ {0}, NEW h \in Nat \ {0}, NEW v \in Visits(w, h)
  PROVE  \E r \in 0..(w * h - 1) :
           /\ v[3] \in 0..2 /\ r = v[1] * w + v[2]
           /\ DstIdx(v[1], v[2], v[3], w, h) = v[3] * (w * h) + r
           /\ SrcIdx(v[1], v[2], v[3], w) = r * 3 + v[3]
<1>1. v[1] \in 0..(h - 1) /\ v[2] \in 0..(w - 1) /\ v[3] \in 0..2 BY DEF Visits
<1>2. v[1] * w + v[2] \in 0..(w * h - 1) BY <1>1, PixelInPlane
<1> QED BY <1>1, <1>2 DEF DstIdx, SrcIdx

(* Three planes or more, and a payload of that many bytes, suffice.        *)
LEMMA StaysInside ==
  ASSUME NEW w \in Nat \ {0}, NEW h \in Nat \ {0}, NEW n \in Nat, n >= 3,
         NEW p \in Nat, (n * h) * w <= p
  PROVE  InBounds(w, h, (n * h) * w, p)
<1>1. PICK a \in Nat \ {0} : a = w * h BY AreaPositive
<1>2. (n * h) * w = n * a BY <1>1
<1>3. 3 * a <= n * a
  <2>1. PICK e \in Nat : n = 3 + e
    <3>1. n - 3 \in Nat /\ n = 3 + (n - 3) OBVIOUS
    <3> QED BY <3>1, Zenon
  <2>2. n * a = 3 * a + e * a /\ e * a \in Nat BY <2>1
  <2> QED BY <2>2
<1>4. ASSUME NEW v \in Visits(w, h)
      PROVE  /\ DstIdx(v[1], v[2], v[3], w, h) < (n * h) * w
             /\ SrcIdx(v[1], v[2], v[3], w) < p
  <2>1. PICK r \in 0..(a - 1) : /\ v[3] \in 0..2
                                /\ DstIdx(v[1], v[2], v[3], w, h) = v[3] * a + r
                                /\ SrcIdx(v[1], v[2], v[3], w) = r * 3 + v[3]
    BY <1>1, VisitOf
  <2>2. v[3] * a + r \in 0..(3 * a - 1) /\ r * 3 + v[3] \in 0..(3 * a - 1)
    BY <2>1, OffsetsInside
  <2>3. n * a \in Nat /\ n * a <= p BY <1>2
  <2> QED BY <1>2, <1>3, <2>1, <2>2, <2>3
<1> QED BY <1>4 DEF InBounds

(* And with less than three planes the last visit is outside.              *)
LEMMA ThreePlanesNeeded ==
  ASSUME NEW w \in Nat \ {0}, NEW h \in Nat \ {0}, NEW n \in Nat, NEW p \in Nat,
         InBounds(w, h, (n * h) * w, p)
  PROVE  n >= 3
<1>1. PICK a \in Nat \ {0} : a = w * h BY AreaPositive
<1>2. <<h - 1, w - 1, 2>> \in Visits(w, h) BY DEF Visits
<1>3. DstIdx(h - 1, w - 1, 2, w, h) < (n * h) * w BY <1>2 DEF InBounds
<1>4. (h - 1) * w + (w - 1) = a - 1 BY <1>1
<1>5. DstIdx(h - 1, w - 1, 2, w, h) = 2 * a + (a - 1) BY <1>1, <1>4 DEF DstIdx
<1>6. (n * h) * w = n * a BY <1>1
<1>7. 3 * a - 1 < n * a BY <1>3, <1>5, <1>6
<1>8. SUFFICES ASSUME n <= 2 PROVE FALSE OBVIOUS
<1>9. n * a <= 2 * a
  <2>1. n = 0 \/ n = 1 \/ n = 2 BY <1>8
  <2> QED BY <2>1
<1> QED BY <1>7, <1>9

(* Quotient and remainder of an offset below b * a.                        *)
LEMMA DivBelow ==
  ASSUME NEW a \in Nat \ {0}, NEW b \in Nat, NEW d \in 0..(b * a - 1)
  PROVE  \E q \in 0..(b - 1), r \in 0..(a - 1) : d = q * a + r
<1>0. b * a \in Nat /\ d \in Nat OBVIOUS
<1>1. PICK q \in Nat : q = d \div a BY <1>0
<1>2. PICK r \in 0..(a - 1) : r = d % a /\ d = a * q + r BY <1>0, <1>1
<1>3. a * q = q * a OBVIOUS
<1>4. d = q * a + r BY <1>2, <1>3
<1>5. q \in 0..(b - 1)
  <2> SUFFICES ASSUME q >= b PROVE FALSE BY <1>1
  <2>1. PICK e \in Nat : q = b + e
    <3>1. q - b \in Nat /\ q = b + (q - b) BY <1>1
    <3> QED BY <3>1, Zenon
  <2>2. q * a = b * a + e * a /\ e * a \in Nat BY <2>1
  <2> QED BY <1>0, <1>2, <1>4, <2>2
<1> QED BY <1>4, <1>5, Zenon

(* t is the planar image, in a tensor of n planes, and all of it exactly   *)
(* if there are three.                                                     *)
IsPlanar(t, pixels, w, h, n) ==
  /\ DOMAIN t \subseteq 0..((n * h) * w - 1)
  /\ \A d \in DOMAIN t : t[d] = Planar(pixels, w, h, d)
  /\ n = 3 <=> DOMAIN t = 0..((n * h) * w - 1)

(* transform writes the planar image and nothing but it.                   *)
LEMMA TransformPlanar ==
  ASSUME NEW w \in Nat \ {0}, NEW h \in Nat \ {0}, NEW n \in Nat, NEW p \in Nat,
         InBounds(w, h, (n * h) * w, p), NEW pixels, NEW t, t = Transform(pixels, w, h)
  PROVE  IsPlanar(t, pixels, w, h, n)
<1>1. PICK a \in Nat \ {0} : a = w * h BY AreaPositive
<1>2. (n * h) * w = n * a BY <1>1
<1>3. n >= 3 BY ThreePlanesNeeded
<1> DEFINE dst(v) == DstIdx(v[1], v[2], v[3], w, h)
           src(v) == SrcIdx(v[1], v[2], v[3], w)
           visit(d) == CHOOSE u \in Visits(w, h) : dst(u) = d
<1>4. t = [d \in {dst(v) : v \in Visits(w, h)} |-> <<visit(d)[3], pixels[src(visit(d))]>>]
  BY DEF Transform
<1>5. ASSUME NEW v \in Visits(w, h)
      PROVE  \E r \in 0..(a - 1) : /\ v[3] \in 0..2 /\ dst(v) = v[3] * a + r
                                   /\ src(v) = r * 3 + v[3]
  BY <1>1, VisitOf
<1>6. ASSUME NEW d \in DOMAIN t
      PROVE  /\ visit(d) \in Visits(w, h) /\ dst(visit(d)) = d
             /\ t[d] = <<visit(d)[3], pixels[src(visit(d))]>>
  <2>1. \E v \in Visits(w, h) : dst(v) = d BY <1>4
  <2> QED BY <1>4, <2>1
<1>7. DOMAIN t = {dst(v) : v \in Visits(w, h)} BY <1>4
<1>8. \A y \in 0..(h - 1), x \in 0..(w - 1), c \in 0..2 :
        c * (w * h) + (y * w + x) \in DOMAIN t
  <2> SUFFICES ASSUME NEW y \in 0..(h - 1), NEW x \in 0..(w - 1), NEW c \in 0..2
               PROVE  c * (w * h) + (y * w + x) \in DOMAIN t
    OBVIOUS
  <2>1. <<y, x, c>> \in Visits(w, h) BY DEF Visits
  <2>2. dst(<<y, x, c>>) = c * (w * h) + (y * w + x) BY DEF DstIdx
  <2> QED BY <1>7, <2>1, <2>2
<1> HIDE DEF dst, src, visit
<1>9. ASSUME NEW d \in DOMAIN t
      PROVE  /\ d \in 0..(3 * a - 1)
             /\ t[d] = Planar(pixels, w, h, d)
  <2>1. PICK v \in Visits(w, h) : dst(v) = d /\ t[d] = <<v[3], pixels[src(v)]>> BY <1>6
  <2>2. PICK r \in 0..(a - 1) : v[3] \in 0..2 /\ dst(v) = v[3] * a + r /\ src(v) = r * 3 + v[3]
    BY <1>5
  <2>3. PICK c \in 0..2 : c = v[3] BY <2>2
  <2>4. d = c * a + r /\ src(v) = r * 3 + c BY <2>1, <2>2, <2>3
  <2>5. d \in 0..(3 * a - 1) BY <2>4, OffsetsInside
  <2>6. d \div a = c /\ d % a = r
    <3>1. c \in Nat OBVIOUS
    <3> QED BY <2>4, <3>1, TakenApart
  <2>7. t[d] = <<c, pixels[r * 3 + c]>> BY <2>1, <2>3, <2>4, Zenon
  <2> QED BY <1>1, <2>5, <2>6, <2>7 DEF Planar
<1>10. 3 * a <= n * a
  <2>1. PICK e \in Nat : n = 3 + e
    <3>1. n - 3 \in Nat /\ n = 3 + (n - 3) BY <1>3
    <3> QED BY <3>1, Zenon
  <2>2. n * a = 3 * a + e * a /\ e * a \in Nat BY <2>1
  <2> QED BY <2>2
<1>11. DOMAIN t \subseteq 0..(n * a - 1)
  <2>1. n * a \in Nat OBVIOUS
  <2>2. \A d \in 0..(3 * a - 1) : d \in 0..(n * a - 1) BY <1>10, <2>1
  <2> QED BY <1>9, <2>2
<1>12. ASSUME n = 3 PROVE 0..(n * a - 1) \subseteq DOMAIN t
  <2> SUFFICES ASSUME NEW d \in 0..(n * a - 1) PROVE d \in DOMAIN t
    OBVIOUS
  <2>1. PICK c \in 0..(n - 1), r \in 0..(a - 1) : d = c * a + r BY DivBelow
  <2>2. r \in 0..(h * w - 1) BY <1>1
  <2>3. PICK y \in 0..(h - 1), x \in 0..(w - 1) : r = y * w + x BY <2>2, DivBelow
  <2>4. c \in 0..2 BY <1>12
  <2>5. c * (w * h) + (y * w + x) \in DOMAIN t BY <1>8, <2>4
  <2> QED BY <1>1, <2>1, <2>3, <2>5, Zenon
<1>13. ASSUME n # 3 PROVE DOMAIN t # 0..(n * a - 1)
  <2>1. PICK e \in Nat : n = 4 + e
    <3>1. n - 4 \in Nat /\ n = 4 + (n - 4) BY <1>3, <1>13
    <3> QED BY <3>1, Zenon
  <2>2. n * a = 4 * a + e * a /\ e * a \in Nat BY <2>1
  <2>3. 3 * a \in 0..(n * a - 1) BY <2>2
  <2>4. 3 * a \notin 0..(3 * a - 1) OBVIOUS
  <2> QED BY <1>9, <2>3, <2>4
<1> QED BY <1>2, <1>9, <1>11, <1>12, <1>13 DEF IsPlanar

(* A model whose width and height are given.                               *)
LEMMA Shape ==
  ASSUME PodOK, ~Dynamic
  PROVE  /\ Width \in Nat \ {0} /\ Height \in Nat \ {0} /\ Planes \in Nat
         /\ InputCount = (Planes * Height) * Width
<1>1. model \in Models BY DEF PodOK
<1>2. model.input \in Seq(Dim) /\ Len(model.input) = 4 BY <1>1, ModelAssumption
<1>3. PICK dims \in Seq(Dim) : dims = model.input BY <1>2
<1>4. dims[3] \in Dim /\ dims[4] \in Dim /\ Len(dims) = 4 BY <1>2, <1>3
<1>5. dims[3] \in Int /\ dims[4] \in Int BY <1>4 DEF Dim
<1>6. ~(dims[3] <= 0) /\ ~(dims[4] <= 0) BY <1>3 DEF Dynamic, Height, Width
<1>7. dims[3] > 0 /\ dims[4] > 0 BY <1>5, <1>6
<1>8. /\ dims[3] \in Nat \ {0} /\ dims[4] \in Nat \ {0}
      /\ Count(SubSeq(dims, 1, 2)) \in Nat \ {0}
      /\ Count(dims) = (Count(SubSeq(dims, 1, 2)) * dims[3]) * dims[4]
  BY <1>4, <1>7, InputShape
<1> QED BY <1>3, <1>8 DEF Width, Height, Planes, InputCount

(* The tensor between its transform and the end of the session, and what a *)
(* transform outside its buffers is due to.                                *)
TensorMade ==
  /\ payload \in Nat
  /\ phase \in {"input", "output"} /\ ~fault =>
       /\ ~Dynamic /\ InBounds(Width, Height, InputCount, payload)
       /\ tensor = Transform([k \in 0..(payload - 1) |-> k], Width, Height)

LEMMA TensorStep ==
  ASSUME PodOK, TensorMade, TransformInside, [EngineNext]_enginevars
  PROVE  TensorMade' /\ TransformInside'
<1>0. model' = model BY PodStep DEF pod
<1>1. /\ Width' = Width /\ Height' = Height /\ InputCount' = InputCount /\ Planes' = Planes
      /\ Dynamic' = Dynamic
  BY <1>0 DEF Width, Height, InputCount, Planes, Dynamic
<1> DEFINE Image(p) == Transform([k \in 0..(p - 1) |-> k], Width, Height)
<1>2. ASSUME UNCHANGED <<payload, tensor, fault>>,
             phase' \in {"input", "output"} => phase \in {"input", "output"}
      PROVE  TensorMade' /\ TransformInside'
  <2> HIDE DEF Image
  <2>1. TensorMade <=>
          /\ payload \in Nat
          /\ phase \in {"input", "output"} /\ ~fault =>
               /\ ~Dynamic /\ InBounds(Width, Height, InputCount, payload)
               /\ tensor = Image(payload)
    BY DEF TensorMade, Image
  <2>2. TensorMade' <=>
          /\ payload' \in Nat
          /\ phase' \in {"input", "output"} /\ ~fault' =>
               /\ ~Dynamic /\ InBounds(Width, Height, InputCount, payload')
               /\ tensor' = Image(payload')
    BY <1>1 DEF TensorMade, Image
  <2> QED BY <1>1, <1>2, <2>1, <2>2 DEF TransformInside
<1>3. ASSUME payload' \in Nat, phase' \notin {"input", "output"}, UNCHANGED fault
      PROVE  TensorMade' /\ TransformInside'
  BY <1>1, <1>3 DEF TensorMade, TransformInside
<1>4. ASSUME NEW size \in Requested, Migrate(size) \/ SessionScratch(size)
      PROVE  TensorMade' /\ TransformInside'
  <2>1. UNCHANGED <<payload, tensor, fault>> BY <1>4 DEF Migrate, SessionScratch, task
  <2>2. phase' \in {"input", "output"} => phase \in {"input", "output"}
    BY <1>4 DEF Migrate, SessionScratch, BuildAlloc, Scratch, RequestAlloc, NullPointer
  <2> QED BY <1>2, <2>1, <2>2
<1>5. CASE Ready BY <1>2, <1>5 DEF Ready, task, Built
<1>6. CASE AllocateOutput
  <2>1. UNCHANGED <<payload, tensor, fault>> BY <1>6 DEF AllocateOutput, task
  <2>2. phase = "input"
    BY <1>6 DEF AllocateOutput, Alloc, ArenaAlloc, StandardAlloc, RequestAlloc
  <2> QED BY <1>2, <2>1, <2>2
<1>7. CASE ResetArena
  <2>1. payload' = 0 /\ UNCHANGED fault BY <1>7 DEF ResetArena
  <2>2. phase' = "idle" BY <1>7 DEF ResetArena, Reset
  <2> QED BY <1>3, <2>1, <2>2
<1>8. ASSUME NEW p \in Payloads, Mismatch(p) PROVE TensorMade' /\ TransformInside'
  <2>1. payload' = p /\ UNCHANGED fault /\ phase' = "ran" BY <1>8 DEF Mismatch, PayloadMismatch
  <2>2. p \in Nat BY ModelAssumption
  <2> QED BY <1>3, <2>1, <2>2
<1>9. ASSUME NEW out \in [1..OutputCount -> Scores], RunSession(out)
      PROVE  TensorMade' /\ TransformInside'
  <2>1. UNCHANGED <<payload, fault>> /\ phase' = "ran" BY <1>9 DEF RunSession, Finish
  <2> QED BY <1>3, <2>1 DEF TensorMade
<1>10. ASSUME NEW p \in Payloads, Preprocess(p) PROVE TensorMade' /\ TransformInside'
  <2> DEFINE inside == ~Dynamic /\ InBounds(Width, Height, InputCount, p)
  <2>1. /\ payload' = p /\ fault' = ~inside /\ ~TooShort(p)
        /\ tensor' = IF inside THEN Image(p) ELSE << >>
    BY <1>10 DEF Preprocess
  <2>2. p \in Nat BY ModelAssumption
  <2>3. TensorMade'
    <3> HIDE DEF Image
    <3>1. payload' \in Nat BY <2>1, <2>2
    <3>2. ASSUME ~fault'
          PROVE  /\ ~Dynamic /\ InBounds(Width, Height, InputCount, payload')
                 /\ tensor' = Image(payload')
      BY <2>1, <3>2
    <3> QED BY <1>1, <3>1, <3>2 DEF TensorMade, Image
  <2>4. TransformInside'
    <3> SUFFICES ASSUME fault', ~Dynamic, ~(Planes < 3) PROVE FALSE
      BY <1>1 DEF TransformInside
    <3>1. /\ Width \in Nat \ {0} /\ Height \in Nat \ {0} /\ Planes \in Nat
          /\ InputCount = (Planes * Height) * Width
      BY Shape
    <3>2. Planes >= 3 BY <3>1
    <3>3. InputCount <= p
      <4>1. InputCount \in Nat BY <3>1
      <4> QED BY <2>1, <2>2, <4>1 DEF TooShort
    <3>4. InBounds(Width, Height, (Planes * Height) * Width, p)
      BY <2>2, <3>1, <3>2, <3>3, StaysInside
    <3> QED BY <2>1, <3>1, <3>4
  <2> QED BY <2>3, <2>4
<1>11. CASE UNCHANGED enginevars
  BY <1>2, <1>11 DEF enginevars, task, vars
<1> QED BY <1>4, <1>5, <1>6, <1>7, <1>8, <1>9, <1>10, <1>11 DEF EngineNext

LEMMA TensorHolds == EngineSpec => [](PodOK /\ TensorMade /\ TransformInside)
<1>1. ASSUME EngineInit PROVE TensorMade /\ TransformInside
  <2>1. payload \in Nat /\ phase \notin {"input", "output"} BY <1>1 DEF EngineInit, Init
  <2>2. ~fault BY <1>1, Zenon DEF EngineInit
  <2> QED BY <2>1, <2>2 DEF TensorMade, TransformInside
<1> QED BY <1>1, TensorStep, PodKept, PTL DEF EngineSpec

(* The payload check keeps transform inside its two buffers for every      *)
(* image of three planes or more, of every width and height.               *)
THEOREM BuffersRespected == EngineSpec => []TransformInside
BY TensorHolds, PTL

(* Whenever the session may read the input tensor, it holds the planar     *)
(* image that transform promises, for every width and height.              *)
THEOREM ImagesPlanar == EngineSpec => []TensorPlanar
<1>1. PodOK /\ TensorMade => TensorPlanar
  <2> SUFFICES ASSUME PodOK, TensorMade, phase \in {"input", "output"}, ~fault
               PROVE  /\ DOMAIN tensor \subseteq 0..(InputCount - 1)
                      /\ \A d \in DOMAIN tensor :
                           tensor[d] = Planar([k \in 0..(payload - 1) |-> k], Width, Height, d)
                      /\ Planes = 3 <=> DOMAIN tensor = 0..(InputCount - 1)
    BY DEF TensorPlanar
  <2>1. PICK pixels : pixels = [k \in 0..(payload - 1) |-> k] OBVIOUS
  <2>2. /\ payload \in Nat /\ ~Dynamic /\ InBounds(Width, Height, InputCount, payload)
        /\ tensor = Transform(pixels, Width, Height)
    BY <2>1 DEF TensorMade
  <2>3. /\ Width \in Nat \ {0} /\ Height \in Nat \ {0} /\ Planes \in Nat
        /\ InputCount = (Planes * Height) * Width
    BY <2>2, Shape
  <2>4. /\ DOMAIN tensor \subseteq 0..((Planes * Height) * Width - 1)
        /\ \A d \in DOMAIN tensor : tensor[d] = Planar(pixels, Width, Height, d)
        /\ Planes = 3 <=> DOMAIN tensor = 0..((Planes * Height) * Width - 1)
    <3>0. PICK t : t = tensor OBVIOUS
    <3>1. PICK w \in Nat \ {0}, h \in Nat \ {0}, n \in Nat, p \in Nat :
            w = Width /\ h = Height /\ n = Planes /\ p = payload
      BY <2>2, <2>3, Zenon
    <3>2. InBounds(w, h, (n * h) * w, p) /\ t = Transform(pixels, w, h)
      BY <2>2, <2>3, <3>0, <3>1, Zenon
    <3>3. IsPlanar(t, pixels, w, h, n) BY <3>2, TransformPlanar, Zenon
    <3> QED BY <3>0, <3>1, <3>3, Zenon DEF IsPlanar
  <2> QED BY <2>1, <2>3, <2>4
<1> QED BY <1>1, TensorHolds, PTL

----------------------------------------------------------------------------
(* Labels and scores                                                       *)

(* What a line of the label file does to the labels, and the equation that *)
(* Labels' recursive function solves.                                      *)
Keep(s, line) == IF line # "" THEN Append(s, line) ELSE s
IsKept(lines, f) == f = [k \in 0..Len(lines) |-> IF k = 0 THEN << >> ELSE Keep(f[k - 1], lines[k])]
Line == STRING \ {""}

LEMMA LabelsChoice == \A lines : Labels(lines) = (CHOOSE f : IsKept(lines, f))[Len(lines)]
  BY DEF Labels, IsKept, Keep

LEMMA KeepLines ==
  ASSUME NEW s \in Seq(Line), NEW line \in STRING
  PROVE  Keep(s, line) \in Seq(Line)
<1>1. CASE line # ""
  <2>1. line \in Line BY <1>1 DEF Line
  <2> HIDE DEF Line
  <2>2. PICK S : S = Line OBVIOUS
  <2>3. \A r \in Seq(S), l \in S : Append(r, l) \in Seq(S) OBVIOUS
  <2>4. Append(s, line) \in Seq(Line) BY <2>1, <2>2, <2>3, Zenon
  <2> QED BY <1>1, <2>4 DEF Keep
<1>2. CASE line = "" BY <1>2 DEF Keep
<1> QED BY <1>1, <1>2

LEMMA KeptExists ==
  ASSUME NEW lines \in Seq(STRING)
  PROVE  \E f : IsKept(lines, f)
<1> DEFINE n == Len(lines)
           S == Seq(Line)
           G == [p \in (1..n) \X S |-> Keep(p[2], lines[p[1]])]
<1>1. n \in Nat /\ \A k \in 1..n : lines[k] \in STRING OBVIOUS
<1>2. G \in [(1..n) \X S -> S]
  <2>1. ASSUME NEW p \in (1..n) \X S PROVE Keep(p[2], lines[p[1]]) \in S
    <3>1. p[2] \in S /\ p[1] \in 1..n
      <4> HIDE DEF S
      <4> QED OBVIOUS
    <3>2. lines[p[1]] \in STRING BY <1>1, <3>1
    <3> QED BY <3>1, <3>2, KeepLines
  <2> HIDE DEF S
  <2> QED BY <2>1
<1>3. \A k \in 1..n, s \in S : G[<<k, s>>] = Keep(s, lines[k])
  <2> HIDE DEF S
  <2> QED OBVIOUS
<1>4. << >> \in S OBVIOUS
<1> HIDE DEF n, G, S
<1>5. PICK f \in [0..n -> S] : f[0] = << >> /\ \A k \in 1..n : f[k] = G[<<k, f[k - 1]>>]
  <2>1. Solvable(n, S, << >>, G) BY <1>1, <1>2, <1>4, RecursionUpTo, Zenon
  <2> QED BY <2>1 DEF Solvable
<1>6. ASSUME NEW k \in 0..n PROVE f[k] = IF k = 0 THEN << >> ELSE Keep(f[k - 1], lines[k])
  <2>1. CASE k = 0 BY <1>5, <2>1
  <2>2. CASE k # 0
    <3>1. k \in 1..n /\ k - 1 \in 0..n BY <1>1, <2>2
    <3>2. f[k - 1] \in S BY <3>1
    <3>3. f[k] = G[<<k, f[k - 1]>>] BY <1>5, <3>1
    <3>4. f[k] = Keep(f[k - 1], lines[k]) BY <1>3, <3>1, <3>2, <3>3, Zenon
    <3> QED BY <2>2, <3>4
  <2> QED BY <2>1, <2>2
<1>7. f = [k \in 0..n |-> IF k = 0 THEN << >> ELSE Keep(f[k - 1], lines[k])]
  <2>1. f = [k \in 0..n |-> f[k]] OBVIOUS
  <2> QED BY <1>6, <2>1
<1>8. IsKept(lines, f) BY <1>7 DEF IsKept, n
<1> QED BY <1>8

LEMMA LabelsOf ==
  ASSUME NEW lines \in Seq(STRING)
  PROVE  \E f : /\ Labels(lines) = f[Len(lines)] /\ f[0] = << >>
                /\ \A k \in 1..Len(lines) : f[k] = Keep(f[k - 1], lines[k])
                /\ \A k \in 0..Len(lines) : f[k] \in Seq(Line)
<1>1. PICK f : IsKept(lines, f) /\ Labels(lines) = f[Len(lines)]
  BY KeptExists, LabelsChoice
<1>2. PICK n \in Nat : n = Len(lines) OBVIOUS
<1>3. \A k \in 1..n : lines[k] \in STRING BY <1>2
<1>4. f = [k \in 0..n |-> IF k = 0 THEN << >> ELSE Keep(f[k - 1], lines[k])]
  BY <1>1, <1>2 DEF IsKept
<1>5. f[0] = << >> /\ \A k \in 1..n : f[k] = Keep(f[k - 1], lines[k])
  <2>1. \A k \in 0..n : f[k] = IF k = 0 THEN << >> ELSE Keep(f[k - 1], lines[k]) BY <1>4
  <2>2. \A k \in 1..n : k \in 0..n /\ k # 0 OBVIOUS
  <2>3. 0 \in 0..n OBVIOUS
  <2> QED BY <2>1, <2>2, <2>3
<1> DEFINE T == {k \in 0..n : f[k] \in Seq(Line)}
<1>6. 0 \in T
  <2>1. << >> \in Seq(Line) OBVIOUS
  <2>2. f[0] \in Seq(Line) BY <1>5, <2>1, Zenon
  <2>3. 0 \in 0..n OBVIOUS
  <2> QED BY <2>2, <2>3
<1>7. ASSUME NEW k \in 1..n, k - 1 \in T PROVE k \in T
  <2>1. f[k - 1] \in Seq(Line) /\ lines[k] \in STRING BY <1>3, <1>7
  <2>2. f[k] \in Seq(Line) BY <1>5, <2>1, KeepLines
  <2> QED BY <2>2
<1> HIDE DEF T
<1>8. \A k \in 0..n : k \in T BY <1>6, <1>7, InductionUpTo
<1>9. \A k \in 0..n : f[k] \in Seq(Line) BY <1>8 DEF T
<1> QED BY <1>1, <1>2, <1>5, <1>9, Zenon

LEMMA LabelsType ==
  ASSUME NEW lines \in Seq(STRING)
  PROVE  Labels(lines) \in Seq(Line)
<1>1. Len(lines) \in 0..Len(lines) OBVIOUS
<1> QED BY <1>1, LabelsOf

(* If no blank line comes before a label, the labels are the first lines.  *)
NoneBefore(lines) == \A k \in DOMAIN lines : lines[k] # "" =>
                       \A j \in DOMAIN lines : j < k => lines[j] # ""

LEMMA LabelsAreFirst ==
  ASSUME NEW lines \in Seq(STRING), NoneBefore(lines),
         NEW i \in Nat \ {0}
  PROVE  /\ i <= Len(Labels(lines)) =>
              i \in DOMAIN lines /\ lines[i] # "" /\ Labels(lines)[i] = lines[i]
         /\ i > Len(Labels(lines)) => i \notin DOMAIN lines \/ lines[i] = ""
<1>1. PICK f : /\ Labels(lines) = f[Len(lines)] /\ f[0] = << >>
               /\ \A k \in 1..Len(lines) : f[k] = Keep(f[k - 1], lines[k])
               /\ \A k \in 0..Len(lines) : f[k] \in Seq(Line)
  BY LabelsOf
<1>2. PICK n \in Nat : n = Len(lines) /\ DOMAIN lines = 1..n OBVIOUS
<1> DEFINE First(s, k) == /\ Len(s) <= k
                          /\ \A j \in 1..Len(s) : s[j] = lines[j] /\ lines[j] # ""
                          /\ \A j \in (Len(s) + 1)..k : lines[j] = ""
           T == {k \in 0..n : First(f[k], k)}
<1>3. 0 \in T
  <2>1. Len(<< >>) = 0 OBVIOUS
  <2>2. First(<< >>, 0) BY <2>1
  <2>3. 0 \in 0..n OBVIOUS
  <2> HIDE DEF First
  <2> QED BY <1>1, <2>2, <2>3, Zenon
<1>4. ASSUME NEW k \in 1..n, k - 1 \in T PROVE k \in T
  <2>1. PICK s \in Seq(Line) : s = f[k - 1] /\ First(s, k - 1)
    <3>1. k - 1 \in 0..Len(lines) BY <1>2
    <3>2. f[k - 1] \in Seq(Line) BY <1>1, <3>1
    <3> HIDE DEF First
    <3> QED BY <1>4, <3>2
  <2>2. f[k] = Keep(s, lines[k]) BY <1>1, <1>2, <2>1
  <2>3. Len(s) \in Nat /\ Len(s) <= k - 1
    <3>1. Len(s) \in Nat OBVIOUS
    <3> QED BY <2>1, <3>1, Zenon
  <2>4. CASE lines[k] = ""
    <3>1. Keep(s, lines[k]) = s BY <2>4 DEF Keep
    <3>2. First(s, k)
      <4>1. \A j \in (Len(s) + 1)..k : j = k \/ j \in (Len(s) + 1)..(k - 1) BY <2>3
      <4>2. \A j \in (Len(s) + 1)..k : lines[j] = "" BY <2>1, <2>4, <4>1
      <4>3. Len(s) <= k BY <2>3
      <4> QED BY <2>1, <4>2, <4>3
    <3> HIDE DEF First
    <3> QED BY <2>2, <3>1, <3>2
  <2>5. CASE lines[k] # ""
    <3>1. Len(s) = k - 1
      <4> SUFFICES ASSUME Len(s) < k - 1 PROVE FALSE BY <2>3
      <4>1. k - 1 \in (Len(s) + 1)..(k - 1) /\ k - 1 \in 1..n /\ k - 1 < k BY <2>3
      <4>2. lines[k - 1] = "" BY <2>1, <4>1
      <4>3. k \in DOMAIN lines /\ k - 1 \in DOMAIN lines BY <1>2, <4>1
      <4> QED BY <2>5, <4>1, <4>2, <4>3 DEF NoneBefore
    <3>2. PICK r \in Seq(Line) : r = Append(s, lines[k])
      <4>1. Keep(s, lines[k]) = Append(s, lines[k]) BY <2>5 DEF Keep
      <4>2. lines[k] \in STRING BY <1>2
      <4> QED BY <4>1, <4>2, KeepLines, Zenon
    <3>3. f[k] = r BY <2>2, <2>5, <3>2 DEF Keep
    <3>4. Len(r) = k /\ r[k] = lines[k] /\ \A j \in 1..(k - 1) : r[j] = s[j]
      <4> HIDE DEF Line
      <4>0. PICK S : S = Line OBVIOUS
      <4>1. PICK line \in S : line = lines[k]
        <5>1. lines[k] \in Line
          <6>1. lines[k] \in STRING BY <1>2
          <6> QED BY <2>5, <6>1 DEF Line
        <5> QED BY <4>0, <5>1
      <4>2. s \in Seq(S) /\ r = Append(s, line) BY <3>2, <4>0, <4>1
      <4> QED BY <3>1, <4>1, <4>2
    <3>5. First(r, k)
      <4>1. \A j \in 1..k : j = k \/ j \in 1..(k - 1) OBVIOUS
      <4>2. \A j \in 1..k : r[j] = lines[j] /\ lines[j] # ""
        BY <2>1, <2>5, <3>1, <3>4, <4>1
      <4>3. k <= k /\ \A j \in (k + 1)..k : FALSE OBVIOUS
      <4> QED BY <3>4, <4>2, <4>3, Zenon
    <3> HIDE DEF First
    <3> QED BY <3>3, <3>5
  <2> QED BY <2>4, <2>5
<1> HIDE DEF T
<1>5. \A k \in 0..n : k \in T BY <1>3, <1>4, InductionUpTo
<1>6. First(f[n], n)
  <2>1. n \in T BY <1>5
  <2> HIDE DEF First
  <2> QED BY <2>1 DEF T
<1>7. PICK L \in Seq(Line) : L = Labels(lines) /\ L = f[n] BY <1>1, <1>2
<1>8. First(L, n) BY <1>6, <1>7, Zenon
<1>9. Len(L) \in Nat /\ Len(L) <= n
  <2>1. Len(L) \in Nat OBVIOUS
  <2> QED BY <1>8, <2>1, Zenon
<1>10. ASSUME i <= Len(L) PROVE i \in 1..n /\ lines[i] # "" /\ L[i] = lines[i]
  <2>1. i \in 1..Len(L) /\ i \in 1..n BY <1>9, <1>10
  <2> QED BY <1>8, <2>1
<1>11. ASSUME i > Len(L), i \in 1..n PROVE lines[i] = ""
  <2>1. i \in (Len(L) + 1)..n BY <1>9, <1>11
  <2> QED BY <1>8, <2>1
<1> QED BY <1>2, <1>7, <1>10, <1>11

(* The class that std::max_element finds: a largest score, and the first.  *)
Best(s, i) == \A j \in DOMAIN s : s[j] <= s[i] /\ (j < i => s[j] < s[i])

LEMMA BestExists ==
  ASSUME NEW n \in Nat \ {0}, NEW s \in [1..n -> Int]
  PROVE  \E i \in DOMAIN s : Best(s, i)
<1> DEFINE Upto(k, i) == \A j \in 1..k : s[j] <= s[i] /\ (j < i => s[j] < s[i])
           T == {k \in 0..n : k = 0 \/ \E i \in 1..k : Upto(k, i)}
<1>1. 0 \in T OBVIOUS
<1>2. ASSUME NEW k \in 1..n, k - 1 \in T PROVE k \in T
  <2>0. \A j \in 1..k : j \in 1..n /\ s[j] \in Int /\ (j = k \/ j \in 1..(k - 1)) OBVIOUS
  <2>1. CASE k = 1
    <3>1. Upto(k, 1) BY <2>0, <2>1
    <3>2. 1 \in 1..k BY <2>1
    <3> HIDE DEF Upto
    <3> QED BY <3>1, <3>2
  <2>2. CASE k # 1
    <3>1. PICK i \in 1..(k - 1) : Upto(k - 1, i)
      <4> HIDE DEF Upto
      <4> QED BY <1>2, <2>2
    <3>2. i \in 1..k /\ k \in 1..k /\ s[i] \in Int /\ s[k] \in Int /\ i < k BY <2>0
    <3>3. CASE s[i] < s[k]
      <4>1. ASSUME NEW j \in 1..k PROVE s[j] <= s[k] /\ (j < k => s[j] < s[k])
        <5>1. CASE j = k BY <3>2, <5>1
        <5>2. CASE j \in 1..(k - 1)
          <6>1. s[j] \in Int /\ s[j] <= s[i] BY <2>0, <3>1, <5>2
          <6> QED BY <3>2, <3>3, <6>1
        <5> QED BY <2>0, <5>1, <5>2
      <4>2. Upto(k, k) BY <4>1
      <4> HIDE DEF Upto
      <4> QED BY <3>2, <4>2
    <3>4. CASE s[k] <= s[i]
      <4>1. ASSUME NEW j \in 1..k PROVE s[j] <= s[i] /\ (j < i => s[j] < s[i])
        BY <2>0, <3>1, <3>2, <3>4
      <4>2. Upto(k, i) BY <4>1
      <4> HIDE DEF Upto
      <4> QED BY <3>2, <4>2
    <3> QED BY <3>2, <3>3, <3>4
  <2> QED BY <2>1, <2>2
<1> HIDE DEF T
<1>3. n \in T
  <2>1. n \in Nat /\ n \in 0..n OBVIOUS
  <2> QED BY <1>1, <1>2, <2>1, InductionUpTo
<1>4. PICK i \in 1..n : Upto(n, i)
  <2> HIDE DEF Upto
  <2> QED BY <1>3 DEF T
<1>5. DOMAIN s = 1..n OBVIOUS
<1> QED BY <1>4, <1>5 DEF Best

(* handle_results answers with the label of a largest score, if there is   *)
(* one with its number.                                                    *)
Answers(s, L, i) == /\ \A j \in DOMAIN s : s[j] <= s[i]
                    /\ HandleResults(s, L) = IF i <= Len(L) THEN L[i] ELSE "Unknown"

LEMMA AnswerOf ==
  ASSUME NEW n \in Nat \ {0}, NEW s \in [1..n -> Int], NEW L \in Seq(Line)
  PROVE  \E i \in 1..n : Answers(s, L, i)
<1> DEFINE b == CHOOSE i \in DOMAIN s : Best(s, i)
<1>1. b \in DOMAIN s /\ Best(s, b)
  <2>1. \E i \in DOMAIN s : Best(s, i) BY BestExists
  <2> HIDE DEF Best
  <2> QED BY <2>1, Zenon
<1>2. ClassOf(s) = b - 1 BY DEF ClassOf, Best
<1> HIDE DEF b
<1>3. PICK i \in 1..n : i = b BY <1>1
<1>4. i - 1 + 1 = i /\ (i - 1 < Len(L) <=> i <= Len(L))
  <2>1. PICK m \in Nat : m = Len(L) OBVIOUS
  <2> QED BY <2>1
<1>5. s # << >>
  <2>1. 1 \in DOMAIN s OBVIOUS
  <2>2. DOMAIN << >> = {} OBVIOUS
  <2> QED BY <2>1, <2>2
<1>6. HandleResults(s, L) = IF i <= Len(L) THEN L[i] ELSE "Unknown"
  BY <1>2, <1>3, <1>4, <1>5, Zenon DEF HandleResults
<1>7. \A j \in DOMAIN s : s[j] <= s[i] BY <1>1, <1>3, Zenon DEF Best
<1> QED BY <1>6, <1>7 DEF Answers

LEMMA AnswerSays ==
  ASSUME NEW n \in Nat \ {0}, NEW s \in [1..n -> Int], NEW L \in Seq(Line)
  PROVE  HandleResults(s, L) # ""
<1>1. PICK i \in 1..n : Answers(s, L, i) BY AnswerOf
<1>2. CASE i <= Len(L)
  <2>1. i \in 1..Len(L)
    <3>1. PICK m \in Nat : m = Len(L) OBVIOUS
    <3> QED BY <1>2, <3>1
  <2>2. L[i] \in Line
    <3> HIDE DEF Line
    <3> QED BY <2>1
  <2>3. HandleResults(s, L) = L[i] BY <1>1, <1>2, Zenon DEF Answers
  <2> QED BY <2>2, <2>3 DEF Line
<1>3. CASE ~(i <= Len(L))
  <2>1. HandleResults(s, L) = "Unknown" BY <1>1, <1>3, Zenon DEF Answers
  <2> QED BY <2>1
<1> QED BY <1>2, <1>3

----------------------------------------------------------------------------
(* Results                                                                 *)

(* The counts of a pod's tensors, and the labels of its file.              *)
LEMMA PodCounts ==
  ASSUME PodOK
  PROVE  /\ InputCount \in Nat \ {0} /\ OutputCount \in Nat \ {0}
         /\ labels \in Seq(STRING) /\ Labels(labels) \in Seq(Line)
<1>1. model.input \in Seq(Dim) /\ model.output \in Seq(Dim) /\ labels \in Seq(STRING)
  BY ModelAssumption DEF PodOK
<1>2. \A dims \in Seq(Dim) : Count(dims) \in Nat \ {0} BY CountPositive
<1>3. InputCount \in Nat \ {0} /\ OutputCount \in Nat \ {0}
  BY <1>1, <1>2, Zenon DEF InputCount, OutputCount
<1> QED BY <1>1, <1>3, LabelsType

(* What the post-processor answers for the scores of one session.          *)
LEMMA AnswerOfLine ==
  ASSUME PodOK, NEW out \in [1..OutputCount -> Scores]
  PROVE  /\ HandleResults(out, Labels(labels)) # ""
         /\ ~Shifted =>
              \E i \in DOMAIN out :
                /\ \A j \in DOMAIN out : out[j] <= out[i]
                /\ HandleResults(out, Labels(labels)) =
                     IF i \in DOMAIN labels /\ labels[i] # "" THEN labels[i] ELSE "Unknown"
<1>1. PICK n \in Nat \ {0} : n = OutputCount BY PodCounts
<1>2. PICK lines \in Seq(STRING) : lines = labels BY PodCounts
<1>3. PICK L \in Seq(Line) : L = Labels(lines) BY <1>2, LabelsType
<1>4. out \in [1..n -> Int] BY <1>1, ModelAssumption
<1>5. HandleResults(out, L) # "" BY <1>4, AnswerSays
<1>6. PICK i \in 1..n : Answers(out, L, i) BY <1>4, AnswerOf
<1>7. ASSUME ~Shifted
      PROVE  HandleResults(out, L) =
               IF i \in DOMAIN lines /\ lines[i] # "" THEN lines[i] ELSE "Unknown"
  <2>1. NoneBefore(lines) BY <1>2, <1>7, Zenon DEF Shifted, NoneBefore
  <2>2. /\ i <= Len(L) => i \in DOMAIN lines /\ lines[i] # "" /\ L[i] = lines[i]
        /\ i > Len(L) => i \notin DOMAIN lines \/ lines[i] = ""
    <3>1. i \in Nat \ {0} OBVIOUS
    <3> QED BY <1>3, <2>1, <3>1, LabelsAreFirst, Zenon
  <2>3. i <= Len(L) \/ i > Len(L)
    <3>1. PICK m \in Nat : m = Len(L) OBVIOUS
    <3> QED BY <3>1
  <2>4. i > Len(L) => ~(i <= Len(L))
    <3>1. PICK m \in Nat : m = Len(L) OBVIOUS
    <3> QED BY <3>1
  <2> QED BY <1>6, <2>2, <2>3, <2>4, Zenon DEF Answers
<1>8. i \in DOMAIN out /\ \A j \in DOMAIN out : out[j] <= out[i]
  BY <1>4, <1>6 DEF Answers
<1> QED BY <1>2, <1>3, <1>5, <1>7, <1>8, Zenon

(* Between two requests nothing is held or timed; a request that goes on   *)
(* has a payload that is long enough, and holds its tensors only.          *)
Clean == /\ phase \in {"building", "idle"} => heap = {} /\ timed = {} /\ scores = << >>
         /\ phase \in {"input", "output"} =>
              /\ timed = {"preprocess_ms"} /\ payload >= InputCount
              /\ heap \subseteq {"input", "output"}

Answering == Clean /\ ResultWhole /\ LabelOfLine

LEMMA AnsweringStep ==
  ASSUME PodOK, EngineArena, TensorMade, Answering, [EngineNext]_enginevars
  PROVE  Answering'
<1>0. model' = model /\ labels' = labels BY PodStep DEF pod
<1>1. InputCount' = InputCount /\ Shifted' = Shifted BY <1>0 DEF InputCount, Shifted
<1>2. InputCount \in Nat BY PodCounts
<1>3. ASSUME phase' # "ran", Clean' PROVE Answering'
  BY <1>3 DEF Answering, ResultWhole, LabelOfLine
<1>4. ASSUME NEW size \in Requested, Migrate(size) \/ SessionScratch(size)
      PROVE  Answering'
  <2>1. UNCHANGED <<heap, timed, scores, payload>>
    BY <1>4 DEF Migrate, SessionScratch, task, standard
  <2>2. phase \in {"building", "output"} /\ phase' \in {phase, "crashed"}
    BY <1>4 DEF Migrate, SessionScratch, BuildAlloc, Scratch, RequestAlloc, NullPointer
  <2>3. Clean' BY <1>1, <2>1, <2>2 DEF Answering, Clean
  <2> QED BY <1>3, <2>2, <2>3
<1>5. CASE Ready
  <2>1. UNCHANGED <<heap, timed, scores, payload>> /\ phase = "building" /\ phase' = "idle"
    BY <1>5 DEF Ready, Built, task, standard
  <2>2. Clean' BY <2>1 DEF Answering, Clean
  <2> QED BY <1>3, <2>1, <2>2
<1>6. CASE AllocateOutput
  <2>1. UNCHANGED <<timed, scores, payload>> BY <1>6 DEF AllocateOutput, task
  <2>2. phase = "input" /\ phase' \in {"output", "crashed"} /\ heap' \subseteq heap \cup {"output"}
    BY <1>6 DEF AllocateOutput, Alloc, ArenaAlloc, StandardAlloc, RequestAlloc, NullPointer,
                standard
  <2>3. Clean' BY <1>1, <2>1, <2>2 DEF Answering, Clean
  <2> QED BY <1>3, <2>2, <2>3
<1>7. CASE ResetArena
  <2>1. UNCHANGED heap /\ scores' = << >> /\ timed' = {} BY <1>7 DEF ResetArena, standard
  <2>2. phase = "ran" /\ phase' = "idle" BY <1>7 DEF ResetArena, Reset
  <2>3. heap = {} BY <2>2 DEF Answering, ResultWhole
  <2>4. Clean' BY <2>1, <2>2, <2>3 DEF Clean
  <2> QED BY <1>3, <2>2, <2>4
<1>8. ASSUME NEW p \in Payloads, Mismatch(p) PROVE Answering'
  <2>1. /\ payload' = p /\ p < InputCount /\ response' = "Error: Payload size mismatch"
        /\ timed' = {} /\ UNCHANGED <<scores, heap, used>> /\ phase = "idle" /\ phase' = "ran"
    BY <1>8 DEF Mismatch, TooShort, PayloadMismatch, standard
  <2>2. heap = {} /\ scores = << >> BY <2>1 DEF Answering, Clean
  <2>3. used = 0 BY <2>1 DEF EngineArena, Inductive
  <2>4. p \in Nat BY ModelAssumption
  <2>5. ResultWhole'
    <3>0. \A c \in Nat : p < c => ~(p >= c) BY <2>4
    <3>1. ~(payload' >= InputCount') BY <1>1, <1>2, <2>1, <3>0, Zenon
    <3>2. heap' = {} /\ used' = 0 /\ timed' = {} BY <2>1, <2>2, <2>3
    <3>3. response' # "" BY <2>1
    <3> QED BY <3>1, <3>2, <3>3, Zenon DEF ResultWhole
  <2>6. LabelOfLine' BY <2>1, <2>2 DEF LabelOfLine
  <2>7. Clean' BY <2>1 DEF Clean
  <2> QED BY <2>5, <2>6, <2>7 DEF Answering
<1>9. ASSUME NEW p \in Payloads, Preprocess(p) PROVE Answering'
  <2>1. payload' = p /\ ~(p < InputCount) /\ timed' = timed \cup {"preprocess_ms"}
    BY <1>9 DEF Preprocess, TooShort, Timer
  <2>2. phase = "idle" /\ phase' \in {"input", "crashed"} /\ heap' \subseteq heap \cup {"input"}
    BY <1>9 DEF Preprocess, Alloc, ArenaAlloc, StandardAlloc, RequestAlloc, NullPointer, standard
  <2>3. heap = {} /\ timed = {} BY <2>2 DEF Answering, Clean
  <2>4. p >= InputCount
    <3>1. p \in Nat BY ModelAssumption
    <3> QED BY <1>2, <2>1, <3>1
  <2>5. Clean' BY <1>1, <2>1, <2>2, <2>3, <2>4 DEF Clean
  <2> QED BY <1>3, <2>2, <2>5
<1>10. ASSUME NEW out \in [1..OutputCount -> Scores], RunSession(out) PROVE Answering'
  <2>1. /\ scores' = out /\ response' = HandleResults(out, Labels(labels))
        /\ timed' = timed \cup {"inference_ms", "postprocess_ms"}
        /\ heap' = heap \ {"output", "input"} /\ payload' = payload
        /\ phase = "output" /\ phase' = "ran"
    BY <1>10 DEF RunSession, Finish, Timer, ScopedFree
  <2>2. timed = {"preprocess_ms"} /\ payload >= InputCount /\ heap \subseteq {"input", "output"}
    BY <2>1 DEF Answering, Clean
  <2>3. heap' = {} /\ timed' = {"preprocess_ms", "inference_ms", "postprocess_ms"}
    BY <2>1, <2>2
  <2>4. ~(payload' < InputCount) BY <1>2, <2>1, <2>2 DEF TensorMade
  <2>5. response' # "" BY <2>1, AnswerOfLine
  <2>6. ResultWhole' BY <1>1, <2>3, <2>4, <2>5 DEF ResultWhole
  <2>7. LabelOfLine'
    <3>1. ASSUME ~Shifted
          PROVE  \E i \in DOMAIN scores' :
                   /\ \A j \in DOMAIN scores' : scores'[j] <= scores'[i]
                   /\ response' = IF i \in DOMAIN labels /\ labels[i] # "" THEN labels[i]
                                  ELSE "Unknown"
      BY <2>1, <3>1, AnswerOfLine, Zenon
    <3> QED BY <1>0, <1>1, <3>1, Zenon DEF LabelOfLine
  <2>8. Clean' BY <2>1 DEF Clean
  <2> QED BY <2>6, <2>7, <2>8 DEF Answering
<1>11. CASE UNCHANGED enginevars
  BY <1>0, <1>1, <1>11
  DEF enginevars, vars, task, standard, Answering, Clean, ResultWhole, LabelOfLine
<1> QED BY <1>4, <1>5, <1>6, <1>7, <1>8, <1>9, <1>10, <1>11 DEF EngineNext

LEMMA AnsweringHolds == EngineSpec => []Answering
<1>1. EngineInit => Answering
  BY DEF EngineInit, Init, Answering, Clean, ResultWhole, LabelOfLine
<1> QED BY <1>1, AnsweringStep, EngineArenaHolds, TensorHolds, PTL DEF EngineSpec

(* run's result is whole on both ways out of it: the guards freed both     *)
(* tensors, and the trace holds all three times, or none with an error.    *)
THEOREM ResultsWhole == EngineSpec => []ResultWhole
<1>1. Answering => ResultWhole BY DEF Answering
<1> QED BY <1>1, AnsweringHolds, PTL

(* The label that handle_results answers is the line that numbers a best   *)
(* class, for every model, label file and output.                          *)
THEOREM LabelsRight == EngineSpec => []LabelOfLine
<1>1. Answering => LabelOfLine BY DEF Answering
<1> QED BY <1>1, AnsweringHolds, PTL
=============================================================================

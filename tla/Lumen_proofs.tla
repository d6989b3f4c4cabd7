----------------------------- MODULE Lumen_proofs -----------------------------
(***************************************************************************)
(* Proofs about the program as a whole: the settings that any file leaves  *)
(* behind, and every request from its submission to its answer, through    *)
(* the start, the workers, SIGINT and every exception, for any number of   *)
(* connections, workers and requests.                                      *)
(***************************************************************************)
EXTENDS Lumen, TLAPS, FiniteSetTheorems

----------------------------------------------------------------------------
(* The settings                                                            *)

(* A number of the file, as the settings take it.                          *)
LEMMA SizeTIsNat ==
  ASSUME NEW n \in Numbers, n.kind # Absent, n.kind # Bad
  PROVE  SizeT(n) \in Nat
<1>1. CASE n \in [kind : {"number"}, value : Counts]
  BY <1>1, ConfigAssumption DEF SizeT, Negative
<1>2. CASE n \in [kind : {Absent, Bad, Negative}]
  BY <1>2, ConfigAssumption DEF SizeT
<1> QED BY <1>1, <1>2 DEF Numbers

(* One part of load_from_file.  Only the key of the queue chooses the      *)
(* queue of a single consumer, and no key after it touches the number of   *)
(* threads.                                                                *)
LEMMA ConfigLoad ==
  ASSUME ConfigInv,
         \/ Open \/ ThreadCount \/ BatchSize \/ QueueTypeKey \/ AllocatorType
         \/ TelemetryPath \/ ModelPath \/ Processor \/ Metadata
  PROVE  ConfigInv'
<1>0. m \in Settings /\ workers \in Nat BY DEF ConfigInv
<1>1. /\ step # "started" /\ step' # "started"
      /\ UNCHANGED <<json, queue, workers>>
  BY DEF Open, ThreadCount, BatchSize, Number, QueueTypeKey, AllocatorType, TelemetryPath,
         ModelPath, Processor, Metadata, Loading, Set, Throws
<1>2. json \in Files /\ queue = "none" BY <1>1 DEF ConfigInv
<1>3. SUFFICES /\ m' \in Settings
               /\ m'.queue_type = "SPSC" =>
                    /\ m'.thread_count = 1
                    /\ step' \notin {"open", "thread_count", "batch_size", "queue_type"}
  BY <1>0, <1>1, <1>2 DEF ConfigInv, SpscSingleWorker
<1>4. m.queue_type = "SPSC" =>
        m.thread_count = 1 /\ step \notin {"open", "thread_count", "batch_size", "queue_type"}
  BY DEF ConfigInv
<1>5. CASE Throws
  <2>1. m' = m /\ step' = "error" BY <1>5 DEF Throws
  <2> QED BY <1>0, <1>4, <2>1
<1>6. CASE Open /\ ~Throws
  <2>1. m' = m /\ m.queue_type # "SPSC" BY <1>4, <1>6 DEF Open, Set
  <2> QED BY <1>0, <2>1
<1>7. CASE ThreadCount /\ ~Throws
  <2>1. m.queue_type # "SPSC" BY <1>4, <1>7 DEF ThreadCount, Number
  <2>2. \/ m' = m
        \/ /\ Key(json.thread_count).kind \notin {Absent, Bad}
           /\ m' = [m EXCEPT !.thread_count = SizeT(json.thread_count)]
    BY <1>7 DEF ThreadCount, Number, Set
  <2>3. CASE m' = m BY <1>0, <2>1, <2>3
  <2>4. CASE /\ Key(json.thread_count).kind \notin {Absent, Bad}
             /\ m' = [m EXCEPT !.thread_count = SizeT(json.thread_count)]
    <3>1. Key(json.thread_count) = json.thread_count BY <2>4 DEF Key
    <3>2. SizeT(json.thread_count) \in Nat BY <1>2, <2>4, <3>1, SizeTIsNat DEF Files
    <3> QED BY <1>0, <2>1, <2>4, <3>2 DEF Settings
  <2> QED BY <2>2, <2>3, <2>4
<1>8. CASE BatchSize /\ ~Throws
  <2>1. m.queue_type # "SPSC" BY <1>4, <1>8 DEF BatchSize, Number
  <2>2. \/ m' = m
        \/ /\ Key(json.batch_size).kind \notin {Absent, Bad}
           /\ m' = [m EXCEPT !.batch_size = SizeT(json.batch_size)]
    BY <1>8 DEF BatchSize, Number, Set
  <2>3. CASE m' = m BY <1>0, <2>1, <2>3
  <2>4. CASE /\ Key(json.batch_size).kind \notin {Absent, Bad}
             /\ m' = [m EXCEPT !.batch_size = SizeT(json.batch_size)]
    <3>1. Key(json.batch_size) = json.batch_size BY <2>4 DEF Key
    <3>2. SizeT(json.batch_size) \in Nat BY <1>2, <2>4, <3>1, SizeTIsNat DEF Files
    <3> QED BY <1>0, <2>1, <2>4, <3>2 DEF Settings
  <2> QED BY <2>2, <2>3, <2>4
<1>9. CASE QueueTypeKey /\ ~Throws
  <2>1. /\ step' = "allocator_type"
        /\ \/ m' = [m EXCEPT !.queue_type = "SPSC", !.thread_count = 1]
           \/ m' = [m EXCEPT !.queue_type = "MPMC"]
           \/ m' = [m EXCEPT !.queue_type = OtherQueue]
    BY <1>9 DEF QueueTypeKey, Set
  <2>2. OtherQueue \in {"BATCHED", "NAIVE_MUTEX"} BY DEF OtherQueue
  <2>3. 1 \in Nat OBVIOUS
  <2> QED BY <1>0, <2>1, <2>2, <2>3 DEF Settings
<1>10. CASE AllocatorType /\ ~Throws
  <2>1. /\ step' = "telemetry"
        /\ m' = [m EXCEPT !.alloc_type = IF json.allocator_type = "lumen_arena"
                                         THEN "LUMEN_ARENA" ELSE "STANDARD"]
    BY <1>10 DEF AllocatorType, Set
  <2> QED BY <1>0, <1>4, <2>1 DEF Settings
<1>11. CASE TelemetryPath /\ ~Throws
  <2>1. PICK p : /\ step' = "model" /\ m' = [m EXCEPT !.telemetry_path = p]
                 /\ p \in {"baseline", json.telemetry_csv_path}
                 /\ json.telemetry_csv_path \in {"absent", "bad"} => p = "baseline"
    BY <1>11 DEF TelemetryPath, Set
  <2>2. json.telemetry_csv_path \in {"absent", "bad", "given", "other"} BY <1>2 DEF Files
  <2>3. p \in {"results", "given", "other", "baseline"} BY <2>1, <2>2
  <2> QED BY <1>0, <1>4, <2>1, <2>3 DEF Settings
<1>12. CASE ModelPath /\ ~Throws
  <2>1. \/ step' = "done" /\ m' = m
        \/ /\ step' = "processor"
           /\ m' = [m EXCEPT !.model_path = IF json.path = "given" THEN "given" ELSE "empty"]
    BY <1>12 DEF ModelPath, Set
  <2> QED BY <1>0, <1>4, <2>1 DEF Settings
<1>13. CASE Processor /\ ~Throws
  <2>1. PICK p : /\ step' = "metadata" /\ m' = [m EXCEPT !.proc_type = p]
                 /\ p = CASE json.processor_type = "raw" -> "RAW_TENSOR"
                          [] json.processor_type = "detection" -> "OBJECT_DETECTION"
                          [] OTHER -> "IMAGENET"
    BY <1>13 DEF Processor, Set
  <2>2. p \in {"IMAGENET", "RAW_TENSOR", "OBJECT_DETECTION"} BY <2>1
  <2> QED BY <1>0, <1>4, <2>1, <2>2 DEF Settings
<1>14. CASE Metadata /\ ~Throws
  <2>1. /\ step' = "done"
        /\ m' = IF json.metadata = "absent" THEN m ELSE [m EXCEPT !.label = json.metadata]
    BY <1>14 DEF Metadata, Set
  <2>2. json.metadata \in {"absent", "unlabelled", "bad_label", "labelled"}
    BY <1>2 DEF Files
  <2> QED BY <1>0, <1>4, <2>1, <2>2 DEF Settings
<1> QED BY <1>5, <1>6, <1>7, <1>8, <1>9, <1>10, <1>11, <1>12, <1>13, <1>14

(* main takes the queue and the pool the number of workers from the same   *)
(* settings.                                                               *)
LEMMA ConfigStart ==
  ASSUME ConfigInv, Start
  PROVE  ConfigInv'
<1>1. m \in Settings /\ m' = m /\ step' = "started" BY DEF ConfigInv, Start
<1>2. /\ step \in {"done", "error"} /\ queue = "none"
      /\ queue' = CASE m.queue_type = "SPSC" -> "SPSCTaskQueue"
                    [] m.queue_type = "MPMC" -> "MPMCTaskQueue"
                    [] OTHER -> "NaiveTaskQueue"
      /\ workers' = IF m.thread_count > 0 THEN m.thread_count
                    ELSE IF Hardware > 0 THEN Hardware ELSE 2
  BY DEF Start, Loaded
<1>3. m.thread_count \in Nat BY <1>1 DEF Settings
<1>4. workers' \in Nat /\ workers' > 0 BY <1>2, <1>3, ConfigAssumption
<1>5. queue' # "none" BY <1>2
<1>6. m.queue_type = "SPSC" => m.thread_count = 1 BY DEF ConfigInv
<1>7. queue' = "SPSCTaskQueue" => workers' = 1 BY <1>2, <1>6
<1> QED BY <1>1, <1>4, <1>5, <1>6, <1>7 DEF ConfigInv, SpscSingleWorker

LEMMA ConfigUnchanged == ConfigInv /\ UNCHANGED started => ConfigInv'
  BY DEF ConfigInv, SpscSingleWorker, started

LEMMA ConfigInitially == Init => ConfigInv
<1> SUFFICES ASSUME Init PROVE ConfigInv
  OBVIOUS
<1>1. m \in Settings /\ m.queue_type # "SPSC" BY DEF Init, Defaults, Settings
<1>2. json \in Files BY FilesAssumption DEF Init
<1> QED BY <1>1, <1>2 DEF Init, ConfigInv, SpscSingleWorker

(* load_from_file and main: whatever the file says and wherever its        *)
(* loading breaks off, the settings are of their types, and the queue for  *)
(* a single consumer is given one worker.                                  *)
THEOREM ConfigSound == Spec => []ConfigInv
<1>1. ConfigInv /\ [Next]_vars => ConfigInv'
  BY ConfigLoad, ConfigStart, ConfigUnchanged DEF Next, vars, started
<1> QED BY <1>1, ConfigInitially, PTL DEF Spec

----------------------------------------------------------------------------
(* The lanes of the pool                                                   *)

LaneFun == [Lanes -> Seq(TaskType)]

LEMMA Indices ==
  ASSUME NEW L \in LaneFun, NEW l \in Lanes
  PROVE  L[l] \in Seq(TaskType) /\ DOMAIN L[l] = 1..Len(L[l]) /\ Len(L[l]) \in Nat
<1>1. L[l] \in Seq(TaskType) BY DEF LaneFun
<1> QED BY <1>1

LEMMA InRange ==
  ASSUME NEW s, NEW t
  PROVE  t \in Range(s) <=> \E k \in DOMAIN s : t = s[k]
  BY DEF Range

LEMMA InHeld ==
  ASSUME NEW L, NEW t
  PROVE  t \in Held(L) <=> \E l \in Lanes : \E k \in DOMAIN L[l] : t = L[l][k]
  BY InRange DEF Held

LEMMA EmptyLane ==
  ASSUME NEW L \in LaneFun, NEW l \in Lanes, Held(L) = {}
  PROVE  L[l] = << >>
<1>1. L[l] \in Seq(TaskType) /\ DOMAIN L[l] = 1..Len(L[l]) /\ Len(L[l]) \in Nat BY Indices
<1>2. Len(L[l]) = 0
  <2> SUFFICES ASSUME Len(L[l]) # 0 PROVE FALSE
    OBVIOUS
  <2>1. 1 \in DOMAIN L[l] BY <1>1
  <2>2. L[l][1] \in Held(L) BY <2>1, InHeld, ZenonT(30)
  <2> QED BY <2>2
<1> HIDE DEF TaskType
<1> QED BY <1>1, <1>2

(* The n oldest of one lane go to the end of another: pop_batch, and a     *)
(* result that is pushed.                                                  *)
Moved(L, a, b, n) ==
  [L EXCEPT ![a] = SubSeq(L[a], n + 1, Len(L[a])), ![b] = L[b] \o SubSeq(L[a], 1, n)]

LEMMA Parts ==
  ASSUME NEW s \in Seq(TaskType), NEW r \in Seq(TaskType), NEW n \in Nat, n <= Len(s)
  PROVE  /\ SubSeq(s, n + 1, Len(s)) \in Seq(TaskType)
         /\ r \o SubSeq(s, 1, n) \in Seq(TaskType)
         /\ DOMAIN SubSeq(s, n + 1, Len(s)) = 1..(Len(s) - n)
         /\ \A k \in 1..(Len(s) - n) : SubSeq(s, n + 1, Len(s))[k] = s[k + n]
         /\ DOMAIN (r \o SubSeq(s, 1, n)) = 1..(Len(r) + n)
         /\ \A k \in 1..Len(r) : (r \o SubSeq(s, 1, n))[k] = r[k]
         /\ \A k \in 1..n : (r \o SubSeq(s, 1, n))[Len(r) + k] = s[k]
<1> HIDE DEF TaskType
<1>1. Len(s) \in Nat /\ Len(r) \in Nat OBVIOUS
<1>2. /\ SubSeq(s, n + 1, Len(s)) \in Seq(TaskType)
      /\ Len(SubSeq(s, n + 1, Len(s))) = Len(s) - n
      /\ \A k \in 1..(Len(s) - n) : SubSeq(s, n + 1, Len(s))[k] = s[k + n]
  BY <1>1
<1>3. /\ SubSeq(s, 1, n) \in Seq(TaskType)
      /\ Len(SubSeq(s, 1, n)) = n
      /\ \A k \in 1..n : SubSeq(s, 1, n)[k] = s[k]
  BY <1>1
<1>4. \A u \in Seq(TaskType) : Len(u) = n =>
        /\ r \o u \in Seq(TaskType) /\ Len(r \o u) = Len(r) + n
        /\ \A k \in 1..Len(r) : (r \o u)[k] = r[k]
        /\ \A k \in 1..n : (r \o u)[Len(r) + k] = u[k]
  BY <1>1
<1>5. \A u \in Seq(TaskType) : DOMAIN u = 1..Len(u) OBVIOUS
<1> QED BY <1>2, <1>3, <1>4, <1>5

(* Where a task of the new lanes was in the old ones.                      *)
Whence(L, a, b, n, l, k) ==
  IF l = a THEN <<a, k + n>>
  ELSE IF l = b /\ k > Len(L[b]) THEN <<a, k - Len(L[b])>>
  ELSE <<l, k>>

LEMMA MovedFrom ==
  ASSUME NEW L \in LaneFun, NEW a \in Lanes, NEW b \in Lanes, a # b,
         NEW n \in Nat, n <= Len(L[a]), NEW l \in Lanes, NEW k \in DOMAIN Moved(L, a, b, n)[l]
  PROVE  \E i \in Lanes : \E j \in DOMAIN L[i] :
           /\ Whence(L, a, b, n, l, k) = <<i, j>>
           /\ Moved(L, a, b, n)[l][k] = L[i][j]
           /\ k \in Nat /\ j \in Nat /\ (i = a /\ l # a => j <= n)
<1>1. PICK s \in Seq(TaskType), r \in Seq(TaskType) : s = L[a] /\ r = L[b] BY DEF LaneFun
<1>2. DOMAIN s = 1..Len(s) /\ DOMAIN r = 1..Len(r) /\ Len(s) \in Nat /\ Len(r) \in Nat
  BY <1>1
<1> DEFINE M == Moved(L, a, b, n)
<1>3. /\ M[a] = SubSeq(s, n + 1, Len(s)) /\ M[b] = r \o SubSeq(s, 1, n)
      /\ \A i \in Lanes : i # a /\ i # b => M[i] = L[i]
  BY <1>1 DEF Moved, LaneFun
<1> HIDE DEF M
<1>0. n <= Len(s) /\ k \in DOMAIN M[l] BY <1>1 DEF M
<1>4. CASE l = a
  <2>1. DOMAIN M[a] = 1..(Len(s) - n) /\ M[a][k] = s[k + n]
    BY <1>0, <1>3, <1>4, Parts, SMTT(30)
  <2>2. k \in Nat /\ k + n \in 1..Len(s) BY <1>0, <1>2, <1>4, <2>1
  <2> QED BY <1>1, <1>2, <1>4, <2>1, <2>2 DEF M, Whence
<1>5. CASE l = b /\ k > Len(r)
  <2>1. DOMAIN M[b] = 1..(Len(r) + n) BY <1>0, <1>3, Parts
  <2>2. k \in Nat /\ k - Len(r) \in 1..n /\ k - Len(r) \in 1..Len(s) BY <1>0, <1>2, <1>5, <2>1
  <2>3. PICK j \in 1..n : j = k - Len(r) /\ k = Len(r) + j BY <1>2, <2>2
  <2>4. M[b][k] = s[j] BY <1>0, <1>3, <2>3, Parts
  <2>5. Whence(L, a, b, n, l, k) = <<a, j>> BY <1>1, <1>5, <2>3 DEF Whence
  <2>6. j \in DOMAIN L[a] /\ M[l][k] = L[a][j] BY <1>1, <1>2, <1>5, <2>2, <2>3, <2>4
  <2>7. j \in Nat /\ j <= n BY <2>3
  <2> QED BY <2>2, <2>5, <2>6, <2>7 DEF M
<1>6. CASE l = b /\ ~(k > Len(r))
  <2>1. DOMAIN M[b] = 1..(Len(r) + n) BY <1>0, <1>3, Parts
  <2>2. k \in Nat /\ k \in 1..Len(r) BY <1>0, <1>2, <1>6, <2>1
  <2>3. M[b][k] = r[k] BY <1>0, <1>3, <2>2, Parts
  <2>4. Whence(L, a, b, n, l, k) = <<b, k>> BY <1>1, <1>6 DEF Whence
  <2> QED BY <1>1, <1>2, <1>6, <2>2, <2>3, <2>4 DEF M
<1>7. CASE l # a /\ l # b
  <2>1. M[l] = L[l] BY <1>3, <1>7
  <2>2. Whence(L, a, b, n, l, k) = <<l, k>> BY <1>7 DEF Whence
  <2>3. k \in Nat
    <3>1. DOMAIN L[l] = 1..Len(L[l]) BY Indices
    <3>2. k \in 1..Len(L[l]) BY <1>0, <2>1, <3>1
    <3> QED BY <3>2
  <2> QED BY <1>0, <1>7, <2>1, <2>2, <2>3 DEF M
<1> QED BY <1>4, <1>5, <1>6, <1>7

LEMMA MovedInto ==
  ASSUME NEW L \in LaneFun, NEW a \in Lanes, NEW b \in Lanes, a # b,
         NEW n \in Nat, n <= Len(L[a]), NEW i \in Lanes, NEW j \in DOMAIN L[i]
  PROVE  \E l \in Lanes : \E k \in DOMAIN Moved(L, a, b, n)[l] :
           Moved(L, a, b, n)[l][k] = L[i][j]
<1>1. PICK s \in Seq(TaskType), r \in Seq(TaskType) : s = L[a] /\ r = L[b] BY DEF LaneFun
<1>2. DOMAIN s = 1..Len(s) /\ DOMAIN r = 1..Len(r) /\ Len(s) \in Nat /\ Len(r) \in Nat
  BY <1>1
<1> DEFINE M == Moved(L, a, b, n)
<1>3. /\ M[a] = SubSeq(s, n + 1, Len(s)) /\ M[b] = r \o SubSeq(s, 1, n)
      /\ \A l \in Lanes : l # a /\ l # b => M[l] = L[l]
  BY <1>1 DEF Moved, LaneFun
<1> HIDE DEF M
<1>0. n <= Len(s) BY <1>1
<1>4. SUFFICES \E l \in Lanes : \E k \in DOMAIN M[l] : M[l][k] = L[i][j]
  BY DEF M
<1>5. DOMAIN M[a] = 1..(Len(s) - n) /\ DOMAIN M[b] = 1..(Len(r) + n) BY <1>0, <1>3, Parts
<1>6. CASE i = a /\ j > n
  <2>1. j \in 1..Len(s) /\ L[i][j] = s[j] BY <1>1, <1>2, <1>6
  <2>2. PICK k \in 1..(Len(s) - n) : j = k + n
    <3>1. j - n \in 1..(Len(s) - n) /\ j = (j - n) + n BY <1>0, <1>2, <1>6, <2>1
    <3> QED BY <3>1, Zenon
  <2>3. M[a][k] = s[j] BY <1>0, <1>3, <2>2, Parts
  <2> QED BY <1>5, <2>1, <2>2, <2>3
<1>7. CASE i = a /\ ~(j > n)
  <2>1. j \in 1..n /\ L[i][j] = s[j] BY <1>1, <1>2, <1>7
  <2>2. M[b][Len(r) + j] = s[j] BY <1>0, <1>3, <2>1, Parts
  <2>3. Len(r) + j \in 1..(Len(r) + n) BY <1>2, <2>1
  <2> QED BY <1>5, <2>1, <2>2, <2>3
<1>8. CASE i = b
  <2>1. j \in 1..Len(r) /\ L[i][j] = r[j] BY <1>1, <1>2, <1>8
  <2>2. M[b][j] = r[j] BY <1>0, <1>3, <2>1, Parts
  <2>3. j \in 1..(Len(r) + n) BY <1>2, <2>1
  <2> QED BY <1>5, <1>8, <2>1, <2>2, <2>3
<1>9. CASE i # a /\ i # b
  BY <1>3, <1>9
<1> QED BY <1>6, <1>7, <1>8, <1>9

(* A move keeps what the lanes hold and keeps it apart.                    *)
LEMMA MoveKeeps ==
  ASSUME NEW L \in LaneFun, NEW a \in Lanes, NEW b \in Lanes, a # b,
         NEW n \in Nat, n <= Len(L[a]), Apart(L)
  PROVE  /\ Moved(L, a, b, n) \in LaneFun
         /\ Held(Moved(L, a, b, n)) = Held(L)
         /\ Apart(Moved(L, a, b, n))
<1> DEFINE M == Moved(L, a, b, n)
<1>1. M \in LaneFun
  <2>1. L[a] \in Seq(TaskType) /\ L[b] \in Seq(TaskType) BY DEF LaneFun
  <2>2. /\ SubSeq(L[a], n + 1, Len(L[a])) \in Seq(TaskType)
        /\ L[b] \o SubSeq(L[a], 1, n) \in Seq(TaskType)
    BY <2>1, Parts
  <2> QED BY <2>2 DEF Moved, LaneFun
<1>2. Held(M) \subseteq Held(L)
  <2> SUFFICES ASSUME NEW t \in Held(M) PROVE t \in Held(L)
    OBVIOUS
  <2>1. PICK l \in Lanes : \E k \in DOMAIN M[l] : t = M[l][k] BY InHeld
  <2>2. PICK k \in DOMAIN M[l] : t = M[l][k] BY <2>1
  <2>3. \E i \in Lanes : \E j \in DOMAIN L[i] : M[l][k] = L[i][j] BY MovedFrom
  <2> QED BY <2>2, <2>3, InHeld
<1>3. Held(L) \subseteq Held(M)
  <2> SUFFICES ASSUME NEW t \in Held(L) PROVE t \in Held(M)
    OBVIOUS
  <2>1. PICK i \in Lanes : \E j \in DOMAIN L[i] : t = L[i][j] BY InHeld
  <2>2. PICK j \in DOMAIN L[i] : t = L[i][j] BY <2>1
  <2>3. \E l \in Lanes : \E k \in DOMAIN M[l] : M[l][k] = L[i][j] BY MovedInto
  <2> QED BY <2>2, <2>3, InHeld
<1>4. Apart(M)
  <2> SUFFICES ASSUME NEW l1 \in Lanes, NEW l2 \in Lanes,
                      NEW k1 \in DOMAIN M[l1], NEW k2 \in DOMAIN M[l2], <<l1, k1>> # <<l2, k2>>
               PROVE  M[l1][k1].of # M[l2][k2].of /\ M[l1][k1].id # M[l2][k2].id
    BY DEF Apart
  <2>1. PICK i1 \in Lanes : \E j \in DOMAIN L[i1] :
               /\ Whence(L, a, b, n, l1, k1) = <<i1, j>> /\ M[l1][k1] = L[i1][j]
               /\ k1 \in Nat /\ j \in Nat /\ (i1 = a /\ l1 # a => j <= n)
    BY MovedFrom
  <2>2. PICK j1 \in DOMAIN L[i1] :
               /\ Whence(L, a, b, n, l1, k1) = <<i1, j1>> /\ M[l1][k1] = L[i1][j1]
               /\ k1 \in Nat /\ j1 \in Nat /\ (i1 = a /\ l1 # a => j1 <= n)
    BY <2>1
  <2>3. PICK i2 \in Lanes : \E j \in DOMAIN L[i2] :
               /\ Whence(L, a, b, n, l2, k2) = <<i2, j>> /\ M[l2][k2] = L[i2][j]
               /\ k2 \in Nat /\ j \in Nat /\ (i2 = a /\ l2 # a => j <= n)
    BY MovedFrom
  <2>4. PICK j2 \in DOMAIN L[i2] :
               /\ Whence(L, a, b, n, l2, k2) = <<i2, j2>> /\ M[l2][k2] = L[i2][j2]
               /\ k2 \in Nat /\ j2 \in Nat /\ (i2 = a /\ l2 # a => j2 <= n)
    BY <2>3
  <2>5. k1 > 0 /\ k2 > 0
    <3>1. DOMAIN M[l1] = 1..Len(M[l1]) /\ DOMAIN M[l2] = 1..Len(M[l2]) BY <1>1, Indices
    <3>2. k1 \in 1..Len(M[l1]) /\ k2 \in 1..Len(M[l2]) BY <3>1
    <3> QED BY <3>2
  <2>6. Len(L[b]) \in Nat BY DEF LaneFun
  <2>7. <<i1, j1>> # <<i2, j2>>
    <3> SUFFICES ASSUME i1 = i2, j1 = j2 PROVE FALSE
      OBVIOUS
    <3>1. Whence(L, a, b, n, l1, k1) = Whence(L, a, b, n, l2, k2) BY <2>2, <2>4
    <3>2. l1 # l2 \/ k1 # k2 OBVIOUS
    <3> QED BY <2>2, <2>4, <2>5, <2>6, <3>1, <3>2 DEF Whence
  <2> QED BY <2>2, <2>4, <2>7 DEF Apart
<1> QED BY <1>1, <1>2, <1>3, <1>4

(* A task at the end of a lane: push.                                      *)
Pushed(L, a, t) == [L EXCEPT ![a] = Append(L[a], t)]

LEMMA PushKeeps ==
  ASSUME NEW L \in LaneFun, NEW a \in Lanes, NEW t \in TaskType, Apart(L),
         \A u \in Held(L) : u.of # t.of /\ u.id # t.id
  PROVE  /\ Pushed(L, a, t) \in LaneFun
         /\ Held(Pushed(L, a, t)) = Held(L) \cup {t}
         /\ Apart(Pushed(L, a, t))
<1> DEFINE M == Pushed(L, a, t)
<1>1. PICK s \in Seq(TaskType) : s = L[a] BY DEF LaneFun
<1>2. Len(s) \in Nat /\ DOMAIN s = 1..Len(s) BY <1>1
<1>3. /\ Append(s, t) \in Seq(TaskType)
      /\ DOMAIN Append(s, t) = 1..(Len(s) + 1)
      /\ \A k \in 1..Len(s) : Append(s, t)[k] = s[k]
      /\ Append(s, t)[Len(s) + 1] = t
  <2> HIDE DEF TaskType
  <2>1. Append(s, t) \in Seq(TaskType) /\ Len(Append(s, t)) = Len(s) + 1 BY <1>2
  <2>2. DOMAIN Append(s, t) = 1..(Len(s) + 1) BY <2>1
  <2> QED BY <1>2, <2>1, <2>2
<1>4. M[a] = Append(s, t) /\ \A l \in Lanes : l # a => M[l] = L[l]
  BY <1>1 DEF Pushed, LaneFun
<1>5. M \in LaneFun BY <1>1, <1>3 DEF Pushed, LaneFun
<1> HIDE DEF M
<1>6. ASSUME NEW l \in Lanes, NEW k \in DOMAIN M[l]
      PROVE  \/ k \in DOMAIN L[l] /\ M[l][k] = L[l][k]
             \/ l = a /\ k = Len(s) + 1 /\ M[l][k] = t
  <2>1. CASE l # a BY <1>4, <2>1
  <2>2. CASE l = a
    <3>1. k \in 1..(Len(s) + 1) BY <1>3, <1>4, <2>2
    <3>2. k \in 1..Len(s) \/ k = Len(s) + 1 BY <1>2, <3>1
    <3> QED BY <1>1, <1>2, <1>3, <1>4, <2>2, <3>2
  <2> QED BY <2>1, <2>2
<1>7. ASSUME NEW l \in Lanes, NEW k \in DOMAIN L[l]
      PROVE  k \in DOMAIN M[l] /\ M[l][k] = L[l][k]
  <2>1. CASE l # a BY <1>4, <2>1
  <2>2. CASE l = a
    <3>1. k \in 1..Len(s) BY <1>1, <1>2, <2>2
    <3>2. k \in 1..(Len(s) + 1) BY <1>2, <3>1
    <3> QED BY <1>1, <1>3, <1>4, <2>2, <3>1, <3>2
  <2> QED BY <2>1, <2>2
<1>8. Held(M) \subseteq Held(L) \cup {t}
  <2> SUFFICES ASSUME NEW u \in Held(M) PROVE u \in Held(L) \cup {t}
    OBVIOUS
  <2>1. PICK l \in Lanes : \E k \in DOMAIN M[l] : u = M[l][k] BY InHeld
  <2>2. PICK k \in DOMAIN M[l] : u = M[l][k] BY <2>1
  <2> QED BY <1>6, <2>2, InHeld
<1>9. Held(L) \subseteq Held(M)
  <2> SUFFICES ASSUME NEW u \in Held(L) PROVE u \in Held(M)
    OBVIOUS
  <2>1. PICK l \in Lanes : \E k \in DOMAIN L[l] : u = L[l][k] BY InHeld
  <2>2. PICK k \in DOMAIN L[l] : u = L[l][k] BY <2>1
  <2> QED BY <1>7, <2>2, InHeld
<1>10. t \in Held(M)
  <2>1. Len(s) + 1 \in DOMAIN M[a] BY <1>2, <1>3, <1>4
  <2> QED BY <1>3, <1>4, <2>1, InHeld
<1>11. Apart(M)
  <2> SUFFICES ASSUME NEW l1 \in Lanes, NEW l2 \in Lanes,
                      NEW k1 \in DOMAIN M[l1], NEW k2 \in DOMAIN M[l2], <<l1, k1>> # <<l2, k2>>
               PROVE  M[l1][k1].of # M[l2][k2].of /\ M[l1][k1].id # M[l2][k2].id
    BY DEF Apart
  <2>1. \A l \in Lanes : \A k \in DOMAIN L[l] : L[l][k].of # t.of /\ L[l][k].id # t.id
    BY InHeld
  <2>2. CASE k1 \in DOMAIN L[l1] /\ k2 \in DOMAIN L[l2]
    <3>1. M[l1][k1] = L[l1][k1] /\ M[l2][k2] = L[l2][k2] BY <1>7, <2>2
    <3> QED BY <2>2, <3>1 DEF Apart
  <2>3. CASE k1 \in DOMAIN L[l1] /\ k2 \notin DOMAIN L[l2]
    <3>1. M[l1][k1] = L[l1][k1] /\ M[l2][k2] = t BY <1>6, <1>7, <2>3
    <3> QED BY <2>1, <2>3, <3>1
  <2>4. CASE k1 \notin DOMAIN L[l1] /\ k2 \in DOMAIN L[l2]
    <3>1. M[l1][k1] = t /\ M[l2][k2] = L[l2][k2] BY <1>6, <1>7, <2>4
    <3>2. L[l2][k2].of # t.of /\ L[l2][k2].id # t.id BY <2>1, <2>4
    <3> QED BY <3>1, <3>2
  <2>5. CASE k1 \notin DOMAIN L[l1] /\ k2 \notin DOMAIN L[l2]
    <3>1. l1 = a /\ l2 = a /\ k1 = Len(s) + 1 /\ k2 = Len(s) + 1 BY <1>6, <2>5
    <3> QED BY <3>1
  <2> QED BY <2>2, <2>3, <2>4, <2>5
<1> QED BY <1>5, <1>8, <1>9, <1>10, <1>11 DEF M

(* The oldest of a lane is taken out: handle_responses.                    *)
Taken(L, a) == [L EXCEPT ![a] = Tail(L[a])]

LEMMA TakeKeeps ==
  ASSUME NEW L \in LaneFun, NEW a \in Lanes, L[a] # << >>, Apart(L)
  PROVE  /\ Taken(L, a) \in LaneFun
         /\ Head(L[a]) \in Held(L)
         /\ Held(Taken(L, a)) \subseteq Held(L)
         /\ \A u \in Held(L) : u \in Held(Taken(L, a)) \/ u = Head(L[a])
         /\ \A u \in Held(Taken(L, a)) : u.of # Head(L[a]).of /\ u.id # Head(L[a]).id
         /\ Apart(Taken(L, a))
<1> DEFINE M == Taken(L, a)
<1>1. PICK s \in Seq(TaskType) : s = L[a] BY DEF LaneFun
<1>2. /\ Len(s) \in Nat /\ DOMAIN s = 1..Len(s) /\ 1 \in DOMAIN s /\ Head(s) = s[1]
      /\ Tail(s) \in Seq(TaskType) /\ DOMAIN Tail(s) = 1..(Len(s) - 1)
      /\ \A k \in 1..(Len(s) - 1) : Tail(s)[k] = s[k + 1]
  <2> HIDE DEF TaskType
  <2>1. s # << >> BY <1>1
  <2>2. Len(s) \in Nat /\ Len(s) # 0 /\ DOMAIN s = 1..Len(s) BY <2>1
  <2>3. Tail(s) \in Seq(TaskType) /\ Len(Tail(s)) = Len(s) - 1 BY <2>1
  <2>4. DOMAIN Tail(s) = 1..(Len(s) - 1) BY <2>3
  <2>5. \A k \in 1..(Len(s) - 1) : Tail(s)[k] = s[k + 1] BY <2>1, <2>2
  <2> QED BY <2>2, <2>3, <2>4, <2>5
<1>4. M[a] = Tail(s) /\ \A l \in Lanes : l # a => M[l] = L[l]
  BY <1>1 DEF Taken, LaneFun
<1>5. M \in LaneFun BY <1>1, <1>2 DEF Taken, LaneFun
<1> HIDE DEF M
<1> DEFINE Shift(l, k) == IF l = a THEN k + 1 ELSE k
<1>6. ASSUME NEW l \in Lanes, NEW k \in DOMAIN M[l]
      PROVE  /\ Shift(l, k) \in DOMAIN L[l] /\ M[l][k] = L[l][Shift(l, k)]
             /\ k \in Nat /\ <<l, Shift(l, k)>> # <<a, 1>>
  <2>0. DOMAIN M[l] = 1..Len(M[l]) BY <1>5, Indices
  <2>1. k \in Nat /\ k > 0
    <3>1. k \in 1..Len(M[l]) BY <2>0
    <3> QED BY <3>1
  <2>2. CASE l # a BY <1>4, <2>1, <2>2
  <2>3. CASE l = a
    <3>1. k \in 1..(Len(s) - 1) BY <1>2, <1>4, <2>3
    <3>2. k + 1 \in 1..Len(s) /\ k + 1 # 1 BY <1>2, <3>1
    <3> QED BY <1>1, <1>2, <1>4, <2>1, <2>3, <3>1, <3>2
  <2> QED BY <2>2, <2>3
<1>7. Head(L[a]) = L[a][1] /\ 1 \in DOMAIN L[a] BY <1>1, <1>2
<1>8. \A u \in Held(M) : u \in Held(L) /\ u.of # Head(L[a]).of /\ u.id # Head(L[a]).id
  <2> SUFFICES ASSUME NEW u \in Held(M)
               PROVE  u \in Held(L) /\ u.of # Head(L[a]).of /\ u.id # Head(L[a]).id
    OBVIOUS
  <2>1. PICK l \in Lanes : \E k \in DOMAIN M[l] : u = M[l][k] BY InHeld
  <2>2. PICK k \in DOMAIN M[l] : u = M[l][k] BY <2>1
  <2>3. PICK j : j \in DOMAIN L[l] /\ u = L[l][j] /\ <<l, j>> # <<a, 1>> BY <1>6, <2>2
  <2>4. u \in Held(L) BY <2>3, InHeld
  <2>5. L[l][j].of # L[a][1].of /\ L[l][j].id # L[a][1].id BY <1>7, <2>3 DEF Apart
  <2> QED BY <1>7, <2>3, <2>4, <2>5
<1>9. \A u \in Held(L) : u \in Held(M) \/ u = Head(L[a])
  <2> SUFFICES ASSUME NEW u \in Held(L), u # Head(L[a]) PROVE u \in Held(M)
    OBVIOUS
  <2>1. PICK l \in Lanes : \E k \in DOMAIN L[l] : u = L[l][k] BY InHeld
  <2>2. PICK k \in DOMAIN L[l] : u = L[l][k] BY <2>1
  <2>3. CASE l # a BY <1>4, <2>2, <2>3, InHeld
  <2>4. CASE l = a
    <3>1. k \in 1..Len(s) /\ k # 1 BY <1>1, <1>2, <1>7, <2>2, <2>4
    <3>0. k - 1 \in 1..(Len(s) - 1) /\ k = (k - 1) + 1 BY <1>2, <3>1
    <3>2. PICK j \in 1..(Len(s) - 1) : k = j + 1 BY <3>0, Zenon
    <3>3. j \in DOMAIN M[l] /\ M[l][j] = u BY <1>1, <1>2, <1>4, <2>2, <2>4, <3>2
    <3> QED BY <3>3, InHeld
  <2> QED BY <2>3, <2>4
<1>10. Apart(M)
  <2> SUFFICES ASSUME NEW l1 \in Lanes, NEW l2 \in Lanes,
                      NEW k1 \in DOMAIN M[l1], NEW k2 \in DOMAIN M[l2], <<l1, k1>> # <<l2, k2>>
               PROVE  M[l1][k1].of # M[l2][k2].of /\ M[l1][k1].id # M[l2][k2].id
    BY DEF Apart
  <2>1. <<l1, Shift(l1, k1)>> # <<l2, Shift(l2, k2)>>
    <3>1. k1 \in Nat /\ k2 \in Nat BY <1>6
    <3> QED BY <3>1
  <2> HIDE DEF Shift
  <2>2. /\ Shift(l1, k1) \in DOMAIN L[l1] /\ M[l1][k1] = L[l1][Shift(l1, k1)]
        /\ Shift(l2, k2) \in DOMAIN L[l2] /\ M[l2][k2] = L[l2][Shift(l2, k2)]
    BY <1>6
  <2> QED BY <2>1, <2>2 DEF Apart
<1>11. Head(L[a]) \in Held(L) BY <1>7, InHeld
<1> QED BY <1>5, <1>8, <1>9, <1>10, <1>11 DEF M

----------------------------------------------------------------------------
(* The state as lanes                                                      *)

LEMMA LaneNames ==
  /\ TaskLane \in Lanes /\ ResultLane \in Lanes /\ TaskLane # ResultLane
  /\ \A w \in Workers : w \in Lanes /\ w # TaskLane /\ w # ResultLane
  BY LumenAssumption DEF Lanes, TaskLane, ResultLane

LEMMA LaneType ==
  ASSUME LumenTypeOK
  PROVE  /\ lane \in LaneFun /\ lane[TaskLane] = tasks /\ lane[ResultLane] = results
         /\ \A w \in Workers : lane[w] = batch[w]
<1>1. /\ tasks \in Seq(TaskType) /\ results \in Seq(TaskType)
      /\ \A w \in Workers : batch[w] \in Seq(TaskType)
  BY DEF LumenTypeOK
<1>2. \A l \in Lanes : l = TaskLane \/ l = ResultLane \/ l \in Workers BY DEF Lanes
<1> QED BY <1>1, <1>2, LaneNames DEF lane, LaneFun

LEMMA PrimedLanes ==
  /\ Held(lane)' = Held(lane') /\ Apart(lane)' = Apart(lane')
  /\ Pending' = {t.of : t \in Held(lane')}
  BY DEF Held, Apart, Pending

LEMMA SameLanes ==
  ASSUME UNCHANGED <<batch, tasks, results>>
  PROVE  lane' = lane
  BY DEF lane

LEMMA HeldType ==
  ASSUME NEW L \in LaneFun, NEW t \in Held(L)
  PROVE  t \in TaskType /\ t.of \in Conns \X Nat /\ t.of[1] \in Conns /\ t.id \in Nat
<1>1. PICK l \in Lanes : \E k \in DOMAIN L[l] : t = L[l][k] BY InHeld
<1>2. PICK k \in DOMAIN L[l] : t = L[l][k] BY <1>1
<1>3. L[l] \in Seq(TaskType) /\ DOMAIN L[l] = 1..Len(L[l]) BY Indices
<1>4. t \in TaskType
  <2> HIDE DEF TaskType
  <2> QED BY <1>2, <1>3
<1> QED BY <1>4 DEF TaskType

(* What Accounted, InFlight and StartInOrder say of the next state, in     *)
(* terms of its lanes.                                                     *)
AccountedBy(M) ==
  /\ Apart(M)
  /\ \A t \in Held(M) : t.of[2] = handed'[t.of[1]] + 1 /\ t.id \notin Range(handed_ids')
  /\ queue' = "NaiveTaskQueue" =>
       \A c \in Conns : stage'[c] = "waiting" => \E t \in Held(M) : t.of = <<c, handed'[c] + 1>>

LEMMA AccountedNext ==
  ASSUME NEW M, lane' = M, AccountedBy(M)
  PROVE  Accounted'
<1>1. Range(handed_ids)' = Range(handed_ids') BY DEF Range
<1>2. \A c : Requests!Current(c)' = <<c, handed'[c] + 1>> BY DEF Requests!Current
<1>3. Held(lane)' = Held(M) /\ Apart(lane)' = Apart(M) /\ Pending' = {t.of : t \in Held(M)}
  BY PrimedLanes
<1> QED BY <1>1, <1>2, <1>3 DEF Accounted, AccountedBy

LEMMA AccountedNow ==
  Accounted =>
    /\ Apart(lane)
    /\ \A t \in Held(lane) : t.of[2] = handed[t.of[1]] + 1 /\ t.id \notin Range(handed_ids)
    /\ queue = "NaiveTaskQueue" =>
         \A c \in Conns : stage[c] = "waiting" => \E t \in Held(lane) : t.of = <<c, handed[c] + 1>>
  BY DEF Accounted, Pending, Requests!Current

(* Steps of main, of a signal or of a failure that touch neither a lane    *)
(* nor a session.                                                          *)
LEMMA MainMoves ==
  ASSUME SystemInv,
         UNCHANGED <<started, at, batch, tasks, results, next_id, handed_ids, server>>,
         main' \in Mains, failed' \in BOOLEAN, running' \in BOOLEAN,
         cause' \in {"none", "pod", "reserve", "processor", "engine", "sigpipe", "telemetry"},
         stop' \in BOOLEAN, queue_stop' \in BOOLEAN,
         telemetry' \in {"none", "running", "joined"},
         main = "load" <=> main' = "load", main' = "build" => main = "build",
         main' \in {"load", "build"} => telemetry' = telemetry,
         main' = "serve" => main \in {"build", "serve"}
  PROVE  SystemInv'
<1>1. lane' = lane BY SameLanes
<1>2. ConfigInv' BY ConfigUnchanged DEF SystemInv
<1>3. LumenTypeOK' BY DEF SystemInv, LumenTypeOK, started, server
<1>4. Accounted'
  <2>1. Accounted BY DEF SystemInv
  <2>2. AccountedBy(lane) BY <2>1, AccountedNow DEF AccountedBy, started, server
  <2> QED BY <1>1, <2>2, AccountedNext
<1>5. Held(lane)' = Held(lane) BY <1>1, PrimedLanes
<1>6. StartInOrder' BY <1>5 DEF SystemInv, StartInOrder, started, server
<1>7. BatchesInHand' BY DEF SystemInv, BatchesInHand, started
<1>8. InFlight'
  <2>1. main = "build" => Held(lane) = {} BY DEF SystemInv, StartInOrder
  <2>2. InFlight BY DEF SystemInv
  <2> QED BY <1>5, <2>1, <2>2 DEF InFlight, server
<1> QED BY <1>2, <1>3, <1>4, <1>6, <1>7, <1>8 DEF SystemInv

LEMMA MainSteps ==
  ASSUME SystemInv,
         \/ PodFails \/ ServerUp \/ ServerFails \/ SignalHandler \/ StopPool \/ QueueShutdown
         \/ Join \/ Finish \/ ReporterThrows \/ \E c \in Conns : Killed(c)
  PROVE  SystemInv'
<1>0. /\ main \in Mains /\ failed \in BOOLEAN /\ running \in BOOLEAN
      /\ cause \in {"none", "pod", "reserve", "processor", "engine", "sigpipe", "telemetry"}
      /\ stop \in BOOLEAN /\ queue_stop \in BOOLEAN
      /\ telemetry \in {"none", "running", "joined"}
  BY DEF SystemInv, LumenTypeOK
<1>1. CASE PodFails
  BY <1>0, <1>1, MainMoves DEF PodFails, Fail, Abort, Mains, pool, traces
<1>2. CASE ServerUp
  BY <1>0, <1>2, MainMoves DEF ServerUp, Mains, pool, traces
<1>3. CASE ServerFails
  BY <1>0, <1>3, MainMoves DEF ServerFails, Fail, Mains, pool, traces
<1>4. CASE SignalHandler
  BY <1>0, <1>4, MainMoves DEF SignalHandler, Mains, pool, traces
<1>5. CASE StopPool
  BY <1>0, <1>5, MainMoves DEF StopPool, Mains, traces
<1>6. CASE QueueShutdown
  BY <1>0, <1>6, MainMoves DEF QueueShutdown, Mains, traces
<1>7. CASE Join
  BY <1>0, <1>7, MainMoves DEF Join, Mains, pool, traces
<1>8. CASE Finish
  BY <1>0, <1>8, MainMoves DEF Finish, Mains, pool
<1>9. CASE \E c \in Conns : Killed(c)
  BY <1>0, <1>9, MainMoves DEF Killed, Serving, Abort, Mains, pool, traces
<1>10. CASE ReporterThrows
  <2>1. main # "load" BY <1>10 DEF ReporterThrows, SystemInv, StartInOrder
  <2> QED BY <1>0, <1>10, <2>1, MainMoves DEF ReporterThrows, Abort, Mains, pool, traces
<1> QED BY <1>1, <1>2, <1>3, <1>4, <1>5, <1>6, <1>7, <1>8, <1>9, <1>10

(* A worker's thread ends the process.                                     *)
LEMMA WorkerAborts ==
  ASSUME SystemInv, NEW w \in Workers, at[w] # "none",
         NEW why \in {"reserve", "processor", "engine"}, Abort(why),
         Outside, UNCHANGED <<at, batch, tasks, results>>
  PROVE  SystemInv'
<1>1. main # "load" BY DEF SystemInv, StartInOrder
<1>2. /\ failed \in BOOLEAN /\ running \in BOOLEAN /\ stop \in BOOLEAN /\ queue_stop \in BOOLEAN
      /\ telemetry \in {"none", "running", "joined"}
  BY DEF SystemInv, LumenTypeOK
<1> QED BY <1>1, <1>2, MainMoves DEF Abort, Outside, Mains, traces

(* load_from_file and the choice of the queue, before anything runs.       *)
LEMMA Loads ==
  ASSUME SystemInv, Load \/ Construct
  PROVE  SystemInv'
<1>0. main = "load" /\ UNCHANGED <<cause, running, pool, traces, server>>
  BY DEF Load, Construct
<1>1. /\ \/ main' = "load" /\ step' # "started" /\ queue' = queue
         \/ main' \in {"build", "exit1"} /\ step' = "started"
      /\ failed' \in BOOLEAN /\ ConfigInv'
  <2>1. CASE Load
    <3>1. ConfigInv' BY <2>1, ConfigLoad DEF Load, SystemInv
    <3>2. step' # "started" /\ queue' = queue
      BY <2>1 DEF Load, Open, ThreadCount, BatchSize, Number, QueueTypeKey, AllocatorType,
                  TelemetryPath, ModelPath, Processor, Metadata, Loading, Set, Throws
    <3>3. main' = main /\ failed' = failed BY <2>1 DEF Load
    <3> QED BY <1>0, <3>1, <3>2, <3>3 DEF SystemInv, LumenTypeOK
  <2>2. CASE Construct
    <3>1. ConfigInv' BY <2>2, ConfigStart DEF Construct, SystemInv
    <3>2. step' = "started" BY <2>2 DEF Construct, Start
    <3>3. main' \in {"build", "exit1"} /\ failed' \in BOOLEAN
      BY <2>2 DEF Construct, Fail, SystemInv, LumenTypeOK
    <3> QED BY <3>1, <3>2, <3>3
  <2> QED BY <2>1, <2>2
<1>2. /\ \A w \in Workers : at[w] = "none" /\ batch[w] = << >>
      /\ Held(lane) = {} /\ handed_ids = << >> /\ telemetry = "none"
      /\ \A c \in Conns : stage[c] = "new"
  BY <1>0 DEF SystemInv, StartInOrder, BatchesInHand
<1>3. lane' = lane BY <1>0, SameLanes DEF pool
<1>4. LumenTypeOK'
  <2>1. m'.batch_size \in Nat BY <1>1 DEF ConfigInv, Settings
  <2>2. \A w \in Workers : Len(batch'[w]) = 0 BY <1>0, <1>2 DEF pool
  <2>3. \A w \in Workers : Len(batch'[w]) <= m'.batch_size BY <2>1, <2>2
  <2>4. main' \in Mains BY <1>1 DEF Mains
  <2> QED BY <1>0, <1>1, <2>3, <2>4 DEF SystemInv, LumenTypeOK, pool, traces, server
<1>5. Accounted'
  <2>1. Apart(lane) BY DEF SystemInv, Accounted
  <2>2. AccountedBy(lane) BY <1>0, <1>2, <2>1 DEF AccountedBy, server
  <2> QED BY <1>3, <2>2, AccountedNext
<1>6. Held(lane)' = {} BY <1>2, <1>3, PrimedLanes
<1>7. StartInOrder' BY <1>0, <1>1, <1>2, <1>6 DEF StartInOrder, pool, traces, server
<1>8. BatchesInHand' BY <1>0, <1>2 DEF BatchesInHand, pool
<1>9. InFlight' BY <1>0, <1>2, <1>6 DEF SystemInv, InFlight, traces, server
<1> QED BY <1>1, <1>4, <1>5, <1>7, <1>8, <1>9 DEF SystemInv

(* A worker goes on without moving a task.                                 *)
LEMMA WorkerMoves ==
  ASSUME SystemInv, NEW w \in Workers, NEW to \in {"loop", "pop", "run", "exited"},
         at' = [at EXCEPT ![w] = to], MainGoesOn, UNCHANGED <<batch, tasks, results>>,
         main # "load", w <= workers /\ m.model_path \in Loadable /\ 1 <= PodsThatFit,
         to # "run" => batch[w] = << >>
  PROVE  SystemInv'
<1>0. UNCHANGED <<started, main, failed, cause, running, stop, queue_stop, telemetry, next_id,
                  handed_ids, stage, handed, answered>>
  BY DEF MainGoesOn, Outside, traces, server
<1>1. lane' = lane BY SameLanes
<1>2. ConfigInv' BY <1>0, ConfigUnchanged DEF SystemInv
<1>3. at \in [Workers -> {"none", "loop", "pop", "run", "exited"}] BY DEF SystemInv, LumenTypeOK
<1>4. LumenTypeOK' BY <1>0, <1>3 DEF SystemInv, LumenTypeOK, started
<1>5. Accounted'
  <2>1. Accounted BY DEF SystemInv
  <2>2. AccountedBy(lane) BY <1>0, <2>1, AccountedNow DEF AccountedBy, started
  <2> QED BY <1>1, <2>2, AccountedNext
<1>6. Held(lane)' = Held(lane) BY <1>1, PrimedLanes
<1>7. at'[w] = to /\ \A v \in Workers : v # w => at'[v] = at[v] BY <1>3
<1>8. StartInOrder'
  <2>1. \A v \in Workers : at'[v] # "none" =>
          v <= workers /\ m.model_path \in Loadable /\ 1 <= PodsThatFit
    BY <1>7 DEF SystemInv, StartInOrder
  <2> QED BY <1>0, <1>6, <2>1 DEF SystemInv, StartInOrder, started
<1>9. BatchesInHand'
  <2>1. \A v \in Workers :
          /\ at[v] \in {"none", "loop", "exited"} => batch[v] = << >>
          /\ at[v] = "pop" /\ queue = "NaiveTaskQueue" => batch[v] = << >>
    BY DEF SystemInv, BatchesInHand
  <2>2. \A v \in Workers :
          /\ at'[v] \in {"none", "loop", "exited"} => batch[v] = << >>
          /\ at'[v] = "pop" /\ queue = "NaiveTaskQueue" => batch[v] = << >>
    <3> SUFFICES ASSUME NEW v \in Workers
                 PROVE  /\ at'[v] \in {"none", "loop", "exited"} => batch[v] = << >>
                        /\ at'[v] = "pop" /\ queue = "NaiveTaskQueue" => batch[v] = << >>
      OBVIOUS
    <3>1. CASE v = w BY <1>7, <3>1
    <3>2. CASE v # w BY <1>7, <2>1, <3>2
    <3> QED BY <3>1, <3>2
  <2> QED BY <1>0, <2>2 DEF BatchesInHand, started
<1>10. InFlight' BY <1>0, <1>6 DEF SystemInv, InFlight
<1> QED BY <1>2, <1>4, <1>5, <1>8, <1>9, <1>10 DEF SystemInv

LEMMA WorkerSteps ==
  ASSUME SystemInv, NEW w \in Workers,
         Loop(w) \/ PopReturns(w) \/ BatchDone(w) \/ NullProcessor(w) \/ EngineThrows(w)
  PROVE  SystemInv'
<1>1. at[w] \in {"loop", "pop", "run"}
  BY DEF Loop, PopReturns, BatchDone, NullProcessor, EngineThrows
<1>2. main # "load" /\ w <= workers /\ m.model_path \in Loadable /\ 1 <= PodsThatFit
  BY <1>1 DEF SystemInv, StartInOrder
<1>3. CASE Loop(w)
  <2>1. CASE m.batch_size > BatchLimit
    <3>1. Abort("reserve") /\ Outside /\ UNCHANGED <<at, batch, tasks, results>>
      BY <1>3, <2>1 DEF Loop
    <3> QED BY <1>1, <3>1, WorkerAborts
  <2>2. CASE ~(m.batch_size > BatchLimit)
    <3>1. batch[w] = << >> BY <1>3 DEF Loop, SystemInv, BatchesInHand
    <3>2. MainGoesOn /\ UNCHANGED <<batch, tasks, results>>
      BY <1>3, <2>2 DEF Loop, MainGoesOn
    <3>3. at' = [at EXCEPT ![w] = IF stop THEN "exited" ELSE "pop"] BY <1>3, <2>2 DEF Loop
    <3>4. CASE stop
      <4>1. at' = [at EXCEPT ![w] = "exited"] BY <3>3, <3>4
      <4> QED BY <1>2, <3>1, <3>2, <4>1, WorkerMoves
    <3>5. CASE ~stop
      <4>1. at' = [at EXCEPT ![w] = "pop"] BY <3>3, <3>5
      <4> QED BY <1>2, <3>1, <3>2, <4>1, WorkerMoves
    <3> QED BY <3>4, <3>5
  <2> QED BY <2>1, <2>2
<1>4. CASE PopReturns(w)
  <2>1. MainGoesOn /\ UNCHANGED <<batch, tasks, results>> BY <1>4 DEF PopReturns
  <2>2. at' = [at EXCEPT ![w] = IF batch[w] = << >> THEN "loop" ELSE "run"]
    BY <1>4 DEF PopReturns
  <2>3. CASE batch[w] = << >>
    <3>1. at' = [at EXCEPT ![w] = "loop"] BY <2>2, <2>3
    <3> QED BY <1>2, <2>1, <2>3, <3>1, WorkerMoves
  <2>4. CASE batch[w] # << >>
    <3>1. at' = [at EXCEPT ![w] = "run"] BY <2>2, <2>4
    <3> QED BY <1>2, <2>1, <3>1, WorkerMoves
  <2> QED BY <2>3, <2>4
<1>5. CASE BatchDone(w)
  <2>1. /\ MainGoesOn /\ UNCHANGED <<batch, tasks, results>> /\ batch[w] = << >>
        /\ at' = [at EXCEPT ![w] = "loop"]
    BY <1>5 DEF BatchDone
  <2> QED BY <1>2, <2>1, WorkerMoves
<1>6. CASE NullProcessor(w)
  BY <1>1, <1>6, WorkerAborts DEF NullProcessor
<1>7. CASE EngineThrows(w)
  BY <1>1, <1>7, WorkerAborts DEF EngineThrows
<1> QED BY <1>3, <1>4, <1>5, <1>6, <1>7

(* The pool's constructor: which worker is next.                           *)
LEMMA NextPodType == IsFiniteSet(Started) /\ NextPod \in Nat /\ NextPod >= 1
<1>1. Started \subseteq Workers BY DEF Started
<1>2. IsFiniteSet(Started) BY <1>1, LumenAssumption, FS_Subset
<1>3. Cardinality(Started) \in Nat BY <1>2, FS_CardinalityType
<1> QED BY <1>2, <1>3 DEF NextPod

LEMMA StartWorkerSteps ==
  ASSUME SystemInv, NEW w \in Workers, StartWorker(w)
  PROVE  SystemInv'
<1>1. main = "build" /\ w = NextPod /\ w <= workers /\ PodBuilds
  BY DEF StartWorker
<1>2. m.model_path \in Loadable /\ NextPod <= PodsThatFit BY <1>1 DEF PodBuilds
<1>3. 1 <= PodsThatFit BY <1>2, NextPodType, LumenAssumption
<1>4. MainGoesOn /\ UNCHANGED <<batch, tasks, results>> /\ at' = [at EXCEPT ![w] = "loop"]
  BY DEF StartWorker, MainGoesOn, Outside
<1>5. batch[w] = << >>
  <2>1. lane \in LaneFun /\ lane[w] = batch[w] /\ w \in Lanes
    BY LaneType, LaneNames DEF SystemInv
  <2>2. Held(lane) = {} BY <1>1 DEF SystemInv, StartInOrder
  <2> QED BY <2>1, <2>2, EmptyLane
<1> QED BY <1>1, <1>2, <1>3, <1>4, <1>5, WorkerMoves

(* A session goes on without the pool; it does not wait for a result.      *)
LEMMA SessionMoves ==
  ASSUME SystemInv, Serving, Elsewhere, UNCHANGED <<pool, telemetry, handed_ids, handed>>,
         NEW c \in Conns, NEW to \in {"reading", "waiting", "closed"},
         stage[c] # "waiting", stage' = [stage EXCEPT ![c] = to],
         to = "waiting" => queue # "NaiveTaskQueue" /\ handed[c] < MaxRequests[c],
         next_id' \in Nat, next_id <= next_id',
         answered' \in [Conns -> Nat],
         \A d \in Conns : d # c => answered'[d] = answered[d],
         answered'[c] <= handed[c]
  PROVE  SystemInv'
<1>0. /\ main = "serve" /\ UNCHANGED <<started, main, failed, cause, running>>
      /\ UNCHANGED <<stop, queue_stop, at, batch, tasks, results>>
  BY DEF Serving, Elsewhere, pool
<1>1. lane' = lane BY <1>0, SameLanes
<1>2. ConfigInv' BY <1>0, ConfigUnchanged DEF SystemInv
<1>3. stage \in [Conns -> {"new", "reading", "waiting", "replying", "closed"}]
  BY DEF SystemInv, LumenTypeOK
<1>4. stage'[c] = to /\ \A d \in Conns : d # c => stage'[d] = stage[d] BY <1>3
<1>5. \A d \in Conns : handed[d] <= MaxRequests[d] /\ answered'[d] <= handed[d]
  BY DEF SystemInv, LumenTypeOK
<1>6. LumenTypeOK'
  <2>1. stage' \in [Conns -> {"new", "reading", "waiting", "replying", "closed"}] BY <1>3
  <2> QED BY <1>0, <1>5, <2>1 DEF SystemInv, LumenTypeOK, started
<1>7. lane \in LaneFun BY LaneType DEF SystemInv
<1>8. \A t \in Held(lane) : /\ t.of[1] # c /\ t.of[1] \in Conns /\ t.id \in Nat
                            /\ stage'[t.of[1]] = "waiting"
  BY <1>0, <1>4, <1>7, HeldType DEF SystemInv, InFlight
<1>9. Accounted'
  <2>1. Accounted BY DEF SystemInv
  <2>2. AccountedBy(lane) BY <1>0, <1>4, <2>1, AccountedNow DEF AccountedBy, started
  <2> QED BY <1>1, <2>2, AccountedNext
<1>10. Held(lane)' = Held(lane) BY <1>1, PrimedLanes
<1>11. StartInOrder' BY <1>0, <1>10 DEF SystemInv, StartInOrder, started
<1>12. BatchesInHand' BY <1>0 DEF SystemInv, BatchesInHand, started
<1>13. InFlight'
  <2>1. next_id \in Nat /\ handed_ids \in Seq(Nat) BY DEF SystemInv, LumenTypeOK
  <2>2. \A t \in Held(lane) : t.id < next_id' BY <1>8, <2>1 DEF SystemInv, InFlight
  <2>3. \A k \in DOMAIN handed_ids : handed_ids[k] < next_id'
    <3>1. \A k \in DOMAIN handed_ids : handed_ids[k] < next_id /\ handed_ids[k] \in Nat
      BY <2>1 DEF SystemInv, InFlight
    <3> QED BY <2>1, <3>1
  <2>4. \A d \in Conns : /\ stage'[d] = "waiting" => handed[d] < MaxRequests[d]
                         /\ stage'[d] = "replying" => answered'[d] < handed[d]
    <3> SUFFICES ASSUME NEW d \in Conns
                 PROVE  /\ stage'[d] = "waiting" => handed[d] < MaxRequests[d]
                        /\ stage'[d] = "replying" => answered'[d] < handed[d]
      OBVIOUS
    <3>1. CASE d = c BY <1>4, <3>1
    <3>2. CASE d # c BY <1>4, <3>2 DEF SystemInv, InFlight
    <3> QED BY <3>1, <3>2
  <2> QED BY <1>0, <1>8, <1>10, <2>2, <2>3, <2>4 DEF InFlight
<1> QED BY <1>2, <1>6, <1>9, <1>11, <1>12, <1>13 DEF SystemInv

LEMMA SessionSteps ==
  ASSUME SystemInv, NEW c \in Conns, Admit(c) \/ Refused(c) \/ Answer(c) \/ Close(c)
  PROVE  SystemInv'
<1>0. /\ next_id \in Nat /\ handed \in [Conns -> Nat] /\ answered \in [Conns -> Nat]
      /\ answered[c] <= handed[c]
      /\ stage[c] = "replying" => answered[c] < handed[c]
  BY DEF SystemInv, LumenTypeOK, InFlight
<1>1. CASE Admit(c)
  <2>1. /\ Serving /\ Elsewhere /\ UNCHANGED <<pool, telemetry, handed_ids, handed>>
        /\ stage[c] = "new" /\ stage' = [stage EXCEPT ![c] = "reading"]
        /\ next_id' = next_id /\ answered' = answered
    BY <1>1 DEF Admit, Requests!Admit, Requests!Turn, traces
  <2>2. next_id' \in Nat /\ next_id <= next_id' BY <1>0, <2>1
  <2> QED BY <1>0, <2>1, <2>2, SessionMoves
<1>2. CASE Refused(c)
  <2>1. /\ Serving /\ Elsewhere /\ UNCHANGED <<pool, telemetry, handed_ids, handed>>
        /\ stage[c] = "reading" /\ stage' = [stage EXCEPT ![c] = "waiting"]
        /\ next_id' = next_id + 1 /\ answered' = answered
        /\ MayRefuse /\ handed[c] < MaxRequests[c]
    BY <1>2 DEF Refused, Requests!Submit, Requests!Turn
  <2>2. queue # "NaiveTaskQueue" BY <2>1 DEF MayRefuse
  <2>3. next_id' \in Nat /\ next_id <= next_id' BY <1>0, <2>1
  <2> QED BY <1>0, <2>1, <2>2, <2>3, SessionMoves
<1>3. CASE Answer(c)
  <2>1. /\ Serving /\ Elsewhere /\ UNCHANGED <<pool, telemetry, handed_ids, handed>>
        /\ stage[c] = "replying" /\ stage' = [stage EXCEPT ![c] = "reading"]
        /\ next_id' = next_id /\ answered' = [answered EXCEPT ![c] = @ + 1]
    BY <1>3 DEF Answer, Requests!Answer, Requests!Turn, traces
  <2>2. /\ answered' \in [Conns -> Nat] /\ answered'[c] = answered[c] + 1
        /\ \A d \in Conns : d # c => answered'[d] = answered[d]
    BY <1>0, <2>1
  <2>3. answered'[c] <= handed[c] BY <1>0, <2>1, <2>2
  <2>4. next_id' \in Nat /\ next_id <= next_id' BY <1>0, <2>1
  <2> QED BY <1>0, <2>1, <2>2, <2>3, <2>4, SessionMoves
<1>4. CASE Close(c)
  <2>1. /\ Serving /\ Elsewhere /\ UNCHANGED <<pool, telemetry, handed_ids, handed>>
        /\ stage[c] \in {"reading", "replying"} /\ stage' = [stage EXCEPT ![c] = "closed"]
        /\ next_id' = next_id /\ answered' = answered
    BY <1>4 DEF Close, Requests!Close, traces
  <2>2. next_id' \in Nat /\ next_id <= next_id' BY <1>0, <2>1
  <2> QED BY <1>0, <2>1, <2>2, SessionMoves
<1> QED BY <1>1, <1>2, <1>3, <1>4

(* ~TCPServer: the sessions go, what the pool has stays with it.           *)
LEMMA ServerDownSteps ==
  ASSUME SystemInv, ServerDown
  PROVE  SystemInv'
<1>0. /\ main = "serve" /\ main' = "stop" /\ failed' \in BOOLEAN
      /\ UNCHANGED <<started, cause, running, pool, traces, handed, answered>>
      /\ stage' \in [Conns -> {"new", "closed"}]
      /\ \A c \in Conns : stage'[c] = "new" => stage[c] = "new"
  BY DEF ServerDown, Fail, Requests!Stop, SystemInv, LumenTypeOK
<1>1. lane' = lane BY <1>0, SameLanes DEF pool
<1>2. ConfigInv' BY <1>0, ConfigUnchanged DEF SystemInv
<1>3. \A c \in Conns : stage'[c] # "waiting" /\ stage'[c] # "replying"
  <2>1. \A c \in Conns : stage'[c] \in {"new", "closed"} BY <1>0
  <2> QED BY <2>1
<1>4. LumenTypeOK'
  <2>1. stage' \in [Conns -> {"new", "reading", "waiting", "replying", "closed"}] BY <1>0
  <2>2. main' \in Mains BY <1>0 DEF Mains
  <2> QED BY <1>0, <2>1, <2>2 DEF SystemInv, LumenTypeOK, pool, traces, started
<1>5. Accounted'
  <2>1. Accounted BY DEF SystemInv
  <2>2. AccountedBy(lane) BY <1>0, <1>3, <2>1, AccountedNow DEF AccountedBy, traces
  <2> QED BY <1>1, <2>2, AccountedNext
<1>6. Held(lane)' = Held(lane) BY <1>1, PrimedLanes
<1>7. StartInOrder' BY <1>0 DEF SystemInv, StartInOrder, pool, started
<1>8. BatchesInHand' BY <1>0 DEF SystemInv, BatchesInHand, pool, started
<1>9. InFlight'
  <2>1. lane \in LaneFun BY LaneType DEF SystemInv
  <2>2. \A t \in Held(lane) : t.of[1] \in Conns BY <2>1, HeldType
  <2>3. \A t \in Held(lane) : t.id < next_id /\ stage'[t.of[1]] # "new"
    BY <1>0, <2>2 DEF SystemInv, InFlight
  <2> QED BY <1>0, <1>3, <1>6, <2>3 DEF SystemInv, InFlight, traces
<1> QED BY <1>2, <1>4, <1>5, <1>7, <1>8, <1>9 DEF SystemInv

(* finalize_request: a new request, with a new trace id, joins the queue.  *)
LEMMA AcceptedSteps ==
  ASSUME SystemInv, NEW c \in Conns, Accepted(c)
  PROVE  SystemInv'
<1> DEFINE new == [of |-> <<c, handed[c] + 1>>, id |-> next_id]
<1>0. /\ main = "serve" /\ handed[c] < MaxRequests[c] /\ stage[c] = "reading"
      /\ tasks' = Append(tasks, new) /\ stage' = [stage EXCEPT ![c] = "waiting"]
      /\ next_id' = next_id + 1
      /\ UNCHANGED <<started, main, failed, cause, running, stop, queue_stop, at, batch, results,
                     telemetry, handed_ids, handed, answered>>
  BY DEF Accepted, Serving, Elsewhere, Queue!Push, Requests!Current, Requests!Submit,
         Requests!Turn
<1>1. /\ next_id \in Nat /\ handed \in [Conns -> Nat] /\ tasks \in Seq(TaskType)
      /\ stage \in [Conns -> {"new", "reading", "waiting", "replying", "closed"}]
      /\ handed_ids \in Seq(Nat)
  BY DEF SystemInv, LumenTypeOK
<1>2. new \in TaskType BY <1>1 DEF TaskType
<1>3. lane \in LaneFun /\ lane[TaskLane] = tasks BY LaneType DEF SystemInv
<1>4. lane' = Pushed(lane, TaskLane, new)
  BY <1>0, <1>3, LaneNames DEF lane, Pushed, LaneFun
<1>5. \A t \in Held(lane) : /\ t.of[1] \in Conns /\ t.of[1] # c /\ t.id \in Nat /\ t.id < next_id
                            /\ stage[t.of[1]] = "waiting"
  BY <1>0, <1>3, HeldType DEF SystemInv, InFlight
<1>6. \A t \in Held(lane) : t.of # new.of /\ t.id # new.id
  <2>1. \A t \in Held(lane) : t.id # next_id BY <1>1, <1>5
  <2> QED BY <1>5, <2>1
<1>7. PICK M : M = Pushed(lane, TaskLane, new) OBVIOUS
<1>8. Apart(lane) BY DEF SystemInv, Accounted
<1>9. M \in LaneFun /\ Held(M) = Held(lane) \cup {new} /\ Apart(M)
  BY <1>2, <1>3, <1>6, <1>7, <1>8, LaneNames, PushKeeps
<1>10. stage'[c] = "waiting" /\ \A d \in Conns : d # c => stage'[d] = stage[d] BY <1>0, <1>1
<1>11. \A k \in DOMAIN handed_ids : handed_ids[k] < next_id /\ handed_ids[k] \in Nat
  BY <1>1 DEF SystemInv, InFlight
<1>12. next_id \notin Range(handed_ids) BY <1>1, <1>11, InRange
<1>13. ConfigInv' BY <1>0, ConfigUnchanged DEF SystemInv
<1>14. LumenTypeOK'
  <2>1. tasks' \in Seq(TaskType)
    <3> HIDE DEF TaskType, new
    <3> QED BY <1>0, <1>1, <1>2
  <2>2. next_id' \in Nat BY <1>0, <1>1
  <2>3. stage' \in [Conns -> {"new", "reading", "waiting", "replying", "closed"}] BY <1>0, <1>1
  <2> QED BY <1>0, <2>1, <2>2, <2>3 DEF SystemInv, LumenTypeOK, started
<1>15. Accounted'
  <2>1. Accounted BY DEF SystemInv
  <2>2. \A t \in Held(lane) : t.of[2] = handed[t.of[1]] + 1 /\ t.id \notin Range(handed_ids)
    BY <2>1, AccountedNow
  <2>3. new.of[2] = handed[new.of[1]] + 1 /\ new.id \notin Range(handed_ids) BY <1>12
  <2>4. \A t \in Held(M) : t.of[2] = handed[t.of[1]] + 1 /\ t.id \notin Range(handed_ids)
    <3> HIDE DEF new
    <3> QED BY <1>9, <2>2, <2>3
  <2>5. queue = "NaiveTaskQueue" =>
          \A d \in Conns : stage'[d] = "waiting" => \E t \in Held(M) : t.of = <<d, handed[d] + 1>>
    <3> SUFFICES ASSUME queue = "NaiveTaskQueue", NEW d \in Conns, stage'[d] = "waiting"
                 PROVE  \E t \in Held(M) : t.of = <<d, handed[d] + 1>>
      OBVIOUS
    <3>1. CASE d = c
      <4>1. new \in Held(M) /\ new.of = <<d, handed[d] + 1>> BY <1>9, <3>1
      <4> QED BY <4>1
    <3>2. CASE d # c BY <1>9, <1>10, <2>1, <3>2, AccountedNow
    <3> QED BY <3>1, <3>2
  <2>6. AccountedBy(M) BY <1>0, <1>9, <2>4, <2>5 DEF AccountedBy, started
  <2> QED BY <1>4, <1>7, <2>6, AccountedNext
<1>16. StartInOrder' BY <1>0 DEF SystemInv, StartInOrder, started
<1>17. BatchesInHand' BY <1>0 DEF SystemInv, BatchesInHand, started
<1>18. InFlight'
  <2>1. Held(lane)' = Held(M) BY <1>4, <1>7, PrimedLanes
  <2>2. \A t \in Held(lane) : t.id < next_id' /\ stage'[t.of[1]] = "waiting"
    BY <1>0, <1>1, <1>5, <1>10
  <2>3. new.id < next_id' /\ stage'[new.of[1]] = "waiting" BY <1>0, <1>1, <1>10
  <2>4. \A t \in Held(M) : t.id < next_id' /\ stage'[t.of[1]] = "waiting"
    <3> HIDE DEF new
    <3> QED BY <1>9, <2>2, <2>3
  <2>5. \A k \in DOMAIN handed_ids : handed_ids[k] < next_id' BY <1>0, <1>1, <1>11
  <2>6. \A d \in Conns : /\ stage'[d] = "waiting" => handed[d] < MaxRequests[d]
                         /\ stage'[d] = "replying" => answered[d] < handed[d]
    <3>1. \A d \in Conns : /\ stage[d] = "waiting" => handed[d] < MaxRequests[d]
                           /\ stage[d] = "replying" => answered[d] < handed[d]
      BY DEF SystemInv, InFlight
    <3> QED BY <1>0, <1>10, <3>1
  <2> QED BY <1>0, <2>1, <2>4, <2>5, <2>6 DEF InFlight
<1> QED BY <1>13, <1>14, <1>15, <1>16, <1>17, <1>18 DEF SystemInv

(* handle_responses: the oldest result leaves the pool for its session,    *)
(* and its trace id for telemetry.                                         *)
LEMMA ReplySteps ==
  ASSUME SystemInv, NEW c \in Conns, Reply(c)
  PROVE  SystemInv'
<1>0. /\ main = "serve" /\ results # << >> /\ Head(results).of[1] = c
      /\ results' = Tail(results) /\ handed_ids' = Append(handed_ids, Head(results).id)
      /\ stage[c] = "waiting" /\ stage' = [stage EXCEPT ![c] = "replying"]
      /\ handed' = [handed EXCEPT ![c] = @ + 1]
      /\ telemetry' = IF telemetry = "none" THEN "running" ELSE telemetry
      /\ UNCHANGED <<started, main, failed, cause, running, stop, queue_stop, at, batch, tasks,
                     next_id, answered>>
  BY DEF Reply, Serving, Elsewhere, Requests!Reply, Requests!Turn
<1>1. /\ next_id \in Nat /\ handed \in [Conns -> Nat] /\ answered \in [Conns -> Nat]
      /\ stage \in [Conns -> {"new", "reading", "waiting", "replying", "closed"}]
      /\ handed_ids \in Seq(Nat) /\ results \in Seq(TaskType)
      /\ telemetry \in {"none", "running", "joined"}
      /\ \A d \in Conns : handed[d] <= MaxRequests[d] /\ answered[d] <= handed[d]
  BY DEF SystemInv, LumenTypeOK
<1>2. lane \in LaneFun /\ lane[ResultLane] = results BY LaneType DEF SystemInv
<1>3. PICK M : M = Taken(lane, ResultLane) OBVIOUS
<1>4. lane' = M BY <1>0, <1>2, <1>3, LaneNames DEF lane, Taken, LaneFun
<1>5. PICK h : h = Head(results) OBVIOUS
<1>6. Apart(lane) BY DEF SystemInv, Accounted
<1>7. /\ M \in LaneFun /\ Apart(M) /\ h \in Held(lane) /\ Held(M) \subseteq Held(lane)
      /\ \A u \in Held(lane) : u \in Held(M) \/ u = h
      /\ \A u \in Held(M) : u.of # h.of /\ u.id # h.id
  BY <1>0, <1>2, <1>3, <1>5, <1>6, LaneNames, TakeKeeps
<1>8. Accounted BY DEF SystemInv
<1>9. \A u \in Held(lane) : /\ u.of[1] \in Conns /\ u.of \in Conns \X Nat /\ u.id \in Nat
                            /\ u.of[2] = handed[u.of[1]] + 1 /\ u.id \notin Range(handed_ids)
  BY <1>2, <1>8, HeldType, AccountedNow
<1>10. \A u \in Held(lane) : u.of = <<u.of[1], handed[u.of[1]] + 1>> BY <1>9
<1>11. h.of = <<c, handed[c] + 1>> BY <1>0, <1>5, <1>7, <1>10
<1>12. \A u \in Held(M) : u.of[1] # c BY <1>7, <1>10, <1>11
<1>13. /\ stage'[c] = "replying" /\ \A d \in Conns : d # c => stage'[d] = stage[d]
       /\ handed'[c] = handed[c] + 1 /\ \A d \in Conns : d # c => handed'[d] = handed[d]
  BY <1>0, <1>1
<1>14. \A x : x \in Range(handed_ids') <=> x \in Range(handed_ids) \/ x = h.id
  <2>1. h.id \in Nat BY <1>7, <1>9
  <2>2. PICK s \in Seq(Nat) : s = handed_ids BY <1>1
  <2>3. PICK i \in Nat : i = h.id BY <2>1
  <2>4. /\ DOMAIN Append(s, i) = 1..(Len(s) + 1) /\ Append(s, i)[Len(s) + 1] = i
        /\ \A k \in 1..Len(s) : Append(s, i)[k] = s[k]
        /\ DOMAIN s = 1..Len(s) /\ Len(s) \in Nat
    OBVIOUS
  <2>5. \A k \in 1..(Len(s) + 1) : k \in 1..Len(s) \/ k = Len(s) + 1 BY <2>4
  <2>6. \A k \in 1..Len(s) : k \in 1..(Len(s) + 1) BY <2>4
  <2>7. Len(s) + 1 \in 1..(Len(s) + 1) BY <2>4
  <2>8. \A x : (\E k \in DOMAIN Append(s, i) : x = Append(s, i)[k])
                 <=> (\E k \in DOMAIN s : x = s[k]) \/ x = i
    BY <2>4, <2>5, <2>6, <2>7
  <2>9. handed_ids' = Append(s, i) BY <1>0, <1>5, <2>2, <2>3
  <2>10. \A x : x \in Range(Append(s, i)) <=> \E k \in DOMAIN Append(s, i) : x = Append(s, i)[k]
    BY InRange
  <2>11. \A x : x \in Range(s) <=> \E k \in DOMAIN s : x = s[k] BY InRange
  <2>12. \A x : x \in Range(Append(s, i)) <=> x \in Range(s) \/ x = i
    BY <2>8, <2>10, <2>11, Zenon
  <2> QED BY <2>2, <2>3, <2>9, <2>12
<1>15. ConfigInv' BY <1>0, ConfigUnchanged DEF SystemInv
<1>16. handed_ids' \in Seq(Nat)
  <2>1. h.id \in Nat BY <1>7, <1>9
  <2> QED BY <1>0, <1>1, <1>5, <2>1
<1>17. handed[c] < MaxRequests[c] BY <1>0 DEF SystemInv, InFlight
<1>18. LumenTypeOK'
  <2>1. results' \in Seq(TaskType)
    <3> HIDE DEF TaskType
    <3> QED BY <1>0, <1>1
  <2>2. stage' \in [Conns -> {"new", "reading", "waiting", "replying", "closed"}] BY <1>0, <1>1
  <2>3. handed' \in [Conns -> Nat] BY <1>0, <1>1
  <2>4. \A d \in Conns : handed'[d] <= MaxRequests[d] /\ answered[d] <= handed'[d]
    <3> SUFFICES ASSUME NEW d \in Conns
                 PROVE  handed'[d] <= MaxRequests[d] /\ answered[d] <= handed'[d]
      OBVIOUS
    <3>1. MaxRequests[d] \in Nat /\ handed[d] \in Nat /\ answered[d] \in Nat
      BY <1>1, LumenAssumption
    <3>2. CASE d = c BY <1>1, <1>13, <1>17, <3>1, <3>2
    <3>3. CASE d # c BY <1>1, <1>13, <3>3
    <3> QED BY <3>2, <3>3
  <2>5. telemetry' \in {"none", "running", "joined"} BY <1>0, <1>1
  <2> QED BY <1>0, <1>16, <2>1, <2>2, <2>3, <2>4, <2>5 DEF SystemInv, LumenTypeOK, started
<1>19. Accounted'
  <2>1. \A t \in Held(M) : t.of[2] = handed'[t.of[1]] + 1 /\ t.id \notin Range(handed_ids')
    BY <1>7, <1>9, <1>12, <1>13, <1>14
  <2>2. queue = "NaiveTaskQueue" =>
          \A d \in Conns : stage'[d] = "waiting" =>
                             \E t \in Held(M) : t.of = <<d, handed'[d] + 1>>
    <3> SUFFICES ASSUME queue = "NaiveTaskQueue", NEW d \in Conns, stage'[d] = "waiting"
                 PROVE  \E t \in Held(M) : t.of = <<d, handed'[d] + 1>>
      OBVIOUS
    <3>1. d # c BY <1>13
    <3>2. stage[d] = "waiting" /\ handed'[d] = handed[d] BY <1>13, <3>1
    <3>3. PICK t \in Held(lane) : t.of = <<d, handed[d] + 1>> BY <1>8, <3>2, AccountedNow
    <3>4. t # h BY <1>11, <3>1, <3>3
    <3> QED BY <1>7, <3>2, <3>3, <3>4
  <2>3. AccountedBy(M) BY <1>0, <1>7, <2>1, <2>2 DEF AccountedBy, started
  <2> QED BY <1>4, <2>3, AccountedNext
<1>20. StartInOrder' BY <1>0 DEF SystemInv, StartInOrder, started
<1>21. BatchesInHand' BY <1>0 DEF SystemInv, BatchesInHand, started
<1>22. InFlight'
  <2>1. Held(lane)' = Held(M) BY <1>4, PrimedLanes
  <2>2. \A t \in Held(lane) : t.id < next_id /\ stage[t.of[1]] = "waiting"
    BY <1>0 DEF SystemInv, InFlight
  <2>3. \A t \in Held(M) : t.id < next_id /\ stage'[t.of[1]] = "waiting"
    BY <1>7, <1>9, <1>12, <1>13, <2>2
  <2>4. \A k \in DOMAIN handed_ids' : handed_ids'[k] < next_id
    <3> SUFFICES ASSUME NEW k \in DOMAIN handed_ids' PROVE handed_ids'[k] < next_id
      OBVIOUS
    <3>1. handed_ids'[k] \in Range(handed_ids') BY InRange
    <3>2. handed_ids'[k] \in Range(handed_ids) \/ handed_ids'[k] = h.id BY <1>14, <3>1
    <3>3. \A x \in Range(handed_ids) : x < next_id BY InRange DEF SystemInv, InFlight
    <3> QED BY <1>7, <2>2, <3>2, <3>3
  <2>5. \A d \in Conns : /\ stage'[d] = "waiting" => handed'[d] < MaxRequests[d]
                         /\ stage'[d] = "replying" => answered[d] < handed'[d]
    <3>1. \A d \in Conns : /\ stage[d] = "waiting" => handed[d] < MaxRequests[d]
                           /\ stage[d] = "replying" => answered[d] < handed[d]
      BY DEF SystemInv, InFlight
    <3> SUFFICES ASSUME NEW d \in Conns
                 PROVE  /\ stage'[d] = "waiting" => handed'[d] < MaxRequests[d]
                        /\ stage'[d] = "replying" => answered[d] < handed'[d]
      OBVIOUS
    <3>2. CASE d = c
      <4>1. answered[c] \in Nat /\ handed[c] \in Nat /\ answered[c] <= handed[c] BY <1>1
      <4> QED BY <1>13, <3>2, <4>1
    <3>3. CASE d # c BY <1>13, <3>1, <3>3
    <3> QED BY <3>2, <3>3
  <2>6. UNCHANGED <<main, next_id, answered>> BY <1>0
  <2> QED BY <1>0, <2>1, <2>3, <2>4, <2>5, <2>6 DEF InFlight
<1> QED BY <1>15, <1>18, <1>19, <1>20, <1>21, <1>22 DEF SystemInv

(* A worker takes tasks from the queue, or pushes a result.                *)
LEMMA TasksMove ==
  ASSUME SystemInv, NEW a \in Lanes, NEW b \in Lanes, a # b,
         NEW n \in Nat, n <= Len(lane[a]), lane' = Moved(lane, a, b, n),
         MainGoesOn, main # "load", \A w \in Workers : at'[w] # "none" => at[w] # "none"
  PROVE  ConfigInv' /\ Accounted' /\ StartInOrder' /\ InFlight'
<1>0. UNCHANGED <<started, main, failed, cause, running, stop, queue_stop, telemetry, next_id,
                  handed_ids, stage, handed, answered>>
  BY DEF MainGoesOn, Outside, traces, server
<1>1. Accounted /\ LumenTypeOK /\ InFlight /\ StartInOrder BY DEF SystemInv
<1>2. lane \in LaneFun /\ Apart(lane) BY <1>1, LaneType DEF Accounted
<1>3. PICK M : M = Moved(lane, a, b, n) OBVIOUS
<1>4. M \in LaneFun /\ Held(M) = Held(lane) /\ Apart(M) BY <1>2, <1>3, MoveKeeps
<1>5. ConfigInv' BY <1>0, ConfigUnchanged DEF SystemInv
<1>6. Accounted'
  <2>1. AccountedBy(M) BY <1>0, <1>1, <1>4, AccountedNow DEF AccountedBy, started
  <2> QED BY <1>3, <2>1, AccountedNext
<1>7. Held(lane)' = Held(lane) BY <1>3, <1>4, PrimedLanes
<1>8. StartInOrder'
  <2>1. \A w \in Workers : at'[w] # "none" =>
          w <= workers /\ m.model_path \in Loadable /\ 1 <= PodsThatFit
    BY <1>1 DEF StartInOrder
  <2> QED BY <1>0, <1>1, <1>7, <2>1 DEF StartInOrder, started
<1>9. InFlight' BY <1>0, <1>1, <1>7 DEF InFlight
<1> QED BY <1>5, <1>6, <1>8, <1>9

(* pop_batch: the n oldest tasks, as many as fit the batch.                *)
LEMMA PopEffect ==
  ASSUME SystemInv, NEW w \in Workers, Pop(w)
  PROVE  \E n \in Nat :
           /\ n <= Len(tasks) /\ Len(batch[w]) + n <= m.batch_size
           /\ batch' = [batch EXCEPT ![w] = batch[w] \o SubSeq(tasks, 1, n)]
           /\ tasks' = SubSeq(tasks, n + 1, Len(tasks))
           /\ \/ at' = [at EXCEPT ![w] = "run"]
              \/ at' = at /\ queue # "NaiveTaskQueue"
<1>1. /\ tasks \in Seq(TaskType) /\ batch \in [Workers -> Seq(TaskType)]
      /\ at \in [Workers -> {"none", "loop", "pop", "run", "exited"}] /\ m.batch_size \in Nat
      /\ \A v \in Workers : Len(batch[v]) <= m.batch_size
  BY DEF SystemInv, LumenTypeOK, ConfigInv, Settings
<1>2. /\ at[w] = "pop" /\ tasks # << >> /\ Len(batch[w]) < m.batch_size
      /\ MainGoesOn /\ UNCHANGED results
  BY DEF Pop
<1>3. Len(tasks) \in Nat /\ Len(tasks) >= 1 /\ Len(batch[w]) \in Nat
  <2> HIDE DEF TaskType
  <2>1. Len(tasks) \in Nat /\ Len(tasks) # 0 BY <1>1, <1>2
  <2>2. batch[w] \in Seq(TaskType) BY <1>1
  <2> QED BY <2>1, <2>2
<1>4. CASE queue = "NaiveTaskQueue"
  <2>1. PICK n : n = Lesser(Len(tasks), m.batch_size) OBVIOUS
  <2>2. /\ batch' = [batch EXCEPT ![w] = batch[w] \o SubSeq(tasks, 1, n)]
        /\ tasks' = SubSeq(tasks, n + 1, Len(tasks)) /\ at' = [at EXCEPT ![w] = "run"]
    BY <1>4, <2>1 DEF Pop, Queue!PopBatch
  <2>3. n \in Nat /\ n <= Len(tasks) /\ n <= m.batch_size BY <1>1, <1>3, <2>1 DEF Lesser
  <2>4. Len(batch[w]) = 0 BY <1>2, <1>4 DEF SystemInv, BatchesInHand
  <2>5. Len(batch[w]) + n <= m.batch_size BY <2>3, <2>4
  <2> QED BY <2>2, <2>3, <2>5
<1>5. CASE queue # "NaiveTaskQueue"
  <2>1. /\ batch' = [batch EXCEPT ![w] = batch[w] \o SubSeq(tasks, 1, 1)]
        /\ tasks' = SubSeq(tasks, 1 + 1, Len(tasks)) /\ at' = at
    BY <1>5 DEF Pop, Queue!PopBatch
  <2>2. 1 \in Nat /\ 1 <= Len(tasks) /\ Len(batch[w]) + 1 <= m.batch_size
    BY <1>1, <1>2, <1>3
  <2> QED BY <1>5, <2>1, <2>2
<1> QED BY <1>4, <1>5

LEMMA PopSteps ==
  ASSUME SystemInv, NEW w \in Workers, Pop(w)
  PROVE  SystemInv'
<1>1. /\ tasks \in Seq(TaskType) /\ batch \in [Workers -> Seq(TaskType)]
      /\ at \in [Workers -> {"none", "loop", "pop", "run", "exited"}] /\ m.batch_size \in Nat
      /\ \A v \in Workers : Len(batch[v]) <= m.batch_size
  BY DEF SystemInv, LumenTypeOK, ConfigInv, Settings
<1>2. /\ at[w] = "pop" /\ tasks # << >> /\ Len(batch[w]) < m.batch_size
      /\ MainGoesOn /\ UNCHANGED results
  BY DEF Pop
<1>3. Len(tasks) \in Nat /\ Len(tasks) >= 1 /\ Len(batch[w]) \in Nat
  <2> HIDE DEF TaskType
  <2>1. Len(tasks) \in Nat /\ Len(tasks) # 0 BY <1>1, <1>2
  <2>2. batch[w] \in Seq(TaskType) BY <1>1
  <2> QED BY <2>1, <2>2
<1>4. PICK n \in Nat :
        /\ n <= Len(tasks) /\ Len(batch[w]) + n <= m.batch_size
        /\ batch' = [batch EXCEPT ![w] = batch[w] \o SubSeq(tasks, 1, n)]
        /\ tasks' = SubSeq(tasks, n + 1, Len(tasks))
        /\ \/ at' = [at EXCEPT ![w] = "run"]
           \/ at' = at /\ queue # "NaiveTaskQueue"
  BY PopEffect
<1>5. batch[w] \in Seq(TaskType) BY <1>1
<1>6. /\ tasks' \in Seq(TaskType) /\ batch[w] \o SubSeq(tasks, 1, n) \in Seq(TaskType)
      /\ DOMAIN (batch[w] \o SubSeq(tasks, 1, n)) = 1..(Len(batch[w]) + n)
  BY <1>1, <1>4, <1>5, Parts
<1>7. Len(batch[w] \o SubSeq(tasks, 1, n)) = Len(batch[w]) + n
  <2> HIDE DEF TaskType
  <2>1. SubSeq(tasks, 1, n) \in Seq(TaskType) /\ Len(SubSeq(tasks, 1, n)) = n BY <1>1, <1>3, <1>4
  <2>2. \A r, u \in Seq(TaskType) : Len(r \o u) = Len(r) + Len(u) OBVIOUS
  <2>3. Len(batch[w] \o SubSeq(tasks, 1, n)) = Len(batch[w]) + Len(SubSeq(tasks, 1, n))
    BY <1>5, <2>1, <2>2, Zenon
  <2> QED BY <2>1, <2>3
<1>8. /\ batch' \in [Workers -> Seq(TaskType)]
      /\ batch'[w] = batch[w] \o SubSeq(tasks, 1, n)
      /\ \A v \in Workers : v # w => batch'[v] = batch[v]
  BY <1>1, <1>4, <1>6
<1>9. lane \in LaneFun /\ lane[TaskLane] = tasks /\ lane[w] = batch[w]
  BY LaneType DEF SystemInv
<1>10. lane' = Moved(lane, TaskLane, w, n)
  <2>1. TaskLane \in Lanes /\ w \in Lanes /\ w # TaskLane /\ w # ResultLane
        /\ TaskLane # ResultLane
    BY LaneNames
  <2>2. lane' = [l \in Lanes |-> IF l = TaskLane THEN tasks'
                                 ELSE IF l = ResultLane THEN results ELSE batch'[l]]
    BY <1>2 DEF lane
  <2>3. \A l \in Lanes : l = TaskLane \/ l = ResultLane \/ l \in Workers BY DEF Lanes
  <2>4. lane = [l \in Lanes |-> IF l = TaskLane THEN tasks
                                ELSE IF l = ResultLane THEN results ELSE batch[l]]
    BY DEF lane
  <2>5. \A l \in Lanes : lane'[l] = IF l = TaskLane THEN SubSeq(tasks, n + 1, Len(tasks))
                                    ELSE IF l = w THEN batch[w] \o SubSeq(tasks, 1, n)
                                    ELSE lane[l]
    BY <1>4, <1>8, <2>1, <2>2, <2>3, <2>4
  <2>6. \A l \in Lanes : lane'[l] = Moved(lane, TaskLane, w, n)[l]
    BY <1>9, <2>1, <2>5 DEF Moved, LaneFun
  <2> QED BY <1>9, <2>2, <2>6 DEF Moved, LaneFun
<1>11. /\ at' \in [Workers -> {"none", "loop", "pop", "run", "exited"}]
       /\ \A v \in Workers : v # w => at'[v] = at[v]
       /\ at'[w] = "run" \/ (at'[w] = "pop" /\ queue # "NaiveTaskQueue")
  <2>1. CASE at' = [at EXCEPT ![w] = "run"]
    <3>1. "run" \in {"none", "loop", "pop", "run", "exited"} OBVIOUS
    <3>2. at' \in [Workers -> {"none", "loop", "pop", "run", "exited"}] BY <1>1, <2>1, <3>1
    <3>3. at'[w] = "run" BY <1>1, <2>1
    <3>4. \A v \in Workers : v # w => at'[v] = at[v] BY <1>1, <2>1
    <3> QED BY <3>2, <3>3, <3>4
  <2>2. CASE at' = at /\ queue # "NaiveTaskQueue" BY <1>1, <1>2, <2>2
  <2> QED BY <1>4, <2>1, <2>2
<1>12. main # "load" BY <1>2 DEF SystemInv, StartInOrder
<1>13. \A v \in Workers : at'[v] # "none" => at[v] # "none" BY <1>2, <1>11
<1>14. n <= Len(lane[TaskLane]) /\ w \in Lanes /\ TaskLane \in Lanes /\ TaskLane # w
  BY <1>4, <1>9, LaneNames
<1>15. ConfigInv' /\ Accounted' /\ StartInOrder' /\ InFlight'
  BY <1>2, <1>10, <1>12, <1>13, <1>14, TasksMove
<1>16. UNCHANGED <<started, main, failed, cause, running, stop, queue_stop, telemetry, next_id,
                   handed_ids, stage, handed, answered, results>>
  BY <1>2 DEF MainGoesOn, Outside, traces, server
<1>17. LumenTypeOK'
  <2>1. \A v \in Workers : Len(batch'[v]) <= m.batch_size
    <3> SUFFICES ASSUME NEW v \in Workers PROVE Len(batch'[v]) <= m.batch_size
      OBVIOUS
    <3>1. CASE v = w BY <1>4, <1>7, <1>8, <3>1
    <3>2. CASE v # w BY <1>1, <1>8, <3>2
    <3> QED BY <3>1, <3>2
  <2> QED BY <1>6, <1>8, <1>11, <1>16, <2>1 DEF SystemInv, LumenTypeOK, started
<1>18. BatchesInHand' BY <1>8, <1>11, <1>16 DEF SystemInv, BatchesInHand, started
<1> QED BY <1>15, <1>17, <1>18 DEF SystemInv

LEMMA HeadAndTail ==
  ASSUME NEW s \in Seq(TaskType), NEW r \in Seq(TaskType), s # << >>
  PROVE  /\ Tail(s) = SubSeq(s, 1 + 1, Len(s))
         /\ Append(r, Head(s)) = r \o SubSeq(s, 1, 1)
         /\ Tail(s) \in Seq(TaskType) /\ Len(Tail(s)) <= Len(s)
         /\ Append(r, Head(s)) \in Seq(TaskType)
         /\ 1 <= Len(s) /\ Len(s) \in Nat /\ Len(Tail(s)) \in Nat
<1> HIDE DEF TaskType
<1>1. Len(s) \in Nat /\ Len(s) # 0 OBVIOUS
<1>2. Tail(s) \in Seq(TaskType) /\ Len(Tail(s)) = Len(s) - 1 /\ Head(s) \in TaskType
  BY <1>1
<1>3. Tail(s) = SubSeq(s, 1 + 1, Len(s)) BY <1>1
<1>4. SubSeq(s, 1, 1) = << Head(s) >>
  <2>1. SubSeq(s, 1, 1) \in Seq(TaskType) /\ Len(SubSeq(s, 1, 1)) = 1 BY <1>1
  <2>2. SubSeq(s, 1, 1)[1] = s[1] /\ Head(s) = s[1] BY <1>1
  <2>3. \A u \in Seq(TaskType) : Len(u) = 1 => u = << u[1] >> OBVIOUS
  <2>4. SubSeq(s, 1, 1) = << SubSeq(s, 1, 1)[1] >> BY <2>1, <2>3, Zenon
  <2> QED BY <2>2, <2>4, Zenon
<1>5. Append(r, Head(s)) = r \o << Head(s) >> BY <1>2
<1>6. Append(r, Head(s)) \in Seq(TaskType) BY <1>2
<1> QED BY <1>1, <1>2, <1>3, <1>4, <1>5, <1>6

(* engine->run, and the push of its result.                                *)
LEMMA RunSteps ==
  ASSUME SystemInv, NEW w \in Workers, Run(w)
  PROVE  SystemInv'
<1>1. /\ results \in Seq(TaskType) /\ batch \in [Workers -> Seq(TaskType)]
      /\ at \in [Workers -> {"none", "loop", "pop", "run", "exited"}] /\ m.batch_size \in Nat
      /\ \A v \in Workers : Len(batch[v]) <= m.batch_size
  BY DEF SystemInv, LumenTypeOK, ConfigInv, Settings
<1>2. /\ at[w] = "run" /\ batch[w] # << >>
      /\ results' = Append(results, Head(batch[w]))
      /\ batch' = [batch EXCEPT ![w] = Tail(batch[w])]
      /\ MainGoesOn /\ UNCHANGED <<at, tasks>>
  BY DEF Run, Task
<1>3. /\ Tail(batch[w]) = SubSeq(batch[w], 1 + 1, Len(batch[w]))
      /\ Append(results, Head(batch[w])) = results \o SubSeq(batch[w], 1, 1)
      /\ Tail(batch[w]) \in Seq(TaskType) /\ Len(Tail(batch[w])) <= Len(batch[w])
      /\ Append(results, Head(batch[w])) \in Seq(TaskType)
      /\ 1 <= Len(batch[w]) /\ Len(batch[w]) \in Nat /\ Len(Tail(batch[w])) \in Nat
  <2>1. batch[w] \in Seq(TaskType) BY <1>1
  <2> QED BY <1>1, <1>2, <2>1, HeadAndTail
<1>4. /\ batch' \in [Workers -> Seq(TaskType)] /\ batch'[w] = Tail(batch[w])
      /\ \A v \in Workers : v # w => batch'[v] = batch[v]
  BY <1>1, <1>2, <1>3
<1>5. lane \in LaneFun /\ lane[ResultLane] = results /\ lane[w] = batch[w]
  BY LaneType DEF SystemInv
<1>6. lane' = Moved(lane, w, ResultLane, 1)
  <2>1. TaskLane \in Lanes /\ ResultLane \in Lanes /\ w \in Lanes /\ w # TaskLane
        /\ w # ResultLane /\ TaskLane # ResultLane
    BY LaneNames
  <2>2. lane' = [l \in Lanes |-> IF l = TaskLane THEN tasks
                                 ELSE IF l = ResultLane THEN results' ELSE batch'[l]]
    BY <1>2 DEF lane
  <2>3. \A l \in Lanes : l = TaskLane \/ l = ResultLane \/ l \in Workers BY DEF Lanes
  <2>4. lane = [l \in Lanes |-> IF l = TaskLane THEN tasks
                                ELSE IF l = ResultLane THEN results ELSE batch[l]]
    BY DEF lane
  <2>5. \A l \in Lanes : lane'[l] = IF l = w THEN SubSeq(batch[w], 1 + 1, Len(batch[w]))
                                    ELSE IF l = ResultLane THEN results \o SubSeq(batch[w], 1, 1)
                                    ELSE lane[l]
    BY <1>2, <1>3, <1>4, <2>1, <2>2, <2>3, <2>4
  <2>6. \A l \in Lanes : lane'[l] = Moved(lane, w, ResultLane, 1)[l]
    BY <1>5, <2>1, <2>5 DEF Moved, LaneFun
  <2> QED BY <1>5, <2>2, <2>6 DEF Moved, LaneFun
<1>7. main # "load" BY <1>2 DEF SystemInv, StartInOrder
<1>8. \A v \in Workers : at'[v] # "none" => at[v] # "none" BY <1>2
<1>9. 1 \in Nat /\ 1 <= Len(lane[w]) /\ w \in Lanes /\ ResultLane \in Lanes /\ w # ResultLane
  BY <1>3, <1>5, LaneNames
<1>10. ConfigInv' /\ Accounted' /\ StartInOrder' /\ InFlight'
  BY <1>2, <1>6, <1>7, <1>8, <1>9, TasksMove
<1>11. UNCHANGED <<started, main, failed, cause, running, stop, queue_stop, telemetry, next_id,
                   handed_ids, stage, handed, answered, tasks, at>>
  BY <1>2 DEF MainGoesOn, Outside, traces, server
<1>12. LumenTypeOK'
  <2>1. \A v \in Workers : Len(batch'[v]) <= m.batch_size
    <3> SUFFICES ASSUME NEW v \in Workers PROVE Len(batch'[v]) <= m.batch_size
      OBVIOUS
    <3>1. CASE v = w
      <4>1. Len(batch[w]) <= m.batch_size BY <1>1
      <4> QED BY <1>1, <1>3, <1>4, <3>1, <4>1
    <3>2. CASE v # w BY <1>1, <1>4, <3>2
    <3> QED BY <3>1, <3>2
  <2>2. results' \in Seq(TaskType) BY <1>2, <1>3
  <2> QED BY <1>4, <1>11, <2>1, <2>2 DEF SystemInv, LumenTypeOK, started
<1>13. BatchesInHand'
  <2>1. \A v \in Workers :
          /\ at[v] \in {"none", "loop", "exited"} => batch'[v] = << >>
          /\ at[v] = "pop" /\ queue = "NaiveTaskQueue" => batch'[v] = << >>
    BY <1>2, <1>4 DEF SystemInv, BatchesInHand
  <2> QED BY <1>11, <2>1 DEF BatchesInHand, started
<1> QED BY <1>10, <1>12, <1>13 DEF SystemInv

----------------------------------------------------------------------------
(* The invariant of the program                                            *)

LEMMA SystemInitially == LumenInit => SystemInv
<1> SUFFICES ASSUME LumenInit PROVE SystemInv
  OBVIOUS
<1>0. /\ Init /\ tasks = << >> /\ batch = [w \in Workers |-> << >>] /\ results = << >>
      /\ main = "load" /\ failed = FALSE /\ cause = "none" /\ running = TRUE
      /\ stop = FALSE /\ queue_stop = FALSE /\ at = [w \in Workers |-> "none"]
      /\ stage = [c \in Conns |-> "new"] /\ handed = [c \in Conns |-> 0]
      /\ answered = [c \in Conns |-> 0]
      /\ telemetry = "none" /\ next_id = 0 /\ handed_ids = << >>
  BY DEF LumenInit, Queue!Init, Requests!RRInit
<1>1. ConfigInv BY <1>0, ConfigInitially
<1>2. m.batch_size \in Nat BY <1>1 DEF ConfigInv, Settings
<1>3. << >> \in Seq(TaskType) /\ << >> \in Seq(Nat) /\ Len(<< >>) = 0 OBVIOUS
<1>4. LumenTypeOK
  <2>1. batch \in [Workers -> Seq(TaskType)] BY <1>0, <1>3
  <2>2. \A w \in Workers : Len(batch[w]) <= m.batch_size BY <1>0, <1>2, <1>3
  <2>3. /\ handed \in [Conns -> Nat] /\ answered \in [Conns -> Nat]
        /\ \A c \in Conns : handed[c] <= MaxRequests[c] /\ answered[c] <= handed[c]
    BY <1>0, LumenAssumption
  <2>4. /\ at \in [Workers -> {"none", "loop", "pop", "run", "exited"}]
        /\ stage \in [Conns -> {"new", "reading", "waiting", "replying", "closed"}]
    BY <1>0
  <2>5. main \in Mains /\ next_id \in Nat BY <1>0 DEF Mains
  <2> QED BY <1>0, <1>3, <2>1, <2>2, <2>3, <2>4, <2>5 DEF LumenTypeOK
<1>5. \A l \in Lanes : lane[l] = << >>
  <2>1. \A l \in Lanes : l = TaskLane \/ l = ResultLane \/ l \in Workers BY DEF Lanes
  <2> QED BY <1>0, <2>1 DEF lane
<1>6. \A l \in Lanes : DOMAIN lane[l] = {}
  <2>1. DOMAIN << >> = {} OBVIOUS
  <2> QED BY <1>5, <2>1
<1>7. Held(lane) = {} /\ Apart(lane) BY <1>6, InHeld DEF Apart
<1>8. \A c \in Conns : stage[c] = "new" BY <1>0
<1>9. Accounted BY <1>7, <1>8 DEF Accounted
<1>10. StartInOrder
  <2>1. step # "started" BY <1>0 DEF Init
  <2> QED BY <1>0, <1>7, <1>8, <2>1 DEF StartInOrder
<1>11. BatchesInHand BY <1>0 DEF BatchesInHand
<1>12. InFlight
  <2>1. DOMAIN handed_ids = {} BY <1>0
  <2> QED BY <1>7, <1>8, <2>1 DEF InFlight
<1> QED BY <1>1, <1>4, <1>9, <1>10, <1>11, <1>12 DEF SystemInv

LEMMA SystemUnchanged == SystemInv /\ UNCHANGED allvars => SystemInv'
<1> SUFFICES ASSUME SystemInv, UNCHANGED allvars PROVE SystemInv'
  OBVIOUS
<1>1. UNCHANGED <<started, at, batch, tasks, results, next_id, handed_ids, server, main, failed,
                  running, cause, stop, queue_stop, telemetry>>
  BY DEF allvars, pool, traces
<1> QED BY <1>1, MainMoves DEF SystemInv, LumenTypeOK

LEMMA SystemStep == SystemInv /\ [LumenNext]_allvars => SystemInv'
<1> SUFFICES ASSUME SystemInv, [LumenNext]_allvars PROVE SystemInv'
  OBVIOUS
<1>1. CASE MainStep
  <2>1. CASE \E w \in Workers : StartWorker(w) BY <2>1, StartWorkerSteps
  <2>2. CASE ~\E w \in Workers : StartWorker(w)
    BY <1>1, <2>2, Loads, MainSteps, ServerDownSteps DEF MainStep
  <2> QED BY <2>1, <2>2
<1>2. CASE ServerFails \/ SignalHandler \/ ReporterThrows BY <1>2, MainSteps
<1>3. CASE \E c \in Conns : Turn(c) \/ Killed(c)
  <2>1. PICK c \in Conns : Turn(c) \/ Killed(c) BY <1>3
  <2> QED BY <2>1, SessionSteps, AcceptedSteps, ReplySteps, MainSteps DEF Turn
<1>4. CASE \E w \in Workers : WorkerStep(w) \/ EngineThrows(w)
  <2>1. PICK w \in Workers : WorkerStep(w) \/ EngineThrows(w) BY <1>4
  <2> QED BY <2>1, WorkerSteps, PopSteps, RunSteps DEF WorkerStep
<1>5. CASE UNCHANGED allvars BY <1>5, SystemUnchanged
<1> QED BY <1>1, <1>2, <1>3, <1>4, <1>5 DEF LumenNext

(* The program, with any queue, any number of workers and any file: every  *)
(* request that the queue accepted is in exactly one place until it is     *)
(* answered, with a trace id of its own; batches keep to the batch size.   *)
THEOREM RequestsAccounted == LumenSpec => []SystemInv
<1> QED BY SystemInitially, SystemStep, PTL DEF LumenSpec

(* main follows load_from_file: the program's settings are those of        *)
(* ConfigManager, and the queue for one consumer has one worker.           *)
THEOREM OneConsumer == LumenSpec => []SpscSingleWorker
<1>1. SystemInv => SpscSingleWorker BY DEF SystemInv, ConfigInv
<1> QED BY <1>1, RequestsAccounted, PTL

----------------------------------------------------------------------------
(* The end of the program                                                  *)

LEMMA NoOrphansStep == SystemInv /\ NoOrphans /\ [LumenNext]_allvars => NoOrphans'
<1> SUFFICES ASSUME SystemInv, NoOrphans, [LumenNext]_allvars PROVE NoOrphans'
  OBVIOUS
<1>0. /\ main \in {"telemetry", "exit0", "exit1"} =>
           \A w \in Workers : at[w] \in {"none", "exited"}
      /\ main \in {"exit0", "exit1"} => telemetry # "running"
      /\ main = "exit0" => telemetry = "joined"
      /\ handed_ids # << >> => telemetry # "none"
  BY DEF NoOrphans
<1>1. /\ main = "load" => \A w \in Workers : at[w] = "none"
      /\ main \in {"load", "build"} => handed_ids = << >> /\ telemetry = "none"
  BY DEF SystemInv, StartInOrder
<1>2. CASE Load \/ Construct
  <2>1. main = "load" /\ UNCHANGED <<pool, traces>> /\ main' \in {"load", "build", "exit1"}
    BY <1>2 DEF Load, Construct, Fail
  <2> QED BY <1>1, <2>1 DEF NoOrphans, pool, traces
<1>3. CASE PodFails
  <2>1. main = "build" /\ UNCHANGED <<pool, traces>> /\ main' \in {"exit1", "aborted"}
    BY <1>3 DEF PodFails, Fail, Abort
  <2>2. main' = "exit1" => Started = {} BY <1>3 DEF PodFails, Abort
  <2>3. main' = "exit1" => \A w \in Workers : at[w] = "none" BY <2>2 DEF Started
  <2> QED BY <1>1, <2>1, <2>3 DEF NoOrphans, pool, traces
<1>4. CASE ServerUp \/ ServerFails \/ ServerDown \/ StopPool \/ QueueShutdown \/ SignalHandler
           \/ ReporterThrows \/ \E c \in Conns : Killed(c)
  <2>1. /\ UNCHANGED <<at, traces>>
        /\ main' = main \/ main' \notin {"telemetry", "exit0", "exit1"}
    BY <1>4 DEF ServerUp, ServerFails, ServerDown, StopPool, QueueShutdown, SignalHandler, Killed,
                ReporterThrows, Fail, Abort, pool
  <2> QED BY <1>0, <2>1 DEF NoOrphans, traces
<1>5. CASE Join
  <2>1. /\ UNCHANGED <<pool, traces>> /\ main' = "telemetry"
        /\ \A w \in Workers : at[w] \in {"none", "exited"}
    BY <1>5 DEF Join, Started
  <2> QED BY <1>0, <2>1 DEF NoOrphans, pool, traces
<1>6. CASE Finish
  <2>1. /\ main = "telemetry" /\ main' \in {"exit0", "exit1"} /\ UNCHANGED <<pool, handed_ids>>
        /\ telemetry' = IF failed /\ telemetry = "none" THEN "none" ELSE "joined"
        /\ main' = IF failed THEN "exit1" ELSE "exit0"
    BY <1>6 DEF Finish
  <2> QED BY <1>0, <2>1 DEF NoOrphans, pool
<1>7. CASE \E w \in Workers : StartWorker(w)
  <2>1. main = "build" /\ main' = main /\ UNCHANGED traces BY <1>7 DEF StartWorker
  <2> QED BY <1>0, <2>1 DEF NoOrphans, traces
<1>8. CASE \E c \in Conns : Turn(c)
  <2>1. PICK c \in Conns : Turn(c) BY <1>8
  <2>2. main = "serve" /\ main' = main
    BY <2>1 DEF Turn, Admit, Accepted, Refused, Reply, Answer, Close, Serving, Elsewhere
  <2>3. handed_ids' # << >> => telemetry' # "none"
    <3>1. CASE Reply(c) BY <3>1 DEF Reply
    <3>2. CASE ~Reply(c)
      <4>1. UNCHANGED <<telemetry, handed_ids>>
        BY <2>1, <3>2 DEF Turn, Admit, Accepted, Refused, Answer, Close, traces
      <4> QED BY <1>0, <4>1
    <3> QED BY <3>1, <3>2
  <2> QED BY <2>2, <2>3 DEF NoOrphans
<1>9. CASE \E w \in Workers : WorkerStep(w) \/ EngineThrows(w)
  <2>1. PICK w \in Workers : WorkerStep(w) \/ EngineThrows(w) BY <1>9
  <2>2. /\ Alive /\ at[w] \in {"loop", "pop", "run"} /\ UNCHANGED traces
        /\ main' = main \/ main' = "aborted"
    BY <2>1 DEF WorkerStep, Loop, Pop, PopReturns, Run, NullProcessor, BatchDone, EngineThrows,
                MainGoesOn, Outside, Abort
  <2>3. main \notin {"telemetry", "exit0", "exit1"}
    <3>1. at[w] \notin {"none", "exited"} BY <2>2
    <3> QED BY <1>0, <3>1
  <2> QED BY <1>0, <2>2, <2>3 DEF NoOrphans, traces
<1>10. CASE UNCHANGED allvars BY <1>0, <1>10 DEF NoOrphans, allvars, pool, traces
<1> QED BY <1>2, <1>3, <1>4, <1>5, <1>6, <1>7, <1>8, <1>9, <1>10 DEF LumenNext, MainStep

(* ~ThreadPool and TelemetryManager::shutdown: no thread outlives what it  *)
(* uses, on every way out of main.                                         *)
THEOREM ThreadsJoined == LumenSpec => []NoOrphans
<1>1. LumenInit => NoOrphans BY DEF LumenInit, NoOrphans
<1> QED BY <1>1, NoOrphansStep, RequestsAccounted, PTL DEF LumenSpec

(* What the way a start fails rests on: a mistake that Construct meets ends*)
(* there; beyond the pool's constructor, and for telemetry, a worker runs; *)
(* the way out is taken after SIGINT or an exception, and the second is    *)
(* remembered to the end.                                                  *)
Mistaken == (m.proc_type = "IMAGENET" /\ m.label = "bad_label") \/ workers > PodLimit
LeavingMain == {"stop", "shutdown", "join", "telemetry", "exit0"}
CleanInv ==
  /\ step = "started" /\ Mistaken => main = "exit1" /\ Started = {}
  /\ (main \notin {"load", "build", "exit1"} \/ telemetry # "none") => Started # {}
  /\ main \in LeavingMain => failed \/ ~running
  /\ main = "exit0" => ~failed

LEMMA CleanIsClean == SystemInv /\ CleanInv => FailsCleanly
<1> SUFFICES ASSUME SystemInv, CleanInv PROVE FailsCleanly
  OBVIOUS
<1>1. ASSUME step = "started", Unservable
      PROVE  main \in {"build", "exit1"} /\ Started = {} /\ telemetry = "none"
  <2>1. Started = {}
    <3>1. CASE Mistaken BY <1>1, <3>1 DEF CleanInv
    <3>2. CASE m.model_path \notin Loadable \/ PodsThatFit = 0
      <4>1. ASSUME NEW w \in Workers PROVE at[w] = "none"
        <5>1. at[w] # "none" => m.model_path \in Loadable /\ 1 <= PodsThatFit
          BY DEF SystemInv, StartInOrder
        <5> QED BY <3>2, <5>1
      <4> QED BY <4>1 DEF Started
    <3> QED BY <1>1, <3>1, <3>2 DEF Unservable, Mistaken
  <2>2. main \in {"load", "build", "exit1"} /\ telemetry = "none" BY <2>1 DEF CleanInv
  <2>3. main # "load" BY <1>1 DEF SystemInv, StartInOrder
  <2> QED BY <2>1, <2>2, <2>3
<1>2. main = "aborted" => Started # {} BY DEF CleanInv
<1>3. main = "exit0" => ~running /\ ~failed BY DEF CleanInv, LeavingMain
<1> QED BY <1>1, <1>2, <1>3 DEF FailsCleanly

(* A step after the settings are read, and before the program has ended.   *)
LEMMA CleanKeeps ==
  ASSUME CleanInv, UNCHANGED started, main # "exit1",
         \A w \in Workers : at[w] # "none" => at'[w] # "none",
         (main' \notin {"load", "build", "exit1"} \/ telemetry' # "none") => Started # {},
         main' \in LeavingMain => failed' \/ ~running',
         main' = "exit0" => ~failed'
  PROVE  CleanInv'
<1>1. ~(step = "started" /\ Mistaken) BY DEF CleanInv
<1>2. ~(step' = "started" /\ Mistaken') BY <1>1 DEF Mistaken, started
<1>3. Started # {} => Started' # {}
  <2> SUFFICES ASSUME Started # {} PROVE Started' # {}
    OBVIOUS
  <2>1. PICK w \in Workers : at[w] # "none" BY DEF Started
  <2>2. w \in Started' BY <2>1 DEF Started
  <2> QED BY <2>2
<1> QED BY <1>2, <1>3 DEF CleanInv

LEMMA CleanStep == SystemInv /\ CleanInv /\ [LumenNext]_allvars => CleanInv'
<1> SUFFICES ASSUME SystemInv, CleanInv, [LumenNext]_allvars PROVE CleanInv'
  OBVIOUS
<1>1. /\ main = "load" <=> step # "started"
      /\ main = "load" => \A w \in Workers : at[w] = "none"
      /\ main \in {"load", "build"} => telemetry = "none"
      /\ step = "started" => workers \in Nat /\ workers > 0
  BY DEF SystemInv, StartInOrder, ConfigInv
<1>2. /\ main \notin {"load", "build", "exit1"} => Started # {}
      /\ telemetry # "none" => Started # {}
      /\ main \in LeavingMain => failed \/ ~running
      /\ main = "exit0" => ~failed
  BY DEF CleanInv
<1>3. CASE Load
  <2>1. main = "load" /\ main' = main /\ UNCHANGED <<failed, running, at, telemetry>>
    BY <1>3 DEF Load, pool, traces
  <2>2. step' # "started"
    BY <1>3, <1>1, <2>1 DEF Load, Open, ThreadCount, BatchSize, Number, QueueTypeKey, AllocatorType,
                TelemetryPath, ModelPath, Processor, Metadata, Set, Throws
  <2> QED BY <1>1, <2>1, <2>2 DEF CleanInv, LeavingMain
<1>4. CASE Construct
  <2>1. /\ main = "load" /\ m' = m /\ UNCHANGED <<at, telemetry>>
        /\ main' = (IF Mistaken' THEN "exit1" ELSE "build")
    BY <1>4 DEF Construct, Start, Fail, Mistaken, pool, traces
  <2>2. Started' = {} BY <1>1, <2>1 DEF Started
  <2>3. telemetry' = "none" BY <1>1, <2>1
  <2>4. main' \in {"exit1", "build"} BY <2>1
  <2> QED BY <2>1, <2>2, <2>3, <2>4 DEF CleanInv, LeavingMain
<1>5. CASE PodFails
  <2>1. /\ main = "build" /\ UNCHANGED <<started, at, telemetry>>
        /\ main' = "exit1" \/ (main' = "aborted" /\ Started # {})
    BY <1>5 DEF PodFails, Fail, Abort, pool, traces
  <2>2. telemetry' = "none" BY <1>1, <2>1
  <2> QED BY <2>1, <2>2, CleanKeeps DEF LeavingMain
<1>6. CASE ServerUp \/ ServerFails
  <2>1. /\ main = "build" /\ NextPod > workers /\ UNCHANGED <<started, running, at, telemetry>>
        /\ main' = "serve" \/ (main' = "stop" /\ failed')
    BY <1>6 DEF ServerUp, ServerFails, Fail, pool, traces
  <2>2. Started # {}
    <3>1. CASE Started = {}
      <4>1. NextPod = 1 BY <3>1, FS_EmptySet DEF NextPod
      <4> QED BY <1>1, <2>1, <4>1
    <3> QED BY <3>1
  <2> QED BY <2>1, <2>2, CleanKeeps DEF LeavingMain
<1>7. CASE \E w \in Workers : StartWorker(w)
  <2>1. PICK w \in Workers : StartWorker(w) BY <1>7
  <2>2. /\ main = "build" /\ main' = main /\ UNCHANGED <<started, telemetry>>
        /\ at' = [at EXCEPT ![w] = "loop"]
    BY <2>1 DEF StartWorker, traces
  <2>3. at \in [Workers -> {"none", "loop", "pop", "run", "exited"}]
    BY DEF SystemInv, LumenTypeOK
  <2>4. \A v \in Workers : at[v] # "none" => at'[v] # "none" BY <2>2, <2>3
  <2> QED BY <1>1, <2>2, <2>4, CleanKeeps DEF LeavingMain
<1>8. CASE ServerDown
  <2>1. /\ main = "serve" /\ main' = "stop" /\ UNCHANGED <<started, running, at>>
        /\ ~running \/ failed'
    BY <1>8 DEF ServerDown, Fail, pool
  <2> QED BY <1>2, <2>1, CleanKeeps DEF LeavingMain
<1>9. CASE StopPool \/ QueueShutdown \/ Join \/ Finish
  <2>1. /\ main \in LeavingMain \ {"exit0"} /\ UNCHANGED <<started, failed, running, at>>
        /\ main' \in LeavingMain \cup {"exit1"}
        /\ main' = "exit0" => ~failed
    BY <1>9 DEF StopPool, QueueShutdown, Join, Finish, LeavingMain, pool
  <2>2. main \notin {"load", "build", "exit1"} BY <2>1 DEF LeavingMain
  <2> QED BY <1>2, <2>1, <2>2, CleanKeeps
<1>10. CASE SignalHandler
  <2>1. /\ main' = main /\ main # "exit1" /\ ~running'
        /\ UNCHANGED <<started, failed, at, telemetry>>
    BY <1>10 DEF SignalHandler, Alive, pool, traces
  <2> QED BY <1>2, <2>1, CleanKeeps
<1>11. CASE ReporterThrows \/ \E c \in Conns : Killed(c)
  <2>1. /\ main # "exit1" /\ (main = "serve" \/ telemetry # "none")
        /\ main' = "aborted" /\ UNCHANGED <<started, at>>
    BY <1>11 DEF ReporterThrows, Killed, Serving, Alive, Abort, pool
  <2> QED BY <1>2, <2>1, CleanKeeps DEF LeavingMain
<1>12. CASE \E c \in Conns : Turn(c)
  <2>1. main = "serve" /\ main' = main /\ UNCHANGED <<started, at>>
    BY <1>12 DEF Turn, Admit, Accepted, Refused, Reply, Answer, Close, Serving, Elsewhere, pool
  <2> QED BY <1>2, <2>1, CleanKeeps DEF LeavingMain
<1>13. CASE \E w \in Workers : WorkerStep(w) \/ EngineThrows(w)
  <2>1. PICK w \in Workers : WorkerStep(w) \/ EngineThrows(w) BY <1>13
  <2>2. /\ Alive /\ at[w] \in {"loop", "pop", "run"} /\ UNCHANGED <<started, failed, running>>
        /\ main' = main \/ main' = "aborted"
        /\ at' = at \/ \E to \in {"loop", "pop", "run", "exited"} : at' = [at EXCEPT ![w] = to]
    BY <2>1 DEF WorkerStep, Loop, Pop, PopReturns, Run, NullProcessor, BatchDone, EngineThrows,
                MainGoesOn, Outside, Abort
  <2>3. at \in [Workers -> {"none", "loop", "pop", "run", "exited"}]
    BY DEF SystemInv, LumenTypeOK
  <2>4. \A v \in Workers : at[v] # "none" => at'[v] # "none" BY <2>2, <2>3
  <2>5. Started # {} BY <2>2 DEF Started
  <2>6. main # "exit1" /\ main # "exit0" BY <2>2 DEF Alive
  <2> QED BY <1>2, <2>2, <2>4, <2>5, <2>6, CleanKeeps DEF LeavingMain
<1>14. CASE UNCHANGED allvars
  <2>1. UNCHANGED <<m, step, workers, main, failed, running, at, telemetry>>
    BY <1>14 DEF allvars, started, pool, traces
  <2> QED BY <2>1 DEF CleanInv, Mistaken, Started
<1> QED BY <1>3, <1>4, <1>5, <1>6, <1>7, <1>8, <1>9, <1>10, <1>11, <1>12, <1>13, <1>14
        DEF LumenNext, MainStep

(* main's handler: a start that cannot have a worker ends in `return 1'    *)
(* with nothing running, no end is abrupt before a worker runs, and        *)
(* `return 0' follows only SIGINT.                                         *)
THEOREM CleanStartOrReturnOne == LumenSpec => []FailsCleanly
<1>1. LumenInit => CleanInv
  BY DEF LumenInit, Init, CleanInv, LeavingMain
<1> QED BY <1>1, CleanStep, CleanIsClean, RequestsAccounted, PTL DEF LumenSpec

----------------------------------------------------------------------------
(* One worker keeps the order                                              *)

LEMMA Associative ==
  ASSUME NEW a \in Seq(Nat), NEW b \in Seq(Nat), NEW c \in Seq(Nat)
  PROVE  (a \o b) \o c = a \o (b \o c)
  OBVIOUS

LEMMA SameSeq ==
  ASSUME NEW u \in Seq(Nat), NEW v \in Seq(Nat), Len(u) = Len(v),
         \A k \in 1..Len(u) : u[k] = v[k]
  PROVE  u = v
  OBVIOUS

LEMMA Rejoined ==
  ASSUME NEW u \in Seq(Nat), NEW v \in Seq(Nat), NEW c \in Seq(Nat), Len(c) = Len(u) + Len(v),
         \A k \in 1..Len(u) : u[k] = c[k], \A k \in 1..Len(v) : v[k] = c[Len(u) + k]
  PROVE  u \o v = c
<1>1. Len(u) \in Nat /\ Len(v) \in Nat OBVIOUS
<1>2. /\ u \o v \in Seq(Nat) /\ Len(u \o v) = Len(u) + Len(v)
      /\ \A k \in 1..(Len(u) + Len(v)) : (u \o v)[k] = IF k <= Len(u) THEN u[k] ELSE v[k - Len(u)]
  BY <1>1
<1>3. ASSUME NEW k \in 1..(Len(u) + Len(v)) PROVE (u \o v)[k] = c[k]
  <2>1. CASE k <= Len(u)
    <3>1. k \in 1..Len(u) BY <1>1, <2>1
    <3> QED BY <1>2, <2>1, <3>1
  <2>2. CASE ~(k <= Len(u))
    <3>1. PICK j \in 1..Len(v) : k = Len(u) + j /\ k - Len(u) = j
      <4>1. k - Len(u) \in 1..Len(v) /\ k = Len(u) + (k - Len(u)) BY <1>1, <2>2
      <4> QED BY <4>1, Zenon
    <3> QED BY <1>2, <2>2, <3>1
  <2> QED BY <2>1, <2>2
<1>4. Len(u \o v) = Len(c) /\ \A k \in 1..Len(u \o v) : (u \o v)[k] = c[k] BY <1>2, <1>3
<1>5. PICK w \in Seq(Nat) : w = u \o v BY <1>2
<1>6. w = c BY <1>4, <1>5, SameSeq
<1> QED BY <1>5, <1>6

LEMMA Halves ==
  ASSUME NEW S, NEW s \in Seq(S), NEW n \in Nat, n <= Len(s)
  PROVE  /\ SubSeq(s, 1, n) \in Seq(S) /\ SubSeq(s, n + 1, Len(s)) \in Seq(S)
         /\ Len(SubSeq(s, 1, n)) = n /\ Len(SubSeq(s, n + 1, Len(s))) = Len(s) - n
         /\ \A k \in 1..n : SubSeq(s, 1, n)[k] = s[k]
         /\ \A k \in 1..(Len(s) - n) : SubSeq(s, n + 1, Len(s))[k] = s[k + n]
<1>1. Len(s) \in Nat OBVIOUS
<1>2. /\ SubSeq(s, n + 1, Len(s)) \in Seq(S)
      /\ Len(SubSeq(s, n + 1, Len(s))) = Len(s) - n
      /\ \A k \in 1..(Len(s) - n) : SubSeq(s, n + 1, Len(s))[k] = s[k + n]
  BY <1>1
<1>3. /\ SubSeq(s, 1, n) \in Seq(S) /\ Len(SubSeq(s, 1, n)) = n
      /\ \A k \in 1..n : SubSeq(s, 1, n)[k] = s[k]
  BY <1>1
<1> QED BY <1>2, <1>3

LEMMA SplitAt ==
  ASSUME NEW c \in Seq(Nat), NEW n \in Nat, n <= Len(c)
  PROVE  SubSeq(c, 1, n) \o SubSeq(c, n + 1, Len(c)) = c
<1>1. SubSeq(c, 1, n) \in Seq(Nat) /\ SubSeq(c, n + 1, Len(c)) \in Seq(Nat) BY Halves
<1>2. Len(c) \in Nat OBVIOUS
<1>3. Len(SubSeq(c, 1, n)) = n /\ \A k \in 1..n : SubSeq(c, 1, n)[k] = c[k] BY Halves
<1>4. /\ Len(SubSeq(c, n + 1, Len(c))) = Len(c) - n
      /\ \A k \in 1..(Len(c) - n) : SubSeq(c, n + 1, Len(c))[k] = c[k + n]
  BY Halves, Zenon
<1>5. PICK u \in Seq(Nat), v \in Seq(Nat) :
        u = SubSeq(c, 1, n) /\ v = SubSeq(c, n + 1, Len(c))
  BY <1>1
<1>6. Len(u) = n /\ Len(v) = Len(c) - n BY <1>3, <1>4, <1>5, Zenon
<1>7. Len(c) = Len(u) + Len(v) BY <1>2, <1>6
<1>8. \A k \in 1..Len(u) : u[k] = c[k] BY <1>3, <1>5, <1>6, Zenon
<1>9. \A k \in 1..Len(v) : v[k] = c[Len(u) + k]
  <2>1. \A k \in 1..Len(v) : v[k] = c[k + n] BY <1>4, <1>5, <1>6
  <2>2. \A k \in 1..Len(v) : k + n = Len(u) + k BY <1>2, <1>6
  <2> QED BY <2>1, <2>2
<1>10. u \o v = c BY <1>7, <1>8, <1>9, Rejoined
<1> QED BY <1>5, <1>10

(* The n first of one sequence pass to the end of the one before it.       *)
LEMMA PassUp ==
  ASSUME NEW a \in Seq(Nat), NEW c \in Seq(Nat), NEW n \in Nat, n <= Len(c)
  PROVE  (a \o SubSeq(c, 1, n)) \o SubSeq(c, n + 1, Len(c)) = a \o c
<1>1. PICK u \in Seq(Nat), v \in Seq(Nat) :
        u = SubSeq(c, 1, n) /\ v = SubSeq(c, n + 1, Len(c))
  BY Halves
<1>2. u \o v = c BY <1>1, SplitAt
<1>3. (a \o u) \o v = a \o (u \o v) BY Associative, ZenonT(30)
<1> QED BY <1>1, <1>2, <1>3, Zenon

LEMMA IdsOf ==
  ASSUME NEW s \in Seq(TaskType)
  PROVE  /\ Ids(s) \in Seq(Nat) /\ Len(Ids(s)) = Len(s)
         /\ \A k \in 1..Len(s) : Ids(s)[k] = s[k].id
<1>1. DOMAIN s = 1..Len(s) /\ Len(s) \in Nat OBVIOUS
<1>2. \A k \in 1..Len(s) : s[k].id \in Nat
  <2>1. \A k \in 1..Len(s) : s[k] \in TaskType
    <3> HIDE DEF TaskType
    <3> QED OBVIOUS
  <2> QED BY <2>1 DEF TaskType
<1>3. Ids(s) = [k \in 1..Len(s) |-> s[k].id] BY <1>1 DEF Ids
<1> QED BY <1>1, <1>2, <1>3

LEMMA IdsAppend ==
  ASSUME NEW s \in Seq(TaskType), NEW t \in TaskType
  PROVE  Ids(Append(s, t)) = Append(Ids(s), t.id)
<1>1. Append(s, t) \in Seq(TaskType) /\ Len(Append(s, t)) = Len(s) + 1 /\ Len(s) \in Nat
  <2> HIDE DEF TaskType
  <2> QED OBVIOUS
<1>2. t.id \in Nat BY DEF TaskType
<1>3. /\ Ids(s) \in Seq(Nat) /\ Len(Ids(s)) = Len(s)
      /\ \A k \in 1..Len(s) : Ids(s)[k] = s[k].id
  BY IdsOf
<1>4. /\ Ids(Append(s, t)) \in Seq(Nat) /\ Len(Ids(Append(s, t))) = Len(s) + 1
      /\ \A k \in 1..(Len(s) + 1) : Ids(Append(s, t))[k] = Append(s, t)[k].id
  BY <1>1, IdsOf
<1>5. \A k \in 1..(Len(s) + 1) : Append(s, t)[k] = IF k = Len(s) + 1 THEN t ELSE s[k]
  <2> HIDE DEF TaskType
  <2> QED BY <1>1
<1>6. /\ Append(Ids(s), t.id) \in Seq(Nat) /\ Len(Append(Ids(s), t.id)) = Len(s) + 1
      /\ \A k \in 1..(Len(s) + 1) :
           Append(Ids(s), t.id)[k] = IF k = Len(s) + 1 THEN t.id ELSE Ids(s)[k]
  BY <1>1, <1>2, <1>3
<1>7. \A k \in 1..(Len(s) + 1) : Ids(Append(s, t))[k] = Append(Ids(s), t.id)[k]
  <2> SUFFICES ASSUME NEW k \in 1..(Len(s) + 1)
               PROVE  Ids(Append(s, t))[k] = Append(Ids(s), t.id)[k]
    OBVIOUS
  <2>1. CASE k = Len(s) + 1 BY <1>4, <1>5, <1>6, <2>1
  <2>2. CASE k # Len(s) + 1
    <3>1. k \in 1..Len(s) BY <1>1, <2>2
    <3> QED BY <1>3, <1>4, <1>5, <1>6, <2>2, <3>1
  <2> QED BY <2>1, <2>2
<1> QED BY <1>4, <1>6, <1>7, SameSeq

LEMMA IdsJoin ==
  ASSUME NEW r \in Seq(TaskType), NEW s \in Seq(TaskType)
  PROVE  Ids(r \o s) = Ids(r) \o Ids(s)
<1>1. /\ r \o s \in Seq(TaskType) /\ Len(r \o s) = Len(r) + Len(s)
      /\ Len(r) \in Nat /\ Len(s) \in Nat
      /\ \A k \in 1..Len(r) : (r \o s)[k] = r[k]
      /\ \A k \in 1..Len(s) : (r \o s)[Len(r) + k] = s[k]
  <2> HIDE DEF TaskType
  <2> QED OBVIOUS
<1>2. PICK q \in Seq(TaskType) : q = r \o s BY <1>1
<1>3. PICK u \in Seq(Nat), v \in Seq(Nat), c \in Seq(Nat) : u = Ids(r) /\ v = Ids(s) /\ c = Ids(q)
  BY IdsOf
<1>4. /\ Len(u) = Len(r) /\ \A k \in 1..Len(r) : u[k] = r[k].id
      /\ Len(v) = Len(s) /\ \A k \in 1..Len(s) : v[k] = s[k].id
      /\ Len(c) = Len(q) /\ \A k \in 1..Len(q) : c[k] = q[k].id
  BY <1>3, IdsOf
<1>5. Len(c) = Len(u) + Len(v) BY <1>1, <1>2, <1>4
<1>6. \A k \in 1..Len(u) : u[k] = c[k]
  <2>1. \A k \in 1..Len(r) : k \in 1..Len(q) /\ q[k] = r[k] BY <1>1, <1>2
  <2> QED BY <1>4, <2>1
<1>7. \A k \in 1..Len(v) : v[k] = c[Len(u) + k]
  <2>1. \A k \in 1..Len(s) : Len(r) + k \in 1..Len(q) /\ q[Len(r) + k] = s[k] BY <1>1, <1>2
  <2> QED BY <1>4, <2>1
<1>8. u \o v = c BY <1>5, <1>6, <1>7, Rejoined
<1> QED BY <1>2, <1>3, <1>8

LEMMA IdsHalves ==
  ASSUME NEW s \in Seq(TaskType), NEW n \in Nat, n <= Len(s)
  PROVE  /\ Ids(SubSeq(s, 1, n)) = SubSeq(Ids(s), 1, n)
         /\ Ids(SubSeq(s, n + 1, Len(s))) = SubSeq(Ids(s), n + 1, Len(Ids(s)))
<1>0. Len(s) \in Nat OBVIOUS
<1>1. PICK c \in Seq(Nat) : c = Ids(s) BY IdsOf
<1>2. Len(c) = Len(s) /\ \A k \in 1..Len(s) : c[k] = s[k].id BY <1>1, IdsOf
<1>3. PICK p \in Seq(TaskType), q \in Seq(TaskType) :
        p = SubSeq(s, 1, n) /\ q = SubSeq(s, n + 1, Len(s))
  BY Halves
<1>4. /\ Len(p) = n /\ Len(q) = Len(s) - n
      /\ \A k \in 1..n : p[k] = s[k]
      /\ \A k \in 1..(Len(s) - n) : q[k] = s[k + n]
  BY <1>3, Halves
<1>5. PICK u \in Seq(Nat), v \in Seq(Nat) : u = SubSeq(c, 1, n) /\ v = SubSeq(c, n + 1, Len(c))
  BY <1>2, Halves
<1>6. /\ Len(u) = n /\ Len(v) = Len(c) - n
      /\ \A k \in 1..n : u[k] = c[k]
      /\ \A k \in 1..(Len(c) - n) : v[k] = c[k + n]
  BY <1>2, <1>5, Halves
<1>7. PICK x \in Seq(Nat), y \in Seq(Nat) : x = Ids(p) /\ y = Ids(q) BY IdsOf
<1>8. /\ Len(x) = Len(p) /\ \A k \in 1..Len(p) : x[k] = p[k].id
      /\ Len(y) = Len(q) /\ \A k \in 1..Len(q) : y[k] = q[k].id
  BY <1>7, IdsOf
<1>9. x = u
  <2>1. \A k \in 1..n : k \in 1..Len(s) BY <1>0
  <2>2. ASSUME NEW k \in 1..n PROVE x[k] = u[k]
    <3>1. k \in 1..Len(s) /\ k \in 1..Len(p) BY <1>4, <2>1
    <3>2. x[k] = p[k].id BY <1>8, <3>1, Zenon
    <3>3. p[k] = s[k] /\ u[k] = c[k] BY <1>4, <1>6, Zenon
    <3>4. c[k] = s[k].id BY <1>2, <3>1, Zenon
    <3> QED BY <3>2, <3>3, <3>4, Zenon
  <2> QED BY <1>4, <1>6, <1>8, <2>2, SameSeq
<1>10. y = v
  <2>1. \A k \in 1..(Len(s) - n) : k + n \in 1..Len(s) BY <1>0
  <2>2. ASSUME NEW k \in 1..(Len(s) - n) PROVE y[k] = v[k]
    <3>1. k + n \in 1..Len(s) /\ k \in 1..Len(q) /\ k \in 1..(Len(c) - n) BY <1>2, <1>4, <2>1
    <3>2. y[k] = q[k].id BY <1>8, <3>1, Zenon
    <3>3. q[k] = s[k + n] /\ v[k] = c[k + n] BY <1>4, <1>6, <3>1, Zenon
    <3>4. c[k + n] = s[k + n].id BY <1>2, <3>1, Zenon
    <3> QED BY <3>2, <3>3, <3>4, Zenon
  <2> QED BY <1>2, <1>4, <1>6, <1>8, <2>2, SameSeq
<1> QED BY <1>1, <1>3, <1>5, <1>7, <1>9, <1>10

LEMMA IncreasingOn ==
  ASSUME NEW s \in Seq(Nat), NEW x \in Nat, Increasing(s), \A k \in DOMAIN s : s[k] < x
  PROVE  /\ Increasing(Append(s, x))
         /\ \A k \in DOMAIN Append(s, x) : Append(s, x)[k] < x + 1
<1>1. /\ Len(s) \in Nat /\ DOMAIN s = 1..Len(s) /\ DOMAIN Append(s, x) = 1..(Len(s) + 1)
      /\ \A k \in 1..(Len(s) + 1) : Append(s, x)[k] = IF k = Len(s) + 1 THEN x ELSE s[k]
      /\ \A k \in 1..Len(s) : s[k] \in Nat
  OBVIOUS
<1>2. PICK q : q = Append(s, x) OBVIOUS
<1>3. \A j, k \in 1..(Len(s) + 1) : j < k => q[j] < q[k]
  <2> SUFFICES ASSUME NEW j \in 1..(Len(s) + 1), NEW k \in 1..(Len(s) + 1), j < k
               PROVE  q[j] < q[k]
    OBVIOUS
  <2>1. j \in 1..Len(s) /\ q[j] = s[j] BY <1>1, <1>2
  <2>2. CASE k = Len(s) + 1 BY <1>1, <1>2, <2>1, <2>2
  <2>3. CASE k # Len(s) + 1
    <3>1. k \in 1..Len(s) /\ q[k] = s[k] BY <1>1, <1>2, <2>3, SMTT(30)
    <3> QED BY <1>1, <2>1, <3>1 DEF Increasing
  <2> QED BY <2>2, <2>3
<1>4. \A k \in 1..(Len(s) + 1) : q[k] < x + 1
  <2> SUFFICES ASSUME NEW k \in 1..(Len(s) + 1) PROVE q[k] < x + 1
    OBVIOUS
  <2>1. CASE k = Len(s) + 1 BY <1>1, <1>2, <2>1
  <2>2. CASE k # Len(s) + 1
    <3>1. k \in 1..Len(s) /\ q[k] = s[k] BY <1>1, <1>2, <2>2
    <3>2. s[k] \in Nat /\ s[k] < x BY <1>1, <3>1
    <3> QED BY <3>1, <3>2
  <2> QED BY <2>1, <2>2
<1> QED BY <1>1, <1>2, <1>3, <1>4 DEF Increasing

(* The order as one sequence of ids.                                       *)
Lined(a, b, c, d) == a \o Ids(b) \o Ids(c) \o Ids(d)

LEMMA LinedType ==
  ASSUME NEW a \in Seq(Nat), NEW b \in Seq(TaskType), NEW c \in Seq(TaskType),
         NEW d \in Seq(TaskType)
  PROVE  Lined(a, b, c, d) \in Seq(Nat)
<1>1. Ids(b) \in Seq(Nat) /\ Ids(c) \in Seq(Nat) /\ Ids(d) \in Seq(Nat) BY IdsOf
<1> QED BY <1>1 DEF Lined

(* Submission puts an id at the end; pop_batch, run and reply leave the    *)
(* line as it is.                                                          *)
LEMMA LineOn ==
  ASSUME NEW a \in Seq(Nat), NEW b \in Seq(TaskType), NEW c \in Seq(TaskType),
         NEW d \in Seq(TaskType)
  PROVE  /\ \A t \in TaskType : Lined(a, b, c, Append(d, t)) = Append(Lined(a, b, c, d), t.id)
         /\ \A n \in Nat : n <= Len(d) =>
              Lined(a, b, c \o SubSeq(d, 1, n), SubSeq(d, n + 1, Len(d))) = Lined(a, b, c, d)
         /\ c # << >> => Lined(a, Append(b, Head(c)), Tail(c), d) = Lined(a, b, c, d)
         /\ b # << >> => Lined(Append(a, Head(b).id), Tail(b), c, d) = Lined(a, b, c, d)
<1>1. PICK B \in Seq(Nat), C \in Seq(Nat), D \in Seq(Nat) : B = Ids(b) /\ C = Ids(c) /\ D = Ids(d)
  BY IdsOf
<1>2. Len(B) = Len(b) /\ Len(C) = Len(c) /\ Len(D) = Len(d) BY <1>1, IdsOf
<1>3. a \o B \in Seq(Nat) /\ (a \o B) \o C \in Seq(Nat) OBVIOUS
<1>4. Lined(a, b, c, d) = ((a \o B) \o C) \o D BY <1>1 DEF Lined
<1>5. ASSUME NEW t \in TaskType
      PROVE  Lined(a, b, c, Append(d, t)) = Append(Lined(a, b, c, d), t.id)
  <2>1. Ids(Append(d, t)) = Append(D, t.id) /\ t.id \in Nat BY <1>1, IdsAppend DEF TaskType
  <2>2. PICK i \in Nat : i = t.id BY <2>1
  <2>3. \A u \in Seq(Nat) : u \o Append(D, i) = Append(u \o D, i) BY SMTT(30)
  <2>4. Lined(a, b, c, Append(d, t)) = ((a \o B) \o C) \o Append(D, i)
    BY <1>1, <2>1, <2>2 DEF Lined
  <2> QED BY <1>3, <1>4, <2>2, <2>3, <2>4
<1>6. ASSUME NEW n \in Nat, n <= Len(d)
      PROVE  Lined(a, b, c \o SubSeq(d, 1, n), SubSeq(d, n + 1, Len(d))) = Lined(a, b, c, d)
  <2>1. PICK p \in Seq(TaskType), q \in Seq(TaskType) :
          p = SubSeq(d, 1, n) /\ q = SubSeq(d, n + 1, Len(d))
    BY <1>6, Halves
  <2>2. Ids(p) = SubSeq(D, 1, n) /\ Ids(q) = SubSeq(D, n + 1, Len(D))
    BY <1>1, <1>6, <2>1, IdsHalves
  <2>3. Ids(c \o p) = C \o Ids(p) BY <1>1, IdsJoin
  <2>4. Lined(a, b, c \o p, q) = ((a \o B) \o (C \o SubSeq(D, 1, n))) \o SubSeq(D, n + 1, Len(D))
    BY <1>1, <2>2, <2>3, Zenon DEF Lined
  <2>5. n <= Len(D) BY <1>2, <1>6
  <2>6. ((a \o B) \o (C \o SubSeq(D, 1, n))) \o SubSeq(D, n + 1, Len(D)) = ((a \o B) \o C) \o D
    <3>1. PICK u \in Seq(Nat) : u = SubSeq(D, 1, n) BY <2>5, Halves
    <3>2. PICK x \in Seq(Nat) : x = a \o B BY <1>3
    <3>3. x \o (C \o u) = (x \o C) \o u BY Associative
    <3>4. PICK y \in Seq(Nat) : y = x \o C BY <1>3, <3>2
    <3>5. (y \o SubSeq(D, 1, n)) \o SubSeq(D, n + 1, Len(D)) = y \o D BY <2>5, PassUp, Zenon
    <3> QED BY <3>1, <3>2, <3>3, <3>4, <3>5, Zenon
  <2> QED BY <1>4, <2>1, <2>4, <2>6, Zenon
<1>7. ASSUME c # << >>
      PROVE  Lined(a, Append(b, Head(c)), Tail(c), d) = Lined(a, b, c, d)
  <2>1. /\ Tail(c) = SubSeq(c, 1 + 1, Len(c)) /\ Append(b, Head(c)) = b \o SubSeq(c, 1, 1)
        /\ 1 <= Len(c)
    BY <1>7, HeadAndTail
  <2>2. PICK p \in Seq(TaskType), q \in Seq(TaskType) :
          p = SubSeq(c, 1, 1) /\ q = SubSeq(c, 1 + 1, Len(c))
    BY <2>1, Halves
  <2>3. Ids(p) = SubSeq(C, 1, 1) /\ Ids(q) = SubSeq(C, 1 + 1, Len(C))
    BY <1>1, <2>1, <2>2, IdsHalves
  <2>4. Ids(b \o p) = B \o Ids(p) BY <1>1, IdsJoin
  <2>5. Lined(a, b \o p, q, d) = ((a \o (B \o SubSeq(C, 1, 1))) \o SubSeq(C, 1 + 1, Len(C))) \o D
    BY <1>1, <2>3, <2>4, Zenon DEF Lined
  <2>6. 1 <= Len(C) /\ 1 \in Nat BY <1>2, <2>1
  <2>7. (a \o (B \o SubSeq(C, 1, 1))) \o SubSeq(C, 1 + 1, Len(C)) = (a \o B) \o C
    <3>1. PICK u \in Seq(Nat) : u = SubSeq(C, 1, 1) BY <2>6, Halves
    <3>2. a \o (B \o u) = (a \o B) \o u BY Associative, ZenonT(30)
    <3>3. PICK y \in Seq(Nat) : y = a \o B BY <1>3
    <3>4. (y \o SubSeq(C, 1, 1)) \o SubSeq(C, 1 + 1, Len(C)) = y \o C BY <2>6, PassUp, Zenon
    <3> QED BY <3>1, <3>2, <3>3, <3>4, Zenon
  <2> QED BY <1>4, <2>1, <2>2, <2>5, <2>7, Zenon
<1>8. ASSUME b # << >>
      PROVE  Lined(Append(a, Head(b).id), Tail(b), c, d) = Lined(a, b, c, d)
  <2>1. Tail(b) = SubSeq(b, 1 + 1, Len(b)) /\ 1 <= Len(b) BY <1>8, HeadAndTail
  <2>2. PICK q \in Seq(TaskType) : q = SubSeq(b, 1 + 1, Len(b)) BY <2>1, Halves
  <2>3. Ids(q) = SubSeq(B, 1 + 1, Len(B)) BY <1>1, <2>1, <2>2, IdsHalves
  <2>4. 1 <= Len(B) /\ 1 \in Nat BY <1>2, <2>1
  <2>5. Head(b) = b[1] /\ B[1] = b[1].id
    <3>1. 1 \in 1..Len(b) BY <2>1
    <3>2. B[1] = b[1].id BY <1>1, <3>1, IdsOf
    <3>3. Head(b) = b[1]
      <4> HIDE DEF TaskType
      <4> QED BY <1>8
    <3> QED BY <3>2, <3>3
  <2>6. SubSeq(B, 1, 1) = << B[1] >>
    <3>1. /\ SubSeq(B, 1, 1) \in Seq(Nat) /\ Len(SubSeq(B, 1, 1)) = 1
          /\ \A k \in 1..1 : SubSeq(B, 1, 1)[k] = B[k]
      BY <2>4, Halves
    <3>2. SubSeq(B, 1, 1)[1] = B[1] BY <3>1
    <3>3. \A u \in Seq(Nat) : Len(u) = 1 => u = << u[1] >> OBVIOUS
    <3>4. SubSeq(B, 1, 1) = << SubSeq(B, 1, 1)[1] >> BY <3>1, <3>3, Zenon
    <3> QED BY <3>2, <3>4, Zenon
  <2>7. Append(a, B[1]) = a \o << B[1] >>
    <3>1. PICK i \in Nat : i = B[1] BY <2>4
    <3>2. Append(a, i) = a \o << i >> OBVIOUS
    <3> QED BY <3>1, <3>2
  <2>8. Append(a, Head(b).id) = a \o SubSeq(B, 1, 1) BY <2>5, <2>6, <2>7, Zenon
  <2>9. Lined(Append(a, Head(b).id), q, c, d)
          = (((a \o SubSeq(B, 1, 1)) \o SubSeq(B, 1 + 1, Len(B))) \o C) \o D
    BY <1>1, <2>3, <2>8, Zenon DEF Lined
  <2>10. (a \o SubSeq(B, 1, 1)) \o SubSeq(B, 1 + 1, Len(B)) = a \o B
    BY <2>4, PassUp, Zenon
  <2> QED BY <1>4, <2>1, <2>2, <2>9, <2>10, Zenon
<1> QED BY <1>5, <1>6, <1>7, <1>8

(* The invariant: the line increases, below the next id to be given out.   *)
OrderKept == workers = 1 => Increasing(Order) /\ \A k \in DOMAIN Order : Order[k] < next_id

LEMMA OrderTypes ==
  ASSUME SystemInv
  PROVE  /\ handed_ids \in Seq(Nat) /\ results \in Seq(TaskType) /\ tasks \in Seq(TaskType)
         /\ batch \in [Workers -> Seq(TaskType)] /\ 1 \in Workers /\ batch[1] \in Seq(TaskType)
         /\ Order = Lined(handed_ids, results, batch[1], tasks) /\ Order \in Seq(Nat)
         /\ next_id \in Nat
<1>1. /\ handed_ids \in Seq(Nat) /\ results \in Seq(TaskType) /\ tasks \in Seq(TaskType)
      /\ batch \in [Workers -> Seq(TaskType)] /\ next_id \in Nat
  BY DEF SystemInv, LumenTypeOK
<1>2. 1 \in Workers /\ batch[1] \in Seq(TaskType) BY <1>1, LumenAssumption
<1>3. Order = Lined(handed_ids, results, batch[1], tasks) BY DEF Order, Lined
<1> QED BY <1>1, <1>2, <1>3, LinedType

(* With one worker, it is worker 1 that runs.                              *)
LEMMA OnlyWorker ==
  ASSUME SystemInv, workers = 1, NEW w \in Workers, at[w] # "none"
  PROVE  w = 1
<1>1. w <= workers BY DEF SystemInv, StartInOrder
<1> QED BY <1>1, LumenAssumption

LEMMA OrderStep == SystemInv /\ OrderKept /\ [LumenNext]_allvars => OrderKept'
<1> SUFFICES ASSUME SystemInv, OrderKept, [LumenNext]_allvars, workers' = 1
             PROVE  Increasing(Order)' /\ (\A k \in DOMAIN Order : Order[k] < next_id)'
  BY DEF OrderKept
<1>0. Order' = Lined(handed_ids', results', batch'[1], tasks') BY DEF Order, Lined
<1>1. ASSUME NEW q, Order' = q, Increasing(q), \A k \in DOMAIN q : q[k] < next_id'
      PROVE  Increasing(Order)' /\ (\A k \in DOMAIN Order : Order[k] < next_id)'
  BY <1>1 DEF Increasing
<1>2. CASE Load \/ Construct
  <2>1. main = "load" /\ UNCHANGED <<pool, traces>> BY <1>2 DEF Load, Construct
  <2>2. Held(lane) = {} /\ handed_ids = << >> BY <2>1 DEF SystemInv, StartInOrder
  <2>3. lane \in LaneFun /\ TaskLane \in Lanes /\ ResultLane \in Lanes /\ 1 \in Lanes
        /\ lane[TaskLane] = tasks /\ lane[ResultLane] = results /\ lane[1] = batch[1]
    BY LaneType, LaneNames, OrderTypes DEF SystemInv
  <2>4. tasks = << >> /\ results = << >> /\ batch[1] = << >> BY <2>2, <2>3, EmptyLane
  <2>5. Order' = Order /\ Order = Lined(<< >>, << >>, << >>, << >>)
    BY <1>0, <2>1, <2>2, <2>4, OrderTypes DEF pool, traces
  <2>6. Ids(<< >>) = << >>
    <3>1. << >> \in Seq(TaskType) /\ Len(<< >>) = 0 OBVIOUS
    <3>2. Ids(<< >>) \in Seq(Nat) /\ Len(Ids(<< >>)) = 0 BY <3>1, IdsOf
    <3>3. \A u \in Seq(Nat) : Len(u) = 0 => u = << >> OBVIOUS
    <3> QED BY <3>2, <3>3
  <2>7. << >> \o << >> = << >> OBVIOUS
  <2>8. Order' = << >> BY <2>5, <2>6, <2>7 DEF Lined
  <2>9. DOMAIN << >> = {} OBVIOUS
  <2>10. Increasing(<< >>) BY <2>9 DEF Increasing
  <2> QED BY <1>1, <2>8, <2>9, <2>10
<1>3. CASE ~(Load \/ Construct)
  <2>0. UNCHANGED workers
    BY <1>3 DEF LumenNext, MainStep, PodFails, ServerUp, ServerFails, ServerDown, StopPool,
                QueueShutdown, Join, Finish, StartWorker, SignalHandler, Turn, Admit, Accepted,
                Refused, Reply, Answer, Close, Killed, ReporterThrows, Elsewhere, WorkerStep,
                EngineThrows, Loop,
                Pop, PopReturns, Run, NullProcessor, BatchDone, MainGoesOn, Outside, allvars,
                started
  <2>1. workers = 1 BY <2>0
  <2>2. Increasing(Order) /\ \A k \in DOMAIN Order : Order[k] < next_id BY <2>1 DEF OrderKept
  <2>3. CASE \E c \in Conns : Accepted(c)
    <3>1. PICK c \in Conns : Accepted(c) BY <2>3
    <3>2. PICK t : t = [of |-> <<c, handed[c] + 1>>, id |-> next_id] OBVIOUS
    <3>3. /\ tasks' = Append(tasks, t) /\ next_id' = next_id + 1
          /\ UNCHANGED <<handed_ids, results, batch>>
      BY <3>1, <3>2 DEF Accepted, Queue!Push, Requests!Current
    <3>4. t \in TaskType /\ t.id = next_id
      <4>1. handed \in [Conns -> Nat] /\ next_id \in Nat BY DEF SystemInv, LumenTypeOK
      <4> QED BY <3>2, <4>1 DEF TaskType
    <3>5. Order' = Append(Order, next_id)
      <4>1. PICK a \in Seq(Nat), b \in Seq(TaskType), x \in Seq(TaskType), d \in Seq(TaskType) :
              a = handed_ids /\ b = results /\ x = batch[1] /\ d = tasks
        BY OrderTypes, Zenon
      <4>2. Lined(a, b, x, Append(d, t)) = Append(Lined(a, b, x, d), t.id) BY <3>4, LineOn, ZenonT(40)
      <4>3. Order' = Lined(a, b, x, Append(d, t)) BY <1>0, <3>3, <4>1, Zenon
      <4>4. Order = Lined(a, b, x, d) BY <4>1, OrderTypes, Zenon
      <4> QED BY <3>4, <4>2, <4>3, <4>4, Zenon
    <3>6. /\ Increasing(Append(Order, next_id))
          /\ \A k \in DOMAIN Append(Order, next_id) : Append(Order, next_id)[k] < next_id + 1
      BY <2>2, OrderTypes, IncreasingOn
    <3> QED BY <1>1, <3>3, <3>5, <3>6
  <2>4. CASE \E c \in Conns : Reply(c)
    <3>1. /\ results # << >> /\ results' = Tail(results) /\ UNCHANGED <<batch, tasks, next_id>>
          /\ handed_ids' = Append(handed_ids, Head(results).id)
      BY <2>4 DEF Reply
    <3>2. Order' = Order BY <1>0, <3>1, OrderTypes, LineOn
    <3> QED BY <1>1, <2>2, <3>1, <3>2
  <2>5. CASE \E w \in Workers : Pop(w)
    <3>1. PICK w \in Workers : Pop(w) BY <2>5
    <3>2. at[w] = "pop" /\ UNCHANGED <<handed_ids, results, next_id>>
      BY <3>1 DEF Pop, MainGoesOn, Outside, traces
    <3>3. w = 1 BY <2>1, <3>2, OnlyWorker
    <3>4. PICK n \in Nat : /\ n <= Len(tasks) /\ tasks' = SubSeq(tasks, n + 1, Len(tasks))
                           /\ batch' = [batch EXCEPT ![w] = batch[w] \o SubSeq(tasks, 1, n)]
      BY <3>1, PopEffect
    <3>5. batch'[1] = batch[1] \o SubSeq(tasks, 1, n) BY <3>3, <3>4, OrderTypes
    <3>6. Order' = Order
      <4>1. PICK a \in Seq(Nat), b \in Seq(TaskType), x \in Seq(TaskType), d \in Seq(TaskType) :
              a = handed_ids /\ b = results /\ x = batch[1] /\ d = tasks
        BY OrderTypes, Zenon
      <4>2. n <= Len(d) BY <3>4, <4>1, Zenon
      <4>3. Lined(a, b, x \o SubSeq(d, 1, n), SubSeq(d, n + 1, Len(d))) = Lined(a, b, x, d)
        BY <4>2, LineOn, ZenonT(40)
      <4>4. Order' = Lined(a, b, x \o SubSeq(d, 1, n), SubSeq(d, n + 1, Len(d)))
        BY <1>0, <3>2, <3>4, <3>5, <4>1, Zenon
      <4>5. Order = Lined(a, b, x, d) BY <4>1, OrderTypes, Zenon
      <4> QED BY <4>3, <4>4, <4>5, Zenon
    <3> QED BY <1>1, <2>2, <3>2, <3>6
  <2>6. CASE \E w \in Workers : Run(w)
    <3>1. PICK w \in Workers : Run(w) BY <2>6
    <3>2. /\ at[w] = "run" /\ batch[w] # << >> /\ UNCHANGED <<handed_ids, tasks, next_id>>
          /\ results' = Append(results, Head(batch[w]))
          /\ batch' = [batch EXCEPT ![w] = Tail(batch[w])]
      BY <3>1 DEF Run, Task, MainGoesOn, Outside, traces
    <3>3. w = 1 BY <2>1, <3>2, OnlyWorker
    <3>4. batch'[1] = Tail(batch[1]) BY <3>2, <3>3, OrderTypes
    <3>5. Order' = Order BY <1>0, <3>2, <3>3, <3>4, OrderTypes, LineOn
    <3> QED BY <1>1, <2>2, <3>2, <3>5
  <2>7. CASE /\ UNCHANGED <<handed_ids, results, batch, tasks>>
             /\ next_id' = next_id \/ next_id' = next_id + 1
    <3>1. Order' = Order BY <1>0, <2>7, OrderTypes
    <3>2. \A k \in DOMAIN Order : Order[k] < next_id'
      <4>1. \A k \in DOMAIN Order : Order[k] \in Nat BY OrderTypes
      <4> QED BY <2>2, <2>7, <4>1, OrderTypes
    <3> QED BY <1>1, <2>2, <3>1, <3>2
  <2>8. CASE /\ ~\E c \in Conns : Accepted(c) \/ Reply(c)
             /\ ~\E w \in Workers : Pop(w) \/ Run(w)
    <3>1. UNCHANGED <<handed_ids, results, batch, tasks>>
      BY <1>3, <2>8 DEF LumenNext, MainStep, PodFails, ServerUp, ServerFails, ServerDown, StopPool,
                QueueShutdown, Join, Finish, StartWorker, SignalHandler, Turn, Admit,
                Refused, Answer, Close, Killed, ReporterThrows, Elsewhere, WorkerStep,
                EngineThrows, Loop,
                PopReturns, NullProcessor, BatchDone, MainGoesOn, Outside, allvars,
                pool, traces
    <3>2. next_id' = next_id \/ next_id' = next_id + 1
      BY <1>3, <2>8 DEF LumenNext, MainStep, PodFails, ServerUp, ServerFails, ServerDown, StopPool,
                QueueShutdown, Join, Finish, StartWorker, SignalHandler, Turn, Admit,
                Refused, Answer, Close, Killed, ReporterThrows, Elsewhere, WorkerStep,
                EngineThrows, Loop,
                PopReturns, NullProcessor, BatchDone, MainGoesOn, Outside, allvars,
                pool, traces
    <3> QED BY <2>7, <3>1, <3>2
  <2> QED BY <2>3, <2>4, <2>5, <2>6, <2>8
<1> QED BY <1>2, <1>3

(* A pool of one worker, with any queue and any batch size, answers in the *)
(* order of submission, through every pop_batch, run and reply.            *)
THEOREM OneWorkerInOrder == LumenSpec => []SingleWorkerInOrder
<1>1. LumenInit => OrderKept BY DEF LumenInit, Init, OrderKept
<1>2. OrderKept => SingleWorkerInOrder BY DEF OrderKept, SingleWorkerInOrder
<1> QED BY <1>1, <1>2, OrderStep, RequestsAccounted, PTL DEF LumenSpec
=============================================================================

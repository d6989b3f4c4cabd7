--------------------------- MODULE Telemetry_proofs ---------------------------
(* Proofs about Telemetry, for any number of traces.                       *)
EXTENDS Telemetry, SequenceTheorems, TLAPS

(* Appending to the last of three joined sequences appends to the whole.   *)
LEMMA AppendLast ==
  ASSUME NEW r \in Seq(Nat), NEW l \in Seq(Nat), NEW b \in Seq(Nat), NEW x \in Nat
  PROVE  r \o (l \o Append(b, x)) = Append(r \o (l \o b), x)
<1>1. l \o Append(b, x) = Append(l \o b, x) OBVIOUS
<1>2. l \o b \in Seq(Nat) OBVIOUS
<1>3. \A s \in Seq(Nat) : r \o Append(s, x) = Append(r \o s, x) OBVIOUS
<1> QED BY <1>1, <1>2, <1>3

(* Moving the head of the middle sequence to the first keeps the whole.    *)
LEMMA MoveHead ==
  ASSUME NEW r \in Seq(Nat), NEW l \in Seq(Nat), l # << >>, NEW b \in Seq(Nat)
  PROVE  Append(r, Head(l)) \o (Tail(l) \o b) = r \o (l \o b)
<1> DEFINE p == Append(r, Head(l)) \o (Tail(l) \o b)
           q == r \o (l \o b)
<1>1. Head(l) \in Nat /\ Tail(l) \in Seq(Nat) /\ Len(Tail(l)) = Len(l) - 1 /\ Len(l) >= 1
  OBVIOUS
<1>2. /\ Append(r, Head(l)) \in Seq(Nat) /\ Len(Append(r, Head(l))) = Len(r) + 1
      /\ Tail(l) \o b \in Seq(Nat) /\ Len(Tail(l) \o b) = Len(l) - 1 + Len(b)
      /\ l \o b \in Seq(Nat) /\ Len(l \o b) = Len(l) + Len(b)
  BY <1>1
<1>3. /\ p \in Seq(Nat) /\ q \in Seq(Nat)
      /\ Len(p) = Len(r) + Len(l) + Len(b) /\ Len(q) = Len(r) + Len(l) + Len(b)
  BY <1>2
<1>4. ASSUME NEW k \in 1..Len(q) PROVE p[k] = q[k]
  <2>1. CASE k <= Len(r)
    BY <2>1, <1>2, <1>3
  <2>2. CASE k = Len(r) + 1
    <3>1. p[k] = Append(r, Head(l))[Len(r) + 1] BY <2>2, <1>2
    <3>2. q[k] = (l \o b)[1] BY <2>2, <1>1, <1>2
    <3>3. (l \o b)[1] = l[1] BY <1>1
    <3> QED BY <3>1, <3>2, <3>3
  <2>3. CASE k > Len(r) + 1
    <3>0. Len(r) \in Nat /\ k \in Nat BY <1>3
    <3>1. PICK j \in Nat : j = k - Len(r) - 1 /\ j >= 1
      <4>1. k - Len(r) - 1 \in Nat /\ k - Len(r) - 1 >= 1 BY <3>0, <2>3
      <4> QED BY <4>1
    <3>2. j <= Len(l) - 1 + Len(b) BY <3>1, <1>3
    <3>3. p[k] = (Tail(l) \o b)[j] BY <3>1, <3>2, <1>2, <2>3
    <3>4. q[k] = (l \o b)[j + 1] BY <3>1, <3>2, <1>2, <2>3
    <3>5. (Tail(l) \o b)[j] = (l \o b)[j + 1] BY <1>1, <3>1, <3>2
    <3> QED BY <3>3, <3>4, <3>5
  <2> QED BY <2>1, <2>2, <2>3, <1>3
<1> HIDE DEF p, q
<1>5. p = q BY <1>3, <1>4, SeqEqual
<1> QED BY <1>5 DEF p, q

(* The numbers up to n + 1.                                                *)
LEMMA CountOn ==
  ASSUME NEW n \in Nat
  PROVE  [k \in 1..(n + 1) |-> k] = Append([k \in 1..n |-> k], n + 1)
OBVIOUS

(* Every trace is in one place and the traces stay in order, whatever the  *)
(* server captures while the reporter sleeps, swaps or writes.             *)
THEOREM TracesInOrder == Spec => []Inductive
<1>1. Init => Inductive
  BY TelemetryAssumption DEF Init, Inductive, TypeOK, InOrder
<1>2. Inductive /\ [Next]_vars => Inductive'
  <2> SUFFICES ASSUME Inductive, [Next]_vars PROVE Inductive'
    OBVIOUS
  <2>0. m_trace_buffer \in Seq(Nat) /\ local_batch \in Seq(Nat) /\ reported \in Seq(Nat)
    BY DEF Inductive, TypeOK
  <2>1. CASE CaptureTrace
    <3>1. captured \in Nat /\ captured + 1 \in 0..MaxTraces
      BY <2>1, TelemetryAssumption DEF CaptureTrace, Inductive, TypeOK
    <3>2. m_trace_buffer' \in Seq(Nat) BY <2>0, <2>1, <3>1 DEF CaptureTrace
    <3>3. TypeOK' BY <2>1, <3>1, <3>2 DEF CaptureTrace, Inductive, TypeOK
    <3>4. reported \o (local_batch \o Append(m_trace_buffer, captured + 1))
            = Append([k \in 1..captured |-> k], captured + 1)
      <4>1. captured + 1 \in Nat BY <3>1
      <4>2. reported \o (local_batch \o Append(m_trace_buffer, captured + 1))
              = Append(reported \o (local_batch \o m_trace_buffer), captured + 1)
        BY <2>0, <4>1, AppendLast
      <4> QED BY <4>2 DEF Inductive, InOrder
    <3>5. InOrder' BY <2>1, <3>1, <3>4, CountOn DEF CaptureTrace, InOrder
    <3> QED BY <2>1, <3>3, <3>5 DEF CaptureTrace, Inductive
  <2>2. CASE Swap
    <3>1. local_batch = << >> BY <2>2 DEF Swap, Inductive
    <3>2. /\ local_batch' = m_trace_buffer /\ m_trace_buffer' = << >>
          /\ UNCHANGED <<reported, captured>>
      BY <2>2 DEF Swap
    <3>3. << >> \o m_trace_buffer = m_trace_buffer \o << >> BY <2>0
    <3>4. InOrder' BY <3>1, <3>2, <3>3 DEF Inductive, InOrder
    <3>5. << >> \in Seq(Nat) OBVIOUS
    <3>6. TypeOK' BY <2>2, <2>0, <3>5 DEF Swap, Inductive, TypeOK
    <3> QED BY <2>2, <3>4, <3>6 DEF Swap, Inductive
  <2>3. CASE SaveTrace
    <3>1. /\ local_batch # << >> /\ reported' = Append(reported, Head(local_batch))
          /\ local_batch' = Tail(local_batch) /\ reporter' = "process"
          /\ UNCHANGED <<m_running, m_trace_buffer, server, captured>>
      BY <2>3 DEF SaveTrace
    <3>2. reported' \in Seq(Nat) /\ local_batch' \in Seq(Nat) BY <2>0, <3>1
    <3>3. reported' \o (local_batch' \o m_trace_buffer')
            = reported \o (local_batch \o m_trace_buffer)
      BY <2>0, <3>1, MoveHead
    <3>4. InOrder' BY <3>1, <3>3 DEF Inductive, InOrder
    <3> QED BY <3>1, <3>2, <3>4 DEF Inductive, TypeOK
  <2>4. CASE \/ Shutdown \/ Join \/ Notify("wake", "serving") \/ Notify("notify", "join")
             \/ LoopTop \/ Predicate \/ FallAsleep \/ TimeOut \/ Wakeup \/ Break \/ Summary
             \/ SaveThrows \/ UNCHANGED vars
    <3>1. UNCHANGED <<m_trace_buffer, local_batch, captured, reported>>
      BY <2>4 DEF Shutdown, Join, Notify, LoopTop, Predicate, FallAsleep, TimeOut, Wakeup,
                  Break, Summary, SaveThrows, ReporterAt, vars
    <3>2. TypeOK'
      BY <2>4, <3>1 DEF Inductive, TypeOK, Shutdown, Join, Notify, LoopTop, Predicate,
                  FallAsleep, TimeOut, Wakeup, Break, Summary, SaveThrows, ReporterAt, vars
    <3>3. reporter' \notin {"process", "terminated"} => local_batch' = << >>
      BY <2>4, <3>1 DEF Inductive, Shutdown, Join, Notify, LoopTop, Predicate,
                  FallAsleep, TimeOut, Wakeup, Break, Summary, SaveThrows, ReporterAt, vars
    <3> QED BY <3>1, <3>2, <3>3 DEF Inductive, InOrder
  <2> QED BY <2>1, <2>2, <2>3, <2>4 DEF Next, ServerStep, ReporterStep
<1> QED BY <1>1, <1>2, PTL DEF Spec

----------------------------------------------------------------------------
(* The file                                                                *)

CsvType == csv \in [path : PathKinds, before : Seq(Line), lines : Seq(Line)]

LEMMA AppendRow ==
  ASSUME NEW s \in Seq(Line), NEW r \in Seq(Nat), NEW x \in Nat
  PROVE  /\ s \o Append(r, x) = Append(s \o r, x)
         /\ s # << >> => s \o r # << >>
         /\ Append(s, x) \in Seq(Line) /\ s \o r \in Seq(Line)
<1>1. r \in Seq(Line) /\ x \in Line
  <2>1. \A k \in 1..Len(r) : r[k] \in Line BY DEF Line
  <2> QED BY <2>1 DEF Line
<1> HIDE DEF Line
<1>2. s \o Append(r, x) = Append(s \o r, x) BY <1>1
<1>3. s # << >> => s \o r # << >>
  <2> SUFFICES ASSUME s # << >> PROVE Len(s \o r) # 0
    OBVIOUS
  <2>1. Len(s) \in Nat /\ Len(s) # 0 /\ Len(r) \in Nat BY <1>1
  <2>2. Len(s \o r) = Len(s) + Len(r) BY <1>1
  <2> QED BY <2>1, <2>2
<1> QED BY <1>1, <1>2, <1>3

(* The lines that a file has after the traces r were reported.             *)
Rows(b, r) == IF r = << >> THEN << >> ELSE IF b = << >> THEN << Header >> \o r ELSE r

(* The lines l with a row for the trace x.                                 *)
Grown(l, x) == Append(IF l = << >> THEN << Header >> ELSE l, x)

(* A further row goes below them, after the header if there is no line.    *)
LEMMA RowsGrow ==
  ASSUME NEW b \in Seq(Line), NEW r \in Seq(Nat), NEW x \in Nat
  PROVE  LET l == b \o Rows(b, r)
         IN  Grown(l, x) = b \o Rows(b, Append(r, x)) /\ Grown(l, x) \in Seq(Line)
<1> DEFINE l == b \o Rows(b, r)
<1> SUFFICES Grown(l, x) = b \o Rows(b, Append(r, x)) /\ Grown(l, x) \in Seq(Line)
  OBVIOUS
<1>6. /\ l = << >> => Grown(l, x) = Append(<< Header >>, x)
      /\ l # << >> => Grown(l, x) = Append(l, x)
  BY DEF Grown
<1> HIDE DEF l
<1>1. << Header >> \in Seq(Line) /\ << Header >> # << >> /\ << >> \in Seq(Line)
  <2>1. Header \in Line BY DEF Line
  <2> QED BY <2>1
<1>2. Append(r, x) # << >> /\ Append(r, x) \in Seq(Nat)
  <2>1. Append(r, x) \in Seq(Nat) /\ Len(Append(r, x)) = Len(r) + 1 /\ Len(r) \in Nat
    OBVIOUS
  <2>2. Len(<< >>) = 0 OBVIOUS
  <2> QED BY <2>1, <2>2
<1>0. \A s \in Seq(Line) : << >> \o s = s
  <2> HIDE DEF Line
  <2> QED OBVIOUS
<1>3. CASE b # << >>
  <2>1. b \o Rows(b, r) = b \o r
    <3>1. CASE r = << >> BY <3>1 DEF Rows
    <3>2. CASE r # << >> BY <1>3, <3>2 DEF Rows
    <3> QED BY <3>1, <3>2
  <2>2. Rows(b, Append(r, x)) = Append(r, x) BY <1>2, <1>3 DEF Rows
  <2>3. l = b \o r BY <2>1 DEF l
  <2>4. l # << >> /\ Append(l, x) = b \o Append(r, x) BY <1>3, <2>3, AppendRow
  <2>5. l \in Seq(Line) BY <2>3, AppendRow
  <2>6. Append(l, x) \in Seq(Line) BY <2>5, AppendRow
  <2> QED BY <1>6, <2>2, <2>4, <2>6
<1>4. CASE b = << >> /\ r = << >>
  <2>1. l = << >> BY <1>4 DEF Rows, l
  <2>2. b \o Rows(b, Append(r, x)) = << Header >> \o Append(<< >>, x)
    <3>1. Rows(b, Append(r, x)) = << Header >> \o Append(r, x) BY <1>2, <1>4 DEF Rows
    <3>2. << Header >> \o Append(r, x) \in Seq(Line) BY <1>1, <1>2, AppendRow
    <3> QED BY <1>0, <1>4, <3>1, <3>2, Zenon
  <2>3. << Header >> \o Append(<< >>, x) = Append(<< Header >>, x)
    <3>1. << Header >> \o << >> = << Header >> BY <1>1
    <3> QED BY <1>1, <1>4, <3>1, AppendRow
  <2>4. Append(<< Header >>, x) \in Seq(Line) BY <1>1, AppendRow
  <2> QED BY <1>6, <2>1, <2>2, <2>3, <2>4
<1>5. CASE b = << >> /\ r # << >>
  <2>1. << Header >> \o r \in Seq(Line) /\ << Header >> \o Append(r, x) \in Seq(Line)
    BY <1>1, <1>2, AppendRow
  <2>2. l = << Header >> \o r
    <3>1. Rows(b, r) = << Header >> \o r BY <1>5 DEF Rows
    <3> QED BY <1>0, <1>5, <2>1, <3>1, Zenon DEF l
  <2>3. b \o Rows(b, Append(r, x)) = << Header >> \o Append(r, x)
    <3>1. Rows(b, Append(r, x)) = << Header >> \o Append(r, x) BY <1>2, <1>5 DEF Rows
    <3> QED BY <1>0, <1>5, <2>1, <3>1, Zenon
  <2>4. l # << >> /\ Append(l, x) = << Header >> \o Append(r, x) BY <1>1, <2>2, AppendRow
  <2>5. Append(l, x) \in Seq(Line) BY <2>1, <2>2, AppendRow
  <2> QED BY <1>6, <2>3, <2>4, <2>5
<1> QED BY <1>3, <1>4, <1>5

(* save_to_csv on a file that is well formed.                              *)
LEMMA RowAdded ==
  ASSUME CsvType, WellFormedCsv, NEW r \in Seq(Nat), r = reported, NEW x \in Nat,
         csv.path = "file", reported' = Append(r, x), csv' = SaveToCsv(csv, x)
  PROVE  CsvType' /\ WellFormedCsv'
<1>1. PICK b, l : /\ csv = [path |-> "file", before |-> b, lines |-> l]
                  /\ b \in Seq(Line) /\ l \in Seq(Line) /\ b = csv.before /\ l = csv.lines
  BY DEF CsvType
<1>2. PICK n : n = Grown(l, x) OBVIOUS
<1>3. csv' = [path |-> "file", before |-> b, lines |-> n] BY <1>1, <1>2 DEF SaveToCsv, Grown
<1>4. l = b \o Rows(b, r) BY <1>1 DEF WellFormedCsv, NewLines, Rows
<1>5. n = b \o Rows(b, Append(r, x)) /\ n \in Seq(Line)
  <2>1. b \in Seq(Line) /\ r \in Seq(Nat) /\ x \in Nat BY <1>1
  <2> QED BY <2>1, <1>2, <1>4, RowsGrow, Zenon
<1>6. CsvType'
  <2>1. "file" \in PathKinds BY DEF PathKinds
  <2>2. b \in Seq(Line) BY <1>1
  <2>3. [path |-> "file", before |-> b, lines |-> n]
          \in [path : PathKinds, before : Seq(Line), lines : Seq(Line)]
    BY <2>1, <2>2, <1>5
  <2> QED BY <1>3, <2>3 DEF CsvType
<1>7. csv'.path = "file" /\ csv'.before = b /\ csv'.lines = n BY <1>3
<1>8. NewLines' = Rows(b, Append(r, x)) BY <1>7 DEF NewLines, Rows
<1>9. WellFormedCsv' BY <1>5, <1>7, <1>8 DEF WellFormedCsv
<1> QED BY <1>6, <1>9

(* save_to_csv and process_snapshot: whatever the file held before stays   *)
(* above the traces reported so far, each once and in order; a header goes *)
(* once into an empty file and never into another, and a path that cannot  *)
(* be opened or that throws leaves the file alone.                         *)
THEOREM FileWellFormed == Spec => []WellFormedCsv
<1> DEFINE Inv == CsvType /\ WellFormedCsv
<1>1. Init => Inv
  <2> SUFFICES ASSUME Init PROVE Inv
    OBVIOUS
  <2>1. PICK p \in Paths, b \in Contents : csv = [path |-> p, before |-> b, lines |-> b]
    BY DEF Init
  <2>2. p \in PathKinds /\ b \in Seq(Line) BY TelemetryAssumption
  <2>3. CsvType BY <2>1, <2>2 DEF CsvType
  <2>4. b \o << >> = b BY <2>2
  <2>5. NewLines = << >> BY DEF Init, NewLines
  <2> QED BY <2>1, <2>3, <2>4, <2>5 DEF WellFormedCsv
<1>2. Inductive /\ Inv /\ [Next]_vars => Inv'
  <2> SUFFICES ASSUME Inductive, Inv, [Next]_vars PROVE Inv'
    OBVIOUS
  <2>1. CASE SaveTrace
    <3>1. /\ csv' = IF csv.path = "none" THEN csv ELSE SaveToCsv(csv, Head(local_batch))
          /\ reported' = Append(reported, Head(local_batch)) /\ local_batch # << >>
          /\ csv.path # "throws"
      BY <2>1 DEF SaveTrace
    <3>2. reported \in Seq(Nat) /\ local_batch \in Seq(Nat) BY DEF Inductive, TypeOK
    <3>3. PICK x \in Nat : x = Head(local_batch) BY <3>1, <3>2
    <3>4. CASE csv.path = "file"
      <4>1. csv' = SaveToCsv(csv, x) /\ reported' = Append(reported, x) BY <3>1, <3>3, <3>4
      <4> QED BY <3>2, <3>4, <4>1, RowAdded
    <3>5. CASE csv.path # "file"
      <4>1. csv.path \in {"none", "closed"} BY <3>1, <3>5 DEF CsvType, PathKinds
      <4>2. csv' = csv BY <3>1, <4>1 DEF SaveToCsv
      <4>3. NewLines = << >> /\ NewLines' = << >> BY <3>5, <4>2 DEF NewLines
      <4> QED BY <4>2, <4>3 DEF CsvType, WellFormedCsv
    <3> QED BY <3>4, <3>5
  <2>2. CASE ~SaveTrace
    <3>1. UNCHANGED <<csv, reported>>
      BY <2>2 DEF Next, ServerStep, ReporterStep, CaptureTrace, Swap, Shutdown, Join, Notify,
                  LoopTop, Predicate, FallAsleep, TimeOut, Wakeup, Break, SaveThrows, Summary,
                  ReporterAt, vars
    <3> QED BY <3>1 DEF CsvType, WellFormedCsv, NewLines
  <2> QED BY <2>1, <2>2
<1> QED BY <1>1, <1>2, TracesInOrder, PTL DEF Spec
=============================================================================

------------------------------ MODULE RingLemmas -----------------------------
(***************************************************************************)
(* Arithmetic of ring buffers: which tickets share a cell when ticket k    *)
(* uses cell k % n.  Both lock-free queues write `k & Mask` with a Mask of *)
(* Capacity - 1, which is k % Capacity for their power-of-two Capacity.    *)
(* And arithmetic of windows: what the tickets that are still queued look  *)
(* like after the sequence of accepted tasks grows or is consumed.         *)
(* And induction up to a bound, for the recursive functions of the models. *)
(***************************************************************************)
EXTENDS Integers, Sequences, SequenceTheorems, WellFoundedInduction, TLAPS

(* The cell of a ticket is one of the n cells of the buffer.               *)
LEMMA SlotInRange ==
  ASSUME NEW n \in Nat, n >= 2, NEW k \in Nat
  PROVE  k % n \in 0..(n - 1)
BY SMT

(* Division with remainder.                                                *)
LEMMA DivisionForm ==
  ASSUME NEW n \in Nat, n >= 2, NEW k \in Nat
  PROVE  k \div n \in Nat /\ k = n * (k \div n) + (k % n)
BY SMT

(* A remainder is determined by the sum it belongs to.                     *)
LEMMA RemainderUnique ==
  ASSUME NEW n \in Nat, n >= 2, NEW q \in Int, NEW r \in Int,
         NEW x \in 0..(n - 1), NEW y \in 0..(n - 1), n * q + x = n * r + y
  PROVE  x = y
<1>1. CASE q = r BY <1>1
<1>2. CASE q < r
  <2>1. n * r >= n * q + n BY <1>2
  <2> QED BY <2>1
<1>3. CASE q > r
  <2>1. n * q >= n * r + n BY <1>3
  <2> QED BY <2>1
<1> QED BY <1>1, <1>2, <1>3

(* A cell is used again exactly one lap later.                             *)
LEMMA SlotNextLap ==
  ASSUME NEW n \in Nat, n >= 2, NEW k \in Nat
  PROVE  (k + n) % n = k % n
<1> DEFINE q == k \div n
           r == (k + n) \div n
           x == k % n
           y == (k + n) % n
<1>0. k + n \in Nat OBVIOUS
<1>1. q \in Nat /\ k = n * q + x BY DivisionForm
<1>2. r \in Nat /\ k + n = n * r + y BY <1>0, DivisionForm
<1>3. x \in 0..(n - 1) /\ y \in 0..(n - 1) BY <1>0, SlotInRange
<1> HIDE DEF q, r, x, y
<1>4. n * (q + 1) = n * q + n BY <1>1
<1>5. n * (q + 1) + x = n * r + y BY <1>1, <1>2, <1>3, <1>4
<1>6. x = y BY <1>1, <1>2, <1>3, <1>5, RemainderUnique
<1> QED BY <1>6 DEF x, y

(* Two tickets that share a cell are at least one lap apart.               *)
LEMMA SlotsApart ==
  ASSUME NEW n \in Nat, n >= 2, NEW j \in Nat, NEW k \in Nat,
         j < k, j % n = k % n
  PROVE  j + n <= k
<1> DEFINE q == k \div n
           r == j \div n
           x == k % n
<1>1. q \in Nat /\ k = n * q + x BY DivisionForm
<1>2. r \in Nat /\ j = n * r + x BY DivisionForm
<1>3. x \in Int BY SlotInRange
<1> HIDE DEF q, r, x
<1>4. n * r < n * q BY <1>1, <1>2, <1>3
<1>5. r < q BY <1>1, <1>2, <1>4
<1>6. n * q >= n * r + n BY <1>1, <1>2, <1>5
<1> QED BY <1>1, <1>2, <1>3, <1>6

(* Appending to a sequence appends to each of its suffixes.                *)
LEMMA SuffixAppend ==
  ASSUME NEW S, NEW s \in Seq(S), NEW e \in S, NEW i \in 0..Len(s)
  PROVE  SubSeq(Append(s, e), i + 1, Len(s) + 1) = Append(SubSeq(s, i + 1, Len(s)), e)
<1> DEFINE l == SubSeq(Append(s, e), i + 1, Len(s) + 1)
           q == SubSeq(s, i + 1, Len(s))
           r == Append(q, e)
<1>1. Append(s, e) \in Seq(S) /\ Len(Append(s, e)) = Len(s) + 1 OBVIOUS
<1>2. q \in Seq(S) /\ Len(q) = Len(s) - i OBVIOUS
<1>3. l \in Seq(S) /\ Len(l) = Len(s) + 1 - i BY <1>1
<1>4. r \in Seq(S) /\ Len(r) = Len(s) + 1 - i BY <1>2
<1>5. ASSUME NEW j \in 1..(Len(s) + 1 - i) PROVE l[j] = r[j]
  <2>1. l[j] = Append(s, e)[i + j] BY <1>1
  <2>2. CASE j = Len(s) + 1 - i BY <1>2, <2>1, <2>2
  <2>3. CASE j # Len(s) + 1 - i
    <3>1. q[j] = s[i + j] BY <2>3
    <3>2. r[j] = q[j] BY <1>2, <2>3
    <3> QED BY <2>1, <2>3, <3>1, <3>2
  <2> QED BY <2>2, <2>3
<1> HIDE DEF l, r
<1>6. l = r BY <1>3, <1>4, <1>5, SeqEqual
<1> QED BY <1>6 DEF l, r

(* Taking the first element off a suffix.                                  *)
LEMMA SuffixTail ==
  ASSUME NEW S, NEW s \in Seq(S), NEW i \in Nat, i < Len(s)
  PROVE  LET q == SubSeq(s, i + 1, Len(s))
         IN  /\ 1 <= Len(q)
             /\ SubSeq(q, 1, 1) = <<s[i + 1]>>
             /\ SubSeq(q, 1 + 1, Len(q)) = SubSeq(s, (i + 1) + 1, Len(s))
<1> DEFINE q == SubSeq(s, i + 1, Len(s))
           l == SubSeq(q, 1 + 1, Len(q))
           r == SubSeq(s, (i + 1) + 1, Len(s))
<1>1. q \in Seq(S) /\ Len(q) = Len(s) - i /\ \A j \in 1..Len(q) : q[j] = s[i + j]
  OBVIOUS
<1> HIDE DEF q
<1>2. SubSeq(q, 1, 1) = <<s[i + 1]>>
  <2> DEFINE u == SubSeq(q, 1, 1)
             v == <<s[i + 1]>>
  <2>1. u \in Seq(S) /\ Len(u) = 1 /\ u[1] = s[i + 1] BY <1>1
  <2>2. v \in Seq(S) /\ Len(v) = 1 /\ v[1] = s[i + 1] OBVIOUS
  <2> HIDE DEF u, v
  <2>3. \A k \in 1..Len(u) : u[k] = v[k] BY <2>1, <2>2
  <2>4. u = v BY <2>1, <2>2, <2>3, SeqEqual
  <2> QED BY <2>4 DEF u, v
<1>3. l \in Seq(S) /\ Len(l) = Len(s) - i - 1 /\ \A j \in 1..Len(l) : l[j] = s[i + 1 + j]
  BY <1>1
<1>4. r \in Seq(S) /\ Len(r) = Len(s) - i - 1 /\ \A j \in 1..Len(r) : r[j] = s[i + 1 + j]
  BY SMTT(30)
<1> HIDE DEF l, r
<1>5. l = r BY <1>3, <1>4, SeqEqual
<1> QED BY <1>1, <1>2, <1>5 DEF q, l, r

----------------------------------------------------------------------------
(* Induction over the naturals, for a set instead of a predicate           *)

(* A nonempty set of naturals has a least element.                         *)
LEMMA LeastNat ==
  ASSUME NEW T, T \subseteq Nat, T # {}
  PROVE  \E n \in T : \A m \in T : n <= m
<1> DEFINE R == OpToRel(<, Nat)
<1>1. IsWellFoundedOn(R, Nat) BY NatLessThanWellFounded
<1>2. \A m, n \in Nat : <<m, n>> \in R <=> m < n BY DEF OpToRel
<1> HIDE DEF R
<1>3. PICK n \in T : \A m \in T : ~ (<<m, n>> \in R) BY <1>1, WFMin
<1>4. \A m \in T : ~(m < n) BY <1>2, <1>3
<1> QED BY <1>3, <1>4

(* A set that holds 0 and the successor of each of its members up to n     *)
(* holds every natural up to n.                                            *)
LEMMA InductionUpTo ==
  ASSUME NEW n \in Nat, NEW T, 0 \in T, \A k \in 1..n : k - 1 \in T => k \in T
  PROVE  \A k \in 0..n : k \in T
<1> DEFINE U == {k \in 0..n : k \notin T}
<1> SUFFICES ASSUME U # {} PROVE FALSE OBVIOUS
<1>1. PICK k \in U : \A m \in U : k <= m
  <2> HIDE DEF U
  <2>1. U \subseteq Nat BY DEF U
  <2> QED BY <2>1, LeastNat
<1>2. k # 0 BY <1>1
<1>3. k \in 1..n /\ k - 1 \in 0..n BY <1>1, <1>2
<1>4. k - 1 \in T BY <1>1, <1>3
<1> QED BY <1>1, <1>3, <1>4

(* A recursion over 0..n has a solution; step k takes the value at k - 1   *)
(* to G[k, f[k - 1]].                                                      *)
Solvable(n, S, a, G) ==
  \E f \in [0..n -> S] : f[0] = a /\ \A k \in 1..n : f[k] = G[<<k, f[k - 1]>>]
LEMMA RecursionUpTo ==
  ASSUME NEW n \in Nat, NEW S, NEW a \in S, NEW G \in [(1..n) \X S -> S]
  PROVE  Solvable(n, S, a, G)
<1> DEFINE Solves(f, m) == f[0] = a /\ \A k \in 1..m : f[k] = G[<<k, f[k - 1]>>]
           T == {m \in 0..n : \E f \in [0..m -> S] : Solves(f, m)}
<1>1. 0 \in T
  <2>1. [k \in 0..0 |-> a] \in [0..0 -> S] /\ Solves([k \in 0..0 |-> a], 0) OBVIOUS
  <2>2. PICK f \in [0..0 -> S] : Solves(f, 0)
    <3> HIDE DEF Solves
    <3> QED BY <2>1
  <2> HIDE DEF Solves
  <2> QED BY <2>2
<1>2. ASSUME NEW m \in 1..n, m - 1 \in T PROVE m \in T
  <2>1. PICK f \in [0..(m - 1) -> S] : Solves(f, m - 1) BY <1>2
  <2>2. f[m - 1] \in S /\ m - 1 \in 0..(m - 1) OBVIOUS
  <2> DEFINE b == G[<<m, f[m - 1]>>]
             g == [k \in 0..m |-> IF k = m THEN b ELSE f[k]]
  <2>3. b \in S BY <2>2
  <2> HIDE DEF b
  <2>4. g \in [0..m -> S]
    <3>1. ASSUME NEW k \in 0..m PROVE (IF k = m THEN b ELSE f[k]) \in S
      <4>1. k # m => k \in 0..(m - 1) OBVIOUS
      <4> QED BY <2>3, <4>1
    <3> QED BY <3>1
  <2>5. g[m] = b /\ \A k \in 0..(m - 1) : g[k] = f[k] OBVIOUS
  <2> HIDE DEF g
  <2>6. g[0] = a
    <3>1. 0 \in 0..(m - 1) OBVIOUS
    <3> QED BY <2>1, <2>5, <3>1
  <2>7. ASSUME NEW k \in 1..m PROVE g[k] = G[<<k, g[k - 1]>>]
    <3>1. k - 1 \in 0..(m - 1) /\ g[k - 1] = f[k - 1]
      <4>1. k - 1 \in 0..(m - 1) OBVIOUS
      <4> QED BY <2>5, <4>1
    <3>2. CASE k = m BY <2>5, <3>1, <3>2 DEF b
    <3>3. CASE k # m
      <4>1. k \in 1..(m - 1) /\ k \in 0..(m - 1) BY <3>3
      <4>2. f[k] = G[<<k, f[k - 1]>>] BY <2>1, <4>1
      <4> QED BY <2>5, <3>1, <4>1, <4>2
    <3> QED BY <3>2, <3>3
  <2>8. Solves(g, m) BY <2>6, <2>7
  <2> HIDE DEF Solves
  <2> QED BY <2>4, <2>8
<1> HIDE DEF T
<1>3. n \in T
  <2>1. \A m \in 0..n : m \in T BY <1>1, <1>2, InductionUpTo
  <2> QED BY <2>1
<1> QED BY <1>3 DEF T, Solvable
=============================================================================

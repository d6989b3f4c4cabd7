-------------------------- MODULE TCPServer_proofs --------------------------
(* Proofs about TCPServer, for any number of clients, descriptors and      *)
(* requests, and any sizes.                                                *)
EXTENDS TCPServer, RingLemmas, TLAPS

----------------------------------------------------------------------------
(* Where the requests of a stream end                                      *)

(* The equation that EndOf's recursive function solves.                    *)
IsEnd(s, k, f) == f = [j \in 0..k |-> IF j = 0 THEN 0 ELSE f[j - 1] + HeaderBytes + s[j]]

LEMMA EndChoice == \A s, k : EndOf(s, k) = (CHOOSE f : IsEnd(s, k, f))[k]
  BY DEF EndOf, IsEnd

LEMMA EndExists ==
  ASSUME NEW s, NEW n \in Nat
  PROVE  \A k \in 0..n : \E f : IsEnd(s, k, f)
<1> DEFINE T == {k \in 0..n : \E f : IsEnd(s, k, f)}
<1>1. 0 \in T
  <2>1. IsEnd(s, 0, [j \in 0..0 |-> 0]) BY DEF IsEnd
  <2> QED BY <2>1
<1>2. ASSUME NEW k \in 1..n, k - 1 \in T PROVE k \in T
  <2>1. PICK f : IsEnd(s, k - 1, f) BY <1>2
  <2> DEFINE g == [j \in 0..k |-> IF j = k THEN f[k - 1] + HeaderBytes + s[k] ELSE f[j]]
  <2>2. ASSUME NEW j \in 0..k
        PROVE  g[j] = IF j = 0 THEN 0 ELSE g[j - 1] + HeaderBytes + s[j]
    <3>1. CASE j = k BY <3>1
    <3>2. CASE j # k
      <4>1. j \in 0..(k - 1) BY <3>2
      <4>2. f[j] = IF j = 0 THEN 0 ELSE f[j - 1] + HeaderBytes + s[j]
        BY <2>1, <4>1 DEF IsEnd
      <4>3. j # 0 => j - 1 \in 0..k /\ j - 1 # k BY <4>1
      <4> QED BY <3>2, <4>2, <4>3
    <3> QED BY <3>1, <3>2
  <2>3. g = [j \in 0..k |-> IF j = 0 THEN 0 ELSE g[j - 1] + HeaderBytes + s[j]]
    <3> HIDE DEF g
    <3>1. g = [j \in 0..k |-> g[j]] BY DEF g
    <3> QED BY <2>2, <3>1
  <2>4. IsEnd(s, k, g) BY <2>3 DEF IsEnd
  <2> QED BY <2>4
<1> HIDE DEF T
<1>3. \A k \in 0..n : k \in T BY <1>1, <1>2, InductionUpTo
<1> QED BY <1>3 DEF T

(* A longer sum agrees with a shorter one.                                 *)
LEMMA EndUnique ==
  ASSUME NEW s, NEW k \in Nat, NEW m \in Nat, k <= m, NEW f, NEW g,
         IsEnd(s, k, f), IsEnd(s, m, g)
  PROVE  \A j \in 0..k : f[j] = g[j]
<1> DEFINE T == {j \in 0..k : f[j] = g[j]}
<1>1. \A j \in 0..k : /\ f[j] = IF j = 0 THEN 0 ELSE f[j - 1] + HeaderBytes + s[j]
                      /\ g[j] = IF j = 0 THEN 0 ELSE g[j - 1] + HeaderBytes + s[j]
  BY DEF IsEnd
<1>2. 0 \in T BY <1>1
<1>3. ASSUME NEW j \in 1..k, j - 1 \in T PROVE j \in T
  <2>1. j \in 0..k /\ j # 0 OBVIOUS
  <2> QED BY <1>1, <1>3, <2>1
<1> HIDE DEF T
<1>4. \A j \in 0..k : j \in T BY <1>2, <1>3, InductionUpTo
<1> QED BY <1>4 DEF T

(* The recursive definition computes what it says.                         *)
LEMMA EndStep ==
  ASSUME NEW s, NEW k \in Nat
  PROVE  EndOf(s, k) = IF k = 0 THEN 0 ELSE EndOf(s, k - 1) + HeaderBytes + s[k]
<1> DEFINE e(n) == CHOOSE f : IsEnd(s, n, f)
<1>1. \A n \in 0..k : IsEnd(s, n, e(n)) BY EndExists
<1>2. \A n : EndOf(s, n) = e(n)[n] BY EndChoice
<1> HIDE DEF e
<1>3. e(k)[k] = IF k = 0 THEN 0 ELSE e(k)[k - 1] + HeaderBytes + s[k]
  BY <1>1 DEF IsEnd
<1>4. ASSUME k # 0 PROVE e(k)[k - 1] = e(k - 1)[k - 1]
  <2>1. k - 1 \in Nat /\ k - 1 <= k /\ k - 1 \in 0..k /\ k - 1 \in 0..(k - 1) BY <1>4
  <2>2. IsEnd(s, k - 1, e(k - 1)) /\ IsEnd(s, k, e(k)) BY <1>1, <2>1
  <2>3. ASSUME NEW m \in Nat, NEW f, NEW g, m <= k, IsEnd(s, m, f), IsEnd(s, k, g)
        PROVE  \A j \in 0..m : f[j] = g[j]
    BY <2>3, EndUnique
  <2> QED BY <2>1, <2>2, <2>3
<1> QED BY <1>2, <1>3, <1>4

(* Appending a request moves no earlier end.                               *)
LEMMA EndAppend ==
  ASSUME NEW s, NEW t, NEW n \in Nat, \A j \in 1..n : s[j] = t[j]
  PROVE  \A k \in 0..n : EndOf(s, k) = EndOf(t, k)
<1> DEFINE T == {k \in 0..n : EndOf(s, k) = EndOf(t, k)}
<1>1. 0 \in T BY EndStep
<1>2. ASSUME NEW k \in 1..n, k - 1 \in T PROVE k \in T
  <2>1. k \in Nat /\ k # 0 OBVIOUS
  <2>2. /\ EndOf(s, k) = EndOf(s, k - 1) + HeaderBytes + s[k]
        /\ EndOf(t, k) = EndOf(t, k - 1) + HeaderBytes + t[k]
    BY <2>1, EndStep
  <2> QED BY <1>2, <2>2
<1> HIDE DEF T
<1>3. \A k \in 0..n : k \in T BY <1>1, <1>2, InductionUpTo
<1> QED BY <1>3 DEF T

(* Every end is a position, and ends grow by at least a header.            *)
LEMMA EndNat ==
  ASSUME NEW n \in Nat, NEW s, \A j \in 1..n : s[j] \in Nat
  PROVE  \A k \in 0..n : EndOf(s, k) \in Nat
<1> DEFINE T == {k \in 0..n : EndOf(s, k) \in Nat}
<1>1. 0 \in T BY EndStep
<1>2. ASSUME NEW k \in 1..n, k - 1 \in T PROVE k \in T
  <2>1. k \in Nat /\ k # 0 OBVIOUS
  <2>2. EndOf(s, k) = EndOf(s, k - 1) + HeaderBytes + s[k] BY <2>1, EndStep
  <2> QED BY <1>2, <2>2, ServerAssumption
<1> HIDE DEF T
<1>3. \A k \in 0..n : k \in T BY <1>1, <1>2, InductionUpTo
<1> QED BY <1>3 DEF T

LEMMA EndGrows ==
  ASSUME NEW n \in Nat, NEW s, \A j \in 1..n : s[j] \in Nat, NEW j \in 0..n
  PROVE  \A k \in 0..n : j < k => EndOf(s, j) + HeaderBytes <= EndOf(s, k)
<1> DEFINE T == {k \in 0..n : j < k => EndOf(s, j) + HeaderBytes <= EndOf(s, k)}
<1>1. 0 \in T OBVIOUS
<1>2. ASSUME NEW k \in 1..n, k - 1 \in T PROVE k \in T
  <2>1. k \in Nat /\ k # 0 /\ k - 1 \in 0..n /\ k \in 0..n OBVIOUS
  <2>2. EndOf(s, k) = EndOf(s, k - 1) + HeaderBytes + s[k] BY <2>1, EndStep
  <2>3. EndOf(s, k - 1) \in Nat /\ EndOf(s, j) \in Nat BY <2>1, EndNat
  <2>4. HeaderBytes \in Nat BY ServerAssumption
  <2>5. s[k] \in Nat OBVIOUS
  <2>6. j = k - 1 \/ j < k - 1 \/ ~(j < k) BY <2>1
  <2> QED BY <1>2, <2>1, <2>2, <2>3, <2>4, <2>5, <2>6
<1> HIDE DEF T
<1>3. \A k \in 0..n : k \in T BY <1>1, <1>2, InductionUpTo
<1> QED BY <1>3 DEF T

----------------------------------------------------------------------------
(* Sequences                                                               *)

LEMMA RemoveAtFacts ==
  ASSUME NEW X, NEW s \in Seq(X), NEW n \in 1..Len(s)
  PROVE  /\ RemoveAt(s, n) \in Seq(X) /\ Len(RemoveAt(s, n)) = Len(s) - 1
         /\ \A j \in 1..(Len(s) - 1) : RemoveAt(s, n)[j] = IF j < n THEN s[j] ELSE s[j + 1]
<1> DEFINE a == SubSeq(s, 1, n - 1)
           b == SubSeq(s, n + 1, Len(s))
<1>1. a \in Seq(X) /\ Len(a) = n - 1 /\ \A j \in 1..(n - 1) : a[j] = s[j] OBVIOUS
<1>2. b \in Seq(X) /\ Len(b) = Len(s) - n /\ \A j \in 1..(Len(s) - n) : b[j] = s[n + j] OBVIOUS
<1> HIDE DEF a, b
<1>3. a \o b \in Seq(X) /\ Len(a \o b) = Len(s) - 1
  <2>1. a \o b \in Seq(X) /\ Len(a \o b) = Len(a) + Len(b) BY <1>1, <1>2, ConcatProperties
  <2>2. Len(s) \in Nat OBVIOUS
  <2> QED BY <1>1, <1>2, <2>1, <2>2
<1>4. ASSUME NEW j \in 1..(Len(s) - 1) PROVE (a \o b)[j] = IF j < n THEN s[j] ELSE s[j + 1]
  <2>1. CASE j < n BY <1>1, <1>2, <2>1
  <2>2. CASE ~(j < n)
    <3>1. (a \o b)[j] = b[j - (n - 1)] BY <1>1, <1>2, <2>2
    <3>2. j - (n - 1) \in 1..(Len(s) - n) /\ n + (j - (n - 1)) = j + 1 BY <2>2
    <3>3. b[j - (n - 1)] = s[n + (j - (n - 1))] BY <1>2, <3>2
    <3> QED BY <2>2, <3>1, <3>2, <3>3
  <2> QED BY <2>1, <2>2
<1> QED BY <1>3, <1>4 DEF a, b, RemoveAt

(* close_connection's swap with the last entry.                            *)
LEMMA SwapFacts ==
  ASSUME NEW X, NEW s \in Seq(X), NEW n \in 1..Len(s)
  PROVE  LET r == Front([s EXCEPT ![n] = Last(s)]) IN
           /\ r \in Seq(X) /\ Len(r) = Len(s) - 1
           /\ \A j \in 1..(Len(s) - 1) : r[j] = IF j = n THEN s[Len(s)] ELSE s[j]
<1> DEFINE t == [s EXCEPT ![n] = Last(s)]
<1>1. t \in Seq(X) /\ Len(t) = Len(s) /\ \A j \in 1..Len(s) : t[j] = IF j = n THEN s[Len(s)] ELSE s[j]
  BY DEF Last
<1> HIDE DEF t
<1>2. /\ SubSeq(t, 1, Len(t) - 1) \in Seq(X) /\ Len(SubSeq(t, 1, Len(t) - 1)) = Len(s) - 1
      /\ \A j \in 1..(Len(s) - 1) : SubSeq(t, 1, Len(t) - 1)[j] = t[j]
  BY <1>1
<1> QED BY <1>1, <1>2 DEF Front, t

----------------------------------------------------------------------------
(* Positions in the stream                                                 *)

LEMMA StreamFacts ==
  ASSUME TypeOK, NEW c \in Conns
  PROVE  /\ Len(sizes[c]) \in Nat /\ \A k \in 1..Len(sizes[c]) : sizes[c][k] \in Nat
         /\ \A k \in 0..Len(sizes[c]) : BytesOf(c, k) \in Nat
         /\ BytesOf(c, 0) = 0
         /\ \A k \in 1..Len(sizes[c]) : BytesOf(c, k) = BytesOf(c, k - 1) + HeaderBytes + sizes[c][k]
         /\ \A j, k \in 0..Len(sizes[c]) : j < k => BytesOf(c, j) + HeaderBytes <= BytesOf(c, k)
<1> DEFINE s == sizes[c]
           n == Len(s)
<1>1. n \in Nat /\ \A k \in 1..n : s[k] \in Nat
  <2>1. s \in Seq(Sizes) BY DEF TypeOK
  <2>2. Sizes \subseteq Nat BY ServerAssumption
  <2>3. PICK z \in Seq(Sizes) : z = s BY <2>1
  <2>4. Len(z) \in Nat /\ \A k \in 1..Len(z) : z[k] \in Sizes BY <2>3
  <2>5. \A k \in 1..Len(z) : z[k] \in Nat BY <2>2, <2>4
  <2> QED BY <2>3, <2>4, <2>5
<1> HIDE DEF n
<1>2. \A k \in 0..n : EndOf(s, k) \in Nat BY <1>1, EndNat
<1>3. EndOf(s, 0) = 0 BY EndStep
<1>4. \A k \in 1..n : EndOf(s, k) = EndOf(s, k - 1) + HeaderBytes + s[k]
  <2> SUFFICES ASSUME NEW k \in 1..n PROVE EndOf(s, k) = EndOf(s, k - 1) + HeaderBytes + s[k]
    OBVIOUS
  <2>1. k \in Nat /\ k # 0 BY <1>1
  <2> QED BY <2>1, EndStep
<1>5. \A j, k \in 0..n : j < k => EndOf(s, j) + HeaderBytes <= EndOf(s, k)
  BY <1>1, EndGrows
<1> QED BY <1>1, <1>2, <1>3, <1>4, <1>5 DEF n, BytesOf

(* The header that ends where request k's header ends announces its size,  *)
(* and the body that ends where request k ends is that of request k.       *)
LEMMA ReadsRight ==
  ASSUME TypeOK, NEW c \in Conns, NEW k \in 1..Len(sizes[c])
  PROVE  /\ HeaderAt(c, BytesOf(c, k - 1) + HeaderBytes) = sizes[c][k]
         /\ BodyAt(c, BytesOf(c, k)) = <<c, k>>
<1> DEFINE n == Len(sizes[c])
<1>1. n \in Nat /\ DOMAIN sizes[c] = 1..n BY DEF TypeOK
<1>2. /\ \A j \in 0..n : BytesOf(c, j) \in Nat
      /\ \A j, l \in 0..n : j < l => BytesOf(c, j) + HeaderBytes <= BytesOf(c, l)
  BY StreamFacts
<1>3. HeaderBytes \in Nat /\ HeaderBytes > 0 BY ServerAssumption
<1> HIDE DEF n
<1>4. \A j, l \in 0..n : BytesOf(c, j) = BytesOf(c, l) => j = l
  <2> SUFFICES ASSUME NEW j \in 0..n, NEW l \in 0..n, j # l PROVE BytesOf(c, j) # BytesOf(c, l)
    OBVIOUS
  <2>1. BytesOf(c, j) \in Nat /\ BytesOf(c, l) \in Nat BY <1>2
  <2>2. CASE j < l BY <1>2, <1>3, <2>1, <2>2
  <2>3. CASE l < j BY <1>2, <1>3, <2>1, <2>3
  <2> QED BY <1>1, <2>2, <2>3
<1>5. {j \in DOMAIN sizes[c] : BytesOf(c, j) = BytesOf(c, k)} = {k}
  BY <1>1, <1>4 DEF n
<1>6. {j \in DOMAIN sizes[c] : BytesOf(c, j - 1) + HeaderBytes = BytesOf(c, k - 1) + HeaderBytes} = {k}
  <2>1. ASSUME NEW j \in 1..n, BytesOf(c, j - 1) + HeaderBytes = BytesOf(c, k - 1) + HeaderBytes
        PROVE  j = k
    <3>1. j - 1 \in 0..n /\ k - 1 \in 0..n /\ k \in 1..n BY <1>1 DEF n
    <3>2. BytesOf(c, j - 1) \in Nat /\ BytesOf(c, k - 1) \in Nat BY <1>2, <3>1
    <3>3. BytesOf(c, j - 1) = BytesOf(c, k - 1) BY <1>3, <2>1, <3>2
    <3>4. j - 1 = k - 1 BY <1>4, <3>1, <3>3
    <3> QED BY <3>1, <3>4
  <2> QED BY <1>1, <2>1 DEF n
<1>7. (CHOOSE j \in {k} : TRUE) = k OBVIOUS
<1> QED BY <1>5, <1>6, <1>7 DEF HeaderAt, BodyAt

----------------------------------------------------------------------------
(* The inductive invariant                                                 *)

(* InFlightOwned, queue by queue.                                          *)
Owned(x) ==
  /\ x.fd \in DOMAIN sessions
  /\ sessions[x.fd].state = "INFERENCE_PENDING"
  /\ x.data = <<table[x.fd], traced[table[x.fd]] + 1>>
Flight ==
  /\ \A k \in DOMAIN tasks : Owned(tasks[k])
  /\ \A k \in DOMAIN results : Owned(results[k])
  /\ \A j, k \in DOMAIN tasks : j # k => tasks[j].fd # tasks[k].fd
  /\ \A j, k \in DOMAIN results : j # k => results[j].fd # results[k].fd
  /\ \A j \in DOMAIN tasks, k \in DOMAIN results : tasks[j].fd # results[k].fd
FlightOK == pollfds # << >> => Flight
SessionsOK == \A fd \in DOMAIN sessions : Cycle(fd) /\ Framed(fd)
CountsOK == \A c \in Conns : Counted(c) /\ \A k \in DOMAIN got[c] : got[c][k] = <<c, k>>
Ind == /\ TypeOK /\ PollMatchesSessions /\ StrayHarmless
       /\ FlightOK /\ SessionsOK /\ CountsOK

LEMMA IndImplies == Ind => ServerInv /\ Framing /\ OwnResponses
<1> SUFFICES ASSUME Ind PROVE InFlightOwned /\ OwnResponses
  BY DEF Ind, ServerInv, SessionsOK, CountsOK, Framing
<1>1. OwnResponses
  <2> SUFFICES ASSUME NEW c \in Conns PROVE Len(got[c]) <= Len(sizes[c])
    BY DEF Ind, CountsOK, OwnResponses
  <2>1. Len(got[c]) \in Nat /\ Len(sizes[c]) \in Nat /\ traced[c] \in Nat
    BY DEF Ind, TypeOK
  <2> QED BY <2>1 DEF Ind, CountsOK, Counted
<1>2. ASSUME pollfds # << >>
      PROVE  /\ \A k \in DOMAIN InFlight : Owned(InFlight[k])
             /\ \A j, k \in DOMAIN InFlight : j # k => InFlight[j].fd # InFlight[k].fd
  <2>1. /\ tasks \in Seq(Work) /\ results \in Seq(Work)
        /\ Len(tasks) \in Nat /\ Len(results) \in Nat
        /\ DOMAIN tasks = 1..Len(tasks) /\ DOMAIN results = 1..Len(results)
    BY DEF Ind, TypeOK
  <2>2. /\ DOMAIN InFlight = 1..(Len(tasks) + Len(results))
        /\ \A k \in 1..(Len(tasks) + Len(results)) :
             InFlight[k] = IF k <= Len(tasks) THEN tasks[k] ELSE results[k - Len(tasks)]
    BY <2>1 DEF InFlight
  <2>3. ASSUME NEW k \in DOMAIN InFlight
        PROVE  \/ k \in DOMAIN tasks /\ InFlight[k] = tasks[k]
               \/ k > Len(tasks) /\ k - Len(tasks) \in DOMAIN results
                  /\ InFlight[k] = results[k - Len(tasks)]
    BY <2>1, <2>2
  <2>4. Flight BY <1>2 DEF Ind, FlightOK
  <2>5. \A k \in DOMAIN InFlight : Owned(InFlight[k]) BY <2>3, <2>4 DEF Flight
  <2>6. ASSUME NEW j \in DOMAIN InFlight, NEW k \in DOMAIN InFlight, j # k
        PROVE  InFlight[j].fd # InFlight[k].fd
    <3>1. CASE j \in DOMAIN tasks /\ k \in DOMAIN tasks
      BY <2>1, <2>3, <2>4, <2>6, <3>1 DEF Flight
    <3>2. CASE j > Len(tasks) /\ k > Len(tasks)
      <4>1. j - Len(tasks) # k - Len(tasks) BY <2>1, <2>2, <2>6
      <4>2. j \notin DOMAIN tasks /\ k \notin DOMAIN tasks BY <2>1, <3>2
      <4> QED BY <2>3, <2>4, <4>1, <4>2 DEF Flight
    <3> QED BY <2>3, <2>4, <3>1, <3>2 DEF Flight
  <2> QED BY <2>5, <2>6
<1> QED BY <1>1, <1>2 DEF InFlightOwned, Owned

LEMMA IndInit == Init => Ind
<1> SUFFICES ASSUME Init PROVE Ind
  OBVIOUS
<1> USE ServerAssumption DEF Init
<1>1. /\ pollfds \in Seq(PollEntry) /\ Len(pollfds) = 1
      /\ pollfds[1] = [fd |-> Listener, revents |-> "none"] /\ pollfds # << >>
  BY DEF PollEntry, Stray
<1>2. DOMAIN sessions = {} /\ DOMAIN table = {} OBVIOUS
<1>3. TypeOK
  <2>1. << >> \in Seq(Work) /\ << >> \in Seq(Sizes) /\ << >> \in Seq(Contents) OBVIOUS
  <2>2. sessions \in [DOMAIN sessions -> ClientSession] /\ table \in [DOMAIN table -> Conns]
    BY <1>2
  <2>3. \A c \in Conns : Len(sizes[c]) <= MaxRequests[c] OBVIOUS
  <2> QED BY <1>1, <1>2, <2>1, <2>2, <2>3 DEF TypeOK
<1>4. PollMatchesSessions BY <1>1, <1>2 DEF PollMatchesSessions
<1>5. StrayHarmless /\ FlightOK /\ SessionsOK
  BY <1>2 DEF StrayHarmless, FlightOK, Flight, SessionsOK
<1>6. CountsOK
  <2> SUFFICES ASSUME NEW c \in Conns PROVE Counted(c)
    BY DEF CountsOK
  <2>1. BytesOf(c, 0) = 0 BY <1>3, StreamFacts
  <2> QED BY <2>1 DEF Counted, Consumed
<1> QED BY <1>3, <1>4, <1>5, <1>6 DEF Ind

(* A step leaves what the server has read of c's stream, and where its     *)
(* requests end, as they were; the client may have added requests.         *)
Kept(c) ==
  /\ Len(sizes'[c]) \in Nat /\ Len(sizes'[c]) >= Len(sizes[c])
  /\ \A k \in 1..Len(sizes[c]) : sizes'[c][k] = sizes[c][k]
  /\ \A k \in 0..Len(sizes[c]) : BytesOf(c, k)' = BytesOf(c, k)
  /\ Consumed(c)' = Consumed(c)

LEMMA NothingRead ==
  ASSUME TypeOK, NEW c \in Conns, sizes'[c] = sizes[c],
         unsent'[c] + inbuf'[c] = unsent[c] + inbuf[c],
         unsent'[c] \in Nat, inbuf'[c] \in Nat
  PROVE  Kept(c)
<1>1. \A k : BytesOf(c, k)' = BytesOf(c, k)
  BY DEF BytesOf
<1>2. Len(sizes[c]) \in Nat /\ BytesOf(c, Len(sizes[c])) \in Nat
  BY StreamFacts
<1>3. unsent[c] \in Nat /\ inbuf[c] \in Nat BY DEF TypeOK
<1>4. BytesOf(c, Len(sizes[c]))' = BytesOf(c, Len(sizes[c]))
  BY <1>1 DEF BytesOf
<1>5. Consumed(c)' = Consumed(c)
  <2>1. Consumed(c)' = BytesOf(c, Len(sizes[c]))' - unsent'[c] - inbuf'[c]
    BY DEF Consumed
  <2>2. Consumed(c) = BytesOf(c, Len(sizes[c])) - unsent[c] - inbuf[c]
    BY DEF Consumed
  <2>3. PICK m \in Nat : m = BytesOf(c, Len(sizes[c])) BY <1>2
  <2>4. BytesOf(c, Len(sizes[c]))' = m BY <1>4, <2>3
  <2>5. PICK u \in Nat, v \in Nat, w \in Nat, x \in Nat :
          u = unsent[c] /\ v = inbuf[c] /\ w = unsent'[c] /\ x = inbuf'[c] /\ w + x = u + v
    BY <1>3
  <2>6. Consumed(c)' = m - w - x /\ Consumed(c) = m - u - v BY <2>1, <2>2, <2>3, <2>4, <2>5
  <2> QED BY <2>5, <2>6
<1> QED BY <1>1, <1>2, <1>5 DEF Kept

(* A client's new request leaves the earlier ones where they are.          *)
LEMMA RequestKeeps ==
  ASSUME TypeOK, NEW c \in Conns, NEW s \in Sizes,
         sizes'[c] = Append(sizes[c], s), inbuf'[c] = inbuf[c],
         unsent'[c] = unsent[c] + HeaderBytes + s
  PROVE  Kept(c)
<1> DEFINE n == Len(sizes[c])
<1>1. n \in Nat /\ sizes[c] \in Seq(Sizes) /\ s \in Nat /\ HeaderBytes \in Nat
  BY ServerAssumption DEF TypeOK
<1>2. Len(sizes'[c]) = n + 1 /\ sizes'[c][n + 1] = s
  BY <1>1
<1>3. \A k \in 1..n : sizes'[c][k] = sizes[c][k]
  BY <1>1
<1> HIDE DEF n
<1>4. \A k : BytesOf(c, k)' = EndOf(sizes'[c], k) /\ BytesOf(c, k) = EndOf(sizes[c], k)
  BY DEF BytesOf
<1>5. \A k \in 0..n : EndOf(sizes[c], k) = EndOf(sizes'[c], k)
  BY <1>1, <1>3, EndAppend, ZenonT(30)
<1>6. EndOf(sizes'[c], n + 1) = EndOf(sizes'[c], n) + HeaderBytes + s
  <2>1. n + 1 \in Nat /\ n + 1 # 0 /\ (n + 1) - 1 = n BY <1>1
  <2> QED BY <1>2, <2>1, EndStep
<1>7. BytesOf(c, n) \in Nat BY <1>1, StreamFacts DEF n
<1>8. unsent[c] \in Nat /\ inbuf[c] \in Nat BY DEF TypeOK
<1>9. Consumed(c) = BytesOf(c, n) - unsent[c] - inbuf[c] BY DEF Consumed, n
<1>10. Consumed(c)' = EndOf(sizes'[c], n + 1) - unsent'[c] - inbuf'[c]
  <2>1. Consumed(c)' = EndOf(sizes'[c], Len(sizes'[c])) - unsent'[c] - inbuf'[c]
    BY DEF Consumed, BytesOf
  <2> QED BY <1>2, <2>1
<1>11. EndOf(sizes'[c], n) = BytesOf(c, n) BY <1>1, <1>4, <1>5
<1>12. Consumed(c)' = Consumed(c)
  BY <1>1, <1>6, <1>7, <1>8, <1>9, <1>10, <1>11
<1> QED BY <1>1, <1>2, <1>3, <1>4, <1>5, <1>12 DEF Kept, n

(* A session that a step does not touch stays in its cycle and its frame.  *)
LEMMA SessionKept ==
  ASSUME Ind, NEW fd \in DOMAIN sessions, NEW c, c = table[fd], Kept(c),
         sessions'[fd] = sessions[fd], table'[fd] = table[fd],
         traced'[c] = traced[c], got'[c] = got[c]
  PROVE  Cycle(fd)' /\ Framed(fd)'
<1>1. c \in Conns /\ traced[c] \in Nat /\ Len(sizes[c]) \in Nat
  BY DEF Ind, TypeOK, PollMatchesSessions
<1>2. traced[c] <= Len(sizes[c]) BY <1>1 DEF Ind, CountsOK, Counted
<1>3. Cycle(fd) /\ Framed(fd) BY DEF Ind, SessionsOK
<1>4. sessions[fd].state \in States BY DEF Ind, TypeOK, ClientSession
<1>5. Cycle(fd)' BY <1>1, <1>2, <1>3 DEF Cycle, Kept
<1>6. PICK n \in Nat : n = traced[c] BY <1>1
<1>7. /\ BytesOf(c, n)' = BytesOf(c, n)
      /\ n < Len(sizes[c]) => /\ BytesOf(c, n + 1)' = BytesOf(c, n + 1)
                              /\ sizes'[c][n + 1] = sizes[c][n + 1]
  BY <1>1, <1>2, <1>6 DEF Kept
<1>8. PICK m : m = Consumed(c) /\ m = EndOf(sizes'[c], Len(sizes'[c])) - unsent'[c] - inbuf'[c]
  BY DEF Kept, Consumed, BytesOf
<1>9. Framed(fd)'
  <2> DEFINE s == sessions[fd]
  <2>1. CASE s.state = "HEADER_PENDING"
    BY <1>3, <1>6, <1>7, <1>8, <2>1 DEF Framed, BytesOf, Consumed
  <2>2. CASE s.state = "BODY_PENDING"
    BY <1>3, <1>6, <1>7, <1>8, <2>2 DEF Framed, BytesOf, Consumed, Cycle
  <2>3. CASE s.state = "INFERENCE_PENDING"
    BY <1>3, <1>6, <1>7, <1>8, <2>3 DEF Framed, BytesOf, Consumed, Cycle
  <2>4. CASE s.state = "RESPONSE_SENDING"
    BY <1>3, <1>6, <1>7, <1>8, <2>4 DEF Framed, BytesOf, Consumed
  <2> QED BY <1>4, <2>1, <2>2, <2>3, <2>4 DEF States
<1> QED BY <1>5, <1>9

(* The same for a connection's counts.                                     *)
LEMMA CountKept ==
  ASSUME Ind, NEW c \in Conns, Kept(c), traced'[c] = traced[c], got'[c] = got[c],
         link'[c] \in {"unused", "backlog"} => link[c] \in {"unused", "backlog"}
  PROVE  Counted(c)' /\ \A k \in DOMAIN got'[c] : got'[c][k] = <<c, k>>
<1>1. Len(sizes[c]) \in Nat /\ traced[c] \in Nat /\ Len(got[c]) \in Nat
  BY DEF Ind, TypeOK
<1> QED BY <1>1 DEF Ind, CountsOK, Counted, Kept

(* What clients, network and signals do leaves the server's state alone.   *)
LEMMA ClientStep ==
  ASSUME Ind, TypeOK', \A c \in Conns : Kept(c),
         UNCHANGED <<pc, i, current_size, pollfds, sessions, table, got, traced>>,
         \A c \in Conns : link'[c] = link[c] \/ (link[c] = "unused" /\ link'[c] = "backlog"),
         FlightOK'
  PROVE  Ind'
<1>1. PollMatchesSessions' BY DEF Ind, PollMatchesSessions
<1>2. StrayHarmless' BY DEF Ind, StrayHarmless
<1>4. SessionsOK'
  <2> SUFFICES ASSUME NEW fd \in DOMAIN sessions PROVE Cycle(fd)' /\ Framed(fd)'
    BY DEF SessionsOK
  <2>1. PICK c \in Conns : c = table[fd] BY DEF Ind, TypeOK, PollMatchesSessions
  <2> QED BY <2>1, SessionKept
<1>5. CountsOK' BY CountKept DEF CountsOK
<1> QED BY <1>1, <1>2, <1>4, <1>5 DEF Ind

LEMMA FlightKept ==
  ASSUME Ind, UNCHANGED <<pollfds, sessions, table, traced, tasks, results>>
  PROVE  FlightOK'
BY DEF Ind, FlightOK, Flight, Owned

LEMMA ClientActions ==
  ASSUME Ind, NEW c \in Conns,
         Connect(c) \/ Deliver(c) \/ Hangup(c) \/ SignalHandler
           \/ \E s \in Sizes : Request(c, s)
  PROVE  Ind'
<1> USE ServerAssumption DEF server, client, queues
<1>1. TypeOK BY DEF Ind
<1>2. CASE Connect(c)
  <2>1. TypeOK' BY <1>1, <1>2 DEF Connect, TypeOK
  <2>2. \A d \in Conns : Kept(d) BY <1>1, <1>2, NothingRead DEF Connect, TypeOK
  <2>3. \A d \in Conns : link'[d] = link[d] \/ (link[d] = "unused" /\ link'[d] = "backlog")
    BY <1>1, <1>2 DEF Connect, TypeOK
  <2>4. FlightOK' BY <1>2, FlightKept DEF Connect
  <2> QED BY <1>2, <2>1, <2>2, <2>3, <2>4, ClientStep DEF Connect
<1>3. CASE Deliver(c)
  <2>1. /\ unsent[c] > 0 /\ unsent' = [unsent EXCEPT ![c] = @ - 1]
        /\ inbuf' = [inbuf EXCEPT ![c] = @ + 1] /\ link' = link
        /\ UNCHANGED <<running, server, hungup, sizes, got, traced, queues>>
    BY <1>3 DEF Deliver
  <2>2. unsent' \in [Conns -> Nat] /\ inbuf' \in [Conns -> Nat]
    <3>1. unsent[c] - 1 \in Nat /\ inbuf[c] + 1 \in Nat BY <1>1, <2>1, SMTT(30) DEF TypeOK
    <3> QED BY <1>1, <2>1, <3>1 DEF TypeOK
  <2>3. TypeOK' BY <1>1, <2>1, <2>2 DEF TypeOK
  <2>4. \A d \in Conns : unsent'[d] + inbuf'[d] = unsent[d] + inbuf[d]
    BY <1>1, <2>1 DEF TypeOK
  <2>5. \A d \in Conns : Kept(d) BY <1>1, <2>1, <2>2, <2>4, NothingRead
  <2>6. FlightOK' BY <2>1, FlightKept
  <2> QED BY <2>1, <2>3, <2>5, <2>6, ClientStep
<1>4. CASE Hangup(c) \/ SignalHandler
  <2>1. TypeOK' BY <1>1, <1>4 DEF Hangup, SignalHandler, TypeOK
  <2>2. \A d \in Conns : Kept(d) BY <1>1, <1>4, NothingRead DEF Hangup, SignalHandler, TypeOK
  <2>3. FlightOK' BY <1>4, FlightKept DEF Hangup, SignalHandler
  <2> QED BY <1>4, <2>1, <2>2, <2>3, ClientStep DEF Hangup, SignalHandler
<1>5. ASSUME NEW s \in Sizes, Request(c, s) PROVE Ind'
  <2>1. /\ sizes' = [sizes EXCEPT ![c] = Append(@, s)]
        /\ unsent' = [unsent EXCEPT ![c] = @ + HeaderBytes + s]
        /\ Len(sizes[c]) < MaxRequests[c]
        /\ UNCHANGED <<running, server, inbuf, hungup, got, traced, queues>>
    BY <1>5 DEF Request
  <2>2. sizes' \in [Conns -> Seq(Sizes)] BY <1>1, <2>1 DEF TypeOK
  <2>3. \A d \in Conns : Len(sizes'[d]) <= MaxRequests[d]
    BY <1>1, <2>1, SMTT(30) DEF TypeOK
  <2>4. unsent' \in [Conns -> Nat]
    <3>1. s \in Nat /\ HeaderBytes \in Nat /\ unsent \in [Conns -> Nat]
      BY <1>1 DEF TypeOK
    <3>2. unsent[c] + HeaderBytes + s \in Nat BY <3>1
    <3> QED BY <2>1, <3>1, <3>2
  <2>5. TypeOK' BY <1>1, <2>1, <2>2, <2>3, <2>4 DEF TypeOK
  <2>6. Kept(c)
    <3>1. sizes'[c] = Append(sizes[c], s) /\ unsent'[c] = unsent[c] + HeaderBytes + s
      BY <1>1, <2>1 DEF TypeOK
    <3> QED BY <1>1, <2>1, <3>1, RequestKeeps
  <2>7. \A d \in Conns \ {c} : Kept(d) BY <1>1, <2>1, NothingRead DEF TypeOK
  <2>8. FlightOK' BY <2>1, FlightKept
  <2> QED BY <2>1, <2>5, <2>6, <2>7, <2>8, ClientStep
<1> QED BY <1>2, <1>3, <1>4, <1>5

(* A worker moves a request from the tasks to the results.                 *)
LEMMA InferKeeps ==
  ASSUME Ind, NEW k \in DOMAIN tasks, Infer(k)
  PROVE  Ind'
<1> USE DEF server, client
<1>1. /\ TypeOK /\ tasks \in Seq(Work) /\ results \in Seq(Work)
      /\ Len(tasks) \in Nat /\ Len(results) \in Nat
      /\ DOMAIN tasks = 1..Len(tasks) /\ DOMAIN results = 1..Len(results)
  BY DEF Ind, TypeOK
<1>2. /\ tasks' = RemoveAt(tasks, k) /\ results' = Append(results, tasks[k])
      /\ UNCHANGED <<running, server, inbuf, client, got, traced>>
  BY DEF Infer
<1>3. /\ tasks' \in Seq(Work) /\ DOMAIN tasks' = 1..(Len(tasks) - 1)
      /\ \A j \in 1..(Len(tasks) - 1) : tasks'[j] = IF j < k THEN tasks[j] ELSE tasks[j + 1]
  <2>1. k \in 1..Len(tasks) BY <1>1
  <2> HIDE DEF RemoveAt
  <2> QED BY <1>1, <1>2, <2>1, RemoveAtFacts
<1>4. /\ results' \in Seq(Work) /\ DOMAIN results' = 1..(Len(results) + 1)
      /\ \A j \in 1..Len(results) : results'[j] = results[j]
      /\ results'[Len(results) + 1] = tasks[k]
  BY <1>1, <1>2
<1>5. TypeOK' BY <1>1, <1>2, <1>3, <1>4 DEF TypeOK
<1>6. \A c \in Conns : Kept(c) BY <1>1, <1>2, NothingRead DEF TypeOK
<1>7. FlightOK'
  <2> SUFFICES ASSUME pollfds # << >> PROVE Flight'
    BY <1>2 DEF FlightOK
  <2>1. Flight BY DEF Ind, FlightOK
  <2> DEFINE old(j) == IF j < k THEN j ELSE j + 1
  <2>3. \A j \in DOMAIN tasks' : old(j) \in DOMAIN tasks /\ old(j) # k /\ tasks'[j] = tasks[old(j)]
    BY <1>1, <1>3
  <2>4. \A j, l \in DOMAIN tasks' : old(j) = old(l) => j = l
    BY <1>1, <1>3
  <2>5. \A j \in DOMAIN results' : \/ j \in DOMAIN results /\ results'[j] = results[j]
                                   \/ j = Len(results) + 1 /\ results'[j] = tasks[k]
    BY <1>1, <1>4
  <2> HIDE DEF old
  <2>6. (\A j \in DOMAIN tasks : Owned(tasks[j]))' BY <1>2, <2>1, <2>3 DEF Flight, Owned
  <2>7. (\A j \in DOMAIN results : Owned(results[j]))' BY <1>2, <2>1, <2>5 DEF Flight, Owned
  <2>8. \A j, l \in DOMAIN tasks' : j # l => tasks'[j].fd # tasks'[l].fd
    BY <2>1, <2>3, <2>4 DEF Flight
  <2>9. \A j, l \in DOMAIN results' : j # l => results'[j].fd # results'[l].fd
    BY <2>1, <2>5 DEF Flight
  <2>10. \A j \in DOMAIN tasks', l \in DOMAIN results' : tasks'[j].fd # results'[l].fd
    BY <2>1, <2>3, <2>5 DEF Flight
  <2> QED BY <2>6, <2>7, <2>8, <2>9, <2>10 DEF Flight
<1> QED BY <1>2, <1>5, <1>6, <1>7, ClientStep

----------------------------------------------------------------------------
(* The server thread                                                       *)

(* The entry under scan: the listener, or one open session.                *)
LEMMA ScanFacts ==
  ASSUME Ind, NEW event, Scanning(event)
  PROVE  /\ i \in 1..Len(pollfds) /\ Len(pollfds) \in Nat /\ pollfds # << >>
         /\ pc = "scan" /\ current_size <= Len(pollfds)
         /\ Entry \in PollEntry /\ Entry.revents = event
         /\ event = "out" => Entry.fd # Listener
         /\ Entry.fd # Listener =>
              /\ i \in 2..Len(pollfds) /\ Entry.fd \in DOMAIN sessions
              /\ Session \in ClientSession /\ Conn \in Conns /\ link[Conn] = "open"
<1>1. /\ i \in Nat \ {0} /\ current_size \in Nat /\ pollfds \in Seq(PollEntry)
      /\ Len(pollfds) \in Nat /\ DOMAIN pollfds = 1..Len(pollfds)
  BY DEF Ind, TypeOK
<1>2. pc = "scan" /\ i <= current_size /\ Entry.revents = event
  BY DEF Scanning
<1>3. pollfds # << >> /\ current_size <= Len(pollfds)
  BY <1>2 DEF Ind, PollMatchesSessions
<1>4. i \in 1..Len(pollfds) /\ Entry \in PollEntry
  BY <1>1, <1>2, <1>3 DEF Entry
<1>5. pollfds[1].fd = Listener BY <1>3 DEF Ind, PollMatchesSessions
<1>6. event = "out" => Entry.fd # Listener
  <2>1. event = "out" => Entry.fd \in DOMAIN sessions
    BY <1>1, <1>2, <1>4 DEF Ind, StrayHarmless, Entry
  <2> QED BY <2>1, ServerAssumption DEF Ind, TypeOK
<1>7. ASSUME Entry.fd # Listener
      PROVE  /\ i \in 2..Len(pollfds) /\ Entry.fd \in DOMAIN sessions
             /\ Session \in ClientSession /\ Conn \in Conns /\ link[Conn] = "open"
  <2>1. i \in 2..Len(pollfds) BY <1>4, <1>5, <1>7 DEF Entry
  <2>2. Entry.fd \in DOMAIN sessions BY <2>1 DEF Ind, PollMatchesSessions, Entry
  <2>3. Session \in ClientSession BY <2>2 DEF Ind, TypeOK, Session
  <2>4. Conn \in Conns /\ link[Conn] = "open"
    BY <2>2 DEF Ind, TypeOK, PollMatchesSessions, Conn
  <2> QED BY <2>1, <2>2, <2>3, <2>4
<1> QED BY <1>1, <1>2, <1>3, <1>4, <1>6, <1>7

(* Steps of the loop that touch no session.                                *)
LEMMA LoopStep ==
  ASSUME Ind, TypeOK', PollMatchesSessions', StrayHarmless',
         pollfds # << >> \/ pollfds' = pollfds,
         UNCHANGED <<sessions, table, link, inbuf, client, got, traced, queues>>
  PROVE  Ind'
<1> USE DEF client, queues
<1>1. TypeOK BY DEF Ind
<1>2. \A c \in Conns : Kept(c) BY <1>1, NothingRead DEF TypeOK
<1>3. FlightOK' BY DEF Ind, FlightOK, Flight, Owned
<1>4. SessionsOK'
  <2> SUFFICES ASSUME NEW fd \in DOMAIN sessions PROVE Cycle(fd)' /\ Framed(fd)'
    BY DEF SessionsOK
  <2>1. PICK c \in Conns : c = table[fd] BY DEF Ind, TypeOK, PollMatchesSessions
  <2> QED BY <1>2, <2>1, SessionKept
<1>5. CountsOK' BY <1>2, CountKept DEF CountsOK
<1> QED BY <1>3, <1>4, <1>5 DEF Ind

LEMMA TurnKeeps ==
  ASSUME Ind, pc = "scan", UNCHANGED current_size,
         \/ pc' = pc /\ i' = i + 1
         \/ pc' \in {"responses", "done", "killed"} /\ i' = i,
         UNCHANGED <<running, pollfds, sessions, table, link, inbuf, client, got, traced, queues>>
  PROVE  Ind'
<1> USE DEF client, queues
<1>1. /\ UNCHANGED <<running, pollfds, sessions, table, link, inbuf, client, got, traced, queues>>
      /\ UNCHANGED current_size
      /\ \/ pc = "scan" /\ pc' = pc /\ i' = i + 1
         \/ pc = "scan" /\ pc' \in {"responses", "done", "killed"} /\ i' = i
  OBVIOUS
<1>2. TypeOK /\ i \in Nat BY DEF Ind, TypeOK
<1>3. TypeOK' BY <1>1, <1>2 DEF TypeOK
<1>4. PollMatchesSessions' BY <1>1 DEF Ind, PollMatchesSessions
<1>5. StrayHarmless'
  <2> SUFFICES ASSUME pc' = "scan", NEW k \in DOMAIN pollfds, k >= i', pollfds[k].revents = "out"
               PROVE  /\ pollfds[k].fd \in DOMAIN sessions
                      /\ \/ sessions[pollfds[k].fd].state = "RESPONSE_SENDING"
                         \/ sessions[pollfds[k].fd].response = << >>
    BY <1>1 DEF StrayHarmless
  <2>1. k \in Nat /\ pc = "scan" /\ k >= i BY <1>1, <1>2 DEF TypeOK
  <2> QED BY <2>1 DEF Ind, StrayHarmless
<1> QED BY <1>1, <1>3, <1>4, <1>5, LoopStep

LEMMA SkipKeeps ==
  ASSUME Ind, SkipEntry \/ AcceptFails \/ EndScan \/ SigPipe
  PROVE  Ind'
BY TurnKeeps DEF SkipEntry, AcceptFails, EndScan, SigPipe, Scanning, NextEntry, LoopTop

LEMMA PollKeeps ==
  ASSUME Ind, NEW hup \in {"none", "hup"}, Poll(hup)
  PROVE  Ind'
<1> USE DEF client, queues
<1>1. /\ pollfds' = [k \in DOMAIN pollfds |->
                       [pollfds[k] EXCEPT !.revents = Ready(pollfds[k].fd, hup)]]
      /\ \/ pc' = "scan" /\ i' = 1 /\ current_size' = Len(pollfds)
         \/ pc' \in {"responses", "done"} /\ UNCHANGED <<i, current_size>>
      /\ UNCHANGED <<running, sessions, table, link, inbuf, client, got, traced, queues>>
  BY DEF Poll, LoopTop
<1>2. pollfds # << >> BY DEF Ind, PollMatchesSessions, Poll
<1>3. /\ TypeOK /\ pollfds \in Seq(PollEntry) /\ Len(pollfds) \in Nat
      /\ DOMAIN pollfds = 1..Len(pollfds)
  BY DEF Ind, TypeOK
<1>4. \A fd : /\ Ready(fd, hup) \in Stray \cup {"hup"}
              /\ Ready(fd, hup) = "out" =>
                   fd # Listener /\ sessions[fd].state = "RESPONSE_SENDING"
  BY DEF Ready, Stray
<1> HIDE DEF Ready
<1>5. \A k \in 1..Len(pollfds) : /\ pollfds'[k] \in PollEntry
                                 /\ pollfds'[k].fd = pollfds[k].fd
                                 /\ pollfds'[k].revents = Ready(pollfds[k].fd, hup)
  <2> SUFFICES ASSUME NEW k \in 1..Len(pollfds)
               PROVE  /\ pollfds'[k] \in PollEntry
                      /\ pollfds'[k].fd = pollfds[k].fd
                      /\ pollfds'[k].revents = Ready(pollfds[k].fd, hup)
    OBVIOUS
  <2>1. PICK r \in Stray \cup {"hup"} : r = Ready(pollfds[k].fd, hup) BY <1>4
  <2>2. pollfds[k] \in PollEntry BY <1>3
  <2>3. pollfds'[k] = [pollfds[k] EXCEPT !.revents = r] BY <1>1, <1>3, <2>1
  <2> QED BY <2>1, <2>2, <2>3 DEF PollEntry
<1>6. pollfds' \in Seq(PollEntry) /\ Len(pollfds') = Len(pollfds) /\ DOMAIN pollfds' = DOMAIN pollfds
  <2>1. pollfds' = [k \in 1..Len(pollfds) |-> pollfds'[k]] BY <1>1, <1>3
  <2> HIDE <1>1
  <2>2. pollfds' \in [1..Len(pollfds) -> PollEntry] BY <1>5, <2>1
  <2> QED BY <1>3, <2>2
<1> HIDE <1>1
<1>7. TypeOK' BY <1>1, <1>3, <1>6 DEF TypeOK
<1>8. PollMatchesSessions'
  <2>1. {pollfds'[k].fd : k \in 2..Len(pollfds')} = {pollfds[k].fd : k \in 2..Len(pollfds)}
    BY <1>3, <1>5, <1>6
  <2>2. pollfds' # << >> /\ 1 \in DOMAIN pollfds BY <1>2, <1>3, <1>6
  <2>3. \A j, k \in DOMAIN pollfds' : j # k => pollfds'[j].fd # pollfds'[k].fd
    BY <1>2, <1>3, <1>5, <1>6 DEF Ind, PollMatchesSessions
  <2>4. pollfds'[1].fd = Listener
    BY <1>2, <1>3, <1>5, <2>2 DEF Ind, PollMatchesSessions
  <2>5. pc' = "scan" => current_size' <= Len(pollfds')
    BY <1>1, <1>3, <1>6, <1>7 DEF TypeOK
  <2>6. PollMatchesSessions BY DEF Ind
  <2>7. UNCHANGED <<sessions, table, link>> BY <1>1
  <2> QED BY <2>1, <2>2, <2>3, <2>4, <2>5, <2>6, <2>7 DEF PollMatchesSessions
<1>9. StrayHarmless'
  <2> SUFFICES ASSUME NEW k \in DOMAIN pollfds', pollfds'[k].revents = "out"
               PROVE  /\ pollfds'[k].fd \in DOMAIN sessions
                      /\ sessions[pollfds'[k].fd].state = "RESPONSE_SENDING"
    BY <1>1 DEF StrayHarmless
  <2>1. /\ k \in 1..Len(pollfds) /\ pollfds[k].fd # Listener
        /\ sessions[pollfds[k].fd].state = "RESPONSE_SENDING"
    BY <1>3, <1>4, <1>5, <1>6
  <2>2. pollfds[1].fd = Listener BY <1>2 DEF Ind, PollMatchesSessions
  <2>3. k \in 2..Len(pollfds) BY <1>3, <2>1, <2>2
  <2>4. pollfds[k].fd \in DOMAIN sessions BY <2>3 DEF Ind, PollMatchesSessions
  <2> QED BY <1>5, <2>1, <2>4
<1> QED BY <1>1, <1>2, <1>7, <1>8, <1>9, LoopStep

(* A turn of the scan that changes the session of its entry.               *)
LEMMA UpdateStep ==
  ASSUME Ind, NEW event, Scanning(event), NEW fd, fd = Entry.fd, fd # Listener,
         NEW c, c = table[fd],
         NEW s \in ClientSession, sessions' = [sessions EXCEPT ![fd] = s],
         NextEntry \/ Throw,
         UNCHANGED <<running, pollfds, table, link, client, traced>>,
         inbuf' \in [Conns -> Nat], got' \in [Conns -> Seq(Contents)],
         tasks' \in Seq(Work), results' \in Seq(Work),
         \A d \in Conns \ {c} : Kept(d) /\ got'[d] = got[d],
         Cycle(fd)', Framed(fd)', Counted(c)',
         \A k \in DOMAIN got'[c] : got'[c][k] = <<c, k>>,
         FlightOK'
  PROVE  Ind'
<1> USE DEF client
<1>1. /\ TypeOK /\ i \in Nat /\ pc = "scan" /\ current_size <= Len(pollfds) /\ pollfds # << >>
      /\ fd \in DOMAIN sessions /\ c \in Conns /\ i \in 1..Len(pollfds) /\ DOMAIN pollfds = 1..Len(pollfds)
  <2>1. TypeOK BY DEF Ind
  <2>3. i \in Nat /\ pollfds \in Seq(PollEntry) BY <2>1 DEF TypeOK
  <2>4. DOMAIN pollfds = 1..Len(pollfds) BY <2>3
  <2>2. /\ pc = "scan" /\ current_size <= Len(pollfds) /\ pollfds # << >>
        /\ Entry.fd \in DOMAIN sessions /\ Conn \in Conns /\ i \in 1..Len(pollfds)
    BY ScanFacts
  <2> QED BY <2>1, <2>2, <2>3, <2>4 DEF Conn
<1>2. /\ DOMAIN sessions' = DOMAIN sessions /\ sessions'[fd] = s
      /\ \A g \in DOMAIN sessions : g # fd => sessions'[g] = sessions[g]
  BY <1>1
<1>3. /\ current_size' = current_size
      /\ \/ pc' = "scan" /\ i' = i + 1
         \/ pc' = "threw" /\ i' = i
  BY <1>1 DEF NextEntry, Throw
<1>4. TypeOK'
  <2>1. sessions' \in [DOMAIN sessions' -> ClientSession] BY <1>1 DEF TypeOK
  <2>2. i' \in Nat \ {0} /\ pc' \in {"responses", "scan", "done", "threw", "killed"}
    BY <1>1, <1>3
  <2>3. DOMAIN sessions' \subseteq Fds BY <1>1, <1>2 DEF TypeOK
  <2> QED BY <1>1, <1>3, <2>1, <2>2, <2>3 DEF TypeOK
<1>5. PollMatchesSessions'
  <2>1. PollMatchesSessions BY DEF Ind
  <2> QED BY <1>1, <1>2, <1>3, <2>1 DEF PollMatchesSessions
<1>6. StrayHarmless'
  <2> SUFFICES ASSUME pc' = "scan", NEW k \in DOMAIN pollfds, k >= i', pollfds[k].revents = "out"
               PROVE  /\ pollfds[k].fd \in DOMAIN sessions
                      /\ \/ sessions'[pollfds[k].fd].state = "RESPONSE_SENDING"
                         \/ sessions'[pollfds[k].fd].response = << >>
    BY <1>2 DEF StrayHarmless
  <2>1. k \in Nat /\ i' = i + 1 /\ k >= i /\ k # i BY <1>1, <1>3
  <2>2. pollfds[k].fd # fd BY <1>1, <2>1 DEF Ind, PollMatchesSessions, Entry
  <2> QED BY <1>1, <1>2, <2>1, <2>2 DEF Ind, StrayHarmless
<1>7. SessionsOK'
  <2> SUFFICES ASSUME NEW g \in DOMAIN sessions, g # fd PROVE Cycle(g)' /\ Framed(g)'
    BY <1>2 DEF SessionsOK
  <2>1. PICK d \in Conns : d = table[g] BY DEF Ind, TypeOK, PollMatchesSessions
  <2>2. d # c BY <1>1, <2>1 DEF Ind, PollMatchesSessions
  <2> QED BY <1>2, <2>1, <2>2, SessionKept
<1>8. CountsOK'
  <2> SUFFICES ASSUME NEW d \in Conns, d # c
               PROVE  Counted(d)' /\ \A k \in DOMAIN got'[d] : got'[d][k] = <<d, k>>
    BY DEF CountsOK
  <2> QED BY CountKept
<1> QED BY <1>4, <1>5, <1>6, <1>7, <1>8 DEF Ind

(* recv gives what has arrived, at most what was asked for.                *)
LEMMA RecvFacts ==
  ASSUME TypeOK, NEW c \in Conns, c = Conn, NEW wanted \in Nat,
         NEW r, r = Recv(wanted), wanted > 0
  PROVE  /\ r \in Nat \/ r = Again
         /\ r # 0 /\ r # Again => r \in 1..wanted /\ r <= inbuf[c]
BY DEF Recv, Again, TypeOK

(* Reading r bytes moves the server's position by r and nothing else.      *)
LEMMA Reading ==
  ASSUME TypeOK, NEW c \in Conns, c = Conn, NEW r \in Nat, r <= inbuf[c], r > 0,
         Consume(r), UNCHANGED client
  PROVE  /\ inbuf' \in [Conns -> Nat]
         /\ \A d \in Conns \ {c} : Kept(d)
         /\ sizes' = sizes /\ \A k : BytesOf(c, k)' = BytesOf(c, k)
         /\ Consumed(c) \in Int /\ Consumed(c)' = Consumed(c) + r
         /\ Consumed(c) + r <= BytesOf(c, Len(sizes[c]))
<1> USE DEF client
<1>1. inbuf[c] \in Nat /\ unsent[c] \in Nat /\ inbuf \in [Conns -> Nat] /\ inbuf[c] - r \in Nat
  BY DEF TypeOK
<1>2. inbuf' = [inbuf EXCEPT ![c] = inbuf[c] - r]
  BY DEF Consume
<1>3. inbuf' \in [Conns -> Nat] BY <1>1, <1>2
<1>4. \A d \in Conns \ {c} : Kept(d) BY <1>1, <1>2, NothingRead DEF TypeOK
<1>5. \A k : BytesOf(c, k)' = BytesOf(c, k) BY DEF BytesOf
<1>6. PICK m \in Nat : m = EndOf(sizes[c], Len(sizes[c])) BY StreamFacts DEF BytesOf
<1>7. Consumed(c) = m - unsent[c] - inbuf[c] BY <1>6 DEF Consumed, BytesOf
<1>8. Consumed(c)' = m - unsent[c] - (inbuf[c] - r)
  BY <1>1, <1>2, <1>6 DEF Consumed, BytesOf
<1>9. BytesOf(c, Len(sizes[c])) = m BY <1>6 DEF BytesOf
<1> QED BY <1>1, <1>3, <1>4, <1>5, <1>7, <1>8, <1>9

(* Framed in the next state, for a session whose connection, count and     *)
(* position are named.                                                     *)
LEMMA FramedNext ==
  ASSUME NEW fd, NEW c, NEW s, NEW n, NEW m, table'[fd] = c, sessions'[fd] = s,
         traced'[c] = n, Consumed(c)' = m,
         \/ s.state = "HEADER_PENDING" /\ m = EndOf(sizes'[c], n) + s.header
         \/ /\ s.state = "BODY_PENDING" /\ s.expected = sizes'[c][n + 1]
            /\ m = EndOf(sizes'[c], n) + HeaderBytes + s.received
         \/ s.state = "INFERENCE_PENDING" /\ m = EndOf(sizes'[c], n + 1)
         \/ s.state = "RESPONSE_SENDING" /\ m = EndOf(sizes'[c], n)
  PROVE  Framed(fd)'
<1>1. m = EndOf(sizes'[c], Len(sizes'[c])) - unsent'[c] - inbuf'[c]
  BY DEF Consumed, BytesOf
<1>2. CASE s.state = "HEADER_PENDING" BY <1>1, <1>2 DEF Framed, Consumed, BytesOf
<1>3. CASE s.state = "BODY_PENDING" BY <1>1, <1>3 DEF Framed, Consumed, BytesOf
<1>4. CASE s.state = "INFERENCE_PENDING" BY <1>1, <1>4 DEF Framed, Consumed, BytesOf
<1>5. CASE s.state = "RESPONSE_SENDING" BY <1>1, <1>5 DEF Framed, Consumed, BytesOf
<1> QED BY <1>2, <1>3, <1>4, <1>5

(* What is with the pool does not belong to a session that does not wait.  *)
LEMMA FlightUpdate ==
  ASSUME Ind, NEW fd, fd \in DOMAIN sessions => sessions[fd].state # "INFERENCE_PENDING",
         \A g \in DOMAIN sessions \ {fd} :
           g \in DOMAIN sessions' /\ sessions'[g] = sessions[g] /\ table'[g] = table[g],
         pollfds # << >>, UNCHANGED <<traced, tasks, results>>
  PROVE  Flight'
<1>1. Flight BY DEF Ind, FlightOK
<1>2. \A k \in DOMAIN tasks : tasks[k].fd \in DOMAIN sessions \ {fd}
  BY <1>1 DEF Flight, Owned
<1>3. \A k \in DOMAIN results : results[k].fd \in DOMAIN sessions \ {fd}
  BY <1>1 DEF Flight, Owned
<1>4. (\A k \in DOMAIN tasks : Owned(tasks[k]))' BY <1>1, <1>2 DEF Flight, Owned
<1>5. (\A k \in DOMAIN results : Owned(results[k]))' BY <1>1, <1>3 DEF Flight, Owned
<1> QED BY <1>1, <1>4, <1>5 DEF Flight

(* process_header: the bytes read are the next ones of the header, and a   *)
(* complete header announces the size of the request it belongs to.        *)
LEMMA HeaderKeeps ==
  ASSUME Ind, ProcessHeader
  PROVE  Ind'
<1>1. TypeOK BY DEF Ind
<1>2. Scanning("in") /\ Entry.fd # Listener /\ Session.state = "HEADER_PENDING"
  BY DEF ProcessHeader, Receiving
<1>3. PICK fd, c, s : fd = Entry.fd /\ c = Conn /\ s = Session OBVIOUS
<1>4. /\ fd \in DOMAIN sessions /\ c \in Conns /\ s \in ClientSession
      /\ c = table[fd] /\ s = sessions[fd] /\ pollfds # << >>
  BY <1>2, <1>3, ScanFacts DEF Conn, Session
<1>5. PICK n \in Nat : n = traced[c] BY <1>1, <1>4 DEF TypeOK
<1>6. /\ s.state = "HEADER_PENDING" /\ s.header \in Nat /\ s.header < HeaderBytes /\ s.received = 0
      /\ Consumed(c) = BytesOf(c, n) + s.header
      /\ n = Len(got[c]) /\ (s.response = << >> \/ s.sent = ResponseBytes)
      /\ n <= Len(sizes[c])
  <2>1. Cycle(fd) /\ Framed(fd) BY <1>4 DEF Ind, SessionsOK
  <2>2. s.header \in Nat BY <1>4, ServerAssumption DEF ClientSession
  <2>3. Counted(c) BY <1>4 DEF Ind, CountsOK
  <2> QED BY <1>2, <1>3, <1>4, <1>5, <2>1, <2>2, <2>3 DEF Cycle, Framed, Counted
<1>7. HeaderBytes \in Nat /\ HeaderBytes - s.header \in Nat /\ HeaderBytes - s.header > 0
  BY <1>6, ServerAssumption
<1>8. PICK r : /\ r = Recv(HeaderBytes - s.header) /\ r # 0 /\ r # Again /\ Consume(r)
               /\ \/ /\ s.header + r = HeaderBytes
                     /\ sessions' = [sessions EXCEPT ![fd] =
                          [s EXCEPT !.header = HeaderBytes, !.state = "BODY_PENDING",
                                    !.expected = HeaderAt(c, Consumed(c) + r)]]
                     /\ NextEntry \/ Throw
                  \/ /\ s.header + r # HeaderBytes
                     /\ sessions' = [sessions EXCEPT ![fd] = [s EXCEPT !.header = s.header + r]]
                     /\ NextEntry
  BY <1>3, Zenon DEF ProcessHeader, Update
<1>9. r \in 1..(HeaderBytes - s.header) /\ r <= inbuf[c]
  BY <1>1, <1>3, <1>4, <1>7, <1>8, RecvFacts
<1>10. UNCHANGED <<running, pollfds, table, link, client, got, traced, queues>>
  BY DEF ProcessHeader
<1>11. /\ inbuf' \in [Conns -> Nat] /\ \A d \in Conns \ {c} : Kept(d)
       /\ sizes' = sizes /\ Consumed(c)' = Consumed(c) + r
       /\ Consumed(c) + r <= BytesOf(c, Len(sizes[c]))
  <2>1. r \in Nat /\ r > 0 BY <1>7, <1>9
  <2> QED BY <1>1, <1>3, <1>4, <1>8, <1>9, <1>10, <2>1, Reading
<1>12. /\ BytesOf(c, n) \in Nat /\ Len(sizes[c]) \in Nat /\ n < Len(sizes[c])
  <2>1. BytesOf(c, n) \in Nat /\ Len(sizes[c]) \in Nat BY <1>1, <1>4, <1>6, StreamFacts
  <2>2. n # Len(sizes[c]) BY <1>6, <1>7, <1>9, <1>11, <2>1
  <2> QED BY <1>6, <2>1, <2>2
<1>13. TypeOK /\ got' = got /\ tasks' = tasks /\ results' = results
  BY <1>1, <1>10 DEF queues
<1>14. Counted(c)' /\ \A k \in DOMAIN got'[c] : got'[c][k] = <<c, k>>
  <2>1. link[c] = "open" BY <1>2, <1>3, ScanFacts
  <2> QED BY <1>4, <1>10, <1>11, <2>1 DEF Ind, CountsOK, Counted
<1>15. ASSUME NEW s2 \in ClientSession, sessions' = [sessions EXCEPT ![fd] = s2],
              NextEntry \/ Throw, Cycle(fd)', Framed(fd)'
       PROVE  Ind'
  <2>1. FlightOK'
    <3>1. \A g \in DOMAIN sessions \ {fd} :
            g \in DOMAIN sessions' /\ sessions'[g] = sessions[g] /\ table'[g] = table[g]
      BY <1>10, <1>15
    <3> QED BY <1>4, <1>6, <1>10, <1>13, <3>1, FlightUpdate DEF FlightOK
  <2>2. got \in [Conns -> Seq(Contents)] /\ tasks \in Seq(Work) /\ results \in Seq(Work)
    BY <1>1 DEF TypeOK
  <2> QED BY <1>2, <1>3, <1>4, <1>10, <1>11, <1>13, <1>14, <1>15, <2>1, <2>2, UpdateStep
<1>16. PICK m : m = Consumed(c) + r OBVIOUS
<1>17. CASE s.header + r = HeaderBytes
  <2> DEFINE s2 == [s EXCEPT !.header = HeaderBytes, !.state = "BODY_PENDING",
                             !.expected = sizes[c][n + 1]]
  <2>1. m = BytesOf(c, n) + HeaderBytes
    BY <1>6, <1>7, <1>9, <1>12, <1>16, <1>17, SMTT(30)
  <2>2. HeaderAt(c, Consumed(c) + r) = sizes[c][n + 1]
    <3>1. n + 1 \in 1..Len(sizes[c]) /\ (n + 1) - 1 = n BY <1>12
    <3>2. PICK k \in 1..Len(sizes[c]) : k = n + 1 /\ k - 1 = n BY <3>1
    <3>3. HeaderAt(c, BytesOf(c, k - 1) + HeaderBytes) = sizes[c][k]
      BY <1>4, <1>13, ReadsRight, Zenon
    <3> QED BY <1>16, <2>1, <3>2, <3>3, Zenon
  <2>3. sizes[c][n + 1] \in Sizes
    <3>1. sizes[c] \in Seq(Sizes) BY <1>1, <1>4 DEF TypeOK
    <3>2. n + 1 \in 1..Len(sizes[c]) BY <1>12
    <3> QED BY <3>1, <3>2
  <2>4. s2 \in ClientSession
    <3>1. HeaderBytes \in 0..HeaderBytes BY <1>7
    <3>2. "BODY_PENDING" \in States BY DEF States
    <3>3. sizes[c][n + 1] \in Sizes \cup {0} BY <2>3
    <3> QED BY <1>4, <3>1, <3>2, <3>3 DEF ClientSession
  <2>5. sessions' = [sessions EXCEPT ![fd] = s2] /\ (NextEntry \/ Throw)
    BY <1>8, <1>17, <2>2
  <2>6. /\ s2.state = "BODY_PENDING" /\ s2.received = 0 /\ s2.expected = sizes[c][n + 1]
        /\ s2.response = s.response /\ s2.sent = s.sent
    BY <1>4, <1>6 DEF ClientSession
  <2>7. sessions'[fd] = s2 /\ table'[fd] = c /\ traced'[c] = n /\ sizes'[c] = sizes[c] /\ got'[c] = got[c]
    BY <1>4, <1>5, <1>10, <1>11, <2>5
  <2> HIDE DEF s2
  <2>8. Cycle(fd)'
    <3>1. sizes[c][n + 1] \in Nat BY <2>3, ServerAssumption
    <3> QED BY <1>6, <1>12, <2>6, <2>7, <3>1 DEF Cycle
  <2>9. Framed(fd)'
    <3>1. m = EndOf(sizes'[c], n) + HeaderBytes + s2.received
      BY <1>7, <1>12, <2>1, <2>6, <2>7 DEF BytesOf
    <3> QED BY <1>11, <1>16, <2>6, <2>7, <3>1, FramedNext
  <2> QED BY <1>15, <2>4, <2>5, <2>8, <2>9
<1>18. CASE s.header + r # HeaderBytes
  <2> DEFINE s2 == [s EXCEPT !.header = s.header + r]
  <2>1. s.header + r \in 0..HeaderBytes /\ s.header + r < HeaderBytes
    BY <1>6, <1>7, <1>9, <1>18
  <2>2. s2 \in ClientSession BY <1>4, <2>1 DEF ClientSession
  <2>3. sessions' = [sessions EXCEPT ![fd] = s2] /\ NextEntry
    BY <1>8, <1>18
  <2>4. /\ s2.state = "HEADER_PENDING" /\ s2.received = 0 /\ s2.header = s.header + r
        /\ s2.response = s.response /\ s2.sent = s.sent
    BY <1>4, <1>6 DEF ClientSession
  <2>5. sessions'[fd] = s2 /\ table'[fd] = c /\ traced'[c] = n /\ sizes'[c] = sizes[c] /\ got'[c] = got[c]
    BY <1>4, <1>5, <1>10, <1>11, <2>3
  <2> HIDE DEF s2
  <2>6. Cycle(fd)' BY <1>6, <2>1, <2>4, <2>5 DEF Cycle
  <2>7. Framed(fd)'
    <3>1. m = EndOf(sizes'[c], n) + s2.header
      BY <1>6, <1>7, <1>9, <1>12, <1>16, <2>4, <2>5 DEF BytesOf
    <3> QED BY <1>11, <1>16, <2>4, <2>5, <3>1, FramedNext
  <2> QED BY <1>15, <2>2, <2>3, <2>6, <2>7
<1> QED BY <1>17, <1>18

(* finalize_request gives the pool the first request of its session.       *)
LEMMA FlightAppend ==
  ASSUME Ind, NEW fd \in DOMAIN sessions, sessions[fd].state # "INFERENCE_PENDING",
         NEW x \in Work, x.fd = fd, x.data = <<table[fd], traced[table[fd]] + 1>>,
         DOMAIN sessions' = DOMAIN sessions, sessions'[fd].state = "INFERENCE_PENDING",
         \A g \in DOMAIN sessions \ {fd} : sessions'[g] = sessions[g],
         pollfds # << >>, tasks' = Append(tasks, x), UNCHANGED <<table, traced, results>>
  PROVE  Flight'
<1>1. /\ Flight /\ tasks \in Seq(Work) /\ Len(tasks) \in Nat /\ DOMAIN tasks = 1..Len(tasks)
  BY DEF Ind, FlightOK, TypeOK
<1>2. /\ DOMAIN tasks' = 1..(Len(tasks) + 1) /\ tasks'[Len(tasks) + 1] = x
      /\ \A k \in DOMAIN tasks : tasks'[k] = tasks[k]
  BY <1>1
<1>3. \A k \in DOMAIN tasks' : \/ k \in DOMAIN tasks /\ tasks'[k] = tasks[k]
                               \/ k = Len(tasks) + 1 /\ tasks'[k] = x
  BY <1>1, <1>2
<1>4. \A k \in DOMAIN tasks : tasks[k].fd \in DOMAIN sessions \ {fd}
  BY <1>1 DEF Flight, Owned
<1>5. \A k \in DOMAIN results : results[k].fd \in DOMAIN sessions \ {fd}
  BY <1>1 DEF Flight, Owned
<1>6. (\A k \in DOMAIN tasks : Owned(tasks[k]))'
  <2> SUFFICES ASSUME NEW k \in DOMAIN tasks' PROVE Owned(tasks[k])'
    OBVIOUS
  <2>1. CASE k \in DOMAIN tasks /\ tasks'[k] = tasks[k]
    BY <1>1, <1>4, <2>1 DEF Flight, Owned
  <2>2. CASE tasks'[k] = x
    BY <2>2 DEF Owned
  <2> QED BY <1>3, <2>1, <2>2
<1>7. (\A k \in DOMAIN results : Owned(results[k]))' BY <1>1, <1>5 DEF Flight, Owned
<1>8. \A j, k \in DOMAIN tasks' : j # k => tasks'[j].fd # tasks'[k].fd
  BY <1>1, <1>3, <1>4 DEF Flight
<1>9. \A j \in DOMAIN tasks', k \in DOMAIN results' : tasks'[j].fd # results'[k].fd
  BY <1>1, <1>3, <1>5 DEF Flight
<1> QED BY <1>1, <1>6, <1>7, <1>8, <1>9 DEF Flight

(* process_body: a complete body is that of the request after the last one *)
(* answered, and goes to the pool.                                         *)
LEMMA BodyKeeps ==
  ASSUME Ind, ProcessBody
  PROVE  Ind'
<1>1. TypeOK BY DEF Ind
<1>2. /\ Scanning("in") /\ Entry.fd # Listener
      /\ Session.state = "BODY_PENDING" /\ Session.expected > 0
  BY DEF ProcessBody, Receiving
<1>3. PICK fd, c, s : fd = Entry.fd /\ c = Conn /\ s = Session OBVIOUS
<1>4. /\ fd \in DOMAIN sessions /\ c \in Conns /\ s \in ClientSession
      /\ c = table[fd] /\ s = sessions[fd] /\ pollfds # << >> /\ link[c] = "open"
  BY <1>2, <1>3, ScanFacts DEF Conn, Session
<1>5. PICK n \in Nat : n = traced[c] BY <1>1, <1>4 DEF TypeOK
<1>6. /\ s.state = "BODY_PENDING" /\ s.received \in Nat /\ s.expected \in Nat
      /\ s.expected > 0 /\ s.received < s.expected
      /\ Consumed(c) = BytesOf(c, n) + HeaderBytes + s.received
      /\ n = Len(got[c]) /\ (s.response = << >> \/ s.sent = ResponseBytes)
      /\ Len(sizes[c]) \in Nat /\ n < Len(sizes[c]) /\ s.expected = sizes[c][n + 1]
  <2>1. Cycle(fd) /\ Framed(fd) BY <1>4 DEF Ind, SessionsOK
  <2>2. s.received \in Nat /\ s.expected \in Sizes \cup {0} BY <1>4 DEF ClientSession
  <2>3. s.expected \in Nat
    <3>1. CASE s.expected = 0 BY <3>1
    <3>2. CASE s.expected \in Sizes BY <3>2, ServerAssumption
    <3> QED BY <2>2, <3>1, <3>2
  <2>4. Len(sizes[c]) \in Nat BY <1>1, <1>4 DEF TypeOK
  <2>5. s.state = "BODY_PENDING" /\ s.expected > 0 BY <1>2, <1>3
  <2>6. /\ s.received < s.expected \/ s.expected = 0
        /\ n < Len(sizes[c]) /\ n = Len(got[c])
        /\ s.response = << >> \/ s.sent = ResponseBytes
    BY <1>4, <1>5, <2>1, <2>5 DEF Cycle
  <2>7. s.expected = sizes[c][n + 1] /\ Consumed(c) = BytesOf(c, n) + HeaderBytes + s.received
    BY <1>4, <1>5, <2>1, <2>5 DEF Framed
  <2> QED BY <2>2, <2>3, <2>4, <2>5, <2>6, <2>7
<1>7. /\ HeaderBytes \in Nat /\ s.expected - s.received \in Nat /\ s.expected - s.received > 0
      /\ BytesOf(c, n) \in Nat /\ BytesOf(c, n + 1) = BytesOf(c, n) + HeaderBytes + s.expected
  <2>1. n \in 0..Len(sizes[c]) /\ n + 1 \in 1..Len(sizes[c]) /\ (n + 1) - 1 = n BY <1>6
  <2>2. BytesOf(c, n) \in Nat /\ BytesOf(c, n + 1) = BytesOf(c, n) + HeaderBytes + s.expected
    BY <1>1, <1>4, <1>6, <2>1, StreamFacts
  <2> QED BY <1>6, <2>2, ServerAssumption, SMTT(30)
<1> DEFINE now(r) == IF r = Again THEN s.received ELSE s.received + r
<1>8. PICK r : /\ r = Recv(s.expected - s.received) /\ r # 0 /\ Consume(r)
               /\ \/ /\ now(r) = s.expected
                     /\ sessions' = [sessions EXCEPT ![fd] =
                          [s EXCEPT !.received = now(r), !.state = "INFERENCE_PENDING"]]
                     /\ \/ tasks' = Append(tasks, [fd |-> fd, data |-> BodyAt(c, Consumed(c) + r)])
                        \/ tasks' = tasks
                  \/ /\ now(r) # s.expected /\ tasks' = tasks
                     /\ sessions' = [sessions EXCEPT ![fd] = [s EXCEPT !.received = now(r)]]
  <2> DEFINE got_now(r) == IF r = Again THEN Session.received ELSE Session.received + r
  <2>1. PICK r \in {Recv(Session.expected - Session.received)} \ {0} :
          /\ Consume(r)
          /\ IF got_now(r) = Session.expected
             THEN /\ Update([Session EXCEPT !.received = got_now(r), !.state = "INFERENCE_PENDING"])
                  /\ \E pushed \in PushResults :
                       tasks' = IF pushed
                                THEN Append(tasks, [fd |-> Entry.fd,
                                                    data |-> BodyAt(Conn, Consumed(Conn) + r)])
                                ELSE tasks
             ELSE /\ Update([Session EXCEPT !.received = got_now(r)])
                  /\ UNCHANGED tasks
    BY Zenon DEF ProcessBody
  <2>2. now(r) = got_now(r) BY <1>3
  <2> HIDE DEF now, got_now
  <2>3. CASE now(r) = s.expected BY <1>3, <2>1, <2>2, <2>3 DEF Update
  <2>4. CASE now(r) # s.expected BY <1>3, <2>1, <2>2, <2>4 DEF Update
  <2> QED BY <2>3, <2>4
<1>9. /\ UNCHANGED <<running, pollfds, table, link, client, got, traced, results>> /\ NextEntry
  BY DEF ProcessBody
<1>10. PICK got_n \in Nat : got_n = now(r) /\ got_n <= s.expected /\ got_n >= s.received
  <2>1. CASE r = Again BY <1>6, <2>1
  <2>2. CASE r # Again
    <3>1. PICK wanted \in Nat : wanted = s.expected - s.received /\ wanted > 0 BY <1>7
    <3>2. r = Recv(wanted) /\ r # 0 BY <1>8, <3>1
    <3>3. r \in 1..wanted BY <1>1, <1>3, <1>4, <2>2, <3>1, <3>2, RecvFacts
    <3>4. s.received + r \in Nat /\ s.received + r <= s.expected /\ s.received + r >= s.received
      BY <1>6, <3>1, <3>3
    <3> QED BY <2>2, <3>4
  <2> QED BY <2>1, <2>2
<1>11. /\ inbuf' \in [Conns -> Nat] /\ \A d \in Conns \ {c} : Kept(d)
       /\ sizes' = sizes /\ Consumed(c)' = BytesOf(c, n) + HeaderBytes + got_n
       /\ r # Again => Consumed(c) + r = BytesOf(c, n) + HeaderBytes + got_n
  <2>1. CASE r = Again
    <3>1. inbuf' = inbuf
      <4>1. ~(r > 0) BY <2>1 DEF Again
      <4>2. inbuf' = [inbuf EXCEPT ![Conn] = @] BY <1>8, <4>1 DEF Consume
      <4> QED BY <1>1, <1>3, <1>4, <4>2 DEF TypeOK
    <3>2. \A d \in Conns : Kept(d)
      BY <1>1, <1>9, <3>1, NothingRead DEF TypeOK, client
    <3>3. Consumed(c)' = Consumed(c) BY <1>4, <3>2 DEF Kept
    <3> QED BY <1>1, <1>6, <1>9, <1>10, <2>1, <3>1, <3>2, <3>3 DEF TypeOK, client
  <2>2. CASE r # Again
    <3>1. r \in 1..(s.expected - s.received) /\ r <= inbuf[c]
      BY <1>1, <1>3, <1>4, <1>7, <1>8, <2>2, RecvFacts
    <3>2. r \in Nat /\ r > 0 BY <1>7, <3>1
    <3>3. /\ inbuf' \in [Conns -> Nat] /\ \A d \in Conns \ {c} : Kept(d)
          /\ sizes' = sizes /\ Consumed(c)' = Consumed(c) + r
      BY <1>1, <1>3, <1>4, <1>8, <1>9, <3>1, <3>2, Reading
    <3>4. Consumed(c) + r = BytesOf(c, n) + HeaderBytes + got_n
      BY <1>6, <1>7, <1>10, <2>2, <3>2
    <3> QED BY <3>3, <3>4
  <2> QED BY <2>1, <2>2
<1>12. Counted(c)' /\ \A k \in DOMAIN got'[c] : got'[c][k] = <<c, k>>
  BY <1>4, <1>9, <1>11 DEF Ind, CountsOK, Counted
<1>13. /\ table'[fd] = c /\ traced'[c] = n /\ sizes'[c] = sizes[c] /\ got'[c] = got[c]
       /\ results' = results /\ got' = got /\ pollfds' = pollfds
  BY <1>4, <1>5, <1>9, <1>11
<1>14. got \in [Conns -> Seq(Contents)] /\ tasks \in Seq(Work) /\ results \in Seq(Work)
  BY <1>1 DEF TypeOK
<1>15. ASSUME NEW s2 \in ClientSession, sessions' = [sessions EXCEPT ![fd] = s2],
              Cycle(fd)', Framed(fd)', tasks' \in Seq(Work), FlightOK'
       PROVE  Ind'
  BY <1>2, <1>3, <1>4, <1>9, <1>11, <1>12, <1>13, <1>14, <1>15, UpdateStep
<1>16. CASE got_n = s.expected
  <2> DEFINE s2 == [s EXCEPT !.received = got_n, !.state = "INFERENCE_PENDING"]
  <2>1. sessions' = [sessions EXCEPT ![fd] = s2] BY <1>8, <1>10, <1>16
  <2>2. s2 \in ClientSession BY <1>4 DEF ClientSession, States
  <2>3. s2.state = "INFERENCE_PENDING" /\ s2.response = s.response /\ s2.sent = s.sent
    BY <1>4 DEF ClientSession
  <2>4. /\ sessions'[fd] = s2 /\ DOMAIN sessions' = DOMAIN sessions
        /\ \A g \in DOMAIN sessions \ {fd} : sessions'[g] = sessions[g]
    BY <1>4, <2>1
  <2> HIDE DEF s2
  <2>5. Cycle(fd)' BY <1>6, <1>13, <2>3, <2>4 DEF Cycle
  <2>6. Framed(fd)'
    <3>1. PICK m : m = BytesOf(c, n) + HeaderBytes + got_n OBVIOUS
    <3>2. m = EndOf(sizes'[c], n + 1) BY <1>7, <1>13, <1>16, <3>1 DEF BytesOf
    <3>3. Consumed(c)' = m BY <1>11, <3>1
    <3> QED BY <1>13, <2>3, <2>4, <3>2, <3>3, FramedNext
  <2>7. CASE tasks' = tasks
    <3>1. Flight' BY <1>4, <1>6, <1>9, <1>13, <2>4, <2>7, FlightUpdate
    <3> QED BY <1>14, <1>15, <2>1, <2>2, <2>5, <2>6, <2>7, <3>1 DEF FlightOK
  <2>8. CASE tasks' = Append(tasks, [fd |-> fd, data |-> BodyAt(c, Consumed(c) + r)])
    <3>1. r # Again BY <1>6, <1>8, <1>10, <1>16
    <3>2. Consumed(c) + r = BytesOf(c, n + 1) BY <1>7, <1>11, <1>16, <3>1
    <3>3. BodyAt(c, Consumed(c) + r) = <<c, n + 1>>
      <4>1. n + 1 \in 1..Len(sizes[c]) BY <1>6
      <4> QED BY <1>1, <1>4, <3>2, <4>1, ReadsRight
    <3>4. PICK x : x = [fd |-> fd, data |-> <<c, n + 1>>] OBVIOUS
    <3>5. x \in Work /\ x.fd = fd /\ x.data = <<c, n + 1>>
      <4>1. fd \in Fds BY <1>1, <1>4 DEF TypeOK
      <4>2. <<c, n + 1>> \in Contents BY <1>4 DEF Contents
      <4> QED BY <3>4, <4>1, <4>2 DEF Work
    <3>6. tasks' = Append(tasks, x) BY <2>8, <3>3, <3>4
    <3>7. Flight' BY <1>4, <1>5, <1>6, <1>9, <2>3, <2>4, <3>5, <3>6, FlightAppend
    <3>8. tasks' \in Seq(Work) BY <1>14, <3>5, <3>6
    <3> QED BY <1>15, <2>1, <2>2, <2>5, <2>6, <3>7, <3>8 DEF FlightOK
  <2> QED BY <1>8, <1>10, <1>16, <2>7, <2>8
<1>17. CASE got_n # s.expected
  <2> DEFINE s2 == [s EXCEPT !.received = got_n]
  <2>1. sessions' = [sessions EXCEPT ![fd] = s2] /\ tasks' = tasks BY <1>8, <1>10, <1>17
  <2>2. s2 \in ClientSession BY <1>4 DEF ClientSession
  <2>3. /\ s2.state = "BODY_PENDING" /\ s2.response = s.response /\ s2.sent = s.sent
        /\ s2.received = got_n /\ s2.expected = s.expected
    BY <1>4, <1>6 DEF ClientSession
  <2>4. /\ sessions'[fd] = s2 /\ DOMAIN sessions' = DOMAIN sessions
        /\ \A g \in DOMAIN sessions \ {fd} : sessions'[g] = sessions[g]
    BY <1>4, <2>1
  <2> HIDE DEF s2
  <2>5. Cycle(fd)' BY <1>6, <1>10, <1>13, <1>17, <2>3, <2>4 DEF Cycle
  <2>6. Framed(fd)'
    <3>1. PICK m : m = BytesOf(c, n) + HeaderBytes + got_n OBVIOUS
    <3>2. m = EndOf(sizes'[c], n) + HeaderBytes + s2.received
      BY <1>13, <2>3, <3>1 DEF BytesOf
    <3>3. Consumed(c)' = m BY <1>11, <3>1
    <3>4. s2.expected = sizes'[c][n + 1] BY <1>6, <1>13, <2>3
    <3> QED BY <1>13, <2>3, <2>4, <3>2, <3>3, <3>4, FramedNext
  <2>7. Flight' BY <1>4, <1>6, <1>9, <1>13, <2>1, <2>4, FlightUpdate
  <2> QED BY <1>14, <1>15, <2>1, <2>2, <2>5, <2>6, <2>7 DEF FlightOK
<1> QED BY <1>16, <1>17

(* process_response: the last byte of a response completes the answer to   *)
(* the request that was read, and the session starts over.                 *)
LEMMA SendKeeps ==
  ASSUME Ind, NEW n \in 0..ResponseBytes, Send(n)
  PROVE  Ind'
<1>1. TypeOK BY DEF Ind
<1>2. Scanning("out") BY DEF Send
<1>3. PICK fd, c, s : fd = Entry.fd /\ c = Conn /\ s = Session OBVIOUS
<1>4. /\ fd \in DOMAIN sessions /\ c \in Conns /\ s \in ClientSession /\ fd # Listener
      /\ c = table[fd] /\ s = sessions[fd] /\ pollfds # << >> /\ link[c] = "open"
      /\ i \in 1..Len(pollfds) /\ pc = "scan"
  BY <1>2, <1>3, ScanFacts DEF Conn, Session
<1>5. s.state = "RESPONSE_SENDING" \/ s.response = << >>
  <2>1. /\ i \in DOMAIN pollfds /\ i >= i /\ pollfds[i].revents = "out" /\ pc = "scan"
    BY <1>1, <1>2, <1>4 DEF Scanning, Entry, TypeOK
  <2> QED BY <1>3, <2>1 DEF Ind, StrayHarmless, Entry, Session
<1>6. /\ n \in IF s.response = << >> THEN {0} ELSE 0..(ResponseBytes - s.sent)
      /\ IF n > 0 /\ s.sent + n = ResponseBytes
         THEN /\ sessions' = [sessions EXCEPT ![fd] =
                   [NewSession EXCEPT !.response = s.response, !.sent = ResponseBytes]]
              /\ got' = [got EXCEPT ![c] = Append(@, s.response)]
         ELSE /\ sessions' = [sessions EXCEPT ![fd] = [s EXCEPT !.sent = s.sent + n]]
              /\ UNCHANGED got
  BY <1>3, Zenon DEF Send, Update
<1>7. NextEntry /\ UNCHANGED <<running, pollfds, table, link, inbuf, client, traced, queues>>
  BY DEF Send
<1>8. /\ s.sent \in Nat /\ s.sent <= ResponseBytes /\ n \in Nat /\ ResponseBytes \in Nat /\ ResponseBytes > 0
  <2>1. ResponseBytes \in Nat /\ ResponseBytes > 0 BY ServerAssumption
  <2>2. s.sent \in 0..ResponseBytes BY <1>4 DEF ClientSession
  <2> QED BY <2>1, <2>2
<1>9. CASE s.state # "RESPONSE_SENDING"
  <2>1. n = 0 BY <1>5, <1>6, <1>9
  <2>2. sessions' = [sessions EXCEPT ![fd] = [s EXCEPT !.sent = s.sent + n]] /\ UNCHANGED got
    BY <1>6, <2>1
  <2>3. [s EXCEPT !.sent = s.sent + n] = s
    <3>1. s.sent + n = s.sent BY <1>8, <2>1
    <3> QED BY <1>4, <3>1 DEF ClientSession
  <2>4. sessions' = sessions
    BY <1>1, <1>4, <2>2, <2>3 DEF TypeOK
  <2> QED BY <1>4, <1>7, <2>2, <2>4, TurnKeeps DEF NextEntry
<1>10. CASE s.state = "RESPONSE_SENDING"
  <2>1. PICK t \in Nat : t = traced[c] BY <1>1, <1>4 DEF TypeOK
  <2>2. Cycle(fd) /\ Framed(fd) BY <1>4 DEF Ind, SessionsOK
  <2>3. s.response = <<c, t>> /\ s.sent < ResponseBytes /\ t = Len(got[c]) + 1
    BY <1>4, <1>10, <2>1, <2>2 DEF Cycle
  <2>4. PICK m : m = EndOf(sizes[c], t) OBVIOUS
  <2>5. Consumed(c) = m
    BY <1>4, <1>10, <2>1, <2>2, <2>4 DEF Framed, BytesOf
  <2>6. \A d \in Conns : Kept(d)
    BY <1>1, <1>7, NothingRead DEF TypeOK, client
  <2>7. Consumed(c)' = m BY <1>4, <2>5, <2>6 DEF Kept
  <2>8. /\ inbuf' \in [Conns -> Nat] /\ tasks' \in Seq(Work) /\ results' \in Seq(Work)
        /\ got \in [Conns -> Seq(Contents)] /\ Len(got[c]) \in Nat
    BY <1>1, <1>4, <1>7 DEF TypeOK, queues
  <2>9. traced'[c] = t /\ table'[fd] = c /\ sizes'[c] = sizes[c] /\ pollfds' = pollfds
    BY <1>4, <1>7, <2>1 DEF client
  <2>10. ASSUME NEW s2, sessions' = [sessions EXCEPT ![fd] = s2] PROVE FlightOK'
    <3>1. \A g \in DOMAIN sessions \ {fd} :
            g \in DOMAIN sessions' /\ sessions'[g] = sessions[g] /\ table'[g] = table[g]
      BY <1>7, <2>10
    <3>2. Flight' BY <1>4, <1>7, <1>10, <3>1, FlightUpdate DEF queues
    <3> QED BY <3>2 DEF FlightOK
  <2>11. CASE n > 0 /\ s.sent + n = ResponseBytes
    <3> DEFINE s2 == [NewSession EXCEPT !.response = s.response, !.sent = ResponseBytes]
    <3>1. /\ s2.state = "HEADER_PENDING" /\ s2.header = 0 /\ s2.received = 0
          /\ s2.response = s.response /\ s2.sent = ResponseBytes /\ s2.expected = 0
      BY DEF NewSession
    <3>2. s2 \in ClientSession
      <4>1. s.response \in Contents \cup {<< >>} BY <1>4 DEF ClientSession
      <4>2. 0 \in 0..HeaderBytes /\ ResponseBytes \in 0..ResponseBytes
        BY <1>8, ServerAssumption
      <4>3. "HEADER_PENDING" \in States BY DEF States
      <4> QED BY <4>1, <4>2, <4>3 DEF NewSession, ClientSession
    <3>3. /\ sessions' = [sessions EXCEPT ![fd] = s2]
          /\ got' = [got EXCEPT ![c] = Append(@, s.response)]
      BY <1>6, <2>11
    <3> HIDE DEF s2
    <3>4. sessions'[fd] = s2 BY <1>4, <3>3
    <3>5. <<c, t>> \in Contents BY <1>4 DEF Contents
    <3>6. got' \in [Conns -> Seq(Contents)] /\ \A d \in Conns \ {c} : got'[d] = got[d]
      <4>1. got[c] \in Seq(Contents) BY <1>4, <2>8
      <4>2. PICK a \in Seq(Contents) : a = Append(got[c], s.response)
        <5>1. Append(got[c], <<c, t>>) \in Seq(Contents) BY <3>5, <4>1
        <5> QED BY <2>3, <5>1
      <4>3. got' = [got EXCEPT ![c] = a] BY <3>3, <4>2
      <4> QED BY <2>8, <4>2, <4>3
    <3>7. got'[c] = Append(got[c], <<c, t>>) BY <1>4, <2>3, <2>8, <3>3
    <3>8. /\ Len(got'[c]) = t /\ DOMAIN got'[c] = 1..t
          /\ \A k \in 1..t : got'[c][k] = IF k = t THEN <<c, t>> ELSE got[c][k]
      <4>1. got[c] \in Seq(Contents) BY <1>4, <2>8
      <4> QED BY <2>3, <2>8, <3>7, <4>1
    <3>9. Cycle(fd)'
      <4>1. 0 < HeaderBytes BY ServerAssumption
      <4> QED BY <2>9, <3>1, <3>4, <3>8, <4>1 DEF Cycle
    <3>10. Framed(fd)'
      <4>1. m = EndOf(sizes'[c], t) + s2.header
        <5>1. Counted(c) BY <1>4 DEF Ind, CountsOK
        <5>2. t \in 0..Len(sizes[c]) BY <1>1, <1>4, <2>1, <5>1 DEF Counted, TypeOK
        <5>3. BytesOf(c, t) \in Nat BY <1>1, <1>4, <5>2, StreamFacts
        <5>4. m \in Nat BY <2>4, <5>3 DEF BytesOf
        <5> QED BY <2>4, <2>9, <3>1, <5>4
      <4> QED BY <2>7, <2>9, <3>1, <3>4, <4>1, FramedNext
    <3>11. Counted(c)'
      <4>1. Counted(c) BY <1>4 DEF Ind, CountsOK
      <4>2. link'[c] = "open" BY <1>4, <1>7
      <4>3. t <= Len(sizes[c]) BY <2>1, <4>1 DEF Counted
      <4> QED BY <2>9, <3>8, <4>2, <4>3 DEF Counted
    <3>12. \A k \in DOMAIN got'[c] : got'[c][k] = <<c, k>>
      <4>1. \A k \in DOMAIN got[c] : got[c][k] = <<c, k>> BY <1>4 DEF Ind, CountsOK
      <4>2. DOMAIN got[c] = 1..(t - 1) BY <1>4, <2>3, <2>8
      <4> QED BY <3>8, <4>1, <4>2
    <3>13. FlightOK' BY <2>10, <3>3
    <3> QED BY <1>2, <1>3, <1>4, <1>7, <2>6, <2>8, <3>2, <3>3, <3>6, <3>9, <3>10, <3>11, <3>12,
               <3>13, UpdateStep
  <2>12. CASE ~(n > 0 /\ s.sent + n = ResponseBytes)
    <3> DEFINE s2 == [s EXCEPT !.sent = s.sent + n]
    <3>1. s.sent + n \in 0..ResponseBytes /\ s.sent + n < ResponseBytes
      <4>1. n = 0 \/ n \in 0..(ResponseBytes - s.sent)
        <5>1. CASE s.response = << >> BY <1>6, <5>1
        <5>2. CASE s.response # << >> BY <1>6, <5>2
        <5> QED BY <5>1, <5>2
      <4> QED BY <1>8, <2>3, <2>12, <4>1
    <3>2. s2 \in ClientSession BY <1>4, <3>1 DEF ClientSession
    <3>3. s2.state = "RESPONSE_SENDING" /\ s2.response = s.response /\ s2.sent = s.sent + n
      BY <1>4, <1>10 DEF ClientSession
    <3>4. sessions' = [sessions EXCEPT ![fd] = s2] /\ got' = got BY <1>6, <2>12
    <3> HIDE DEF s2
    <3>5. sessions'[fd] = s2 BY <1>4, <3>4
    <3>6. Cycle(fd)' BY <2>3, <2>9, <3>1, <3>3, <3>4, <3>5 DEF Cycle
    <3>7. Framed(fd)' BY <2>4, <2>7, <2>9, <3>3, <3>5, FramedNext
    <3>8. Counted(c)' /\ \A k \in DOMAIN got'[c] : got'[c][k] = <<c, k>>
      <4>1. link'[c] = "open" BY <1>4, <1>7
      <4>2. traced'[c] = traced[c] /\ got'[c] = got[c] BY <1>7, <3>4
      <4> QED BY <1>4, <2>6, <4>1, <4>2, CountKept
    <3>9. FlightOK' BY <2>10, <3>4
    <3> QED BY <1>2, <1>3, <1>4, <1>7, <2>6, <2>8, <3>2, <3>4, <3>6, <3>7, <3>8,
               <3>9, UpdateStep
  <2> QED BY <2>11, <2>12
<1> QED BY <1>9, <1>10

(* close_connection, on a session that has nothing with the pool.          *)
LEMMA CloseKeeps ==
  ASSUME Ind, NEW event, Scanning(event), Entry.fd # Listener,
         Session.state # "INFERENCE_PENDING", CloseEntry
  PROVE  Ind'
<1>1. TypeOK /\ PollMatchesSessions BY DEF Ind
<1>2. PICK fd, c : fd = Entry.fd /\ c = Conn OBVIOUS
<1>3. /\ fd \in DOMAIN sessions /\ c \in Conns /\ c = table[fd] /\ pollfds # << >>
      /\ pc = "scan" /\ current_size <= Len(pollfds) /\ fd = pollfds[i].fd
      /\ sessions[fd].state # "INFERENCE_PENDING"
  BY <1>2, ScanFacts DEF Conn, Session, Entry
<1>4. PICK n \in Nat : n = Len(pollfds)
  <2>1. pollfds \in Seq(PollEntry) BY <1>1 DEF TypeOK
  <2> QED BY <2>1
<1>5. /\ i \in 2..n /\ pollfds \in Seq(PollEntry) /\ DOMAIN pollfds = 1..n
      /\ current_size \in Nat /\ i <= current_size
  <2>1. i \in 2..Len(pollfds) /\ i <= current_size BY ScanFacts DEF Scanning
  <2>2. pollfds \in Seq(PollEntry) /\ current_size \in Nat BY <1>1 DEF TypeOK
  <2> QED BY <1>4, <2>1, <2>2
<1>6. /\ pollfds' = Front([pollfds EXCEPT ![i] = Last(pollfds)])
      /\ current_size' = current_size - 1
      /\ sessions' = [f \in DOMAIN sessions \ {fd} |-> sessions[f]]
      /\ table' = [f \in DOMAIN table \ {fd} |-> table[f]]
      /\ link' = [link EXCEPT ![c] = "closed"]
      /\ UNCHANGED <<running, pc, i, inbuf, client, got, traced, queues>>
  BY <1>2 DEF CloseEntry
<1>7. /\ pollfds' \in Seq(PollEntry) /\ Len(pollfds') = n - 1
      /\ \A j \in 1..(n - 1) : pollfds'[j] = IF j = i THEN pollfds[n] ELSE pollfds[j]
  <2>1. i \in 1..Len(pollfds) BY <1>4, <1>5
  <2> QED BY <1>4, <1>5, <1>6, <2>1, SwapFacts, ZenonT(30)
<1>8. /\ current_size' = current_size - 1 /\ UNCHANGED <<running, pc, i, inbuf, client, got, traced, queues>>
      /\ DOMAIN sessions' = DOMAIN sessions \ {fd} /\ DOMAIN table' = DOMAIN table \ {fd}
      /\ \A g \in DOMAIN sessions \ {fd} : sessions'[g] = sessions[g]
      /\ \A g \in DOMAIN table \ {fd} : table'[g] = table[g]
      /\ \A d \in Conns : link'[d] = IF d = c THEN "closed" ELSE link[d]
  BY <1>1, <1>6 DEF TypeOK
<1>9. DOMAIN pollfds' = 1..(n - 1) /\ n - 1 \in Nat /\ n >= 2 /\ n \in 1..n BY <1>4, <1>5, <1>7
<1>10. TypeOK'
  <2>1. current_size' \in Nat BY <1>5, <1>8
  <2>2. DOMAIN sessions' \subseteq Fds /\ sessions' \in [DOMAIN sessions' -> ClientSession]
    BY <1>1, <1>6 DEF TypeOK
  <2>3. DOMAIN table' \subseteq Fds /\ table' \in [DOMAIN table' -> Conns]
    BY <1>1, <1>6 DEF TypeOK
  <2>4. link' \in [Conns -> {"unused", "backlog", "open", "closed"}]
    BY <1>1, <1>6 DEF TypeOK
  <2> HIDE <1>6
  <2> QED BY <1>1, <1>7, <1>8, <2>1, <2>2, <2>3, <2>4 DEF TypeOK, client, queues
<1> HIDE <1>6
<1>11. /\ DOMAIN table = DOMAIN sessions
       /\ DOMAIN sessions = {pollfds[k].fd : k \in 2..n}
       /\ \A d \in Conns : link[d] = "open" <=> \E f \in DOMAIN table : table[f] = d
       /\ \A f, g \in DOMAIN table : f # g => table[f] # table[g]
       /\ pollfds[1].fd = Listener
       /\ \A j, k \in 1..n : j # k => pollfds[j].fd # pollfds[k].fd
  BY <1>1, <1>3, <1>4, <1>5 DEF PollMatchesSessions
<1>12. PollMatchesSessions'
  <2>1. DOMAIN table' = DOMAIN sessions' BY <1>8, <1>11
  <2>2. DOMAIN sessions' = {pollfds'[k].fd : k \in 2..Len(pollfds')}
    <3>1. ASSUME NEW k \in 2..(n - 1) PROVE pollfds'[k].fd \in DOMAIN sessions \ {fd}
      <4>1. CASE k = i BY <1>3, <1>5, <1>7, <1>9, <1>11, <4>1
      <4>2. CASE k # i BY <1>3, <1>5, <1>7, <1>9, <1>11, <4>2
      <4> QED BY <4>1, <4>2
    <3>2. ASSUME NEW g \in DOMAIN sessions \ {fd} PROVE \E k \in 2..(n - 1) : g = pollfds'[k].fd
      <4>1. PICK k \in 2..n : g = pollfds[k].fd BY <1>11
      <4>2. k # i BY <1>3, <3>2, <4>1
      <4>3. CASE k = n
        <5>1. i \in 2..(n - 1) BY <1>5, <4>2, <4>3
        <5>2. pollfds'[i] = pollfds[n] BY <1>7, <1>9, <5>1
        <5> QED BY <4>1, <4>3, <5>1, <5>2
      <4>4. CASE k # n
        <5>1. k \in 2..(n - 1) /\ k \in 1..(n - 1) BY <1>9, <4>4
        <5>2. pollfds'[k] = pollfds[k] BY <1>7, <4>2, <5>1
        <5> QED BY <4>1, <5>1, <5>2
      <4> QED BY <4>3, <4>4
    <3> QED BY <1>7, <1>8, <3>1, <3>2
  <2>3. \A d \in Conns : link'[d] = "open" <=> \E f \in DOMAIN table' : table'[f] = d
    <3> SUFFICES ASSUME NEW d \in Conns
                 PROVE  link'[d] = "open" <=> \E f \in DOMAIN table' : table'[f] = d
      OBVIOUS
    <3>1. CASE d = c BY <1>3, <1>8, <1>11, <3>1, SMTT(30)
    <3>2. CASE d # c
      <4>1. \A f \in DOMAIN table' : table'[f] = table[f] /\ f \in DOMAIN table BY <1>8
      <4>2. \A f \in DOMAIN table : table[f] = d => f \in DOMAIN table' BY <1>3, <1>8, <3>2
      <4>3. link'[d] = link[d] BY <1>8, <3>2
      <4>4. link[d] = "open" <=> \E f \in DOMAIN table : table[f] = d BY <1>11
      <4> QED BY <4>1, <4>2, <4>3, <4>4
    <3> QED BY <3>1, <3>2
  <2>4. \A f, g \in DOMAIN table' : f # g => table'[f] # table'[g] BY <1>8, <1>11
  <2>5. pollfds'[1].fd = Listener BY <1>5, <1>7, <1>9, <1>11
  <2>6. \A j, k \in DOMAIN pollfds' : j # k => pollfds'[j].fd # pollfds'[k].fd
    <3> SUFFICES ASSUME NEW j \in 1..(n - 1), NEW k \in 1..(n - 1), j # k
                 PROVE  pollfds'[j].fd # pollfds'[k].fd
      BY <1>9
    <3> DEFINE old(l) == IF l = i THEN n ELSE l
    <3>1. old(j) \in 1..n /\ old(k) \in 1..n /\ old(j) # old(k) BY <1>9
    <3>2. pollfds'[j] = pollfds[old(j)] /\ pollfds'[k] = pollfds[old(k)] BY <1>7
    <3> QED BY <1>11, <3>1, <3>2
  <2>7. pollfds' # << >> /\ current_size' <= Len(pollfds')
    BY <1>3, <1>4, <1>5, <1>7, <1>8, <1>9
  <2> QED BY <2>1, <2>2, <2>3, <2>4, <2>5, <2>6, <2>7 DEF PollMatchesSessions
<1>13. StrayHarmless'
  <2> SUFFICES ASSUME NEW k \in DOMAIN pollfds', k >= i, pollfds'[k].revents = "out"
               PROVE  /\ pollfds'[k].fd \in DOMAIN sessions'
                      /\ \/ sessions'[pollfds'[k].fd].state = "RESPONSE_SENDING"
                         \/ sessions'[pollfds'[k].fd].response = << >>
    BY <1>8 DEF StrayHarmless
  <2>1. PICK l \in 1..n : l = (IF k = i THEN n ELSE k) /\ pollfds'[k] = pollfds[l]
    BY <1>7, <1>9
  <2>2. l >= i /\ l # i BY <1>5, <1>9, <2>1
  <2>3. pollfds[l].fd # fd BY <1>3, <1>5, <1>11, <2>2
  <2>4. /\ pollfds[l].fd \in DOMAIN sessions
        /\ \/ sessions[pollfds[l].fd].state = "RESPONSE_SENDING"
           \/ sessions[pollfds[l].fd].response = << >>
    BY <1>3, <1>5, <2>1, <2>2 DEF Ind, StrayHarmless
  <2> QED BY <1>8, <2>1, <2>3, <2>4
<1>14. FlightOK'
  <2>1. \A g \in DOMAIN sessions \ {fd} :
          g \in DOMAIN sessions' /\ sessions'[g] = sessions[g] /\ table'[g] = table[g]
    BY <1>8, <1>11
  <2>2. UNCHANGED <<traced, tasks, results>> BY <1>8 DEF queues
  <2> QED BY <1>3, <2>1, <2>2, FlightUpdate DEF FlightOK
<1>15. \A d \in Conns : Kept(d)
  BY <1>1, <1>8, NothingRead DEF TypeOK, client
<1>16. SessionsOK'
  <2> SUFFICES ASSUME NEW g \in DOMAIN sessions \ {fd} PROVE Cycle(g)' /\ Framed(g)'
    BY <1>8 DEF SessionsOK
  <2>1. PICK d \in Conns : d = table[g] BY <1>1, <1>11 DEF TypeOK
  <2> QED BY <1>8, <1>11, <1>15, <2>1, SessionKept
<1>17. CountsOK'
  <2>1. \A d \in Conns : link'[d] \in {"unused", "backlog"} => link[d] \in {"unused", "backlog"}
    BY <1>8
  <2> QED BY <1>8, <1>15, <2>1, CountKept DEF CountsOK
<1> QED BY <1>10, <1>12, <1>13, <1>14, <1>16, <1>17 DEF Ind

(* A session is closed where it waits for a header or a body, or sends.    *)
LEMMA FailsKeep ==
  ASSUME Ind, HeaderFails \/ BodyFails \/ SendFails
  PROVE  Ind'
<1>1. CASE HeaderFails \/ BodyFails
  BY <1>1, CloseKeeps DEF HeaderFails, BodyFails, Receiving
<1>2. CASE SendFails
  <2>1. Scanning("out") /\ Session.response # << >> /\ CloseEntry BY <1>2 DEF SendFails
  <2>2. Entry.fd # Listener /\ i \in 1..Len(pollfds) BY <2>1, ScanFacts
  <2>3. i \in DOMAIN pollfds /\ i >= i /\ pollfds[i].revents = "out" /\ pc = "scan"
    BY <2>1, <2>2 DEF Ind, TypeOK, Scanning, Entry
  <2>4. Session.state = "RESPONSE_SENDING"
    BY <2>1, <2>3 DEF Ind, StrayHarmless, Entry, Session
  <2> QED BY <2>1, <2>2, <2>4, CloseKeeps
<1> QED BY <1>1, <1>2

(* handle_new_connection, whatever the new entry's revents holds.          *)
LEMMA AcceptKeeps ==
  ASSUME Ind, NEW c \in Conns, NEW fd \in Fds, NEW stray \in Stray, Accept(c, fd, stray)
  PROVE  Ind'
<1>1. TypeOK /\ PollMatchesSessions BY DEF Ind
<1>2. Scanning("in") /\ link[c] = "backlog" /\ fd \notin DOMAIN table BY DEF Accept
<1>3. pc = "scan" /\ pollfds # << >> /\ current_size <= Len(pollfds) BY <1>2, ScanFacts
<1>4. pollfds \in Seq(PollEntry) /\ i \in Nat /\ current_size \in Nat BY <1>1 DEF TypeOK
<1>5. PICK n \in Nat : n = Len(pollfds) BY <1>4
<1>6. PICK e : e = [fd |-> fd, revents |-> stray] OBVIOUS
<1>7. e \in PollEntry /\ e.fd = fd BY <1>6 DEF PollEntry
<1>8. /\ pollfds' \in Seq(PollEntry) /\ Len(pollfds') = n + 1 /\ DOMAIN pollfds' = 1..(n + 1)
      /\ DOMAIN pollfds = 1..n /\ pollfds'[n + 1] = e
      /\ \A k \in 1..n : pollfds'[k] = pollfds[k]
  BY <1>4, <1>5, <1>6, <1>7 DEF Accept
<1>9. /\ DOMAIN sessions' = DOMAIN sessions \cup {fd} /\ DOMAIN table' = DOMAIN table \cup {fd}
      /\ sessions'[fd] = NewSession /\ table'[fd] = c
      /\ \A g \in DOMAIN sessions : g # fd => sessions'[g] = sessions[g]
      /\ \A g \in DOMAIN table : table'[g] = table[g]
      /\ \A d \in Conns : link'[d] = IF d = c THEN "open" ELSE link[d]
      /\ i' = i + 1 /\ UNCHANGED <<pc, current_size, running, inbuf, client, got, traced, queues>>
  BY <1>1, <1>2 DEF Accept, NextEntry, TypeOK
<1>10. /\ DOMAIN table = DOMAIN sessions
       /\ DOMAIN sessions = {pollfds[k].fd : k \in 2..n}
       /\ \A d \in Conns : link[d] = "open" <=> \E f \in DOMAIN table : table[f] = d
       /\ \A f, g \in DOMAIN table : f # g => table[f] # table[g]
       /\ pollfds[1].fd = Listener
       /\ \A j, k \in 1..n : j # k => pollfds[j].fd # pollfds[k].fd
       /\ n >= 1
  <2>1. DOMAIN pollfds = 1..n BY <1>8
  <2>2. n >= 1 BY <1>3, <1>4, <1>5
  <2> QED BY <1>1, <1>3, <1>5, <2>1, <2>2 DEF PollMatchesSessions
<1>11. /\ NewSession \in ClientSession
       /\ NewSession.state = "HEADER_PENDING" /\ NewSession.header = 0
       /\ NewSession.received = 0 /\ NewSession.response = << >>
  <2>1. 0 \in 0..HeaderBytes /\ 0 \in 0..ResponseBytes BY ServerAssumption
  <2>2. "HEADER_PENDING" \in States BY DEF States
  <2> QED BY <2>1, <2>2 DEF NewSession, ClientSession
<1>12. TypeOK'
  <2>1. DOMAIN sessions' \subseteq Fds /\ sessions' \in [DOMAIN sessions' -> ClientSession]
    <3>1. sessions' = [f \in DOMAIN sessions' |-> IF f = fd THEN NewSession ELSE sessions[f]]
      BY <1>9 DEF Accept
    <3> QED BY <1>1, <1>9, <1>11, <3>1 DEF TypeOK
  <2>2. DOMAIN table' \subseteq Fds /\ table' \in [DOMAIN table' -> Conns]
    BY <1>1 DEF TypeOK, Accept
  <2>3. link' \in [Conns -> {"unused", "backlog", "open", "closed"}]
    BY <1>1 DEF TypeOK, Accept
  <2>4. i' \in Nat \ {0} BY <1>4, <1>9
  <2> QED BY <1>1, <1>8, <1>9, <2>1, <2>2, <2>3, <2>4 DEF TypeOK, client, queues
<1>13. \A g \in DOMAIN table : table[g] # c BY <1>2, <1>10
<1>14. \A k \in 1..n : pollfds[k].fd # fd
  <2>1. fd # Listener BY ServerAssumption
  <2>2. \A k \in 2..n : pollfds[k].fd \in DOMAIN table BY <1>10
  <2>3. \A k \in 1..n : k = 1 \/ k \in 2..n OBVIOUS
  <2> QED BY <1>2, <1>10, <2>1, <2>2, <2>3
<1>15. PollMatchesSessions'
  <2>1. DOMAIN sessions' = {pollfds'[k].fd : k \in 2..Len(pollfds')}
    <3>1. ASSUME NEW k \in 2..(n + 1) PROVE pollfds'[k].fd \in DOMAIN sessions'
      <4>1. CASE k = n + 1 BY <1>7, <1>8, <1>9, <4>1
      <4>2. CASE k # n + 1
        <5>1. k \in 2..n /\ k \in 1..n BY <4>2
        <5> QED BY <1>8, <1>9, <1>10, <5>1
      <4> QED BY <4>1, <4>2
    <3>2. ASSUME NEW g \in DOMAIN sessions' PROVE \E k \in 2..(n + 1) : g = pollfds'[k].fd
      <4>1. CASE g = fd
        <5>1. n + 1 \in 2..(n + 1) BY <1>10
        <5> QED BY <1>7, <1>8, <4>1, <5>1
      <4>2. CASE g \in DOMAIN sessions
        <5>1. PICK k \in 2..n : g = pollfds[k].fd BY <1>10, <4>2
        <5>2. k \in 2..(n + 1) /\ k \in 1..n OBVIOUS
        <5> QED BY <1>8, <5>1, <5>2
      <4> QED BY <1>9, <3>2, <4>1, <4>2
    <3> QED BY <1>8, <3>1, <3>2
  <2>2. \A d \in Conns : link'[d] = "open" <=> \E f \in DOMAIN table' : table'[f] = d
    <3> SUFFICES ASSUME NEW d \in Conns
                 PROVE  link'[d] = "open" <=> \E f \in DOMAIN table' : table'[f] = d
      OBVIOUS
    <3>1. CASE d = c BY <1>9, <3>1
    <3>2. CASE d # c
      <4>1. link'[d] = link[d] BY <1>9, <3>2
      <4>2. \A f \in DOMAIN table' : table'[f] = d => f \in DOMAIN table /\ table[f] = d
        BY <1>9, <3>2
      <4>3. \A f \in DOMAIN table : f \in DOMAIN table' /\ table'[f] = table[f] BY <1>9
      <4>4. link[d] = "open" <=> \E f \in DOMAIN table : table[f] = d BY <1>10
      <4> QED BY <4>1, <4>2, <4>3, <4>4
    <3> QED BY <3>1, <3>2
  <2>3. \A f, g \in DOMAIN table' : f # g => table'[f] # table'[g]
    BY <1>9, <1>10, <1>13
  <2>4. \A j, k \in DOMAIN pollfds' : j # k => pollfds'[j].fd # pollfds'[k].fd
    <3> SUFFICES ASSUME NEW j \in 1..(n + 1), NEW k \in 1..(n + 1), j # k
                 PROVE  pollfds'[j].fd # pollfds'[k].fd
      BY <1>8
    <3>1. CASE j = n + 1
      <4>1. k \in 1..n BY <3>1
      <4> QED BY <1>7, <1>8, <1>14, <3>1, <4>1
    <3>2. CASE k = n + 1
      <4>1. j \in 1..n BY <3>2
      <4> QED BY <1>7, <1>8, <1>14, <3>2, <4>1
    <3>3. CASE j # n + 1 /\ k # n + 1
      <4>1. j \in 1..n /\ k \in 1..n BY <3>3
      <4> QED BY <1>8, <1>10, <4>1
    <3> QED BY <3>1, <3>2, <3>3
  <2>5. pollfds'[1].fd = Listener BY <1>8, <1>10
  <2>6. pollfds' # << >> /\ current_size' <= Len(pollfds')
    BY <1>3, <1>4, <1>5, <1>8, <1>9
  <2>7. DOMAIN table' = DOMAIN sessions' BY <1>9, <1>10
  <2> QED BY <2>1, <2>2, <2>3, <2>4, <2>5, <2>6, <2>7 DEF PollMatchesSessions
<1>16. StrayHarmless'
  <2> SUFFICES ASSUME NEW k \in DOMAIN pollfds', k >= i + 1, pollfds'[k].revents = "out"
               PROVE  /\ pollfds'[k].fd \in DOMAIN sessions'
                      /\ \/ sessions'[pollfds'[k].fd].state = "RESPONSE_SENDING"
                         \/ sessions'[pollfds'[k].fd].response = << >>
    BY <1>9 DEF StrayHarmless
  <2>1. CASE k = n + 1 BY <1>7, <1>8, <1>9, <1>11, <2>1
  <2>2. CASE k # n + 1
    <3>1. k \in 1..n /\ k >= i /\ pollfds'[k] = pollfds[k] BY <1>4, <1>8, <2>2
    <3>2. /\ pollfds[k].fd \in DOMAIN sessions
          /\ \/ sessions[pollfds[k].fd].state = "RESPONSE_SENDING"
             \/ sessions[pollfds[k].fd].response = << >>
      BY <1>3, <1>8, <3>1 DEF Ind, StrayHarmless
    <3> QED BY <1>9, <1>14, <3>1, <3>2
  <2> QED BY <2>1, <2>2
<1>17. FlightOK'
  <2>1. \A g \in DOMAIN sessions \ {fd} :
          g \in DOMAIN sessions' /\ sessions'[g] = sessions[g] /\ table'[g] = table[g]
    BY <1>9, <1>10
  <2>2. UNCHANGED <<traced, tasks, results>> BY <1>9 DEF queues
  <2> QED BY <1>2, <1>3, <1>10, <2>1, <2>2, FlightUpdate DEF FlightOK
<1>18. \A d \in Conns : Kept(d)
  BY <1>1, <1>9, NothingRead DEF TypeOK, client
<1>19. traced[c] = 0 /\ Len(got[c]) = 0 /\ Consumed(c) = 0
  <2>1. Counted(c) BY DEF Ind, CountsOK
  <2>2. traced[c] = 0 /\ Consumed(c) = 0 /\ Len(got[c]) <= traced[c] BY <1>2, <2>1 DEF Counted
  <2>3. got[c] \in Seq(Contents) BY <1>1 DEF TypeOK
  <2> QED BY <2>2, <2>3
<1>20. SessionsOK'
  <2> SUFFICES ASSUME NEW g \in DOMAIN sessions' PROVE Cycle(g)' /\ Framed(g)'
    BY DEF SessionsOK
  <2>1. CASE g # fd
    <3>1. PICK d \in Conns : d = table[g] /\ g \in DOMAIN sessions
      BY <1>1, <1>9, <1>10, <2>1 DEF TypeOK
    <3> QED BY <1>9, <1>10, <1>18, <2>1, <3>1, SessionKept
  <2>2. CASE g = fd
    <3>1. traced'[c] = 0 /\ got'[c] = got[c] /\ sizes'[c] = sizes[c] BY <1>9, <1>19 DEF client
    <3>2. Consumed(c)' = 0 BY <1>18, <1>19 DEF Kept
    <3>3. PICK s : s = NewSession OBVIOUS
    <3>4. /\ s.state = "HEADER_PENDING" /\ s.header = 0 /\ s.received = 0 /\ s.response = << >>
          /\ sessions'[fd] = s /\ table'[fd] = c
      BY <1>9, <1>11, <3>3
    <3>5. EndOf(sizes'[c], 0) + s.header = 0
      <4>1. EndOf(sizes'[c], 0) = 0 BY EndStep
      <4> QED BY <3>4, <4>1
    <3>6. 0 < HeaderBytes BY ServerAssumption
    <3>7. Cycle(fd)' BY <1>19, <3>1, <3>4, <3>6 DEF Cycle
    <3>8. Framed(fd)' BY <3>1, <3>2, <3>4, <3>5, FramedNext
    <3> QED BY <2>2, <3>7, <3>8
  <2> QED BY <2>1, <2>2
<1>21. CountsOK'
  <2>1. \A d \in Conns : link'[d] \in {"unused", "backlog"} => link[d] \in {"unused", "backlog"}
    BY <1>9
  <2> QED BY <1>9, <1>18, <2>1, CountKept DEF CountsOK
<1> QED BY <1>12, <1>15, <1>16, <1>17, <1>20, <1>21 DEF Ind

(* handle_responses: the oldest result belongs to the session that waits   *)
(* for it, and moves it to the sending half of its cycle.                  *)
LEMMA PopKeeps ==
  ASSUME Ind, PopResponse
  PROVE  Ind'
<1>1. TypeOK /\ PollMatchesSessions BY DEF Ind
<1>2. pc = "responses" /\ results # << >> /\ results' = Tail(results)
  BY DEF PopResponse, PopImmediate
<1>3. pollfds # << >> /\ Flight BY <1>2 DEF Ind, PollMatchesSessions, FlightOK
<1>4. results \in Seq(Work) /\ tasks \in Seq(Work) BY <1>1 DEF TypeOK
<1>5. PICK l \in Nat : l = Len(results) /\ l > 0 /\ DOMAIN results = 1..l
  BY <1>2, <1>4
<1>6. /\ results' \in Seq(Work) /\ DOMAIN results' = 1..(l - 1)
      /\ \A k \in 1..(l - 1) : results'[k] = results[k + 1] /\ k + 1 \in 1..l /\ k + 1 # 1
      /\ Head(results) = results[1]
  BY <1>2, <1>4, <1>5
<1>7. PICK x, fd, c : x = results[1] /\ fd = x.fd /\ c = table[fd] OBVIOUS
<1>8. 1 \in DOMAIN results BY <1>5
<1>9. /\ fd \in DOMAIN sessions /\ sessions[fd].state = "INFERENCE_PENDING"
      /\ x.data = <<c, traced[c] + 1>>
  BY <1>3, <1>7, <1>8 DEF Flight, Owned
<1>10. PICK s \in ClientSession : s = sessions[fd] BY <1>1, <1>9 DEF TypeOK
<1>11. /\ fd \in DOMAIN table /\ c \in Conns /\ link[c] = "open"
  BY <1>1, <1>7, <1>9 DEF TypeOK, PollMatchesSessions
<1>12. PICK n \in Nat : n = traced[c] BY <1>1, <1>11 DEF TypeOK
<1> DEFINE s2 == [s EXCEPT !.state = "RESPONSE_SENDING", !.response = <<c, n + 1>>, !.sent = 0]
<1>13. /\ sessions' = [sessions EXCEPT ![fd] = s2]
       /\ traced' = [traced EXCEPT ![c] = n + 1]
  <2>1. IF x.fd \in DOMAIN sessions
        THEN /\ sessions' = [sessions EXCEPT ![x.fd] =
                              [@ EXCEPT !.state = "RESPONSE_SENDING",
                                        !.response = x.data, !.sent = 0]]
             /\ traced' = [traced EXCEPT ![table[x.fd]] = @ + 1]
        ELSE UNCHANGED <<sessions, traced>>
    BY <1>6, <1>7 DEF PopResponse
  <2> QED BY <1>7, <1>9, <1>10, <1>12, <2>1
<1>14. UNCHANGED <<running, pc, i, current_size, pollfds, table, link, inbuf, client, got, tasks>>
  BY DEF PopResponse
<1>15. s2 \in ClientSession
  <2>1. <<c, n + 1>> \in Contents BY <1>11 DEF Contents
  <2>2. 0 \in 0..ResponseBytes BY ServerAssumption
  <2>3. "RESPONSE_SENDING" \in States BY DEF States
  <2> QED BY <2>1, <2>2, <2>3 DEF ClientSession
<1>16. s2.state = "RESPONSE_SENDING" /\ s2.response = <<c, n + 1>> /\ s2.sent = 0
  BY DEF ClientSession
<1> HIDE DEF s2
<1>17. /\ DOMAIN sessions' = DOMAIN sessions /\ sessions'[fd] = s2
       /\ \A g \in DOMAIN sessions \ {fd} : sessions'[g] = sessions[g]
       /\ sessions' \in [DOMAIN sessions' -> ClientSession]
       /\ traced' \in [Conns -> Nat] /\ traced'[c] = n + 1
       /\ \A d \in Conns \ {c} : traced'[d] = traced[d]
  <2>1. sessions \in [DOMAIN sessions -> ClientSession] /\ traced \in [Conns -> Nat]
    BY <1>1 DEF TypeOK
  <2>2. /\ DOMAIN sessions' = DOMAIN sessions /\ sessions'[fd] = s2
        /\ \A g \in DOMAIN sessions \ {fd} : sessions'[g] = sessions[g]
        /\ sessions' \in [DOMAIN sessions' -> ClientSession]
    BY <1>9, <1>13, <1>15, <2>1
  <2>3. /\ traced' \in [Conns -> Nat] /\ traced'[c] = n + 1
        /\ \A d \in Conns \ {c} : traced'[d] = traced[d]
    BY <1>11, <1>13, <2>1
  <2> QED BY <2>2, <2>3
<1>18. TypeOK'
  <2>1. DOMAIN sessions' \subseteq Fds BY <1>1, <1>17 DEF TypeOK
  <2>2. tasks' \in Seq(Work) /\ results' \in Seq(Work) BY <1>4, <1>6, <1>14
  <2>3. sessions' \in [DOMAIN sessions' -> ClientSession] /\ traced' \in [Conns -> Nat] BY <1>17
  <2> QED BY <1>1, <1>14, <2>1, <2>2, <2>3 DEF TypeOK, client
<1>19. PollMatchesSessions'
  <2>1. DOMAIN sessions' = DOMAIN sessions /\ UNCHANGED <<pc, current_size, pollfds, table, link>>
    BY <1>14, <1>17
  <2> QED BY <1>1, <2>1 DEF PollMatchesSessions
<1>20. StrayHarmless' BY <1>2, <1>14 DEF StrayHarmless
<1>21. \A g \in DOMAIN sessions \ {fd} : table[g] \in Conns \ {c}
  BY <1>1, <1>7, <1>9 DEF TypeOK, PollMatchesSessions
<1>22. FlightOK'
  <2> SUFFICES Flight' BY DEF FlightOK
  <2>1. ASSUME NEW y, Owned(y), y.fd # fd PROVE Owned(y)'
    <3>1. /\ y.fd \in DOMAIN sessions \ {fd} /\ sessions[y.fd].state = "INFERENCE_PENDING"
          /\ y.data = <<table[y.fd], traced[table[y.fd]] + 1>>
      BY <2>1 DEF Owned
    <3> QED BY <1>14, <1>17, <1>21, <3>1 DEF Owned
  <2>2. ASSUME NEW k \in DOMAIN tasks' PROVE Owned(tasks[k])'
    <3>1. k \in DOMAIN tasks /\ tasks'[k] = tasks[k] BY <1>14
    <3>2. Owned(tasks[k]) /\ tasks[k].fd # fd BY <1>3, <1>7, <1>8, <3>1 DEF Flight
    <3>3. PICK y : y = tasks[k] OBVIOUS
    <3>4. Owned(y)' BY <2>1, <3>2, <3>3
    <3> QED BY <3>1, <3>3, <3>4 DEF Owned
  <2>3. ASSUME NEW k \in DOMAIN results' PROVE Owned(results[k])'
    <3>1. k + 1 \in DOMAIN results /\ k + 1 # 1 /\ results'[k] = results[k + 1] BY <1>5, <1>6
    <3>2. Owned(results[k + 1]) /\ results[k + 1].fd # fd BY <1>3, <1>7, <1>8, <3>1 DEF Flight
    <3>3. PICK y : y = results[k + 1] OBVIOUS
    <3>4. Owned(y)' BY <2>1, <3>2, <3>3
    <3> QED BY <3>1, <3>3, <3>4 DEF Owned
  <2>4. \A j, k \in DOMAIN results' : j # k => results'[j].fd # results'[k].fd
    <3> SUFFICES ASSUME NEW j \in DOMAIN results', NEW k \in DOMAIN results', j # k
                 PROVE  results'[j].fd # results'[k].fd
      OBVIOUS
    <3>1. j + 1 \in DOMAIN results /\ k + 1 \in DOMAIN results /\ j + 1 # k + 1 BY <1>5, <1>6
    <3>2. results'[j] = results[j + 1] /\ results'[k] = results[k + 1] BY <1>6
    <3> QED BY <1>3, <3>1, <3>2 DEF Flight
  <2>5. \A j \in DOMAIN tasks', k \in DOMAIN results' : tasks'[j].fd # results'[k].fd
    BY <1>3, <1>5, <1>6, <1>14 DEF Flight
  <2>6. \A j, k \in DOMAIN tasks' : j # k => tasks'[j].fd # tasks'[k].fd
    BY <1>3, <1>14 DEF Flight
  <2> QED BY <2>2, <2>3, <2>4, <2>5, <2>6 DEF Flight
<1>23. \A d \in Conns : Kept(d)
  BY <1>1, <1>14, NothingRead DEF TypeOK, client
<1>24. Cycle(fd) /\ Framed(fd) BY <1>9 DEF Ind, SessionsOK
<1>25. n < Len(sizes[c]) /\ n = Len(got[c])
  BY <1>7, <1>9, <1>12, <1>24 DEF Cycle
<1>26. sizes'[c] = sizes[c] /\ got'[c] = got[c] /\ table'[fd] = c
  BY <1>7, <1>14 DEF client
<1>27. SessionsOK'
  <2> SUFFICES ASSUME NEW g \in DOMAIN sessions PROVE Cycle(g)' /\ Framed(g)'
    BY <1>17 DEF SessionsOK
  <2>1. CASE g # fd
    <3>1. PICK d \in Conns \ {c} : d = table[g] BY <1>21, <2>1
    <3> QED BY <1>14, <1>17, <1>23, <2>1, <3>1, SessionKept
  <2>2. CASE g = fd
    <3>1. 0 < ResponseBytes BY ServerAssumption
    <3>2. Cycle(fd)' BY <1>16, <1>17, <1>25, <1>26, <3>1 DEF Cycle
    <3>3. PICK m : m = EndOf(sizes[c], n + 1) OBVIOUS
    <3>4. Consumed(c) = m
      BY <1>7, <1>9, <1>12, <1>24, <3>3 DEF Framed, BytesOf
    <3>5. Consumed(c)' = m BY <1>11, <1>23, <3>4 DEF Kept
    <3>6. Framed(fd)' BY <1>16, <1>17, <1>26, <3>3, <3>5, FramedNext
    <3> QED BY <2>2, <3>2, <3>6
  <2> QED BY <2>1, <2>2
<1>28. CountsOK'
  <2> SUFFICES ASSUME NEW d \in Conns
               PROVE  Counted(d)' /\ \A k \in DOMAIN got'[d] : got'[d][k] = <<d, k>>
    BY DEF CountsOK
  <2>1. CASE d # c
    <3>1. traced'[d] = traced[d] /\ got'[d] = got[d] /\ link'[d] = link[d] BY <1>14, <1>17, <2>1
    <3> QED BY <1>23, <3>1, CountKept
  <2>2. CASE d = c
    <3>1. \A k \in DOMAIN got[c] : got[c][k] = <<c, k>> BY <1>11 DEF Ind, CountsOK
    <3>2. link'[c] = "open" BY <1>11, <1>14
    <3>3. Len(sizes[c]) \in Nat BY <1>1, <1>11 DEF TypeOK
    <3> QED BY <1>17, <1>25, <1>26, <2>2, <3>1, <3>2, <3>3 DEF Counted
  <2> QED BY <2>1, <2>2
<1> QED BY <1>18, <1>19, <1>20, <1>22, <1>27, <1>28 DEF Ind

LEMMA DestroyKeeps ==
  ASSUME Ind, Destroy
  PROVE  Ind'
<1>1. TypeOK BY DEF Ind
<1>2. /\ pc \in {"done", "threw"}
      /\ pollfds' = << >> /\ DOMAIN table' = {} /\ DOMAIN sessions' = {}
      /\ link' = [c \in Conns |-> IF link[c] = "unused" THEN "unused" ELSE "closed"]
      /\ UNCHANGED <<running, pc, i, current_size, inbuf, client, got, traced, queues>>
  BY DEF Destroy
<1>3. table' \in [DOMAIN table' -> Conns] /\ sessions' \in [DOMAIN sessions' -> ClientSession]
  BY DEF Destroy
<1>4. TypeOK'
  <2>1. pollfds' \in Seq(PollEntry) BY <1>2
  <2>2. link' \in [Conns -> {"unused", "backlog", "open", "closed"}] BY <1>2
  <2> QED BY <1>1, <1>2, <1>3, <2>1, <2>2 DEF TypeOK, client, queues
<1>5. PollMatchesSessions'
  <2>1. Len(pollfds') = 0 BY <1>2
  <2>2. {pollfds'[k].fd : k \in 2..Len(pollfds')} = {} BY <2>1
  <2>3. \A c \in Conns : link'[c] # "open" BY <1>2
  <2> QED BY <1>2, <2>2, <2>3 DEF PollMatchesSessions
<1>6. StrayHarmless' /\ FlightOK' /\ SessionsOK'
  BY <1>2 DEF StrayHarmless, FlightOK, SessionsOK
<1>7. CountsOK'
  <2>1. \A d \in Conns : Kept(d)
    BY <1>1, <1>2, NothingRead DEF TypeOK, client
  <2>2. \A d \in Conns : link'[d] \in {"unused", "backlog"} => link[d] \in {"unused", "backlog"}
    BY <1>2
  <2> QED BY <1>2, <2>1, <2>2, CountKept DEF CountsOK
<1> QED BY <1>4, <1>5, <1>6, <1>7 DEF Ind

LEMMA IndStep == Ind /\ [Next]_vars => Ind'
<1> SUFFICES ASSUME Ind, [Next]_vars PROVE Ind'
  OBVIOUS
<1>1. CASE PopResponse BY <1>1, PopKeeps
<1>2. CASE SkipEntry \/ AcceptFails \/ EndScan \/ SigPipe BY <1>2, SkipKeeps
<1>3. CASE ProcessHeader BY <1>3, HeaderKeeps
<1>4. CASE ProcessBody BY <1>4, BodyKeeps
<1>5. CASE HeaderFails \/ BodyFails \/ SendFails BY <1>5, FailsKeep
<1>6. CASE Destroy BY <1>6, DestroyKeeps
<1>7. ASSUME NEW hup \in {"none", "hup"}, Poll(hup) PROVE Ind' BY <1>7, PollKeeps
<1>8. ASSUME NEW c \in Conns, NEW fd \in Fds, NEW stray \in Stray, Accept(c, fd, stray)
      PROVE  Ind'
  BY <1>8, AcceptKeeps
<1>9. ASSUME NEW n \in 0..ResponseBytes, Send(n) PROVE Ind' BY <1>9, SendKeeps
<1>10. ASSUME NEW c \in Conns, Connect(c) \/ Deliver(c) \/ Hangup(c)
                                 \/ \E s \in Sizes : Request(c, s)
       PROVE  Ind'
  BY <1>10, ClientActions
<1>11. CASE SignalHandler
  <2>1. TypeOK BY DEF Ind
  <2>2. TypeOK' BY <1>11, <2>1 DEF SignalHandler, TypeOK, server, client, queues
  <2>3. \A d \in Conns : Kept(d)
    BY <1>11, <2>1, NothingRead DEF SignalHandler, TypeOK, client
  <2>4. FlightOK' BY <1>11, FlightKept DEF SignalHandler, server, queues
  <2> QED BY <1>11, <2>2, <2>3, <2>4, ClientStep DEF SignalHandler, server
<1>12. ASSUME NEW k \in DOMAIN tasks, Infer(k) PROVE Ind' BY <1>12, InferKeeps
<1>13. CASE UNCHANGED vars
  <2> USE DEF vars, server, client, queues
  <2>1. TypeOK BY DEF Ind
  <2>2. TypeOK' BY <1>13, <2>1 DEF TypeOK
  <2>3. \A d \in Conns : Kept(d) BY <1>13, <2>1, NothingRead DEF TypeOK
  <2>4. FlightOK' BY <1>13, FlightKept
  <2> QED BY <1>13, <2>2, <2>3, <2>4, ClientStep
<1> QED BY <1>1, <1>2, <1>3, <1>4, <1>5, <1>6, <1>7, <1>8, <1>9, <1>10, <1>11, <1>12, <1>13
        DEF Next, ServerStep

LEMMA AlwaysInd == Spec => []Ind
BY IndInit, IndStep, PTL DEF Spec

(* TCPServer.cpp: in every interleaving of clients, network, workers and   *)
(* signals, the poll set, the session map and the open connections agree,  *)
(* and what the pool works on belongs to a live session that waits for it. *)
THEOREM ServerInvariant == Spec => []ServerInv
BY AlwaysInd, IndImplies, PTL

(* process_header, process_body: however the bytes arrive, a session reads *)
(* from the place of its client's stream that its state stands for.        *)
THEOREM StreamsFramed == Spec => []Framing
BY AlwaysInd, IndImplies, PTL

(* finalize_request, handle_responses: each client gets exactly its own    *)
(* answers, once and in the order of its requests.                         *)
THEOREM OwnAnswers == Spec => []OwnResponses
BY AlwaysInd, IndImplies, PTL

----------------------------------------------------------------------------
(* The server implements the request cycle of RequestResponse              *)

StageName(state) ==
  CASE state = "INFERENCE_PENDING" -> "waiting"
    [] state = "RESPONSE_SENDING" -> "replying"
    [] OTHER -> "reading"
StageFact ==
  \A c \in Conns :
    /\ link[c] \in {"unused", "backlog"} => Stage(c) = "new"
    /\ link[c] = "closed" => Stage(c) = "closed"
    /\ \A fd \in DOMAIN sessions :
         table[fd] = c => link[c] = "open" /\ Stage(c) = StageName(sessions[fd].state)

LEMMA StageIs == Ind => StageFact
<1> SUFFICES ASSUME Ind, NEW c \in Conns
             PROVE  /\ link[c] \in {"unused", "backlog"} => Stage(c) = "new"
                    /\ link[c] = "closed" => Stage(c) = "closed"
                    /\ \A fd \in DOMAIN sessions :
                         table[fd] = c => link[c] = "open" /\ Stage(c) = StageName(sessions[fd].state)
  BY DEF StageFact
<1>1. ASSUME NEW fd \in DOMAIN sessions, table[fd] = c
      PROVE  link[c] = "open" /\ Stage(c) = StageName(sessions[fd].state)
  <2>1. /\ link[c] = "open" /\ fd \in DOMAIN table
        /\ \A g \in DOMAIN table : table[g] = c => g = fd
    BY <1>1 DEF Ind, PollMatchesSessions
  <2>2. (CHOOSE g \in DOMAIN table : table[g] = c) = fd BY <1>1, <2>1
  <2>3. SessionOf(c) = sessions[fd] BY <2>2 DEF SessionOf
  <2>4. Stage(c) = StageName(sessions[fd].state) BY <2>1, <2>3 DEF Stage, StageName
  <2> QED BY <2>1, <2>4
<1>2. link[c] \in {"unused", "backlog"} => Stage(c) = "new" BY DEF Stage
<1>3. link[c] = "closed" => Stage(c) = "closed" BY DEF Stage
<1> QED BY <1>1, <1>2, <1>3

LEMMA StageNext == Ind' => StageFact'
BY StageIs, PTL

(* The set of requests with the pool, queue by queue.                      *)
LEMMA PendingSet ==
  ASSUME NEW t \in Seq(Work), NEW r \in Seq(Work)
  PROVE  {(t \o r)[k].data : k \in DOMAIN (t \o r)}
           = {t[k].data : k \in DOMAIN t} \cup {r[k].data : k \in DOMAIN r}
<1>1. PICK q : q = t \o r OBVIOUS
<1>2. PICK m \in Nat, n \in Nat : m = Len(t) /\ n = Len(r) OBVIOUS
<1>3. /\ DOMAIN q = 1..(m + n) /\ DOMAIN t = 1..m /\ DOMAIN r = 1..n
      /\ \A k \in 1..(m + n) : q[k] = IF k <= m THEN t[k] ELSE r[k - m]
  BY <1>1, <1>2
<1>4. ASSUME NEW k \in DOMAIN q
      PROVE  (\E j \in DOMAIN t : q[k] = t[j]) \/ (\E j \in DOMAIN r : q[k] = r[j])
  <2>1. CASE k <= m BY <1>3, <2>1
  <2>2. CASE ~(k <= m)
    <3>1. k - m \in DOMAIN r BY <1>3, <2>2
    <3> QED BY <1>3, <2>2, <3>1
  <2> QED BY <2>1, <2>2
<1>5. ASSUME NEW k \in DOMAIN t PROVE k \in DOMAIN q /\ q[k] = t[k] BY <1>3
<1>6. ASSUME NEW k \in DOMAIN r PROVE k + m \in DOMAIN q /\ q[k + m] = r[k]
  <2>1. k + m \in 1..(m + n) /\ ~(k + m <= m) /\ (k + m) - m = k BY <1>3
  <2> QED BY <1>3, <2>1
<1> DEFINE A == {q[k].data : k \in DOMAIN q}
           B == {t[k].data : k \in DOMAIN t}
           C == {r[k].data : k \in DOMAIN r}
<1>7. A \subseteq B \cup C BY <1>4
<1>8. B \subseteq A BY <1>5
<1>9. C \subseteq A BY <1>6
<1>10. A = B \cup C
  <2> HIDE DEF A, B, C
  <2> QED BY <1>7, <1>8, <1>9
<1> QED BY <1>1, <1>10

(* The abstract variables.                                                 *)
AStage == [c \in Conns |-> Stage(c)]
APending == {InFlight[k].data : k \in DOMAIN InFlight}
AAnswered == [c \in Conns |-> Len(got[c])]
AStutter == UNCHANGED <<AStage, APending, traced, AAnswered>>

LEMMA PendingIs ==
  Ind => APending = {tasks[k].data : k \in DOMAIN tasks} \cup {results[k].data : k \in DOMAIN results}
<1> SUFFICES ASSUME Ind PROVE APending = {tasks[k].data : k \in DOMAIN tasks}
                                            \cup {results[k].data : k \in DOMAIN results}
  OBVIOUS
<1>1. tasks \in Seq(Work) /\ results \in Seq(Work) BY DEF Ind, TypeOK
<1> QED BY <1>1, PendingSet DEF APending, InFlight

LEMMA PendingNext ==
  Ind' => (APending = {tasks[k].data : k \in DOMAIN tasks} \cup {results[k].data : k \in DOMAIN results})'
BY PendingIs, PTL

(* Steps that change nothing the promise speaks of.                        *)
LEMMA QuietStep ==
  ASSUME Ind, Ind', UNCHANGED <<table, traced, got, tasks, results>>,
         \A c \in Conns : link'[c] = link[c] \/ (link[c] = "unused" /\ link'[c] = "backlog"),
         DOMAIN sessions' = DOMAIN sessions,
         \A fd \in DOMAIN sessions : StageName(sessions'[fd].state) = StageName(sessions[fd].state)
  PROVE  AStutter
<1>1. StageFact /\ StageFact' BY StageIs, StageNext
<1>2. ASSUME NEW c \in Conns PROVE Stage(c)' = Stage(c)
  <2>1. CASE \E fd \in DOMAIN sessions : table[fd] = c
    <3>1. PICK fd \in DOMAIN sessions : table[fd] = c BY <2>1
    <3>2. Stage(c) = StageName(sessions[fd].state) BY <1>1, <3>1 DEF StageFact
    <3>3. Stage(c)' = StageName(sessions'[fd].state) BY <1>1, <3>1 DEF StageFact
    <3> QED BY <3>1, <3>2, <3>3
  <2>2. CASE ~\E fd \in DOMAIN sessions : table[fd] = c
    <3>1. link[c] # "open" /\ link[c] \in {"unused", "backlog", "open", "closed"}
      <4>1. TypeOK /\ PollMatchesSessions BY DEF Ind
      <4>2. link[c] # "open" BY <2>2, <4>1 DEF PollMatchesSessions
      <4>3. link[c] \in {"unused", "backlog", "open", "closed"} BY <4>1 DEF TypeOK
      <4> QED BY <4>2, <4>3
    <3>2. CASE link[c] = "closed" BY <3>2, <1>1 DEF StageFact
    <3>3. CASE link[c] \in {"unused", "backlog"}
      <4>1. link'[c] \in {"unused", "backlog"} BY <3>3
      <4> QED BY <1>1, <3>3, <4>1 DEF StageFact
    <3> QED BY <3>1, <3>2, <3>3
  <2> QED BY <2>1, <2>2
<1>3. AStage' = AStage BY <1>2 DEF AStage
<1> QED BY <1>3 DEF AStutter, APending, InFlight, AAnswered

(* One session moves on in its cycle, or its connection opens or closes.   *)
LEMMA StageMoves ==
  ASSUME Ind, Ind', NEW c \in Conns, NEW fd, fd \in DOMAIN sessions => table[fd] = c,
         fd \in DOMAIN sessions' => table'[fd] = c,
         \A g \in DOMAIN sessions \ {fd} :
           g \in DOMAIN sessions' /\ sessions'[g] = sessions[g] /\ table'[g] = table[g],
         \A d \in Conns \ {c} : link'[d] = link[d],
         NEW to, fd \in DOMAIN sessions' => to = StageName(sessions'[fd].state),
         fd \notin DOMAIN sessions' => link'[c] = "closed" /\ to = "closed"
  PROVE  AStage' = [AStage EXCEPT ![c] = to]
<1>1. StageFact /\ StageFact' BY StageIs, StageNext
<1>2. Stage(c)' = to BY <1>1 DEF StageFact
<1>3. ASSUME NEW d \in Conns \ {c} PROVE Stage(d)' = Stage(d)
  <2>1. CASE \E g \in DOMAIN sessions : table[g] = d
    <3>1. PICK g \in DOMAIN sessions : table[g] = d BY <2>1
    <3>2. g # fd BY <3>1
    <3>3. g \in DOMAIN sessions' /\ sessions'[g] = sessions[g] /\ table'[g] = d BY <3>1, <3>2
    <3>4. Stage(d) = StageName(sessions[g].state) BY <1>1, <3>1 DEF StageFact
    <3>5. Stage(d)' = StageName(sessions'[g].state) BY <1>1, <3>3 DEF StageFact
    <3> QED BY <3>3, <3>4, <3>5
  <2>2. CASE ~\E g \in DOMAIN sessions : table[g] = d
    <3>1. link[d] # "open" /\ link[d] \in {"unused", "backlog", "open", "closed"}
      <4>1. TypeOK /\ PollMatchesSessions BY DEF Ind
      <4>2. link[d] # "open" BY <2>2, <4>1 DEF PollMatchesSessions
      <4>3. link[d] \in {"unused", "backlog", "open", "closed"} BY <4>1 DEF TypeOK
      <4> QED BY <4>2, <4>3
    <3>2. CASE link[d] = "closed" BY <3>2, <1>1 DEF StageFact
    <3>3. CASE link[d] \in {"unused", "backlog"} BY <1>1, <3>3 DEF StageFact
    <3> QED BY <3>1, <3>2, <3>3
  <2> QED BY <2>1, <2>2
<1> QED BY <1>2, <1>3 DEF AStage

LEMMA AcceptRefines ==
  ASSUME Ind, Ind', NEW c \in Conns, NEW fd \in Fds, NEW stray \in Stray, Accept(c, fd, stray)
  PROVE  Requests!Admit(c)
<1>1. /\ link[c] = "backlog" /\ fd \notin DOMAIN table /\ DOMAIN table = DOMAIN sessions
      /\ link \in [Conns -> {"unused", "backlog", "open", "closed"}]
  BY DEF Accept, Ind, TypeOK, PollMatchesSessions
<1>2. /\ fd \in DOMAIN sessions' /\ table'[fd] = c /\ sessions'[fd].state = "HEADER_PENDING"
      /\ \A g \in DOMAIN sessions \ {fd} :
           g \in DOMAIN sessions' /\ sessions'[g] = sessions[g] /\ table'[g] = table[g]
      /\ \A d \in Conns \ {c} : link'[d] = link[d]
      /\ UNCHANGED <<got, traced, tasks, results>>
  BY <1>1 DEF Accept, NewSession, queues
<1>3. "reading" = StageName(sessions'[fd].state) BY <1>2 DEF StageName
<1>4. AStage' = [AStage EXCEPT ![c] = "reading"] BY <1>1, <1>2, <1>3, StageMoves
<1>5. AStage[c] = "new" BY <1>1, StageIs DEF StageFact, AStage
<1>6. APending' = APending /\ AAnswered' = AAnswered BY <1>2 DEF APending, AAnswered, InFlight
<1> QED BY <1>2, <1>4, <1>5, <1>6 DEF Requests!Admit, Requests!Turn, AStage, APending, AAnswered

LEMMA CloseRefines ==
  ASSUME Ind, Ind', HeaderFails \/ BodyFails \/ SendFails
  PROVE  \E c \in Conns : Requests!Close(c)
<1>1. PICK event : Scanning(event) BY DEF HeaderFails, BodyFails, SendFails, Receiving
<1>2. /\ CloseEntry /\ Entry.fd # Listener /\ Session.state # "INFERENCE_PENDING"
  <2>1. CASE HeaderFails \/ BodyFails BY <2>1 DEF HeaderFails, BodyFails, Receiving
  <2>2. CASE SendFails
    <3>1. Scanning("out") /\ Session.response # << >> /\ CloseEntry BY <2>2 DEF SendFails
    <3>2. Entry.fd # Listener /\ i \in 1..Len(pollfds) BY <3>1, ScanFacts
    <3>3. i \in DOMAIN pollfds /\ i >= i /\ pollfds[i].revents = "out" /\ pc = "scan"
      BY <3>1, <3>2 DEF Ind, TypeOK, Scanning, Entry
    <3>4. Session.state = "RESPONSE_SENDING"
      BY <3>1, <3>3 DEF Ind, StrayHarmless, Entry, Session
    <3> QED BY <3>1, <3>2, <3>4
  <2> QED BY <2>1, <2>2
<1>3. PICK fd, c : fd = Entry.fd /\ c = Conn OBVIOUS
<1>4. /\ fd \in DOMAIN sessions /\ c \in Conns /\ c = table[fd]
      /\ sessions[fd].state # "INFERENCE_PENDING"
  BY <1>1, <1>2, <1>3, ScanFacts DEF Conn, Session
<1>5. DOMAIN table = DOMAIN sessions /\ link \in [Conns -> {"unused", "backlog", "open", "closed"}]
  BY DEF Ind, TypeOK, PollMatchesSessions
<1>6. /\ fd \notin DOMAIN sessions' /\ link'[c] = "closed"
      /\ \A g \in DOMAIN sessions \ {fd} :
           g \in DOMAIN sessions' /\ sessions'[g] = sessions[g] /\ table'[g] = table[g]
      /\ \A d \in Conns \ {c} : link'[d] = link[d]
      /\ UNCHANGED <<got, traced, tasks, results>>
  BY <1>2, <1>3, <1>4, <1>5 DEF CloseEntry, queues
<1>7. AStage' = [AStage EXCEPT ![c] = "closed"] BY <1>4, <1>6, StageMoves
<1>8. AStage[c] \in {"reading", "replying"}
  <2>1. AStage[c] = StageName(sessions[fd].state) BY <1>4, StageIs DEF StageFact, AStage
  <2> QED BY <1>4, <2>1 DEF StageName
<1>9. APending' = APending /\ AAnswered' = AAnswered BY <1>6 DEF APending, AAnswered, InFlight
<1> QED BY <1>4, <1>6, <1>7, <1>8, <1>9 DEF Requests!Close, AStage, APending, AAnswered

LEMMA DestroyRefines ==
  ASSUME Ind, Ind', Destroy
  PROVE  Requests!Stop
<1>1. /\ \A c \in Conns : link'[c] = IF link[c] = "unused" THEN "unused" ELSE "closed"
      /\ UNCHANGED <<got, traced, tasks, results>>
  BY DEF Destroy, queues
<1>2. StageFact /\ StageFact' BY StageIs, StageNext
<1>3. \A c \in Conns : /\ Stage(c)' \in {"new", "closed"}
                       /\ Stage(c)' = "new" => Stage(c) = "new"
  BY <1>1, <1>2 DEF StageFact
<1>4. AStage' \in [Conns -> {"new", "closed"}] /\ \A c \in Conns : AStage'[c] = "new" => AStage[c] = "new"
  BY <1>3 DEF AStage
<1>5. APending' = APending /\ AAnswered' = AAnswered BY <1>1 DEF APending, AAnswered, InFlight
<1> QED BY <1>1, <1>4, <1>5 DEF Requests!Stop, AStage, APending, AAnswered

LEMMA HeaderRefines ==
  ASSUME Ind, Ind', ProcessHeader
  PROVE  AStutter
<1>1. PICK fd : fd = Entry.fd OBVIOUS
<1>2. Scanning("in") /\ fd # Listener /\ Session = sessions[fd] /\ Session.state = "HEADER_PENDING"
  BY <1>1 DEF ProcessHeader, Receiving, Session
<1>3. fd \in DOMAIN sessions /\ Session \in ClientSession BY <1>1, <1>2, ScanFacts
<1>4. PICK s2 : /\ (s2.state = "HEADER_PENDING" \/ s2.state = "BODY_PENDING")
                /\ sessions' = [sessions EXCEPT ![fd] = s2]
  <2>1. PICK r, h, e : Update([Session EXCEPT !.header = h, !.state = "BODY_PENDING", !.expected = e])
                         \/ Update([Session EXCEPT !.header = h])
    <3>1. PICK r : IF Session.header + r = HeaderBytes
                   THEN Update([Session EXCEPT !.header = HeaderBytes, !.state = "BODY_PENDING",
                                               !.expected = HeaderAt(Conn, Consumed(Conn) + r)])
                   ELSE Update([Session EXCEPT !.header = Session.header + r])
      BY Zenon DEF ProcessHeader
    <3> QED BY <3>1
  <2>2. CASE Update([Session EXCEPT !.header = h, !.state = "BODY_PENDING", !.expected = e])
    <3>1. PICK x : x = [Session EXCEPT !.header = h, !.state = "BODY_PENDING", !.expected = e] OBVIOUS
    <3>2. x.state = "HEADER_PENDING" \/ x.state = "BODY_PENDING" BY <1>3, <3>1 DEF ClientSession
    <3>3. sessions' = [sessions EXCEPT ![fd] = x] BY <1>1, <2>2, <3>1 DEF Update
    <3> QED BY <3>2, <3>3
  <2>3. CASE Update([Session EXCEPT !.header = h])
    <3>1. PICK x : x = [Session EXCEPT !.header = h] OBVIOUS
    <3>2. x.state = "HEADER_PENDING" \/ x.state = "BODY_PENDING" BY <1>2, <1>3, <3>1 DEF ClientSession
    <3>3. sessions' = [sessions EXCEPT ![fd] = x] BY <1>1, <2>3, <3>1 DEF Update
    <3> QED BY <3>2, <3>3
  <2> QED BY <2>1, <2>2, <2>3
<1>5. UNCHANGED <<table, link, traced, got, tasks, results>> BY DEF ProcessHeader, queues
<1>6. DOMAIN sessions' = DOMAIN sessions BY <1>4
<1>7. \A g \in DOMAIN sessions : StageName(sessions'[g].state) = StageName(sessions[g].state)
  BY <1>2, <1>3, <1>4 DEF StageName
<1> QED BY <1>5, <1>6, <1>7, QuietStep

(* A complete body is submitted, whether or not the queue accepts it.      *)
LEMMA BodyRefines ==
  ASSUME Ind, Ind', ProcessBody
  PROVE  AStutter \/ \E c \in Conns, accepted \in BOOLEAN : Requests!Submit(c, accepted)
<1>1. PICK fd, c : fd = Entry.fd /\ c = Conn OBVIOUS
<1>2. Scanning("in") /\ fd # Listener /\ Session = sessions[fd] /\ Session.state = "BODY_PENDING"
  BY <1>1 DEF ProcessBody, Receiving, Session
<1>3. /\ fd \in DOMAIN sessions /\ Session \in ClientSession /\ c \in Conns /\ c = table[fd]
      /\ pollfds # << >>
  BY <1>1, <1>2, ScanFacts DEF Conn
<1>4. UNCHANGED <<pollfds, table, link, traced, got, results>> BY DEF ProcessBody
<1>5. /\ tasks \in Seq(Work) /\ Len(tasks) \in Nat /\ DOMAIN tasks = 1..Len(tasks)
  BY DEF Ind, TypeOK
<1>6. PICK s2, x :
        /\ sessions' = [sessions EXCEPT ![fd] = s2]
        /\ \/ s2.state = "BODY_PENDING" /\ tasks' = tasks
           \/ s2.state = "INFERENCE_PENDING" /\ tasks' = tasks
           \/ s2.state = "INFERENCE_PENDING" /\ x.fd = fd /\ tasks' = Append(tasks, x)
  <2>1. PICK n, d : \/ /\ Update([Session EXCEPT !.received = n, !.state = "INFERENCE_PENDING"])
                       /\ tasks' = tasks \/ tasks' = Append(tasks, [fd |-> Entry.fd, data |-> d])
                    \/ Update([Session EXCEPT !.received = n]) /\ tasks' = tasks
    <3>1. PICK r, n : IF n = Session.expected
                      THEN /\ Update([Session EXCEPT !.received = n, !.state = "INFERENCE_PENDING"])
                           /\ \E pushed \in PushResults :
                                tasks' = IF pushed
                                         THEN Append(tasks, [fd |-> Entry.fd,
                                                             data |-> BodyAt(Conn, Consumed(Conn) + r)])
                                         ELSE tasks
                      ELSE /\ Update([Session EXCEPT !.received = n])
                           /\ UNCHANGED tasks
      BY Zenon DEF ProcessBody
    <3> QED BY <3>1
  <2> DEFINE s3 == [Session EXCEPT !.received = n, !.state = "INFERENCE_PENDING"]
             s4 == [Session EXCEPT !.received = n]
             y == [fd |-> Entry.fd, data |-> d]
  <2>2. s3.state = "INFERENCE_PENDING" /\ s4.state = "BODY_PENDING" /\ y.fd = fd
    BY <1>1, <1>2, <1>3 DEF ClientSession
  <2>3. \/ sessions' = [sessions EXCEPT ![fd] = s3] /\ (tasks' = tasks \/ tasks' = Append(tasks, y))
        \/ sessions' = [sessions EXCEPT ![fd] = s4] /\ tasks' = tasks
    BY <1>1, <2>1 DEF Update
  <2> HIDE DEF s3, s4, y
  <2> QED BY <2>2, <2>3
<1>7. /\ DOMAIN sessions' = DOMAIN sessions /\ sessions'[fd] = s2
      /\ \A g \in DOMAIN sessions \ {fd} :
           g \in DOMAIN sessions' /\ sessions'[g] = sessions[g] /\ table'[g] = table[g]
  BY <1>3, <1>4, <1>6
<1>8. CASE s2.state = "BODY_PENDING"
  <2>1. tasks' = tasks BY <1>6, <1>8
  <2>2. \A g \in DOMAIN sessions : StageName(sessions'[g].state) = StageName(sessions[g].state)
    BY <1>2, <1>7, <1>8 DEF StageName
  <2> QED BY <1>4, <1>7, <2>1, <2>2, QuietStep
<1>9. CASE s2.state = "INFERENCE_PENDING"
  <2>1. AStage[c] = "reading"
    <3>1. AStage[c] = StageName(sessions[fd].state) BY <1>3, StageIs DEF StageFact, AStage
    <3> QED BY <1>2, <3>1 DEF StageName
  <2>2. "waiting" = StageName(sessions'[fd].state) BY <1>7, <1>9 DEF StageName
  <2>3. AStage' = [AStage EXCEPT ![c] = "waiting"] BY <1>3, <1>4, <1>7, <2>2, StageMoves
  <2>4. AAnswered' = AAnswered BY <1>4 DEF AAnswered
  <2>5. CASE tasks' = tasks
    <3>1. APending' = APending BY <1>4, <2>5 DEF APending, InFlight
    <3>2. Requests!Submit(c, FALSE)
      BY <1>4, <2>1, <2>3, <2>4, <3>1 DEF Requests!Submit, Requests!Turn, AStage, APending, AAnswered
    <3> QED BY <1>3, <3>2
  <2>6. CASE x.fd = fd /\ tasks' = Append(tasks, x)
    <3>1. PICK n \in Nat : n = Len(tasks) BY <1>5
    <3>2. /\ DOMAIN tasks' = 1..(n + 1) /\ DOMAIN tasks = 1..n /\ tasks'[n + 1] = x
          /\ \A k \in 1..n : tasks'[k] = tasks[k]
      BY <1>5, <2>6, <3>1
    <3>3. x.data = <<c, traced[c] + 1>>
      <4>1. Flight' BY <1>3, <1>4 DEF Ind, FlightOK
      <4>2. n + 1 \in DOMAIN tasks' BY <3>2
      <4> QED BY <1>3, <1>4, <2>6, <3>2, <4>1, <4>2 DEF Flight, Owned
    <3>4. {tasks'[k].data : k \in DOMAIN tasks'} = {tasks[k].data : k \in DOMAIN tasks} \cup {x.data}
      <4>1. \A k \in 1..(n + 1) : k \in 1..n \/ k = n + 1 OBVIOUS
      <4>2. n + 1 \in 1..(n + 1) /\ \A k \in 1..n : k \in 1..(n + 1) OBVIOUS
      <4> QED BY <3>2, <4>1, <4>2
    <3>5. APending' = APending \cup {<<c, traced[c] + 1>>}
      <4>1. APending = {tasks[k].data : k \in DOMAIN tasks} \cup {results[k].data : k \in DOMAIN results}
        BY PendingIs
      <4>2. APending' = {tasks'[k].data : k \in DOMAIN tasks'} \cup {results[k].data : k \in DOMAIN results}
        BY <1>4, PendingNext
      <4> QED BY <3>3, <3>4, <4>1, <4>2
    <3>6. Requests!Submit(c, TRUE)
      BY <1>4, <2>1, <2>3, <2>4, <3>5
         DEF Requests!Submit, Requests!Turn, Requests!Current, AStage, APending, AAnswered
    <3> QED BY <1>3, <3>6
  <2> QED BY <1>6, <1>9, <2>5, <2>6
<1> QED BY <1>6, <1>8, <1>9

(* handle_responses hands the oldest result to its session.                *)
LEMMA PopRefines ==
  ASSUME Ind, Ind', PopResponse
  PROVE  \E c \in Conns : Requests!Reply(c)
<1>1. TypeOK /\ PollMatchesSessions BY DEF Ind
<1>2. pc = "responses" /\ results # << >> /\ results' = Tail(results)
  BY DEF PopResponse, PopImmediate
<1>3. pollfds # << >> /\ Flight BY <1>2 DEF Ind, PollMatchesSessions, FlightOK
<1>4. results \in Seq(Work) BY <1>1 DEF TypeOK
<1>5. PICK l \in Nat : l = Len(results) /\ l > 0 /\ DOMAIN results = 1..l
  BY <1>2, <1>4
<1>6. /\ DOMAIN results' = 1..(l - 1) /\ Head(results) = results[1]
      /\ \A k \in 1..(l - 1) : results'[k] = results[k + 1]
  BY <1>2, <1>4, <1>5
<1>7. PICK x, fd, c : x = results[1] /\ fd = x.fd /\ c = table[fd] OBVIOUS
<1>8. 1 \in DOMAIN results BY <1>5
<1>9. /\ fd \in DOMAIN sessions /\ sessions[fd].state = "INFERENCE_PENDING"
      /\ x.data = <<c, traced[c] + 1>>
  BY <1>3, <1>7, <1>8 DEF Flight, Owned
<1>10. fd \in DOMAIN table /\ c \in Conns /\ \A g \in DOMAIN table : g # fd => table[g] # c
  BY <1>1, <1>7, <1>9 DEF TypeOK, PollMatchesSessions
<1>11. sessions[fd] \in ClientSession BY <1>1, <1>9 DEF TypeOK
<1>12. PICK s2 : /\ sessions' = [sessions EXCEPT ![fd] = s2] /\ s2.state = "RESPONSE_SENDING"
                 /\ traced' = [traced EXCEPT ![c] = @ + 1]
  <2>1. IF x.fd \in DOMAIN sessions
        THEN /\ sessions' = [sessions EXCEPT ![x.fd] =
                              [@ EXCEPT !.state = "RESPONSE_SENDING",
                                        !.response = x.data, !.sent = 0]]
             /\ traced' = [traced EXCEPT ![table[x.fd]] = @ + 1]
        ELSE UNCHANGED <<sessions, traced>>
    BY <1>6, <1>7 DEF PopResponse
  <2> DEFINE y == [sessions[fd] EXCEPT !.state = "RESPONSE_SENDING", !.response = x.data, !.sent = 0]
  <2>2. sessions' = [sessions EXCEPT ![fd] = y] /\ traced' = [traced EXCEPT ![c] = @ + 1]
    BY <1>7, <1>9, <2>1
  <2>3. y.state = "RESPONSE_SENDING" BY <1>11 DEF ClientSession
  <2> HIDE DEF y
  <2> QED BY <2>2, <2>3
<1>13. UNCHANGED <<pollfds, table, link, got, tasks>> BY DEF PopResponse
<1>14. /\ fd \in DOMAIN sessions' /\ sessions'[fd] = s2
       /\ \A g \in DOMAIN sessions \ {fd} :
            g \in DOMAIN sessions' /\ sessions'[g] = sessions[g] /\ table'[g] = table[g]
  BY <1>9, <1>12, <1>13
<1>15. "replying" = StageName(sessions'[fd].state) BY <1>12, <1>14 DEF StageName
<1>16. AStage' = [AStage EXCEPT ![c] = "replying"]
  <2>1. table[fd] = c /\ table'[fd] = c /\ \A d \in Conns \ {c} : link'[d] = link[d] BY <1>7, <1>13
  <2> QED BY <1>10, <1>14, <1>15, <2>1, StageMoves
<1>17. AStage[c] = "waiting"
  <2>1. AStage[c] = StageName(sessions[fd].state) BY <1>7, <1>9, <1>10, StageIs DEF StageFact, AStage
  <2> QED BY <1>9, <2>1 DEF StageName
<1>18. AAnswered' = AAnswered BY <1>13 DEF AAnswered
<1> DEFINE T == {tasks[k].data : k \in DOMAIN tasks}
           R == {results[k].data : k \in DOMAIN results}
           S == {results'[k].data : k \in DOMAIN results'}
<1>19. APending = T \cup R BY PendingIs
<1>20. APending' = T \cup S BY <1>13, PendingNext
<1>21. ASSUME NEW y, Owned(y), y.fd # fd PROVE y.data # x.data
  <2>1. y.fd \in DOMAIN sessions /\ y.data = <<table[y.fd], traced[table[y.fd]] + 1>>
    BY <1>21 DEF Owned
  <2>2. table[y.fd] # c BY <1>1, <1>10, <1>21, <2>1 DEF PollMatchesSessions
  <2> QED BY <1>9, <2>1, <2>2
<1>22. ASSUME NEW k \in DOMAIN tasks PROVE tasks[k].data # x.data
  BY <1>3, <1>7, <1>8, <1>21 DEF Flight
<1>23. ASSUME NEW k \in DOMAIN results, k # 1 PROVE results[k].data # x.data
  BY <1>3, <1>7, <1>8, <1>21, <1>23 DEF Flight
<1>24. S = R \ {x.data}
  <2>1. ASSUME NEW k \in DOMAIN results' PROVE results'[k].data \in R \ {x.data}
    <3>1. k + 1 \in DOMAIN results /\ k + 1 # 1 /\ results'[k] = results[k + 1] BY <1>5, <1>6
    <3> QED BY <1>23, <3>1
  <2>2. ASSUME NEW k \in DOMAIN results, results[k].data # x.data PROVE results[k].data \in S
    <3>1. k # 1 BY <1>7, <2>2
    <3>2. k - 1 \in DOMAIN results' /\ (k - 1) + 1 = k BY <1>5, <1>6, <3>1
    <3>3. results'[k - 1] = results[k] BY <1>6, <3>2
    <3> QED BY <3>2, <3>3
  <2> QED BY <2>1, <2>2
<1>25. x.data \in R /\ x.data \notin T BY <1>7, <1>8, <1>22
<1>26. APending' = APending \ {x.data} /\ x.data \in APending
  <2> HIDE DEF T, R, S
  <2> QED BY <1>19, <1>20, <1>24, <1>25
<1>27. Requests!Reply(c)
  BY <1>9, <1>12, <1>16, <1>17, <1>18, <1>26
     DEF Requests!Reply, Requests!Turn, Requests!Current, AStage, APending, AAnswered
<1> QED BY <1>10, <1>27

(* The last byte of the response makes the answer complete.                *)
LEMMA SendRefines ==
  ASSUME Ind, Ind', NEW n \in 0..ResponseBytes, Send(n)
  PROVE  AStutter \/ \E c \in Conns : Requests!Answer(c)
<1>1. TypeOK BY DEF Ind
<1>2. Scanning("out") BY DEF Send
<1>3. PICK fd, c, s : fd = Entry.fd /\ c = Conn /\ s = Session OBVIOUS
<1>4. /\ fd \in DOMAIN sessions /\ c \in Conns /\ s \in ClientSession
      /\ c = table[fd] /\ s = sessions[fd] /\ i \in 1..Len(pollfds) /\ pc = "scan"
  BY <1>2, <1>3, ScanFacts DEF Conn, Session
<1>5. /\ n \in IF s.response = << >> THEN {0} ELSE 0..(ResponseBytes - s.sent)
      /\ IF n > 0 /\ s.sent + n = ResponseBytes
         THEN /\ sessions' = [sessions EXCEPT ![fd] =
                   [NewSession EXCEPT !.response = s.response, !.sent = ResponseBytes]]
              /\ got' = [got EXCEPT ![c] = Append(@, s.response)]
         ELSE /\ sessions' = [sessions EXCEPT ![fd] = [s EXCEPT !.sent = s.sent + n]]
              /\ UNCHANGED got
  BY <1>3, Zenon DEF Send, Update
<1>6. UNCHANGED <<pollfds, table, link, traced, tasks, results>> BY DEF Send, queues
<1>7. CASE ~(n > 0 /\ s.sent + n = ResponseBytes)
  <2>1. PICK s2 : s2 = [s EXCEPT !.sent = s.sent + n] OBVIOUS
  <2>2. s2.state = s.state BY <1>4, <2>1 DEF ClientSession
  <2>3. sessions' = [sessions EXCEPT ![fd] = s2] /\ got' = got BY <1>5, <1>7, <2>1
  <2>4. DOMAIN sessions' = DOMAIN sessions BY <2>3
  <2>5. \A g \in DOMAIN sessions : StageName(sessions'[g].state) = StageName(sessions[g].state)
    BY <1>4, <2>2, <2>3
  <2> QED BY <1>6, <2>3, <2>4, <2>5, QuietStep
<1>8. CASE n > 0 /\ s.sent + n = ResponseBytes
  <2>1. s.response # << >> BY <1>5, <1>8
  <2>2. s.state = "RESPONSE_SENDING"
    <3>1. i \in DOMAIN pollfds /\ i >= i /\ pollfds[i].revents = "out" /\ pc = "scan"
      BY <1>1, <1>2, <1>4 DEF Scanning, Entry, TypeOK
    <3> QED BY <1>3, <2>1, <3>1 DEF Ind, StrayHarmless, Entry, Session
  <2>3. PICK s2 : s2 = [NewSession EXCEPT !.response = s.response, !.sent = ResponseBytes] OBVIOUS
  <2>4. s2.state = "HEADER_PENDING" BY <2>3 DEF NewSession
  <2>5. /\ sessions' = [sessions EXCEPT ![fd] = s2]
        /\ got' = [got EXCEPT ![c] = Append(@, s.response)]
    BY <1>5, <1>8, <2>3
  <2>6. /\ fd \in DOMAIN sessions' /\ sessions'[fd] = s2
        /\ \A g \in DOMAIN sessions \ {fd} :
             g \in DOMAIN sessions' /\ sessions'[g] = sessions[g] /\ table'[g] = table[g]
    BY <1>4, <1>6, <2>5
  <2>7. "reading" = StageName(sessions'[fd].state) BY <2>4, <2>6 DEF StageName
  <2>8. AStage' = [AStage EXCEPT ![c] = "reading"] BY <1>4, <1>6, <2>6, <2>7, StageMoves
  <2>9. AStage[c] = "replying"
    <3>1. AStage[c] = StageName(sessions[fd].state) BY <1>4, StageIs DEF StageFact, AStage
    <3> QED BY <1>4, <2>2, <3>1 DEF StageName
  <2>10. AAnswered' = [AAnswered EXCEPT ![c] = @ + 1]
    <3>1. got \in [Conns -> Seq(Contents)] BY <1>1 DEF TypeOK
    <3>2. s.response \in Contents \cup {<< >>} BY <1>4 DEF ClientSession
    <3>3. got[c] \in Seq(Contents) /\ s.response \in Contents BY <1>4, <2>1, <3>1, <3>2
    <3>4. Len(Append(got[c], s.response)) = Len(got[c]) + 1 BY <3>3
    <3>5. \A d \in Conns : Len(got'[d]) = IF d = c THEN Len(got[c]) + 1 ELSE Len(got[d])
      BY <1>4, <2>5, <3>1, <3>4
    <3> QED BY <1>4, <3>5 DEF AAnswered
  <2>11. APending' = APending BY <1>6 DEF APending, InFlight
  <2>12. Requests!Answer(c)
    BY <1>6, <2>8, <2>9, <2>10, <2>11 DEF Requests!Answer, Requests!Turn, AStage, APending, AAnswered
  <2> QED BY <1>4, <2>12
<1> QED BY <1>7, <1>8

LEMMA RequestsStep ==
  ASSUME Ind, Ind', [Next]_vars
  PROVE  Requests!RRNext \/ AStutter
<1>1. CASE PopResponse BY <1>1, PopRefines DEF Requests!RRNext
<1>2. CASE SkipEntry \/ AcceptFails \/ EndScan \/ SigPipe
  <2>1. UNCHANGED <<sessions, table, link, traced, got, tasks, results>>
    BY <1>2 DEF SkipEntry, AcceptFails, EndScan, SigPipe, queues
  <2> QED BY <2>1, QuietStep
<1>3. CASE ProcessHeader BY <1>3, HeaderRefines
<1>4. CASE ProcessBody BY <1>4, BodyRefines DEF Requests!RRNext
<1>5. CASE HeaderFails \/ BodyFails \/ SendFails BY <1>5, CloseRefines DEF Requests!RRNext
<1>6. CASE Destroy BY <1>6, DestroyRefines DEF Requests!RRNext
<1>7. ASSUME NEW hup \in {"none", "hup"}, Poll(hup) PROVE AStutter
  <2>1. UNCHANGED <<sessions, table, link, traced, got, tasks, results>> BY <1>7 DEF Poll, queues
  <2> QED BY <2>1, QuietStep
<1>8. ASSUME NEW c \in Conns, NEW fd \in Fds, NEW stray \in Stray, Accept(c, fd, stray)
      PROVE  Requests!RRNext
  BY <1>8, AcceptRefines DEF Requests!RRNext
<1>9. ASSUME NEW n \in 0..ResponseBytes, Send(n) PROVE Requests!RRNext \/ AStutter
  BY <1>9, SendRefines DEF Requests!RRNext
<1>10. ASSUME NEW c \in Conns, Connect(c) PROVE AStutter
  <2>1. UNCHANGED <<sessions, table, traced, got, tasks, results>> BY <1>10 DEF Connect, queues
  <2>2. link \in [Conns -> {"unused", "backlog", "open", "closed"}] BY DEF Ind, TypeOK
  <2>3. \A d \in Conns : link'[d] = link[d] \/ (link[d] = "unused" /\ link'[d] = "backlog")
    BY <1>10, <2>2 DEF Connect
  <2> QED BY <2>1, <2>3, QuietStep
<1>11. ASSUME NEW c \in Conns, Deliver(c) \/ Hangup(c) \/ \E s \in Sizes : Request(c, s)
       PROVE  AStutter
  <2>1. UNCHANGED <<sessions, table, link, traced, got, tasks, results>>
    BY <1>11 DEF Deliver, Hangup, Request, server, queues
  <2> QED BY <2>1, QuietStep
<1>12. CASE SignalHandler \/ UNCHANGED vars
  <2>1. UNCHANGED <<sessions, table, link, traced, got, tasks, results>>
    BY <1>12 DEF SignalHandler, vars, server, queues
  <2> QED BY <2>1, QuietStep
<1>13. ASSUME NEW k \in DOMAIN tasks, Infer(k) PROVE AStutter
  <2>1. UNCHANGED <<sessions, table, link, traced, got>> BY <1>13 DEF Infer, server
  <2>2. PICK l \in Nat, n \in Nat : /\ l = Len(tasks) /\ DOMAIN tasks = 1..l
                                  /\ n = Len(results) /\ DOMAIN results = 1..n
    <3>1. tasks \in Seq(Work) /\ results \in Seq(Work) BY DEF Ind, TypeOK
    <3> QED BY <3>1
  <2>3. /\ DOMAIN tasks' = 1..(l - 1)
        /\ \A j \in 1..(l - 1) : tasks'[j] = IF j < k THEN tasks[j] ELSE tasks[j + 1]
    <3>1. tasks \in Seq(Work) /\ k \in 1..Len(tasks) /\ tasks' = RemoveAt(tasks, k)
      BY <1>13, <2>2 DEF Ind, TypeOK, Infer
    <3>2. tasks' \in Seq(Work) /\ Len(tasks') = l - 1 BY <2>2, <3>1, RemoveAtFacts
    <3> QED BY <2>2, <3>1, <3>2, RemoveAtFacts
  <2>4. /\ DOMAIN results' = 1..(n + 1) /\ results'[n + 1] = tasks[k]
        /\ \A j \in 1..n : results'[j] = results[j]
    <3>1. results \in Seq(Work) /\ results' = Append(results, tasks[k])
      BY <1>13 DEF Ind, TypeOK, Infer
    <3> QED BY <2>2, <3>1
  <2> DEFINE T == {tasks[j].data : j \in DOMAIN tasks}
             R == {results[j].data : j \in DOMAIN results}
             T2 == {tasks'[j].data : j \in DOMAIN tasks'}
             R2 == {results'[j].data : j \in DOMAIN results'}
  <2>5. T2 \subseteq T
    <3> SUFFICES ASSUME NEW j \in DOMAIN tasks' PROVE tasks'[j].data \in T
      OBVIOUS
    <3>1. j \in DOMAIN tasks /\ j + 1 \in DOMAIN tasks BY <2>2, <2>3
    <3>2. tasks'[j] = tasks[j] \/ tasks'[j] = tasks[j + 1] BY <2>3
    <3> QED BY <3>1, <3>2
  <2>6. R2 = R \cup {tasks[k].data}
    <3>1. \A j \in 1..(n + 1) : j \in 1..n \/ j = n + 1 OBVIOUS
    <3>2. n + 1 \in 1..(n + 1) /\ \A j \in 1..n : j \in 1..(n + 1) OBVIOUS
    <3> QED BY <2>2, <2>4, <3>1, <3>2
  <2>7. T \subseteq T2 \cup {tasks[k].data}
    <3> SUFFICES ASSUME NEW j \in DOMAIN tasks, j # k PROVE tasks[j].data \in T2
      OBVIOUS
    <3>1. CASE j < k
      <4>1. j \in DOMAIN tasks' /\ tasks'[j] = tasks[j] BY <2>2, <2>3, <3>1
      <4> QED BY <4>1
    <3>2. CASE ~(j < k)
      <4>1. j - 1 \in 1..(l - 1) /\ ~(j - 1 < k) /\ (j - 1) + 1 = j BY <2>2, <3>2
      <4>2. j - 1 \in DOMAIN tasks' /\ tasks'[j - 1] = tasks[j] BY <2>3, <4>1
      <4> QED BY <4>2
    <3> QED BY <3>1, <3>2
  <2>8. tasks[k].data \in T OBVIOUS
  <2>9. APending = T \cup R BY PendingIs
  <2>10. APending' = T2 \cup R2 BY PendingNext
  <2>11. APending' = APending
    <3> HIDE DEF T, R, T2, R2
    <3> QED BY <2>5, <2>6, <2>7, <2>8, <2>9, <2>10
  <2>12. AStage' = AStage BY <2>1 DEF AStage, Stage, SessionOf
  <2> QED BY <2>1, <2>11, <2>12 DEF AStutter, AAnswered
<1> QED BY <1>1, <1>2, <1>3, <1>4, <1>5, <1>6, <1>7, <1>8, <1>9, <1>10, <1>11, <1>12, <1>13
        DEF Next, ServerStep

LEMMA RequestsInit == Init => Requests!RRInit
<1> SUFFICES ASSUME Init PROVE Requests!RRInit
  OBVIOUS
<1>1. \A c \in Conns : Stage(c) = "new" BY DEF Init, Stage
<1>2. DOMAIN InFlight = {} BY DEF Init, InFlight
<1>3. \A c \in Conns : Len(got[c]) = 0 BY DEF Init
<1> QED BY <1>1, <1>2, <1>3 DEF Requests!RRInit, Init

(* TCPServer.cpp implements the request cycle: a session has one request   *)
(* at a time with the pool, is not closed while it waits, and hands every  *)
(* result on once.                                                         *)
THEOREM ServerImplementsRequests == Spec => ImplementsRequests
<1>1. Init => Requests!RRInit BY RequestsInit
<1>2. Ind /\ Ind' /\ [Next]_vars => [Requests!RRNext]_(Requests!rrvars)
  <2> SUFFICES ASSUME Ind, Ind', [Next]_vars PROVE [Requests!RRNext]_(Requests!rrvars)
    OBVIOUS
  <2>1. Requests!RRNext \/ AStutter BY RequestsStep
  <2>2. AStutter => UNCHANGED Requests!rrvars
    BY DEF AStutter, AStage, APending, AAnswered, Requests!rrvars
  <2> QED BY <2>1, <2>2
<1> QED BY <1>1, <1>2, AlwaysInd, PTL DEF Spec, ImplementsRequests, Requests!RRSpec
=============================================================================

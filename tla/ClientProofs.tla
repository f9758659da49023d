---------------------------- MODULE ClientProofs ----------------------------
(***************************************************************************)
(* What an EthernetClient rests on, for all values of the constants: the   *)
(* bytes it writes reach the peer, and the name it connects to is looked   *)
(* up.                                                                     *)
(*                                                                         *)
(* The transmit path (TcpTransmit).  TInv: the stream, which is what the   *)
(* peer has and what lies in lwIP's queue behind it, is exact up to what   *)
(* the program has been told is written and what the call that is inside   *)
(* loop() has written.  StreamExact alone is not inductive: it does not    *)
(* say that the peer has no more than was queued, that a FIN is the last   *)
(* thing queued, nor how many bytes a call has queued that it has not yet  *)
(* returned.                                                               *)
(*                                                                         *)
(* Lookups (DNSLookup).  Times are compared on a clock that wraps;         *)
(* what makes the comparison right is that neither a request nor a call    *)
(* lives as long as the clock takes to come round.                         *)
(***************************************************************************)
EXTENDS TcpTransmit, DNSLookup, FiniteSetTheorems, SequenceTheorems, TLAPS

-----------------------------------------------------------------------------
(* The transmit path: the invariant.                                       *)

\* What a tcp_pcb is.
Pcb == [up : BOOLEAN, fin : BOOLEAN, rxClosed : BOOLEAN, refused : BOOLEAN,
        queue : Seq(Int), flight : Nat, wnd : Nat, nrtx : Nat, acked : Nat]

\* Stream and StreamExact, of any PCB and any stream.
StreamOf(t, g) == g \o SubSeq(t.queue, Len(g) - t.acked + 1, Len(t.queue))

\* Of the program's n bytes, the stream s has the first ones, in order and once each,
\* and all of them unless the queue was thrown away (l); a FIN is its end.
Exact(s, n, l) ==
    /\ \E k \in 0..n : {b \in Range(s) : b > 0} = 1..k /\ (~l => k = n)
    /\ \A i, j \in DOMAIN s : i < j /\ s[i] > 0 /\ s[j] > 0 => s[i] < s[j]
    /\ \A i \in DOMAIN s : s[i] = Fin => i = Len(s)

\* The peer never has more than was queued, and the queue never more than
\* TCP_SND_BUF bytes.
QueueFits(t, g) ==
    /\ t \in Pcb /\ g \in Seq(Int)
    /\ t.flight <= Len(t.queue) /\ t.acked <= Len(g)
    /\ t.up => Len(g) - t.acked <= Len(t.queue)
    /\ ~t.up => t.queue = <<>>
    /\ DataIn(t.queue) <= TCP_SND_BUF

\* The stream is whole; a queue is thrown away only with its PCB, and before the
\* FIN is queued there is none in the stream.
Whole(t, g, n, l) ==
    /\ QueueFits(t, g) /\ n \in Nat /\ l \in BOOLEAN
    /\ l <=> ~t.up
    /\ t.up /\ ~t.fin => \A i \in DOMAIN StreamOf(t, g) : StreamOf(t, g)[i] # Fin
    /\ Exact(StreamOf(t, g), n, l)

\* What a call has written is more than nothing only when it is done.
CallInStep ==
    /\ pos \in Nat /\ call.rem \in Nat /\ call.written \in 0..call.rem
    /\ call = Call(call.op, call.at, call.rem, call.written)
    /\ call.at # "done" => call.written = 0
    /\ call.op \in {"none", "close", "stopWait", "closeOutput"} => call.at = "loop"

\* The inductive invariant.
TInv == CallInStep /\ Whole(pcb, got, pos + call.written, lost)

-----------------------------------------------------------------------------
(* Counting bytes.                                                         *)

\* n numbers in a row.
LEMMA IntervalSize ==
    ASSUME NEW m \in Nat, NEW n \in Nat
    PROVE  IsFiniteSet((m + 1)..(m + n)) /\ Cardinality((m + 1)..(m + n)) = n
<1>1. m + 1 \in Int /\ m + n \in Int
  OBVIOUS
<1>2. /\ IsFiniteSet((m + 1)..(m + n))
      /\ Cardinality((m + 1)..(m + n)) = IF m + 1 > m + n THEN 0 ELSE (m + n) - (m + 1) + 1
  BY <1>1, FS_Interval
<1> QED
  BY <1>2

\* A set of numbers that has all smaller ones is 1..m.
LEMMA InitialSegment ==
    ASSUME NEW k \in Nat, NEW D \in SUBSET (1..k), \A b \in D : \A c \in 1..b : c \in D
    PROVE  \E m \in 0..k : D = 1..m
<1>1. IsFiniteSet(1..k) /\ Cardinality(1..k) = k
  BY FS_Interval
<1>2. IsFiniteSet(D) /\ Cardinality(D) <= k
  BY <1>1, FS_Subset
<1>3. Cardinality(D) \in 0..k
  BY <1>2, FS_CardinalityType
<1>4. IsFiniteSet(1..Cardinality(D)) /\ Cardinality(1..Cardinality(D)) = Cardinality(D)
  BY <1>3, FS_Interval
<1>5. D \in SUBSET (1..Cardinality(D))
  <2> SUFFICES ASSUME NEW b \in D
               PROVE  b <= Cardinality(D)
    BY <1>3
  <2>1. (1..b) \in SUBSET D /\ b \in 1..k
    OBVIOUS
  <2>2. Cardinality(1..b) = b
    BY <2>1, FS_Interval
  <2>3. Cardinality(1..b) <= Cardinality(D)
    BY <1>2, <2>1, FS_Subset
  <2> QED
    BY <2>2, <2>3
<1>6. D = 1..Cardinality(D)
  BY <1>4, <1>5, FS_Subset
<1> QED
  BY <1>3, <1>6

\* The bytes in a queue are counted (TCP_SND_BUF).
LEMMA DataInType ==
    ASSUME NEW q \in Seq(Int)
    PROVE  /\ IsFiniteSet({i \in DOMAIN q : q[i] # Fin})
           /\ DataIn(q) \in Nat
<1>1. IsFiniteSet(1..Len(q))
  BY FS_Interval
<1>2. {i \in DOMAIN q : q[i] # Fin} \in SUBSET (1..Len(q))
  OBVIOUS
<1>3. IsFiniteSet({i \in DOMAIN q : q[i] # Fin})
  BY <1>1, <1>2, FS_Subset
<1> QED
  BY <1>3, FS_CardinalityType DEF DataIn

\* What is queued behind a queue adds to it.
LEMMA DataInConcat ==
    ASSUME NEW q \in Seq(Int), NEW r \in Seq(Int), \A i \in DOMAIN r : r[i] # Fin
    PROVE  DataIn(q \o r) = DataIn(q) + Len(r)
<1> DEFINE A == {i \in DOMAIN q : q[i] # Fin}
           B == (Len(q) + 1)..(Len(q) + Len(r))
           C == {i \in DOMAIN (q \o r) : (q \o r)[i] # Fin}
<1>1. C = A \cup B
  OBVIOUS
<1>2. A \cap B = {}
  OBVIOUS
<1>3. IsFiniteSet(A) /\ Cardinality(A) \in Nat /\ DataIn(q) = Cardinality(A)
  BY DataInType DEF DataIn
<1>4. IsFiniteSet(B) /\ Cardinality(B) = Len(r)
  <2>1. Len(q) \in Nat /\ Len(r) \in Nat
    OBVIOUS
  <2> QED
    BY <2>1, IntervalSize
<1>5. DataIn(q \o r) = Cardinality(C)
  BY DEF DataIn
<1> HIDE DEF A, B, C
<1>6. Cardinality(A \cup B) = Cardinality(A) + Cardinality(B) - Cardinality(A \cap B)
  BY <1>3, <1>4, FS_Union
<1>7. Cardinality(A \cap B) = 0
  BY <1>2, FS_EmptySet
<1>8. Len(r) \in Nat
  OBVIOUS
<1> QED
  BY <1>1, <1>3, <1>4, <1>5, <1>6, <1>7, <1>8

\* A FIN is no byte.
LEMMA DataInFin ==
    ASSUME NEW q \in Seq(Int)
    PROVE  DataIn(Append(q, Fin)) = DataIn(q)
<1>1. {i \in DOMAIN Append(q, Fin) : Append(q, Fin)[i] # Fin} = {i \in DOMAIN q : q[i] # Fin}
  OBVIOUS
<1> QED
  BY <1>1 DEF DataIn

\* An acknowledgement makes it no larger.
LEMMA DataInSuffix ==
    ASSUME NEW q \in Seq(Int), NEW n \in 0..Len(q)
    PROVE  DataIn(SubSeq(q, n + 1, Len(q))) <= DataIn(q)
<1> DEFINE r == SubSeq(q, n + 1, Len(q))
           A == {i \in DOMAIN q : q[i] # Fin}
           C == {i \in DOMAIN r : r[i] # Fin}
           f == [i \in C |-> i + n]
<1>1. r \in Seq(Int) /\ Len(r) = Len(q) - n /\ \A i \in 1..Len(r) : r[i] = q[i + n]
  <2>1. Len(q) \in Nat /\ \A i \in (n + 1)..Len(q) : q[i] \in Int
    OBVIOUS
  <2>2. r \in Seq(Int) /\ Len(r) = Len(q) - n
    BY <2>1
  <2>3. \A i \in 1..(Len(q) - n) : r[i] = q[i + n]
    BY <2>1
  <2> QED
    BY <2>2, <2>3
<1>2. f \in [C -> A] /\ \A i, j \in C : f[i] = f[j] => i = j
  BY <1>1
<1>3. f \in Injection(C, A)
  BY <1>2 DEF Injection, IsInjective
<1>4. IsFiniteSet(A)
  BY DataInType
<1>5. Cardinality(C) <= Cardinality(A)
  BY <1>3, <1>4, FS_Injection
<1> QED
  BY <1>5 DEF DataIn

\* Min of two numbers.
LEMMA MinFacts ==
    ASSUME NEW a \in Nat, NEW b \in Nat
    PROVE  Min({a, b}) \in Nat /\ Min({a, b}) <= a /\ Min({a, b}) <= b
<1>1. \E x \in {a, b} : \A y \in {a, b} : x <= y
  OBVIOUS
<1> QED
  BY <1>1 DEF Min
-----------------------------------------------------------------------------
(* Streams that grow, and streams that are cut.                            *)

\* r is s with k elements behind it.
Extends(r, s, k) ==
    /\ Len(r) = Len(s) + k
    /\ \A i \in 1..Len(s) : r[i] = s[i]

\* A stream without a FIN.
NoFin(s) == \A i \in 1..Len(s) : s[i] # Fin

\* A stream that bytes are put behind, which are new ones in order or no bytes of
\* the program.
LEMMA ExactGrows ==
    ASSUME NEW s \in Seq(Int), NEW r \in Seq(Int), NEW n \in Nat, NEW k \in Nat, NEW m \in Nat,
           Extends(r, s, k), Exact(s, n, FALSE), NoFin(s),
           \A i \in (Len(s) + 1)..(Len(s) + k) : r[i] > 0 => r[i] > n,
           \A i, j \in (Len(s) + 1)..(Len(s) + k) :
               i < j /\ r[i] > 0 /\ r[j] > 0 => r[i] < r[j],
           \A i \in (Len(s) + 1)..(Len(s) + k) : r[i] <= n + m,
           \A x \in (n + 1)..(n + m) : \E i \in (Len(s) + 1)..(Len(s) + k) : r[i] = x,
           \A i \in (Len(s) + 1)..(Len(s) + k) : r[i] = Fin => i = Len(s) + k
    PROVE  Exact(r, n + m, FALSE)
<1>1. /\ Len(s) \in Nat /\ DOMAIN s = 1..Len(s) /\ DOMAIN r = 1..(Len(s) + k)
      /\ \A i \in 1..(Len(s) + k) : r[i] \in Int
  BY DEF Extends
<1>2. \A i \in 1..Len(s) : r[i] = s[i]
  BY DEF Extends
<1>3. {x \in Range(s) : x > 0} = 1..n
  BY DEF Exact
<1>4. \A i \in 1..Len(s) : s[i] <= n
  <2> SUFFICES ASSUME NEW i \in 1..Len(s), s[i] > n
               PROVE  FALSE
    BY <1>1, <1>2
  <2>1. i \in DOMAIN s /\ s[i] \in Int
    OBVIOUS
  <2>2. s[i] \in Range(s)
    BY <2>1 DEF Range
  <2>3. s[i] > 0
    BY <2>1
  <2>4. s[i] \in 1..n
    BY <2>2, <2>3, <1>3
  <2> QED
    BY <2>4
<1>5. {x \in Range(r) : x > 0} = 1..(n + m)
  <2>1. ASSUME NEW i \in 1..(Len(s) + k), r[i] > 0
        PROVE  r[i] \in 1..(n + m)
    <3>1. CASE i <= Len(s)
      BY <2>1, <3>1, <1>1, <1>2, <1>4
    <3>2. CASE i \in (Len(s) + 1)..(Len(s) + k)
      BY <2>1, <3>2, <1>1
    <3> QED
      BY <3>1, <3>2, <1>1
  <2>2. ASSUME NEW x \in 1..(n + m)
        PROVE  \E i \in 1..(Len(s) + k) : r[i] = x
    <3>1. CASE x <= n
      <4>1. x \in Range(s)
        BY <3>1, <1>3
      <4>2. PICK i \in 1..Len(s) : x = s[i]
        BY <4>1, <1>1 DEF Range
      <4> QED
        BY <4>2, <1>1, <1>2
    <3>2. CASE x > n
      <4>1. PICK i \in (Len(s) + 1)..(Len(s) + k) : r[i] = x
        BY <3>2
      <4> QED
        BY <4>1, <1>1
    <3> QED
      BY <3>1, <3>2
  <2>3. ASSUME NEW x \in Range(r), x > 0
        PROVE  x \in 1..(n + m)
    <3>1. PICK i \in 1..(Len(s) + k) : x = r[i]
      BY <1>1 DEF Range
    <3> QED
      BY <3>1, <2>1, <2>3
  <2>4. ASSUME NEW x \in 1..(n + m)
        PROVE  x \in Range(r) /\ x > 0
    <3>1. PICK i \in DOMAIN r : x = r[i]
      BY <1>1, <2>2
    <3>2. x \in Range(r)
      BY <3>1 DEF Range
    <3> QED
      BY <3>2
  <2> QED
    BY <2>3, <2>4
<1>6. ASSUME NEW i \in 1..(Len(s) + k), NEW j \in 1..(Len(s) + k), i < j, r[i] > 0, r[j] > 0
      PROVE  r[i] < r[j]
  <2>1. CASE j <= Len(s)
    <3>1. i \in DOMAIN s /\ j \in DOMAIN s /\ s[i] = r[i] /\ s[j] = r[j]
      BY <2>1, <1>1, <1>2, <1>6
    <3> QED
      BY <3>1, <1>6 DEF Exact
  <2>2. CASE i <= Len(s) /\ j > Len(s)
    <3>1. s[i] = r[i] /\ s[i] <= n
      BY <2>2, <1>1, <1>2, <1>4
    <3>2. j \in (Len(s) + 1)..(Len(s) + k)
      BY <2>2, <1>1
    <3>3. r[j] > n
      BY <3>2, <1>6
    <3> QED
      BY <3>1, <3>3, <1>1, <1>2
  <2>3. CASE i > Len(s)
    <3>1. i \in (Len(s) + 1)..(Len(s) + k) /\ j \in (Len(s) + 1)..(Len(s) + k)
      BY <2>3, <1>1, <1>6
    <3> QED
      BY <3>1, <1>6
  <2> QED
    BY <2>1, <2>2, <2>3, <1>1
<1>7. ASSUME NEW i \in 1..(Len(s) + k), r[i] = Fin
      PROVE  i = Len(r)
  <2>1. CASE i <= Len(s)
    BY <2>1, <1>1, <1>2, <1>7 DEF NoFin
  <2>2. CASE i \in (Len(s) + 1)..(Len(s) + k)
    BY <2>2, <1>7 DEF Extends
  <2> QED
    BY <2>1, <2>2, <1>1
<1>8. (n + m) \in 0..(n + m)
  OBVIOUS
<1> QED
  BY <1>1, <1>5, <1>6, <1>7, <1>8 DEF Exact

\* The program's next bytes are put behind a stream.
LEMMA ExactBytes ==
    ASSUME NEW s \in Seq(Int), NEW n \in Nat, NEW k \in Nat, Exact(s, n, FALSE), NoFin(s)
    PROVE  /\ Exact(s \o [i \in 1..k |-> n + i], n + k, FALSE)
           /\ NoFin(s \o [i \in 1..k |-> n + i])
<1> DEFINE b == [i \in 1..k |-> n + i]
<1>1. b \in Seq(Int) /\ Len(b) = k
  OBVIOUS
<1>2. PICK r \in Seq(Int) : r = s \o b
  <2>1. s \o b \in Seq(Int)
    BY <1>1
  <2> HIDE DEF b
  <2> QED
    BY <2>1
<1>3. /\ Extends(r, s, k) /\ Len(s) \in Nat /\ Len(r) = Len(s) + k
      /\ \A i \in (Len(s) + 1)..(Len(s) + k) : r[i] = n + (i - Len(s))
  BY <1>1, <1>2 DEF Extends
<1> HIDE DEF b
<1>4. ASSUME NEW x \in (n + 1)..(n + k)
      PROVE  \E i \in (Len(s) + 1)..(Len(s) + k) : r[i] = x
  <2>1. Len(s) + (x - n) \in (Len(s) + 1)..(Len(s) + k)
    BY <1>3
  <2>2. r[Len(s) + (x - n)] = n + ((Len(s) + (x - n)) - Len(s))
    BY <2>1, <1>3
  <2>3. n + ((Len(s) + (x - n)) - Len(s)) = x
    BY <1>3
  <2> QED
    BY <2>1, <2>2, <2>3
<1>5. Exact(r, n + k, FALSE)
  <2>1. \A i \in (Len(s) + 1)..(Len(s) + k) : r[i] > n /\ r[i] <= n + k /\ r[i] # Fin
    BY <1>3 DEF Fin
  <2>2. \A i, j \in (Len(s) + 1)..(Len(s) + k) : i < j => r[i] < r[j]
    BY <1>3
  <2> QED
    BY <2>1, <2>2, <1>3, <1>4, ExactGrows
<1>6. NoFin(r)
  <2> SUFFICES ASSUME NEW i \in 1..(Len(s) + k) PROVE r[i] # Fin
    BY <1>3 DEF NoFin
  <2>1. CASE i \in 1..Len(s)
    BY <2>1, <1>3 DEF NoFin, Extends
  <2>2. CASE i \in (Len(s) + 1)..(Len(s) + k)
    BY <2>2, <1>3 DEF Fin
  <2> QED
    BY <2>1, <2>2, <1>3
<1> QED
  BY <1>2, <1>5, <1>6 DEF b

\* Bytes of a broadcast are put behind a stream.
LEMMA ExactCasts ==
    ASSUME NEW s \in Seq(Int), NEW n \in Nat, NEW k \in Nat, Exact(s, n, FALSE), NoFin(s)
    PROVE  /\ Exact(s \o [i \in 1..k |-> Cast], n, FALSE)
           /\ NoFin(s \o [i \in 1..k |-> Cast])
<1> DEFINE b == [i \in 1..k |-> Cast]
<1>1. b \in Seq(Int) /\ Len(b) = k
  BY DEF Cast
<1>2. PICK r \in Seq(Int) : r = s \o b
  <2>1. s \o b \in Seq(Int)
    BY <1>1
  <2> HIDE DEF b
  <2> QED
    BY <2>1
<1>3. /\ Extends(r, s, k) /\ Len(s) \in Nat /\ Len(r) = Len(s) + k
      /\ \A i \in (Len(s) + 1)..(Len(s) + k) : r[i] = 0
  BY <1>1, <1>2 DEF Extends, Cast
<1> HIDE DEF b
<1>4. \A i \in (Len(s) + 1)..(Len(s) + k) : ~(r[i] > 0) /\ r[i] <= n + 0 /\ r[i] # Fin
  BY <1>3 DEF Fin
<1>5. (n + 1)..(n + 0) = {}
  OBVIOUS
<1>6. Exact(r, n + 0, FALSE)
  BY <1>3, <1>4, <1>5, ExactGrows
<1>7. n + 0 = n
  OBVIOUS
<1>8. NoFin(r)
  <2> SUFFICES ASSUME NEW i \in 1..(Len(s) + k) PROVE r[i] # Fin
    BY <1>3 DEF NoFin
  <2>1. CASE i \in 1..Len(s)
    BY <2>1, <1>3 DEF NoFin, Extends
  <2>2. CASE i \in (Len(s) + 1)..(Len(s) + k)
    BY <2>2, <1>4
  <2> QED
    BY <2>1, <2>2, <1>3
<1> QED
  BY <1>2, <1>6, <1>7, <1>8 DEF b

\* A FIN is put behind a stream.
LEMMA ExactFin ==
    ASSUME NEW s \in Seq(Int), NEW n \in Nat, Exact(s, n, FALSE), NoFin(s)
    PROVE  Exact(Append(s, Fin), n, FALSE)
<1>1. PICK r \in Seq(Int) : r = Append(s, Fin)
  <2>1. Append(s, Fin) \in Seq(Int)
    BY DEF Fin
  <2> QED
    BY <2>1
<1>2. /\ Extends(r, s, 1) /\ Len(s) \in Nat /\ Len(r) = Len(s) + 1
      /\ \A i \in (Len(s) + 1)..(Len(s) + 1) : r[i] = -1 /\ i = Len(s) + 1
  BY <1>1 DEF Extends, Fin
<1>3. \A i \in (Len(s) + 1)..(Len(s) + 1) : ~(r[i] > 0) /\ r[i] <= n + 0
  BY <1>2
<1>4. (n + 1)..(n + 0) = {}
  OBVIOUS
<1>5. Exact(r, n + 0, FALSE)
  BY <1>2, <1>3, <1>4, ExactGrows
<1>6. n + 0 = n
  OBVIOUS
<1> QED
  BY <1>1, <1>5, <1>6

\* The queue is thrown away: what the peer has is the first part of a stream.
LEMMA ExactPrefix ==
    ASSUME NEW g \in Seq(Int), NEW s \in Seq(Int), NEW n \in Nat, NEW l \in BOOLEAN,
           Exact(s, n, l), Len(g) <= Len(s), \A i \in 1..Len(g) : s[i] = g[i]
    PROVE  Exact(g, n, TRUE)
<1>1. /\ DOMAIN s = 1..Len(s) /\ DOMAIN g = 1..Len(g)
      /\ Len(s) \in Nat /\ Len(g) \in Nat
  OBVIOUS
<1>2. PICK k \in 0..n : {b \in Range(s) : b > 0} = 1..k
  BY DEF Exact
<1>3. \A i, j \in DOMAIN s : i < j /\ s[i] > 0 /\ s[j] > 0 => s[i] < s[j]
  BY DEF Exact
<1>4. \A i \in DOMAIN s : s[i] = Fin => i = Len(s)
  BY DEF Exact
<1> DEFINE Data == {b \in Range(g) : b > 0}
<1>5. Data \in SUBSET (1..k)
  <2> SUFFICES ASSUME NEW b \in Data PROVE b \in 1..k
    OBVIOUS
  <2>1. PICK i \in 1..Len(g) : b = g[i]
    BY <1>1 DEF Range
  <2>2. i \in DOMAIN s /\ s[i] = b
    BY <1>1, <2>1
  <2>3. b \in Range(s)
    BY <2>2 DEF Range
  <2> QED
    BY <2>3, <1>2
<1>6. ASSUME NEW b \in Data, NEW c \in 1..b
      PROVE  c \in Data
  <2>1. PICK j \in 1..Len(g) : b = g[j]
    BY <1>6 DEF Range
  <2>2. j \in DOMAIN s /\ s[j] = b
    BY <1>1, <2>1
  <2>3. c \in 1..k /\ b \in 1..k
    BY <1>5, <1>6
  <2>4. PICK i \in DOMAIN s : s[i] = c
    BY <2>3, <1>2 DEF Range
  <2>5. i <= j
    BY <2>2, <2>3, <2>4, <1>1, <1>3
  <2>6. i \in DOMAIN g /\ g[i] = c
    BY <2>4, <2>5, <2>1, <1>1
  <2> QED
    BY <2>3, <2>6 DEF Range
<1> HIDE DEF Data
<1>7. PICK m \in 0..k : Data = 1..m
  <2>1. k \in Nat /\ \A b \in Data : \A c \in 1..b : c \in Data
    BY <1>6
  <2> QED
    BY <2>1, <1>5, InitialSegment
<1>8. \A i, j \in DOMAIN g : i < j /\ g[i] > 0 /\ g[j] > 0 => g[i] < g[j]
  BY <1>1, <1>3
<1>9. \A i \in DOMAIN g : g[i] = Fin => i = Len(g)
  BY <1>1, <1>4
<1>10. m \in 0..n /\ Data = 1..m
  BY <1>7
<1> QED
  BY <1>8, <1>9, <1>10 DEF Exact, Data

-----------------------------------------------------------------------------
(* lwIP's queue.                                                           *)

\* What is behind the first n elements.
LEMMA Suffix ==
    ASSUME NEW q \in Seq(Int), NEW n \in 0..Len(q)
    PROVE  /\ SubSeq(q, n + 1, Len(q)) \in Seq(Int)
           /\ Len(SubSeq(q, n + 1, Len(q))) = Len(q) - n
           /\ \A i \in 1..(Len(q) - n) : SubSeq(q, n + 1, Len(q))[i] = q[n + i]
  OBVIOUS

\* What \o does, element by element.
LEMMA ConcatInts ==
    ASSUME NEW q \in Seq(Int), NEW r \in Seq(Int)
    PROVE  /\ Len(q) \in Nat /\ Len(r) \in Nat
           /\ q \o r \in Seq(Int) /\ Len(q \o r) = Len(q) + Len(r)
           /\ \A i \in 1..Len(q) : (q \o r)[i] = q[i]
           /\ \A i \in 1..Len(r) : (q \o r)[Len(q) + i] = r[i]
  OBVIOUS

\* \o is associative.
LEMMA ConcatIntsAssoc ==
    ASSUME NEW q \in Seq(Int), NEW r \in Seq(Int), NEW s \in Seq(Int)
    PROVE  q \o (r \o s) = (q \o r) \o s
  OBVIOUS

\* What is put behind a sequence is behind its first n elements.
LEMMA SuffixOfConcat ==
    ASSUME NEW q \in Seq(Int), NEW r \in Seq(Int), NEW n \in 0..Len(q)
    PROVE  SubSeq(q \o r, n + 1, Len(q \o r)) = SubSeq(q, n + 1, Len(q)) \o r
<1>1. PICK w \in Seq(Int) : w = q \o r
  BY ConcatInts
<1>2. /\ Len(q) \in Nat /\ Len(r) \in Nat /\ Len(w) = Len(q) + Len(r)
      /\ \A i \in 1..Len(q) : w[i] = q[i]
      /\ \A i \in 1..Len(r) : w[Len(q) + i] = r[i]
  BY <1>1, ConcatInts
<1>3. n \in 0..Len(w)
  BY <1>2
<1>4. PICK a \in Seq(Int) : a = SubSeq(w, n + 1, Len(w))
  BY <1>3, Suffix
<1>5. Len(a) = Len(w) - n /\ \A i \in 1..(Len(w) - n) : a[i] = w[n + i]
  BY <1>3, <1>4, Suffix
<1>6. PICK b \in Seq(Int) : b = SubSeq(q, n + 1, Len(q))
  BY Suffix
<1>7. Len(b) = Len(q) - n /\ \A i \in 1..(Len(q) - n) : b[i] = q[n + i]
  BY <1>6, Suffix
<1>8. PICK c \in Seq(Int) : c = b \o r
  BY ConcatInts
<1>9. /\ Len(c) = Len(b) + Len(r)
      /\ \A i \in 1..Len(b) : c[i] = b[i]
      /\ \A i \in 1..Len(r) : c[Len(b) + i] = r[i]
  BY <1>8, ConcatInts
<1>10. ASSUME NEW i \in 1..Len(a)
       PROVE  a[i] = c[i]
  <2>1. CASE i <= Len(q) - n
    <3>1. a[i] = w[n + i] /\ w[n + i] = q[n + i]
      BY <1>2, <1>5, <2>1
    <3>2. c[i] = b[i] /\ b[i] = q[n + i]
      BY <1>2, <1>7, <1>9, <2>1
    <3> QED
      BY <3>1, <3>2
  <2>2. CASE i > Len(q) - n
    <3> DEFINE j == i - (Len(q) - n)
    <3>1. j \in 1..Len(r) /\ n + i = Len(q) + j /\ i = Len(b) + j /\ i \in 1..(Len(w) - n)
      BY <1>2, <1>5, <1>7, <2>2
    <3> HIDE DEF j
    <3>2. w[n + i] = r[j]
      BY <1>2, <3>1
    <3>3. c[i] = r[j]
      BY <1>9, <3>1
    <3> QED
      BY <1>5, <3>1, <3>2, <3>3
  <2> QED
    BY <2>1, <2>2, <1>2
<1>11. Len(a) = Len(c)
  BY <1>2, <1>5, <1>7, <1>9
<1>12. a = c
  BY <1>10, <1>11, SeqEqual
<1> QED
  BY <1>1, <1>4, <1>6, <1>8, <1>12

\* The stream of a PCB: what lies in the queue behind what the peer has.
LEMMA StreamShape ==
    ASSUME NEW t, NEW g, QueueFits(t, g)
    PROVE  /\ StreamOf(t, g) \in Seq(Int)
           /\ Len(StreamOf(t, g)) >= Len(g)
           /\ \A i \in 1..Len(g) : StreamOf(t, g)[i] = g[i]
           /\ t.up => Len(StreamOf(t, g)) = t.acked + Len(t.queue)
           /\ t.up => \A i \in (Len(g) + 1)..(t.acked + Len(t.queue)) :
                        StreamOf(t, g)[i] = t.queue[i - t.acked]
           /\ ~t.up => StreamOf(t, g) = g
<1> DEFINE n == Len(g) - t.acked
           r == SubSeq(t.queue, n + 1, Len(t.queue))
<1>1. /\ t.queue \in Seq(Int) /\ g \in Seq(Int) /\ t.acked \in Nat /\ n \in Nat
      /\ Len(g) \in Nat /\ Len(t.queue) \in Nat
  BY DEF QueueFits, Pcb
<1>2. StreamOf(t, g) = g \o r
  BY DEF StreamOf
<1>3. CASE t.up
  <2>1. n \in 0..Len(t.queue)
    BY <1>1, <1>3 DEF QueueFits
  <2>2. r \in Seq(Int) /\ Len(r) = Len(t.queue) - n
        /\ \A i \in 1..(Len(t.queue) - n) : r[i] = t.queue[n + i]
    BY <1>1, <2>1, Suffix
  <2> HIDE DEF r
  <2>3. /\ g \o r \in Seq(Int) /\ Len(g \o r) = Len(g) + Len(r)
        /\ \A i \in 1..Len(g) : (g \o r)[i] = g[i]
        /\ \A i \in 1..Len(r) : (g \o r)[Len(g) + i] = r[i]
    BY <1>1, <2>2, ConcatInts
  <2>4. Len(g) + Len(r) = t.acked + Len(t.queue) /\ Len(g) <= Len(g) + Len(r)
    <3>1. PICK k \in Nat, m \in Nat, a \in Nat :
            k = Len(g) /\ m = Len(t.queue) /\ a = t.acked
      BY <1>1
    <3>2. Len(r) = m - (k - a) /\ k - a <= m /\ Len(r) \in Nat
      BY <2>1, <2>2, <3>1
    <3> QED
      BY <3>1, <3>2
  <2>5. ASSUME NEW i \in (Len(g) + 1)..(t.acked + Len(t.queue))
        PROVE  (g \o r)[i] = t.queue[i - t.acked]
    <3> DEFINE j == i - Len(g)
    <3>1. j \in 1..Len(r) /\ i = Len(g) + j /\ n + j = i - t.acked
      <4>1. PICK k \in Nat, m \in Nat, a \in Nat : k = Len(g) /\ m = Len(r) /\ a = t.acked
        BY <1>1, <2>2
      <4>2. i \in (k + 1)..(k + m) /\ j = i - k /\ n = k - a
        BY <2>4, <4>1
      <4>3. j \in 1..m /\ i = k + j /\ n + j = i - a
        BY <4>2
      <4> QED
        BY <4>1, <4>3
    <3> HIDE DEF j, n
    <3>2. (g \o r)[i] = r[j] /\ r[j] = t.queue[n + j]
      BY <2>2, <2>3, <3>1
    <3> QED
      BY <3>1, <3>2
  <2> HIDE DEF n
  <2> QED
    BY <1>2, <1>3, <2>3, <2>4, <2>5
<1>4. CASE ~t.up
  <2>1. t.queue = <<>>
    BY <1>4 DEF QueueFits
  <2>2. r = <<>>
    BY <1>1, <2>1
  <2> HIDE DEF r
  <2>3. g \o <<>> = g
    BY <1>1
  <2>4. StreamOf(t, g) = g
    BY <1>2, <2>2, <2>3
  <2> QED
    BY <1>1, <1>4, <2>4
<1> QED
  BY <1>3, <1>4

\* Fields that the stream does not depend on.
LEMMA SameQueue ==
    ASSUME NEW t, NEW g, NEW n, NEW l, Whole(t, g, n, l), NEW u \in Pcb,
           u.queue = t.queue, u.acked = t.acked, u.up = t.up, u.fin = t.fin,
           u.flight <= Len(u.queue)
    PROVE  Whole(u, g, n, l) /\ StreamOf(u, g) = StreamOf(t, g)
<1>1. StreamOf(u, g) = StreamOf(t, g)
  BY DEF StreamOf
<1>2. QueueFits(u, g)
  BY DEF Whole, QueueFits
<1> QED
  BY <1>1, <1>2 DEF Whole

\* tcp_output() moves elements from unsent to unacked, and the stream is the same.
LEMMA OutputKeeps ==
    ASSUME NEW t, NEW g, NEW n, NEW l, Whole(t, g, n, l), NEW u \in tcp_output(t)
    PROVE  Whole(u, g, n, l) /\ u.queue = t.queue /\ u.up = t.up /\ u.fin = t.fin
<1>1. t \in Pcb /\ t.flight \in 0..Len(t.queue)
  BY DEF Whole, QueueFits, Pcb
<1>2. PICK k \in Fits(t) \cup {t.flight} : u = [t EXCEPT !.flight = k]
  BY DEF tcp_output
<1>3. k \in 0..Len(t.queue)
  BY <1>1, <1>2 DEF Fits, Pcb
<1>4. k \in Nat /\ k <= Len(t.queue)
  BY <1>1, <1>3 DEF Pcb
<1>5. u \in Pcb
  BY <1>1, <1>2, <1>4 DEF Pcb
<1>6. /\ u.queue = t.queue /\ u.acked = t.acked /\ u.up = t.up /\ u.fin = t.fin
      /\ u.flight = k
  BY <1>1, <1>2 DEF Pcb
<1> QED
  BY <1>4, <1>5, <1>6, SameQueue

\* The stream of a connection that is up and has no FIN yet.
LEMMA OpenStream ==
    ASSUME NEW t, NEW g, NEW n, NEW l, Whole(t, g, n, l), t.up, ~t.fin
    PROVE  /\ StreamOf(t, g) \in Seq(Int) /\ n \in Nat /\ l = FALSE
           /\ Exact(StreamOf(t, g), n, FALSE) /\ NoFin(StreamOf(t, g))
<1>1. StreamOf(t, g) \in Seq(Int)
  BY StreamShape DEF Whole
<1>2. n \in Nat /\ l = FALSE
  BY DEF Whole
<1>3. Exact(StreamOf(t, g), n, l)
  BY DEF Whole
<1>4. \A i \in DOMAIN StreamOf(t, g) : StreamOf(t, g)[i] # Fin
  BY DEF Whole
<1>5. DOMAIN StreamOf(t, g) = 1..Len(StreamOf(t, g))
  BY <1>1
<1>6. NoFin(StreamOf(t, g))
  BY <1>4, <1>5 DEF NoFin
<1> QED
  BY <1>1, <1>2, <1>3, <1>6

\* More is queued behind the stream.
LEMMA StreamGrows ==
    ASSUME NEW t, NEW g, QueueFits(t, g), t.up, NEW r \in Seq(Int), NEW u,
           u.queue = t.queue \o r, u.acked = t.acked
    PROVE  StreamOf(u, g) = StreamOf(t, g) \o r
<1>0. PICK q \in Seq(Int) : q = t.queue
  BY DEF QueueFits, Pcb
<1> DEFINE n == Len(g) - t.acked
<1>1. /\ q \in Seq(Int) /\ g \in Seq(Int) /\ n \in 0..Len(q)
      /\ Len(g) \in Nat /\ Len(q) \in Nat /\ Len(r) \in Nat
  BY <1>0 DEF QueueFits, Pcb
<1> HIDE DEF n
<1>2. SubSeq(q \o r, n + 1, Len(q \o r)) = SubSeq(q, n + 1, Len(q)) \o r
  BY <1>1, SuffixOfConcat
<1>3. SubSeq(q, n + 1, Len(q)) \in Seq(Int)
  BY <1>1, Suffix
<1>4. g \o (SubSeq(q, n + 1, Len(q)) \o r) = (g \o SubSeq(q, n + 1, Len(q))) \o r
  <2>1. PICK v \in Seq(Int) : v = SubSeq(q, n + 1, Len(q))
    BY <1>3
  <2>2. g \o (v \o r) = (g \o v) \o r
    <3>1. g \in Seq(Int)
      BY <1>1
    <3> QED
      BY <3>1, ConcatIntsAssoc, Zenon
  <2> QED
    BY <2>1, <2>2
<1>5. StreamOf(u, g) = g \o SubSeq(q \o r, n + 1, Len(q \o r))
  BY <1>0 DEF StreamOf, n
<1>6. StreamOf(t, g) = g \o SubSeq(q, n + 1, Len(q))
  BY <1>0 DEF StreamOf, n
<1> QED
  BY <1>2, <1>4, <1>5, <1>6

\* tcp_send_fin(): a FIN is queued once.
LEMMA SendFinKeeps ==
    ASSUME NEW t, NEW g, NEW n, NEW l, Whole(t, g, n, l)
    PROVE  Whole(SendFin(t), g, n, l) /\ SendFin(t).up = t.up
<1>1. CASE ~(t.up /\ ~t.fin)
  BY <1>1 DEF SendFin
<1>2. CASE t.up /\ ~t.fin
  <2> DEFINE u == SendFin(t)
             s == StreamOf(t, g)
  <2>1. t \in Pcb /\ t.queue \in Seq(Int)
    BY DEF Whole, QueueFits, Pcb
  <2>2. /\ u \in Pcb /\ u.queue = Append(t.queue, Fin) /\ u.acked = t.acked /\ u.up = t.up
        /\ u.fin = TRUE /\ u.flight = t.flight
    <3>1. Append(t.queue, Fin) \in Seq(Int)
      BY <2>1 DEF Fin
    <3> QED
      BY <1>2, <2>1, <3>1 DEF SendFin, Pcb
  <2> HIDE DEF u
  <2>3. /\ DataIn(u.queue) = DataIn(t.queue) /\ Len(u.queue) = Len(t.queue) + 1
        /\ u.queue = t.queue \o <<Fin>> /\ <<Fin>> \in Seq(Int)
    <3>1. Fin \in Int
      BY DEF Fin
    <3>2. DataIn(Append(t.queue, Fin)) = DataIn(t.queue)
      BY <2>1, DataInFin
    <3>3. Append(t.queue, Fin) = t.queue \o <<Fin>> /\ Len(Append(t.queue, Fin)) = Len(t.queue) + 1
      BY <2>1, <3>1, AppendIsConcat, AppendProperties
    <3>4. <<Fin>> \in Seq(Int)
      BY <3>1
    <3> QED
      BY <2>2, <3>2, <3>3, <3>4
  <2>4. QueueFits(u, g)
    BY <1>2, <2>1, <2>2, <2>3 DEF Whole, QueueFits, Pcb
  <2>5. StreamOf(u, g) = s \o <<Fin>>
    BY <1>2, <2>2, <2>3, StreamGrows DEF Whole
  <2>0. t.up /\ ~t.fin
    BY <1>2
  <2>6. s \in Seq(Int) /\ Exact(s, n, FALSE) /\ NoFin(s) /\ n \in Nat /\ l = FALSE
    <3>1. n \in Nat /\ l = FALSE
      BY <2>0 DEF Whole
    <3>2. s \in Seq(Int)
      BY <2>0, OpenStream
    <3>3. Exact(s, n, FALSE)
      BY <2>0, OpenStream
    <3>4. NoFin(s)
      BY <2>0, OpenStream
    <3> QED BY <3>1, <3>2, <3>3, <3>4
  <2> HIDE DEF s
  <2>7. Append(s, Fin) = s \o <<Fin>>
    BY <2>6, AppendIsConcat DEF Fin
  <2>8. Exact(StreamOf(u, g), n, FALSE)
    BY <2>5, <2>6, <2>7, ExactFin
  <2>9. Whole(u, g, n, l)
    BY <1>2, <2>2, <2>4, <2>6, <2>8 DEF Whole
  <2> QED
    BY <2>2, <2>9 DEF u
<1> QED
  BY <1>1, <1>2

\* The PCB is gone, and its queue with it.
LEMMA DroppedKeeps ==
    ASSUME NEW t, NEW g, NEW n, NEW l, Whole(t, g, n, l)
    PROVE  Whole(Dropped(t), g, n, TRUE) /\ ~Dropped(t).up
<1> DEFINE u == Dropped(t)
<1>1. t \in Pcb /\ g \in Seq(Int)
  BY DEF Whole, QueueFits
<1>2. /\ u \in Pcb /\ u.queue = <<>> /\ u.acked = t.acked /\ u.up = FALSE /\ u.flight = 0
  <2>1. <<>> \in Seq(Int)
    OBVIOUS
  <2> QED
    BY <1>1, <2>1 DEF Dropped, Pcb
<1>3. DataIn(<<>>) <= TCP_SND_BUF
  <2>1. {i \in DOMAIN <<>> : <<>>[i] # Fin} = {}
    OBVIOUS
  <2> QED
    BY <2>1, FS_EmptySet, SizeAssumption DEF DataIn
<1> HIDE DEF u
<1>4. QueueFits(u, g)
  BY <1>1, <1>2, <1>3 DEF Whole, QueueFits, Pcb
<1>5. StreamOf(u, g) = g
  BY <1>2, <1>4, StreamShape
<1>6. Exact(g, n, TRUE)
  <2>1. /\ StreamOf(t, g) \in Seq(Int) /\ Len(g) <= Len(StreamOf(t, g))
        /\ \A i \in 1..Len(g) : StreamOf(t, g)[i] = g[i]
    <3>1. QueueFits(t, g)
      BY DEF Whole
    <3>2. Len(g) \in Nat /\ Len(StreamOf(t, g)) \in Nat
      BY <3>1, <1>1, StreamShape
    <3> QED
      BY <3>1, <3>2, StreamShape
  <2>2. Exact(StreamOf(t, g), n, l) /\ n \in Nat /\ l \in BOOLEAN
    BY DEF Whole
  <2> QED
    BY <1>1, <2>1, <2>2, ExactPrefix
<1> QED
  BY <1>2, <1>4, <1>5, <1>6 DEF Whole, u

\* tcp_close(): a FIN, or a reset if data was refused.
LEMMA CloseKeeps ==
    ASSUME NEW t, NEW g, NEW n, NEW l, Whole(t, g, n, l), NEW u \in tcp_close(t)
    PROVE  Whole(u, g, n, l \/ (t.up /\ ~u.up))
<1> DEFINE c == [t EXCEPT !.rxClosed = TRUE]
<1>1. t \in Pcb /\ l \in BOOLEAN /\ (l <=> ~t.up)
  BY DEF Whole, QueueFits
<1>2. /\ c \in Pcb /\ c.queue = t.queue /\ c.acked = t.acked /\ c.up = t.up /\ c.fin = t.fin
      /\ c.flight = t.flight
  BY <1>1 DEF Pcb
<1>3. t.flight <= Len(t.queue)
  BY DEF Whole, QueueFits
<1> HIDE DEF c
<1>4. Whole(c, g, n, l)
  BY <1>2, <1>3, SameQueue
<1>5. CASE t.up /\ ~t.fin /\ t.refused
  <2>1. u = Dropped(c)
    BY <1>5 DEF tcp_close, c
  <2>2. Whole(u, g, n, TRUE) /\ ~u.up
    BY <1>4, <2>1, DroppedKeeps
  <2>3. (l \/ (t.up /\ ~u.up)) = TRUE
    BY <1>5, <2>2
  <2> QED
    BY <2>2, <2>3
<1>6. CASE ~(t.up /\ ~t.fin /\ t.refused)
  <2>1. u \in tcp_output(SendFin(c))
    BY <1>6 DEF tcp_close, c
  <2>2. Whole(SendFin(c), g, n, l) /\ SendFin(c).up = c.up
    BY <1>4, SendFinKeeps
  <2>3. Whole(u, g, n, l) /\ u.up = t.up
    BY <1>2, <2>1, <2>2, OutputKeeps
  <2>4. (l \/ (t.up /\ ~u.up)) = l
    BY <1>1, <2>3
  <2> QED
    BY <2>3, <2>4
<1> QED
  BY <1>5, <1>6

\* altcp_write(): the bytes lie behind the stream, or nothing has changed.
LEMMA WriteKeeps ==
    ASSUME NEW t, NEW g, NEW n, NEW l, Whole(t, g, n, l),
           NEW b \in Seq(Int), Len(b) <= TCP_SND_BUF - DataIn(t.queue),
           \A i \in DOMAIN b : b[i] # Fin,
           NEW o \in WriteOutcomes(t, b)
    PROVE  \/ o = <<t, FALSE>>
           \/ /\ o[2] = TRUE /\ t.up /\ ~t.fin
              /\ QueueFits(o[1], g) /\ o[1].up = TRUE /\ o[1].fin = FALSE
              /\ StreamOf(o[1], g) = StreamOf(t, g) \o b
<1> SUFFICES ASSUME o # <<t, FALSE>>
             PROVE  /\ o[2] = TRUE /\ t.up /\ ~t.fin
                    /\ QueueFits(o[1], g) /\ o[1].up = TRUE /\ o[1].fin = FALSE
                    /\ StreamOf(o[1], g) = StreamOf(t, g) \o b
  OBVIOUS
<1>1. t.up /\ ~t.fin /\ o = <<[t EXCEPT !.queue = @ \o b], TRUE>>
  BY DEF WriteOutcomes
<1> DEFINE u == [t EXCEPT !.queue = @ \o b]
<1>2. /\ t \in Pcb /\ QueueFits(t, g) /\ t.queue \in Seq(Int) /\ t.up = TRUE /\ t.fin = FALSE
  BY <1>1 DEF Whole, QueueFits, Pcb
<1>3. t.queue \o b \in Seq(Int) /\ Len(t.queue \o b) = Len(t.queue) + Len(b)
  BY <1>2, ConcatInts
<1>4. DataIn(t.queue \o b) = DataIn(t.queue) + Len(b)
  BY <1>2, DataInConcat
<1>5. /\ u \in Pcb /\ u.queue = t.queue \o b /\ u.acked = t.acked /\ u.up = TRUE
      /\ u.fin = FALSE /\ u.flight = t.flight
  BY <1>2, <1>3 DEF Pcb
<1>6. o[1] = u /\ o[2] = TRUE
  BY <1>1
<1> HIDE DEF u
<1>7. DataIn(t.queue) \in Nat /\ Len(b) \in Nat /\ Len(t.queue) \in Nat
  <2>1. PICK q \in Seq(Int) : q = t.queue
    BY <1>2
  <2>2. DataIn(q) \in Nat
    BY DataInType
  <2>3. Len(q) \in Nat /\ Len(b) \in Nat
    OBVIOUS
  <2> QED
    BY <2>1, <2>2, <2>3
<1>8. QueueFits(u, g)
  <2>1. DataIn(u.queue) <= TCP_SND_BUF
    BY <1>4, <1>5, <1>7, SizeAssumption
  <2>2. Len(u.queue) = Len(t.queue) + Len(b)
    BY <1>3, <1>5
  <2> QED
    BY <1>2, <1>5, <1>7, <2>1, <2>2 DEF QueueFits, Pcb
<1>9. StreamOf(u, g) = StreamOf(t, g) \o b
  BY <1>2, <1>5, StreamGrows
<1> QED
  BY <1>1, <1>5, <1>6, <1>8, <1>9

\* What write() queues: the program's bytes n+1 ... n+k.
LEMMA ProgramWrites ==
    ASSUME NEW t, NEW g, NEW n, NEW l, Whole(t, g, n, l),
           NEW k \in Nat, k <= TCP_SND_BUF - DataIn(t.queue),
           NEW o \in WriteOutcomes(t, [i \in 1..k |-> n + i])
    PROVE  Whole(o[1], g, n + Written(o[2], k), l)
<1> DEFINE b == [i \in 1..k |-> n + i]
<1>1. n \in Nat
  BY DEF Whole
<1>2. b \in Seq(Int) /\ Len(b) = k /\ \A i \in DOMAIN b : b[i] # Fin
  BY <1>1 DEF Fin
<1> HIDE DEF b
<1>3. \/ o = <<t, FALSE>>
      \/ /\ o[2] = TRUE /\ t.up /\ ~t.fin
         /\ QueueFits(o[1], g) /\ o[1].up = TRUE /\ o[1].fin = FALSE
         /\ StreamOf(o[1], g) = StreamOf(t, g) \o b
  <2>1. o \in WriteOutcomes(t, b)
    BY DEF b
  <2> QED
    BY <1>2, <2>1, WriteKeeps
<1>4. CASE o = <<t, FALSE>>
  <2>1. o[1] = t /\ n + Written(o[2], k) = n
    BY <1>1, <1>4 DEF Written
  <2> QED
    BY <2>1
<1>5. CASE o # <<t, FALSE>>
  <2>1. /\ o[2] = TRUE /\ t.up /\ ~t.fin
        /\ QueueFits(o[1], g) /\ o[1].up = TRUE /\ o[1].fin = FALSE
        /\ StreamOf(o[1], g) = StreamOf(t, g) \o b
    BY <1>3, <1>5
  <2>2. /\ StreamOf(t, g) \in Seq(Int) /\ Exact(StreamOf(t, g), n, FALSE)
        /\ NoFin(StreamOf(t, g))
    BY <2>1, OpenStream
  <2>3. Exact(StreamOf(o[1], g), n + k, FALSE) /\ NoFin(StreamOf(o[1], g))
    BY <1>1, <2>1, <2>2, ExactBytes DEF b
  <2>4. Written(o[2], k) = k /\ n + k \in Nat
    BY <1>1, <2>1 DEF Written
  <2>5. l = FALSE
    BY <2>1 DEF Whole
  <2>6. \A i \in DOMAIN StreamOf(o[1], g) : StreamOf(o[1], g)[i] # Fin
    <3>1. StreamOf(o[1], g) \in Seq(Int)
      BY <2>1, StreamShape
    <3> QED
      BY <2>3, <3>1 DEF NoFin
  <2> QED
    BY <2>1, <2>3, <2>4, <2>5, <2>6 DEF Whole
<1> QED
  BY <1>4, <1>5

\* What a broadcast queues.
LEMMA ServerWrites ==
    ASSUME NEW t, NEW g, NEW n, NEW l, Whole(t, g, n, l),
           NEW k \in Nat, k <= TCP_SND_BUF - DataIn(t.queue),
           NEW o \in WriteOutcomes(t, [i \in 1..k |-> Cast])
    PROVE  Whole(o[1], g, n, l)
<1> DEFINE b == [i \in 1..k |-> Cast]
<1>1. n \in Nat
  BY DEF Whole
<1>2. b \in Seq(Int) /\ Len(b) = k /\ \A i \in DOMAIN b : b[i] # Fin
  BY DEF Fin, Cast
<1> HIDE DEF b
<1>3. \/ o = <<t, FALSE>>
      \/ /\ o[2] = TRUE /\ t.up /\ ~t.fin
         /\ QueueFits(o[1], g) /\ o[1].up = TRUE /\ o[1].fin = FALSE
         /\ StreamOf(o[1], g) = StreamOf(t, g) \o b
  <2>1. o \in WriteOutcomes(t, b)
    BY DEF b
  <2> QED
    BY <1>2, <2>1, WriteKeeps
<1>4. CASE o = <<t, FALSE>>
  BY <1>4
<1>5. CASE o # <<t, FALSE>>
  <2>1. /\ o[2] = TRUE /\ t.up /\ ~t.fin
        /\ QueueFits(o[1], g) /\ o[1].up = TRUE /\ o[1].fin = FALSE
        /\ StreamOf(o[1], g) = StreamOf(t, g) \o b
    BY <1>3, <1>5
  <2>2. /\ StreamOf(t, g) \in Seq(Int) /\ Exact(StreamOf(t, g), n, FALSE)
        /\ NoFin(StreamOf(t, g))
    BY <2>1, OpenStream
  <2>3. Exact(StreamOf(o[1], g), n, FALSE) /\ NoFin(StreamOf(o[1], g))
    BY <1>1, <2>1, <2>2, ExactCasts DEF b
  <2>5. l = FALSE
    BY <2>1 DEF Whole
  <2>6. \A i \in DOMAIN StreamOf(o[1], g) : StreamOf(o[1], g)[i] # Fin
    <3>1. StreamOf(o[1], g) \in Seq(Int)
      BY <2>1, StreamShape
    <3> QED
      BY <2>3, <3>1 DEF NoFin
  <2> QED
    BY <1>1, <2>1, <2>3, <2>5, <2>6 DEF Whole
<1> QED
  BY <1>4, <1>5

\* Two sequences with the same elements.
LEMMA SameInts ==
    ASSUME NEW r \in Seq(Int), NEW s \in Seq(Int), Len(r) = Len(s),
           \A i \in 1..Len(s) : r[i] = s[i]
    PROVE  r = s
<1>1. /\ DOMAIN r = DOMAIN s /\ DOMAIN r = 1..Len(s)
      /\ r \in [1..Len(s) -> Int] /\ s \in [1..Len(s) -> Int]
  BY LenProperties
<1> QED
  BY <1>1

\* s is what the peer has, g, and of the queue q what it has not.
Spliced(s, g, q, a) ==
    /\ s \in Seq(Int) /\ Len(s) = a + Len(q)
    /\ \A i \in 1..Len(g) : s[i] = g[i]
    /\ \A i \in (Len(g) + 1)..(a + Len(q)) : s[i] = q[i - a]

\* The stream of a connection that is up, element by element.
LEMMA UpStream ==
    ASSUME NEW t, NEW g, QueueFits(t, g), t.up
    PROVE  Spliced(StreamOf(t, g), g, t.queue, t.acked)
<1>1. /\ StreamOf(t, g) \in Seq(Int)
      /\ Len(StreamOf(t, g)) >= Len(g)
      /\ \A i \in 1..Len(g) : StreamOf(t, g)[i] = g[i]
      /\ t.up => Len(StreamOf(t, g)) = t.acked + Len(t.queue)
      /\ t.up => \A i \in (Len(g) + 1)..(t.acked + Len(t.queue)) :
                   StreamOf(t, g)[i] = t.queue[i - t.acked]
      /\ ~t.up => StreamOf(t, g) = g
  BY StreamShape, Zenon
<1> QED
  BY <1>1, Zenon DEF Spliced

\* The peer receives the next element.
LEMMA ReceiveKeeps ==
    ASSUME NEW t, NEW g, NEW n, NEW l, Whole(t, g, n, l), t.up,
           Len(g) - t.acked < t.flight
    PROVE  Whole(t, Append(g, t.queue[Len(g) - t.acked + 1]), n, l)
<1>1. PICK q \in Seq(Int), a \in Nat, f \in Nat : q = t.queue /\ a = t.acked /\ f = t.flight
  BY DEF Whole, QueueFits, Pcb
<1>2. /\ QueueFits(t, g) /\ g \in Seq(Int) /\ Len(g) \in Nat /\ Len(q) \in Nat
      /\ a <= Len(g) /\ Len(g) - a < f /\ f <= Len(q)
  BY <1>1 DEF Whole, QueueFits
<1>3. PICK x \in Int : x = q[Len(g) - a + 1]
  <2>1. Len(g) - a + 1 \in 1..Len(q)
    BY <1>2
  <2> QED
    BY <2>1
<1>4. PICK h \in Seq(Int) : h = Append(g, x)
  <2>1. Append(g, x) \in Seq(Int)
    BY <1>2
  <2> QED
    BY <2>1
<1>5. Len(h) = Len(g) + 1 /\ h[Len(g) + 1] = x /\ \A i \in 1..Len(g) : h[i] = g[i]
  BY <1>2, <1>4
<1>6. QueueFits(t, h)
  BY <1>1, <1>2, <1>5 DEF QueueFits
<1>7. /\ StreamOf(t, g) \in Seq(Int) /\ Len(StreamOf(t, g)) = a + Len(q)
      /\ \A i \in 1..Len(g) : StreamOf(t, g)[i] = g[i]
      /\ \A i \in (Len(g) + 1)..(a + Len(q)) : StreamOf(t, g)[i] = q[i - a]
  <2>1. Spliced(StreamOf(t, g), g, t.queue, t.acked)
    BY <1>1, <1>2, UpStream, Zenon
  <2>2. Spliced(StreamOf(t, g), g, q, a)
    BY <1>1, <2>1, Zenon
  <2> QED
    BY <2>2, Zenon DEF Spliced
<1>8. /\ StreamOf(t, h) \in Seq(Int) /\ Len(StreamOf(t, h)) = a + Len(q)
      /\ \A i \in 1..Len(h) : StreamOf(t, h)[i] = h[i]
      /\ \A i \in (Len(h) + 1)..(a + Len(q)) : StreamOf(t, h)[i] = q[i - a]
  <2>1. Spliced(StreamOf(t, h), h, t.queue, t.acked)
    BY <1>1, <1>6, UpStream, Zenon
  <2>2. Spliced(StreamOf(t, h), h, q, a)
    BY <1>1, <2>1, Zenon
  <2> QED
    BY <2>2, Zenon DEF Spliced
<1>9. PICK r \in Seq(Int), s \in Seq(Int) : r = StreamOf(t, h) /\ s = StreamOf(t, g)
  BY <1>7, <1>8
<1>10. ASSUME NEW i \in 1..(a + Len(q))
       PROVE  r[i] = s[i]
  <2>1. CASE i \in 1..Len(g)
    <3>1. i \in 1..Len(h)
      BY <2>1, <1>2, <1>5
    <3> QED
      BY <2>1, <3>1, <1>5, <1>7, <1>8, <1>9
  <2>2. CASE i = Len(g) + 1
    <3>1. i \in 1..Len(h) /\ i \in (Len(g) + 1)..(a + Len(q)) /\ i - a = Len(g) - a + 1
      BY <2>2, <1>2, <1>5
    <3> QED
      BY <2>2, <3>1, <1>3, <1>5, <1>7, <1>8, <1>9
  <2>3. CASE i \in (Len(g) + 2)..(a + Len(q))
    <3>1. i \in (Len(h) + 1)..(a + Len(q)) /\ i \in (Len(g) + 1)..(a + Len(q))
      BY <2>3, <1>2, <1>5
    <3> QED
      BY <3>1, <1>7, <1>8, <1>9
  <2>4. PICK k \in Nat : k = Len(g)
    BY <1>2
  <2>5. PICK j \in Nat : j = Len(q)
    BY <1>2
  <2>6. i \in 1..k \/ i = k + 1 \/ i \in (k + 2)..(a + j)
    BY <2>4, <2>5
  <2> QED
    BY <2>1, <2>2, <2>3, <2>4, <2>5, <2>6
<1>11. r = s
  BY <1>7, <1>8, <1>9, <1>10, SameInts
<1>12. Whole(t, h, n, l)
  BY <1>6, <1>9, <1>11 DEF Whole
<1> QED
  BY <1>1, <1>3, <1>4, <1>12

\* An acknowledgement takes what the peer has off the queue.
LEMMA AckKeeps ==
    ASSUME NEW t, NEW g, NEW n, NEW l, Whole(t, g, n, l), t.up, NEW u \in Pcb,
           u.queue = SubSeq(t.queue, Len(g) - t.acked + 1, Len(t.queue)),
           u.acked = Len(g), u.up = t.up, u.fin = t.fin,
           u.flight <= Len(u.queue)
    PROVE  Whole(u, g, n, l)
<1>1. PICK q \in Seq(Int), a \in Nat : q = t.queue /\ a = t.acked
  BY DEF Whole, QueueFits, Pcb
<1>2. /\ QueueFits(t, g) /\ g \in Seq(Int) /\ Len(g) \in Nat /\ Len(q) \in Nat
      /\ a <= Len(g) /\ Len(g) - a <= Len(q) /\ DataIn(q) <= TCP_SND_BUF
  BY <1>1 DEF Whole, QueueFits
<1>3. PICK m \in 0..Len(q) : m = Len(g) - a
  <2>1. PICK k \in Nat, j \in Nat : k = Len(g) /\ j = Len(q)
    BY <1>2
  <2>2. k - a \in 0..j
    BY <1>2, <2>1
  <2> QED
    BY <2>1, <2>2
<1>4. PICK w \in Seq(Int) : w = SubSeq(q, m + 1, Len(q))
  BY Suffix
<1>5. Len(w) = Len(q) - m /\ \A i \in 1..(Len(q) - m) : w[i] = q[m + i]
  BY <1>4, Suffix
<1>6. u.queue = w
  BY <1>1, <1>3, <1>4
<1>7. DataIn(w) <= TCP_SND_BUF
  <2>1. DataIn(w) <= DataIn(q)
    BY <1>4, DataInSuffix
  <2>2. DataIn(w) \in Nat
    BY DataInType
  <2>3. DataIn(q) \in Nat
    BY DataInType
  <2> QED
    BY <2>1, <2>2, <2>3, <1>2, SizeAssumption
<1>8. QueueFits(u, g)
  <2>1. u.acked <= Len(g) /\ (u.up => Len(g) - u.acked <= Len(w))
    BY <1>2, <1>5
  <2> QED
    BY <1>2, <1>6, <1>7, <2>1 DEF QueueFits
<1>9. /\ StreamOf(t, g) \in Seq(Int) /\ Len(StreamOf(t, g)) = a + Len(q)
      /\ \A i \in 1..Len(g) : StreamOf(t, g)[i] = g[i]
      /\ \A i \in (Len(g) + 1)..(a + Len(q)) : StreamOf(t, g)[i] = q[i - a]
  <2>1. Spliced(StreamOf(t, g), g, t.queue, t.acked)
    BY <1>1, <1>2, UpStream, Zenon
  <2>2. Spliced(StreamOf(t, g), g, q, a)
    BY <1>1, <2>1, Zenon
  <2> QED
    BY <2>2, Zenon DEF Spliced
<1>10. /\ StreamOf(u, g) \in Seq(Int) /\ Len(StreamOf(u, g)) = Len(g) + Len(w)
       /\ \A i \in 1..Len(g) : StreamOf(u, g)[i] = g[i]
       /\ \A i \in (Len(g) + 1)..(Len(g) + Len(w)) : StreamOf(u, g)[i] = w[i - Len(g)]
  <2>1. Spliced(StreamOf(u, g), g, u.queue, u.acked)
    <3>1. u.up
      OBVIOUS
    <3> QED
      BY <3>1, <1>8, UpStream, Zenon
  <2>2. Spliced(StreamOf(u, g), g, w, Len(g))
    BY <1>6, <2>1, Zenon
  <2> QED
    BY <2>2, Zenon DEF Spliced
<1>11. PICK r \in Seq(Int), s \in Seq(Int) : r = StreamOf(u, g) /\ s = StreamOf(t, g)
  BY <1>9, <1>10
<1>12. Len(g) + Len(w) = a + Len(q)
  BY <1>2, <1>3, <1>5
<1>13. ASSUME NEW i \in 1..(a + Len(q))
       PROVE  r[i] = s[i]
  <2>1. CASE i \in 1..Len(g)
    BY <2>1, <1>9, <1>10, <1>11
  <2>2. CASE i \in (Len(g) + 1)..(a + Len(q))
    <3>1. i - Len(g) \in 1..(Len(q) - m) /\ m + (i - Len(g)) = i - a
      BY <2>2, <1>2, <1>3
    <3>2. w[i - Len(g)] = q[i - a]
      BY <3>1, <1>5
    <3> QED
      BY <2>2, <3>2, <1>9, <1>10, <1>11, <1>12
  <2> QED
    BY <2>1, <2>2, <1>2
<1>14. r = s
  <2>1. Len(r) = a + Len(q) /\ Len(s) = a + Len(q)
    BY <1>9, <1>10, <1>11, <1>12
  <2> QED
    BY <2>1, <1>13, SameInts
<1> QED
  BY <1>8, <1>11, <1>14 DEF Whole

-----------------------------------------------------------------------------
(* Every step keeps the invariant.                                         *)

\* Max of two numbers.
LEMMA MaxFacts ==
    ASSUME NEW d \in Int
    PROVE  Max({d, 0}) \in {d, 0} /\ Max({d, 0}) >= 0
<1>1. \E x \in {d, 0} : \A y \in {d, 0} : x >= y
  OBVIOUS
<1> QED
  BY <1>1 DEF Max

\* Nothing has been written (Init).
LEMMA TransmitInit == Init => TInv
<1> SUFFICES ASSUME Init PROVE TInv
  OBVIOUS
<1>1. CallInStep /\ pos + call.written = 0
  BY DEF Init, CallInStep, Idle, Call
<1>2. DataIn(<<>>) = 0
  <2>1. {i \in DOMAIN <<>> : <<>>[i] # Fin} = {}
    OBVIOUS
  <2> QED
    BY <2>1, FS_EmptySet DEF DataIn
<1>3. /\ pcb \in Pcb /\ pcb.queue = <<>> /\ pcb.flight = 0 /\ pcb.acked = 0
      /\ pcb.up = TRUE /\ got = <<>> /\ lost = FALSE
  <2>1. <<>> \in Seq(Int) /\ MaxWnd \in Nat
    BY SizeAssumption
  <2> QED
    BY <2>1 DEF Init, NewPcb, Pcb
<1>4. got \in Seq(Int) /\ Len(got) = 0 /\ Len(pcb.queue) = 0
  BY <1>3
<1>5. QueueFits(pcb, got)
  BY <1>2, <1>3, <1>4, SizeAssumption DEF QueueFits
<1>6. StreamOf(pcb, got) = <<>>
  BY <1>3 DEF StreamOf
<1>7. Exact(<<>>, 0, FALSE)
  <2>1. {b \in Range(<<>>) : b > 0} = 1..0
    BY DEF Range
  <2>2. 0 \in 0..0
    OBVIOUS
  <2>3. DOMAIN <<>> = {}
    OBVIOUS
  <2> QED
    BY <2>1, <2>2, <2>3 DEF Exact
<1>8. Whole(pcb, got, 0, lost)
  <2>1. \A i \in DOMAIN StreamOf(pcb, got) : StreamOf(pcb, got)[i] # Fin
    BY <1>6
  <2>2. Exact(StreamOf(pcb, got), 0, lost)
    BY <1>3, <1>6, <1>7
  <2> QED
    BY <1>3, <1>5, <2>1, <2>2 DEF Whole
<1> QED
  BY <1>1, <1>8 DEF TInv

\* write() returns: what it has written moves from the call to the program.
LEMMA ReturnsKeeps ==
    ASSUME TInv, Returns(call.written)
    PROVE  CallInStep' /\ pos' + call'.written = pos + call.written
<1>1. /\ pos \in Nat /\ call.rem \in Nat /\ call.written \in 0..call.rem
  BY DEF TInv, CallInStep
<1>2. CASE Goes(call.op, call.rem - call.written)
  <2>1. /\ pos' = pos + call.written /\ call.op = "writeFully"
        /\ call' = Call(call.op, "break", call.rem - call.written, 0)
    BY <1>2 DEF Returns, Goes
  <2>2. /\ call'.op = "writeFully" /\ call'.at = "break"
        /\ call'.rem = call.rem - call.written /\ call'.written = 0
    BY <2>1 DEF Call
  <2> QED
    BY <1>1, <2>1, <2>2 DEF CallInStep
<1>3. CASE ~Goes(call.op, call.rem - call.written)
  <2>1. pos' = pos + call.written /\ call' = Idle
    BY <1>3 DEF Returns
  <2>2. call'.op = "none" /\ call'.at = "loop" /\ call'.rem = 0 /\ call'.written = 0
        /\ call' = Call("none", "loop", 0, 0)
    BY <2>1 DEF Idle, Call
  <2> QED
    BY <1>1, <2>1, <2>2 DEF CallInStep
<1> QED
  BY <1>2, <1>3

\* write() queues the bytes that come next, and no more than fits.
LEMMA EnqueueKeeps ==
    ASSUME TInv, call.at \in {"check", "room"}, Enqueue, UNCHANGED <<pos, got, lost>>
    PROVE  TInv'
<1> DEFINE n == Min({call.rem, altcp_sndbuf})
<1>1. /\ pos \in Nat /\ call.rem \in Nat /\ call.written = 0
      /\ call = Call(call.op, call.at, call.rem, call.written)
      /\ call.op \notin {"none", "close", "stopWait", "closeOutput"}
  BY DEF TInv, CallInStep
<1>2. Whole(pcb, got, pos, lost)
  BY <1>1 DEF TInv
<1>3. PICK q \in Seq(Int) : q = pcb.queue
  BY <1>2 DEF Whole, QueueFits, Pcb
<1>4. DataIn(q) \in Nat
  BY DataInType
<1>5. DataIn(q) <= TCP_SND_BUF
  BY <1>2, <1>3 DEF Whole, QueueFits
<1>6. altcp_sndbuf \in Nat /\ altcp_sndbuf = TCP_SND_BUF - DataIn(pcb.queue)
  BY <1>3, <1>4, <1>5, SizeAssumption DEF altcp_sndbuf
<1>7. n \in Nat /\ n <= call.rem /\ n <= altcp_sndbuf
  <2>1. PICK a \in Nat, b \in Nat : a = call.rem /\ b = altcp_sndbuf
    BY <1>1, <1>6
  <2>2. Min({a, b}) \in Nat /\ Min({a, b}) <= a /\ Min({a, b}) <= b
    BY MinFacts, Zenon
  <2> QED
    BY <2>1, <2>2
<1>8. PICK o \in IF n > 0 THEN WriteOutcomes(pcb, [i \in 1..n |-> pos + i]) ELSE {<<pcb, TRUE>>} :
        /\ pcb' = o[1]
        /\ call' = [call EXCEPT !.at = "done", !.written = Written(o[2], n)]
  BY DEF Enqueue
<1> HIDE DEF n
<1>9. Written(o[2], n) \in 0..call.rem
  BY <1>1, <1>7 DEF Written
<1>10. /\ call'.op = call.op /\ call'.at = "done" /\ call'.rem = call.rem
       /\ call'.written = Written(o[2], n)
       /\ call' = Call(call.op, "done", call.rem, Written(o[2], n))
  BY <1>1, <1>8 DEF Call
<1>11. CallInStep'
  BY <1>1, <1>9, <1>10 DEF CallInStep
<1>12. Whole(o[1], got, pos + Written(o[2], n), lost)
  <2>1. CASE n > 0
    BY <1>2, <1>6, <1>7, <1>8, <2>1, ProgramWrites
  <2>2. CASE ~(n > 0)
    <3>1. n = 0 /\ o = <<pcb, TRUE>>
      <4>1. n = 0
        BY <2>2, <1>7
      <4>2. o \in {<<pcb, TRUE>>}
        BY <2>2, Zenon
      <4> QED
        BY <4>1, <4>2, Zenon
    <3>2. o[1] = pcb /\ pos + Written(o[2], n) = pos
      BY <1>1, <3>1 DEF Written
    <3> QED
      BY <1>2, <3>2
  <2> QED
    BY <2>1, <2>2
<1>13. Whole(pcb', got', pos' + call'.written, lost')
  BY <1>8, <1>10, <1>12
<1> QED
  BY <1>11, <1>13 DEF TInv

\* A PCB of which only fields have changed that the stream does not depend on.
LEMMA PcbKeeps ==
    ASSUME TInv, pcb' \in Pcb, pcb'.queue = pcb.queue, pcb'.acked = pcb.acked,
           pcb'.up = pcb.up, pcb'.fin = pcb.fin, pcb'.flight <= Len(pcb'.queue),
           UNCHANGED <<call, pos, got, lost>>
    PROVE  TInv'
<1>1. Whole(pcb, got, pos + call.written, lost)
  BY DEF TInv
<1>2. Whole(pcb', got, pos + call.written, lost)
  BY <1>1, SameQueue
<1> QED
  BY <1>2 DEF TInv, CallInStep

\* The next-state relation, action by action: what the program calls.
LEMMA ProgramKeeps == TInv /\ Program => TInv'
<1> SUFFICES ASSUME TInv, Program PROVE TInv'
  OBVIOUS
<1>1. /\ CallInStep /\ Whole(pcb, got, pos + call.written, lost)
      /\ pos \in Nat /\ pcb \in Pcb /\ pcb.flight <= Len(pcb.queue)
  BY DEF TInv, CallInStep, Whole, QueueFits
<1>2. ASSUME NEW n \in 1..MaxBytes, write(n) \/ writeFully(n)
      PROVE  TInv'
  <2>1. /\ call'.op \in {"write", "writeFully"} /\ call'.at \in {"check", "break"}
        /\ call'.rem = n /\ call'.written = 0
        /\ call' = Call(call'.op, call'.at, call'.rem, call'.written)
        /\ call.written = 0 /\ UNCHANGED <<pcb, pos, got, lost>>
    BY <1>2 DEF write, writeFully, Call, Idle
  <2>2. CallInStep'
    BY <1>1, <2>1 DEF CallInStep
  <2>3. Whole(pcb', got', pos' + call'.written, lost')
    BY <1>1, <2>1
  <2> QED
    BY <2>2, <2>3 DEF TInv
<1>3. CASE flush
  <2>1. pcb' \in tcp_output(pcb) /\ UNCHANGED <<call, pos, got, lost>>
    BY <1>3 DEF flush
  <2>2. Whole(pcb', got, pos + call.written, lost)
    BY <1>1, <2>1, OutputKeeps
  <2> QED
    BY <1>1, <2>1, <2>2 DEF TInv, CallInStep
<1>4. ASSUME NEW n \in 1..MaxCasts, broadcast(n)
      PROVE  TInv'
  <2>1. PICK q \in Seq(Int) : q = pcb.queue
    BY <1>1 DEF Pcb
  <2>2. DataIn(q) \in Nat
    BY DataInType
  <2>3. DataIn(q) <= TCP_SND_BUF
    BY <1>1, <2>1 DEF Whole, QueueFits
  <2>4. PICK a \in Nat : a = altcp_sndbuf /\ a = TCP_SND_BUF - DataIn(pcb.queue)
    BY <2>1, <2>2, <2>3, SizeAssumption DEF altcp_sndbuf
  <2>5. PICK len : len = Min({n, altcp_sndbuf})
    OBVIOUS
  <2>6. len \in Nat /\ len <= a
    <3>1. n \in Nat
      OBVIOUS
    <3>2. Min({n, a}) \in Nat /\ Min({n, a}) <= n /\ Min({n, a}) <= a
      BY <3>1, MinFacts, Zenon
    <3> QED
      BY <2>4, <2>5, <3>2
  <2>7. PICK t \in IF altcp_sndbuf < n THEN tcp_output(pcb) ELSE {pcb} :
          \E o \in IF len > 0 THEN WriteOutcomes(t, [i \in 1..len |-> Cast])
                              ELSE {<<t, TRUE>>} : pcb' = o[1]
    BY <1>4, <2>5 DEF broadcast
  <2>8. PICK o \in IF len > 0 THEN WriteOutcomes(t, [i \in 1..len |-> Cast])
                              ELSE {<<t, TRUE>>} : pcb' = o[1]
    BY <2>7
  <2>9. Whole(t, got, pos + call.written, lost) /\ t.queue = pcb.queue
    <3>1. CASE altcp_sndbuf < n
      BY <1>1, <2>7, <3>1, OutputKeeps
    <3>2. CASE ~(altcp_sndbuf < n)
      BY <1>1, <2>7, <3>2
    <3> QED
      BY <3>1, <3>2
  <2>10. Whole(o[1], got, pos + call.written, lost)
    <3>1. CASE len > 0
      <4>1. o \in WriteOutcomes(t, [i \in 1..len |-> Cast])
        BY <3>1, Zenon
      <4>2. len <= TCP_SND_BUF - DataIn(t.queue)
        BY <2>4, <2>6, <2>9
      <4> QED
        BY <2>6, <2>9, <4>1, <4>2, ServerWrites
    <3>2. CASE ~(len > 0)
      <4>1. o \in {<<t, TRUE>>}
        BY <3>2, Zenon
      <4>2. o[1] = t
        BY <4>1
      <4> QED
        BY <2>9, <4>2
    <3> QED
      BY <3>1, <3>2
  <2>11. UNCHANGED <<call, pos, got, lost>>
    BY <1>4 DEF broadcast
  <2> QED
    BY <1>1, <2>8, <2>10, <2>11 DEF TInv, CallInStep
<1>5. CASE read
  <2>1. pcb' = [pcb EXCEPT !.refused = FALSE] /\ UNCHANGED <<call, pos, got, lost>>
    BY <1>5 DEF read
  <2>2. /\ pcb' \in Pcb /\ pcb'.queue = pcb.queue /\ pcb'.acked = pcb.acked
        /\ pcb'.up = pcb.up /\ pcb'.fin = pcb.fin /\ pcb'.flight = pcb.flight
    BY <1>1, <2>1 DEF Pcb
  <2> QED
    BY <1>1, <2>1, <2>2, PcbKeeps
<1>6. CASE abort
  <2>1. UNCHANGED <<call, pos, got>>
        /\ ((pcb' = Dropped(pcb) /\ lost' = TRUE) \/ UNCHANGED <<pcb, lost>>)
    BY <1>6 DEF abort, errFunc
  <2>2. Whole(pcb', got, pos + call.written, lost')
    BY <1>1, <2>1, DroppedKeeps
  <2> QED
    BY <1>1, <2>1, <2>2 DEF TInv, CallInStep
<1>7. ASSUME NEW op \in {"close", "closeOutput"}, closing(op)
      PROVE  TInv'
  <2>1. /\ pcb' \in tcp_output(pcb) /\ UNCHANGED <<pos, got, lost>> /\ call.written = 0
        /\ call' = Call(op, "loop", 0, 0)
    BY <1>7 DEF closing, Idle, Call
  <2>2. Whole(pcb', got, pos + call.written, lost)
    BY <1>1, <2>1, OutputKeeps
  <2>3. call'.op = op /\ call'.at = "loop" /\ call'.rem = 0 /\ call'.written = 0
    BY <2>1 DEF Call
  <2>4. CallInStep'
    BY <1>1, <2>1, <2>3 DEF CallInStep
  <2> QED
    BY <2>1, <2>2, <2>3, <2>4 DEF TInv
<1>8. CASE closeGone
  BY <1>1, <1>8 DEF closeGone, TInv, CallInStep
<1> QED
  BY <1>2, <1>3, <1>4, <1>5, <1>6, <1>7, <1>8 DEF Program

\* A call that goes on after loop().
LEMMA GoesOnKeeps == TInv /\ GoesOn => TInv'
<1> SUFFICES ASSUME TInv, GoesOn PROVE TInv'
  OBVIOUS
<1>1. /\ CallInStep /\ Whole(pcb, got, pos + call.written, lost)
      /\ pos \in Nat /\ pcb \in Pcb /\ pcb.flight <= Len(pcb.queue)
  BY DEF TInv, CallInStep, Whole, QueueFits
<1>2. ASSUME Returns(call.written), UNCHANGED <<pcb, got, lost>>
      PROVE  TInv'
  BY <1>1, <1>2, ReturnsKeeps DEF TInv
<1>3. ASSUME NEW at \in {"check", "room"}, call.at \notin {"loop", "done"},
             call' = [call EXCEPT !.at = at],
             pcb' \in tcp_output(pcb), UNCHANGED <<pos, got, lost>>
      PROVE  TInv'
  <2>1. /\ call.written = 0 /\ call.rem \in Nat
        /\ call = Call(call.op, call.at, call.rem, call.written)
        /\ call.op \notin {"none", "close", "stopWait", "closeOutput"}
    BY <1>1, <1>3 DEF CallInStep
  <2>2. /\ call'.op = call.op /\ call'.at = at /\ call'.rem = call.rem /\ call'.written = 0
        /\ call' = Call(call.op, at, call.rem, 0)
    BY <1>3, <2>1 DEF Call
  <2>3. CallInStep'
    BY <1>1, <1>3, <2>1, <2>2 DEF CallInStep
  <2>4. Whole(pcb', got, pos + call.written, lost)
    BY <1>1, <1>3, OutputKeeps
  <2> QED
    BY <1>3, <2>1, <2>2, <2>3, <2>4 DEF TInv
<1>4. CASE writeChecks
  <2>1. call.at = "break" /\ call.written = 0 /\ UNCHANGED <<pcb, got, lost>>
    BY <1>1, <1>4 DEF writeChecks, CallInStep
  <2>2. CASE holder.connected
    <3>1. call' = [call EXCEPT !.at = "check"] /\ UNCHANGED pos
      BY <1>4, <2>2 DEF writeChecks
    <3>2. pcb' \in tcp_output(pcb)
      <4>1. pcb = [pcb EXCEPT !.flight = pcb.flight]
        BY <1>1 DEF Pcb
      <4> QED
        BY <2>1, <4>1 DEF tcp_output
    <3> QED
      BY <1>3, <2>1, <3>1, <3>2
  <2>3. CASE ~holder.connected
    BY <1>2, <1>4, <2>1, <2>3 DEF writeChecks
  <2> QED
    BY <2>2, <2>3
<1>5. CASE writeBegins
  <2>1. call.at = "check" /\ call.written = 0 /\ UNCHANGED <<got, lost>>
    BY <1>1, <1>5 DEF writeBegins, CallInStep
  <2>2. CASE ~holder.state
    BY <1>2, <1>5, <2>1, <2>2 DEF writeBegins
  <2>3. CASE holder.state /\ altcp_sndbuf = 0
    BY <1>3, <1>5, <2>1, <2>3 DEF writeBegins
  <2>4. CASE holder.state /\ altcp_sndbuf # 0
    BY <1>5, <2>1, <2>4, EnqueueKeeps DEF writeBegins
  <2> QED
    BY <2>2, <2>3, <2>4
<1>6. CASE writeGoesOn
  <2>1. call.at = "room" /\ call.written = 0 /\ UNCHANGED <<got, lost>>
    BY <1>1, <1>6 DEF writeGoesOn, CallInStep
  <2>2. CASE ~holder.state
    BY <1>2, <1>6, <2>1, <2>2 DEF writeGoesOn
  <2>3. CASE holder.state
    BY <1>6, <2>1, <2>3, EnqueueKeeps DEF writeGoesOn
  <2> QED
    BY <2>2, <2>3
<1>7. CASE writeReturns
  BY <1>2, <1>7 DEF writeReturns
<1>8. ASSUME NEW op \in {"none", "stopWait"}, call' = Call(op, "loop", 0, 0), call.written = 0,
             UNCHANGED <<pos, got>>, Whole(pcb', got, pos + call.written, lost')
      PROVE  TInv'
  <2>1. call'.op = op /\ call'.at = "loop" /\ call'.rem = 0 /\ call'.written = 0
    BY <1>8 DEF Call
  <2>2. CallInStep'
    BY <1>1, <1>8, <2>1 DEF CallInStep
  <2> QED
    BY <1>8, <2>1, <2>2 DEF TInv
<1>9. ASSUME NEW wait \in BOOLEAN, close(wait)
      PROVE  TInv'
  <2>1. call.op = "close" /\ call.written = 0 /\ UNCHANGED <<pos, got>>
    BY <1>1, <1>9 DEF close, CallInStep
  <2>2. Whole(pcb', got, pos + call.written, lost')
    <3>1. CASE holder.state
      <4>1. PICK t \in tcp_close(pcb) : pcb' = t /\ lost' = (lost \/ (pcb.up /\ ~t.up))
        BY <1>9, <3>1 DEF close, Replaced
      <4> QED
        BY <1>1, <4>1, CloseKeeps
    <3>2. CASE ~holder.state
      BY <1>1, <1>9, <3>2 DEF close
    <3> QED
      BY <3>1, <3>2
  <2>3. \E op \in {"none", "stopWait"} : call' = Call(op, "loop", 0, 0)
    BY <1>9 DEF close, Idle
  <2> QED
    BY <1>8, <2>1, <2>2, <2>3
<1>10. CASE stopReturns
  <2>1. call.op = "stopWait" /\ call.written = 0 /\ UNCHANGED <<pcb, pos, got, lost>>
        /\ call' = Call("none", "loop", 0, 0)
    BY <1>1, <1>10 DEF stopReturns, CallInStep, Idle
  <2> QED
    BY <1>1, <1>8, <2>1
<1>11. CASE closeOutput
  <2>1. call.op = "closeOutput" /\ call.written = 0 /\ UNCHANGED <<pos, got, lost>>
        /\ call' = Call("none", "loop", 0, 0)
    BY <1>1, <1>11 DEF closeOutput, CallInStep, Idle
  <2>2. Whole(pcb', got, pos + call.written, lost')
    <3>1. CASE holder.state
      <4>1. pcb' \in tcp_output(SendFin(pcb))
        BY <1>11, <3>1 DEF closeOutput
      <4>2. Whole(SendFin(pcb), got, pos + call.written, lost)
        BY <1>1, SendFinKeeps
      <4> QED
        BY <2>1, <4>1, <4>2, OutputKeeps
    <3>2. CASE ~holder.state
      BY <1>1, <1>11, <2>1, <3>2 DEF closeOutput
    <3> QED
      BY <3>1, <3>2
  <2> QED
    BY <1>8, <2>1, <2>2
<1> QED
  BY <1>4, <1>5, <1>6, <1>7, <1>9, <1>10, <1>11 DEF GoesOn

\* The timer and the peer.
LEMMA StackKeeps ==
    TInv /\ (\/ Timer \/ PeerReceives \/ (\E wnd \in 0..MaxWnd : tcp_receive(wnd))
             \/ ProbeAnswered \/ PeerResets \/ PeerSends \/ PeerCloses) => TInv'
<1> SUFFICES ASSUME TInv,
                    \/ Timer \/ PeerReceives \/ (\E wnd \in 0..MaxWnd : tcp_receive(wnd))
                    \/ ProbeAnswered \/ PeerResets \/ PeerSends \/ PeerCloses
             PROVE  TInv'
  OBVIOUS
<1>1. /\ CallInStep /\ Whole(pcb, got, pos + call.written, lost)
      /\ pcb \in Pcb /\ pcb.flight <= Len(pcb.queue)
  BY DEF TInv, Whole, QueueFits
<1>2. ASSUME Whole(pcb', got', pos + call.written, lost'), UNCHANGED <<call, pos>>
      PROVE  TInv'
  BY <1>1, <1>2 DEF TInv, CallInStep
<1>3. ASSUME errFunc, UNCHANGED <<call, pos, got>>
      PROVE  TInv'
  <2>1. Whole(Dropped(pcb), got, pos + call.written, TRUE)
    BY <1>1, DroppedKeeps
  <2> QED
    BY <1>2, <1>3, <2>1 DEF errFunc
<1>4. CASE tcp_slowtmr
  <2>1. PICK n \in Fits(pcb) \ {0} : pcb' = [pcb EXCEPT !.flight = n]
    BY <1>4 DEF tcp_slowtmr
  <2>2. pcb' \in tcp_output(pcb)
    BY <2>1 DEF tcp_output
  <2>3. Whole(pcb', got, pos + call.written, lost)
    BY <1>1, <2>2, OutputKeeps
  <2> QED
    BY <1>2, <1>4, <2>3 DEF tcp_slowtmr
<1>5. CASE Retransmit
  <2>1. PICK t : t = [pcb EXCEPT !.nrtx = @ + 1, !.flight = 0]
    OBVIOUS
  <2>2. /\ t \in Pcb /\ t.queue = pcb.queue /\ t.acked = pcb.acked /\ t.up = pcb.up
        /\ t.fin = pcb.fin /\ t.flight = 0
    <3>1. pcb.nrtx + 1 \in Nat /\ 0 \in Nat
      BY <1>1 DEF Pcb
    <3> QED
      BY <1>1, <2>1, <3>1 DEF Pcb
  <2>3. 0 <= Len(t.queue)
    BY <2>2 DEF Pcb
  <2>4. Whole(t, got, pos + call.written, lost)
    BY <1>1, <2>2, <2>3, SameQueue
  <2>5. pcb' \in tcp_output(t)
    BY <1>5, <2>1 DEF Retransmit
  <2>6. Whole(pcb', got, pos + call.written, lost)
    BY <2>4, <2>5, OutputKeeps
  <2> QED
    BY <1>2, <1>5, <2>6 DEF Retransmit
<1>6. CASE GiveUp
  BY <1>3, <1>6 DEF GiveUp
<1>7. CASE PeerReceives
  <2>1. /\ pcb.up /\ Len(got) - pcb.acked < pcb.flight
        /\ got' = Append(got, pcb.queue[Len(got) - pcb.acked + 1])
        /\ UNCHANGED <<pcb, call, pos, lost>>
    BY <1>7 DEF PeerReceives
  <2>2. Whole(pcb, got', pos + call.written, lost)
    BY <1>1, <2>1, ReceiveKeeps
  <2> QED
    BY <1>2, <2>1, <2>2
<1>8. ASSUME NEW wnd \in 0..MaxWnd, tcp_receive(wnd)
      PROVE  TInv'
  <2>1. PICK n : n = Len(got) - pcb.acked
    OBVIOUS
  <2>2. PICK t : t = [pcb EXCEPT !.queue = SubSeq(@, n + 1, Len(@)), !.acked = Len(got),
                                 !.flight = Max({@ - n, 0}), !.wnd = wnd, !.nrtx = 0]
    OBVIOUS
  <2>3. pcb' \in tcp_output(t) /\ pcb.up /\ UNCHANGED <<call, pos, got, lost>>
    BY <1>8, <2>1, <2>2 DEF tcp_receive
  <2>4. PICK q \in Seq(Int), a \in Nat, f \in Nat, k \in Nat, m \in Nat :
          q = pcb.queue /\ a = pcb.acked /\ f = pcb.flight /\ k = Len(got) /\ m = Len(pcb.queue)
    BY <1>1 DEF Whole, QueueFits, Pcb
  <2>5. n \in 0..m /\ f <= m
    BY <1>1, <2>1, <2>3, <2>4 DEF Whole, QueueFits
  <2>6. SubSeq(q, n + 1, Len(q)) \in Seq(Int) /\ Len(SubSeq(q, n + 1, Len(q))) = m - n
    BY <2>4, <2>5, Suffix
  <2>7. PICK h \in Nat : h = Max({pcb.flight - n, 0}) /\ h <= m - n
    <3>1. PICK d \in Int : d = f - n
      BY <2>5
    <3>2. Max({d, 0}) \in {d, 0} /\ Max({d, 0}) >= 0
      BY MaxFacts, Zenon
    <3>3. d <= m - n /\ 0 <= m - n
      BY <2>5, <3>1
    <3>4. Max({d, 0}) \in Nat /\ Max({d, 0}) <= m - n
      BY <3>2, <3>3, <2>5
    <3> QED
      BY <2>4, <3>1, <3>4
  <2>8. /\ t \in Pcb /\ t.queue = SubSeq(q, n + 1, Len(q)) /\ t.acked = k /\ t.up = pcb.up
        /\ t.fin = pcb.fin /\ t.flight = h
    <3>1. wnd \in Nat
      OBVIOUS
    <3> QED
      BY <1>1, <2>2, <2>4, <2>6, <2>7, <3>1 DEF Pcb
  <2>9. t.flight <= Len(t.queue)
    BY <2>6, <2>7, <2>8
  <2>10. Whole(t, got, pos + call.written, lost)
    BY <1>1, <2>1, <2>3, <2>4, <2>8, <2>9, AckKeeps
  <2>11. Whole(pcb', got, pos + call.written, lost)
    BY <2>3, <2>10, OutputKeeps
  <2> QED
    BY <1>2, <2>3, <2>11
<1>9. CASE ProbeAnswered
  <2>1. pcb' = [pcb EXCEPT !.nrtx = 0] /\ UNCHANGED <<call, pos, got, lost>>
    BY <1>9 DEF ProbeAnswered
  <2>2. /\ pcb' \in Pcb /\ pcb'.queue = pcb.queue /\ pcb'.acked = pcb.acked
        /\ pcb'.up = pcb.up /\ pcb'.fin = pcb.fin /\ pcb'.flight = pcb.flight
    BY <1>1, <2>1 DEF Pcb
  <2> QED
    BY <1>1, <2>1, <2>2, PcbKeeps
<1>10. CASE PeerResets
  BY <1>3, <1>10 DEF PeerResets
<1>11. CASE PeerSends
  <2>1. CASE errFunc
    BY <1>3, <1>11, <2>1 DEF PeerSends
  <2>2. CASE ~errFunc
    <3>1. pcb' = [pcb EXCEPT !.refused = TRUE] /\ UNCHANGED <<call, pos, got, lost>>
      BY <1>11, <2>2 DEF PeerSends
    <3>2. /\ pcb' \in Pcb /\ pcb'.queue = pcb.queue /\ pcb'.acked = pcb.acked
          /\ pcb'.up = pcb.up /\ pcb'.fin = pcb.fin /\ pcb'.flight = pcb.flight
      BY <1>1, <3>1 DEF Pcb
    <3> QED
      BY <1>1, <3>1, <3>2, PcbKeeps
  <2> QED
    BY <2>1, <2>2
<1>12. CASE PeerCloses
  <2>1. PICK t \in tcp_close(pcb) : pcb' = t /\ lost' = (lost \/ (pcb.up /\ ~t.up))
    BY <1>12 DEF PeerCloses, Replaced
  <2>2. Whole(t, got, pos + call.written, lost \/ (pcb.up /\ ~t.up))
    BY <1>1, <2>1, CloseKeeps
  <2>3. UNCHANGED <<call, pos, got>>
    BY <1>12 DEF PeerCloses
  <2> QED
    BY <1>2, <2>1, <2>2, <2>3
<1> QED
  BY <1>4, <1>5, <1>6, <1>7, <1>8, <1>9, <1>10, <1>11, <1>12 DEF Timer

\* The invariant says what StreamExact does.
LEMMA TInvStreamExact == TInv => StreamExact
<1> SUFFICES ASSUME TInv PROVE StreamExact
  OBVIOUS
<1>1. Exact(Stream, pos + call.written, lost)
  BY DEF TInv, Whole, StreamOf, Stream
<1> QED
  BY <1>1 DEF Exact, StreamExact

\* What the peer has received and what is queued for it are the bytes that write()
\* and writeFully() have reported, in order, once each and none missing as long as
\* the connection is up; whatever is acknowledged, lost, retransmitted, broadcast
\* or closed meanwhile, and the FIN comes last.
THEOREM TransmitCorrect == Spec => []StreamExact
<1>1. Init => TInv
  BY TransmitInit
<1>2. TInv /\ [Next]_vars => TInv'
  <2> SUFFICES ASSUME TInv, [Next]_vars PROVE TInv'
    OBVIOUS
  <2>1. CASE Next
    BY <2>1, ProgramKeeps, GoesOnKeeps, StackKeeps DEF Next
  <2>2. CASE UNCHANGED vars
    BY <2>2 DEF vars, TInv, CallInStep
  <2> QED
    BY <2>1, <2>2
<1>3. TInv => StreamExact
  BY TInvStreamExact
<1> QED
  BY <1>1, <1>2, <1>3, PTL DEF Spec

-----------------------------------------------------------------------------
(* Lookups.                                                                *)

\* Values of sys_now().
Times == 0..(ClockSize - 1)

\* Ages of requests and of calls.
Lives == 0..MaxLife

\* Types.
DnsTypes ==
    /\ now \in Times
    /\ req \in [Requests -> [held : BOOLEAN, startTime : Times, timeout : Lives,
                             frame : Calls \cup {NULL}, live : BOOLEAN]]
    /\ lookup \in [Calls -> [at : {"none", "asked", "waiting"}, t : Times,
                           timeout : Lives, lookupDone : BOOLEAN, found : BOOLEAN]]
    /\ age \in [Requests \cup Calls -> Lives]

\* The differences of times that the code looks at are ages.
AgesAreTold ==
    /\ \A r \in Requests : req[r].held => Since(req[r].startTime) = age[r]
    /\ \A c \in Calls : lookup[c].at = "waiting" => Since(lookup[c].t) = age[c]

\* lwIP holds r for the blocking lookup that is now in frame c.
Serves(r, c) == req[r].held /\ req[r].live /\ req[r].frame = c

\* The request of a call that has not been answered began no later than its
\* wait, and with its timeout; there is one.
ServedInStep ==
    \A c \in Calls, r \in Requests : Serves(r, c) =>
        /\ lookup[c].at # "none" /\ ~lookup[c].lookupDone
        /\ lookup[c].timeout = req[r].timeout
        /\ lookup[c].at = "waiting" => age[c] <= age[r]
        /\ \A q \in Requests : Serves(q, c) => q = r

\* A request whose call is gone is too old.
OrphansAreOld ==
    \A r \in Requests :
        req[r].held /\ req[r].frame # NULL /\ ~req[r].live => age[r] >= req[r].timeout

\* The inductive invariant.
DnsInv == DnsTypes /\ AgesAreTold /\ ServedInStep /\ OrphansAreOld

-----------------------------------------------------------------------------
(* The clock.                                                              *)

\* Now is not long ago, and a tick makes everything older by one, short of a
\* whole turn of the clock.
LEMMA Elapsed ==
    ASSUME now \in Times, NEW t \in Times
    PROVE  /\ Since(t) \in Times
           /\ Since(now) = 0
           /\ \A later \in Times : later = (now + 1) % ClockSize /\ Since(t) + 1 < ClockSize
                => (later - t) % ClockSize = Since(t) + 1
<1>1. ClockSize \in Nat \ {0}
  BY DnsAssumption
<1>2. Since(t) \in Times /\ Since(now) = 0
  BY <1>1 DEF Since, Times
<1>3. ASSUME NEW later \in Times, later = (now + 1) % ClockSize, Since(t) + 1 < ClockSize
      PROVE  (later - t) % ClockSize = Since(t) + 1
  <2>1. later = IF now + 1 < ClockSize THEN now + 1 ELSE 0
    BY <1>1, <1>3 DEF Times
  <2>2. Since(t) = IF t <= now THEN now - t ELSE now - t + ClockSize
    BY <1>1 DEF Times, Since
  <2>3. (later - t) % ClockSize = IF t <= later THEN later - t ELSE later - t + ClockSize
    BY <1>1 DEF Times
  <2> QED BY <1>1, <1>3, <2>1, <2>2, <2>3 DEF Times
<1> QED BY <1>2, <1>3

\* The invariant says what the property does.
LEMMA DnsIgnores == DnsInv => LateAnswersAreIgnored
BY DEF DnsInv, DnsTypes, AgesAreTold, OrphansAreOld, LateAnswersAreIgnored, InTime, Lives

-----------------------------------------------------------------------------
(* Every step keeps the invariant.                                         *)

\* Nothing has begun.
LEMMA DnsInitHolds == DnsInit => DnsInv
BY DnsAssumption DEF DnsInit, DnsInv, DnsTypes, AgesAreTold, ServedInStep, OrphansAreOld, Serves,
                     NoRequest, NoCall, Times, Lives

\* A request that lwIP takes is new.
LEMMA AskFacts ==
    ASSUME DnsInv, NEW r \in Requests, NEW timeout \in Timeouts, NEW c \in Calls \cup {NULL},
           Ask(r, timeout, c), age' \in [Requests \cup Calls -> Lives], age'[r] = 0,
           \A q \in Requests \ {r} : age'[q] = age[q], UNCHANGED now
    PROVE  /\ req' \in [Requests -> [held : BOOLEAN, startTime : Times, timeout : Lives,
                                     frame : Calls \cup {NULL}, live : BOOLEAN]]
           /\ \A q \in Requests : req'[q].held => (Since(req[q].startTime))' = age'[q]
           /\ \A q \in Requests \ {r} : req'[q] = req[q]
           /\ req'[r].held /\ req'[r].live /\ req'[r].frame = c /\ req'[r].timeout = timeout
           /\ OrphansAreOld'
<1>1. timeout \in Lives /\ now \in Times
  BY DnsAssumption DEF Lives, DnsInv, DnsTypes
<1>2. /\ req' \in [Requests -> [held : BOOLEAN, startTime : Times, timeout : Lives,
                                frame : Calls \cup {NULL}, live : BOOLEAN]]
      /\ \A q \in Requests \ {r} : req'[q] = req[q]
      /\ req'[r] = [held |-> TRUE, startTime |-> now, timeout |-> timeout,
                    frame |-> c, live |-> TRUE]
  BY <1>1 DEF DnsInv, DnsTypes, Ask
<1>3. \A q \in Requests : req'[q].held => (Since(req[q].startTime))' = age'[q]
  BY <1>1, <1>2, Elapsed DEF DnsInv, AgesAreTold, Since
<1>4. OrphansAreOld'
  BY <1>2 DEF DnsInv, OrphansAreOld
<1> QED BY <1>2, <1>3, <1>4

\* A lookup with a callback of the program's own serves no call.
LEMMA AskKeeps ==
    ASSUME DnsInv, NEW r \in Requests, NEW timeout \in Timeouts, getHostByName(r, timeout)
    PROVE  DnsInv'
<1>1. /\ Ask(r, timeout, NULL) /\ age' = [age EXCEPT ![r] = 0]
      /\ UNCHANGED <<now, lookup>> /\ 0 \in Lives
  BY DnsAssumption DEF getHostByName, Lives
<1>2. /\ age' \in [Requests \cup Calls -> Lives] /\ age'[r] = 0
      /\ \A q \in (Requests \cup Calls) \ {r} : age'[q] = age[q]
  BY <1>1 DEF DnsInv, DnsTypes
<1>3. /\ req' \in [Requests -> [held : BOOLEAN, startTime : Times, timeout : Lives,
                                frame : Calls \cup {NULL}, live : BOOLEAN]]
      /\ \A q \in Requests : req'[q].held => (Since(req[q].startTime))' = age'[q]
      /\ \A q \in Requests \ {r} : req'[q] = req[q]
      /\ req'[r].frame = NULL
      /\ OrphansAreOld'
  BY <1>1, <1>2, AskFacts
<1>4. DnsTypes' /\ AgesAreTold'
  BY <1>1, <1>2, <1>3, DnsAssumption DEF DnsInv, DnsTypes, AgesAreTold, Since
<1>5. \A q \in Requests, c \in Calls : Serves(q, c)' => q # r /\ Serves(q, c)
  BY <1>3, DnsAssumption DEF Serves
<1>6. ServedInStep'
  BY <1>1, <1>2, <1>3, <1>5, DnsAssumption DEF DnsInv, ServedInStep
<1> QED BY <1>3, <1>4, <1>6 DEF DnsInv

\* A blocking lookup begins in a frame that no request serves.
LEMMA StartKeeps ==
    ASSUME DnsInv, NEW c \in Calls, NEW r \in Requests, NEW timeout \in Timeouts,
           blockingStart(c, r, timeout)
    PROVE  DnsInv'
<1>1. /\ lookup[c].at = "none" /\ Ask(r, timeout, c)
      /\ lookup' = [lookup EXCEPT ![c] = [NoCall EXCEPT !.at = "asked", !.timeout = timeout]]
      /\ age' = [age EXCEPT ![r] = 0, ![c] = 0] /\ UNCHANGED now
      /\ 0 \in Lives /\ 0 \in Times /\ timeout \in Lives
  BY DnsAssumption DEF blockingStart, Lives, Times
<1>2. /\ age' \in [Requests \cup Calls -> Lives] /\ age'[r] = 0
      /\ \A q \in (Requests \cup Calls) \ {r, c} : age'[q] = age[q]
  BY <1>1 DEF DnsInv, DnsTypes
<1>3. /\ req' \in [Requests -> [held : BOOLEAN, startTime : Times, timeout : Lives,
                                frame : Calls \cup {NULL}, live : BOOLEAN]]
      /\ \A q \in Requests : req'[q].held => (Since(req[q].startTime))' = age'[q]
      /\ \A q \in Requests \ {r} : req'[q] = req[q]
      /\ req'[r].held /\ req'[r].live /\ req'[r].frame = c /\ req'[r].timeout = timeout
      /\ OrphansAreOld'
  BY <1>1, <1>2, AskFacts, DnsAssumption
<1>4. /\ lookup' \in [Calls -> [at : {"none", "asked", "waiting"}, t : Times,
                              timeout : Lives, lookupDone : BOOLEAN, found : BOOLEAN]]
      /\ lookup'[c].at = "asked" /\ lookup'[c].timeout = timeout /\ ~lookup'[c].lookupDone
      /\ \A d \in Calls \ {c} : lookup'[d] = lookup[d]
  BY <1>1 DEF DnsInv, DnsTypes, NoCall
<1>5. DnsTypes' /\ AgesAreTold'
  <2>1. DnsTypes'
    BY <1>1, <1>2, <1>3, <1>4 DEF DnsInv, DnsTypes
  <2>2. ASSUME NEW d \in Calls, lookup'[d].at = "waiting"
        PROVE  (now' - lookup'[d].t) % ClockSize = age'[d]
    <3>1. d # c /\ lookup'[d] = lookup[d] /\ age'[d] = age[d] /\ now' = now
      BY <1>1, <1>2, <1>4, <2>2, DnsAssumption
    <3> QED BY <2>2, <3>1 DEF DnsInv, AgesAreTold, Since
  <2> QED BY <1>3, <2>1, <2>2 DEF AgesAreTold, Since
<1>6. \A q \in Requests : Serves(q, c)' => q = r
  BY <1>1, <1>3 DEF Serves, DnsInv, ServedInStep
<1>7. \A q \in Requests, d \in Calls \ {c} : Serves(q, d)' => q # r /\ Serves(q, d)
  BY <1>3 DEF Serves
<1>8. ServedInStep'
  <2> SUFFICES ASSUME NEW d \in Calls, NEW q \in Requests, Serves(q, d)'
               PROVE  /\ lookup'[d].at # "none" /\ ~lookup'[d].lookupDone
                      /\ lookup'[d].timeout = req'[q].timeout
                      /\ lookup'[d].at = "waiting" => age'[d] <= age'[q]
                      /\ \A p \in Requests : Serves(p, d)' => p = q
    BY DEF ServedInStep
  <2>1. CASE d = c
    BY <1>3, <1>4, <1>6, <2>1
  <2>2. CASE d # c
    BY <1>2, <1>3, <1>4, <1>7, <2>2, DnsAssumption DEF DnsInv, ServedInStep
  <2> QED BY <2>1, <2>2
<1> QED BY <1>3, <1>5, <1>8 DEF DnsInv

\* The wait begins after the request.
LEMMA WaitKeeps ==
    ASSUME DnsInv, NEW c \in Calls, blockingWait(c)
    PROVE  DnsInv'
<1>1. /\ lookup[c].at = "asked" /\ age' = [age EXCEPT ![c] = 0]
      /\ lookup' = [lookup EXCEPT ![c].at = "waiting", ![c].t = now]
      /\ UNCHANGED <<now, req>> /\ 0 \in Lives /\ now \in Times
  BY DnsAssumption DEF blockingWait, Lives, DnsInv, DnsTypes
<1>2. /\ age' \in [Requests \cup Calls -> Lives] /\ age'[c] = 0
      /\ \A x \in (Requests \cup Calls) \ {c} : age'[x] = age[x]
  BY <1>1 DEF DnsInv, DnsTypes
<1>3. /\ lookup' \in [Calls -> [at : {"none", "asked", "waiting"}, t : Times,
                              timeout : Lives, lookupDone : BOOLEAN, found : BOOLEAN]]
      /\ lookup'[c].at = "waiting" /\ lookup'[c].t = now
      /\ lookup'[c].timeout = lookup[c].timeout /\ lookup'[c].lookupDone = lookup[c].lookupDone
      /\ \A d \in Calls \ {c} : lookup'[d] = lookup[d]
  BY <1>1 DEF DnsInv, DnsTypes
<1>4. DnsTypes' /\ AgesAreTold'
  BY <1>1, <1>2, <1>3, Elapsed, DnsAssumption DEF DnsInv, DnsTypes, AgesAreTold, Since
<1>5. \A q \in Requests, d \in Calls : Serves(q, d)' <=> Serves(q, d)
  BY <1>1 DEF Serves
<1>6. ServedInStep'
  <2> SUFFICES ASSUME NEW d \in Calls, NEW q \in Requests, Serves(q, d)
               PROVE  /\ lookup'[d].at # "none" /\ ~lookup'[d].lookupDone
                      /\ lookup'[d].timeout = req'[q].timeout
                      /\ lookup'[d].at = "waiting" => age'[d] <= age'[q]
                      /\ \A p \in Requests : Serves(p, d) => p = q
    BY <1>5 DEF ServedInStep
  <2>1. CASE d = c
    BY <1>1, <1>2, <1>3, <2>1, DnsAssumption DEF DnsInv, DnsTypes, ServedInStep, Lives
  <2>2. CASE d # c
    BY <1>1, <1>2, <1>3, <2>2, DnsAssumption DEF DnsInv, ServedInStep
  <2> QED BY <2>1, <2>2
<1>7. OrphansAreOld'
  BY <1>1, <1>2, DnsAssumption DEF DnsInv, OrphansAreOld
<1> QED BY <1>4, <1>6, <1>7 DEF DnsInv

\* A call that returns has been answered, or its request is too old by now.
LEMMA ReturnKeeps ==
    ASSUME DnsInv, NEW c \in Calls, blockingReturn(c)
    PROVE  DnsInv'
<1>1. /\ lookup[c].at = "waiting" /\ (lookup[c].lookupDone \/ TimedOut(c))
      /\ lookup' = [lookup EXCEPT ![c] = NoCall] /\ req' = Orphaned(c)
      /\ UNCHANGED <<now, age>> /\ 0 \in Lives /\ 0 \in Times
  BY DnsAssumption DEF blockingReturn, Return, Lives, Times
<1>2. /\ lookup' \in [Calls -> [at : {"none", "asked", "waiting"}, t : Times,
                              timeout : Lives, lookupDone : BOOLEAN, found : BOOLEAN]]
      /\ lookup'[c].at = "none"
      /\ \A d \in Calls \ {c} : lookup'[d] = lookup[d]
  BY <1>1 DEF DnsInv, DnsTypes, NoCall
<1>3. /\ req' \in [Requests -> [held : BOOLEAN, startTime : Times, timeout : Lives,
                                frame : Calls \cup {NULL}, live : BOOLEAN]]
      /\ \A r \in Requests :
           /\ req'[r].held = req[r].held /\ req'[r].startTime = req[r].startTime
           /\ req'[r].timeout = req[r].timeout /\ req'[r].frame = req[r].frame
           /\ req'[r].live <=> req[r].live /\ req[r].frame # c
  BY <1>1, ZenonT(60) DEF DnsInv, DnsTypes, Orphaned
<1>4. DnsTypes' /\ AgesAreTold'
  BY <1>1, <1>2, <1>3 DEF DnsInv, DnsTypes, AgesAreTold, Since
<1>5. \A q \in Requests, d \in Calls : Serves(q, d)' => d # c /\ Serves(q, d)
  BY <1>3 DEF Serves
<1>6. ServedInStep'
  BY <1>1, <1>2, <1>3, <1>5 DEF DnsInv, ServedInStep
<1>7. OrphansAreOld'
  <2> SUFFICES ASSUME NEW r \in Requests, req'[r].held, req'[r].frame # NULL, ~req'[r].live
               PROVE  age[r] >= req[r].timeout
    BY <1>1, <1>3 DEF OrphansAreOld
  <2>1. CASE ~req[r].live
    BY <1>3, <2>1 DEF DnsInv, OrphansAreOld
  <2>2. CASE req[r].live
    <3>1. Serves(r, c)
      BY <1>3, <2>2 DEF Serves
    <3>2. TimedOut(c) /\ age[c] <= age[r] /\ lookup[c].timeout = req[r].timeout
      BY <1>1, <3>1 DEF DnsInv, ServedInStep
    <3>3. age[c] >= lookup[c].timeout
      BY <1>1, <3>2 DEF TimedOut, DnsInv, AgesAreTold
    <3> QED BY <3>2, <3>3 DEF DnsInv, DnsTypes, Lives
  <2> QED BY <2>1, <2>2
<1> QED BY <1>4, <1>6, <1>7 DEF DnsInv

\* An answer in time is for the call that is in the frame now.
LEMMA FoundKeeps ==
    ASSUME DnsInv, NEW r \in Requests, NEW isFound \in BOOLEAN, dnsFoundFunc(r, isFound)
    PROVE  DnsInv'
<1> DEFINE c == req[r].frame
<1>1. /\ req[r].held /\ req' = [req EXCEPT ![r] = NoRequest] /\ UNCHANGED <<now, age>>
      /\ 0 \in Lives /\ 0 \in Times
      /\ lookup' = IF InTime(r) /\ c # NULL THEN Answered(c, isFound) ELSE lookup
  BY DnsAssumption DEF dnsFoundFunc, Lives, Times
<1>2. /\ req' \in [Requests -> [held : BOOLEAN, startTime : Times, timeout : Lives,
                                frame : Calls \cup {NULL}, live : BOOLEAN]]
      /\ ~req'[r].held
      /\ \A q \in Requests \ {r} : req'[q] = req[q]
  BY <1>1 DEF DnsInv, DnsTypes, NoRequest
<1>3. c \in Calls \cup {NULL}
  BY DEF DnsInv, DnsTypes
<1> HIDE DEF c
<1>4. /\ lookup' \in [Calls -> [at : {"none", "asked", "waiting"}, t : Times,
                              timeout : Lives, lookupDone : BOOLEAN, found : BOOLEAN]]
      /\ \A d \in Calls : /\ lookup'[d].at = lookup[d].at /\ lookup'[d].t = lookup[d].t
                          /\ lookup'[d].timeout = lookup[d].timeout
                          /\ ~(InTime(r) /\ d = c) => lookup'[d].lookupDone = lookup[d].lookupDone
  <2>1. CASE InTime(r) /\ c # NULL
    BY <1>1, <1>3, <2>1, ZenonT(60) DEF DnsInv, DnsTypes, Answered
  <2>2. CASE ~(InTime(r) /\ c # NULL)
    BY <1>1, <2>2 DEF DnsInv, DnsTypes
  <2> QED BY <2>1, <2>2
<1>5. DnsTypes' /\ AgesAreTold'
  BY <1>1, <1>2, <1>4 DEF DnsInv, DnsTypes, AgesAreTold, Since
<1>6. \A q \in Requests, d \in Calls : Serves(q, d)' => q # r /\ Serves(q, d)
  BY <1>2 DEF Serves
<1>7. InTime(r) /\ c # NULL => Serves(r, c)
  BY <1>1, DnsIgnores DEF LateAnswersAreIgnored, Serves, c
<1>8. ServedInStep'
  <2> SUFFICES ASSUME NEW d \in Calls, NEW q \in Requests, Serves(q, d)'
               PROVE  /\ lookup'[d].at # "none" /\ ~lookup'[d].lookupDone
                      /\ lookup'[d].timeout = req'[q].timeout
                      /\ lookup'[d].at = "waiting" => age'[d] <= age'[q]
                      /\ \A p \in Requests : Serves(p, d)' => p = q
    BY DEF ServedInStep
  <2>1. q # r /\ Serves(q, d)
    BY <1>6
  <2>2. ~(InTime(r) /\ d = c)
    BY <1>7, <2>1, DnsAssumption DEF DnsInv, ServedInStep
  <2> QED BY <1>1, <1>2, <1>4, <1>6, <2>1, <2>2 DEF DnsInv, ServedInStep
<1>9. OrphansAreOld'
  BY <1>1, <1>2 DEF DnsInv, OrphansAreOld
<1> QED BY <1>5, <1>8, <1>9 DEF DnsInv

\* Time passes for requests and calls alike.
LEMMA TickKeeps ==
    ASSUME DnsInv, Tick
    PROVE  DnsInv'
<1>1. /\ now' = (now + 1) % ClockSize /\ UNCHANGED <<req, lookup>>
      /\ age' = [x \in Requests \cup Calls |-> IF x \in Running THEN age[x] + 1 ELSE 0]
      /\ \A x \in Running : age[x] < MaxLife
      /\ Running \subseteq Requests \cup Calls
      /\ \A r \in Requests : req[r].held => r \in Running
      /\ \A c \in Calls : lookup[c].at # "none" => c \in Running
  BY DEF Tick, DnsInv, DnsTypes, Running
<1>2. /\ age' \in [Requests \cup Calls -> Lives]
      /\ \A x \in Running : age'[x] = age[x] + 1 /\ age[x] + 1 < ClockSize
  BY <1>1, DnsAssumption DEF DnsInv, DnsTypes, Lives
<1>3. now' \in Times /\ now \in Times
  BY <1>1, DnsAssumption DEF DnsInv, DnsTypes, Times
<1>4. DnsTypes'
  BY <1>1, <1>2, <1>3 DEF DnsInv, DnsTypes
<1>5. AgesAreTold'
  <2>1. ASSUME NEW t \in Times, Since(t) + 1 < ClockSize
        PROVE  (now' - t) % ClockSize = Since(t) + 1
    BY <1>1, <1>3, <2>1, Elapsed
  <2>2. ASSUME NEW r \in Requests, req[r].held
        PROVE  (now' - req[r].startTime) % ClockSize = age'[r]
    <3>1. req[r].startTime \in Times /\ Since(req[r].startTime) = age[r] /\ r \in Running
      BY <1>1, <2>2 DEF DnsInv, DnsTypes, AgesAreTold
    <3> QED BY <1>2, <2>1, <3>1
  <2>3. ASSUME NEW c \in Calls, lookup[c].at = "waiting"
        PROVE  (now' - lookup[c].t) % ClockSize = age'[c]
    <3>1. lookup[c].t \in Times /\ Since(lookup[c].t) = age[c] /\ c \in Running
      BY <1>1, <2>3 DEF DnsInv, DnsTypes, AgesAreTold
    <3> QED BY <1>2, <2>1, <3>1
  <2> QED BY <1>1, <2>2, <2>3 DEF AgesAreTold, Since
<1>6. \A q \in Requests, d \in Calls : Serves(q, d)' <=> Serves(q, d)
  BY <1>1 DEF Serves
<1>7. ServedInStep'
  BY <1>1, <1>2, <1>6 DEF DnsInv, DnsTypes, Lives, ServedInStep, Serves
<1>8. OrphansAreOld'
  BY <1>1, <1>2 DEF DnsInv, DnsTypes, Lives, OrphansAreOld
<1> QED BY <1>4, <1>5, <1>7, <1>8 DEF DnsInv

\* The induction step.
LEMMA DnsKeeps == DnsInv /\ [DnsNext]_dnsVars => DnsInv'
<1> SUFFICES ASSUME DnsInv, [DnsNext]_dnsVars PROVE DnsInv'
  OBVIOUS
<1>1. CASE UNCHANGED dnsVars
  BY <1>1 DEF dnsVars, DnsInv, DnsTypes, AgesAreTold, ServedInStep, OrphansAreOld, Serves, Since
<1> QED BY <1>1, AskKeeps, StartKeeps, WaitKeeps, ReturnKeeps, FoundKeeps, TickKeeps DEF DnsNext

-----------------------------------------------------------------------------
\* The ages are told by the clock, calls and requests are in step, and what
\* outlives its call is too old, for any number of requests and calls and every
\* clock that is not shorter than their lives.
THEOREM DnsInvariance == DnsSpec => []DnsInv
BY DnsInitHolds, DnsKeeps, PTL DEF DnsSpec

\* dnsFoundFunc() never writes through the references of a call that is gone.
THEOREM LateAnswersCorrect == DnsSpec => []LateAnswersAreIgnored
BY DnsInvariance, DnsIgnores, PTL

=============================================================================

------------------------ MODULE CircularBufferProofs ------------------------
(***************************************************************************)
(* What the operations of CircularBuffer do to the elements of a ring, as  *)
(* a sequence, wherever the ring wraps.                                    *)
(***************************************************************************)
EXTENDS CircularBuffer, Integers, TLAPS

\* A ring whose vector holds elements of E.
IsRing(r, E) ==
    /\ r \in [buf_ : Seq(E), size_ : Nat, head_ : Nat, tail_ : Nat]
    /\ capacity(r) > 0
    /\ r.size_ <= capacity(r)
    /\ r.tail_ < capacity(r)
    /\ r.head_ = (r.tail_ + r.size_) % capacity(r)

\* The newest n elements of a sequence, or all of it.
Newest(q, n) == IF Len(q) <= n THEN q ELSE SubSeq(q, Len(q) - n + 1, Len(q))

\* The index, from 1, of the element that lies i places behind the tail.
Index(r, i) == IF r.tail_ + i <= capacity(r) THEN r.tail_ + i ELSE r.tail_ + i - capacity(r)

\* The remainder of an index that has passed the end at most once.
LEMMA Wrap ==
    ASSUME NEW C \in Nat \ {0}, NEW x \in Nat, x < 2 * C
    PROVE  x % C = IF x < C THEN x ELSE x - C
<1>1. CASE x < C
  BY <1>1
<1>2. CASE x >= C
  <2>1. x - C \in 0..(C - 1)
    BY <1>2
  <2> QED BY <1>2, <2>1
<1> QED BY <1>1, <1>2

\* Where the elements are.
LEMMA RingFacts ==
    ASSUME NEW E, NEW r, IsRing(r, E)
    PROVE  /\ capacity(r) \in Nat \ {0} /\ DOMAIN r.buf_ = 1..capacity(r)
           /\ r.head_ + 1 = IF r.size_ = capacity(r) THEN r.tail_ + 1
                            ELSE Index(r, r.size_ + 1)
           /\ r.head_ < capacity(r)
           /\ \A i \in 1..capacity(r) :
                /\ Index(r, i) \in 1..capacity(r)
                /\ ((r.tail_ + i - 1) % capacity(r)) + 1 = Index(r, i)
           /\ Contents(r) = [i \in 1..r.size_ |-> r.buf_[Index(r, i)]]
           /\ Contents(r) \in Seq(E) /\ Len(Contents(r)) = r.size_
           /\ (r.tail_ + 1) % capacity(r) = IF r.tail_ + 1 = capacity(r) THEN 0 ELSE r.tail_ + 1
           /\ (r.head_ + 1) % capacity(r) = IF r.head_ + 1 = capacity(r) THEN 0 ELSE r.head_ + 1
<1> DEFINE C == capacity(r)
<1>1. C \in Nat \ {0} /\ DOMAIN r.buf_ = 1..C /\ \A i \in 1..C : r.buf_[i] \in E
  BY DEF IsRing, capacity
<1>2. r.size_ \in Nat /\ r.tail_ \in Nat /\ r.head_ \in Nat /\ r.size_ <= C /\ r.tail_ < C
  BY DEF IsRing
<1>3. r.head_ = (r.tail_ + r.size_) % C
  BY DEF IsRing
<1>4. \A i \in 1..C : Index(r, i) \in 1..C /\ ((r.tail_ + i - 1) % C) + 1 = Index(r, i)
  <2> SUFFICES ASSUME NEW i \in 1..C
               PROVE  Index(r, i) \in 1..C /\ ((r.tail_ + i - 1) % C) + 1 = Index(r, i)
    OBVIOUS
  <2>1. Index(r, i) = IF r.tail_ + i <= C THEN r.tail_ + i ELSE r.tail_ + i - C
    BY DEF Index
  <2> HIDE DEF C
  <2>2. Index(r, i) \in 1..C
    BY <1>1, <1>2, <2>1
  <2>3. PICK x \in Nat : x = r.tail_ + i - 1 /\ x < 2 * C
    BY <1>1, <1>2, SMTT(40)
  <2>4. x % C = IF x < C THEN x ELSE x - C
    BY <1>1, <2>3, Wrap
  <2>5. (x % C) + 1 = Index(r, i)
    <3>1. CASE x < C
      <4>1. Index(r, i) = x + 1
        BY <1>1, <1>2, <2>1, <2>3, <3>1
      <4>2. x % C = x
        BY <2>4, <3>1
      <4> QED BY <4>1, <4>2
    <3>2. CASE x >= C
      BY <1>1, <1>2, <2>1, <2>3, <2>4, <3>2, SMTT(40)
    <3> QED BY <1>1, <3>1, <3>2
  <2> QED BY <2>2, <2>3, <2>5
<1>5. /\ r.head_ < C
      /\ r.head_ = IF r.tail_ + r.size_ < C THEN r.tail_ + r.size_ ELSE r.tail_ + r.size_ - C
  <2> HIDE DEF C
  <2>1. PICK x \in Nat : x = r.tail_ + r.size_ /\ x < 2 * C
    BY <1>1, <1>2
  <2>2. x % C = IF x < C THEN x ELSE x - C
    BY <1>1, <2>1, Wrap
  <2> QED BY <1>1, <1>2, <1>3, <2>1, <2>2
<1>6. r.head_ + 1 = IF r.size_ = C THEN r.tail_ + 1 ELSE Index(r, r.size_ + 1)
  BY <1>1, <1>2, <1>5 DEF Index
<1>7. \A i \in 1..r.size_ : i \in 1..C
  BY <1>1, <1>2
<1>8. Contents(r) = [i \in 1..r.size_ |-> r.buf_[Index(r, i)]]
  BY <1>4, <1>7 DEF Contents
<1>9. Contents(r) \in Seq(E) /\ Len(Contents(r)) = r.size_
  <2>1. \A i \in 1..r.size_ : r.buf_[Index(r, i)] \in E
    BY <1>1, <1>4, <1>7
  <2> QED BY <1>2, <1>8, <2>1
<1>10. /\ (r.tail_ + 1) % C = IF r.tail_ + 1 = C THEN 0 ELSE r.tail_ + 1
       /\ (r.head_ + 1) % C = IF r.head_ + 1 = C THEN 0 ELSE r.head_ + 1
  <2> HIDE DEF C
  <2>1. ASSUME NEW n \in Nat, n < C PROVE (n + 1) % C = IF n + 1 = C THEN 0 ELSE n + 1
    <3>1. PICK x \in Nat : x = n + 1 /\ x < 2 * C
      BY <1>1, <2>1
    <3>2. x % C = IF x < C THEN x ELSE x - C
      BY <1>1, <3>1, Wrap
    <3> QED BY <1>1, <2>1, <3>1, <3>2
  <2> QED BY <1>1, <1>2, <1>5, <2>1
<1> QED BY <1>1, <1>4, <1>5, <1>6, <1>8, <1>9, <1>10

\* Two sequences of the same length with the same elements.
LEMMA SameSeq ==
    ASSUME NEW E, NEW p \in Seq(E), NEW q \in Seq(E), Len(p) = Len(q),
           \A i \in 1..Len(p) : p[i] = q[i]
    PROVE  p = q
OBVIOUS

\* Tail: all but the first element.
LEMMA TailFacts ==
    ASSUME NEW E, NEW q \in Seq(E), q # <<>>
    PROVE  /\ Tail(q) \in Seq(E) /\ Len(Tail(q)) = Len(q) - 1
           /\ \A i \in 1..(Len(q) - 1) : Tail(q)[i] = q[i + 1]
OBVIOUS

\* SubSeq to the end: the elements from m on.
LEMMA CutFacts ==
    ASSUME NEW E, NEW q \in Seq(E), NEW m \in 1..Len(q)
    PROVE  /\ SubSeq(q, m, Len(q)) \in Seq(E) /\ Len(SubSeq(q, m, Len(q))) = Len(q) - m + 1
           /\ \A i \in 1..(Len(q) - m + 1) : SubSeq(q, m, Len(q))[i] = q[m + i - 1]
<1>1. Len(q) \in Nat
  OBVIOUS
<1>2. \A i \in m..Len(q) : q[i] \in E
  OBVIOUS
<1> QED BY <1>1, <1>2

\* Concatenation: first the one, then the other.
LEMMA ConcatFacts ==
    ASSUME NEW E, NEW f \in Seq(E), NEW g \in Seq(E)
    PROVE  /\ f \o g \in Seq(E) /\ Len(f \o g) = Len(f) + Len(g)
           /\ \A i \in 1..Len(f) : (f \o g)[i] = f[i]
           /\ \A i \in (Len(f) + 1)..(Len(f) + Len(g)) : (f \o g)[i] = g[i - Len(f)]
<1>1. f \o g \in Seq(E) /\ Len(f \o g) = Len(f) + Len(g)
  OBVIOUS
<1>2. \A i \in 1..Len(f) : (f \o g)[i] = f[i]
  OBVIOUS
<1>3. \A i \in (Len(f) + 1)..(Len(f) + Len(g)) : (f \o g)[i] = g[i - Len(f)]
  OBVIOUS
<1> QED BY <1>1, <1>2, <1>3

\* The newest elements of a sequence, one by one.
LEMMA NewestFacts ==
    ASSUME NEW E, NEW q \in Seq(E), NEW n \in Nat, n # 0
    PROVE  LET m == IF Len(q) <= n THEN Len(q) ELSE n
           IN  /\ Newest(q, n) \in Seq(E) /\ Len(Newest(q, n)) = m
               /\ \A i \in 1..m : Len(q) - m + i \in 1..Len(q)
               /\ \A i \in 1..m : Newest(q, n)[i] = q[Len(q) - m + i]
<1>1. Len(q) \in Nat
  OBVIOUS
<1>2. CASE Len(q) <= n
  BY <1>1, <1>2 DEF Newest
<1>3. CASE ~(Len(q) <= n)
  <2>1. Newest(q, n) = SubSeq(q, Len(q) - n + 1, Len(q))
    BY <1>3 DEF Newest
  <2>2. PICK k \in 1..Len(q) : k = Len(q) - n + 1
    BY <1>1, <1>3, SMTT(40)
  <2>3. /\ SubSeq(q, k, Len(q)) \in Seq(E) /\ Len(SubSeq(q, k, Len(q))) = Len(q) - k + 1
        /\ \A i \in 1..(Len(q) - k + 1) : SubSeq(q, k, Len(q))[i] = q[k + i - 1]
    BY CutFacts
  <2>4. /\ Len(q) - k + 1 = n
        /\ \A i \in 1..n : k + i - 1 = Len(q) - n + i /\ Len(q) - n + i \in 1..Len(q)
    BY <1>1, <1>3, <2>2
  <2> QED BY <1>3, <2>1, <2>2, <2>3, <2>4
<1> QED BY <1>2, <1>3

\* The constructor.
LEMMA NewRingContents ==
    ASSUME NEW E, Blank \in E, NEW cap \in Nat
    PROVE  /\ IsRing(NewRing(cap), E)
           /\ Contents(NewRing(cap)) = <<>>
           /\ capacity(NewRing(cap)) = AtLeastOne(cap)
<1> DEFINE N == AtLeastOne(cap)
           r == NewRing(cap)
           b == [i \in 1..N |-> Blank]
<1>1. N \in Nat \ {0}
  BY DEF AtLeastOne
<1>2. r.buf_ = b /\ r.size_ = 0 /\ r.head_ = 0 /\ r.tail_ = 0
  BY DEF NewRing
<1> HIDE DEF N
<1>3. b \in Seq(E) /\ Len(b) = N
  BY <1>1
<1>4. capacity(r) = N
  BY <1>2, <1>3 DEF capacity
<1>5. r \in [buf_ : Seq(E), size_ : Nat, head_ : Nat, tail_ : Nat]
  BY <1>3 DEF NewRing, N
<1>6. IsRing(r, E)
  BY <1>1, <1>2, <1>4, <1>5 DEF IsRing
<1>7. Contents(r) = <<>>
  <2>1. Contents(r) \in Seq(E) /\ Len(Contents(r)) = 0
    BY <1>2, <1>6, RingFacts
  <2> QED BY <2>1
<1> QED BY <1>4, <1>6, <1>7 DEF N

\* put() appends an element, and drops the oldest one if the ring is full.
LEMMA PutContents ==
    ASSUME NEW E, NEW r, IsRing(r, E), NEW x \in E
    PROVE  /\ IsRing(put(r, x), E)
           /\ capacity(put(r, x)) = capacity(r)
           /\ Contents(put(r, x)) = Newest(Append(Contents(r), x), capacity(r))
<1> DEFINE C == capacity(r)
           S == r.size_
           T == r.tail_
           H == r.head_
           k == put(r, x)
<1>1. /\ C \in Nat \ {0} /\ S \in Nat /\ T \in Nat /\ H \in Nat
      /\ S <= C /\ T < C /\ H < C
  BY RingFacts DEF IsRing
<1>2. r.buf_ \in Seq(E) /\ Len(r.buf_) = C
  BY DEF IsRing, capacity
<1>3. /\ H + 1 = IF S = C THEN T + 1 ELSE Index(r, S + 1)
      /\ (T + 1) % C = IF T + 1 = C THEN 0 ELSE T + 1
      /\ (H + 1) % C = IF H + 1 = C THEN 0 ELSE H + 1
      /\ Contents(r) = [i \in 1..S |-> r.buf_[Index(r, i)]]
      /\ Contents(r) \in Seq(E) /\ Len(Contents(r)) = S
  BY RingFacts
<1>4. \A i : Index(r, i) = IF T + i <= C THEN T + i ELSE T + i - C
  BY DEF Index
<1>5. /\ k.buf_ = [r.buf_ EXCEPT ![H + 1] = x]
      /\ k.size_ = IF S = C THEN S ELSE S + 1
      /\ k.head_ = (H + 1) % C
      /\ k.tail_ = IF S = C THEN (T + 1) % C ELSE T
      /\ k = [buf_ |-> k.buf_, size_ |-> k.size_, head_ |-> k.head_, tail_ |-> k.tail_]
  BY DEF put, full
<1> HIDE DEF k, C, S, T, H
<1>6. /\ k.head_ = IF H + 1 = C THEN 0 ELSE H + 1
      /\ k.tail_ = IF S = C THEN (IF T + 1 = C THEN 0 ELSE T + 1) ELSE T
  BY <1>3, <1>5
<1>7. H = IF S = C THEN T ELSE IF T + S < C THEN T + S ELSE T + S - C
  <2>1. H + 1 = IF S = C THEN T + 1 ELSE Index(r, S + 1)
    BY <1>3
  <2>2. Index(r, S + 1) = IF T + (S + 1) <= C THEN T + (S + 1) ELSE T + (S + 1) - C
    BY <1>4
  <2> QED BY <1>1, <2>1, <2>2
<1>8. /\ k.buf_ \in Seq(E) /\ Len(k.buf_) = C
      /\ \A i \in 1..C : k.buf_[i] = IF i = H + 1 THEN x ELSE r.buf_[i]
  BY <1>1, <1>2, <1>5
<1>9. capacity(k) = C
  BY <1>8 DEF capacity
<1>10. k.size_ = IF S = C THEN S ELSE S + 1
  BY <1>5
<1>11. /\ k.size_ \in Nat /\ k.size_ <= C /\ k.tail_ \in Nat /\ k.tail_ < C /\ k.head_ \in Nat
  BY <1>1, <1>6, <1>10
<1>12. k.head_ = (k.tail_ + k.size_) % C
  <2>1. PICK y \in Nat : y = k.tail_ + k.size_ /\ y < 2 * C
    BY <1>1, <1>11
  <2>2. y % C = IF y < C THEN y ELSE y - C
    BY <1>1, <2>1, Wrap
  <2>3. k.head_ = IF y < C THEN y ELSE y - C
    <3>1. CASE S = C
      BY <1>1, <1>6, <1>7, <1>10, <2>1, <3>1
    <3>2. CASE S # C
      BY <1>1, <1>6, <1>7, <1>10, <2>1, <3>2
    <3> QED BY <3>1, <3>2
  <2> QED BY <2>1, <2>2, <2>3
<1>13. IsRing(k, E)
  <2>1. k = [buf_ |-> k.buf_, size_ |-> k.size_, head_ |-> k.head_, tail_ |-> k.tail_]
    BY <1>5
  <2>2. k \in [buf_ : Seq(E), size_ : Nat, head_ : Nat, tail_ : Nat]
    BY <1>8, <1>11, <2>1
  <2> QED BY <1>1, <1>9, <1>11, <1>12, <2>2 DEF IsRing
<1>14. /\ Contents(k) = [i \in 1..k.size_ |-> k.buf_[Index(k, i)]]
       /\ Contents(k) \in Seq(E) /\ Len(Contents(k)) = k.size_
  BY <1>13, RingFacts
<1>15. \A i : Index(k, i) = IF k.tail_ + i <= C THEN k.tail_ + i ELSE k.tail_ + i - C
  BY <1>9 DEF Index
<1>16. Contents(k) = Newest(Append(Contents(r), x), C)
  <2> DEFINE q == Append(Contents(r), x)
  <2>1. /\ q \in Seq(E) /\ Len(q) = S + 1 /\ q[S + 1] = x
        /\ \A i \in 1..S : q[i] = r.buf_[Index(r, i)]
    BY <1>1, <1>3
  <2> HIDE DEF q
  <2>2. CASE S = C
    <3>1. Newest(q, C) = SubSeq(q, 2, C + 1)
      <4>1. C \in Nat /\ Len(q) = C + 1
        BY <1>1, <2>1, <2>2
      <4>2. ~(Len(q) <= C) /\ Len(q) - C + 1 = 2
        BY <4>1
      <4> QED BY <4>1, <4>2, Zenon DEF Newest
    <3>2. /\ Newest(q, C) \in Seq(E) /\ Len(Newest(q, C)) = C
          /\ \A i \in 1..C : Newest(q, C)[i] = q[i + 1]
      BY <1>1, <2>1, <2>2, <3>1
    <3>3. k.size_ = C
      BY <1>10, <2>2
    <3>4. ASSUME NEW i \in 1..C PROVE Contents(k)[i] = q[i + 1]
      <4>1. Contents(k)[i] = k.buf_[Index(k, i)]
        BY <1>14, <3>3
      <4>2. Index(k, i) \in 1..C
        BY <1>1, <1>6, <1>15, <2>2
      <4>3. CASE i = C
        <5>1. Index(k, i) = H + 1
          BY <1>1, <1>6, <1>7, <1>15, <2>2, <4>3
        <5> QED BY <1>8, <2>1, <2>2, <4>1, <4>2, <4>3, <5>1
      <4>4. CASE i # C
        <5>1. i + 1 \in 1..S
          BY <1>1, <2>2, <4>4
        <5>2. Index(r, i + 1) = Index(k, i) /\ Index(k, i) # H + 1
          BY <1>1, <1>4, <1>6, <1>7, <1>15, <2>2, <4>4
        <5> QED BY <1>8, <2>1, <4>1, <4>2, <5>1, <5>2
      <4> QED BY <4>3, <4>4
    <3>5. \A i \in 1..Len(Contents(k)) : Contents(k)[i] = Newest(q, C)[i]
      BY <1>14, <3>2, <3>3, <3>4
    <3>6. Contents(k) \in Seq(E) /\ Len(Contents(k)) = Len(Newest(q, C))
      BY <1>14, <3>2, <3>3
    <3>7. Contents(k) = Newest(q, C)
      BY <3>2, <3>5, <3>6, SameSeq
    <3> QED BY <3>7 DEF q
  <2>3. CASE S # C
    <3>1. Newest(q, C) = q
      BY <1>1, <2>1, <2>3 DEF Newest
    <3>2. k.size_ = S + 1 /\ k.tail_ = T
      BY <1>6, <1>10, <2>3
    <3>3. ASSUME NEW i \in 1..(S + 1) PROVE Contents(k)[i] = q[i]
      <4>1. Contents(k)[i] = k.buf_[Index(k, i)]
        BY <1>14, <3>2
      <4>2. i \in 1..C /\ Index(k, i) = Index(r, i) /\ Index(r, i) \in 1..C
        BY <1>1, <1>4, <1>15, <2>3, <3>2
      <4>3. CASE i = S + 1
        <5>1. Index(r, i) = H + 1
          BY <1>3, <2>3, <4>3
        <5> QED BY <1>8, <2>1, <4>1, <4>2, <4>3, <5>1
      <4>4. CASE i # S + 1
        <5>1. i \in 1..S
          BY <1>1, <4>4
        <5>2. Index(r, i) # H + 1
          BY <1>1, <1>4, <1>7, <2>3, <5>1
        <5> QED BY <1>8, <2>1, <4>1, <4>2, <5>1, <5>2
      <4> QED BY <4>3, <4>4
    <3>4. Contents(k) \in Seq(E) /\ Len(Contents(k)) = Len(q)
      BY <1>14, <2>1, <3>2
    <3>5. \A i \in 1..Len(Contents(k)) : Contents(k)[i] = q[i]
      BY <2>1, <3>3, <3>4
    <3>6. Contents(k) = q
      BY <2>1, <3>4, <3>5, SameSeq
    <3> QED BY <3>1, <3>6 DEF q
  <2> QED BY <2>2, <2>3
<1> QED BY <1>9, <1>13, <1>16 DEF k, C

\* get() takes the oldest element off.
LEMMA GetContents ==
    ASSUME NEW E, Blank \in E, NEW r, IsRing(r, E), ~empty(r)
    PROVE  /\ IsRing(get(r), E)
           /\ capacity(get(r)) = capacity(r)
           /\ Contents(r) # <<>>
           /\ Oldest(r) = Head(Contents(r)) /\ Oldest(r) \in E
           /\ Contents(get(r)) = Tail(Contents(r))
<1> DEFINE C == capacity(r)
           S == r.size_
           T == r.tail_
           k == get(r)
<1>1. /\ C \in Nat \ {0} /\ S \in Nat /\ T \in Nat /\ r.head_ \in Nat
      /\ S <= C /\ T < C /\ S # 0
  BY RingFacts DEF IsRing, empty
<1>2. r.buf_ \in Seq(E) /\ Len(r.buf_) = C
  BY DEF IsRing, capacity
<1>3. /\ (T + 1) % C = IF T + 1 = C THEN 0 ELSE T + 1
      /\ Contents(r) = [i \in 1..S |-> r.buf_[Index(r, i)]]
      /\ Contents(r) \in Seq(E) /\ Len(Contents(r)) = S
  BY RingFacts
<1>4. \A i : Index(r, i) = IF T + i <= C THEN T + i ELSE T + i - C
  BY DEF Index
<1>5. /\ k.buf_ = [r.buf_ EXCEPT ![T + 1] = Blank]
      /\ k.size_ = S - 1 /\ k.tail_ = (T + 1) % C /\ k.head_ = r.head_
  BY DEF get, IsRing
<1>6. k = [buf_ |-> k.buf_, size_ |-> k.size_, head_ |-> k.head_, tail_ |-> k.tail_]
  <2>1. r = [buf_ |-> r.buf_, size_ |-> r.size_, head_ |-> r.head_, tail_ |-> r.tail_]
    BY DEF IsRing
  <2>2. k = [r EXCEPT !.buf_ = [r.buf_ EXCEPT ![r.tail_ + 1] = Blank], !.size_ = r.size_ - 1,
                      !.tail_ = (r.tail_ + 1) % capacity(r)]
    BY DEF get
  <2> QED BY <2>1, <2>2
<1>7. Oldest(r) = r.buf_[T + 1]
  BY DEF Oldest
<1>8. r.head_ = (T + S) % C
  BY DEF IsRing
<1> HIDE DEF k, C, S, T
<1>9. k.tail_ = IF T + 1 = C THEN 0 ELSE T + 1
  BY <1>3, <1>5
<1>10. /\ k.buf_ \in Seq(E) /\ Len(k.buf_) = C
       /\ \A i \in 1..C : k.buf_[i] = IF i = T + 1 THEN Blank ELSE r.buf_[i]
  BY <1>1, <1>2, <1>5
<1>11. capacity(k) = C
  BY <1>10 DEF capacity
<1>12. k.size_ = S - 1
  BY <1>5
<1>13. /\ k.size_ \in Nat /\ k.size_ <= C /\ k.tail_ \in Nat /\ k.tail_ < C /\ k.head_ \in Nat
  BY <1>1, <1>5, <1>9, <1>12
<1>14. k.head_ = (k.tail_ + k.size_) % C
  <2>1. PICK y \in Nat : y = k.tail_ + k.size_ /\ y < 2 * C
    BY <1>1, <1>13
  <2>2. PICK z \in Nat : z = T + S /\ z < 2 * C
    BY <1>1
  <2>3. z % C = IF z < C THEN z ELSE z - C
    BY <1>1, <2>2, Wrap
  <2>4. y % C = IF y < C THEN y ELSE y - C
    BY <1>1, <2>1, Wrap
  <2>5. k.head_ = IF z < C THEN z ELSE z - C
    BY <1>5, <1>8, <2>2, <2>3
  <2>6. (IF z < C THEN z ELSE z - C) = (IF y < C THEN y ELSE y - C)
    BY <1>1, <1>9, <1>12, <2>1, <2>2
  <2> QED BY <2>1, <2>4, <2>5, <2>6
<1>15. IsRing(k, E)
  <2>1. k \in [buf_ : Seq(E), size_ : Nat, head_ : Nat, tail_ : Nat]
    BY <1>6, <1>10, <1>13
  <2> QED BY <1>1, <1>11, <1>13, <1>14, <2>1 DEF IsRing
<1>16. /\ Contents(k) = [i \in 1..k.size_ |-> k.buf_[Index(k, i)]]
       /\ Contents(k) \in Seq(E) /\ Len(Contents(k)) = k.size_
  BY <1>15, RingFacts
<1>17. \A i : Index(k, i) = IF k.tail_ + i <= C THEN k.tail_ + i ELSE k.tail_ + i - C
  BY <1>11 DEF Index
<1>18. /\ Contents(r) # <<>>
       /\ Oldest(r) = Head(Contents(r)) /\ Oldest(r) \in E
  <2>1. Contents(r) # <<>>
    BY <1>1, <1>3
  <2>2. Contents(r)[1] = r.buf_[Index(r, 1)] /\ Contents(r)[1] \in E
    BY <1>1, <1>3
  <2>3. Index(r, 1) = T + 1
    BY <1>1, <1>4
  <2>4. Head(Contents(r)) = Contents(r)[1]
    BY <1>3, <2>1
  <2> QED BY <1>7, <2>1, <2>2, <2>3, <2>4
<1>19. Contents(k) = Tail(Contents(r))
  <2>1. /\ Tail(Contents(r)) \in Seq(E) /\ Len(Tail(Contents(r))) = S - 1
        /\ \A i \in 1..(S - 1) : Tail(Contents(r))[i] = Contents(r)[i + 1]
    BY <1>1, <1>3, <1>18, TailFacts
  <2>2. ASSUME NEW i \in 1..(S - 1) PROVE Contents(k)[i] = Contents(r)[i + 1]
    <3>1. Contents(k)[i] = k.buf_[Index(k, i)]
      BY <1>12, <1>16
    <3>2. i + 1 \in 1..S
      BY <1>1
    <3>3. Contents(r)[i + 1] = r.buf_[Index(r, i + 1)]
      BY <1>3, <3>2
    <3>4. /\ Index(k, i) = Index(r, i + 1) /\ Index(k, i) # T + 1 /\ Index(k, i) \in 1..C
      BY <1>1, <1>4, <1>9, <1>17
    <3> QED BY <1>10, <3>1, <3>3, <3>4
  <2>3. Contents(k) \in Seq(E) /\ Len(Contents(k)) = Len(Tail(Contents(r)))
    BY <1>12, <1>16, <2>1
  <2>4. \A i \in 1..Len(Contents(k)) : Contents(k)[i] = Tail(Contents(r))[i]
    BY <2>1, <2>2, <2>3
  <2> QED BY <2>1, <2>3, <2>4, SameSeq
<1> QED BY <1>11, <1>15, <1>18, <1>19 DEF k, C

\* setCapacity() keeps the newest elements that fit, in their order.
LEMMA SetCapacityContents ==
    ASSUME NEW E, Blank \in E, NEW r, IsRing(r, E), NEW cap \in Nat
    PROVE  /\ IsRing(setCapacity(r, cap), E)
           /\ capacity(setCapacity(r, cap)) = AtLeastOne(cap)
           /\ Contents(setCapacity(r, cap)) = Newest(Contents(r), AtLeastOne(cap))
<1> DEFINE C == capacity(r)
           S == r.size_
           T == r.tail_
           N == AtLeastOne(cap)
           k == setCapacity(r, cap)
<1>1. C \in Nat \ {0} /\ S \in Nat /\ T \in Nat /\ S <= C /\ T < C
  BY RingFacts DEF IsRing
<1>2. r.buf_ \in Seq(E) /\ Len(r.buf_) = C
  BY DEF IsRing, capacity
<1>3. N \in Nat \ {0}
  BY DEF AtLeastOne
<1>4. /\ Contents(r) = [i \in 1..S |-> r.buf_[Index(r, i)]]
      /\ Contents(r) \in Seq(E) /\ Len(Contents(r)) = S
  BY RingFacts
<1>5. \A i : Index(r, i) = IF T + i <= C THEN T + i ELSE T + i - C
  BY DEF Index
<1>6. CASE cap = C
  <2>1. k = r
    BY <1>6 DEF setCapacity
  <2>2. N = C
    BY <1>1, <1>6 DEF AtLeastOne
  <2>3. Newest(Contents(r), N) = Contents(r)
    BY <1>1, <1>4, <2>2 DEF Newest
  <2> QED BY <2>1, <2>2, <2>3
<1>7. CASE cap # C
  <2> DEFINE n == IF N <= S THEN (T + (S - N)) % C ELSE T
             b == Rotate(r.buf_, n)
             m == IF N <= S THEN N ELSE S
  <2>1. k = [buf_ |-> Resize(b, N), size_ |-> m, head_ |-> IF N <= S THEN 0 ELSE S, tail_ |-> 0]
    BY <1>7 DEF setCapacity
  <2> HIDE DEF C, S, T, N, k
  <2>2. /\ n \in 0..(C - 1)
        /\ n = IF N <= S THEN (IF T + (S - N) < C THEN T + (S - N) ELSE T + (S - N) - C) ELSE T
    <3>1. CASE N <= S
      <4>1. PICK y \in Nat : y = T + (S - N) /\ y < 2 * C
        BY <1>1, <1>3, <3>1
      <4>2. y % C = IF y < C THEN y ELSE y - C
        BY <1>1, <4>1, Wrap
      <4> QED BY <1>1, <1>3, <3>1, <4>1, <4>2
    <3>2. CASE ~(N <= S)
      BY <1>1, <3>2
    <3> QED BY <3>1, <3>2
  <2> HIDE DEF n
  <2>3. /\ b \in Seq(E) /\ Len(b) = C
        /\ \A i \in 1..C : b[i] = r.buf_[IF n + i <= C THEN n + i ELSE n + i - C]
    <3> DEFINE f == SubSeq(r.buf_, n + 1, C)
               g == SubSeq(r.buf_, 1, n)
    <3>1. f \in Seq(E) /\ Len(f) = C - n /\ \A i \in 1..(C - n) : f[i] = r.buf_[n + i]
      <4>1. n + 1 \in 1..C /\ C - (n + 1) + 1 = C - n
        BY <1>1, <2>2
      <4>2. /\ f \in Seq(E) /\ Len(f) = C - (n + 1) + 1
            /\ \A i \in 1..(C - (n + 1) + 1) : f[i] = r.buf_[n + 1 + i - 1]
        BY <1>1, <1>2, <4>1, CutFacts
      <4>3. \A i \in 1..(C - n) : n + 1 + i - 1 = n + i
        BY <1>1, <2>2
      <4> QED BY <4>1, <4>2, <4>3
    <3>2. g \in Seq(E) /\ Len(g) = n /\ \A i \in 1..n : g[i] = r.buf_[i]
      BY <1>1, <1>2, <2>2
    <3>3. b = f \o g
      BY <1>2 DEF Rotate
    <3> HIDE DEF f, g, b
    <3>4. b \in Seq(E) /\ Len(b) = C
      <4>1. b \in Seq(E) /\ Len(b) = Len(f) + Len(g)
        BY <3>1, <3>2, <3>3, ConcatFacts
      <4>2. n \in 0..(C - 1)
        BY <2>2
      <4>3. (C - n) + n = C
        BY <1>1, <4>2
      <4> QED BY <3>1, <3>2, <4>1, <4>3
    <3>5. ASSUME NEW i \in 1..C
          PROVE  b[i] = r.buf_[IF n + i <= C THEN n + i ELSE n + i - C]
      <4>1. CASE n + i <= C
        <5>1. i \in 1..(C - n)
          BY <1>1, <2>2, <4>1
        <5>2. b[i] = f[i]
          BY <3>1, <3>2, <3>3, <5>1, ConcatFacts
        <5> QED BY <3>1, <4>1, <5>1, <5>2
      <4>2. CASE ~(n + i <= C)
        <5>1. i - (C - n) \in 1..n /\ i - (C - n) = n + i - C
          BY <1>1, <2>2, <4>2
        <5>2. i \in (Len(f) + 1)..(Len(f) + Len(g)) /\ i - Len(f) = n + i - C
          <6>1. n \in 0..(C - 1) /\ Len(f) = C - n /\ Len(g) = n
            BY <2>2, <3>1, <3>2
          <6> QED BY <1>1, <4>2, <6>1
        <5>3. b[i] = g[i - Len(f)]
          BY <3>1, <3>2, <3>3, <5>2, ConcatFacts
        <5> QED BY <3>2, <4>2, <5>1, <5>2, <5>3
      <4> QED BY <4>1, <4>2
    <3> QED BY <3>4, <3>5
  <2> HIDE DEF b
  <2>4. k.buf_ = Resize(b, N) /\ k.size_ = m /\ k.tail_ = 0
        /\ k.head_ = IF N <= S THEN 0 ELSE S
    BY <2>1
  <2>5. /\ k.buf_ \in Seq(E) /\ Len(k.buf_) = N
        /\ \A i \in 1..N : k.buf_[i] = IF i <= C THEN b[i] ELSE Blank
    <3>1. \A i \in 1..N : (IF i <= C THEN b[i] ELSE Blank) \in E
      BY <1>1, <1>3, <2>3
    <3> QED BY <1>3, <2>3, <2>4, <3>1 DEF Resize
  <2>6. m \in Nat /\ m <= N /\ m <= S
    BY <1>1, <1>3
  <2>7. capacity(k) = N
    BY <2>5 DEF capacity
  <2>8. k.head_ = (k.tail_ + k.size_) % N
    <3>1. PICK y \in Nat : y = k.tail_ + k.size_ /\ y = m /\ y < 2 * N
      BY <1>3, <2>4, <2>6
    <3>2. y % N = IF y < N THEN y ELSE y - N
      BY <1>3, <3>1, Wrap
    <3> QED BY <1>1, <1>3, <2>4, <3>1, <3>2
  <2>9. IsRing(k, E)
    <3>1. k \in [buf_ : Seq(E), size_ : Nat, head_ : Nat, tail_ : Nat]
      BY <1>1, <2>1, <2>4, <2>5, <2>6
    <3> QED BY <1>1, <1>3, <2>4, <2>6, <2>7, <2>8, <3>1 DEF IsRing
  <2>10. /\ Contents(k) = [i \in 1..k.size_ |-> k.buf_[Index(k, i)]]
         /\ Contents(k) \in Seq(E) /\ Len(Contents(k)) = k.size_
    BY <2>9, RingFacts
  <2>11. ASSUME NEW i \in 1..m PROVE Contents(k)[i] = Contents(r)[S - m + i]
    <3>1. Contents(k)[i] = k.buf_[Index(k, i)]
      BY <2>4, <2>10
    <3>2. Index(k, i) = i
      BY <1>3, <2>4, <2>6, <2>7 DEF Index
    <3>3. i \in 1..N /\ i \in 1..C /\ S - m + i \in 1..S
      BY <1>1, <1>3, <2>6
    <3>4. k.buf_[i] = b[i]
      BY <1>1, <2>5, <3>3
    <3>5. Contents(r)[S - m + i] = r.buf_[Index(r, S - m + i)]
      BY <1>4, <3>3
    <3>6. Index(r, S - m + i) = IF T + (S - m + i) <= C THEN T + (S - m + i) ELSE T + (S - m + i) - C
      BY <1>5
    <3>7. Index(r, S - m + i) = IF n + i <= C THEN n + i ELSE n + i - C
      <4>1. CASE N <= S
        BY <1>1, <1>3, <2>2, <3>3, <3>6, <4>1
      <4>2. CASE ~(N <= S)
        BY <1>1, <1>3, <2>2, <3>3, <3>6, <4>2
      <4> QED BY <4>1, <4>2
    <3> QED BY <2>3, <3>1, <3>2, <3>3, <3>4, <3>5, <3>7
  <2>12. Contents(k) = Newest(Contents(r), N)
    <3> DEFINE q == Newest(Contents(r), N)
    <3>1. q \in Seq(E) /\ Len(q) = m /\ \A i \in 1..m : q[i] = Contents(r)[S - m + i]
      <4>1. CASE S <= N
        <5>1. q = Contents(r) /\ m = S
          BY <1>1, <1>3, <1>4, <4>1 DEF Newest
        <5> QED BY <1>1, <1>4, <5>1
      <4>2. CASE ~(S <= N)
        <5>1. q = SubSeq(Contents(r), S - N + 1, S) /\ m = N
          BY <1>1, <1>3, <1>4, <4>2 DEF Newest
        <5> HIDE DEF q, m
        <5> QED BY <1>1, <1>3, <1>4, <4>2, <5>1
      <4> QED BY <4>1, <4>2
    <3> HIDE DEF q, m
    <3>2. Contents(k) \in Seq(E) /\ Len(Contents(k)) = Len(q)
      BY <2>4, <2>10, <3>1
    <3>3. \A i \in 1..Len(Contents(k)) : Contents(k)[i] = q[i]
      BY <2>4, <2>10, <2>11, <3>1
    <3>4. Contents(k) = q
      BY <3>1, <3>2, <3>3, SameSeq
    <3> QED BY <3>4 DEF q
  <2> QED BY <2>7, <2>9, <2>12 DEF k, N
<1> QED BY <1>6, <1>7
=============================================================================

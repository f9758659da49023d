------------------------ MODULE EthernetFrameProofs ------------------------
(***************************************************************************)
(* Proofs about EthernetFrame: its queue, the frames parseFrame() takes    *)
(* from it and the position of a reader, for frames of any size and any    *)
(* number of them.  What the queue's operations do is CircularBufferProofs. *)
(***************************************************************************)
EXTENDS EthernetFrame, TLAPS

R == INSTANCE CircularBufferProofs

Frame == [n : Nat, size : Nat]

\* The operations of the queue are those the lemmas are about.
LEMMA SameOperations ==
    ASSUME NEW r, NEW x
    PROVE  /\ Queue!Contents(r) = R!Contents(r) /\ Queue!capacity(r) = R!capacity(r)
           /\ Queue!full(r) = R!full(r) /\ Queue!empty(r) = R!empty(r)
           /\ Queue!put(r, x) = R!put(r, x) /\ Queue!get(r) = R!get(r)
           /\ Queue!Oldest(r) = R!Oldest(r) /\ Queue!NewRing(x) = R!NewRing(x)
           /\ Queue!setCapacity(r, x) = R!setCapacity(r, x)
<1>1. /\ Queue!capacity(r) = R!capacity(r) /\ Queue!full(r) = R!full(r)
      /\ Queue!empty(r) = R!empty(r) /\ Queue!Oldest(r) = R!Oldest(r)
  BY DEF Queue!capacity, R!capacity, Queue!full, R!full, Queue!empty, R!empty,
         Queue!Oldest, R!Oldest
<1>2. Queue!Contents(r) = R!Contents(r)
  BY DEF Queue!capacity, R!capacity, Queue!Contents, R!Contents
<1>3. Queue!put(r, x) = R!put(r, x)
  BY DEF Queue!capacity, R!capacity, Queue!full, R!full, Queue!put, R!put
<1>4. Queue!get(r) = R!get(r)
  BY DEF Queue!capacity, R!capacity, Queue!get, R!get
<1>5. Queue!NewRing(x) = R!NewRing(x)
  BY DEF Queue!NewRing, R!NewRing, Queue!AtLeastOne, R!AtLeastOne
<1>6. Queue!setCapacity(r, x) = R!setCapacity(r, x)
  BY <1>5 DEF Queue!setCapacity, R!setCapacity, Queue!capacity, R!capacity,
         Queue!AtLeastOne, R!AtLeastOne, Queue!Resize, R!Resize, Queue!Rotate, R!Rotate
<1> QED BY <1>1, <1>2, <1>3, <1>4, <1>5, <1>6

-----------------------------------------------------------------------------
(* The inductive invariant.                                                *)

\* The frames of q are the newest of total frames.
Numbered(q, total) == \A i \in 1..Len(q) : q[i].n = total - Len(q) + i

\* q is the queue: its frames are the newest that were received; the others were
\* parsed, dropped or thrown away.  What was parsed is older than the queue and
\* in order, and the frame being read is the last of it.
Consistent(q, seen, frame, dropped, total, thrown) ==
    /\ Numbered(q, total)
    /\ total = Len(seen) + Len(q) + dropped + thrown
    /\ \A i, j \in 1..Len(seen) : i < j => seen[i] < seen[j]
    /\ \A i \in 1..Len(seen) : seen[i] <= total - Len(q)
    /\ seen # <<>> => frame.n = seen[Len(seen)]

Types ==
    /\ R!IsRing(inBuf_, Frame) /\ frame_ \in Frame
    /\ framePos_ \in Int /\ outFrame_ \in Int
    /\ droppedReceiveCount_ \in Nat /\ totalReceiveCount_ \in Nat /\ cut \in Nat
    /\ parsing \in BOOLEAN /\ parsed \in Seq(Nat)

Inv ==
    /\ Types
    /\ Consistent(Queue!Contents(inBuf_), parsed, frame_, droppedReceiveCount_,
                  totalReceiveCount_, cut)
    /\ PositionFits

-----------------------------------------------------------------------------
(* What each operation does to the sequence of frames.                     *)

\* The queue as a sequence.
LEMMA QueueFacts ==
    ASSUME NEW r, R!IsRing(r, Frame)
    PROVE  /\ Queue!Contents(r) \in Seq(Frame) /\ Len(Queue!Contents(r)) = r.size_
           /\ Queue!capacity(r) \in Nat /\ Queue!capacity(r) # 0
           /\ r.size_ \in Nat /\ r.size_ <= Queue!capacity(r)
<1>1. /\ R!Contents(r) \in Seq(Frame) /\ Len(R!Contents(r)) = r.size_
      /\ R!capacity(r) \in Nat \ {0}
  BY R!RingFacts
<1>2. r.size_ \in Nat /\ r.size_ <= R!capacity(r)
  BY DEF R!IsRing
<1> QED BY <1>1, <1>2, SameOperations

\* put(): the oldest frame makes room in a full queue.
LEMMA PutFrame ==
    ASSUME NEW r, R!IsRing(r, Frame), NEW x \in Frame
    PROVE  /\ R!IsRing(Queue!put(r, x), Frame)
           /\ Queue!Contents(Queue!put(r, x))
                = R!Newest(Append(Queue!Contents(r), x), Queue!capacity(r))
<1>1. /\ R!IsRing(R!put(r, x), Frame)
      /\ R!Contents(R!put(r, x)) = R!Newest(Append(R!Contents(r), x), R!capacity(r))
  BY R!PutContents
<1> QED BY <1>1, SameOperations

\* get(): the oldest frame.
LEMMA GetFrame ==
    ASSUME NEW r, R!IsRing(r, Frame), ~Queue!empty(r)
    PROVE  /\ R!IsRing(Queue!get(r), Frame)
           /\ Queue!Contents(r) # <<>> /\ Queue!Oldest(r) \in Frame
           /\ Queue!Oldest(r) = Head(Queue!Contents(r))
           /\ Queue!Contents(Queue!get(r)) = Tail(Queue!Contents(r))
<1>1. Blank \in Frame /\ ~R!empty(r)
  BY SameOperations DEF Blank, Frame
<1>2. /\ R!IsRing(R!get(r), Frame) /\ R!Contents(r) # <<>>
      /\ R!Oldest(r) = Head(R!Contents(r)) /\ R!Oldest(r) \in Frame
      /\ R!Contents(R!get(r)) = Tail(R!Contents(r))
  BY <1>1, R!GetContents
<1> QED BY <1>2, SameOperations

\* setCapacity(): the newest frames that fit.
LEMMA CapacityFrame ==
    ASSUME NEW r, R!IsRing(r, Frame), NEW c \in Nat
    PROVE  /\ R!IsRing(Queue!setCapacity(r, c), Frame)
           /\ \E n \in Nat : n # 0 /\ Queue!Contents(Queue!setCapacity(r, c))
                                        = R!Newest(Queue!Contents(r), n)
<1>1. Blank \in Frame
  BY DEF Blank, Frame
<1>2. /\ R!IsRing(R!setCapacity(r, c), Frame)
      /\ R!Contents(R!setCapacity(r, c)) = R!Newest(R!Contents(r), R!AtLeastOne(c))
  BY <1>1, R!SetCapacityContents
<1>3. R!AtLeastOne(c) \in Nat /\ R!AtLeastOne(c) # 0
  BY DEF R!AtLeastOne
<1> QED BY <1>2, <1>3, SameOperations

\* The constructor and clear().
LEMMA NewFrames ==
    ASSUME NEW c \in Nat
    PROVE  R!IsRing(Queue!NewRing(c), Frame) /\ Queue!Contents(Queue!NewRing(c)) = <<>>
<1>1. Blank \in Frame
  BY DEF Blank, Frame
<1>2. R!IsRing(R!NewRing(c), Frame) /\ R!Contents(R!NewRing(c)) = <<>>
  BY <1>1, R!NewRingContents
<1> QED BY <1>2, SameOperations

\* The newest frames of a queue are numbered like the queue.
LEMMA NewestNumbers ==
    ASSUME NEW q \in Seq(Frame), NEW n \in Nat, n # 0, NEW total \in Nat, Numbered(q, total)
    PROVE  LET w == R!Newest(q, n)
           IN  /\ w \in Seq(Frame) /\ Len(w) = IF Len(q) <= n THEN Len(q) ELSE n
               /\ Numbered(w, total)
<1>1. PICK m \in Nat : m = IF Len(q) <= n THEN Len(q) ELSE n
  OBVIOUS
<1>2. PICK w : w = R!Newest(q, n)
  OBVIOUS
<1>3. /\ w \in Seq(Frame) /\ Len(w) = m
      /\ \A i \in 1..m : Len(q) - m + i \in 1..Len(q)
      /\ \A i \in 1..m : w[i] = q[Len(q) - m + i]
  BY <1>1, <1>2, R!NewestFacts, ZenonT(60)
<1>4. ASSUME NEW i \in 1..m PROVE w[i].n = total - m + i
  <2>1. PICK k \in 1..Len(q) : k = Len(q) - m + i
    BY <1>3
  <2>2. q[k].n = total - Len(q) + k /\ w[i] = q[k]
    BY <1>3, <2>1 DEF Numbered
  <2>3. Len(q) \in Nat /\ total - Len(q) + k = total - m + i
    BY <1>1, <2>1
  <2> QED BY <2>2, <2>3
<1>5. Numbered(w, total)
  BY <1>3, <1>4 DEF Numbered
<1> QED BY <1>1, <1>2, <1>3, <1>5

-----------------------------------------------------------------------------
(* The steps.                                                              *)

\* A frame arrives in the sequence.
LEMMA Arrives ==
    ASSUME NEW q \in Seq(Frame), NEW C \in Nat, C # 0, Len(q) <= C,
           NEW seen \in Seq(Nat), NEW frame \in Frame, NEW dropped \in Nat,
           NEW total \in Nat, NEW thrown \in Nat,
           Consistent(q, seen, frame, dropped, total, thrown),
           NEW x \in Frame, x.n = total + 1
    PROVE  Consistent(R!Newest(Append(q, x), C), seen, frame,
                      dropped + (IF Len(q) = C THEN 1 ELSE 0), total + 1, thrown)
<1>1. Len(q) \in Nat /\ Len(seen) \in Nat
  OBVIOUS
<1>2. PICK a : a = Append(q, x)
  OBVIOUS
<1>3. /\ a \in Seq(Frame) /\ Len(a) = Len(q) + 1 /\ a[Len(q) + 1] = x
      /\ \A i \in 1..Len(q) : a[i] = q[i]
  BY <1>2
<1>4. \A i \in 1..Len(q) : q[i].n = total - Len(q) + i
  BY DEF Consistent, Numbered
<1>5. ASSUME NEW i \in 1..Len(a) PROVE a[i].n = (total + 1) - Len(a) + i
  <2>1. CASE i = Len(q) + 1
    BY <1>1, <1>3, <2>1
  <2>2. CASE i # Len(q) + 1
    <3>1. i \in 1..Len(q)
      BY <1>1, <1>3, <2>2
    <3>2. (total + 1) - Len(a) + i = total - Len(q) + i
      BY <1>1, <1>3
    <3> QED BY <1>3, <1>4, <3>1, <3>2
  <2> QED BY <2>1, <2>2
<1>6. PICK w : w = R!Newest(a, C)
  OBVIOUS
<1>7. PICK t \in Nat : t = total + 1
  OBVIOUS
<1>8. Numbered(a, t)
  BY <1>5, <1>7 DEF Numbered
<1>9. /\ w \in Seq(Frame) /\ Len(w) = IF Len(a) <= C THEN Len(a) ELSE C
      /\ Numbered(w, t)
  BY <1>3, <1>6, <1>8, NewestNumbers
<1>10. PICK d \in Nat : d = dropped + (IF Len(q) = C THEN 1 ELSE 0)
  OBVIOUS
<1>11. Len(w) \in Nat /\ Len(w) + d = Len(q) + dropped + 1 /\ t - Len(w) >= total - Len(q)
  <2>1. CASE Len(q) = C
    BY <1>1, <1>3, <1>7, <1>9, <1>10, <2>1
  <2>2. CASE Len(q) # C
    <3>1. Len(a) <= C /\ d = dropped
      BY <1>1, <1>3, <1>10, <2>2
    <3>2. Len(w) = Len(q) + 1
      BY <1>3, <1>9, <3>1
    <3> QED BY <1>1, <1>7, <3>1, <3>2
  <2> QED BY <2>1, <2>2
<1>12. /\ total = Len(seen) + Len(q) + dropped + thrown
       /\ \A i, j \in 1..Len(seen) : i < j => seen[i] < seen[j]
       /\ \A i \in 1..Len(seen) : seen[i] <= total - Len(q)
       /\ seen # <<>> => frame.n = seen[Len(seen)]
  BY DEF Consistent
<1>13. t = Len(seen) + Len(w) + d + thrown
  BY <1>1, <1>7, <1>11, <1>12, SMTT(40)
<1>14. ASSUME NEW i \in 1..Len(seen) PROVE seen[i] <= t - Len(w)
  <2>1. seen[i] \in Nat /\ seen[i] <= total - Len(q)
    BY <1>12, SMTT(40)
  <2>2. total - Len(q) <= t - Len(w) /\ total - Len(q) \in Int /\ t - Len(w) \in Int
    BY <1>1, <1>7, <1>11
  <2> QED BY <2>1, <2>2, SMTT(40)
<1>15. Consistent(w, seen, frame, d, t, thrown)
  BY <1>9, <1>12, <1>13, <1>14 DEF Consistent
<1> QED BY <1>2, <1>6, <1>7, <1>10, <1>15

\* recvFunc(), of a frame from the driver or of one that was looped back.
LEMMA RecvStep ==
    ASSUME Inv, NEW size \in Nat, recvFunc(size), UNCHANGED <<frame_, framePos_, parsing, parsed, cut>>,
           outFrame_' \in Int
    PROVE  Inv'
<1>1. /\ R!IsRing(inBuf_, Frame) /\ frame_ \in Frame /\ framePos_ \in Int
      /\ droppedReceiveCount_ \in Nat /\ totalReceiveCount_ \in Nat /\ cut \in Nat
      /\ parsing \in BOOLEAN /\ parsed \in Seq(Nat)
  BY DEF Inv, Types
<1>2. PICK x : x = [n |-> totalReceiveCount_ + 1, size |-> size]
  OBVIOUS
<1>3. x \in Frame /\ x.n = totalReceiveCount_ + 1
  BY <1>1, <1>2 DEF Frame
<1>4. /\ inBuf_' = Queue!put(inBuf_, x) /\ totalReceiveCount_' = totalReceiveCount_ + 1
      /\ droppedReceiveCount_' = droppedReceiveCount_ + (IF Queue!full(inBuf_) THEN 1 ELSE 0)
  BY <1>2 DEF recvFunc, Overwrites
<1>5. /\ R!IsRing(inBuf_', Frame)
      /\ Queue!Contents(inBuf_') = R!Newest(Append(Queue!Contents(inBuf_), x), Queue!capacity(inBuf_))
  BY <1>1, <1>3, <1>4, PutFrame
<1>6. PICK q : q = Queue!Contents(inBuf_)
  OBVIOUS
<1>7. PICK C : C = Queue!capacity(inBuf_)
  OBVIOUS
<1>8. q \in Seq(Frame) /\ Len(q) = inBuf_.size_ /\ C \in Nat /\ C # 0 /\ Len(q) <= C
  BY <1>1, <1>6, <1>7, QueueFacts
<1>9. droppedReceiveCount_' = droppedReceiveCount_ + (IF Len(q) = C THEN 1 ELSE 0)
  BY <1>4, <1>7, <1>8 DEF Queue!full
<1>10. Consistent(q, parsed, frame_, droppedReceiveCount_, totalReceiveCount_, cut)
  BY <1>6 DEF Inv
<1>11. Consistent(R!Newest(Append(q, x), C), parsed, frame_,
                  droppedReceiveCount_ + (IF Len(q) = C THEN 1 ELSE 0), totalReceiveCount_ + 1, cut)
  BY <1>1, <1>3, <1>8, <1>10, Arrives
<1>12. Consistent(Queue!Contents(inBuf_), parsed, frame_, droppedReceiveCount_,
                  totalReceiveCount_, cut)'
  BY <1>4, <1>5, <1>6, <1>7, <1>9, <1>11
<1>13. Types'
  BY <1>1, <1>4, <1>5, <1>9 DEF Types
<1>14. PositionFits'
  BY DEF Inv, PositionFits
<1> QED BY <1>12, <1>13, <1>14 DEF Inv

\* parseFrame() takes the oldest frame, whose number is higher than any before.
LEMMA PopStep ==
    ASSUME Inv, parse_pop
    PROVE  Inv'
<1>1. /\ R!IsRing(inBuf_, Frame) /\ framePos_ \in Int /\ outFrame_ \in Int
      /\ droppedReceiveCount_ \in Nat /\ totalReceiveCount_ \in Nat /\ cut \in Nat
      /\ parsed \in Seq(Nat)
  BY DEF Inv, Types
<1>2. /\ ~Queue!empty(inBuf_) /\ frame_' = Queue!Oldest(inBuf_)
      /\ inBuf_' = Queue!get(inBuf_)
      /\ parsing' = TRUE /\ parsed' = Append(parsed, frame_'.n)
      /\ UNCHANGED <<droppedReceiveCount_, totalReceiveCount_, framePos_, outFrame_, cut>>
  BY DEF parse_pop, Popped
<1>3. PICK q : q = Queue!Contents(inBuf_)
  OBVIOUS
<1>4. PICK w : w = Queue!Contents(inBuf_')
  OBVIOUS
<1>5. /\ R!IsRing(inBuf_', Frame) /\ q # <<>> /\ frame_' \in Frame
      /\ frame_' = Head(q) /\ w = Tail(q)
  BY <1>1, <1>2, <1>3, <1>4, GetFrame
<1>6. q \in Seq(Frame) /\ Len(q) \in Nat
  BY <1>1, <1>3, QueueFacts
<1>7. /\ w \in Seq(Frame) /\ Len(w) = Len(q) - 1 /\ Len(q) >= 1 /\ frame_' = q[1]
      /\ \A i \in 1..(Len(q) - 1) : w[i] = q[i + 1]
  <2>1. w \in Seq(Frame) /\ Len(w) = Len(q) - 1 /\ \A i \in 1..(Len(q) - 1) : w[i] = q[i + 1]
    BY <1>5, <1>6, R!TailFacts
  <2>2. Len(q) >= 1 /\ Head(q) = q[1]
    BY <1>5, <1>6
  <2> QED BY <1>5, <2>1, <2>2
<1>8. Consistent(q, parsed, frame_, droppedReceiveCount_, totalReceiveCount_, cut)
  BY <1>3 DEF Inv
<1>9. PICK total \in Nat : total = totalReceiveCount_
  BY <1>1
<1>10. /\ \A i \in 1..Len(q) : q[i].n = total - Len(q) + i
       /\ total = Len(parsed) + Len(q) + droppedReceiveCount_ + cut
       /\ \A i, j \in 1..Len(parsed) : i < j => parsed[i] < parsed[j]
       /\ \A i \in 1..Len(parsed) : parsed[i] <= total - Len(q)
  BY <1>8, <1>9 DEF Consistent, Numbered
<1>11. PICK y : y = frame_'.n
  OBVIOUS
<1>12. y \in Nat /\ y = total - Len(q) + 1
  <2>1. q[1].n = total - Len(q) + 1
    BY <1>6, <1>7, <1>10
  <2> QED BY <1>5, <1>7, <1>11, <2>1 DEF Frame
<1>13. PICK seen : seen = parsed'
  OBVIOUS
<1>14. /\ seen \in Seq(Nat) /\ Len(seen) = Len(parsed) + 1 /\ seen[Len(parsed) + 1] = y
       /\ Len(parsed) \in Nat /\ \A i \in 1..Len(parsed) : seen[i] = parsed[i]
  <2>1. seen = Append(parsed, y)
    BY <1>2, <1>11, <1>13
  <2> QED BY <1>1, <1>12, <2>1
<1>15. ASSUME NEW i \in 1..Len(w) PROVE w[i].n = total - Len(w) + i
  <2>1. PICK k \in 1..Len(q) : k = i + 1
    BY <1>6, <1>7
  <2>2. q[k].n = total - Len(q) + k /\ w[i] = q[k]
    BY <1>6, <1>7, <1>10, <2>1
  <2>3. total - Len(q) + k = total - Len(w) + i
    BY <1>6, <1>7, <2>1
  <2> QED BY <2>2, <2>3
<1>16. ASSUME NEW i \in 1..Len(seen) PROVE seen[i] <= total - Len(w)
  <2>1. CASE i = Len(parsed) + 1
    BY <1>6, <1>7, <1>12, <1>14, <2>1
  <2>2. CASE i # Len(parsed) + 1
    <3>1. i \in 1..Len(parsed)
      BY <1>14, <2>2
    <3>2. seen[i] = parsed[i] /\ parsed[i] <= total - Len(q) /\ parsed[i] \in Nat
      BY <1>1, <1>10, <1>14, <3>1, SMTT(40)
    <3> QED BY <1>6, <1>7, <3>2
  <2> QED BY <2>1, <2>2
<1>17. ASSUME NEW i \in 1..Len(seen), NEW j \in 1..Len(seen), i < j PROVE seen[i] < seen[j]
  <2>1. i \in 1..Len(parsed) /\ seen[i] = parsed[i] /\ parsed[i] \in Nat
    <3>1. i \in 1..Len(parsed)
      BY <1>14, <1>17
    <3> QED BY <1>1, <1>14, <3>1, SMTT(40)
  <2>2. CASE j = Len(parsed) + 1
    <3>1. parsed[i] <= total - Len(q)
      BY <1>10, <2>1
    <3> QED BY <1>6, <1>12, <1>14, <2>1, <2>2, <3>1
  <2>3. CASE j # Len(parsed) + 1
    <3>1. j \in 1..Len(parsed) /\ seen[j] = parsed[j]
      BY <1>14, <2>3
    <3> QED BY <1>10, <1>17, <2>1, <3>1
  <2> QED BY <2>2, <2>3
<1>18. total = Len(seen) + Len(w) + droppedReceiveCount_ + cut
  BY <1>1, <1>6, <1>7, <1>10, <1>14
<1>19. frame_'.n = seen[Len(seen)]
  BY <1>11, <1>14
<1>20. Consistent(w, seen, frame_', droppedReceiveCount_, total, cut)
  BY <1>15, <1>16, <1>17, <1>18, <1>19 DEF Consistent, Numbered
<1>21. Consistent(Queue!Contents(inBuf_), parsed, frame_, droppedReceiveCount_,
                  totalReceiveCount_, cut)'
  BY <1>2, <1>4, <1>9, <1>13, <1>20
<1>22. Types'
  BY <1>1, <1>2, <1>5, <1>13, <1>14 DEF Types
<1>23. PositionFits'
  BY <1>2 DEF PositionFits
<1> QED BY <1>21, <1>22, <1>23 DEF Inv

\* The program throws frames of the queue away.
LEMMA CutStep ==
    ASSUME Inv, ~parsing, setReceiveQueueCapacity \/ clear
    PROVE  Inv'
<1>1. /\ R!IsRing(inBuf_, Frame) /\ frame_ \in Frame /\ framePos_ \in Int /\ outFrame_ \in Int
      /\ droppedReceiveCount_ \in Nat /\ totalReceiveCount_ \in Nat /\ cut \in Nat
      /\ parsed \in Seq(Nat)
  BY DEF Inv, Types
<1>2. PICK q : q = Queue!Contents(inBuf_)
  OBVIOUS
<1>3. PICK w : w = Queue!Contents(inBuf_')
  OBVIOUS
<1>4. /\ q \in Seq(Frame) /\ Len(q) \in Nat /\ Len(q) = inBuf_.size_
      /\ Queue!capacity(inBuf_) \in Nat
  BY <1>1, <1>2, QueueFacts
<1>5. Consistent(q, parsed, frame_, droppedReceiveCount_, totalReceiveCount_, cut)
  BY <1>2 DEF Inv
<1>6. /\ UNCHANGED <<droppedReceiveCount_, totalReceiveCount_, frame_, framePos_, parsing, parsed>>
      /\ outFrame_' \in Int
  BY <1>1 DEF setReceiveQueueCapacity, clear
<1>7. /\ R!IsRing(inBuf_', Frame) /\ Numbered(w, totalReceiveCount_) /\ Len(w) \in Nat
      /\ Len(w) <= Len(q) /\ cut' = cut + (Len(q) - Len(w))
  <2>1. CASE setReceiveQueueCapacity
    <3>1. PICK c \in Capacities : /\ inBuf_' = Queue!setCapacity(inBuf_, c)
                                  /\ cut' = cut + (inBuf_.size_ - inBuf_'.size_)
      BY <2>1 DEF setReceiveQueueCapacity
    <3>2. c \in Nat
      BY FrameAssumption
    <3>3. /\ R!IsRing(inBuf_', Frame)
          /\ \E n \in Nat : n # 0 /\ w = R!Newest(q, n)
      BY <1>1, <1>2, <1>3, <3>1, <3>2, CapacityFrame
    <3>4. PICK n \in Nat : n # 0 /\ w = R!Newest(q, n)
      BY <3>3
    <3>5. Numbered(q, totalReceiveCount_)
      BY <1>5 DEF Consistent
    <3>6. Numbered(w, totalReceiveCount_) /\ Len(w) = IF Len(q) <= n THEN Len(q) ELSE n
      BY <1>1, <1>4, <3>4, <3>5, NewestNumbers
    <3>7. Len(w) = inBuf_'.size_
      BY <1>3, <3>3, QueueFacts
    <3> QED BY <1>4, <3>1, <3>3, <3>6, <3>7
  <2>2. CASE clear
    <3>1. /\ inBuf_' = Queue!NewRing(Queue!capacity(inBuf_)) /\ cut' = cut + inBuf_.size_
      BY <2>2 DEF clear
    <3>2. R!IsRing(inBuf_', Frame) /\ w = <<>>
      BY <1>3, <1>4, <3>1, NewFrames
    <3> QED BY <1>4, <3>1, <3>2 DEF Numbered
  <2> QED BY <2>1, <2>2
<1>8. cut' \in Nat
  BY <1>1, <1>4, <1>7
<1>9. Len(parsed) \in Nat
  BY <1>1
<1>10. /\ totalReceiveCount_ = Len(parsed) + Len(q) + droppedReceiveCount_ + cut
       /\ \A i, j \in 1..Len(parsed) : i < j => parsed[i] < parsed[j]
       /\ \A i \in 1..Len(parsed) : parsed[i] <= totalReceiveCount_ - Len(q)
       /\ parsed # <<>> => frame_.n = parsed[Len(parsed)]
  BY <1>5 DEF Consistent
<1>11. totalReceiveCount_ = Len(parsed) + Len(w) + droppedReceiveCount_ + cut'
  BY <1>1, <1>4, <1>7, <1>9, <1>10, SMTT(40)
<1>12. ASSUME NEW i \in 1..Len(parsed) PROVE parsed[i] <= totalReceiveCount_ - Len(w)
  <2>1. parsed[i] \in Nat /\ parsed[i] <= totalReceiveCount_ - Len(q)
    BY <1>1, <1>10
  <2> QED BY <1>1, <1>4, <1>7, <2>1, SMTT(40)
<1>13. Consistent(w, parsed, frame_, droppedReceiveCount_, totalReceiveCount_, cut')
  BY <1>7, <1>10, <1>11, <1>12 DEF Consistent
<1>14. Consistent(Queue!Contents(inBuf_), parsed, frame_, droppedReceiveCount_,
                  totalReceiveCount_, cut)'
  BY <1>3, <1>6, <1>13
<1>15. Types'
  BY <1>1, <1>6, <1>7, <1>8 DEF Types, Inv
<1>16. PositionFits'
  BY <1>6 DEF Inv, PositionFits
<1> QED BY <1>14, <1>15, <1>16 DEF Inv

\* The steps that leave the queue and the frame alone.
LEMMA PlainStep ==
    ASSUME Inv, UNCHANGED <<inVars, frame_, parsed, cut>>, outFrame_' \in Int,
           parsing' \in BOOLEAN, framePos_' \in Int, ~parsing' => framePos_' \in -1..frame_.size
    PROVE  Inv'
<1>1. UNCHANGED <<inBuf_, droppedReceiveCount_, totalReceiveCount_, frame_, parsed, cut>>
  BY DEF inVars
<1>2. Types'
  BY <1>1 DEF Inv, Types
<1>3. Consistent(Queue!Contents(inBuf_), parsed, frame_, droppedReceiveCount_,
                 totalReceiveCount_, cut)'
  BY <1>1 DEF Inv
<1>4. PositionFits'
  BY <1>1 DEF PositionFits
<1> QED BY <1>2, <1>3, <1>4 DEF Inv

\* Every step keeps the invariant.
LEMMA InvNext ==
    ASSUME Inv, Next
    PROVE  Inv'
<1>1. /\ frame_ \in Frame /\ framePos_ \in Int /\ outFrame_ \in Int /\ parsing \in BOOLEAN
      /\ (~parsing => framePos_ \in -1..frame_.size)
  BY DEF Inv, Types, PositionFits
<1>2. frame_.size \in Nat /\ maxFrameLen \in Nat /\ \A size \in Sizes : size \in Nat
  BY <1>1, FrameAssumption DEF Frame
<1>3. CASE unknown_eth_protocol
  <2>1. PICK size \in Sizes : recvFunc(size) /\ UNCHANGED <<frame_, framePos_, outFrame_, parsing, parsed, cut>>
    BY <1>3 DEF unknown_eth_protocol
  <2> QED BY <1>1, <1>2, <2>1, RecvStep
<1>4. CASE parse_empty
  <2>1. -1 \in -1..frame_.size /\ -1 \in Int
    BY <1>2
  <2> QED BY <1>1, <1>4, <2>1, PlainStep DEF parse_empty
<1>5. CASE parse_pop
  BY <1>5, PopStep
<1>6. CASE parse_end
  <2>1. Position \in -1..frame_.size /\ Position \in Int
    BY <1>2 DEF Position
  <2> QED BY <1>1, <1>6, <2>1, PlainStep DEF parse_end
<1>7. CASE read
  <2>1. PICK n \in 1..3 :
           /\ ~parsing /\ isAvailable
           /\ framePos_' = IF n <= frame_.size - framePos_ THEN framePos_ + n ELSE frame_.size
           /\ UNCHANGED <<inVars, frame_, outFrame_, parsing, parsed, cut>>
    BY <1>7 DEF read
  <2>2. framePos_' \in -1..frame_.size /\ framePos_' \in Int
    BY <1>1, <1>2, <2>1 DEF isAvailable
  <2> QED BY <1>1, <2>1, <2>2, PlainStep
<1>8. CASE setReceiveQueueCapacity \/ clear
  <2>1. ~parsing
    BY <1>8 DEF setReceiveQueueCapacity, clear
  <2> QED BY <1>8, <2>1, CutStep
<1>9. CASE beginFrame
  <2>1. outFrame_' = 0 /\ UNCHANGED <<inVars, frame_, framePos_, parsing, parsed, cut>>
    BY <1>9 DEF beginFrame
  <2>2. 0 \in Int
    OBVIOUS
  <2> QED BY <1>1, <2>1, <2>2, PlainStep
<1>10. CASE write
  <2>1. PICK n \in 1..3 :
           /\ outFrame_' = IF outFrame_ + n <= maxFrameLen THEN outFrame_ + n ELSE maxFrameLen
           /\ UNCHANGED <<inVars, frame_, framePos_, parsing, parsed, cut>>
    BY <1>10 DEF write
  <2>2. outFrame_' \in Int
    BY <1>1, <1>2, <2>1
  <2> QED BY <1>1, <2>1, <2>2, PlainStep
<1>11. CASE endFrame
  <2>1. /\ outFrame_ >= 0 /\ outFrame_' = -1
        /\ recvFunc(outFrame_) \/ UNCHANGED inVars
        /\ UNCHANGED <<frame_, framePos_, parsing, parsed, cut>>
    BY <1>11 DEF endFrame
  <2>2. outFrame_ \in Nat /\ outFrame_' \in Int
    BY <1>1, <2>1
  <2>3. CASE recvFunc(outFrame_)
    BY <2>1, <2>2, <2>3, RecvStep
  <2>4. CASE UNCHANGED inVars
    BY <1>1, <2>1, <2>2, <2>4, PlainStep
  <2> QED BY <2>1, <2>3, <2>4
<1> QED BY <1>3, <1>4, <1>5, <1>6, <1>7, <1>8, <1>9, <1>10, <1>11 DEF Next

\* The object starts with room for one frame, and none.
LEMMA InvInit == Init => Inv
<1> SUFFICES ASSUME Init PROVE Inv
  OBVIOUS
<1>1. /\ inBuf_ = Queue!NewRing(1) /\ frame_ = Blank /\ framePos_ = -1
      /\ outFrame_ = -1 /\ droppedReceiveCount_ = 0 /\ totalReceiveCount_ = 0
      /\ parsing = FALSE /\ parsed = <<>> /\ cut = 0
  BY DEF Init
<1>2. R!IsRing(inBuf_, Frame) /\ Queue!Contents(inBuf_) = <<>>
  BY <1>1, NewFrames
<1>3. frame_ \in Frame /\ frame_.size = 0
  BY <1>1 DEF Blank, Frame
<1>4. Types
  <2>1. framePos_ \in Int /\ outFrame_ \in Int /\ parsed \in Seq(Nat)
    BY <1>1
  <2> QED BY <1>1, <1>2, <1>3, <2>1 DEF Types
<1>5. Consistent(Queue!Contents(inBuf_), parsed, frame_, droppedReceiveCount_,
                 totalReceiveCount_, cut)
  BY <1>1, <1>2 DEF Consistent, Numbered
<1>6. PositionFits
  BY <1>1, <1>3 DEF PositionFits
<1> QED BY <1>4, <1>5, <1>6 DEF Inv

-----------------------------------------------------------------------------
(* Theorems.                                                               *)

\* Inv holds in every state of every program (all the operations of
\* QNEthernetFrame.cpp).
THEOREM Invariance == Spec => []Inv
<1>1. Inv /\ [Next]_vars => Inv'
  <2>1. ASSUME Inv, UNCHANGED vars PROVE Inv'
    <3>1. UNCHANGED <<inVars, frame_, framePos_, outFrame_, parsing, parsed, cut>>
      BY <2>1 DEF vars
    <3>2. /\ outFrame_ \in Int /\ parsing \in BOOLEAN /\ framePos_ \in Int
          /\ (~parsing => framePos_ \in -1..frame_.size)
      BY <2>1 DEF Inv, Types, PositionFits
    <3> QED BY <2>1, <3>1, <3>2, PlainStep
  <2> QED BY <2>1, InvNext
<1> QED BY InvInit, <1>1, PTL DEF Spec

\* The queue holds the newest frames in order, and every other frame was parsed,
\* counted as dropped or thrown away by the program (recvFunc(), parseFrame(),
\* clear(), setReceiveQueueCapacity()).
THEOREM QueueCorrect == Spec => []QueueAddsUp
<1>1. Inv => QueueAddsUp
  <2> SUFFICES ASSUME Inv PROVE QueueAddsUp
    OBVIOUS
  <2>1. PICK q : q = Queue!Contents(inBuf_)
    OBVIOUS
  <2>2. q \in Seq(Frame)
    BY <2>1, QueueFacts DEF Inv, Types
  <2>3. DOMAIN q = 1..Len(q)
    BY <2>2
  <2>4. Consistent(q, parsed, frame_, droppedReceiveCount_, totalReceiveCount_, cut)
    BY <2>1 DEF Inv
  <2>5. /\ \A i \in 1..Len(q) : q[i].n = totalReceiveCount_ - Len(q) + i
        /\ totalReceiveCount_ = Len(parsed) + Len(q) + droppedReceiveCount_ + cut
    BY <2>4 DEF Consistent, Numbered
  <2> QED BY <2>1, <2>3, <2>5 DEF QueueAddsUp
<1> QED BY Invariance, <1>1, PTL

\* parseFrame() returns frames in the order of their arrival, none of them twice,
\* and the frame being read is the last of them.
THEOREM ParseCorrect == Spec => []ParsedOnce
<1>1. Inv => ParsedOnce
  <2> SUFFICES ASSUME Inv PROVE ParsedOnce
    OBVIOUS
  <2>1. parsed \in Seq(Nat)
    BY DEF Inv, Types
  <2>2. DOMAIN parsed = 1..Len(parsed)
    BY <2>1
  <2>3. /\ \A i, j \in 1..Len(parsed) : i < j => parsed[i] < parsed[j]
        /\ parsed # <<>> => frame_.n = parsed[Len(parsed)]
    BY DEF Inv, Consistent
  <2> QED BY <2>2, <2>3 DEF ParsedOnce
<1> QED BY Invariance, <1>1, PTL

\* The position of a reader is one in the frame it has parsed (parseFrame(),
\* read()).
THEOREM PositionCorrect == Spec => []PositionFits
<1>1. Inv => PositionFits
  BY DEF Inv
<1> QED BY Invariance, <1>1, PTL
=============================================================================

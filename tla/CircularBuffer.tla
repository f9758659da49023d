--------------------------- MODULE CircularBuffer ---------------------------
(***************************************************************************)
(* internal/CircularBuffer.h: a ring over a std::vector, as operators on a *)
(* record.  buf_ is the vector (its element i is buf_[i+1] here), head_    *)
(* the index of the next put, tail_ that of the oldest element, and size_  *)
(* the number of elements.  EthernetUDP and EthernetFrame keep their       *)
(* received packets in one.                                                *)
(***************************************************************************)
EXTENDS Naturals, Sequences

CONSTANT Blank   \* a default-constructed or moved-from element

capacity(r) == Len(r.buf_)
full(r)     == r.size_ = capacity(r)
empty(r)    == r.size_ = 0

\* std::max(cap, 1).
AtLeastOne(cap) == IF cap = 0 THEN 1 ELSE cap

\* The constructor.
NewRing(cap) == [buf_  |-> [i \in 1..AtLeastOne(cap) |-> Blank],
                 size_ |-> 0, head_ |-> 0, tail_ |-> 0]

\* The elements, oldest first: operator[] for 0 .. size() - 1.
Contents(r) ==
    [i \in 1..r.size_ |-> r.buf_[((r.tail_ + i - 1) % capacity(r)) + 1]]

\* put(), and the assignment to the element it returns: overwrites the oldest
\* element if the ring is full.
put(r, x) ==
    [buf_  |-> [r.buf_ EXCEPT ![r.head_ + 1] = x],
     size_ |-> IF full(r) THEN r.size_ ELSE r.size_ + 1,
     head_ |-> (r.head_ + 1) % capacity(r),
     tail_ |-> IF full(r) THEN (r.tail_ + 1) % capacity(r) ELSE r.tail_]

\* get() of a ring that is not empty: the element, and the ring after it.
Oldest(r) == r.buf_[r.tail_ + 1]
get(r) == [r EXCEPT !.buf_[r.tail_ + 1] = Blank,
                    !.size_ = @ - 1,
                    !.tail_ = (@ + 1) % capacity(r)]

\* std::rotate(begin, begin + n, end) and std::vector::resize.
Rotate(b, n) == SubSeq(b, n + 1, Len(b)) \o SubSeq(b, 1, n)
Resize(b, n) == [i \in 1..n |-> IF i <= Len(b) THEN b[i] ELSE Blank]

\* Mutants: the ring is cut without rotating its tail to the front; or it is
\* emptied when its elements do not fit.
setCapacity_Mutant(r, cap) ==
    IF cap = capacity(r) THEN r
    ELSE LET actual == AtLeastOne(cap)
             shrink == actual <= r.size_
         IN  [buf_  |-> Resize(r.buf_, actual),
              size_ |-> IF shrink THEN actual ELSE r.size_,
              head_ |-> IF shrink THEN 0 ELSE r.size_,
              tail_ |-> 0]
setCapacity_Mutant2(r, cap) == IF cap = capacity(r) THEN r ELSE NewRing(cap)

\* setCapacity(): the newest elements that fit are kept, rotated to the front.
setCapacity(r, cap) ==
    IF cap = capacity(r) THEN r
    ELSE LET actual == AtLeastOne(cap)
             shrink == actual <= r.size_
             n      == IF shrink THEN (r.tail_ + (r.size_ - actual)) % capacity(r)
                                 ELSE r.tail_
         IN  [buf_  |-> Resize(Rotate(r.buf_, n), actual),
              size_ |-> IF shrink THEN actual ELSE r.size_,
              head_ |-> IF shrink THEN 0 ELSE r.size_,
              tail_ |-> 0]

=============================================================================

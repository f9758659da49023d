----------------------------- MODULE ByteBuffer -----------------------------
(***************************************************************************)
(* internal/ByteBuffer.h: a ring of bytes over a std::array, as operators  *)
(* on a record; element i of the array is buf_[i+1] here.  The W5500       *)
(* driver keeps in it, back to back, the frames it has fetched from the    *)
(* chip, each behind its 2-byte length.                                    *)
(***************************************************************************)
EXTENDS Naturals, Sequences

CONSTANT NoByte   \* what the array holds before anything is written

NewBuffer(N) == [buf_ |-> [i \in 1..N |-> NoByte],
                 size_ |-> 0, head_ |-> 0, tail_ |-> 0]

capacity(b)  == Len(b.buf_)
remaining(b) == capacity(b) - b.size_
Least(m, n)  == IF m <= n THEN m ELSE n

\* Is array index i among the n elements from index start on, and which one?
Offset(b, i, start) == (i + capacity(b) - start) % capacity(b)

\* Mutant: what would pass the end of the array is not copied to its start.
write_Mutant(b, bytes) ==
    LET n == Least(Len(bytes), remaining(b))
    IN  [b EXCEPT
          !.buf_ = [i \in 1..capacity(b) |->
                      IF i > b.head_ /\ i <= b.head_ + n
                      THEN bytes[i - b.head_] ELSE b.buf_[i]],
          !.head_ = (@ + n) % capacity(b),
          !.size_ = @ + n]

\* write(): copies what fits, in one piece or in two, behind the head.
write(b, bytes) ==
    LET n == Least(Len(bytes), remaining(b))
    IN  [b EXCEPT
          !.buf_ = [i \in 1..capacity(b) |->
                      IF Offset(b, i - 1, b.head_) < n
                      THEN bytes[Offset(b, i - 1, b.head_) + 1]
                      ELSE b.buf_[i]],
          !.head_ = (@ + n) % capacity(b),
          !.size_ = @ + n]

\* The first n bytes behind the tail.
Front(b, n) == [i \in 1..n |-> b.buf_[((b.tail_ + i - 1) % capacity(b)) + 1]]

\* read() into memory, into a pbuf, or past bytes nobody wants: what the buffer
\* is afterwards; Front(b, n) is what has been read.  The bytes that have been
\* read are forgotten here: nothing reads them again.
read(b, n) ==
    LET m == Least(n, b.size_)
    IN  [b EXCEPT !.buf_ = [i \in 1..capacity(b) |->
                              IF Offset(b, i - 1, b.tail_) < m THEN NoByte ELSE b.buf_[i]],
                  !.tail_ = (@ + m) % capacity(b),
                  !.size_ = @ - m]

=============================================================================

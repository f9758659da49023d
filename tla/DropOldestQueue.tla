-------------------------- MODULE DropOldestQueue --------------------------
(***************************************************************************)
(* What a receive queue promises: a bounded first-in first-out queue that  *)
(* makes room for a new element by dropping its oldest one, and that keeps *)
(* as many of its newest elements as fit when its capacity changes.        *)
(***************************************************************************)
EXTENDS Naturals, Sequences

CONSTANTS Element,    \* what the queue holds
          Capacities  \* the capacities it can have, none of them 0

VARIABLES queue, cap,
          exists      \* is there a queue?

\* The newest n elements of a sequence, or all of it.
Newest(q, n) == IF Len(q) <= n THEN q ELSE SubSeq(q, Len(q) - n + 1, Len(q))

Init == queue = <<>> /\ cap \in Capacities /\ ~exists

Create ==
    /\ ~exists /\ exists'
    /\ queue' = <<>> /\ cap' \in Capacities

\* The queue is one that another object gives up.
TakeOver ==
    /\ ~exists /\ exists'
    /\ queue' \in Seq(Element) /\ cap' \in Capacities
    /\ Len(queue') <= cap'

Destroy ==
    /\ exists /\ ~exists'
    /\ queue' = <<>> /\ cap' \in Capacities

Put == \E x \in Element :
    /\ exists
    /\ queue' = Newest(Append(queue, x), cap)
    /\ UNCHANGED <<cap, exists>>

Get ==
    /\ exists /\ queue # <<>>
    /\ queue' = Tail(queue)
    /\ UNCHANGED <<cap, exists>>

SetCapacity == \E c \in Capacities :
    /\ exists
    /\ cap' = c /\ queue' = Newest(queue, c)
    /\ UNCHANGED exists

Next == Create \/ TakeOver \/ Destroy \/ Put \/ Get \/ SetCapacity

Spec == Init /\ [][Next]_<<queue, cap, exists>>

=============================================================================

------------------------------- MODULE MCTcp -------------------------------
EXTENDS TcpSockets, TLC

Symmetry == Permutations(Pcbs) \cup Permutations(Holders) \cup Permutations(Clients)

\* A holder nobody refers to has been deleted, and a free slot that no holder
\* points to has no memory: their old contents do not tell states apart.
\* Nor does how a connection has ended, but for "fin": nothing else asks for it.
LiveState ==
    <<[p \in Pcbs |-> IF pcb[p].state = "FREE" /\ ~\E h \in Holders : holder[h].state = p
                      THEN NULL ELSE pcb[p]],
      [h \in Holders |-> IF Referenced(h)
                         THEN <<holder[h], [hist[h] EXCEPT !.end = @ = "fin"]>> ELSE NULL],
      connections_, client, listeningPort_, call, strayCall>>

\* Two connections and two clients, of which one connection gets one byte.
FewBytes ==
    LET got == {h \in Holders : hist[h].sent > 0 /\ Referenced(h)}
    IN  Cardinality(got) <= 1 /\ \A h \in got : hist[h].sent = 1

\* One PCB and one client, with all the bytes.
OneConnection ==
    \E p \in Pcbs, c \in Clients :
        /\ \A q \in Pcbs \ {p} : /\ pcb[q].state = "FREE"
                                 /\ \A h \in Holders : holder[h].state # q
        /\ \A d \in Clients \ {c} : /\ conn(d) = NULL
                                    /\ ~client[d].pendingConnect_
                                    /\ call.c # d

\* Bound: either is enough for a state to be looked at.
Small == FewBytes \/ OneConnection
=============================================================================

------------------------------- MODULE MCUdp -------------------------------
(* EthernetUDP for TLC: PCBs and groups are interchangeable, and so are the *)
(* sockets other than the one whose queue is followed.                      *)
EXTENDS EthernetUDP, TLC

Symmetry ==
    Permutations(Sockets \ {TheSocket}) \cup Permutations(Pcbs) \cup Permutations(Groups)

\* One socket, on one port and in no group, that builds no packet: its queue
\* is exercised, with every capacity and all the packets.
OneQueue ==
    /\ \A s \in Sockets \ {TheSocket} : udp[s].life = "none"
    /\ udp[TheSocket].outPacket_ = NULL
    /\ \A p \in Pcbs : pcbs[p].port # 81
    /\ \A g \in Groups : use[g] = 0

\* All the sockets, ports and groups, with nothing received.
ManySockets ==
    \A s \in Sockets : arrived[s] = 0 /\ capacity(udp[s].inBuf_) <= 1

\* Bound: the queue of one socket, or the PCBs of all of them.
Small == OneQueue \/ ManySockets
=============================================================================

---------------------------- MODULE EthernetUDP ----------------------------
(***************************************************************************)
(* QNEthernetUDP.cpp: the sockets of a program, lwIP's pool of UDP PCBs    *)
(* and the use counts of the multicast groups.  The callback recvFunc()    *)
(* runs inside Ethernet.loop(), between or within the program's calls; no  *)
(* call reads state before its loop() and uses it after, so the calls are  *)
(* single actions and the callback interleaves with them.                  *)
(*                                                                         *)
(* The packets for a socket are numbered in the order of their arrival.    *)
(* What is sent is left out but for the size of the packet being built.    *)
(***************************************************************************)
EXTENDS CircularBuffer, Integers, FiniteSets

CONSTANTS
    Sockets,       \* identities for EthernetUDP objects
    Pcbs,          \* lwIP's UDP PCBs, MEMP_NUM_UDP_PCB of them
    Ports,         \* ports a program listens on
    Groups,        \* multicast addresses
    NULL,          \* a null pointer, "no packet", "no group"
    Lens,          \* lengths a received packet can have
    MaxCapacity,   \* bound: capacities asked for are 0 .. MaxCapacity
    MaxPackets,    \* bound: packets that arrive at one socket
    MaxUse,        \* bound: use count of a group
    MaxPayload,    \* kMaxPossiblePayloadSize
    TheSocket,     \* the socket whose queue QueueSpec follows
    MoveOpen       \* may a socket that has a PCB be moved?

ASSUME UdpAssumption ==
    /\ NULL \notin Sockets \cup Pcbs \cup Ports \cup Groups
    /\ TheSocket \in Sockets /\ IsFiniteSet(Sockets)
    /\ Lens \subseteq Nat
    /\ MaxCapacity \in Nat /\ MaxPackets \in Nat /\ MaxUse \in Nat
    /\ MaxPayload \in Nat /\ MoveOpen \in BOOLEAN

VARIABLES
    udp,     \* socket -> its fields
    pcbs,    \* the pool: PCB -> allocated?, local port, SO_REUSEADDR, recv argument
    use,     \* group -> igmp's use count on the interface
    arrived  \* history: socket -> packets that arrived for it

vars == <<udp, pcbs, use, arrived>>

Packet == [id : 1..MaxPackets, len : Lens]
NoPacket == [id |-> 0, len |-> 0]

\* life is "none" before the constructor and after the destructor, "moved"
\* for an object that was moved from; multicastIP_ is NULL when
\* listeningMulticast_ is false, and outPacket_ is NULL or its size.
NewSocket(cap) ==
    [life |-> "live", pcb_ |-> NULL, listening_ |-> FALSE,
     listenReuse_ |-> FALSE, multicastIP_ |-> NULL, inBuf_ |-> NewRing(cap),
     packet_ |-> NoPacket, packetPos_ |-> -1, outPacket_ |-> NULL,
     droppedReceiveCount_ |-> 0, totalReceiveCount_ |-> 0]
NoSocket == [NewSocket(1) EXCEPT !.life = "none"]

FreePcb == [allocated |-> FALSE, port |-> NULL, reuse |-> FALSE, arg |-> NULL]
NewPcb  == [FreePcb EXCEPT !.allocated = TRUE]

Init ==
    /\ udp = [s \in Sockets |-> NoSocket]
    /\ pcbs = [p \in Pcbs |-> FreePcb]
    /\ use = [g \in Groups |-> 0]
    /\ arrived = [s \in Sockets |-> 0]

Live(s) == udp[s].life = "live"

-----------------------------------------------------------------------------
(* Steps of the calls below, as functions of the state of the sockets, the *)
(* PCBs and the groups.                                                    *)

Now == [udp |-> udp, pcbs |-> pcbs, use |-> use]
Becomes(st) == udp' = st.udp /\ pcbs' = st.pcbs /\ use' = st.use

\* Mutant: the group is left whoever else uses it.
leaveGroup_Mutant(uses, g) == [uses EXCEPT ![g] = 0]

\* Ethernet.leaveGroup(): igmp_leavegroup_netif() counts down, and fails
\* for a group that is not joined.
leaveGroup(uses, g) ==
    [uses EXCEPT ![g] = IF @ = 0 THEN 0 ELSE @ - 1]

\* Mutant: the PCB is dropped and never given back.
udp_remove_Mutant(pool, p) == pool

\* udp_remove().
udp_remove(pool, p) == [pool EXCEPT ![p] = FreePcb]

\* stop(): the receive queue and the packet being read stay.
Stopped(st, s) ==
    LET me == st.udp[s]
    IN  IF me.pcb_ = NULL THEN st
        ELSE [udp  |-> [st.udp EXCEPT ![s].multicastIP_ = NULL,
                                      ![s].pcb_ = NULL,
                                      ![s].listening_ = FALSE,
                                      ![s].listenReuse_ = FALSE],
              pcbs |-> udp_remove(st.pcbs, me.pcb_),
              use  |-> IF me.multicastIP_ = NULL THEN st.use
                       ELSE leaveGroup(st.use, me.multicastIP_)]

\* tryCreatePCB(): the states it may end in; none if the pool is exhausted.
WithPcb(st, s) ==
    IF st.udp[s].pcb_ # NULL THEN {st}
    ELSE {[st EXCEPT !.udp[s].pcb_ = p, !.pcbs[p] = NewPcb] :
              p \in {q \in Pcbs : ~st.pcbs[q].allocated}}

\* udp_bind() fails with ERR_USE: another PCB has the port, and not all of
\* them allow its reuse.
PortInUse(pool, p, port, reuse) ==
    \E q \in Pcbs \ {p} :
        pool[q].allocated /\ pool[q].port = port /\ ~(reuse /\ pool[q].reuse)

\* begin(): is the socket listening already, as asked?
AlreadyListening(st, s, port, reuse) ==
    LET me == st.udp[s]
    IN  /\ me.listening_
        /\ st.pcbs[me.pcb_].port = port
        /\ me.listenReuse_ = reuse

\* begin() from the bind on: the socket is bound, or stopped.
Bound(st, s, port, reuse) ==
    LET p == st.udp[s].pcb_
    IN  IF PortInUse(st.pcbs, p, port, reuse)
        THEN Stopped(st, s)
        ELSE [st EXCEPT !.pcbs[p].port = port,
                        !.pcbs[p].reuse = @ \/ reuse,
                        !.pcbs[p].arg = s,
                        !.udp[s].listening_ = TRUE,
                        !.udp[s].listenReuse_ = reuse,
                        !.udp[s].droppedReceiveCount_ = 0,
                        !.udp[s].totalReceiveCount_ = 0]

\* begin(): the states it may end in.
Begun(st, s, port, reuse) ==
    IF AlreadyListening(st, s, port, reuse) THEN {st}
    ELSE LET stopped == IF st.udp[s].listening_ THEN Stopped(st, s) ELSE st
             ready   == WithPcb(stopped, s)
         IN  IF ready = {} THEN {stopped}
             ELSE {Bound(r, s, port, reuse) : r \in ready}

-----------------------------------------------------------------------------
(* The life of a socket.                                                   *)

construct(s, cap) ==
    /\ udp[s].life = "none"
    /\ udp' = [udp EXCEPT ![s] = NewSocket(cap)]
    /\ UNCHANGED <<pcbs, use, arrived>>

\* The destructor calls stop().
destroy(s) ==
    /\ udp[s].life # "none"
    /\ Becomes([Stopped(Now, s) EXCEPT !.udp[s] = NoSocket])
    /\ arrived' = [arrived EXCEPT ![s] = 0]

\* The defaulted move constructor of d: pointers and numbers are copied, the
\* vectors leave s.  All a program may still do with s is to destroy it.
move(s, d) ==
    /\ Live(s) /\ udp[d].life = "none"
    /\ MoveOpen \/ udp[s].pcb_ = NULL
    /\ udp' = [udp EXCEPT
         ![d] = udp[s],
         ![s].life = "moved",
         ![s].inBuf_.buf_ = <<>>,
         ![s].packet_.len = 0,
         ![s].outPacket_ = IF @ = NULL THEN NULL ELSE 0]
    /\ arrived' = [arrived EXCEPT ![d] = arrived[s]]
    /\ UNCHANGED <<pcbs, use>>

begin(s, port, reuse) ==
    /\ Live(s)
    /\ \E st \in Begun(Now, s, port, reuse) : Becomes(st)
    /\ UNCHANGED arrived

\* beginMulticast(): joinGroup() fails without an interface or memory.
beginMulticast(s, g, port, reuse) ==
    /\ Live(s)
    /\ use[g] < MaxUse
    /\ \E st \in Begun(Now, s, port, reuse) :
         \/ ~st.udp[s].listening_ /\ Becomes(st)
         \/ st.udp[s].listening_ /\ Becomes(Stopped(st, s))
         \/ /\ st.udp[s].listening_
            /\ Becomes([st EXCEPT !.use[g] = @ + 1, !.udp[s].multicastIP_ = g])
    /\ UNCHANGED arrived

stop(s) ==
    /\ Live(s)
    /\ Becomes(Stopped(Now, s))
    /\ UNCHANGED arrived

-----------------------------------------------------------------------------
(* Reception.                                                              *)

\* recvFunc(): a packet arrives for the socket a PCB belongs to.  (A null
\* pbuf, which would stop the socket, is never passed by lwIP, and a call for
\* a moved-from object, whose ring has no elements, has no defined outcome.)
recvFunc(p, len) ==
    LET s    == pcbs[p].arg
        ring == udp[s].inBuf_
        n    == arrived[s] + 1
        drop == IF full(ring) THEN 1 ELSE 0
    IN
    /\ pcbs[p].allocated
    /\ s # NULL
    /\ n <= MaxPackets
    /\ capacity(ring) # 0
    /\ udp' = [udp EXCEPT
         ![s].inBuf_ = put(@, [id |-> n, len |-> len]),
         ![s].droppedReceiveCount_ = @ + drop,
         ![s].totalReceiveCount_ = @ + 1]
    /\ arrived' = [arrived EXCEPT ![s] = n]
    /\ UNCHANGED <<pcbs, use>>

setReceiveQueueCapacity(s, cap) ==
    /\ Live(s)
    /\ udp' = [udp EXCEPT ![s].inBuf_ = setCapacity(@, cap)]
    /\ UNCHANGED <<pcbs, use, arrived>>

\* parsePacket(): nothing is returned by a socket without a PCB, whatever
\* its queue holds.
parsePacket(s) ==
    LET ring == udp[s].inBuf_
    IN  /\ Live(s)
        /\ udp[s].pcb_ # NULL
        /\ udp' = [udp EXCEPT ![s] =
             IF empty(ring) THEN [@ EXCEPT !.packetPos_ = -1]
             ELSE [@ EXCEPT !.inBuf_ = get(ring), !.packet_ = Oldest(ring),
                            !.packetPos_ = 0]]
        /\ UNCHANGED <<pcbs, use, arrived>>

\* read(), of one byte or up to n of them, where there are any.
isAvailable(s) == udp[s].packetPos_ \in 0..(udp[s].packet_.len - 1)
read(s, n) ==
    LET left == udp[s].packet_.len - udp[s].packetPos_
    IN  /\ Live(s)
        /\ n > 0 /\ isAvailable(s)
        /\ udp' = [udp EXCEPT ![s].packetPos_ = @ + (IF n < left THEN n ELSE left)]
        /\ UNCHANGED <<pcbs, use, arrived>>

-----------------------------------------------------------------------------
(* Transmission.                                                           *)

\* beginPacket(): drops what was being built.
beginPacket(s) ==
    /\ Live(s)
    /\ \E st \in WithPcb(Now, s) : Becomes([st EXCEPT !.udp[s].outPacket_ = 0])
    /\ UNCHANGED arrived

\* How many of n more bytes fit: std::min(kMaxPossiblePayloadSize - size, n).
Room(size, n) == IF n < MaxPayload - size THEN n ELSE MaxPayload - size

\* write(), of one byte or n of them.
write(s, n) ==
    /\ Live(s)
    /\ udp[s].outPacket_ # NULL
    /\ udp' = [udp EXCEPT ![s].outPacket_ = @ + Room(@, n)]
    /\ UNCHANGED <<pcbs, use, arrived>>

\* endPacket(): the packet is gone whether or not it could be sent.
endPacket(s) ==
    /\ Live(s)
    /\ udp[s].outPacket_ # NULL
    /\ udp' = [udp EXCEPT ![s].outPacket_ = NULL]
    /\ UNCHANGED <<pcbs, use, arrived>>

\* send(), setOutgoingDiffServ() and setOutgoingTTL(): they may create a PCB.
send(s) ==
    /\ Live(s)
    /\ \E st \in WithPcb(Now, s) : Becomes(st)
    /\ UNCHANGED arrived

-----------------------------------------------------------------------------
Program(s) ==
    \/ \E cap \in 0..MaxCapacity : construct(s, cap) \/ setReceiveQueueCapacity(s, cap)
    \/ \E d \in Sockets : move(s, d)
    \/ \E port \in Ports, reuse \in BOOLEAN :
          begin(s, port, reuse) \/ \E g \in Groups : beginMulticast(s, g, port, reuse)
    \/ stop(s) \/ destroy(s)
    \/ parsePacket(s) \/ \E n \in 1..2 : read(s, n)
    \/ beginPacket(s) \/ \E n \in 1..2 : write(s, n)
    \/ endPacket(s) \/ send(s)

Next ==
    \/ \E s \in Sockets : Program(s)
    \/ \E p \in Pcbs, len \in Lens : recvFunc(p, len)

Spec == Init /\ [][Next]_vars

-----------------------------------------------------------------------------
(* Properties.                                                             *)

\* The ring's indexes are inside its vector, except in a moved-from object.
RingOK(r) == r.size_ <= capacity(r) /\ r.head_ < capacity(r) /\ r.tail_ < capacity(r)

\* Types: the ring's indexes stay inside its vector, the reading position
\* inside the packet (read()), and the packet being built within
\* kMaxPossiblePayloadSize (write()), so that no size_t subtraction wraps.
TypeOK ==
    /\ \A s \in Sockets :
         LET u == udp[s]
         IN  /\ u.life \in {"none", "live", "moved"}
             /\ u.pcb_ \in Pcbs \cup {NULL}
             /\ {u.listening_, u.listenReuse_} \subseteq BOOLEAN
             /\ u.multicastIP_ \in Groups \cup {NULL}
             /\ u.life # "moved" => RingOK(u.inBuf_)
             /\ u.packetPos_ \in -1..u.packet_.len \/ u.life = "moved"
             /\ u.outPacket_ \in (0..MaxPayload) \cup {NULL}
             /\ u.droppedReceiveCount_ \in Nat /\ u.totalReceiveCount_ \in Nat
    /\ \A p \in Pcbs : pcbs[p].arg \in Sockets \cup {NULL}
    /\ use \in [Groups -> Nat]

\* The receive queue of a socket is always the newest of its packets that the
\* program has not parsed, in the order of arrival, across wrapping, changes
\* of capacity (setCapacity()), stop() and begin(); so packets are parsed in
\* order and at most once.
QueueIsNewest ==
    \A s \in Sockets : Live(s) =>
        LET q == Contents(udp[s].inBuf_)
        IN  /\ \A i \in DOMAIN q : q[i].id = arrived[s] - Len(q) + i
            /\ udp[s].packet_.id <= arrived[s] - Len(q)

\* A socket's PCB is allocated, is no other socket's and calls back for this
\* socket exactly while it listens (begin(), stop(), the failing paths of
\* begin() and beginMulticast(), the destructor); and no PCB leaks.
PcbsAreOwned ==
    /\ \A s \in Sockets : udp[s].pcb_ # NULL =>
         /\ pcbs[udp[s].pcb_].allocated
         /\ pcbs[udp[s].pcb_].arg = IF udp[s].listening_ THEN s ELSE NULL
         /\ \A t \in Sockets \ {s} : udp[t].pcb_ # udp[s].pcb_
    /\ \A p \in Pcbs : pcbs[p].allocated => \E s \in Sockets : udp[s].pcb_ = p

\* Two sockets listen on one port only if both asked for reuse (begin()).
PortsAreExclusive ==
    \A s, t \in Sockets :
        /\ s # t /\ udp[s].listening_ /\ udp[t].listening_
        /\ pcbs[udp[s].pcb_].port = pcbs[udp[t].pcb_].port
        => udp[s].listenReuse_ /\ udp[t].listenReuse_

\* While a socket listens on a group, the interface is a member of it, for as
\* many uses as there are such sockets (beginMulticast(), stop()).
GroupsAreHeld ==
    \A g \in Groups :
        LET holders == {s \in Sockets : udp[s].multicastIP_ = g}
        IN  use[g] >= Cardinality(holders)

\* The receive queue of a socket implements the bounded queue that drops its
\* oldest element (put(), get() and setCapacity() of CircularBuffer.h); when the
\* socket is moved, another object takes the queue over.
Queue == INSTANCE DropOldestQueue WITH
             exists <- Live(TheSocket),
             queue <- IF Live(TheSocket) THEN Contents(udp[TheSocket].inBuf_) ELSE <<>>,
             cap <- IF Live(TheSocket) THEN capacity(udp[TheSocket].inBuf_) ELSE 1,
             Element <- Packet, Capacities <- 1..(MaxCapacity + 1)
QueueSpec == Queue!Spec

=============================================================================

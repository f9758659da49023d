------------------------- MODULE EthernetUDPProofs -------------------------
(***************************************************************************)
(* Proofs about EthernetUDP, for any number of sockets, PCBs, ports, groups *)
(* and packets.  The first part is about the receive queues, which stay    *)
(* right even if a socket is moved while it has a PCB; the second, about   *)
(* PCBs, ports and groups, needs a program that does not.                  *)
(***************************************************************************)
EXTENDS EthernetUDP, CircularBufferProofs, FiniteSetTheorems

Elem    == Packet \cup {Blank}
RingT   == [buf_ : Seq(Elem), size_ : Nat, head_ : Nat, tail_ : Nat]
SocketT == [life : {"none", "live", "moved"}, pcb_ : Pcbs \cup {NULL},
            listening_ : BOOLEAN, listenReuse_ : BOOLEAN,
            multicastIP_ : Groups \cup {NULL}, inBuf_ : RingT,
            packet_ : [id : Nat, len : Nat], packetPos_ : Int,
            outPacket_ : Nat \cup {NULL},
            droppedReceiveCount_ : Nat, totalReceiveCount_ : Nat]
PcbT    == [allocated : BOOLEAN, port : Ports \cup {NULL}, reuse : BOOLEAN,
            arg : Sockets \cup {NULL}]
StateT  == [udp : [Sockets -> SocketT], pcbs : [Pcbs -> PcbT], use : [Groups -> Nat]]

\* A PCB calls back for a socket that has it.
ArgsKnown(st) ==
    \A p \in Pcbs : st.pcbs[p].arg # NULL => st.udp[st.pcbs[p].arg].pcb_ = p

\* What belongs to the queue, the packet being read and the one being built.
SameData(u, v) ==
    /\ u.life = v.life /\ u.inBuf_ = v.inBuf_ /\ u.packet_ = v.packet_
    /\ u.packetPos_ = v.packetPos_ /\ u.outPacket_ = v.outPacket_

\* Only s has changed, and not its data.
OnlyControl(st, new, s) ==
    /\ \A t \in Sockets \ {s} : new.udp[t] = st.udp[t]
    /\ SameData(new.udp[s], st.udp[s])

-----------------------------------------------------------------------------
(* The steps the calls are made of.                                        *)

\* udp_remove(), igmp's count and the fields that stop() resets.
LEMMA StoppedFacts ==
    ASSUME NEW st \in StateT, NEW s \in Sockets, st.udp[s].pcb_ # NULL
    PROVE  LET new == Stopped(st, s)
               p   == st.udp[s].pcb_
           IN  /\ new \in StateT
               /\ OnlyControl(st, new, s)
               /\ new.udp[s].pcb_ = NULL /\ new.udp[s].listening_ = FALSE
               /\ new.udp[s].listenReuse_ = FALSE /\ new.udp[s].multicastIP_ = NULL
               /\ p \in Pcbs /\ new.pcbs[p] = FreePcb
               /\ \A q \in Pcbs \ {p} : new.pcbs[q] = st.pcbs[q]
               /\ new.use = IF st.udp[s].multicastIP_ = NULL THEN st.use
                            ELSE leaveGroup(st.use, st.udp[s].multicastIP_)
<1> DEFINE new == Stopped(st, s)
           p == st.udp[s].pcb_
           me == st.udp[s]
           g == me.multicastIP_
           v == [me EXCEPT !.multicastIP_ = NULL, !.pcb_ = NULL,
                           !.listening_ = FALSE, !.listenReuse_ = FALSE]
<1>1. st.udp \in [Sockets -> SocketT] /\ st.pcbs \in [Pcbs -> PcbT] /\ st.use \in [Groups -> Nat]
  BY DEF StateT
<1>2. me \in SocketT
  BY <1>1
<1>3. p \in Pcbs /\ g \in Groups \cup {NULL}
  BY <1>2 DEF SocketT
<1>4. /\ v \in SocketT /\ SameData(v, me) /\ v.pcb_ = NULL /\ v.listening_ = FALSE
      /\ v.listenReuse_ = FALSE /\ v.multicastIP_ = NULL
  BY <1>2 DEF SocketT, SameData
<1>5. new = [udp  |-> [st.udp EXCEPT ![s] = v], pcbs |-> [st.pcbs EXCEPT ![p] = FreePcb],
             use  |-> IF g = NULL THEN st.use ELSE leaveGroup(st.use, g)]
  BY <1>1, <1>2 DEF Stopped, udp_remove, SocketT
<1>6. FreePcb \in PcbT
  BY DEF FreePcb, PcbT
<1>7. (IF g = NULL THEN st.use ELSE leaveGroup(st.use, g)) \in [Groups -> Nat]
  BY <1>1, <1>3 DEF leaveGroup
<1> HIDE DEF v, me, g
<1>8. new \in StateT
  BY <1>1, <1>4, <1>5, <1>6, <1>7, <1>3 DEF StateT
<1>9. new.udp[s] = v /\ \A t \in Sockets \ {s} : new.udp[t] = st.udp[t]
  BY <1>1, <1>5
<1>10. new.pcbs[p] = FreePcb /\ \A q \in Pcbs \ {p} : new.pcbs[q] = st.pcbs[q]
  BY <1>1, <1>3, <1>5
<1>11. new.use = IF g = NULL THEN st.use ELSE leaveGroup(st.use, g)
  BY <1>5
<1> HIDE DEF new
<1> QED BY <1>3, <1>4, <1>8, <1>9, <1>10, <1>11 DEF OnlyControl, me, g, new

\* udp_new().
GivenPcb(st, s, p) == [st EXCEPT !.udp[s].pcb_ = p, !.pcbs[p] = NewPcb]

\* The new PCB is the socket's, and is not bound.
LEMMA NewPcbFacts ==
    ASSUME NEW st \in StateT, NEW s \in Sockets, NEW p \in Pcbs
    PROVE  LET new == GivenPcb(st, s, p)
           IN  /\ new \in StateT
               /\ OnlyControl(st, new, s)
               /\ new.udp[s].pcb_ = p /\ new.udp[s].listening_ = st.udp[s].listening_
               /\ new.udp[s].listenReuse_ = st.udp[s].listenReuse_
               /\ new.udp[s].multicastIP_ = st.udp[s].multicastIP_
               /\ new.pcbs[p] = NewPcb
               /\ \A q \in Pcbs \ {p} : new.pcbs[q] = st.pcbs[q]
               /\ new.use = st.use
<1> DEFINE new == GivenPcb(st, s, p)
           me == st.udp[s]
           v == [me EXCEPT !.pcb_ = p]
<1>1. st.udp \in [Sockets -> SocketT] /\ st.pcbs \in [Pcbs -> PcbT] /\ st.use \in [Groups -> Nat]
  BY DEF StateT
<1>2. me \in SocketT
  BY <1>1
<1>3. /\ v \in SocketT /\ SameData(v, me) /\ v.pcb_ = p /\ v.listening_ = me.listening_
      /\ v.listenReuse_ = me.listenReuse_ /\ v.multicastIP_ = me.multicastIP_
  BY <1>2 DEF SocketT, SameData
<1>4. /\ new.udp = [st.udp EXCEPT ![s] = v] /\ new.pcbs = [st.pcbs EXCEPT ![p] = NewPcb]
      /\ new.use = st.use
  BY <1>1, <1>2 DEF StateT, GivenPcb
<1>5. NewPcb \in PcbT
  BY DEF NewPcb, FreePcb, PcbT
<1> HIDE DEF v, me, new
<1>6. new \in StateT
  <2>1. new = [st EXCEPT !.udp = new.udp, !.pcbs = new.pcbs, !.use = new.use]
    BY DEF StateT, new, GivenPcb
  <2>2. new.udp \in [Sockets -> SocketT] /\ new.pcbs \in [Pcbs -> PcbT] /\ new.use \in [Groups -> Nat]
    BY <1>1, <1>3, <1>4, <1>5
  <2> QED BY <2>1, <2>2 DEF StateT
<1>7. new.udp[s] = v /\ \A t \in Sockets \ {s} : new.udp[t] = st.udp[t]
  BY <1>1, <1>4
<1>8. new.pcbs[p] = NewPcb /\ \A q \in Pcbs \ {p} : new.pcbs[q] = st.pcbs[q]
  BY <1>1, <1>4
<1>9. new.use = st.use
  BY <1>4
<1> QED BY <1>3, <1>6, <1>7, <1>8, <1>9 DEF OnlyControl, me, new

\* begin() after a successful udp_bind().
IsBound(st, new, s, port, reuse) ==
    LET p == st.udp[s].pcb_
    IN  /\ new \in StateT
        /\ OnlyControl(st, new, s)
        /\ new.udp[s].pcb_ = p /\ new.udp[s].listening_ = TRUE
        /\ new.udp[s].listenReuse_ = reuse
        /\ new.udp[s].multicastIP_ = st.udp[s].multicastIP_
        /\ p \in Pcbs
        /\ new.pcbs[p].allocated = st.pcbs[p].allocated /\ new.pcbs[p].port = port
        /\ st.pcbs[p].reuse = FALSE => new.pcbs[p].reuse = reuse
        /\ new.pcbs[p].arg = s
        /\ \A q \in Pcbs \ {p} : new.pcbs[q] = st.pcbs[q]
        /\ new.use = st.use

\* That is what begin() leaves when the port is free.
LEMMA BoundFacts ==
    ASSUME NEW st \in StateT, NEW s \in Sockets, NEW port \in Ports, NEW reuse \in BOOLEAN,
           st.udp[s].pcb_ # NULL, ~PortInUse(st.pcbs, st.udp[s].pcb_, port, reuse)
    PROVE  IsBound(st, Bound(st, s, port, reuse), s, port, reuse)
<1> PICK new : new = Bound(st, s, port, reuse)
  OBVIOUS
<1> PICK p : p = st.udp[s].pcb_
  OBVIOUS
<1> DEFINE me == st.udp[s]
           v == [me EXCEPT !.listening_ = TRUE, !.listenReuse_ = reuse,
                           !.droppedReceiveCount_ = 0, !.totalReceiveCount_ = 0]
           c == st.pcbs[p]
           w == [c EXCEPT !.port = port, !.reuse = c.reuse \/ reuse, !.arg = s]
<1>1. st.udp \in [Sockets -> SocketT] /\ st.pcbs \in [Pcbs -> PcbT] /\ st.use \in [Groups -> Nat]
  BY DEF StateT
<1>2. me \in SocketT /\ p \in Pcbs
  BY <1>1 DEF SocketT
<1>3. c \in PcbT
  BY <1>1, <1>2
<1>4. /\ v \in SocketT /\ SameData(v, me) /\ v.pcb_ = p /\ v.listening_ = TRUE
      /\ v.listenReuse_ = reuse /\ v.multicastIP_ = me.multicastIP_
  BY <1>2 DEF SocketT, SameData
<1>5. /\ w \in PcbT /\ w.allocated = c.allocated /\ w.port = port
      /\ (c.reuse = FALSE => w.reuse = reuse) /\ w.arg = s
  BY <1>3 DEF PcbT
<1>6. new = [udp |-> [st.udp EXCEPT ![s] = v], pcbs |-> [st.pcbs EXCEPT ![p] = w],
             use |-> st.use]
  <2>1. st = [udp |-> st.udp, pcbs |-> st.pcbs, use |-> st.use]
    BY DEF StateT
  <2>2. new = [udp |-> [st.udp EXCEPT ![s].listening_ = TRUE, ![s].listenReuse_ = reuse,
                                      ![s].droppedReceiveCount_ = 0,
                                      ![s].totalReceiveCount_ = 0],
               pcbs |-> [st.pcbs EXCEPT ![p].port = port, ![p].reuse = st.pcbs[p].reuse \/ reuse,
                                        ![p].arg = s],
               use |-> st.use]
    BY <1>1, <1>2, <1>3, <2>1, ZenonT(60) DEF Bound
  <2> QED BY <1>1, <1>2, <1>3, <2>2, ZenonT(60)
<1> HIDE DEF v, me, c, w
<1>7. new \in StateT
  BY <1>1, <1>2, <1>4, <1>5, <1>6 DEF StateT
<1>8. new.udp[s] = v /\ \A t \in Sockets \ {s} : new.udp[t] = st.udp[t]
  BY <1>1, <1>6
<1>9. new.pcbs[p] = w /\ \A q \in Pcbs \ {p} : new.pcbs[q] = st.pcbs[q]
  BY <1>1, <1>2, <1>6
<1>10. new.use = st.use
  BY <1>6
<1> QED BY <1>2, <1>4, <1>5, <1>7, <1>8, <1>9, <1>10 DEF OnlyControl, IsBound, me, c

\* joinGroup() has succeeded.
Joined(st, s, g) == [st EXCEPT !.use[g] = @ + 1, !.udp[s].multicastIP_ = g]

\* Only the group and its use count change.
LEMMA JoinedFacts ==
    ASSUME NEW st \in StateT, NEW s \in Sockets, NEW g \in Groups
    PROVE  LET new == Joined(st, s, g)
           IN  /\ new \in StateT
               /\ OnlyControl(st, new, s)
               /\ new.udp[s].pcb_ = st.udp[s].pcb_ /\ new.udp[s].listening_ = st.udp[s].listening_
               /\ new.udp[s].listenReuse_ = st.udp[s].listenReuse_
               /\ new.udp[s].multicastIP_ = g
               /\ new.pcbs = st.pcbs
               /\ \A h \in Groups : new.use[h] = IF h = g THEN st.use[g] + 1 ELSE st.use[h]
<1> DEFINE new == Joined(st, s, g)
           me == st.udp[s]
           v == [me EXCEPT !.multicastIP_ = g]
<1>1. st.udp \in [Sockets -> SocketT] /\ st.pcbs \in [Pcbs -> PcbT] /\ st.use \in [Groups -> Nat]
  BY DEF StateT
<1>2. me \in SocketT
  BY <1>1
<1>3. /\ v \in SocketT /\ SameData(v, me) /\ v.pcb_ = me.pcb_ /\ v.listening_ = me.listening_
      /\ v.listenReuse_ = me.listenReuse_ /\ v.multicastIP_ = g
  BY <1>2 DEF SocketT, SameData
<1>4. /\ new.udp = [st.udp EXCEPT ![s] = v] /\ new.pcbs = st.pcbs
      /\ new.use = [st.use EXCEPT ![g] = st.use[g] + 1]
  BY <1>1, <1>2 DEF StateT, Joined
<1>5. [st.use EXCEPT ![g] = st.use[g] + 1] \in [Groups -> Nat]
  BY <1>1
<1> HIDE DEF v, me, new
<1>6. new \in StateT
  <2>1. new = [st EXCEPT !.udp = new.udp, !.pcbs = new.pcbs, !.use = new.use]
    BY DEF StateT, new, Joined
  <2>2. new.udp \in [Sockets -> SocketT] /\ new.pcbs \in [Pcbs -> PcbT] /\ new.use \in [Groups -> Nat]
    BY <1>1, <1>3, <1>4, <1>5
  <2> QED BY <2>1, <2>2 DEF StateT
<1>7. new.udp[s] = v /\ \A t \in Sockets \ {s} : new.udp[t] = st.udp[t]
  BY <1>1, <1>4
<1>8. new.pcbs = st.pcbs /\ new.use = [st.use EXCEPT ![g] = st.use[g] + 1]
  BY <1>4
<1>9. \A h \in Groups : new.use[h] = IF h = g THEN st.use[g] + 1 ELSE st.use[h]
  BY <1>1, <1>8
<1> QED BY <1>3, <1>6, <1>7, <1>8, <1>9 DEF OnlyControl, me, new

-----------------------------------------------------------------------------
(* What the calls keep whatever the program does.                          *)

Keeps(st, new, s) == new \in StateT /\ ArgsKnown(new) /\ OnlyControl(st, new, s)

\* Two parts of a call.
LEMMA KeepsTwice ==
    ASSUME NEW a, NEW b, NEW c, NEW s \in Sockets, Keeps(a, b, s), Keeps(b, c, s)
    PROVE  Keeps(a, c, s)
BY DEF Keeps, OnlyControl, SameData

\* A call that returns early.
LEMMA KeepsNothing ==
    ASSUME NEW st \in StateT, ArgsKnown(st), NEW s \in Sockets
    PROVE  Keeps(st, st, s)
BY DEF Keeps, OnlyControl, SameData

\* stop().
LEMMA StoppedKeeps ==
    ASSUME NEW st \in StateT, ArgsKnown(st), NEW s \in Sockets
    PROVE  Keeps(st, Stopped(st, s), s) /\ Stopped(st, s).udp[s].pcb_ = NULL
<1>1. CASE st.udp[s].pcb_ = NULL
  BY <1>1, KeepsNothing DEF Stopped
<1>2. CASE st.udp[s].pcb_ # NULL
  <2> DEFINE new == Stopped(st, s)
             p   == st.udp[s].pcb_
  <2>1. /\ new \in StateT /\ OnlyControl(st, new, s) /\ new.udp[s].pcb_ = NULL
        /\ p \in Pcbs /\ new.pcbs[p] = FreePcb
        /\ \A q \in Pcbs \ {p} : new.pcbs[q] = st.pcbs[q]
    BY <1>2, StoppedFacts
  <2> HIDE DEF new
  <2>2. ArgsKnown(new)
    <3> SUFFICES ASSUME NEW q \in Pcbs, new.pcbs[q].arg # NULL
                 PROVE  new.udp[new.pcbs[q].arg].pcb_ = q
      BY DEF ArgsKnown
    <3>1. q # p
      BY <2>1 DEF FreePcb
    <3>2. new.pcbs[q] = st.pcbs[q] /\ st.udp[st.pcbs[q].arg].pcb_ = q
      BY <2>1, <3>1 DEF ArgsKnown
    <3>3. st.pcbs[q].arg \in Sockets /\ st.pcbs[q].arg # s
      BY <3>1, <3>2 DEF StateT, PcbT
    <3> QED BY <2>1, <3>2, <3>3 DEF OnlyControl
  <2> QED BY <2>1, <2>2 DEF Keeps, new
<1> QED BY <1>1, <1>2

\* tryCreatePCB(), where the pool is not exhausted.
LEMMA WithPcbKeeps ==
    ASSUME NEW st \in StateT, ArgsKnown(st), NEW s \in Sockets, NEW new \in WithPcb(st, s)
    PROVE  Keeps(st, new, s) /\ new.udp[s].pcb_ # NULL
<1>1. CASE st.udp[s].pcb_ # NULL
  BY <1>1, KeepsNothing DEF WithPcb
<1>2. CASE st.udp[s].pcb_ = NULL
  <2>1. PICK p \in Pcbs : new = GivenPcb(st, s, p)
    BY <1>2 DEF WithPcb, GivenPcb
  <2>2. /\ new \in StateT /\ OnlyControl(st, new, s) /\ new.udp[s].pcb_ = p
        /\ new.pcbs[p] = NewPcb
        /\ \A q \in Pcbs \ {p} : new.pcbs[q] = st.pcbs[q]
    BY <2>1, NewPcbFacts
  <2>3. ArgsKnown(new)
    <3> SUFFICES ASSUME NEW q \in Pcbs, new.pcbs[q].arg # NULL
                 PROVE  new.udp[new.pcbs[q].arg].pcb_ = q
      BY DEF ArgsKnown
    <3>1. q # p
      BY <2>2 DEF NewPcb, FreePcb
    <3>2. new.pcbs[q] = st.pcbs[q] /\ st.udp[st.pcbs[q].arg].pcb_ = q
      BY <2>2, <3>1 DEF ArgsKnown
    <3>3. st.pcbs[q].arg \in Sockets
      BY <3>2 DEF StateT, PcbT
    <3>4. st.pcbs[q].arg # s
      BY <1>2, <3>2, UdpAssumption
    <3> QED BY <2>2, <3>2, <3>3, <3>4 DEF OnlyControl
  <2> QED BY <2>2, <2>3, UdpAssumption DEF Keeps
<1> QED BY <1>1, <1>2

\* begin() from the bind on, successful or not.
LEMMA BoundKeeps ==
    ASSUME NEW st \in StateT, ArgsKnown(st), NEW s \in Sockets, st.udp[s].pcb_ # NULL,
           NEW port \in Ports, NEW reuse \in BOOLEAN
    PROVE  Keeps(st, Bound(st, s, port, reuse), s)
<1> PICK new : new = Bound(st, s, port, reuse)
  OBVIOUS
<1> PICK p : p = st.udp[s].pcb_
  BY SMTT(40)
<1>1. CASE PortInUse(st.pcbs, p, port, reuse)
  BY <1>1, StoppedKeeps, ZenonT(60) DEF Bound
<1>2. CASE ~PortInUse(st.pcbs, p, port, reuse)
  <2>1. /\ new \in StateT /\ OnlyControl(st, new, s) /\ new.udp[s].pcb_ = p
        /\ new.pcbs[p].arg = s /\ p \in Pcbs
        /\ \A q \in Pcbs \ {p} : new.pcbs[q] = st.pcbs[q]
    <3>1. IsBound(st, Bound(st, s, port, reuse), s, port, reuse)
      BY <1>2, BoundFacts
    <3> QED BY <3>1 DEF IsBound
  <2>2. ArgsKnown(new)
    <3> SUFFICES ASSUME NEW q \in Pcbs, new.pcbs[q].arg # NULL
                 PROVE  new.udp[new.pcbs[q].arg].pcb_ = q
      BY SMTT(40) DEF ArgsKnown
    <3>1. CASE q = p
      BY <2>1, <3>1
    <3>2. CASE q # p
      <4>1. new.pcbs[q] = st.pcbs[q] /\ st.udp[st.pcbs[q].arg].pcb_ = q
        BY <2>1, <3>2 DEF ArgsKnown
      <4>2. st.pcbs[q].arg \in Sockets /\ st.pcbs[q].arg # s
        BY <3>2, <4>1 DEF StateT, PcbT
      <4> QED BY <2>1, <4>1, <4>2 DEF OnlyControl
    <3> QED BY <3>1, <3>2
  <2> QED BY <2>1, <2>2 DEF Keeps
<1> QED BY <1>1, <1>2

\* begin(), on all its paths.
LEMMA BegunKeeps ==
    ASSUME NEW st \in StateT, ArgsKnown(st), NEW s \in Sockets,
           NEW port \in Ports, NEW reuse \in BOOLEAN, NEW new \in Begun(st, s, port, reuse)
    PROVE  Keeps(st, new, s)
<1>1. CASE AlreadyListening(st, s, port, reuse)
  BY <1>1, KeepsNothing DEF Begun
<1>2. CASE ~AlreadyListening(st, s, port, reuse)
  <2> DEFINE stopped == IF st.udp[s].listening_ THEN Stopped(st, s) ELSE st
  <2>1. Keeps(st, stopped, s)
    BY KeepsNothing, StoppedKeeps
  <2>2. new = stopped \/ \E r \in WithPcb(stopped, s) : new = Bound(r, s, port, reuse)
    BY <1>2 DEF Begun
  <2> HIDE DEF stopped
  <2>3. CASE new = stopped
    BY <2>1, <2>3
  <2>4. CASE \E r \in WithPcb(stopped, s) : new = Bound(r, s, port, reuse)
    <3>1. PICK r \in WithPcb(stopped, s) : new = Bound(r, s, port, reuse)
      BY <2>4
    <3>2. stopped \in StateT /\ ArgsKnown(stopped)
      BY <2>1 DEF Keeps
    <3>3. Keeps(stopped, r, s) /\ r.udp[s].pcb_ # NULL
      BY <3>2, WithPcbKeeps
    <3>4. r \in StateT /\ ArgsKnown(r)
      BY <3>3 DEF Keeps
    <3>5. Keeps(r, new, s)
      BY <3>1, <3>3, <3>4, BoundKeeps
    <3> QED BY <2>1, <3>3, <3>5, KeepsTwice
  <2> QED BY <2>2, <2>3, <2>4
<1> QED BY <1>1, <1>2

\* The end of a successful beginMulticast().
LEMMA JoinedKeeps ==
    ASSUME NEW st \in StateT, ArgsKnown(st), NEW s \in Sockets, NEW g \in Groups
    PROVE  Keeps(st, Joined(st, s, g), s)
<1> DEFINE new == Joined(st, s, g)
<1>1. /\ new \in StateT /\ OnlyControl(st, new, s) /\ new.udp[s].pcb_ = st.udp[s].pcb_
      /\ new.pcbs = st.pcbs
  BY JoinedFacts
<1> HIDE DEF new
<1>2. ArgsKnown(new)
  BY <1>1 DEF ArgsKnown, OnlyControl, StateT, PcbT
<1> QED BY <1>1, <1>2 DEF Keeps, new

-----------------------------------------------------------------------------
(* The receive queue.  IsRing speaks of the vector, which may hold Blank;  *)
(* the elements in use are packets, the newest of the n that arrived, and  *)
(* the last one parsed, numbered id, is older than they are.               *)

QueueOK(r, id, n) ==
    /\ IsRing(r, Elem)
    /\ capacity(r) \in 1..(MaxCapacity + 1)
    /\ \A i \in 1..Len(Contents(r)) :
         Contents(r)[i] \in Packet /\ Contents(r)[i].id = n - Len(Contents(r)) + i
    /\ id <= n - Len(Contents(r))

\* The queue of a new socket is empty.
LEMMA NewQueue ==
    ASSUME NEW c \in 0..(MaxCapacity + 1)
    PROVE  QueueOK(NewRing(c), 0, 0)
<1>1. /\ IsRing(NewRing(c), Elem) /\ Contents(NewRing(c)) = <<>>
      /\ capacity(NewRing(c)) = AtLeastOne(c)
  <2>1. Blank \in Elem /\ c \in Nat
    BY UdpAssumption DEF Elem
  <2> QED BY <2>1, NewRingContents
<1>2. AtLeastOne(c) \in 1..(MaxCapacity + 1)
  BY UdpAssumption DEF AtLeastOne
<1> QED BY <1>1, <1>2 DEF QueueOK

\* A packet that arrives is the newest; a full queue loses its oldest.
LEMMA PutQueue ==
    ASSUME NEW r, NEW id \in Nat, NEW n \in Nat, QueueOK(r, id, n),
           n + 1 <= MaxPackets, NEW len \in Lens
    PROVE  /\ QueueOK(put(r, [id |-> n + 1, len |-> len]), id, n + 1)
           /\ capacity(put(r, [id |-> n + 1, len |-> len])) = capacity(r)
           /\ Contents(put(r, [id |-> n + 1, len |-> len]))
                = Newest(Append(Contents(r), [id |-> n + 1, len |-> len]), capacity(r))
<1>x. PICK x : x = [id |-> n + 1, len |-> len]
  OBVIOUS
<1>1. x \in Packet /\ x.id = n + 1
  BY <1>x, UdpAssumption DEF Packet
<1>2. IsRing(r, Elem) /\ capacity(r) \in 1..(MaxCapacity + 1)
  BY DEF QueueOK
<1>3. /\ IsRing(put(r, x), Elem) /\ capacity(put(r, x)) = capacity(r)
      /\ Contents(put(r, x)) = Newest(Append(Contents(r), x), capacity(r))
  BY <1>1, <1>2, PutContents DEF Elem
<1>q. PICK q : q = Contents(r)
  OBVIOUS
<1>C. PICK C : C = capacity(r)
  OBVIOUS
<1>4. q \in Seq(Elem) /\ Len(q) <= C /\ C \in Nat \ {0} /\ Len(q) \in Nat
  BY <1>2, <1>q, <1>C, RingFacts DEF IsRing
<1>5. /\ \A i \in 1..Len(q) : q[i] \in Packet /\ q[i].id = n - Len(q) + i
      /\ id <= n - Len(q)
  BY <1>q DEF QueueOK
<1>a. PICK a : a = Append(q, x)
  OBVIOUS
<1>6. /\ a \in Seq(Elem) /\ Len(a) = Len(q) + 1 /\ a[Len(q) + 1] = x
      /\ \A i \in 1..Len(q) : a[i] = q[i]
  BY <1>1, <1>4, <1>a DEF Elem
<1>7. ASSUME NEW i \in 1..Len(a) PROVE a[i] \in Packet /\ a[i].id = n + 1 - Len(a) + i
  <2>1. CASE i = Len(q) + 1
    BY <1>1, <1>4, <1>6, <2>1
  <2>2. CASE i # Len(q) + 1
    <3>1. i \in 1..Len(q)
      BY <1>4, <1>6, <2>2
    <3>2. n - Len(q) + i = n + 1 - Len(a) + i
      BY <1>4, <1>6
    <3> QED BY <1>5, <1>6, <3>1, <3>2
  <2> QED BY <2>1, <2>2
<1>w. PICK w : w = Newest(a, C)
  OBVIOUS
<1>m. PICK m : m = IF Len(a) <= C THEN Len(a) ELSE C
  OBVIOUS
<1>8. /\ w \in Seq(Elem) /\ Len(w) = m
      /\ \A i \in 1..m : Len(a) - m + i \in 1..Len(a)
      /\ \A i \in 1..m : w[i] = a[Len(a) - m + i]
  <2>1. a \in Seq(Elem) /\ C \in Nat \ {0}
    BY <1>4, <1>6
  <2> QED BY <1>w, <1>m, <2>1, NewestFacts, ZenonT(60)
<1>9. m \in Nat /\ m <= Len(a) /\ Len(a) \in Nat
  BY <1>4, <1>6, <1>m
<1>10. ASSUME NEW i \in 1..Len(w) PROVE w[i] \in Packet /\ w[i].id = n + 1 - Len(w) + i
  <2>1. PICK j \in 1..Len(a) : j = Len(a) - m + i /\ w[i] = a[j]
    BY <1>8
  <2>2. n + 1 - Len(a) + j = n + 1 - Len(w) + i
    <3>1. Len(w) = m
      BY <1>8
    <3> QED BY <1>9, <2>1, <3>1
  <2> QED BY <1>7, <2>1, <2>2
<1>11. id <= n + 1 - Len(w)
  <2>1. Len(w) = m /\ Len(a) = Len(q) + 1 /\ Len(q) \in Nat
    BY <1>4, <1>6, <1>8
  <2>2. id <= n - Len(q)
    BY <1>5
  <2> QED BY <1>9, <2>1, <2>2
<1>12. QueueOK(put(r, x), id, n + 1)
  <2>1. Contents(put(r, x)) = w
    BY <1>3, <1>q, <1>C, <1>a, <1>w
  <2> QED BY <1>2, <1>3, <1>10, <1>11, <2>1 DEF QueueOK
<1> QED BY <1>3, <1>12, <1>x

\* parsePacket() takes the oldest packet of the queue.
LEMMA GetQueue ==
    ASSUME NEW r, NEW id \in Nat, NEW n \in Nat, QueueOK(r, id, n), ~empty(r)
    PROVE  /\ Oldest(r) \in Packet
           /\ QueueOK(get(r), Oldest(r).id, n)
           /\ capacity(get(r)) = capacity(r)
           /\ Contents(r) # <<>> /\ Contents(get(r)) = Tail(Contents(r))
<1>1. IsRing(r, Elem) /\ capacity(r) \in 1..(MaxCapacity + 1)
  BY DEF QueueOK
<1>2. /\ IsRing(get(r), Elem) /\ capacity(get(r)) = capacity(r)
      /\ Contents(r) # <<>> /\ Oldest(r) = Head(Contents(r))
      /\ Contents(get(r)) = Tail(Contents(r))
  BY <1>1, GetContents DEF Elem
<1>q. PICK q : q = Contents(r)
  OBVIOUS
<1>3. q \in Seq(Elem) /\ q # <<>>
  BY <1>1, <1>2, <1>q, RingFacts
<1>4. /\ Head(q) = q[1] /\ Len(q) \in Nat \ {0}
      /\ Tail(q) \in Seq(Elem) /\ Len(Tail(q)) = Len(q) - 1
      /\ \A i \in 1..(Len(q) - 1) : Tail(q)[i] = q[i + 1]
  BY <1>3, TailFacts
<1>5. /\ \A i \in 1..Len(q) : q[i] \in Packet /\ q[i].id = n - Len(q) + i
  BY <1>q DEF QueueOK
<1>6. Oldest(r) \in Packet /\ Oldest(r).id = n - Len(Tail(q))
  BY <1>2, <1>4, <1>5, <1>q
<1>7. ASSUME NEW i \in 1..Len(Tail(q))
      PROVE  Tail(q)[i] \in Packet /\ Tail(q)[i].id = n - Len(Tail(q)) + i
  <2>1. i + 1 \in 1..Len(q) /\ Tail(q)[i] = q[i + 1]
    BY <1>4
  <2>2. n - Len(q) + (i + 1) = n - Len(Tail(q)) + i
    BY <1>4
  <2> QED BY <1>5, <2>1, <2>2
<1>8. Oldest(r).id <= n - Len(Tail(q))
  BY <1>4, <1>6
<1>9. QueueOK(get(r), Oldest(r).id, n)
  BY <1>1, <1>2, <1>7, <1>8, <1>q DEF QueueOK
<1> QED BY <1>2, <1>6, <1>9

\* A smaller capacity keeps the newest packets.
LEMMA CapacityQueue ==
    ASSUME NEW r, NEW id \in Nat, NEW n \in Nat, QueueOK(r, id, n), NEW c \in 0..MaxCapacity
    PROVE  /\ QueueOK(setCapacity(r, c), id, n)
           /\ capacity(setCapacity(r, c)) = AtLeastOne(c)
           /\ AtLeastOne(c) \in 1..(MaxCapacity + 1)
           /\ Contents(setCapacity(r, c)) = Newest(Contents(r), AtLeastOne(c))
<1>1. IsRing(r, Elem)
  BY DEF QueueOK
<1>C. PICK C : C = AtLeastOne(c)
  OBVIOUS
<1>2. C \in 1..(MaxCapacity + 1) /\ c \in Nat /\ C \in Nat \ {0}
  BY <1>C, UdpAssumption DEF AtLeastOne
<1>3. /\ IsRing(setCapacity(r, c), Elem) /\ capacity(setCapacity(r, c)) = C
      /\ Contents(setCapacity(r, c)) = Newest(Contents(r), C)
  <2>1. Blank \in Elem
    BY DEF Elem
  <2> QED BY <1>1, <1>2, <1>C, <2>1, SetCapacityContents
<1>q. PICK q : q = Contents(r)
  OBVIOUS
<1>4. q \in Seq(Elem) /\ Len(q) \in Nat
  BY <1>1, <1>q, RingFacts
<1>5. /\ \A i \in 1..Len(q) : q[i] \in Packet /\ q[i].id = n - Len(q) + i
      /\ id <= n - Len(q)
  BY <1>q DEF QueueOK
<1>w. PICK w : w = Newest(q, C)
  OBVIOUS
<1>m. PICK m : m = IF Len(q) <= C THEN Len(q) ELSE C
  OBVIOUS
<1>6. /\ w \in Seq(Elem) /\ Len(w) = m
      /\ \A i \in 1..m : Len(q) - m + i \in 1..Len(q)
      /\ \A i \in 1..m : w[i] = q[Len(q) - m + i]
  BY <1>2, <1>4, <1>w, <1>m, NewestFacts, ZenonT(60)
<1>7. m \in Nat /\ m <= Len(q)
  BY <1>2, <1>4, <1>m
<1>8. ASSUME NEW i \in 1..Len(w) PROVE w[i] \in Packet /\ w[i].id = n - Len(w) + i
  <2>1. PICK j \in 1..Len(q) : j = Len(q) - m + i /\ w[i] = q[j]
    BY <1>6
  <2>2. n - Len(q) + j = n - Len(w) + i
    <3>1. Len(w) = m
      BY <1>6
    <3> QED BY <1>4, <1>7, <2>1, <3>1
  <2> QED BY <1>5, <2>1, <2>2
<1>9. id <= n - Len(w)
  <2>1. Len(w) = m /\ id <= n - Len(q)
    BY <1>5, <1>6
  <2> QED BY <1>4, <1>7, <2>1
<1>10. QueueOK(setCapacity(r, c), id, n)
  BY <1>2, <1>3, <1>8, <1>9, <1>q, <1>w DEF QueueOK
<1> QED BY <1>2, <1>3, <1>10, <1>C

-----------------------------------------------------------------------------
(* The first inductive invariant.  That a PCB calls back only for a socket *)
(* that has it, and that a socket without a life has none, is what makes a *)
(* packet reach an object that is there.                                   *)

SocketOK(u, n) ==
    /\ u.life = "none" => u.pcb_ = NULL /\ n = 0
    /\ u.life = "moved" => u.inBuf_.buf_ = <<>>
    /\ u.life # "moved" => /\ QueueOK(u.inBuf_, u.packet_.id, n)
                           /\ u.packetPos_ \in -1..u.packet_.len
    /\ u.outPacket_ \in (0..MaxPayload) \cup {NULL}

QInv ==
    /\ Now \in StateT /\ ArgsKnown(Now)
    /\ arrived \in [Sockets -> Nat]
    /\ \A s \in Sockets : SocketOK(udp[s], arrived[s])

\* What a step may do to the queue of a socket.
RingStep(s) ==
    LET u == udp[s]
        v == udp'[s]
    IN  \/ v.life = u.life /\ v.inBuf_ = u.inBuf_
        \/ /\ u.life = "none" /\ v.life = "live"
           /\ \E c \in 0..MaxCapacity : v.inBuf_ = NewRing(c)
        \/ /\ u.life = "none" /\ v.life = "live"
           /\ \E t \in Sockets : Live(t) /\ v.inBuf_ = udp[t].inBuf_
        \/ u.life # "none" /\ v.life \in {"none", "moved"}
        \/ /\ u.life = "live" /\ v.life = "live"
           /\ arrived[s] + 1 <= MaxPackets
           /\ \E len \in Lens : v.inBuf_ = put(u.inBuf_, [id |-> arrived[s] + 1, len |-> len])
        \/ /\ u.life = "live" /\ v.life = "live"
           /\ \E c \in 0..MaxCapacity : v.inBuf_ = setCapacity(u.inBuf_, c)
        \/ /\ u.life = "live" /\ v.life = "live"
           /\ ~empty(u.inBuf_) /\ v.inBuf_ = get(u.inBuf_)

StepOK == QInv' /\ \A s \in Sockets : RingStep(s)

\* The types of the variables.
LEMMA QInvTypes ==
    ASSUME QInv
    PROVE  /\ udp \in [Sockets -> SocketT] /\ pcbs \in [Pcbs -> PcbT] /\ use \in [Groups -> Nat]
           /\ arrived \in [Sockets -> Nat]
           /\ Now.udp = udp /\ Now.pcbs = pcbs /\ Now.use = use
<1>1. Now \in StateT /\ Now = [udp |-> udp, pcbs |-> pcbs, use |-> use]
  BY DEF QInv, Now
<1> QED BY <1>1 DEF StateT, QInv

\* The state after a call.
LEMMA BecomesNow ==
    ASSUME NEW st \in StateT, Becomes(st)
    PROVE  Now' = st
<1>1. st = [udp |-> st.udp, pcbs |-> st.pcbs, use |-> st.use]
  BY DEF StateT
<1> QED BY <1>1 DEF Becomes, Now

\* The constructor.
LEMMA NewSocketFacts ==
    ASSUME NEW c \in 0..(MaxCapacity + 1)
    PROVE  LET u == NewSocket(c)
           IN  /\ u \in SocketT /\ SocketOK(u, 0)
               /\ u.life = "live" /\ u.inBuf_ = NewRing(c) /\ u.pcb_ = NULL
               /\ u.multicastIP_ = NULL /\ u.listening_ = FALSE /\ u.listenReuse_ = FALSE
<1> DEFINE u == NewSocket(c)
<1>1. QueueOK(NewRing(c), 0, 0)
  BY NewQueue
<1>2. NewRing(c) \in RingT
  BY <1>1 DEF QueueOK, IsRing, RingT
<1>3. u \in SocketT
  BY <1>2 DEF NewSocket, NoPacket, SocketT
<1>4. /\ u.life = "live" /\ u.pcb_ = NULL /\ u.multicastIP_ = NULL /\ u.listening_ = FALSE
      /\ u.listenReuse_ = FALSE /\ u.inBuf_ = NewRing(c) /\ u.packet_.id = 0
      /\ u.packet_.len = 0 /\ u.packetPos_ = -1 /\ u.outPacket_ = NULL
  BY DEF NewSocket, NoPacket
<1> HIDE DEF u
<1>5. SocketOK(u, 0)
  BY <1>1, <1>4 DEF SocketOK
<1> QED BY <1>3, <1>4, <1>5 DEF u

\* A socket that does not exist.
LEMMA NoSocketFacts ==
    /\ NoSocket \in SocketT /\ NoSocket.life = "none" /\ SocketOK(NoSocket, 0)
    /\ NoSocket.pcb_ = NULL /\ NoSocket.multicastIP_ = NULL
    /\ NoSocket.listening_ = FALSE /\ NoSocket.listenReuse_ = FALSE
<1>1. 1 \in 0..(MaxCapacity + 1)
  BY UdpAssumption
<1> PICK u : u = NewSocket(1)
  OBVIOUS
<1>2. /\ u \in SocketT /\ SocketOK(u, 0) /\ u.life = "live" /\ u.pcb_ = NULL
      /\ u.multicastIP_ = NULL /\ u.listening_ = FALSE /\ u.listenReuse_ = FALSE
  BY <1>1, NewSocketFacts
<1> PICK v : v = NoSocket
  OBVIOUS
<1>3. v = [u EXCEPT !.life = "none"]
  BY DEF NoSocket
<1>4. /\ v \in SocketT /\ v.life = "none" /\ v.pcb_ = NULL /\ v.multicastIP_ = NULL
      /\ v.listening_ = FALSE /\ v.listenReuse_ = FALSE
      /\ v.inBuf_ = u.inBuf_ /\ v.packet_ = u.packet_ /\ v.packetPos_ = u.packetPos_
      /\ v.outPacket_ = u.outPacket_
  BY <1>2, <1>3 DEF SocketT
<1>5. SocketOK(v, 0)
  BY <1>2, <1>4 DEF SocketOK
<1> QED BY <1>4, <1>5

\* The steps of a call that leave all data alone.
LEMMA ControlStep ==
    ASSUME QInv, NEW s \in Sockets, Live(s), NEW st, Keeps(Now, st, s), Becomes(st),
           UNCHANGED arrived
    PROVE  StepOK
<1>1. st \in StateT /\ ArgsKnown(st) /\ OnlyControl(Now, st, s)
  BY DEF Keeps
<1>2. Now' = st /\ udp' = st.udp /\ Now.udp = udp
  BY <1>1, BecomesNow, QInvTypes DEF Becomes
<1>3. (\A t \in Sockets \ {s} : udp'[t] = udp[t]) /\ SameData(udp'[s], udp[s])
  BY <1>1, <1>2 DEF OnlyControl
<1>4. \A t \in Sockets : SocketOK(udp[t], arrived[t])
  BY DEF QInv
<1>5. ASSUME NEW t \in Sockets PROVE SocketOK(udp'[t], arrived'[t])
  <2>1. CASE t # s
    BY <1>3, <1>4, <2>1
  <2>2. CASE t = s
    BY <1>3, <1>4, <2>2 DEF SocketOK, SameData, Live
  <2> QED BY <2>1, <2>2
<1>6. QInv'
  BY <1>1, <1>2, <1>5 DEF QInv
<1>7. \A t \in Sockets : RingStep(t)
  BY <1>3 DEF RingStep, SameData
<1> QED BY <1>6, <1>7 DEF StepOK

\* The steps that change one socket, and not its PCB.
LEMMA DataStep ==
    ASSUME QInv, NEW s \in Sockets, NEW v \in SocketT, udp' = [udp EXCEPT ![s] = v],
           UNCHANGED <<pcbs, use>>, v.pcb_ = udp[s].pcb_,
           NEW n \in Nat, arrived' = [arrived EXCEPT ![s] = n], SocketOK(v, n), RingStep(s)
    PROVE  StepOK
<1>1. /\ udp \in [Sockets -> SocketT] /\ pcbs \in [Pcbs -> PcbT] /\ use \in [Groups -> Nat]
      /\ arrived \in [Sockets -> Nat] /\ Now.udp = udp /\ Now.pcbs = pcbs
  BY QInvTypes
<1>2. udp' \in [Sockets -> SocketT] /\ arrived' \in [Sockets -> Nat]
  BY <1>1
<1>3. Now' = [udp |-> udp', pcbs |-> pcbs, use |-> use]
  BY DEF Now
<1>4. Now' \in StateT /\ Now'.udp = udp' /\ Now'.pcbs = pcbs
  BY <1>1, <1>2, <1>3 DEF StateT
<1>5. \A t \in Sockets : udp'[t].pcb_ = udp[t].pcb_
  BY <1>1
<1>6. ArgsKnown(Now')
  <2> SUFFICES ASSUME NEW p \in Pcbs, pcbs[p].arg # NULL PROVE udp'[pcbs[p].arg].pcb_ = p
    BY <1>4 DEF ArgsKnown
  <2>1. pcbs[p].arg \in Sockets
    BY <1>1 DEF PcbT
  <2>2. udp[pcbs[p].arg].pcb_ = p
    BY <1>1 DEF QInv, ArgsKnown
  <2> QED BY <1>5, <2>1, <2>2
<1>7. udp'[s] = v /\ arrived'[s] = n
  BY <1>1
<1>8. \A t \in Sockets \ {s} : udp'[t] = udp[t] /\ arrived'[t] = arrived[t]
  BY <1>1
<1>9. \A t \in Sockets : SocketOK(udp[t], arrived[t])
  BY DEF QInv
<1>10. \A t \in Sockets : SocketOK(udp'[t], arrived'[t])
  BY <1>7, <1>8, <1>9
<1>11. QInv'
  BY <1>2, <1>4, <1>6, <1>10 DEF QInv
<1>12. \A t \in Sockets \ {s} : RingStep(t)
  BY <1>8 DEF RingStep
<1> QED BY <1>11, <1>12 DEF StepOK

\* What the invariant says of one socket.
LEMMA SocketFacts ==
    ASSUME QInv, NEW s \in Sockets
    PROVE  /\ udp[s] \in SocketT /\ arrived[s] \in Nat /\ SocketOK(udp[s], arrived[s])
           /\ udp[s].packet_.id \in Nat /\ udp[s].packet_.len \in Nat
           /\ arrived = [arrived EXCEPT ![s] = arrived[s]]
<1>1. udp[s] \in SocketT /\ arrived[s] \in Nat /\ arrived = [arrived EXCEPT ![s] = arrived[s]]
  BY QInvTypes
<1>2. udp[s].packet_ \in [id : Nat, len : Nat]
  BY <1>1 DEF SocketT
<1> QED BY <1>1, <1>2 DEF QInv

\* The constructor starts with an empty queue.
LEMMA ConstructStep ==
    ASSUME QInv, NEW s \in Sockets, NEW c \in 0..MaxCapacity, construct(s, c)
    PROVE  StepOK
<1>1. udp[s].life = "none" /\ udp' = [udp EXCEPT ![s] = NewSocket(c)] /\ UNCHANGED <<pcbs, use, arrived>>
  BY DEF construct
<1>2. c \in 0..(MaxCapacity + 1)
  BY UdpAssumption
<1>3. /\ NewSocket(c) \in SocketT /\ SocketOK(NewSocket(c), 0) /\ NewSocket(c).life = "live"
      /\ NewSocket(c).inBuf_ = NewRing(c) /\ NewSocket(c).pcb_ = NULL
  BY <1>2, NewSocketFacts
<1>4. udp[s].pcb_ = NULL /\ arrived[s] = 0
  BY <1>1, SocketFacts DEF SocketOK
<1>5. udp'[s] = NewSocket(c) /\ arrived' = [arrived EXCEPT ![s] = 0]
  <2>1. udp'[s] = NewSocket(c)
    BY <1>1, QInvTypes
  <2>2. arrived = [arrived EXCEPT ![s] = arrived[s]]
    BY SocketFacts
  <2> QED BY <1>1, <1>4, <2>1, <2>2
<1>6. RingStep(s)
  BY <1>1, <1>3, <1>5 DEF RingStep
<1>7. PICK v \in SocketT : v = NewSocket(c)
  BY <1>3
<1>8. /\ udp' = [udp EXCEPT ![s] = v] /\ UNCHANGED <<pcbs, use>> /\ v.pcb_ = udp[s].pcb_
      /\ SocketOK(v, 0)
  BY <1>1, <1>3, <1>4, <1>7
<1> QED BY <1>5, <1>6, <1>8, DataStep

\* setReceiveQueueCapacity() cuts the queue.
LEMMA CapacityStep ==
    ASSUME QInv, NEW s \in Sockets, NEW c \in 0..MaxCapacity, setReceiveQueueCapacity(s, c)
    PROVE  StepOK
<1> PICK u : u = udp[s]
  OBVIOUS
<1> PICK n : n = arrived[s]
  OBVIOUS
<1>1. /\ u \in SocketT /\ n \in Nat /\ SocketOK(u, n) /\ u.packet_.id \in Nat
      /\ arrived = [arrived EXCEPT ![s] = n]
  BY SocketFacts
<1>2. u.life = "live" /\ UNCHANGED <<pcbs, use, arrived>>
  BY DEF setReceiveQueueCapacity, Live
<1> PICK k : k = setCapacity(u.inBuf_, c)
  OBVIOUS
<1> PICK v : v = [u EXCEPT !.inBuf_ = k]
  OBVIOUS
<1>3. udp' = [udp EXCEPT ![s] = v]
  BY QInvTypes DEF setReceiveQueueCapacity
<1>4. QueueOK(u.inBuf_, u.packet_.id, n)
  BY <1>1, <1>2 DEF SocketOK
<1>5. QueueOK(k, u.packet_.id, n)
  BY <1>1, <1>4, CapacityQueue
<1>6. k \in RingT
  BY <1>5 DEF QueueOK, IsRing, RingT
<1>7. /\ v \in SocketT /\ v.life = "live" /\ v.inBuf_ = k /\ v.packet_ = u.packet_
      /\ v.packetPos_ = u.packetPos_ /\ v.outPacket_ = u.outPacket_ /\ v.pcb_ = u.pcb_
  BY <1>1, <1>2, <1>6 DEF SocketT
<1>8. SocketOK(v, n)
  BY <1>1, <1>2, <1>5, <1>7 DEF SocketOK
<1>9. udp'[s] = v
  BY <1>3, QInvTypes
<1>10. RingStep(s)
  BY <1>2, <1>7, <1>9 DEF RingStep
<1> QED BY <1>1, <1>2, <1>3, <1>7, <1>8, <1>10, DataStep

\* The socket after a packet x was taken from its queue, which is k now.
Taken(u, k, x) == [u EXCEPT !.inBuf_ = k, !.packet_ = x, !.packetPos_ = 0]

\* The fields that this changes, and those it does not.
LEMMA TakenFacts ==
    ASSUME NEW u \in SocketT, NEW k \in RingT, NEW x \in [id : Nat, len : Nat]
    PROVE  /\ Taken(u, k, x) \in SocketT /\ Taken(u, k, x).life = u.life
           /\ Taken(u, k, x).inBuf_ = k /\ Taken(u, k, x).packet_ = x
           /\ Taken(u, k, x).packetPos_ = 0 /\ Taken(u, k, x).outPacket_ = u.outPacket_
           /\ Taken(u, k, x).pcb_ = u.pcb_
<1>1. u.packet_ \in [id : Nat, len : Nat]
  BY DEF SocketT
<1>2. Taken(u, k, x) \in SocketT
  <2>1. PICK a \in SocketT : a = [u EXCEPT !.inBuf_ = k]
    BY DEF SocketT
  <2>2. ASSUME NEW c \in SocketT PROVE [c EXCEPT !.packet_ = x] \in SocketT
    BY DEF SocketT
  <2>3. PICK b \in SocketT : b = [a EXCEPT !.packet_ = x]
    BY <2>2
  <2>4. ASSUME NEW c \in SocketT PROVE [c EXCEPT !.packetPos_ = 0] \in SocketT
    BY DEF SocketT
  <2>5. [b EXCEPT !.packetPos_ = 0] \in SocketT
    BY <2>4
  <2> QED BY <2>1, <2>3, <2>5 DEF Taken
<1>3. /\ Taken(u, k, x).life = u.life /\ Taken(u, k, x).inBuf_ = k /\ Taken(u, k, x).packet_ = x
      /\ Taken(u, k, x).packetPos_ = 0 /\ Taken(u, k, x).outPacket_ = u.outPacket_
      /\ Taken(u, k, x).pcb_ = u.pcb_
  BY DEF Taken, SocketT
<1> QED BY <1>2, <1>3

\* parsePacket() takes from the queue, or finds it empty.
LEMMA ParseStep ==
    ASSUME QInv, NEW s \in Sockets, parsePacket(s)
    PROVE  StepOK
<1> PICK u : u = udp[s]
  OBVIOUS
<1> PICK n : n = arrived[s]
  OBVIOUS
<1> PICK r : r = u.inBuf_
  OBVIOUS
<1>1. /\ u \in SocketT /\ n \in Nat /\ SocketOK(u, n) /\ u.packet_.id \in Nat
      /\ u.packet_.len \in Nat /\ arrived = [arrived EXCEPT ![s] = n]
  BY SocketFacts
<1>2. u.life = "live" /\ UNCHANGED <<pcbs, use, arrived>>
  BY DEF parsePacket, Live
<1>v. PICK v : v = IF empty(r) THEN [u EXCEPT !.packetPos_ = -1]
                 ELSE [u EXCEPT !.inBuf_ = get(r), !.packet_ = Oldest(r), !.packetPos_ = 0]
  OBVIOUS
<1>3. udp' = [udp EXCEPT ![s] = v]
  BY <1>v, QInvTypes DEF parsePacket
<1>4. QueueOK(r, u.packet_.id, n)
  BY <1>1, <1>2 DEF SocketOK
<1>5. udp'[s] = v
  BY <1>3, QInvTypes
<1>6. CASE empty(r)
  <2>1. /\ v \in SocketT /\ v.life = "live" /\ v.inBuf_ = r /\ v.packet_ = u.packet_
        /\ v.packetPos_ = -1 /\ v.outPacket_ = u.outPacket_ /\ v.pcb_ = u.pcb_
    BY <1>1, <1>2, <1>6, <1>v DEF SocketT
  <2>2. SocketOK(v, n)
    BY <1>1, <1>2, <1>4, <2>1 DEF SocketOK
  <2>3. RingStep(s)
    BY <1>2, <1>5, <2>1 DEF RingStep
  <2> QED BY <1>1, <1>2, <1>3, <2>1, <2>2, <2>3, DataStep
<1>7. CASE ~empty(r)
  <2>1. Oldest(r) \in Packet /\ QueueOK(get(r), Oldest(r).id, n)
    BY <1>1, <1>4, <1>7, GetQueue
  <2>2. Oldest(r) \in [id : Nat, len : Nat] /\ Oldest(r).len \in Nat
    <3>1. ASSUME NEW x \in Packet PROVE x \in [id : Nat, len : Nat] /\ x.len \in Nat
      <4>1. x = [id |-> x.id, len |-> x.len] /\ x.id \in 1..MaxPackets /\ x.len \in Lens
        BY DEF Packet
      <4>2. x.id \in Nat /\ x.len \in Nat
        BY <4>1, UdpAssumption
      <4> QED BY <4>1, <4>2
    <3> QED BY <2>1, <3>1
  <2>3. get(r) \in RingT
    BY <2>1 DEF QueueOK, IsRing, RingT
  <2>4. /\ v \in SocketT /\ v.life = "live" /\ v.inBuf_ = get(r) /\ v.packet_ = Oldest(r)
        /\ v.packetPos_ = 0 /\ v.outPacket_ = u.outPacket_ /\ v.pcb_ = u.pcb_
    <3>1. v = Taken(u, get(r), Oldest(r))
      BY <1>7, <1>v DEF Taken
    <3>2. PICK k \in RingT, x \in [id : Nat, len : Nat] : k = get(r) /\ x = Oldest(r)
      BY <2>2, <2>3
    <3>3. v = Taken(u, k, x)
      BY <3>1, <3>2
    <3>4. /\ v \in SocketT /\ v.life = u.life /\ v.inBuf_ = k /\ v.packet_ = x
          /\ v.packetPos_ = 0 /\ v.outPacket_ = u.outPacket_ /\ v.pcb_ = u.pcb_
      BY <1>1, <3>3, TakenFacts
    <3> QED BY <1>2, <3>2, <3>4
  <2>5. SocketOK(v, n)
    BY <1>1, <1>2, <2>1, <2>2, <2>4 DEF SocketOK
  <2>6. RingStep(s)
    BY <1>2, <1>5, <1>7, <2>4 DEF RingStep
  <2> QED BY <1>1, <1>2, <1>3, <2>4, <2>5, <2>6, DataStep
<1> QED BY <1>6, <1>7

\* read(), write() and endPacket() move a position or a size.
LEMMA ReadStep ==
    ASSUME QInv, NEW s \in Sockets, NEW k \in 1..2, read(s, k)
    PROVE  StepOK
<1> PICK u : u = udp[s]
  OBVIOUS
<1> PICK n : n = arrived[s]
  OBVIOUS
<1>1. /\ u \in SocketT /\ n \in Nat /\ SocketOK(u, n) /\ u.packet_.len \in Nat
      /\ arrived = [arrived EXCEPT ![s] = n]
  BY SocketFacts
<1> PICK left : left = u.packet_.len - u.packetPos_
  OBVIOUS
<1> PICK x : x = u.packetPos_ + (IF k < left THEN k ELSE left)
  OBVIOUS
<1> PICK v : v = [u EXCEPT !.packetPos_ = x]
  OBVIOUS
<1>2. /\ u.life = "live" /\ UNCHANGED <<pcbs, use, arrived>>
      /\ u.packetPos_ \in 0..(u.packet_.len - 1)
  BY DEF read, Live, isAvailable
<1>3. udp' = [udp EXCEPT ![s] = v]
  BY QInvTypes DEF read
<1>4. x \in 0..u.packet_.len
  BY <1>1, <1>2
<1>5. /\ v \in SocketT /\ v.life = "live" /\ v.inBuf_ = u.inBuf_ /\ v.packet_ = u.packet_
      /\ v.packetPos_ = x /\ v.outPacket_ = u.outPacket_ /\ v.pcb_ = u.pcb_
  BY <1>1, <1>2, <1>4 DEF SocketT
<1>6. SocketOK(v, n)
  BY <1>1, <1>2, <1>4, <1>5 DEF SocketOK
<1>7. udp'[s] = v
  BY <1>3, QInvTypes
<1>8. RingStep(s)
  BY <1>2, <1>5, <1>7 DEF RingStep
<1> QED BY <1>1, <1>2, <1>3, <1>5, <1>6, <1>8, DataStep

\* The steps that only change the packet being built.
LEMMA OutStep ==
    ASSUME QInv, NEW s \in Sockets, Live(s), NEW x \in (0..MaxPayload) \cup {NULL},
           udp' = [udp EXCEPT ![s] = [udp[s] EXCEPT !.outPacket_ = x]],
           UNCHANGED <<pcbs, use, arrived>>
    PROVE  StepOK
<1> PICK u : u = udp[s]
  OBVIOUS
<1> PICK n : n = arrived[s]
  OBVIOUS
<1>1. /\ u \in SocketT /\ n \in Nat /\ SocketOK(u, n) /\ arrived = [arrived EXCEPT ![s] = n]
  BY SocketFacts
<1> PICK v : v = [u EXCEPT !.outPacket_ = x]
  OBVIOUS
<1>2. x \in Nat \cup {NULL}
  BY UdpAssumption
<1>3. /\ v \in SocketT /\ v.life = "live" /\ v.inBuf_ = u.inBuf_ /\ v.packet_ = u.packet_
      /\ v.packetPos_ = u.packetPos_ /\ v.outPacket_ = x /\ v.pcb_ = u.pcb_ /\ u.life = "live"
  BY <1>1, <1>2 DEF SocketT, Live
<1>4. SocketOK(v, n)
  BY <1>1, <1>3 DEF SocketOK
<1>5. udp'[s] = v
  BY QInvTypes
<1>6. RingStep(s)
  BY <1>3, <1>5 DEF RingStep
<1> QED BY <1>1, <1>3, <1>4, <1>6, DataStep

\* write() adds no more than fits.
LEMMA WriteStep ==
    ASSUME QInv, NEW s \in Sockets, NEW k \in 1..2, write(s, k)
    PROVE  StepOK
<1> PICK x : x = udp[s].outPacket_
  OBVIOUS
<1>1. Live(s) /\ x # NULL /\ UNCHANGED <<pcbs, use, arrived>>
  BY DEF write
<1>2. x \in 0..MaxPayload
  BY <1>1, SocketFacts DEF SocketOK
<1>3. x + Room(x, k) \in 0..MaxPayload
  BY <1>2, UdpAssumption DEF Room
<1>4. udp' = [udp EXCEPT ![s] = [udp[s] EXCEPT !.outPacket_ = x + Room(x, k)]]
  BY QInvTypes DEF write
<1> QED BY <1>1, <1>3, <1>4, OutStep

\* endPacket() forgets the packet.
LEMMA EndStep ==
    ASSUME QInv, NEW s \in Sockets, endPacket(s)
    PROVE  StepOK
<1>1. Live(s) /\ UNCHANGED <<pcbs, use, arrived>>
  BY DEF endPacket
<1>2. udp' = [udp EXCEPT ![s] = [udp[s] EXCEPT !.outPacket_ = NULL]]
  BY QInvTypes DEF endPacket
<1> QED BY <1>1, <1>2, OutStep

\* A packet arrives only for a socket that is there.
LEMMA RecvStep ==
    ASSUME QInv, NEW p \in Pcbs, NEW len \in Lens, recvFunc(p, len)
    PROVE  StepOK
<1>1. PICK s : s = pcbs[p].arg
  OBVIOUS
<1>2. s # NULL
  BY <1>1 DEF recvFunc
<1>3. s \in Sockets
  BY <1>1, <1>2, QInvTypes DEF PcbT
<1>4. udp[s].pcb_ = p
  BY <1>1, <1>2, QInvTypes DEF QInv, ArgsKnown
<1> PICK u : u = udp[s]
  OBVIOUS
<1> PICK n : n = arrived[s]
  OBVIOUS
<1> PICK r : r = u.inBuf_
  OBVIOUS
<1>5. /\ u \in SocketT /\ n \in Nat /\ SocketOK(u, n) /\ u.packet_.id \in Nat
      /\ arrived = [arrived EXCEPT ![s] = n]
  BY <1>3, SocketFacts
<1>6. u.life = "live"
  <2>1. u.life # "none"
    BY <1>4, <1>5, UdpAssumption DEF SocketOK
  <2>2. u.life # "moved"
    <3>1. capacity(r) # 0
      BY <1>1 DEF recvFunc
    <3> QED BY <1>5, <3>1 DEF SocketOK, capacity
  <2> QED BY <1>5, <2>1, <2>2 DEF SocketT
<1>7. /\ n + 1 <= MaxPackets /\ UNCHANGED <<pcbs, use>> /\ arrived' = [arrived EXCEPT ![s] = n + 1]
  BY <1>1 DEF recvFunc
<1>8. PICK k : k = put(r, [id |-> n + 1, len |-> len])
  OBVIOUS
<1>9. QueueOK(r, u.packet_.id, n)
  BY <1>5, <1>6 DEF SocketOK
<1>10. QueueOK(k, u.packet_.id, n + 1)
  BY <1>5, <1>7, <1>8, <1>9, PutQueue
<1>11. k \in RingT
  BY <1>10 DEF QueueOK, IsRing, RingT
<1>12. PICK d \in Nat : d = IF full(r) THEN 1 ELSE 0
  OBVIOUS
<1>13. PICK v : v = [u EXCEPT !.inBuf_ = k, !.droppedReceiveCount_ = u.droppedReceiveCount_ + d,
                              !.totalReceiveCount_ = u.totalReceiveCount_ + 1]
  OBVIOUS
<1>14. udp' = [udp EXCEPT ![s] = v]
  <2>1. udp' = [udp EXCEPT ![s].inBuf_ = k, ![s].droppedReceiveCount_ = @ + d,
                           ![s].totalReceiveCount_ = @ + 1]
    BY <1>1, <1>8, <1>12 DEF recvFunc
  <2> QED BY <1>3, <1>13, <2>1, QInvTypes
<1>15. /\ v \in SocketT /\ v.life = "live" /\ v.inBuf_ = k /\ v.packet_ = u.packet_
       /\ v.packetPos_ = u.packetPos_ /\ v.outPacket_ = u.outPacket_ /\ v.pcb_ = u.pcb_
  <2>1. PICK x \in Nat, y \in Nat : /\ x = u.droppedReceiveCount_ + d
                                    /\ y = u.totalReceiveCount_ + 1
    BY <1>5 DEF SocketT
  <2>2. v = [u EXCEPT !.inBuf_ = k, !.droppedReceiveCount_ = x, !.totalReceiveCount_ = y]
    BY <1>13, <2>1
  <2>3. ASSUME NEW c \in SocketT, NEW j \in RingT PROVE [c EXCEPT !.inBuf_ = j] \in SocketT
    BY DEF SocketT
  <2>4. ASSUME NEW c \in SocketT
        PROVE  [c EXCEPT !.droppedReceiveCount_ = x, !.totalReceiveCount_ = y] \in SocketT
    BY DEF SocketT
  <2>5. PICK a \in SocketT : a = [u EXCEPT !.inBuf_ = k]
    BY <1>5, <1>11, <2>3
  <2>6. v = [a EXCEPT !.droppedReceiveCount_ = x, !.totalReceiveCount_ = y]
    BY <2>2, <2>5
  <2>7. v \in SocketT
    BY <2>4, <2>6
  <2>8. /\ v.life = u.life /\ v.inBuf_ = k /\ v.packet_ = u.packet_
        /\ v.packetPos_ = u.packetPos_ /\ v.outPacket_ = u.outPacket_ /\ v.pcb_ = u.pcb_
    BY <1>5, <2>2 DEF SocketT
  <2> QED BY <1>6, <2>7, <2>8
<1>16. SocketOK(v, n + 1)
  BY <1>5, <1>6, <1>10, <1>15 DEF SocketOK
<1>17. udp'[s] = v
  BY <1>3, <1>14, QInvTypes
<1>18. RingStep(s)
  BY <1>6, <1>7, <1>8, <1>15, <1>17 DEF RingStep
<1>19. PICK j \in Nat : j = n + 1
  BY <1>5
<1> QED BY <1>3, <1>7, <1>14, <1>15, <1>16, <1>18, <1>19, DataStep

\* A call whose last step replaces the socket's fields, but not its PCB.
LEMMA ReplaceStep ==
    ASSUME QInv, NEW s \in Sockets, NEW st, Keeps(Now, st, s),
           NEW v \in SocketT, v.pcb_ = st.udp[s].pcb_,
           udp' = [st.udp EXCEPT ![s] = v], pcbs' = st.pcbs, use' = st.use,
           NEW n \in Nat, arrived' = [arrived EXCEPT ![s] = n], SocketOK(v, n), RingStep(s)
    PROVE  StepOK
<1>1. st \in StateT /\ ArgsKnown(st) /\ OnlyControl(Now, st, s)
  BY DEF Keeps
<1>2. st.udp \in [Sockets -> SocketT] /\ st.pcbs \in [Pcbs -> PcbT] /\ st.use \in [Groups -> Nat]
  BY <1>1 DEF StateT
<1>3. udp \in [Sockets -> SocketT] /\ arrived \in [Sockets -> Nat] /\ Now.udp = udp
  BY QInvTypes
<1>4. udp' \in [Sockets -> SocketT] /\ arrived' \in [Sockets -> Nat]
  BY <1>2, <1>3
<1>5. Now' = [udp |-> udp', pcbs |-> st.pcbs, use |-> st.use]
  BY DEF Now
<1>6. Now' \in StateT /\ Now'.udp = udp' /\ Now'.pcbs = st.pcbs
  BY <1>2, <1>4, <1>5 DEF StateT
<1>7. \A t \in Sockets : udp'[t].pcb_ = st.udp[t].pcb_
  BY <1>2
<1>8. ArgsKnown(Now')
  <2> SUFFICES ASSUME NEW p \in Pcbs, st.pcbs[p].arg # NULL
               PROVE  udp'[st.pcbs[p].arg].pcb_ = p
    BY <1>6 DEF ArgsKnown
  <2>1. st.pcbs[p].arg \in Sockets
    BY <1>2 DEF PcbT
  <2>2. st.udp[st.pcbs[p].arg].pcb_ = p
    BY <1>1 DEF ArgsKnown
  <2> QED BY <1>7, <2>1, <2>2
<1>9. udp'[s] = v /\ arrived'[s] = n
  BY <1>2, <1>3
<1>10. \A t \in Sockets \ {s} : udp'[t] = udp[t] /\ arrived'[t] = arrived[t]
  BY <1>1, <1>2, <1>3 DEF OnlyControl
<1>11. \A t \in Sockets : SocketOK(udp[t], arrived[t])
  BY DEF QInv
<1>12. \A t \in Sockets : SocketOK(udp'[t], arrived'[t])
  BY <1>9, <1>10, <1>11
<1>13. QInv'
  BY <1>4, <1>6, <1>8, <1>12 DEF QInv
<1>14. \A t \in Sockets \ {s} : RingStep(t)
  BY <1>10 DEF RingStep
<1> QED BY <1>13, <1>14 DEF StepOK

\* The destructor.
LEMMA DestroyStep ==
    ASSUME QInv, NEW s \in Sockets, destroy(s)
    PROVE  StepOK
<1>1. PICK st : st = Stopped(Now, s)
  OBVIOUS
<1>2. Keeps(Now, st, s) /\ st.udp[s].pcb_ = NULL
  BY <1>1, StoppedKeeps DEF QInv
<1>3. st \in StateT /\ st.udp \in [Sockets -> SocketT]
  BY <1>2 DEF Keeps, StateT
<1>4. /\ udp' = [st.udp EXCEPT ![s] = NoSocket] /\ pcbs' = st.pcbs /\ use' = st.use
      /\ arrived' = [arrived EXCEPT ![s] = 0] /\ udp[s].life # "none"
  BY <1>1, <1>3 DEF destroy, Becomes, StateT
<1>5. NoSocket \in SocketT /\ NoSocket.life = "none" /\ NoSocket.pcb_ = NULL /\ SocketOK(NoSocket, 0)
  BY NoSocketFacts
<1>6. udp'[s] = NoSocket
  BY <1>3, <1>4
<1>7. RingStep(s)
  BY <1>4, <1>5, <1>6 DEF RingStep
<1>8. PICK v \in SocketT : v = NoSocket
  BY <1>5
<1>9. /\ v.pcb_ = st.udp[s].pcb_ /\ udp' = [st.udp EXCEPT ![s] = v] /\ SocketOK(v, 0)
  BY <1>2, <1>4, <1>5, <1>8
<1> QED BY <1>2, <1>4, <1>7, <1>9, ReplaceStep

\* beginPacket() may create a PCB.
LEMMA BeginPacketStep ==
    ASSUME QInv, NEW s \in Sockets, beginPacket(s)
    PROVE  StepOK
<1>1. PICK st \in WithPcb(Now, s) : Becomes([st EXCEPT !.udp[s].outPacket_ = 0])
  BY DEF beginPacket
<1>2. Keeps(Now, st, s)
  BY WithPcbKeeps DEF QInv
<1>3. st \in StateT /\ st.udp \in [Sockets -> SocketT] /\ OnlyControl(Now, st, s)
  BY <1>2 DEF Keeps, StateT
<1>4. PICK w \in SocketT : w = st.udp[s]
  BY <1>3
<1>5. PICK v : v = [w EXCEPT !.outPacket_ = 0]
  OBVIOUS
<1>6. /\ udp' = [st.udp EXCEPT ![s] = v] /\ pcbs' = st.pcbs /\ use' = st.use
  BY <1>1, <1>3, <1>4, <1>5 DEF Becomes, StateT
<1>7. Live(s) /\ UNCHANGED arrived
  BY DEF beginPacket
<1> PICK u : u = udp[s]
  OBVIOUS
<1> PICK n : n = arrived[s]
  OBVIOUS
<1>8. u \in SocketT /\ n \in Nat /\ SocketOK(u, n) /\ arrived = [arrived EXCEPT ![s] = n]
  BY SocketFacts
<1>9. SameData(w, u) /\ u.life = "live"
  BY <1>3, <1>4, <1>7, QInvTypes DEF OnlyControl, Live
<1>10. /\ v \in SocketT /\ v.life = "live" /\ v.inBuf_ = u.inBuf_ /\ v.packet_ = u.packet_
       /\ v.packetPos_ = u.packetPos_ /\ v.outPacket_ = 0 /\ v.pcb_ = w.pcb_
  BY <1>4, <1>5, <1>9 DEF SocketT, SameData
<1>11. SocketOK(v, n)
  BY <1>8, <1>9, <1>10, UdpAssumption DEF SocketOK
<1>12. udp'[s] = v
  BY <1>3, <1>6
<1>13. RingStep(s)
  BY <1>9, <1>10, <1>12 DEF RingStep
<1> QED BY <1>2, <1>4, <1>6, <1>7, <1>8, <1>10, <1>11, <1>13, ReplaceStep

\* The calls that change no data.
LEMMA CallSteps ==
    ASSUME QInv, NEW s \in Sockets,
           \/ stop(s) \/ send(s)
           \/ \E port \in Ports, reuse \in BOOLEAN : begin(s, port, reuse)
           \/ \E port \in Ports, reuse \in BOOLEAN, g \in Groups : beginMulticast(s, g, port, reuse)
    PROVE  StepOK
<1>1. Now \in StateT /\ ArgsKnown(Now)
  BY DEF QInv
<1>2. CASE stop(s)
  <2>1. Keeps(Now, Stopped(Now, s), s)
    BY <1>1, StoppedKeeps
  <2>2. Live(s) /\ Becomes(Stopped(Now, s)) /\ UNCHANGED arrived
    BY <1>2 DEF stop
  <2> QED BY <2>1, <2>2, ControlStep
<1>3. CASE send(s)
  <2>1. PICK st \in WithPcb(Now, s) : Becomes(st)
    BY <1>3 DEF send
  <2>2. Keeps(Now, st, s)
    BY <1>1, WithPcbKeeps
  <2>3. Live(s) /\ UNCHANGED arrived
    BY <1>3 DEF send
  <2> QED BY <2>1, <2>2, <2>3, ControlStep
<1>4. ASSUME NEW port \in Ports, NEW reuse \in BOOLEAN, begin(s, port, reuse)
      PROVE  StepOK
  <2>1. PICK st \in Begun(Now, s, port, reuse) : Becomes(st)
    BY <1>4 DEF begin
  <2>2. Keeps(Now, st, s)
    BY <1>1, BegunKeeps
  <2>3. Live(s) /\ UNCHANGED arrived
    BY <1>4 DEF begin
  <2> QED BY <2>1, <2>2, <2>3, ControlStep
<1>5. ASSUME NEW port \in Ports, NEW reuse \in BOOLEAN, NEW g \in Groups,
             beginMulticast(s, g, port, reuse)
      PROVE  StepOK
  <2>1. PICK st \in Begun(Now, s, port, reuse) :
           Becomes(st) \/ Becomes(Stopped(st, s)) \/ Becomes(Joined(st, s, g))
    BY <1>5 DEF beginMulticast, Joined
  <2>2. Keeps(Now, st, s)
    BY <1>1, BegunKeeps
  <2>3. st \in StateT /\ ArgsKnown(st)
    BY <2>2 DEF Keeps
  <2>4. Keeps(st, Stopped(st, s), s) /\ Keeps(st, Joined(st, s, g), s)
    BY <2>3, StoppedKeeps, JoinedKeeps
  <2>5. Keeps(Now, Stopped(st, s), s) /\ Keeps(Now, Joined(st, s, g), s)
    BY <2>2, <2>4, KeepsTwice, SMTT(40)
  <2>6. Live(s) /\ UNCHANGED arrived
    BY <1>5 DEF beginMulticast
  <2> QED BY <2>1, <2>2, <2>5, <2>6, ControlStep, SMTT(40)
<1> QED BY <1>2, <1>3, <1>4, <1>5

\* The move constructor: d has what s had, and s is left without elements.
MovedFrom(u) ==
    [u EXCEPT !.life = "moved", !.inBuf_ = [u.inBuf_ EXCEPT !.buf_ = <<>>],
              !.packet_ = [u.packet_ EXCEPT !.len = 0],
              !.outPacket_ = IF u.outPacket_ = NULL THEN NULL ELSE 0]

\* What is left in the object that was moved from.
LEMMA MovedFromFacts ==
    ASSUME NEW u \in SocketT
    PROVE  /\ MovedFrom(u) \in SocketT /\ MovedFrom(u).life = "moved"
           /\ MovedFrom(u).inBuf_.buf_ = <<>>
           /\ MovedFrom(u).outPacket_ = (IF u.outPacket_ = NULL THEN NULL ELSE 0)
           /\ MovedFrom(u).pcb_ = u.pcb_ /\ MovedFrom(u).listening_ = u.listening_
           /\ MovedFrom(u).listenReuse_ = u.listenReuse_
           /\ MovedFrom(u).multicastIP_ = u.multicastIP_
<1>1. u.inBuf_ \in RingT /\ u.packet_ \in [id : Nat, len : Nat]
  BY DEF SocketT
<1>2. PICK r \in RingT : r = [u.inBuf_ EXCEPT !.buf_ = <<>>] /\ r.buf_ = <<>>
  <2>1. <<>> \in Seq(Elem)
    OBVIOUS
  <2>2. ASSUME NEW a \in RingT, NEW b \in Seq(Elem)
        PROVE  [a EXCEPT !.buf_ = b] \in RingT /\ [a EXCEPT !.buf_ = b].buf_ = b
    BY DEF RingT
  <2>3. PICK b \in Seq(Elem) : b = <<>>
    BY <2>1
  <2>4. [u.inBuf_ EXCEPT !.buf_ = b] \in RingT /\ [u.inBuf_ EXCEPT !.buf_ = b].buf_ = b
    BY <1>1, <2>2
  <2> QED BY <2>3, <2>4
<1>3. PICK k \in [id : Nat, len : Nat] : k = [u.packet_ EXCEPT !.len = 0]
  BY <1>1
<1>4. PICK x \in Nat \cup {NULL} : x = IF u.outPacket_ = NULL THEN NULL ELSE 0
  OBVIOUS
<1>5. MovedFrom(u) = [u EXCEPT !.life = "moved", !.inBuf_ = r, !.packet_ = k, !.outPacket_ = x]
  BY <1>2, <1>3, <1>4 DEF MovedFrom
<1>6. PICK w : w = [u EXCEPT !.life = "moved", !.inBuf_ = r, !.packet_ = k, !.outPacket_ = x]
  OBVIOUS
<1>7. w \in SocketT
  <2>1. ASSUME NEW c \in SocketT PROVE [c EXCEPT !.life = "moved"] \in SocketT
    BY DEF SocketT
  <2>2. ASSUME NEW c \in SocketT PROVE [c EXCEPT !.inBuf_ = r] \in SocketT
    BY DEF SocketT
  <2>3. ASSUME NEW c \in SocketT PROVE [c EXCEPT !.packet_ = k] \in SocketT
    BY DEF SocketT
  <2>4. ASSUME NEW c \in SocketT PROVE [c EXCEPT !.outPacket_ = x] \in SocketT
    BY DEF SocketT
  <2>5. PICK a \in SocketT : a = [u EXCEPT !.life = "moved"]
    BY <2>1
  <2>6. PICK b \in SocketT : b = [a EXCEPT !.inBuf_ = r]
    BY <2>2
  <2>7. PICK c \in SocketT : c = [b EXCEPT !.packet_ = k]
    BY <2>3
  <2>8. [c EXCEPT !.outPacket_ = x] \in SocketT
    BY <2>4
  <2> QED BY <1>6, <2>5, <2>6, <2>7, <2>8
<1>8. /\ w.life = "moved" /\ w.inBuf_ = r /\ w.outPacket_ = x
      /\ w.pcb_ = u.pcb_ /\ w.listening_ = u.listening_ /\ w.listenReuse_ = u.listenReuse_
      /\ w.multicastIP_ = u.multicastIP_
  BY <1>6 DEF SocketT
<1> QED BY <1>2, <1>4, <1>5, <1>6, <1>7, <1>8

\* The sockets after a move.
LEMMA MovedSockets ==
    ASSUME QInv, NEW s \in Sockets, NEW d \in Sockets, move(s, d)
    PROVE  /\ s # d /\ Live(s) /\ udp[d].life = "none"
           /\ udp' \in [Sockets -> SocketT]
           /\ udp'[d] = udp[s] /\ udp'[s] = MovedFrom(udp[s])
           /\ \A t \in Sockets \ {s, d} : udp'[t] = udp[t]
           /\ arrived' = [arrived EXCEPT ![d] = arrived[s]]
           /\ UNCHANGED <<pcbs, use>>
           /\ MoveOpen \/ udp[s].pcb_ = NULL
<1>1. udp \in [Sockets -> SocketT]
  BY QInvTypes
<1>2. s # d /\ Live(s) /\ udp[d].life = "none"
  BY DEF move, Live
<1>3. udp' = [udp EXCEPT ![d] = udp[s],
                         ![s].life = "moved",
                         ![s].inBuf_.buf_ = <<>>,
                         ![s].packet_.len = 0,
                         ![s].outPacket_ = IF @ = NULL THEN NULL ELSE 0]
  BY DEF move
<1>4. udp'[s] = MovedFrom(udp[s])
  <2>1. PICK u \in SocketT : u = udp[s]
    BY <1>1
  <2>2. udp'[s] = [u EXCEPT !.life = "moved", !.inBuf_.buf_ = <<>>, !.packet_.len = 0,
                            !.outPacket_ = IF @ = NULL THEN NULL ELSE 0]
    BY <1>1, <1>2, <1>3, <2>1
  <2> QED BY <2>1, <2>2 DEF MovedFrom, SocketT
<1>5. MovedFrom(udp[s]) \in SocketT /\ udp[s] \in SocketT
  BY <1>1, MovedFromFacts
<1>6. /\ udp' \in [Sockets -> SocketT]
      /\ udp'[d] = udp[s] /\ udp'[s] = MovedFrom(udp[s])
      /\ \A t \in Sockets \ {s, d} : udp'[t] = udp[t]
  <2>1. udp'[d] = udp[s] /\ \A t \in Sockets \ {s, d} : udp'[t] = udp[t]
    BY <1>1, <1>2, <1>3
  <2>2. udp' = [t \in Sockets |-> udp'[t]]
    BY <1>1, <1>3, ZenonT(60)
  <2>3. \A t \in Sockets : udp'[t] \in SocketT
    BY <1>1, <1>4, <1>5, <2>1
  <2> QED BY <1>4, <2>1, <2>2, <2>3
<1> QED BY <1>2, <1>6 DEF move

\* The move: the queue and its history belong to d now.
LEMMA MoveStep ==
    ASSUME QInv, NEW s \in Sockets, NEW d \in Sockets, move(s, d)
    PROVE  StepOK
<1>1. /\ s # d /\ Live(s) /\ udp[d].life = "none"
      /\ udp' \in [Sockets -> SocketT]
      /\ udp'[d] = udp[s] /\ udp'[s] = MovedFrom(udp[s])
      /\ \A t \in Sockets \ {s, d} : udp'[t] = udp[t]
      /\ arrived' = [arrived EXCEPT ![d] = arrived[s]]
      /\ UNCHANGED <<pcbs, use>>
  BY MovedSockets
<1>2. /\ udp \in [Sockets -> SocketT] /\ pcbs \in [Pcbs -> PcbT] /\ use \in [Groups -> Nat]
      /\ arrived \in [Sockets -> Nat] /\ Now.udp = udp /\ Now.pcbs = pcbs
  BY QInvTypes
<1>3. PICK w : w = MovedFrom(udp[s])
  OBVIOUS
<1>4. /\ w.life = "moved" /\ w.inBuf_.buf_ = <<>> /\ w.pcb_ = udp[s].pcb_
      /\ w.outPacket_ = (IF udp[s].outPacket_ = NULL THEN NULL ELSE 0)
  BY <1>2, <1>3, MovedFromFacts
<1>5. \A t \in Sockets : SocketOK(udp[t], arrived[t])
  BY DEF QInv
<1>6. SocketOK(w, arrived[s])
  BY <1>4, UdpAssumption DEF SocketOK
<1>7. arrived' \in [Sockets -> Nat] /\ arrived'[d] = arrived[s]
      /\ \A t \in Sockets \ {d} : arrived'[t] = arrived[t]
  BY <1>1, <1>2
<1>8. ASSUME NEW t \in Sockets PROVE SocketOK(udp'[t], arrived'[t])
  <2>1. CASE t = s
    BY <1>1, <1>3, <1>6, <1>7, <2>1
  <2>2. CASE t = d
    BY <1>1, <1>5, <1>7, <2>2
  <2>3. CASE t # s /\ t # d
    BY <1>1, <1>5, <1>7, <2>3
  <2> QED BY <2>1, <2>2, <2>3
<1>9. Now' = [udp |-> udp', pcbs |-> pcbs, use |-> use]
  BY <1>1 DEF Now
<1>10. Now' \in StateT /\ Now'.udp = udp' /\ Now'.pcbs = pcbs
  BY <1>1, <1>2, <1>9 DEF StateT
<1>11. ArgsKnown(Now')
  <2> SUFFICES ASSUME NEW p \in Pcbs, pcbs[p].arg # NULL PROVE udp'[pcbs[p].arg].pcb_ = p
    BY <1>10 DEF ArgsKnown
  <2>1. PICK t \in Sockets : t = pcbs[p].arg
    BY <1>2 DEF PcbT
  <2>2. udp[t].pcb_ = p
    BY <1>2, <2>1 DEF QInv, ArgsKnown
  <2>3. udp[d].pcb_ = NULL
    BY <1>1, <1>5 DEF SocketOK
  <2>4. t # d
    BY <2>2, <2>3, UdpAssumption
  <2> QED BY <1>1, <1>3, <1>4, <2>1, <2>2, <2>4
<1>12. QInv'
  BY <1>7, <1>8, <1>10, <1>11 DEF QInv
<1>13. ASSUME NEW t \in Sockets PROVE RingStep(t)
  <2>1. CASE t = s
    BY <1>1, <1>3, <1>4, <2>1 DEF RingStep, Live
  <2>2. CASE t = d
    BY <1>1, <2>2 DEF RingStep, Live
  <2>3. CASE t # s /\ t # d
    BY <1>1, <2>3 DEF RingStep
  <2> QED BY <2>1, <2>2, <2>3
<1> QED BY <1>12, <1>13 DEF StepOK

\* Every step keeps the invariant, and does one of a few things to a queue.
LEMMA NextStep ==
    ASSUME QInv, Next
    PROVE  StepOK
<1>1. ASSUME NEW p \in Pcbs, NEW len \in Lens, recvFunc(p, len) PROVE StepOK
  BY <1>1, RecvStep
<1>2. ASSUME NEW s \in Sockets, Program(s) PROVE StepOK
  <2>1. CASE \E cap \in 0..MaxCapacity : construct(s, cap) \/ setReceiveQueueCapacity(s, cap)
    BY <2>1, ConstructStep, CapacityStep
  <2>2. CASE \E d \in Sockets : move(s, d)
    BY <2>2, MoveStep
  <2>3. CASE \E port \in Ports, reuse \in BOOLEAN :
                begin(s, port, reuse) \/ \E g \in Groups : beginMulticast(s, g, port, reuse)
    BY <2>3, CallSteps
  <2>4. CASE stop(s) \/ send(s)
    BY <2>4, CallSteps
  <2>5. CASE destroy(s)
    BY <2>5, DestroyStep
  <2>6. CASE parsePacket(s)
    BY <2>6, ParseStep
  <2>7. CASE \E n \in 1..2 : read(s, n)
    BY <2>7, ReadStep
  <2>8. CASE beginPacket(s)
    BY <2>8, BeginPacketStep
  <2>9. CASE \E n \in 1..2 : write(s, n)
    BY <2>9, WriteStep
  <2>10. CASE endPacket(s)
    BY <2>10, EndStep
  <2> QED BY <1>2, <2>1, <2>2, <2>3, <2>4, <2>5, <2>6, <2>7, <2>8, <2>9, <2>10 DEF Program
<1> QED BY <1>1, <1>2 DEF Next

\* No socket exists at the start.
LEMMA QInvInit == Init => QInv
<1> SUFFICES ASSUME Init PROVE QInv
  OBVIOUS
<1>1. /\ udp = [s \in Sockets |-> NoSocket] /\ pcbs = [p \in Pcbs |-> FreePcb]
      /\ use = [g \in Groups |-> 0] /\ arrived = [s \in Sockets |-> 0]
  BY DEF Init
<1>2. NoSocket \in SocketT /\ SocketOK(NoSocket, 0)
  BY NoSocketFacts
<1>3. FreePcb \in PcbT /\ FreePcb.arg = NULL
  BY DEF FreePcb, PcbT
<1>4. udp \in [Sockets -> SocketT] /\ pcbs \in [Pcbs -> PcbT] /\ use \in [Groups -> Nat]
  BY <1>1, <1>2, <1>3
<1>5. Now \in StateT /\ Now.pcbs = pcbs
  BY <1>4 DEF Now, StateT
<1>6. ArgsKnown(Now)
  BY <1>1, <1>3, <1>5 DEF ArgsKnown
<1>7. arrived \in [Sockets -> Nat] /\ \A s \in Sockets : SocketOK(udp[s], arrived[s])
  BY <1>1, <1>2
<1> QED BY <1>5, <1>6, <1>7 DEF QInv

\* A step that changes nothing.
LEMMA QInvStutter ==
    ASSUME QInv, UNCHANGED vars
    PROVE  StepOK
<1>1. UNCHANGED <<udp, pcbs, use, arrived>>
  BY DEF vars
<1>2. Now' = Now
  BY <1>1 DEF Now
<1>3. QInv'
  BY <1>1, <1>2 DEF QInv
<1>4. \A s \in Sockets : RingStep(s)
  BY <1>1 DEF RingStep
<1> QED BY <1>3, <1>4 DEF StepOK

\* QInv is an invariant of every program's run, whether or not it moves sockets
\* that have a PCB (all the operations of QNEthernetUDP.cpp).
THEOREM QueueInvariance == Spec => []QInv
<1>1. QInv /\ [Next]_vars => QInv'
  BY NextStep, QInvStutter DEF StepOK
<1> QED BY QInvInit, <1>1, PTL DEF Spec

\* The receive queue of every socket is the newest of its packets not yet
\* parsed, in order, with any capacities and any number of packets
\* (recvFunc(), parsePacket(), setReceiveQueueCapacity(), the moves).
THEOREM QueueCorrect == Spec => []QueueIsNewest
<1>1. QInv => QueueIsNewest
  <2> SUFFICES ASSUME QInv, NEW s \in Sockets, Live(s)
               PROVE  LET q == Contents(udp[s].inBuf_)
                      IN  /\ \A i \in DOMAIN q : q[i].id = arrived[s] - Len(q) + i
                          /\ udp[s].packet_.id <= arrived[s] - Len(q)
    BY DEF QueueIsNewest
  <2>1. QueueOK(udp[s].inBuf_, udp[s].packet_.id, arrived[s])
    BY DEF QInv, SocketOK, Live
  <2> PICK q : q = Contents(udp[s].inBuf_)
    OBVIOUS
  <2>2. q \in Seq(Elem)
    BY <2>1, RingFacts DEF QueueOK
  <2>3. DOMAIN q = 1..Len(q)
    BY <2>2
  <2> QED BY <2>1, <2>3 DEF QueueOK
<1> QED BY QueueInvariance, <1>1, PTL

\* No index leaves its vector, no position its packet and no packet being built
\* the size of a datagram (put(), get(), read(), write()).
THEOREM TypeCorrect == Spec => []TypeOK
<1>1. QInv => TypeOK
  <2> SUFFICES ASSUME QInv PROVE TypeOK
    OBVIOUS
  <2>1. /\ udp \in [Sockets -> SocketT] /\ pcbs \in [Pcbs -> PcbT] /\ use \in [Groups -> Nat]
    BY QInvTypes
  <2>2. ASSUME NEW s \in Sockets
        PROVE  LET u == udp[s]
               IN  /\ u.life \in {"none", "live", "moved"}
                   /\ u.pcb_ \in Pcbs \cup {NULL}
                   /\ {u.listening_, u.listenReuse_} \subseteq BOOLEAN
                   /\ u.multicastIP_ \in Groups \cup {NULL}
                   /\ u.life # "moved" => RingOK(u.inBuf_)
                   /\ u.packetPos_ \in -1..u.packet_.len \/ u.life = "moved"
                   /\ u.outPacket_ \in (0..MaxPayload) \cup {NULL}
                   /\ u.droppedReceiveCount_ \in Nat /\ u.totalReceiveCount_ \in Nat
    <3> PICK u : u = udp[s]
      OBVIOUS
    <3>1. u \in SocketT /\ SocketOK(u, arrived[s])
      BY SocketFacts
    <3>2. /\ u.life \in {"none", "live", "moved"} /\ u.pcb_ \in Pcbs \cup {NULL}
          /\ u.listening_ \in BOOLEAN /\ u.listenReuse_ \in BOOLEAN
          /\ u.multicastIP_ \in Groups \cup {NULL}
          /\ u.droppedReceiveCount_ \in Nat /\ u.totalReceiveCount_ \in Nat
      BY <3>1 DEF SocketT
    <3>3. ASSUME u.life # "moved" PROVE RingOK(u.inBuf_)
      <4>1. IsRing(u.inBuf_, Elem)
        BY <3>1, <3>3 DEF SocketOK, QueueOK
      <4>2. u.inBuf_.head_ < capacity(u.inBuf_)
        BY <4>1, RingFacts
      <4> QED BY <4>1, <4>2 DEF IsRing, RingOK
    <3>4. /\ u.packetPos_ \in -1..u.packet_.len \/ u.life = "moved"
          /\ u.outPacket_ \in (0..MaxPayload) \cup {NULL}
      BY <3>1 DEF SocketOK
    <3> QED BY <3>2, <3>3, <3>4
  <2>3. \A p \in Pcbs : pcbs[p].arg \in Sockets \cup {NULL}
    BY <2>1 DEF PcbT
  <2> QED BY <2>1, <2>2, <2>3 DEF TypeOK
<1> QED BY QueueInvariance, <1>1, PTL

-----------------------------------------------------------------------------
(* The refinement.                                                         *)

\* The variables of DropOldestQueue.
AbsQueue == IF Live(TheSocket) THEN Contents(udp[TheSocket].inBuf_) ELSE <<>>
AbsCap   == IF Live(TheSocket) THEN capacity(udp[TheSocket].inBuf_) ELSE 1

\* Each thing that a step does to the ring is a step of the queue, or none.
LEMMA RefinementStep ==
    ASSUME QInv, QInv', RingStep(TheSocket)
    PROVE  [Queue!Next]_<<AbsQueue, AbsCap, Live(TheSocket)>>
<1>1. TheSocket \in Sockets
  BY UdpAssumption
<1> PICK u : u = udp[TheSocket]
  OBVIOUS
<1> PICK v : v = udp'[TheSocket]
  OBVIOUS
<1> PICK n : n = arrived[TheSocket]
  OBVIOUS
<1>2. n \in Nat /\ u.packet_.id \in Nat /\ SocketOK(u, n)
  BY <1>1, SocketFacts
<1>3. Live(TheSocket) = (u.life = "live") /\ Live(TheSocket)' = (v.life = "live")
  BY DEF Live
<1>4. /\ u.life = "live" => AbsQueue = Contents(u.inBuf_) /\ AbsCap = capacity(u.inBuf_)
      /\ u.life # "live" => AbsQueue = <<>> /\ AbsCap = 1
      /\ v.life = "live" => AbsQueue' = Contents(v.inBuf_) /\ AbsCap' = capacity(v.inBuf_)
      /\ v.life # "live" => AbsQueue' = <<>> /\ AbsCap' = 1
  BY DEF AbsQueue, AbsCap, Live
<1>5. 1 \in 1..(MaxCapacity + 1)
  BY UdpAssumption
<1>6. u.life = "live" => QueueOK(u.inBuf_, u.packet_.id, n)
  BY <1>2 DEF SocketOK
<1>7. CASE v.life = u.life /\ v.inBuf_ = u.inBuf_
  <2>1. AbsQueue' = AbsQueue /\ AbsCap' = AbsCap /\ Live(TheSocket)' = Live(TheSocket)
    BY <1>3, <1>4, <1>7
  <2> QED BY <2>1
<1>8. CASE u.life = "none" /\ v.life = "live" /\ \E c \in 0..MaxCapacity : v.inBuf_ = NewRing(c)
  <2>1. PICK c \in 0..MaxCapacity : v.inBuf_ = NewRing(c)
    BY <1>8
  <2>2. c \in Nat /\ Blank \in Elem
    BY UdpAssumption DEF Elem
  <2>3. Contents(v.inBuf_) = <<>> /\ capacity(v.inBuf_) = AtLeastOne(c)
    BY <2>1, <2>2, NewRingContents
  <2>4. AtLeastOne(c) \in 1..(MaxCapacity + 1)
    BY UdpAssumption DEF AtLeastOne
  <2>5. AbsQueue' = <<>> /\ AbsCap' \in 1..(MaxCapacity + 1)
    BY <1>4, <1>8, <2>3, <2>4
  <2>6. ~Live(TheSocket) /\ Live(TheSocket)'
    BY <1>3, <1>8
  <2>7. Queue!Create
    BY <2>5, <2>6 DEF Queue!Create, AbsQueue, AbsCap
  <2> QED BY <2>7 DEF Queue!Next
<1>9. CASE /\ u.life = "none" /\ v.life = "live"
           /\ \E t \in Sockets : Live(t) /\ v.inBuf_ = udp[t].inBuf_
  <2>1. PICK t \in Sockets : Live(t) /\ v.inBuf_ = udp[t].inBuf_
    BY <1>9
  <2>2. QueueOK(v.inBuf_, udp[t].packet_.id, arrived[t])
    BY <2>1 DEF QInv, SocketOK, Live
  <2> PICK q : q = Contents(v.inBuf_)
    OBVIOUS
  <2>3. q \in Seq(Elem) /\ Len(q) = v.inBuf_.size_ /\ Len(q) <= capacity(v.inBuf_)
    BY <2>2, RingFacts, SMTT(40) DEF QueueOK, IsRing
  <2>4. \A i \in 1..Len(q) : q[i] \in Packet
    BY <2>2 DEF QueueOK
  <2>5. q \in Seq(Packet)
    BY <2>3, <2>4
  <2>6. AbsQueue' = q /\ AbsCap' = capacity(v.inBuf_) /\ AbsCap' \in 1..(MaxCapacity + 1)
    BY <1>4, <1>9, <2>2 DEF QueueOK
  <2>7. AbsQueue' \in Seq(Packet) /\ Len(AbsQueue') <= AbsCap'
    BY <2>3, <2>5, <2>6
  <2>8. ~Live(TheSocket) /\ Live(TheSocket)'
    BY <1>3, <1>9
  <2>9. Queue!TakeOver
    BY <2>6, <2>7, <2>8 DEF Queue!TakeOver, AbsQueue, AbsCap
  <2> QED BY <2>9 DEF Queue!Next
<1>10. CASE u.life # "none" /\ v.life \in {"none", "moved"}
  <2>1. AbsQueue' = <<>> /\ AbsCap' = 1 /\ ~Live(TheSocket)'
    BY <1>3, <1>4, <1>10
  <2>2. CASE u.life = "live"
    <3>1. Queue!Destroy
      BY <1>3, <1>5, <2>1, <2>2 DEF Queue!Destroy, AbsQueue, AbsCap
    <3> QED BY <3>1 DEF Queue!Next
  <2>3. CASE u.life # "live"
    <3>1. AbsQueue' = AbsQueue /\ AbsCap' = AbsCap /\ Live(TheSocket)' = Live(TheSocket)
      BY <1>3, <1>4, <2>1, <2>3
    <3> QED BY <3>1
  <2> QED BY <2>2, <2>3
<1>11. CASE /\ u.life = "live" /\ v.life = "live" /\ n + 1 <= MaxPackets
            /\ \E len \in Lens : v.inBuf_ = put(u.inBuf_, [id |-> n + 1, len |-> len])
  <2>1. PICK len \in Lens : v.inBuf_ = put(u.inBuf_, [id |-> n + 1, len |-> len])
    BY <1>11
  <2>2. PICK x : x = [id |-> n + 1, len |-> len]
    OBVIOUS
  <2>3. x \in Packet
    BY <1>2, <1>11, <2>2, UdpAssumption DEF Packet
  <2>4. /\ capacity(v.inBuf_) = capacity(u.inBuf_)
        /\ Contents(v.inBuf_) = Newest(Append(Contents(u.inBuf_), x), capacity(u.inBuf_))
    BY <1>2, <1>6, <1>11, <2>1, <2>2, PutQueue
  <2>5. /\ AbsCap' = AbsCap /\ Live(TheSocket) /\ Live(TheSocket)' = Live(TheSocket)
        /\ AbsQueue' = Newest(Append(AbsQueue, x), AbsCap)
    BY <1>3, <1>4, <1>11, <2>4
  <2>6. AbsQueue' = Queue!Newest(Append(AbsQueue, x), AbsCap)
    BY <2>5 DEF Newest, Queue!Newest
  <2>7. Queue!Put
    BY <2>3, <2>5, <2>6 DEF Queue!Put, AbsQueue, AbsCap
  <2> QED BY <2>7 DEF Queue!Next
<1>12. CASE /\ u.life = "live" /\ v.life = "live"
            /\ \E c \in 0..MaxCapacity : v.inBuf_ = setCapacity(u.inBuf_, c)
  <2>1. PICK c \in 0..MaxCapacity : v.inBuf_ = setCapacity(u.inBuf_, c)
    BY <1>12
  <2>2. /\ capacity(v.inBuf_) = AtLeastOne(c) /\ AtLeastOne(c) \in 1..(MaxCapacity + 1)
        /\ Contents(v.inBuf_) = Newest(Contents(u.inBuf_), AtLeastOne(c))
    BY <1>2, <1>6, <1>12, <2>1, CapacityQueue
  <2>3. PICK k \in 1..(MaxCapacity + 1) : k = AtLeastOne(c)
    BY <2>2
  <2>4. /\ AbsCap' = k /\ Live(TheSocket) /\ Live(TheSocket)' = Live(TheSocket)
        /\ AbsQueue' = Newest(AbsQueue, k)
    BY <1>3, <1>4, <1>12, <2>2, <2>3
  <2>5. AbsQueue' = Queue!Newest(AbsQueue, k)
    BY <2>4 DEF Newest, Queue!Newest
  <2>6. Queue!SetCapacity
    BY <2>4, <2>5 DEF Queue!SetCapacity, AbsQueue, AbsCap
  <2> QED BY <2>6 DEF Queue!Next
<1>13. CASE /\ u.life = "live" /\ v.life = "live"
            /\ ~empty(u.inBuf_) /\ v.inBuf_ = get(u.inBuf_)
  <2>1. /\ capacity(v.inBuf_) = capacity(u.inBuf_) /\ Contents(u.inBuf_) # <<>>
        /\ Contents(v.inBuf_) = Tail(Contents(u.inBuf_))
    BY <1>2, <1>6, <1>13, GetQueue
  <2>2. /\ AbsCap' = AbsCap /\ Live(TheSocket) /\ Live(TheSocket)' = Live(TheSocket)
        /\ AbsQueue # <<>> /\ AbsQueue' = Tail(AbsQueue)
    BY <1>3, <1>4, <1>13, <2>1
  <2>3. Queue!Get
    BY <2>2 DEF Queue!Get, AbsQueue, AbsCap
  <2> QED BY <2>3 DEF Queue!Next
<1> QED BY <1>7, <1>8, <1>9, <1>10, <1>11, <1>12, <1>13 DEF RingStep

\* The receive queue of any socket, in the object that has it, implements the
\* bounded queue that drops its oldest element (CircularBuffer.h as
\* QNEthernetUDP.cpp uses it).
THEOREM QueueRefinement == Spec => QueueSpec
<1>1. Init => Queue!Init
  <2> SUFFICES ASSUME Init PROVE Queue!Init
    OBVIOUS
  <2>1. udp[TheSocket].life = "none"
    BY UdpAssumption, NoSocketFacts DEF Init
  <2>2. ~Live(TheSocket)
    BY <2>1 DEF Live
  <2>3. 1 \in 1..(MaxCapacity + 1)
    BY UdpAssumption
  <2> QED BY <2>2, <2>3 DEF Queue!Init
<1>2. QInv /\ QInv' /\ [Next]_vars => [Queue!Next]_<<AbsQueue, AbsCap, Live(TheSocket)>>
  <2> SUFFICES ASSUME QInv, QInv', [Next]_vars
               PROVE  [Queue!Next]_<<AbsQueue, AbsCap, Live(TheSocket)>>
    OBVIOUS
  <2>1. RingStep(TheSocket)
    BY NextStep, QInvStutter, UdpAssumption DEF StepOK
  <2> QED BY <2>1, RefinementStep
<1> QED BY QueueInvariance, <1>1, <1>2, PTL DEF Spec, QueueSpec, Queue!Spec, AbsQueue, AbsCap

-----------------------------------------------------------------------------
(* The second part: PCBs, ports and groups, in a program that moves no     *)
(* socket that has a PCB.                                                  *)

\* A socket without a PCB holds nothing.  A PCB that a socket has is allocated;
\* it is bound, calls back and allows reuse as the socket's fields say, or it
\* does none of this because the socket only sends.
Owns(s, u, pool) ==
    IF u.pcb_ = NULL
    THEN ~u.listening_ /\ ~u.listenReuse_ /\ u.multicastIP_ = NULL
    ELSE LET c == pool[u.pcb_]
         IN  /\ c.allocated
             /\ IF u.listening_
                THEN c.arg = s /\ c.port # NULL /\ c.reuse = u.listenReuse_
                ELSE /\ c.arg = NULL /\ c.port = NULL /\ ~c.reuse
                     /\ ~u.listenReuse_ /\ u.multicastIP_ = NULL

Holders(st, g) == {s \in Sockets : st.udp[s].multicastIP_ = g}

\* The second inductive invariant, as a predicate on the state that the calls
\* pass through.  Ports are compared between PCBs, as udp_bind() does.
Distinct(st) ==
    \A s, t \in Sockets :
        s # t /\ st.udp[s].pcb_ # NULL => st.udp[s].pcb_ # st.udp[t].pcb_
NoLeak(st) ==
    \A p \in Pcbs : st.pcbs[p].allocated => \E s \in Sockets : st.udp[s].pcb_ = p
Exclusive(st) ==
    \A p, q \in Pcbs :
        /\ p # q /\ st.pcbs[p].allocated /\ st.pcbs[q].allocated
        /\ st.pcbs[p].port # NULL /\ st.pcbs[p].port = st.pcbs[q].port
        => st.pcbs[p].reuse /\ st.pcbs[q].reuse
Held(st) == \A g \in Groups : st.use[g] >= Cardinality(Holders(st, g))

Good(st) ==
    /\ \A s \in Sockets : Owns(s, st.udp[s], st.pcbs)
    /\ Distinct(st) /\ NoLeak(st) /\ Exclusive(st) /\ Held(st)

\* The fields that Good is about.
SameOwner(u, v) ==
    /\ u.pcb_ = v.pcb_ /\ u.listening_ = v.listening_
    /\ u.listenReuse_ = v.listenReuse_ /\ u.multicastIP_ = v.multicastIP_

\* Steps that touch none of them.
LEMMA GoodSame ==
    ASSUME NEW a, Good(a), NEW b, b.pcbs = a.pcbs, b.use = a.use,
           \A s \in Sockets : SameOwner(b.udp[s], a.udp[s])
    PROVE  Good(b)
<1>1. \A s \in Sockets : /\ b.udp[s].pcb_ = a.udp[s].pcb_
                         /\ b.udp[s].multicastIP_ = a.udp[s].multicastIP_
  BY DEF SameOwner
<1>2. ASSUME NEW s \in Sockets PROVE Owns(s, b.udp[s], b.pcbs)
  <2>1. Owns(s, a.udp[s], a.pcbs) /\ SameOwner(b.udp[s], a.udp[s])
    BY DEF Good
  <2> QED BY <2>1 DEF Owns, SameOwner
<1>3. Distinct(b)
  BY <1>1 DEF Good, Distinct
<1>4. NoLeak(b)
  BY <1>1 DEF Good, NoLeak
<1>5. Exclusive(b)
  BY DEF Good, Exclusive
<1>6. Held(b)
  <2>1. ASSUME NEW g \in Groups PROVE Holders(b, g) = Holders(a, g)
    BY <1>1 DEF Holders
  <2> QED BY <2>1 DEF Good, Held
<1> QED BY <1>2, <1>3, <1>4, <1>5, <1>6 DEF Good

\* One socket more or less in a finite set of them.
LEMMA HoldersFacts ==
    ASSUME NEW st, NEW g, NEW s \in Sockets
    PROVE  LET H == Holders(st, g)
           IN  /\ Cardinality(H) \in Nat
               /\ Cardinality(H \cup {s}) \in Nat /\ Cardinality(H \ {s}) \in Nat
               /\ Cardinality(H \cup {s}) <= Cardinality(H) + 1
               /\ Cardinality(H \ {s}) <= Cardinality(H)
               /\ s \in H => Cardinality(H \ {s}) = Cardinality(H) - 1
<1> PICK H : H = Holders(st, g)
  OBVIOUS
<1>1. H \subseteq Sockets /\ IsFiniteSet(Sockets)
  BY UdpAssumption DEF Holders
<1>2. IsFiniteSet(H) /\ Cardinality(H) \in Nat
  BY <1>1, FS_Subset, FS_CardinalityType
<1>3. /\ IsFiniteSet(H \cup {s})
      /\ Cardinality(H \cup {s}) = IF s \in H THEN Cardinality(H) ELSE Cardinality(H) + 1
  BY <1>2, FS_AddElement
<1>4. /\ IsFiniteSet(H \ {s})
      /\ Cardinality(H \ {s}) = IF s \in H THEN Cardinality(H) - 1 ELSE Cardinality(H)
  BY <1>2, FS_RemoveElement
<1>5. Cardinality(H \cup {s}) \in Nat /\ Cardinality(H \ {s}) \in Nat
  BY <1>3, <1>4, FS_CardinalityType
<1> QED BY <1>2, <1>3, <1>4, <1>5

\* A change of one socket's group, to h, with a use count that follows it.
LEMMA HeldStep ==
    ASSUME NEW a \in StateT, NEW b \in StateT, NEW s \in Sockets, Held(a),
           \A t \in Sockets \ {s} : b.udp[t].multicastIP_ = a.udp[t].multicastIP_,
           \A g \in Groups :
              \/ b.use[g] = a.use[g] + 1
              \/ b.use[g] = a.use[g]
                   /\ (b.udp[s].multicastIP_ = a.udp[s].multicastIP_ \/ b.udp[s].multicastIP_ # g)
              \/ a.udp[s].multicastIP_ = g /\ b.udp[s].multicastIP_ # g
                   /\ b.use[g] = IF a.use[g] = 0 THEN 0 ELSE a.use[g] - 1
    PROVE  Held(b)
<1> SUFFICES ASSUME NEW g \in Groups PROVE b.use[g] >= Cardinality(Holders(b, g))
  BY DEF Held
<1> PICK H : H = Holders(a, g)
  OBVIOUS
<1>1. a.use[g] \in Nat /\ a.use[g] >= Cardinality(H)
  BY DEF Held, StateT
<1>2. /\ Cardinality(H) \in Nat
      /\ Cardinality(H \cup {s}) \in Nat /\ Cardinality(H \ {s}) \in Nat
      /\ Cardinality(H \cup {s}) <= Cardinality(H) + 1
      /\ Cardinality(H \ {s}) <= Cardinality(H)
      /\ s \in H => Cardinality(H \ {s}) = Cardinality(H) - 1
  BY HoldersFacts
<1>3. CASE b.udp[s].multicastIP_ = g
  <2>1. Holders(b, g) = H \cup {s}
    BY <1>3 DEF Holders
  <2>2. CASE b.use[g] = a.use[g] + 1
    BY <1>1, <1>2, <2>1, <2>2
  <2>3. CASE b.use[g] = a.use[g] /\ b.udp[s].multicastIP_ = a.udp[s].multicastIP_
    <3>1. H \cup {s} = H
      BY <1>3, <2>3 DEF Holders
    <3> QED BY <1>1, <1>2, <2>1, <2>3, <3>1
  <2> QED BY <1>3, <2>2, <2>3
<1>4. CASE b.udp[s].multicastIP_ # g
  <2>1. Holders(b, g) = H \ {s}
    BY <1>4 DEF Holders
  <2>2. CASE b.use[g] = a.use[g] + 1 \/ b.use[g] = a.use[g]
    BY <1>1, <1>2, <2>1, <2>2
  <2>3. CASE a.udp[s].multicastIP_ = g /\ b.use[g] = IF a.use[g] = 0 THEN 0 ELSE a.use[g] - 1
    <3>1. s \in H
      BY <2>3 DEF Holders
    <3> QED BY <1>1, <1>2, <2>1, <2>3, <3>1
  <2> QED BY <2>2, <2>3
<1> QED BY <1>3, <1>4

\* What the PCBs of a good state are, seen from a socket that has one.
LEMMA OthersKeep ==
    ASSUME NEW a \in StateT, Good(a), NEW b \in StateT, NEW s \in Sockets,
           OnlyControl(a, b, s), NEW p \in Pcbs,
           a.udp[s].pcb_ = p \/ ~a.pcbs[p].allocated,
           \A q \in Pcbs \ {p} : b.pcbs[q] = a.pcbs[q]
    PROVE  \A t \in Sockets \ {s} : /\ a.udp[t].pcb_ # p /\ b.udp[t] = a.udp[t]
                                    /\ Owns(t, b.udp[t], b.pcbs)
<1> SUFFICES ASSUME NEW t \in Sockets, t # s
             PROVE  a.udp[t].pcb_ # p /\ b.udp[t] = a.udp[t] /\ Owns(t, b.udp[t], b.pcbs)
  OBVIOUS
<1>1. b.udp[t] = a.udp[t] /\ a.udp[t].pcb_ \in Pcbs \cup {NULL}
  BY DEF OnlyControl, StateT, SocketT
<1>2. Owns(t, a.udp[t], a.pcbs) /\ p # NULL
  BY UdpAssumption DEF Good
<1>3. a.udp[t].pcb_ # p
  <2>1. CASE a.udp[s].pcb_ = p
    BY <1>2, <2>1 DEF Good, Distinct
  <2>2. CASE ~a.pcbs[p].allocated
    BY <1>2, <2>2 DEF Owns
  <2> QED BY <2>1, <2>2
<1>4. Owns(t, a.udp[t], b.pcbs)
  BY <1>1, <1>2, <1>3 DEF Owns
<1> QED BY <1>1, <1>3, <1>4

\* stop() leaves a good state good.
LEMMA StoppedGood ==
    ASSUME NEW st \in StateT, Good(st), NEW s \in Sockets
    PROVE  LET new == Stopped(st, s)
           IN  /\ Good(new) /\ new \in StateT
               /\ new.udp[s].pcb_ = NULL /\ ~new.udp[s].listening_
<1>1. CASE st.udp[s].pcb_ = NULL
  <2>1. Owns(s, st.udp[s], st.pcbs)
    BY DEF Good
  <2> QED BY <1>1, <2>1 DEF Stopped, Owns
<1>2. CASE st.udp[s].pcb_ # NULL
  <2>n. PICK new : new = Stopped(st, s)
    OBVIOUS
  <2>p. PICK p : p = st.udp[s].pcb_
    OBVIOUS
  <2>1. /\ new \in StateT /\ OnlyControl(st, new, s)
        /\ new.udp[s].pcb_ = NULL /\ new.udp[s].listening_ = FALSE
        /\ new.udp[s].listenReuse_ = FALSE /\ new.udp[s].multicastIP_ = NULL
        /\ p \in Pcbs /\ new.pcbs[p] = FreePcb
        /\ \A q \in Pcbs \ {p} : new.pcbs[q] = st.pcbs[q]
        /\ new.use = IF st.udp[s].multicastIP_ = NULL THEN st.use
                     ELSE leaveGroup(st.use, st.udp[s].multicastIP_)
    BY <1>2, <2>n, <2>p, StoppedFacts
  <2>2. \A t \in Sockets \ {s} : /\ st.udp[t].pcb_ # p /\ new.udp[t] = st.udp[t]
                                 /\ Owns(t, new.udp[t], new.pcbs)
    BY <2>1, <2>p, OthersKeep
  <2>3. \A t \in Sockets : Owns(t, new.udp[t], new.pcbs)
    BY <2>1, <2>2 DEF Owns
  <2>4. Distinct(new)
    BY <2>1, <2>2 DEF Distinct, Good
  <2>5. ~new.pcbs[p].allocated
    BY <2>1 DEF FreePcb
  <2>6. NoLeak(new)
    BY <2>1, <2>2, <2>5, <2>p DEF NoLeak, Good
  <2>7. Exclusive(new)
    BY <2>1, <2>5 DEF Exclusive, Good
  <2>8. Held(new)
    <3> PICK h : h = st.udp[s].multicastIP_
      OBVIOUS
    <3>1. h \in Groups \cup {NULL} /\ st.use \in [Groups -> Nat] /\ NULL \notin Groups
      BY UdpAssumption DEF StateT, SocketT
    <3>2. ASSUME NEW g \in Groups
          PROVE  \/ new.use[g] = st.use[g] /\ new.udp[s].multicastIP_ # g
                 \/ /\ st.udp[s].multicastIP_ = g /\ new.udp[s].multicastIP_ # g
                    /\ new.use[g] = IF st.use[g] = 0 THEN 0 ELSE st.use[g] - 1
      BY <2>1, <3>1 DEF leaveGroup
    <3>3. Held(st) /\ \A t \in Sockets \ {s} : new.udp[t].multicastIP_ = st.udp[t].multicastIP_
      BY <2>2 DEF Good
    <3> QED BY <2>1, <3>2, <3>3, HeldStep
  <2> QED BY <2>1, <2>3, <2>4, <2>6, <2>7, <2>8, <2>n DEF Good
<1> QED BY <1>1, <1>2

\* udp_new() does, too: the new PCB is the socket's and nobody else's.
LEMMA WithPcbGood ==
    ASSUME NEW st \in StateT, Good(st), NEW s \in Sockets, NEW new \in WithPcb(st, s)
    PROVE  /\ Good(new) /\ new \in StateT /\ new.udp[s].pcb_ # NULL
           /\ new.udp[s].listening_ = st.udp[s].listening_
<1>1. CASE st.udp[s].pcb_ # NULL
  BY <1>1 DEF WithPcb
<1>2. CASE st.udp[s].pcb_ = NULL
  <2>1. PICK p \in Pcbs : ~st.pcbs[p].allocated /\ new = GivenPcb(st, s, p)
    BY <1>2 DEF WithPcb, GivenPcb
  <2>2. /\ new \in StateT /\ OnlyControl(st, new, s)
        /\ new.udp[s].pcb_ = p /\ new.udp[s].listening_ = st.udp[s].listening_
        /\ new.udp[s].listenReuse_ = st.udp[s].listenReuse_
        /\ new.udp[s].multicastIP_ = st.udp[s].multicastIP_
        /\ new.pcbs[p] = NewPcb
        /\ \A q \in Pcbs \ {p} : new.pcbs[q] = st.pcbs[q]
        /\ new.use = st.use
    BY <2>1, NewPcbFacts
  <2>3. \A t \in Sockets \ {s} : /\ st.udp[t].pcb_ # p /\ new.udp[t] = st.udp[t]
                                 /\ Owns(t, new.udp[t], new.pcbs)
    BY <2>1, <2>2, OthersKeep
  <2>4. Owns(s, st.udp[s], st.pcbs) /\ p # NULL
    BY UdpAssumption DEF Good
  <2>5. new.pcbs[p] = [allocated |-> TRUE, port |-> NULL, reuse |-> FALSE, arg |-> NULL]
    BY <2>2 DEF NewPcb, FreePcb
  <2>6. Owns(s, new.udp[s], new.pcbs)
    BY <1>2, <2>2, <2>4, <2>5 DEF Owns
  <2>7. \A t \in Sockets : Owns(t, new.udp[t], new.pcbs)
    BY <2>3, <2>6
  <2>8. Distinct(new)
    BY <2>2, <2>3 DEF Distinct, Good
  <2>9. NoLeak(new)
    BY <1>2, <2>2, <2>3, UdpAssumption DEF NoLeak, Good
  <2>10. Exclusive(new)
    BY <2>2, <2>5 DEF Exclusive, Good
  <2>11. Held(new)
    <3>1. \A t \in Sockets : new.udp[t].multicastIP_ = st.udp[t].multicastIP_
      BY <2>2, <2>3
    <3>2. Held(st)
      BY DEF Good
    <3> QED BY <2>2, <3>1, <3>2, HeldStep
  <2> QED BY <2>2, <2>4, <2>7, <2>8, <2>9, <2>10, <2>11 DEF Good
<1> QED BY <1>1, <1>2

\* begin() from the bind on, of a socket that does not listen: the port is
\* nobody's, or everybody who has it allows its reuse.
LEMMA BoundGood ==
    ASSUME NEW st \in StateT, Good(st), NEW s \in Sockets, NEW port \in Ports,
           NEW reuse \in BOOLEAN, st.udp[s].pcb_ # NULL, ~st.udp[s].listening_
    PROVE  Good(Bound(st, s, port, reuse)) /\ Bound(st, s, port, reuse) \in StateT
<1>n. PICK new : new = Bound(st, s, port, reuse)
  OBVIOUS
<1>p. PICK p : p = st.udp[s].pcb_
  BY SMTT(40)
<1>1. CASE PortInUse(st.pcbs, p, port, reuse)
  BY <1>1, <1>p, StoppedGood DEF Bound
<1>2. CASE ~PortInUse(st.pcbs, p, port, reuse)
  <2>1. IsBound(st, Bound(st, s, port, reuse), s, port, reuse)
    BY <1>2, <1>p, BoundFacts, SMTT(40)
  <2>2. /\ new \in StateT /\ OnlyControl(st, new, s)
        /\ new.udp[s].pcb_ = p /\ new.udp[s].listening_ = TRUE
        /\ new.udp[s].listenReuse_ = reuse
        /\ new.udp[s].multicastIP_ = st.udp[s].multicastIP_
        /\ p \in Pcbs
        /\ new.pcbs[p].allocated = st.pcbs[p].allocated /\ new.pcbs[p].port = port
        /\ st.pcbs[p].reuse = FALSE => new.pcbs[p].reuse = reuse
        /\ new.pcbs[p].arg = s
        /\ \A q \in Pcbs \ {p} : new.pcbs[q] = st.pcbs[q]
        /\ new.use = st.use
    BY <2>1, <1>n, <1>p DEF IsBound
  <2>3. /\ st.pcbs[p].allocated /\ ~st.pcbs[p].reuse /\ st.udp[s].multicastIP_ = NULL
        /\ st.pcbs[p].reuse \in BOOLEAN
    <3>1. Owns(s, st.udp[s], st.pcbs)
      BY DEF Good
    <3> QED BY <2>2, <3>1, <1>p DEF Owns, StateT, PcbT
  <2>4. new.pcbs[p].reuse = reuse /\ port # NULL
    BY <2>2, <2>3, UdpAssumption
  <2>5. \A t \in Sockets \ {s} : /\ st.udp[t].pcb_ # p /\ new.udp[t] = st.udp[t]
                                 /\ Owns(t, new.udp[t], new.pcbs)
    BY <2>2, <1>p, OthersKeep
  <2>6. Owns(s, new.udp[s], new.pcbs)
    BY <2>2, <2>3, <2>4, <1>p DEF Owns
  <2>7. \A t \in Sockets : Owns(t, new.udp[t], new.pcbs)
    BY <2>5, <2>6
  <2>8. Distinct(new)
    BY <2>2, <2>5 DEF Distinct, Good
  <2>9. NoLeak(new)
    <3>1. \A q \in Pcbs : new.pcbs[q].allocated => st.pcbs[q].allocated
      BY <2>2
    <3>2. \A t \in Sockets : new.udp[t].pcb_ = st.udp[t].pcb_
      BY <2>2, <2>5, <1>p
    <3> QED BY <3>1, <3>2 DEF NoLeak, Good
  <2>10. \A q \in Pcbs \ {p} :
            st.pcbs[q].allocated /\ st.pcbs[q].port = port => reuse /\ st.pcbs[q].reuse
    BY <1>2 DEF PortInUse
  <2>11. Exclusive(new)
    BY <2>2, <2>4, <2>10 DEF Exclusive, Good
  <2>12. Held(new)
    <3>1. \A t \in Sockets : new.udp[t].multicastIP_ = st.udp[t].multicastIP_
      BY <2>2, <2>5
    <3>2. Held(st)
      BY DEF Good
    <3> QED BY <2>2, <3>1, <3>2, HeldStep
  <2> QED BY <2>2, <2>7, <2>8, <2>9, <2>11, <2>12, <1>n DEF Good
<1> QED BY <1>1, <1>2

\* begin(), whichever way it ends.
LEMMA BegunGood ==
    ASSUME NEW st \in StateT, Good(st), NEW s \in Sockets, NEW port \in Ports,
           NEW reuse \in BOOLEAN, NEW new \in Begun(st, s, port, reuse)
    PROVE  Good(new) /\ new \in StateT
<1>1. CASE AlreadyListening(st, s, port, reuse)
  BY <1>1 DEF Begun
<1>2. CASE ~AlreadyListening(st, s, port, reuse)
  <2> DEFINE stopped == IF st.udp[s].listening_ THEN Stopped(st, s) ELSE st
  <2>1. Good(stopped) /\ stopped \in StateT /\ ~stopped.udp[s].listening_
    BY StoppedGood
  <2>2. new = stopped \/ \E r \in WithPcb(stopped, s) : new = Bound(r, s, port, reuse)
    BY <1>2 DEF Begun
  <2> HIDE DEF stopped
  <2>3. CASE new = stopped
    BY <2>1, <2>3
  <2>4. CASE \E r \in WithPcb(stopped, s) : new = Bound(r, s, port, reuse)
    <3>1. PICK r \in WithPcb(stopped, s) : new = Bound(r, s, port, reuse)
      BY <2>4
    <3>2. /\ Good(r) /\ r \in StateT /\ r.udp[s].pcb_ # NULL
          /\ r.udp[s].listening_ = stopped.udp[s].listening_
      BY <2>1, WithPcbGood
    <3>3. ~r.udp[s].listening_
      BY <2>1, <3>2
    <3> QED BY <3>1, <3>2, <3>3, BoundGood
  <2> QED BY <2>2, <2>3, <2>4
<1> QED BY <1>1, <1>2

\* joinGroup() of beginMulticast().  A socket that had joined another group
\* forgets it without leaving it: then its use count is too high, never too low.
LEMMA JoinedGood ==
    ASSUME NEW st \in StateT, Good(st), NEW s \in Sockets, NEW g \in Groups,
           st.udp[s].listening_ = TRUE
    PROVE  Good(Joined(st, s, g)) /\ Joined(st, s, g) \in StateT
<1>n. PICK new : new = Joined(st, s, g)
  OBVIOUS
<1>1. /\ new \in StateT /\ OnlyControl(st, new, s)
      /\ new.udp[s].pcb_ = st.udp[s].pcb_ /\ new.udp[s].listening_ = st.udp[s].listening_
      /\ new.udp[s].listenReuse_ = st.udp[s].listenReuse_
      /\ new.udp[s].multicastIP_ = g
      /\ new.pcbs = st.pcbs
  BY <1>n, JoinedFacts
<1>2. \A t \in Sockets \ {s} : new.udp[t] = st.udp[t]
  BY <1>1 DEF OnlyControl
<1>3. \A t \in Sockets : Owns(t, st.udp[t], st.pcbs) /\ new.udp[t].pcb_ = st.udp[t].pcb_
  BY <1>1, <1>2, SMTT(40) DEF Good
<1>4. Owns(s, new.udp[s], new.pcbs)
  <2>1. Owns(s, st.udp[s], st.pcbs)
    BY <1>3
  <2> QED BY <1>1, <2>1 DEF Owns
<1>5. \A t \in Sockets : Owns(t, new.udp[t], new.pcbs)
  BY <1>1, <1>2, <1>3, <1>4
<1>6. Distinct(new) /\ NoLeak(new) /\ Exclusive(new)
  <2>1. Distinct(new)
    BY <1>3 DEF Distinct, Good
  <2>2. NoLeak(new)
    BY <1>1, <1>3 DEF NoLeak, Good
  <2>3. Exclusive(new)
    BY <1>1 DEF Exclusive, Good
  <2> QED BY <2>1, <2>2, <2>3
<1>7. Held(new)
  <2>1. ASSUME NEW h \in Groups
        PROVE  \/ new.use[h] = st.use[h] + 1
               \/ new.use[h] = st.use[h] /\ new.udp[s].multicastIP_ # h
    <3>1. st.use \in [Groups -> Nat] /\ new.use = [st.use EXCEPT ![g] = st.use[g] + 1]
      BY <1>n DEF Joined, StateT
    <3>2. new.udp[s].multicastIP_ = g
      BY <1>1
    <3>3. CASE h = g
      <4>1. new.use[h] = st.use[h] + 1
        BY <3>1, <3>3
      <4> QED BY <4>1
    <3>4. CASE h # g
      BY <3>1, <3>2, <3>4
    <3> QED BY <3>3, <3>4
  <2>2. Held(st) /\ \A t \in Sockets \ {s} : new.udp[t].multicastIP_ = st.udp[t].multicastIP_
    BY <1>2 DEF Good
  <2> QED BY <1>1, <2>1, <2>2, HeldStep
<1> QED BY <1>1, <1>5, <1>6, <1>7, <1>n DEF Good

-----------------------------------------------------------------------------
(* The steps of a program that moves no socket with a PCB.                 *)

\* A step after which the sockets, the PCBs and the groups are as in st, but
\* for fields that Good does not speak of.
LEMMA GoodStep ==
    ASSUME NEW st, Good(st), pcbs' = st.pcbs, use' = st.use,
           \A s \in Sockets : SameOwner(udp'[s], st.udp[s])
    PROVE  Good(Now)'
<1>1. Now' = [udp |-> udp', pcbs |-> pcbs', use |-> use']
  BY DEF Now
<1>2. PICK b : b = Now'
  OBVIOUS
<1>3. b.pcbs = st.pcbs /\ b.use = st.use /\ \A s \in Sockets : SameOwner(b.udp[s], st.udp[s])
  BY <1>1, <1>2
<1>4. Good(b)
  BY <1>3, GoodSame
<1> QED BY <1>2, <1>4

\* begin(), beginMulticast(), stop() and send().
LEMMA CallsGood ==
    ASSUME QInv, Good(Now), NEW s \in Sockets,
           \/ stop(s) \/ send(s)
           \/ \E port \in Ports, reuse \in BOOLEAN : begin(s, port, reuse)
           \/ \E port \in Ports, reuse \in BOOLEAN, g \in Groups : beginMulticast(s, g, port, reuse)
    PROVE  Good(Now)'
<1>1. Now \in StateT
  BY DEF QInv
<1>2. ASSUME NEW st \in StateT, Good(st), Becomes(st) PROVE Good(Now)'
  BY <1>2, BecomesNow
<1>3. CASE stop(s)
  BY <1>1, <1>2, <1>3, StoppedGood DEF stop
<1>4. CASE send(s)
  <2>1. PICK st \in WithPcb(Now, s) : Becomes(st)
    BY <1>4 DEF send
  <2> QED BY <1>1, <1>2, <2>1, WithPcbGood
<1>5. ASSUME NEW port \in Ports, NEW reuse \in BOOLEAN, begin(s, port, reuse)
      PROVE  Good(Now)'
  <2>1. PICK st \in Begun(Now, s, port, reuse) : Becomes(st)
    BY <1>5 DEF begin
  <2> QED BY <1>1, <1>2, <2>1, BegunGood
<1>6. ASSUME NEW port \in Ports, NEW reuse \in BOOLEAN, NEW g \in Groups,
             beginMulticast(s, g, port, reuse)
      PROVE  Good(Now)'
  <2>1. PICK st \in Begun(Now, s, port, reuse) :
           \/ Becomes(st) \/ Becomes(Stopped(st, s))
           \/ st.udp[s].listening_ /\ Becomes(Joined(st, s, g))
    BY <1>6 DEF beginMulticast, Joined
  <2>2. Good(st) /\ st \in StateT
    BY <1>1, BegunGood
  <2>3. CASE Becomes(st)
    BY <1>2, <2>2, <2>3
  <2>4. CASE Becomes(Stopped(st, s))
    BY <1>2, <2>2, <2>4, StoppedGood
  <2>5. CASE st.udp[s].listening_ /\ Becomes(Joined(st, s, g))
    <3>1. st.udp[s].listening_ = TRUE
      BY <2>2, <2>5 DEF StateT, SocketT
    <3> QED BY <1>2, <2>2, <2>5, <3>1, JoinedGood
  <2> QED BY <2>1, <2>3, <2>4, <2>5, SMTT(40)
<1> QED BY <1>3, <1>4, <1>5, <1>6

\* The operations that change one socket, and none of the fields of SameOwner.
LEMMA OneGood ==
    ASSUME QInv, Good(Now), NEW s \in Sockets, NEW v, SameOwner(v, udp[s]),
           udp' = [udp EXCEPT ![s] = v], UNCHANGED <<pcbs, use>>
    PROVE  Good(Now)'
<1>1. udp \in [Sockets -> SocketT] /\ Now.udp = udp /\ Now.pcbs = pcbs /\ Now.use = use
  BY QInvTypes
<1>2. ASSUME NEW t \in Sockets PROVE SameOwner(udp'[t], Now.udp[t])
  <2>1. CASE t = s
    BY <1>1, <2>1
  <2>2. CASE t # s
    BY <1>1, <2>2 DEF SameOwner
  <2> QED BY <2>1, <2>2
<1>3. pcbs' = Now.pcbs /\ use' = Now.use
  BY <1>1
<1> QED BY <1>2, <1>3, GoodStep

\* The data of a socket: reception, the packet being read and the one being built.
LEMMA DataGood ==
    ASSUME QInv, Good(Now), NEW s \in Sockets,
           \/ \E cap \in 0..MaxCapacity : setReceiveQueueCapacity(s, cap)
           \/ parsePacket(s) \/ (\E n \in 1..2 : read(s, n))
           \/ (\E n \in 1..2 : write(s, n)) \/ endPacket(s)
    PROVE  Good(Now)'
<1>1. udp \in [Sockets -> SocketT] /\ udp[s] \in SocketT
  BY QInvTypes
<1>u. PICK u \in SocketT : u = udp[s]
  BY <1>1
<1>2. ASSUME NEW v, SameOwner(v, u), udp' = [udp EXCEPT ![s] = v], UNCHANGED <<pcbs, use>>
      PROVE  Good(Now)'
  BY <1>2, <1>u, OneGood
<1>3. ASSUME NEW k PROVE SameOwner([u EXCEPT !.inBuf_ = k], u)
  BY DEF SameOwner, SocketT
<1>4. ASSUME NEW k PROVE SameOwner([u EXCEPT !.packetPos_ = k], u)
  BY DEF SameOwner, SocketT
<1>5. ASSUME NEW k PROVE SameOwner([u EXCEPT !.outPacket_ = k], u)
  BY DEF SameOwner, SocketT
<1>6. ASSUME NEW k, NEW x PROVE SameOwner(Taken(u, k, x), u)
  BY DEF SameOwner, SocketT, Taken
<1>7. ASSUME NEW cap, setReceiveQueueCapacity(s, cap) PROVE Good(Now)'
  <2>1. /\ udp' = [udp EXCEPT ![s] = [u EXCEPT !.inBuf_ = setCapacity(u.inBuf_, cap)]]
        /\ UNCHANGED <<pcbs, use>>
    BY <1>1, <1>7, <1>u DEF setReceiveQueueCapacity
  <2> QED BY <1>2, <1>3, <2>1
<1>8. CASE parsePacket(s)
  <2>1. UNCHANGED <<pcbs, use>>
    BY <1>8 DEF parsePacket
  <2>2. CASE empty(u.inBuf_)
    <3>1. udp' = [udp EXCEPT ![s] = [u EXCEPT !.packetPos_ = -1]]
      BY <1>1, <1>8, <1>u, <2>2 DEF parsePacket
    <3> QED BY <1>2, <1>4, <2>1, <3>1
  <2>3. CASE ~empty(u.inBuf_)
    <3>1. udp' = [udp EXCEPT ![s] = Taken(u, get(u.inBuf_), Oldest(u.inBuf_))]
      BY <1>1, <1>8, <1>u, <2>3 DEF parsePacket, Taken
    <3> QED BY <1>2, <1>6, <2>1, <3>1
  <2> QED BY <2>2, <2>3
<1>9. ASSUME NEW n \in 1..2, read(s, n) PROVE Good(Now)'
  <2>1. UNCHANGED <<pcbs, use>>
    BY <1>9 DEF read
  <2>2. PICK k : udp' = [udp EXCEPT ![s] = [u EXCEPT !.packetPos_ = k]]
    BY <1>1, <1>9, <1>u DEF read
  <2> QED BY <1>2, <1>4, <2>1, <2>2
<1>10. ASSUME NEW n \in 1..2, write(s, n) PROVE Good(Now)'
  <2>1. UNCHANGED <<pcbs, use>>
    BY <1>10 DEF write
  <2>2. PICK k : udp' = [udp EXCEPT ![s] = [u EXCEPT !.outPacket_ = k]]
    BY <1>1, <1>10, <1>u DEF write
  <2> QED BY <1>2, <1>5, <2>1, <2>2
<1>11. CASE endPacket(s)
  <2>1. udp' = [udp EXCEPT ![s] = [u EXCEPT !.outPacket_ = NULL]] /\ UNCHANGED <<pcbs, use>>
    BY <1>1, <1>11, <1>u DEF endPacket
  <2> QED BY <1>2, <1>5, <2>1
<1> QED BY <1>7, <1>8, <1>9, <1>10, <1>11

\* recvFunc(), whose socket is the PCB's argument.
LEMMA RecvGood ==
    ASSUME QInv, Good(Now), NEW p \in Pcbs, NEW len \in Lens, recvFunc(p, len)
    PROVE  Good(Now)'
<1>1. udp \in [Sockets -> SocketT] /\ pcbs \in [Pcbs -> PcbT]
  BY QInvTypes
<1>2. PICK s \in Sockets : s = pcbs[p].arg
  BY <1>1 DEF recvFunc, PcbT
<1>u. PICK u \in SocketT : u = udp[s]
  BY <1>1
<1>3. UNCHANGED <<pcbs, use>>
  BY DEF recvFunc
<1>4. PICK k, d, n : udp' = [udp EXCEPT ![s] = [u EXCEPT !.inBuf_ = k, !.droppedReceiveCount_ = d,
                                                        !.totalReceiveCount_ = n]]
  <2> DEFINE ring == put(udp[s].inBuf_, [id |-> arrived[s] + 1, len |-> len])
             drop == udp[s].droppedReceiveCount_ + (IF full(udp[s].inBuf_) THEN 1 ELSE 0)
             total == udp[s].totalReceiveCount_ + 1
  <2>1. udp' = [udp EXCEPT ![s].inBuf_ = ring, ![s].droppedReceiveCount_ = drop,
                           ![s].totalReceiveCount_ = total]
    BY <1>2 DEF recvFunc
  <2> HIDE DEF ring, drop, total
  <2>2. udp' = [udp EXCEPT ![s] = [u EXCEPT !.inBuf_ = ring, !.droppedReceiveCount_ = drop,
                                            !.totalReceiveCount_ = total]]
    BY <1>1, <1>u, <2>1 DEF SocketT
  <2> QED BY <2>2
<1>v. PICK v : v = [u EXCEPT !.inBuf_ = k, !.droppedReceiveCount_ = d, !.totalReceiveCount_ = n]
  OBVIOUS
<1>5. SameOwner(v, u)
  BY <1>v DEF SameOwner, SocketT
<1>6. udp' = [udp EXCEPT ![s] = v]
  BY <1>4, <1>v
<1> QED BY <1>3, <1>5, <1>6, <1>u, OneGood

\* The constructor, the destructor and the move of a socket without a PCB:
\* what comes or goes holds nothing.
LEMMA LivesGood ==
    ASSUME ~MoveOpen, QInv, Good(Now), NEW s \in Sockets,
           \/ \E cap \in 0..MaxCapacity : construct(s, cap)
           \/ \E d \in Sockets : move(s, d)
           \/ destroy(s) \/ beginPacket(s)
    PROVE  Good(Now)'
<1>1. udp \in [Sockets -> SocketT] /\ Now \in StateT /\ Now.udp = udp /\ Now.pcbs = pcbs /\ Now.use = use
  BY QInvTypes DEF QInv
<1>2. ASSUME NEW t \in Sockets, NEW v, udp[t].pcb_ = NULL, v.pcb_ = NULL,
             v.listening_ = FALSE, v.listenReuse_ = FALSE, v.multicastIP_ = NULL
      PROVE  SameOwner(v, udp[t])
  <2>1. Owns(t, udp[t], pcbs) /\ udp[t].listening_ \in BOOLEAN /\ udp[t].listenReuse_ \in BOOLEAN
    BY <1>1 DEF Good, SocketT
  <2> QED BY <1>2, <2>1 DEF SameOwner, Owns
<1>3. ASSUME NEW cap \in 0..MaxCapacity, construct(s, cap) PROVE Good(Now)'
  <2>1. /\ udp' = [udp EXCEPT ![s] = NewSocket(cap)] /\ UNCHANGED <<pcbs, use>>
        /\ udp[s].pcb_ = NULL
    BY <1>3, SocketFacts DEF construct, SocketOK
  <2>2. cap \in 0..(MaxCapacity + 1)
    BY UdpAssumption
  <2>v. PICK v : v = NewSocket(cap)
    OBVIOUS
  <2>3. /\ v.pcb_ = NULL /\ v.multicastIP_ = NULL /\ v.listening_ = FALSE
        /\ v.listenReuse_ = FALSE
    BY <2>2, <2>v, NewSocketFacts
  <2>4. SameOwner(v, udp[s]) /\ udp' = [udp EXCEPT ![s] = v]
    BY <1>2, <2>1, <2>3, <2>v
  <2> QED BY <2>1, <2>4, OneGood
<1>4. ASSUME NEW d \in Sockets, move(s, d) PROVE Good(Now)'
  <2>1. /\ s # d /\ udp[d].life = "none"
        /\ udp'[d] = udp[s] /\ udp'[s] = MovedFrom(udp[s])
        /\ \A t \in Sockets \ {s, d} : udp'[t] = udp[t]
        /\ UNCHANGED <<pcbs, use>>
    BY <1>4, MovedSockets
  <2>2. udp[s].pcb_ = NULL /\ udp[d].pcb_ = NULL
    BY <1>4, <2>1, SocketFacts DEF move, SocketOK
  <2>3. Owns(s, udp[s], pcbs) /\ udp[s].listening_ \in BOOLEAN /\ udp[s].listenReuse_ \in BOOLEAN
    BY <1>1 DEF Good, SocketT
  <2>4. udp[s].listening_ = FALSE /\ udp[s].listenReuse_ = FALSE /\ udp[s].multicastIP_ = NULL
    BY <2>2, <2>3 DEF Owns
  <2>5. SameOwner(udp[s], udp[d])
    BY <1>2, <2>2, <2>4
  <2>6. SameOwner(MovedFrom(udp[s]), udp[s])
    BY <1>1 DEF SameOwner, MovedFrom, SocketT
  <2>7. ASSUME NEW t \in Sockets PROVE SameOwner(udp'[t], udp[t])
    <3>1. CASE t = s
      BY <2>1, <2>6, <3>1
    <3>2. CASE t = d
      BY <2>1, <2>5, <3>2
    <3>3. CASE t # s /\ t # d
      BY <2>1, <3>3 DEF SameOwner
    <3> QED BY <3>1, <3>2, <3>3
  <2> QED BY <1>1, <2>1, <2>7, GoodStep
<1>5. ASSUME NEW st \in StateT, Good(st), NEW v, SameOwner(v, st.udp[s]),
             udp' = [st.udp EXCEPT ![s] = v], pcbs' = st.pcbs, use' = st.use
      PROVE  Good(Now)'
  <2>1. st.udp \in [Sockets -> SocketT]
    BY DEF StateT
  <2>2. ASSUME NEW t \in Sockets PROVE SameOwner(udp'[t], st.udp[t])
    <3>1. CASE t = s
      BY <1>5, <2>1, <3>1
    <3>2. CASE t # s
      BY <1>5, <2>1, <3>2 DEF SameOwner
    <3> QED BY <3>1, <3>2
  <2> QED BY <1>5, <2>2, GoodStep
<1>6. CASE destroy(s)
  <2>1. PICK st : st = Stopped(Now, s)
    OBVIOUS
  <2>2. Good(st) /\ st \in StateT /\ st.udp[s].pcb_ = NULL
    BY <1>1, <2>1, StoppedGood
  <2>3. udp' = [st.udp EXCEPT ![s] = NoSocket] /\ pcbs' = st.pcbs /\ use' = st.use
    BY <1>6, <2>1, <2>2 DEF destroy, Becomes, StateT
  <2>4. Owns(s, st.udp[s], st.pcbs) /\ st.udp[s] \in SocketT
    BY <2>2 DEF Good, StateT
  <2>5. SameOwner(NoSocket, st.udp[s])
    BY <2>2, <2>4, NoSocketFacts DEF SameOwner, Owns, SocketT
  <2> QED BY <1>5, <2>2, <2>3, <2>5
<1>7. CASE beginPacket(s)
  <2>1. PICK st \in WithPcb(Now, s) : Becomes([st EXCEPT !.udp[s].outPacket_ = 0])
    BY <1>7 DEF beginPacket
  <2>2. Good(st) /\ st \in StateT
    BY <1>1, WithPcbGood
  <2>3. PICK w \in SocketT : w = st.udp[s]
    BY <2>2 DEF StateT
  <2>4. PICK v : v = [w EXCEPT !.outPacket_ = 0]
    OBVIOUS
  <2>5. udp' = [st.udp EXCEPT ![s] = v] /\ pcbs' = st.pcbs /\ use' = st.use
    BY <2>1, <2>2, <2>3, <2>4 DEF Becomes, StateT
  <2>6. SameOwner(v, st.udp[s])
    BY <2>3, <2>4 DEF SameOwner, SocketT
  <2> QED BY <1>5, <2>2, <2>5, <2>6
<1> QED BY <1>3, <1>4, <1>6, <1>7

\* Every step of such a program.
LEMMA GoodNext ==
    ASSUME ~MoveOpen, QInv, Good(Now), Next
    PROVE  Good(Now)'
<1>1. ASSUME NEW p \in Pcbs, NEW len \in Lens, recvFunc(p, len) PROVE Good(Now)'
  BY <1>1, RecvGood
<1>2. ASSUME NEW s \in Sockets, Program(s) PROVE Good(Now)'
  <2>1. CASE \E cap \in 0..MaxCapacity : construct(s, cap)
    BY <2>1, LivesGood
  <2>2. CASE \/ \E cap \in 0..MaxCapacity : setReceiveQueueCapacity(s, cap)
             \/ parsePacket(s) \/ (\E n \in 1..2 : read(s, n))
             \/ (\E n \in 1..2 : write(s, n)) \/ endPacket(s)
    BY <2>2, DataGood
  <2>3. CASE (\E d \in Sockets : move(s, d)) \/ destroy(s) \/ beginPacket(s)
    BY <2>3, LivesGood
  <2>4. CASE \E port \in Ports, reuse \in BOOLEAN :
                begin(s, port, reuse) \/ \E g \in Groups : beginMulticast(s, g, port, reuse)
    BY <2>4, CallsGood
  <2>5. CASE stop(s) \/ send(s)
    BY <2>5, CallsGood
  <2> QED BY <1>2, <2>1, <2>2, <2>3, <2>4, <2>5 DEF Program
<1> QED BY <1>1, <1>2 DEF Next

\* At the start no socket has a PCB, and no PCB is allocated.
LEMMA GoodInit == Init => Good(Now)
<1> SUFFICES ASSUME Init PROVE Good(Now)
  OBVIOUS
<1>1. /\ Now.udp = [s \in Sockets |-> NoSocket] /\ Now.pcbs = [p \in Pcbs |-> FreePcb]
      /\ Now.use = [g \in Groups |-> 0]
  BY DEF Init, Now
<1>2. /\ NoSocket.pcb_ = NULL /\ NoSocket.multicastIP_ = NULL
      /\ NoSocket.listening_ = FALSE /\ NoSocket.listenReuse_ = FALSE
  BY NoSocketFacts
<1>3. \A s \in Sockets : Owns(s, Now.udp[s], Now.pcbs)
  BY <1>1, <1>2 DEF Owns
<1>4. FreePcb.allocated = FALSE
  BY DEF FreePcb
<1>5. Distinct(Now) /\ NoLeak(Now) /\ Exclusive(Now)
  BY <1>1, <1>2, <1>4 DEF Distinct, NoLeak, Exclusive
<1>6. Held(Now)
  <2>1. ASSUME NEW g \in Groups PROVE Now.use[g] >= Cardinality(Holders(Now, g))
    <3>1. Holders(Now, g) = {} /\ Now.use[g] = 0
      BY <1>1, <1>2, UdpAssumption DEF Holders
    <3> QED BY <3>1, FS_EmptySet
  <2> QED BY <2>1 DEF Held
<1> QED BY <1>3, <1>5, <1>6 DEF Good

\* Good is an invariant of a program that moves no socket with a PCB.
THEOREM OwnershipInvariance == ~MoveOpen => (Spec => []Good(Now))
<1> SUFFICES ASSUME ~MoveOpen PROVE Spec => []Good(Now)
  OBVIOUS
<1>1. QInv /\ Good(Now) /\ [Next]_vars => Good(Now)'
  <2>1. ASSUME Good(Now), UNCHANGED vars PROVE Good(Now)'
    <3>1. Now' = Now
      BY <2>1 DEF vars, Now
    <3> QED BY <2>1, <3>1
  <2> QED BY <2>1, GoodNext
<1> QED BY QueueInvariance, GoodInit, <1>1, PTL DEF Spec

\* A socket's PCB is its own, is allocated and calls back for it exactly while
\* it listens, and no PCB leaks, on every path of begin(), beginMulticast(),
\* stop() and the destructor, with any pool.
THEOREM PcbsCorrect == ~MoveOpen => (Spec => []PcbsAreOwned)
<1>1. QInv /\ Good(Now) => PcbsAreOwned
  <2> SUFFICES ASSUME QInv, Good(Now) PROVE PcbsAreOwned
    OBVIOUS
  <2>1. Now.udp = udp /\ Now.pcbs = pcbs
    BY QInvTypes
  <2>2. ASSUME NEW s \in Sockets, udp[s].pcb_ # NULL
        PROVE  /\ pcbs[udp[s].pcb_].allocated
               /\ pcbs[udp[s].pcb_].arg = IF udp[s].listening_ THEN s ELSE NULL
               /\ \A t \in Sockets \ {s} : udp[t].pcb_ # udp[s].pcb_
    <3>1. Owns(s, udp[s], pcbs)
      BY <2>1 DEF Good
    <3>2. \A t \in Sockets \ {s} : udp[t].pcb_ # udp[s].pcb_
      BY <2>1, <2>2 DEF Good, Distinct
    <3> QED BY <2>2, <3>1, <3>2 DEF Owns
  <2>3. \A p \in Pcbs : pcbs[p].allocated => \E s \in Sockets : udp[s].pcb_ = p
    BY <2>1 DEF Good, NoLeak
  <2> QED BY <2>2, <2>3 DEF PcbsAreOwned
<1> QED BY QueueInvariance, OwnershipInvariance, <1>1, PTL

\* Two sockets listen on one port only if both asked for reuse (begin(),
\* udp_bind()).
THEOREM PortsCorrect == ~MoveOpen => (Spec => []PortsAreExclusive)
<1>1. QInv /\ Good(Now) => PortsAreExclusive
  <2> SUFFICES ASSUME QInv, Good(Now), NEW s \in Sockets, NEW t \in Sockets, s # t,
                      udp[s].listening_, udp[t].listening_,
                      pcbs[udp[s].pcb_].port = pcbs[udp[t].pcb_].port
               PROVE  udp[s].listenReuse_ /\ udp[t].listenReuse_
    BY DEF PortsAreExclusive
  <2>1. /\ Now.udp = udp /\ Now.pcbs = pcbs /\ udp \in [Sockets -> SocketT]
    BY QInvTypes
  <2>2. Owns(s, udp[s], pcbs) /\ Owns(t, udp[t], pcbs)
    BY <2>1 DEF Good
  <2>3. PICK p : p = udp[s].pcb_
    OBVIOUS
  <2>4. PICK q : q = udp[t].pcb_
    OBVIOUS
  <2>5. p \in Pcbs \cup {NULL} /\ q \in Pcbs \cup {NULL}
    BY <2>1, <2>3, <2>4 DEF SocketT
  <2>6. /\ p # NULL /\ pcbs[p].allocated /\ pcbs[p].port # NULL
        /\ pcbs[p].reuse = udp[s].listenReuse_
    BY <2>2, <2>3 DEF Owns
  <2>7. /\ q # NULL /\ pcbs[q].allocated /\ pcbs[q].reuse = udp[t].listenReuse_
    BY <2>2, <2>4 DEF Owns
  <2>8. p # q
    BY <2>1, <2>3, <2>4, <2>6 DEF Good, Distinct
  <2>9. pcbs[p].reuse /\ pcbs[q].reuse
    BY <2>1, <2>3, <2>4, <2>5, <2>6, <2>7, <2>8 DEF Good, Exclusive
  <2> QED BY <2>6, <2>7, <2>9
<1> QED BY QueueInvariance, OwnershipInvariance, <1>1, PTL

\* The interface stays a member of a group for as many uses as there are
\* sockets that listen on it, however many there are (beginMulticast(), stop()).
THEOREM GroupsCorrect == ~MoveOpen => (Spec => []GroupsAreHeld)
<1>1. QInv /\ Good(Now) => GroupsAreHeld
  <2> SUFFICES ASSUME QInv, Good(Now), NEW g \in Groups
               PROVE  use[g] >= Cardinality({s \in Sockets : udp[s].multicastIP_ = g})
    BY DEF GroupsAreHeld
  <2>1. Now.udp = udp /\ Now.use = use
    BY QInvTypes
  <2> QED BY <2>1 DEF Good, Held, Holders
<1> QED BY QueueInvariance, OwnershipInvariance, <1>1, PTL
=============================================================================

-------------------------- MODULE EthernetIfProofs --------------------------
(***************************************************************************)
(* Proofs about EthernetIf.                                                *)
(***************************************************************************)
EXTENDS EthernetIf, TLAPS

-----------------------------------------------------------------------------
(* The inductive invariant.                                                *)

Items == Joinable \cup Addresses
Bits  == {Hash[x] : x \in Items}
Hosts == {NULL} \cup [Slots -> Services \cup {NULL}]

Netif ==
    [added : BOOLEAN, up : BOOLEAN, link : BOOLEAN,
     ip : {"any", "static", "leased"},
     dhcp : {"off", "init", "selecting", "rebooting", "bound"},
     use : [Joinable -> Nat], reg : SUBSET Bits, collision : SUBSET Bits,
     host : Hosts]

EthObject ==
    [netif_ : BOOLEAN, mac_ : Macs, dhcpEnabled_ : BOOLEAN,
     dhcpDesired_ : BOOLEAN, dhcpActive_ : BOOLEAN]

TypeOK ==
    /\ eth \in EthObject
    /\ s_mac \in Macs \cup {NULL}
    /\ n \in Netif
    /\ mdns \in [s_netifAdded : BOOLEAN, slots_ : [Slots -> Services \cup {NULL}]]
    /\ phy \in BOOLEAN
    /\ driver \in [initialized : BOOLEAN, s_manualLinkState : BOOLEAN]
    /\ allowed \in SUBSET Addresses

\* Everything let in has its bit, and a bit that two of them share is marked.
Admits(m, as) ==
    /\ \A g \in Joinable : m.use[g] > 0 => Hash[g] \in m.reg
    /\ \A a \in as : Hash[a] \in m.reg
    /\ \A g, h \in Joinable :
         g # h /\ m.use[g] > 0 /\ m.use[h] > 0 /\ Hash[g] = Hash[h]
         => Hash[g] \in m.collision
    /\ \A a, b \in as : a # b /\ Hash[a] = Hash[b] => Hash[a] \in m.collision
    /\ \A g \in Joinable, a \in as :
         m.use[g] > 0 /\ Hash[g] = Hash[a] => Hash[g] \in m.collision

NoUse(m) == \A g \in Joinable : m.use[g] = 0

\* The object, the interface and s_mac are there together; without them all is
\* at rest.
InStep(e, mac, m) ==
    /\ e.netif_ <=> m.added
    /\ e.netif_ <=> mac # NULL
    /\ ~m.added => m.dhcp = "off" /\ m.host = NULL /\ NoUse(m)

\* A client that runs is known to run, and nothing asks for a client beside a static
\* address.
Flags(e, m) ==
    /\ m.dhcp # "off" => e.dhcpActive_
    /\ m.ip = "static" => m.dhcp = "off" /\ ~e.dhcpDesired_

\* What the flag says is so.
Truthful(e, m) == e.dhcpActive_ => m.dhcp # "off"

\* Below a service that is announced, slots_ has no service that is not.
NoStaleBelow ==
    n.host # NULL =>
        \A i, j \in Slots : i < j /\ n.host[j] # NULL /\ n.host[i] = NULL
                            => mdns.slots_[i] = NULL

Inv ==
    /\ TypeOK
    /\ Admits(n, allowed)
    /\ InStep(eth, s_mac, n)
    /\ ~n.added => allowed = {}
    /\ Flags(eth, n)
    /\ n.host # NULL => mdns.s_netifAdded
    /\ ServicesAreKnown
    /\ NoStaleBelow

-----------------------------------------------------------------------------
(* The filter and the groups.                                              *)

\* What the filter's operations leave alone.
SameButFilter(m, k) ==
    /\ k \in Netif
    /\ k.added = m.added /\ k.up = m.up /\ k.link = m.link
    /\ k.ip = m.ip /\ k.dhcp = m.dhcp /\ k.host = m.host

\* set_incoming_mac_address_allowed() sets the bit, or marks it.
LEMMA AllowBits ==
    ASSUME NEW m \in Netif, NEW x \in Items
    PROVE  LET k == allow(m, x)
           IN  /\ SameButFilter(m, k)
               /\ k.use = m.use
               /\ k.reg = m.reg \cup {Hash[x]}
               /\ m.collision \subseteq k.collision
               /\ Hash[x] \in m.reg => Hash[x] \in k.collision
<1>1. Hash[x] \in Bits
  BY DEF Bits
<1>2. CASE Hash[x] \in m.reg
  BY <1>1, <1>2 DEF allow, Netif, SameButFilter
<1>3. CASE Hash[x] \notin m.reg
  BY <1>1, <1>3 DEF allow, Netif, SameButFilter
<1> QED BY <1>2, <1>3

\* Letting an address in.
LEMMA AllowAdmits ==
    ASSUME NEW m \in Netif, NEW as \in SUBSET Addresses, NEW a \in Addresses,
           Admits(m, as)
    PROVE  /\ SameButFilter(m, allow(m, a))
           /\ allow(m, a).use = m.use
           /\ Admits(allow(m, a), as \cup {a})
<1> DEFINE k == allow(m, a)
<1>1. /\ SameButFilter(m, k)
      /\ k.use = m.use
      /\ k.reg = m.reg \cup {Hash[a]}
      /\ m.collision \subseteq k.collision
      /\ Hash[a] \in m.reg => Hash[a] \in k.collision
  BY AllowBits DEF Items
<1> HIDE DEF k
<1>2. /\ \A g \in Joinable : k.use[g] > 0 => Hash[g] \in k.reg
      /\ \A b \in as \cup {a} : Hash[b] \in k.reg
  BY <1>1 DEF Admits
<1>3. \A g, h \in Joinable :
         g # h /\ k.use[g] > 0 /\ k.use[h] > 0 /\ Hash[g] = Hash[h]
         => Hash[g] \in k.collision
  BY <1>1 DEF Admits
<1>4. \A b, c \in as \cup {a} : b # c /\ Hash[b] = Hash[c] => Hash[b] \in k.collision
  BY <1>1 DEF Admits
<1>5. \A g \in Joinable, b \in as \cup {a} :
         k.use[g] > 0 /\ Hash[g] = Hash[b] => Hash[g] \in k.collision
  BY <1>1 DEF Admits
<1>6. Admits(k, as \cup {a})
  BY <1>2, <1>3, <1>4, <1>5 DEF Admits
<1> QED BY <1>1, <1>6 DEF k

\* A group that is joined is let in, if it was not before.
LEMMA JoinAdmits ==
    ASSUME NEW m \in Netif, NEW as \in SUBSET Addresses, NEW g \in Joinable,
           Admits(m, as)
    PROVE  /\ SameButFilter(m, igmp_join(m, g))
           /\ Admits(igmp_join(m, g), as)
<1> DEFINE k == igmp_join(m, g)
           l == IF m.use[g] = 0 THEN allow(m, g) ELSE m
<1>1. /\ SameButFilter(m, l) /\ l.use = m.use
      /\ m.use[g] = 0 =>
           /\ l.reg = m.reg \cup {Hash[g]}
           /\ m.collision \subseteq l.collision
           /\ Hash[g] \in m.reg => Hash[g] \in l.collision
      /\ m.use[g] # 0 => l.reg = m.reg /\ l.collision = m.collision
  BY AllowBits DEF Items, SameButFilter
<1>2. k = [l EXCEPT !.use[g] = @ + 1]
  BY DEF igmp_join
<1> HIDE DEF k, l
<1>3. /\ SameButFilter(m, k)
      /\ k.use = [m.use EXCEPT ![g] = @ + 1]
      /\ k.reg = l.reg /\ k.collision = l.collision
  BY <1>1, <1>2 DEF SameButFilter, Netif
<1>4. \A h \in Joinable : k.use[h] > 0 => h = g \/ m.use[h] > 0
  BY <1>3 DEF Netif
<1>5. m.use[g] # 0 => m.use[g] > 0
  BY DEF Netif
<1>6. /\ m.reg \subseteq k.reg /\ m.collision \subseteq k.collision
      /\ Hash[g] \in k.reg
      /\ m.use[g] > 0 \/ (Hash[g] \in m.reg => Hash[g] \in k.collision)
  BY <1>1, <1>3, <1>5 DEF Admits
<1>7. /\ \A h \in Joinable : k.use[h] > 0 => Hash[h] \in k.reg
      /\ \A a \in as : Hash[a] \in k.reg
  BY <1>4, <1>6 DEF Admits
<1>8. \A x, h \in Joinable :
         x # h /\ k.use[x] > 0 /\ k.use[h] > 0 /\ Hash[x] = Hash[h]
         => Hash[x] \in k.collision
  BY <1>4, <1>6 DEF Admits
<1>9. \A a, b \in as : a # b /\ Hash[a] = Hash[b] => Hash[a] \in k.collision
  BY <1>6 DEF Admits
<1>10. \A h \in Joinable, a \in as :
         k.use[h] > 0 /\ Hash[h] = Hash[a] => Hash[h] \in k.collision
  BY <1>4, <1>6 DEF Admits
<1>11. Admits(k, as)
  BY <1>7, <1>8, <1>9, <1>10 DEF Admits
<1> QED BY <1>3, <1>11 DEF k

\* Taking an address out again.
LEMMA DisallowAdmits ==
    ASSUME NEW m \in Netif, NEW as \in SUBSET Addresses, NEW a \in as,
           Admits(m, as)
    PROVE  /\ SameButFilter(m, disallow(m, {a}))
           /\ disallow(m, {a}).use = m.use
           /\ Admits(disallow(m, {a}), as \ {a})
<1> DEFINE k == disallow(m, {a})
<1>1. /\ k.reg = m.reg \ ({Hash[a]} \ m.collision)
      /\ k.use = m.use /\ k.collision = m.collision
      /\ SameButFilter(m, k)
  BY DEF disallow, Netif, SameButFilter
<1> HIDE DEF k
<1>2. Admits(k, as \ {a})
  BY <1>1 DEF Admits
<1> QED BY <1>1, <1>2 DEF k

\* Leaving a group, for good or for one of its users.
LEMMA LeaveAdmits ==
    ASSUME NEW m \in Netif, NEW as \in SUBSET Addresses, NEW g \in Joinable,
           Admits(m, as)
    PROVE  /\ SameButFilter(m, igmp_leave(m, g))
           /\ Admits(igmp_leave(m, g), as)
<1> DEFINE k == igmp_leave(m, g)
<1>1. CASE m.use[g] = 0
  BY <1>1 DEF igmp_leave, SameButFilter
<1>2. CASE m.use[g] = 1
  <2> DEFINE d == disallow(m, {g})
  <2>1. /\ d.reg = m.reg \ ({Hash[g]} \ m.collision)
        /\ d.use = m.use /\ d.collision = m.collision
        /\ SameButFilter(m, d)
    BY DEF disallow, Netif, SameButFilter
  <2>2. k = [d EXCEPT !.use[g] = 0]
    BY <1>2 DEF igmp_leave
  <2> HIDE DEF k, d
  <2>3. /\ k.reg = m.reg \ ({Hash[g]} \ m.collision)
        /\ k.use = [m.use EXCEPT ![g] = 0] /\ k.collision = m.collision
        /\ SameButFilter(m, k)
    BY <2>1, <2>2 DEF Netif, SameButFilter
  <2>4. m.use[g] > 0 /\ \A h \in Joinable : k.use[h] > 0 => h # g /\ m.use[h] > 0
    BY <1>2, <2>3 DEF Netif
  <2>5. Admits(k, as)
    BY <2>3, <2>4 DEF Admits
  <2> QED BY <2>3, <2>5 DEF k
<1>3. CASE m.use[g] # 0 /\ m.use[g] # 1
  <2>1. /\ k.reg = m.reg
        /\ k.use = [m.use EXCEPT ![g] = @ - 1] /\ k.collision = m.collision
        /\ SameButFilter(m, k)
    BY <1>3 DEF igmp_leave, Netif, SameButFilter
  <2> HIDE DEF k
  <2>2. \A h \in Joinable : k.use[h] > 0 => m.use[h] > 0
    BY <1>3, <2>1 DEF Netif
  <2>3. Admits(k, as)
    BY <2>1, <2>2 DEF Admits
  <2> QED BY <2>1, <2>3 DEF k
<1> QED BY <1>1, <1>2, <1>3

\* Leaving all of them, in igmp_stop().
LEMMA StopAdmits ==
    ASSUME NEW m \in Netif, NEW as \in SUBSET Addresses, Admits(m, as)
    PROVE  /\ SameButFilter(m, igmp_stop(m))
           /\ NoUse(igmp_stop(m))
           /\ Admits(igmp_stop(m), as)
<1> DEFINE k == igmp_stop(m)
           G == {g \in Joinable : m.use[g] > 0}
<1>1. /\ k.reg = m.reg \ ({Hash[g] : g \in G} \ m.collision)
      /\ k.use = [g \in Joinable |-> 0] /\ k.collision = m.collision
      /\ SameButFilter(m, k)
  BY DEF igmp_stop, disallow, Netif, SameButFilter
<1> HIDE DEF k
<1>2. NoUse(k) /\ \A h \in Joinable : ~(k.use[h] > 0)
  BY <1>1 DEF NoUse
<1>3. \A a \in as : Hash[a] \in k.reg
  BY <1>1, ZenonT(60) DEF Admits
<1>4. Admits(k, as)
  BY <1>1, <1>2, <1>3 DEF Admits
<1> QED BY <1>1, <1>2, <1>4 DEF k

-----------------------------------------------------------------------------
(* Adding, removing and starting the interface.                            *)

Fresh(m) == m.ip = "any" /\ m.dhcp = "off" /\ m.host = NULL

\* netif_add() lets 224.0.0.1 in.
LEMMA NetifAdded ==
    ASSUME NEW m \in Netif, NEW as \in SUBSET Addresses, Admits(m, as)
    PROVE  /\ netif_add(m) \in Netif /\ netif_add(m).added
           /\ Fresh(netif_add(m))
           /\ Admits(netif_add(m), as)
<1> DEFINE k == [m EXCEPT !.added = TRUE, !.up = FALSE, !.link = FALSE,
                          !.ip = "any", !.dhcp = "off", !.host = NULL]
<1>1. /\ k \in Netif /\ k.added /\ Fresh(k)
      /\ k.use = m.use /\ k.reg = m.reg /\ k.collision = m.collision
  BY DEF Netif, Hosts, Fresh
<1>2. netif_add(m) = igmp_join(k, AllSystems)
  BY DEF netif_add
<1> HIDE DEF k
<1>3. Admits(k, as)
  BY <1>1 DEF Admits
<1>4. AllSystems \in Joinable
  BY DEF Joinable
<1>5. SameButFilter(k, netif_add(m)) /\ Admits(netif_add(m), as)
  BY <1>1, <1>2, <1>3, <1>4, JoinAdmits
<1> QED BY <1>1, <1>5 DEF SameButFilter, Fresh

\* remove_netif() leaves every group.
LEMMA NetifRemoved ==
    ASSUME NEW m \in Netif, NEW as \in SUBSET Addresses, Admits(m, as),
           ~m.added => NoUse(m)
    PROVE  LET k == remove_netif(m)
           IN  /\ k \in Netif /\ ~k.added /\ NoUse(k) /\ Admits(k, as)
               /\ k.ip = m.ip /\ k.dhcp = m.dhcp /\ k.host = m.host
<1>1. CASE m.added
  <2> DEFINE k == remove_netif(m)
             i == igmp_stop(m)
  <2>1. k = [i EXCEPT !.added = FALSE, !.up = FALSE]
    BY <1>1 DEF remove_netif
  <2>2. SameButFilter(m, i) /\ NoUse(i) /\ Admits(i, as)
    BY StopAdmits
  <2> HIDE DEF k, i
  <2>3. /\ k \in Netif /\ ~k.added
        /\ k.use = i.use /\ k.reg = i.reg /\ k.collision = i.collision
        /\ k.ip = m.ip /\ k.dhcp = m.dhcp /\ k.host = m.host
    BY <2>1, <2>2 DEF SameButFilter, Netif
  <2>4. NoUse(k) /\ Admits(k, as)
    BY <2>2, <2>3 DEF NoUse, Admits
  <2> QED BY <2>3, <2>4 DEF k
<1>2. CASE ~m.added
  BY <1>2 DEF remove_netif
<1> QED BY <1>1, <1>2

\* enet::init() keeps an interface that has the MAC address asked for already,
\* and puts a fresh one in the place of any other.
LEMMA NetifInit ==
    ASSUME NEW m \in Netif, NEW as \in SUBSET Addresses, NEW same \in BOOLEAN,
           Admits(m, as), ~m.added => NoUse(m)
    PROVE  LET k == enet_init(m, same)
           IN  /\ k \in Netif /\ k.added /\ Admits(k, as)
               /\ IF same /\ m.added THEN k = m ELSE Fresh(k)
<1>1. CASE same /\ m.added
  BY <1>1 DEF enet_init
<1>2. CASE same /\ ~m.added
  BY <1>2, NetifAdded DEF enet_init
<1>3. CASE ~same
  <2> DEFINE r == remove_netif(m)
  <2>1. r \in Netif /\ ~r.added /\ Admits(r, as)
    BY NetifRemoved
  <2>2. enet_init(m, same) = netif_add(r)
    BY <1>3, <2>1 DEF enet_init
  <2> HIDE DEF r
  <2> QED BY <1>3, <2>1, <2>2, NetifAdded
<1> QED BY <1>1, <1>2, <1>3

StateOK(st) == st \in [eth : EthObject, n : Netif]

\* start(): the object has an interface, which is the old one or a fresh one.
LEMMA Started ==
    ASSUME NEW st, StateOK(st), NEW as \in SUBSET Addresses,
           Admits(st.n, as), ~st.n.added => NoUse(st.n)
    PROVE  LET k == start(st)
           IN  /\ StateOK(k)
               /\ k.eth = [st.eth EXCEPT !.netif_ = TRUE]
               /\ k.n.added /\ Admits(k.n, as)
               /\ IF s_mac = st.eth.mac_ /\ st.n.added
                  THEN /\ k.n.ip = st.n.ip /\ k.n.dhcp = st.n.dhcp
                       /\ k.n.host = st.n.host
                  ELSE Fresh(k.n)
<1> DEFINE k == start(st)
           same == s_mac = st.eth.mac_
           down == IF st.eth.netif_ THEN netif_set_down(netif_set_link_down(st.n))
                   ELSE st.n
           i == enet_init(down, same)
<1>1. /\ down \in Netif
      /\ down.added = st.n.added /\ down.ip = st.n.ip /\ down.dhcp = st.n.dhcp
      /\ down.host = st.n.host /\ down.use = st.n.use
      /\ down.reg = st.n.reg /\ down.collision = st.n.collision
  BY DEF StateOK, Netif, netif_set_down, netif_set_link_down
<1>2. /\ k.eth = [st.eth EXCEPT !.netif_ = TRUE]
      /\ k.n = [i EXCEPT !.up = TRUE]
      /\ k = [eth |-> k.eth, n |-> k.n]
  BY DEF start, State, netif_set_up
<1> HIDE DEF down, k
<1>3. same \in BOOLEAN
  OBVIOUS
<1>4. Admits(down, as) /\ (~down.added => NoUse(down))
  BY <1>1 DEF Admits, NoUse
<1>5. /\ i \in Netif /\ i.added /\ Admits(i, as)
      /\ IF same /\ down.added THEN i = down ELSE Fresh(i)
  BY <1>1, <1>3, <1>4, NetifInit
<1> HIDE DEF i
<1>6. /\ k.n \in Netif /\ k.n.added
      /\ k.n.ip = i.ip /\ k.n.dhcp = i.dhcp /\ k.n.host = i.host
      /\ k.n.use = i.use /\ k.n.reg = i.reg /\ k.n.collision = i.collision
  BY <1>2, <1>5, ZenonT(60) DEF Netif
<1>7. Admits(k.n, as)
  BY <1>5, <1>6 DEF Admits
<1>8. StateOK(k)
  BY <1>2, <1>6 DEF StateOK, EthObject
<1> QED BY <1>1, <1>2, <1>5, <1>6, <1>7, <1>8 DEF k, Fresh

\* maybeStartDHCP() touches the client and two flags, and makes the flags right
\* where they may be wrong only in what it looks at.
LEMMA MaybeStarted ==
    ASSUME NEW st, StateOK(st), NEW ok \in BOOLEAN, NEW as \in SUBSET Addresses,
           Admits(st.n, as),
           st.n.dhcp # "off" => st.eth.dhcpActive_ /\ st.n.ip = "any"
    PROVE  LET k == maybeStartDHCP(st, ok)
           IN  /\ StateOK(k) /\ Flags(k.eth, k.n) /\ Admits(k.n, as)
               /\ k.eth.netif_ = st.eth.netif_ /\ k.eth.mac_ = st.eth.mac_
               /\ k.n.added = st.n.added /\ k.n.host = st.n.host
               /\ Truthful(st.eth, st.n) => Truthful(k.eth, k.n)
<1> DEFINE k == maybeStartDHCP(st, ok)
<1>1. CASE st.n.ip # "any"
  <2>1. k = [st EXCEPT !.eth.dhcpActive_ = FALSE, !.eth.dhcpDesired_ = FALSE]
    BY <1>1 DEF maybeStartDHCP
  <2> HIDE DEF k
  <2>2. /\ StateOK(k) /\ k.n = st.n /\ ~k.eth.dhcpActive_ /\ ~k.eth.dhcpDesired_
        /\ k.eth.netif_ = st.eth.netif_ /\ k.eth.mac_ = st.eth.mac_
    BY <2>1 DEF StateOK, EthObject
  <2>3. Flags(k.eth, k.n)
    BY <1>1, <2>2 DEF Flags, StateOK
  <2> QED BY <2>2, <2>3 DEF k, Truthful
<1>2. CASE st.n.ip = "any" /\ st.eth.dhcpEnabled_ /\ ~st.eth.dhcpActive_
  <2>1. k = [st EXCEPT !.n = dhcp_start(st.n, ok),
                       !.eth.dhcpActive_ = ok, !.eth.dhcpDesired_ = TRUE]
    BY <1>2 DEF maybeStartDHCP
  <2>2. PICK d \in {"off", "init", "selecting"} :
           dhcp_start(st.n, ok) = [st.n EXCEPT !.dhcp = d] /\ (d = "off" <=> ~ok)
    BY DEF dhcp_start
  <2> HIDE DEF k
  <2>3. /\ StateOK(k) /\ k.n = [st.n EXCEPT !.dhcp = d] /\ k.eth.dhcpActive_ = ok
        /\ k.eth.netif_ = st.eth.netif_ /\ k.eth.mac_ = st.eth.mac_
    BY <2>1, <2>2, ZenonT(60) DEF StateOK, EthObject, Netif
  <2>4. /\ k.n.added = st.n.added /\ k.n.host = st.n.host /\ k.n.ip = st.n.ip
        /\ k.n.use = st.n.use /\ k.n.reg = st.n.reg /\ k.n.collision = st.n.collision
        /\ k.n.dhcp = d
    BY <2>3 DEF StateOK, Netif
  <2>5. Flags(k.eth, k.n)
    BY <1>2, <2>2, <2>3, <2>4 DEF Flags
  <2>6. Admits(k.n, as)
    BY <2>4 DEF Admits
  <2>7. Truthful(k.eth, k.n)
    BY <2>2, <2>3, <2>4 DEF Truthful
  <2> QED BY <2>3, <2>4, <2>5, <2>6, <2>7 DEF k
<1>3. CASE st.n.ip = "any" /\ ~(st.eth.dhcpEnabled_ /\ ~st.eth.dhcpActive_)
  <2>1. k = st
    BY <1>3 DEF maybeStartDHCP
  <2> QED BY <1>3, <2>1 DEF Flags
<1> QED BY <1>1, <1>2, <1>3

-----------------------------------------------------------------------------
(* The calls that start the interface.                                     *)

\* What a call that starts the interface leaves behind it.
StartedOK(st) ==
    /\ StateOK(st) /\ st.eth.netif_ /\ st.n.added
    /\ Admits(st.n, allowed) /\ Flags(st.eth, st.n)
    /\ st.n.host \in {n.host, NULL}

\* Stopping the client.
LEMMA StoppedDHCP ==
    ASSUME NEW st, StateOK(st), NEW as \in SUBSET Addresses, Admits(st.n, as)
    PROVE  LET k == StopDHCP(st)
           IN  /\ StateOK(k) /\ Admits(k.n, as)
               /\ k.n.dhcp = "off" /\ k.n.added = st.n.added /\ k.n.host = st.n.host
               /\ k.n.ip \in {st.n.ip, "any"} /\ k.n.use = st.n.use
               /\ k.eth = [st.eth EXCEPT !.dhcpActive_ = FALSE]
<1> DEFINE k == StopDHCP(st)
           d == dhcp_release_and_stop(st.n)
<1>1. /\ d \in Netif /\ d.dhcp = "off" /\ d.added = st.n.added /\ d.host = st.n.host
      /\ d.ip \in {st.n.ip, "any"} /\ d.use = st.n.use
      /\ d.reg = st.n.reg /\ d.collision = st.n.collision
  BY DEF dhcp_release_and_stop, StateOK, Netif
<1>2. k = [st EXCEPT !.n = d, !.eth.dhcpActive_ = FALSE]
  BY DEF StopDHCP
<1> HIDE DEF k, d
<1>3. StateOK(k) /\ k.n = d /\ k.eth = [st.eth EXCEPT !.dhcpActive_ = FALSE]
  BY <1>1, <1>2 DEF StateOK, EthObject
<1>4. Admits(k.n, as)
  BY <1>1, <1>3 DEF Admits
<1> QED BY <1>1, <1>3, <1>4 DEF k

\* begin(), with the flags right whichever address is asked for.
LEMMA BegunOK ==
    ASSUME Inv, NEW mac \in Macs, NEW ip \in {"any", "static"}, NEW ok \in BOOLEAN
    PROVE  LET k == Begun(mac, ip, ok)
           IN  /\ StartedOK(k) /\ k.eth.mac_ = mac
               /\ Truthful(eth, n) /\ (eth.netif_ => mac = s_mac) => Truthful(k.eth, k.n)
<1> DEFINE st0 == State([eth EXCEPT !.mac_ = mac], n)
           st00 == IF StopForStatic(ip) THEN StopDHCP(st0) ELSE st0
           st1 == start(st00)
           st2 == [st1 EXCEPT !.n = netif_set_addr(st1.n, ip)]
           k == maybeStartDHCP(st2, ok)
<1>1. Begun(mac, ip, ok) = k
  BY DEF Begun
<1>2. /\ StateOK(st0) /\ st0.n = n /\ st0.eth = [eth EXCEPT !.mac_ = mac]
      /\ Admits(st0.n, allowed) /\ allowed \in SUBSET Addresses
  BY DEF State, StateOK, Inv, TypeOK, EthObject
<1> HIDE DEF st0
<1>3. /\ StateOK(st00) /\ Admits(st00.n, allowed)
      /\ st00.n.added = n.added /\ st00.n.host = n.host /\ st00.n.use = n.use
      /\ st00.eth.mac_ = mac /\ st00.eth.dhcpActive_ \in BOOLEAN
      /\ st00.n.dhcp # "off" => st00.eth.dhcpActive_ /\ ip # "static"
      /\ Truthful(eth, n) => Truthful(st00.eth, st00.n)
      /\ st00.n.dhcp \in {n.dhcp, "off"}
  <2>1. CASE StopForStatic(ip)
    <3>1. st00 = StopDHCP(st0)
      BY <2>1
    <3>2. /\ StateOK(st00) /\ Admits(st00.n, allowed)
          /\ st00.n.dhcp = "off" /\ st00.n.added = n.added /\ st00.n.host = n.host
          /\ st00.n.use = n.use
          /\ st00.eth = [st0.eth EXCEPT !.dhcpActive_ = FALSE]
      BY <1>2, <3>1, StoppedDHCP
    <3> HIDE DEF st00
    <3>3. st00.eth.mac_ = mac /\ st00.eth.dhcpActive_ = FALSE
      BY <1>2, <3>2 DEF Inv, TypeOK, EthObject
    <3> QED BY <3>2, <3>3 DEF Truthful
  <2>2. CASE ~StopForStatic(ip)
    <3>1. st00 = st0
      BY <2>2
    <3>2. st00.eth.mac_ = mac /\ st00.eth.dhcpActive_ = eth.dhcpActive_
      BY <1>2, <3>1 DEF Inv, TypeOK, EthObject
    <3>3. n.dhcp # "off" => eth.dhcpActive_ /\ ip # "static"
      BY <2>2 DEF StopForStatic, Inv, Flags, InStep
    <3> HIDE DEF st00
    <3> QED BY <1>2, <3>1, <3>2, <3>3 DEF Inv, TypeOK, EthObject, Truthful
  <2> QED BY <2>1, <2>2
<1> HIDE DEF st00
<1>4. ~st00.n.added => NoUse(st00.n)
  BY <1>3 DEF Inv, InStep, NoUse
<1>5. /\ StateOK(st1)
      /\ st1.eth = [st00.eth EXCEPT !.netif_ = TRUE]
      /\ st1.n.added /\ Admits(st1.n, allowed)
      /\ IF s_mac = mac /\ n.added
         THEN st1.n.dhcp = st00.n.dhcp /\ st1.n.host = n.host
         ELSE Fresh(st1.n)
  BY <1>2, <1>3, <1>4, Started
<1> HIDE DEF st1
<1>6. /\ st1.eth.netif_ /\ st1.eth.mac_ = mac
      /\ st1.eth.dhcpActive_ = st00.eth.dhcpActive_
  BY <1>3, <1>5 DEF StateOK, EthObject
<1>7. /\ StateOK(st2) /\ st2.eth = st1.eth /\ st2.n = [st1.n EXCEPT !.ip = ip]
  BY <1>5 DEF netif_set_addr, StateOK, Netif
<1> HIDE DEF st2
<1>8. /\ st2.n.ip = ip /\ st2.n.dhcp = st1.n.dhcp /\ st2.n.added = st1.n.added
      /\ st2.n.host = st1.n.host /\ st2.n.use = st1.n.use
      /\ st2.n.reg = st1.n.reg /\ st2.n.collision = st1.n.collision
  BY <1>5, <1>7 DEF StateOK, Netif
<1>9. Admits(st2.n, allowed)
  BY <1>5, <1>8 DEF Admits
<1>10. st2.n.dhcp # "off" => st2.eth.dhcpActive_ /\ st2.n.ip = "any"
  BY <1>3, <1>5, <1>6, <1>7, <1>8 DEF Fresh
<1>11. ASSUME Truthful(eth, n), eth.netif_ => mac = s_mac
       PROVE  Truthful(st2.eth, st2.n)
  <2>1. CASE n.added
    BY <1>3, <1>5, <1>6, <1>7, <1>8, <1>11, <2>1 DEF Inv, InStep, Truthful
  <2>2. CASE ~n.added
    <3>1. ~st00.eth.dhcpActive_
      BY <1>3, <1>11, <2>2 DEF Inv, InStep, Truthful
    <3> QED BY <1>6, <1>7, <3>1 DEF Truthful
  <2> QED BY <2>1, <2>2
<1>12. /\ StateOK(k) /\ Flags(k.eth, k.n) /\ Admits(k.n, allowed)
       /\ k.eth.netif_ = st2.eth.netif_ /\ k.eth.mac_ = st2.eth.mac_
       /\ k.n.added = st2.n.added /\ k.n.host = st2.n.host
       /\ Truthful(st2.eth, st2.n) => Truthful(k.eth, k.n)
  BY <1>2, <1>7, <1>9, <1>10, MaybeStarted
<1> HIDE DEF k
<1> QED BY <1>1, <1>5, <1>6, <1>7, <1>8, <1>11, <1>12 DEF StartedOK, Fresh

\* setMACAddress() on an interface that is there.
LEMMA MacSetOK ==
    ASSUME Inv, NEW mac \in Macs, NEW ok \in BOOLEAN, eth.netif_
    PROVE  LET st0 == State([eth EXCEPT !.mac_ = mac], n)
               st1 == start(IF eth.dhcpActive_ THEN StopDHCP(st0) ELSE st0)
               k == maybeStartDHCP(st1, ok)
           IN  StartedOK(k) /\ Truthful(k.eth, k.n)
<1> DEFINE st0 == State([eth EXCEPT !.mac_ = mac], n)
           st00 == IF eth.dhcpActive_ THEN StopDHCP(st0) ELSE st0
           st1 == start(st00)
           k == maybeStartDHCP(st1, ok)
<1>2. /\ StateOK(st0) /\ st0.n = n /\ st0.eth = [eth EXCEPT !.mac_ = mac]
      /\ Admits(st0.n, allowed) /\ allowed \in SUBSET Addresses
  BY DEF State, StateOK, Inv, TypeOK, EthObject
<1> HIDE DEF st0
<1>3. /\ StateOK(st00) /\ Admits(st00.n, allowed)
      /\ st00.n.added /\ st00.n.host = n.host
      /\ ~st00.eth.dhcpActive_ /\ st00.n.dhcp = "off"
  <2>1. CASE eth.dhcpActive_
    <3>1. st00 = StopDHCP(st0)
      BY <2>1
    <3> HIDE DEF st00
    <3>2. /\ StateOK(st00) /\ Admits(st00.n, allowed)
          /\ st00.n.dhcp = "off" /\ st00.n.added = n.added /\ st00.n.host = n.host
          /\ st00.n.use = n.use
          /\ st00.eth = [st0.eth EXCEPT !.dhcpActive_ = FALSE]
      BY <1>2, <3>1, StoppedDHCP
    <3>3. st00.eth.dhcpActive_ = FALSE
      BY <1>2, <3>2 DEF Inv, TypeOK, EthObject
    <3> QED BY <3>2, <3>3 DEF Inv, InStep
  <2>2. CASE ~eth.dhcpActive_
    <3>1. st00 = st0
      BY <2>2
    <3>2. st00.eth.dhcpActive_ = eth.dhcpActive_
      BY <1>2, <3>1 DEF Inv, TypeOK, EthObject
    <3> HIDE DEF st00
    <3> QED BY <1>2, <2>2, <3>1, <3>2 DEF Inv, InStep, Flags
  <2> QED BY <2>1, <2>2
<1> HIDE DEF st00
<1>5. /\ StateOK(st1)
      /\ st1.eth = [st00.eth EXCEPT !.netif_ = TRUE]
      /\ st1.n.added /\ Admits(st1.n, allowed)
      /\ st1.n.dhcp = "off" /\ st1.n.host \in {n.host, NULL}
  BY <1>2, <1>3, Started DEF Fresh
<1> HIDE DEF st1
<1>6. st1.eth.netif_ /\ ~st1.eth.dhcpActive_
  BY <1>3, <1>5 DEF StateOK, EthObject
<1>7. /\ StateOK(k) /\ Flags(k.eth, k.n) /\ Admits(k.n, allowed)
      /\ k.eth.netif_ = st1.eth.netif_
      /\ k.n.added = st1.n.added /\ k.n.host = st1.n.host
      /\ Truthful(k.eth, k.n)
  BY <1>2, <1>5, <1>6, MaybeStarted DEF Truthful
<1>8. StartedOK(k) /\ Truthful(k.eth, k.n)
  BY <1>5, <1>6, <1>7 DEF StartedOK
<1> QED BY <1>8 DEF st0, st00, st1

-----------------------------------------------------------------------------
(* Every step keeps the invariant.                                         *)

\* The responder's part of the invariant depends on the host and slots_ only.
Responder ==
    /\ n.host # NULL => mdns.s_netifAdded
    /\ ServicesAreKnown
    /\ NoStaleBelow

\* A host that stays, or goes, needs nothing of MDNSClass.
LEMMA ResponderKept ==
    ASSUME Inv, n'.host \in {n.host, NULL}, UNCHANGED mdns
    PROVE  Responder'
BY DEF Inv, Responder, ServicesAreKnown, NoStaleBelow

\* The invariant holds before the first begin().
LEMMA InitHolds == Init => Inv
<1> SUFFICES ASSUME Init PROVE Inv
  OBVIOUS
<1>1. NoNetif \in Netif /\ NoUse(NoNetif)
  BY DEF NoNetif, Netif, Hosts, NoUse
<1>2. TypeOK
  BY <1>1, EthAssumption DEF Init, TypeOK, EthObject, NoServices
<1>3. Admits(n, allowed)
  BY DEF Init, Admits, NoNetif
<1>4. InStep(eth, s_mac, n) /\ Flags(eth, n)
  BY <1>1 DEF Init, InStep, Flags, NoNetif
<1>5. n.host = NULL
  BY DEF Init, NoNetif
<1> QED BY <1>2, <1>3, <1>4, <1>5 DEF Inv, Init, ServicesAreKnown, NoStaleBelow

\* What begin() and setMACAddress() have in common.
LEMMA StartKeeps ==
    ASSUME Inv, NEW st, StartedOK(st), NEW mac \in Macs, NEW old \in Macs,
           eth' \in {st.eth, [st.eth EXCEPT !.mac_ = old]}, n' = st.n, s_mac' = mac,
           driver' \in [initialized : BOOLEAN, s_manualLinkState : BOOLEAN],
           UNCHANGED <<mdns, phy, allowed>>
    PROVE  Inv'
<1>1. /\ eth' \in EthObject /\ eth'.netif_
      /\ eth'.dhcpActive_ = st.eth.dhcpActive_ /\ eth'.dhcpDesired_ = st.eth.dhcpDesired_
  BY DEF StartedOK, StateOK, EthObject
<1>2. TypeOK'
  BY <1>1 DEF StartedOK, StateOK, Inv, TypeOK
<1>3. Admits(n, allowed)' /\ InStep(eth, s_mac, n)' /\ Flags(eth, n)'
  BY <1>1, EthAssumption DEF StartedOK, InStep, Flags, Admits
<1>4. Responder'
  BY ResponderKept DEF StartedOK
<1> QED BY <1>2, <1>3, <1>4 DEF Inv, Responder, StartedOK

\* begin().
LEMMA BeginKeeps ==
    ASSUME Inv, NEW ip \in {"any", "static"}, NEW ok \in BOOLEAN, begin(ip, ok)
    PROVE  Inv'
<1>1. eth.mac_ \in Macs
  BY DEF Inv, TypeOK, EthObject
<1>2. StartedOK(Begun(eth.mac_, ip, ok))
  BY <1>1, BegunOK DEF begin
<1>3. driver' \in [initialized : BOOLEAN, s_manualLinkState : BOOLEAN]
  BY DEF begin, Inv, TypeOK
<1> QED BY <1>1, <1>2, <1>3, StartKeeps DEF begin, Becomes

\* begin(mac, ...), which may give mac_ back.
LEMMA BeginMacKeeps ==
    ASSUME Inv, NEW mac \in Macs, NEW ip \in {"any", "static"}, NEW ok \in BOOLEAN,
           beginMac(mac, ip, ok)
    PROVE  Inv'
<1> DEFINE st == Begun(mac, ip, ok)
<1>1. eth.mac_ \in Macs
  BY DEF Inv, TypeOK, EthObject
<1>2. StartedOK(st)
  BY BegunOK DEF beginMac
<1>3. driver' \in [initialized : BOOLEAN, s_manualLinkState : BOOLEAN]
  BY DEF beginMac, Inv, TypeOK
<1>4. Becomes(IF Fails(ip, ok) THEN [st EXCEPT !.eth.mac_ = eth.mac_] ELSE st)
  BY DEF beginMac
<1> HIDE DEF st
<1>5. eth' \in {st.eth, [st.eth EXCEPT !.mac_ = eth.mac_]} /\ n' = st.n
  BY <1>2, <1>4 DEF Becomes, StartedOK, StateOK
<1> QED BY <1>1, <1>2, <1>3, <1>5, StartKeeps DEF beginMac

\* setMACAddress(), with and without an interface.
LEMMA SetMACKeeps ==
    ASSUME Inv, NEW mac \in Macs, NEW ok \in BOOLEAN, setMACAddress(mac, ok)
    PROVE  Inv'
<1>1. CASE eth.netif_
  <2> DEFINE st0 == State([eth EXCEPT !.mac_ = mac], n)
             st1 == start(IF eth.dhcpActive_ THEN StopDHCP(st0) ELSE st0)
             st == maybeStartDHCP(st1, ok)
  <2>1. StartedOK(st)
    BY <1>1, MacSetOK
  <2>2. /\ eth' = st.eth /\ n' = st.n /\ s_mac' = mac
        /\ UNCHANGED <<mdns, phy, driver, allowed>>
    BY <1>1 DEF setMACAddress, Becomes
  <2> HIDE DEF st
  <2>3. driver' \in [initialized : BOOLEAN, s_manualLinkState : BOOLEAN]
    BY <2>2 DEF Inv, TypeOK
  <2> QED BY <2>1, <2>2, <2>3, StartKeeps
<1>2. CASE ~eth.netif_
  <2>1. eth' = [eth EXCEPT !.mac_ = mac] /\ UNCHANGED <<s_mac, n, mdns, phy, driver, allowed>>
    BY <1>2 DEF setMACAddress, Becomes, State
  <2>2. /\ eth' \in EthObject /\ eth'.netif_ = eth.netif_
        /\ eth'.dhcpActive_ = eth.dhcpActive_ /\ eth'.dhcpDesired_ = eth.dhcpDesired_
    BY <2>1 DEF Inv, TypeOK, EthObject
  <2>3. InStep(eth, s_mac, n)' /\ Flags(eth, n)' /\ Admits(n, allowed)'
    BY <2>1, <2>2 DEF Inv, InStep, Flags, Admits, NoUse
  <2>4. Responder'
    BY <2>1, ResponderKept
  <2> QED BY <2>1, <2>2, <2>3, <2>4 DEF Inv, TypeOK, Responder
<1> QED BY <1>1, <1>2

\* A step that leaves the interface where it is, and MDNSClass alone.
LEMMA StayKeeps ==
    ASSUME Inv, n' \in Netif, eth' \in EthObject, eth'.netif_ = eth.netif_,
           n'.added = n.added, n'.host \in {n.host, NULL},
           n.added \/ (n'.dhcp = "off" /\ n'.use = n.use /\ allowed' = {}),
           Flags(eth, n)', Admits(n, allowed)', allowed' \in SUBSET Addresses,
           phy' \in BOOLEAN,
           driver' \in [initialized : BOOLEAN, s_manualLinkState : BOOLEAN],
           UNCHANGED <<s_mac, mdns>>
    PROVE  Inv'
<1>1. TypeOK'
  BY DEF Inv, TypeOK
<1>2. InStep(eth, s_mac, n)'
  BY DEF Inv, InStep, NoUse
<1>3. Responder'
  BY ResponderKept
<1> QED BY <1>1, <1>2, <1>3 DEF Inv, Responder

\* setDHCPEnabled() starts a client only where none runs beside a static address.
LEMMA DHCPEnabledKeeps ==
    ASSUME Inv, NEW flag \in BOOLEAN, NEW ok \in BOOLEAN, setDHCPEnabled(flag, ok)
    PROVE  Inv'
<1> DEFINE st == State([eth EXCEPT !.dhcpEnabled_ = flag], n)
<1>1. /\ StateOK(st) /\ st.n = n /\ st.eth = [eth EXCEPT !.dhcpEnabled_ = flag]
      /\ st = [eth |-> st.eth, n |-> n]
      /\ UNCHANGED <<s_mac, mdns, phy, driver, allowed>>
  BY DEF State, StateOK, Inv, TypeOK, EthObject, setDHCPEnabled
<1>2. CASE eth.netif_ /\ flag /\ eth.dhcpDesired_ /\ ~eth.dhcpActive_
  <2>1. PICK d \in {"off", "init", "selecting"} :
           dhcp_start(n, ok) = [n EXCEPT !.dhcp = d] /\ (d = "off" <=> ~ok)
    BY DEF dhcp_start
  <2>2. Becomes([st EXCEPT !.n = dhcp_start(st.n, ok), !.eth.dhcpActive_ = ok])
    BY <1>2 DEF setDHCPEnabled
  <2> HIDE DEF st
  <2>3. n' = [n EXCEPT !.dhcp = d] /\ eth' = [st.eth EXCEPT !.dhcpActive_ = ok]
    BY <1>1, <2>1, <2>2 DEF Becomes, StateOK
  <2>4. /\ n' \in Netif /\ n'.added = n.added /\ n'.host = n.host /\ n'.ip = n.ip
        /\ n'.use = n.use /\ n'.reg = n.reg /\ n'.collision = n.collision
        /\ n'.dhcp = d
    BY <2>3 DEF Inv, TypeOK, Netif
  <2>5. /\ eth' \in EthObject /\ eth'.netif_ = eth.netif_ /\ eth'.dhcpActive_ = ok
        /\ eth'.dhcpDesired_ = eth.dhcpDesired_
    BY <1>1, <2>3 DEF StateOK, EthObject
  <2>6. Flags(eth, n)'
    BY <1>2, <2>1, <2>4, <2>5 DEF Inv, Flags
  <2>7. Admits(n, allowed)' /\ n.added
    BY <1>1, <1>2, <2>4 DEF Inv, Admits, InStep
  <2> QED BY <1>1, <2>4, <2>5, <2>6, <2>7, StayKeeps DEF Inv, TypeOK
<1>3. CASE eth.netif_ /\ ~flag /\ eth.dhcpActive_
  <2>1. eth' = StopDHCP(st).eth /\ n' = StopDHCP(st).n
    BY <1>3 DEF setDHCPEnabled, Becomes
  <2>2. Admits(n, allowed) /\ allowed \in SUBSET Addresses
    BY DEF Inv, TypeOK
  <2> HIDE DEF st
  <2>3. /\ n' \in Netif /\ Admits(n', allowed)
        /\ n'.dhcp = "off" /\ n'.added = n.added /\ n'.host = n.host
        /\ n'.ip \in {n.ip, "any"}
        /\ eth' = [st.eth EXCEPT !.dhcpActive_ = FALSE]
    BY <1>1, <2>1, <2>2, StoppedDHCP DEF StateOK
  <2>4. /\ eth' \in EthObject /\ eth'.netif_ = eth.netif_ /\ ~eth'.dhcpActive_
        /\ eth'.dhcpDesired_ = eth.dhcpDesired_
    BY <1>1, <2>3 DEF StateOK, EthObject
  <2>5. Flags(eth, n)' /\ Admits(n, allowed)' /\ n.added
    BY <1>1, <1>3, <2>3, <2>4 DEF Inv, Flags, Admits, InStep
  <2> QED BY <1>1, <2>3, <2>4, <2>5, StayKeeps DEF Inv, TypeOK
<1>4. CASE /\ ~(eth.netif_ /\ flag /\ eth.dhcpDesired_ /\ ~eth.dhcpActive_)
           /\ ~(eth.netif_ /\ ~flag /\ eth.dhcpActive_)
  <2>1. eth' = st.eth /\ n' = n
    BY <1>1, <1>4 DEF setDHCPEnabled, Becomes
  <2> HIDE DEF st
  <2>2. /\ eth' \in EthObject /\ eth'.netif_ = eth.netif_
        /\ eth'.dhcpActive_ = eth.dhcpActive_ /\ eth'.dhcpDesired_ = eth.dhcpDesired_
    BY <1>1, <2>1 DEF StateOK, EthObject, Inv, TypeOK
  <2>3. Flags(eth, n)' /\ Admits(n, allowed)'
    BY <1>1, <2>1, <2>2 DEF Inv, Flags, Admits
  <2> QED BY <1>1, <2>1, <2>2, <2>3, StayKeeps DEF Inv, TypeOK, InStep
<1> QED BY <1>2, <1>3, <1>4

\* end(): the interface is removed when nothing runs on it any more.
LEMMA EndKeeps ==
    ASSUME Inv, end
    PROVE  Inv'
<1> DEFINE m == MdnsEnded(n)
           st0 == State(eth, m)
           st1 == IF eth.dhcpActive_ THEN StopDHCP(st0)
                  ELSE [st0 EXCEPT !.n = netif_set_addr(st0.n, "any")]
           down == netif_set_down(netif_set_link_down(st1.n))
           r == remove_netif(down)
<1>1. /\ eth.netif_
      /\ eth' = [st1.eth EXCEPT !.netif_ = FALSE, !.dhcpDesired_ = FALSE]
      /\ n' = [r EXCEPT !.collision = {}]
      /\ s_mac' = NULL /\ mdns' = [mdns EXCEPT !.s_netifAdded = FALSE]
      /\ allowed' = {} /\ UNCHANGED <<phy, driver>>
  BY DEF end, enet_deinit
<1>2. allowed \in SUBSET Addresses /\ eth \in EthObject /\ MdnsGroup \in Joinable
  BY DEF Inv, TypeOK, Joinable
<1>3. /\ m \in Netif /\ m.added /\ m.host = NULL /\ Admits(m, allowed)
      /\ m.dhcp = n.dhcp /\ m.ip = n.ip
  <2>1. n \in Netif /\ Admits(n, allowed) /\ n.added /\ (n.host # NULL => mdns.s_netifAdded)
    BY <1>1 DEF Inv, TypeOK, InStep
  <2>2. CASE n.host = NULL
    BY <2>1, <2>2 DEF MdnsEnded, mdns_resp_remove_netif
  <2>3. CASE n.host # NULL
    <3> DEFINE l == igmp_leave(n, MdnsGroup)
    <3>1. SameButFilter(n, l) /\ Admits(l, allowed)
      BY <1>2, <2>1, LeaveAdmits
    <3>2. m = [l EXCEPT !.host = NULL]
      BY <2>1, <2>3 DEF MdnsEnded, mdns_resp_remove_netif
    <3> HIDE DEF l, m
    <3>3. /\ m \in Netif /\ m.added = l.added /\ m.host = NULL
          /\ m.dhcp = l.dhcp /\ m.ip = l.ip
          /\ m.use = l.use /\ m.reg = l.reg /\ m.collision = l.collision
      BY <3>1, <3>2 DEF SameButFilter, Netif, Hosts
    <3> QED BY <2>1, <3>1, <3>3 DEF SameButFilter, Admits
  <2> QED BY <2>2, <2>3
<1> HIDE DEF m
<1>4. StateOK(st0) /\ st0.n = m /\ st0.eth = eth
  BY <1>2, <1>3 DEF StateOK, State
<1> HIDE DEF st0
<1>5. /\ StateOK(st1) /\ Admits(st1.n, allowed)
      /\ st1.n.dhcp = "off" /\ st1.n.added /\ st1.n.host = NULL
      /\ ~st1.eth.dhcpActive_
  <2>1. CASE eth.dhcpActive_
    <3>1. st1 = StopDHCP(st0)
      BY <2>1
    <3> HIDE DEF st1
    <3>2. /\ StateOK(st1) /\ Admits(st1.n, allowed)
          /\ st1.n.dhcp = "off" /\ st1.n.added /\ st1.n.host = NULL
          /\ st1.eth = [st0.eth EXCEPT !.dhcpActive_ = FALSE]
      BY <1>2, <1>3, <1>4, <3>1, StoppedDHCP
    <3>3. ~st1.eth.dhcpActive_
      BY <1>2, <1>4, <3>2 DEF EthObject
    <3> QED BY <3>2, <3>3
  <2>2. CASE ~eth.dhcpActive_
    <3>1. st1 = [st0 EXCEPT !.n = [m EXCEPT !.ip = "any"]]
      BY <1>4, <2>2 DEF netif_set_addr
    <3> HIDE DEF st1
    <3>2. StateOK(st1) /\ st1.eth = eth /\ st1.n = [m EXCEPT !.ip = "any"]
      BY <1>3, <1>4, <3>1 DEF StateOK, Netif
    <3>3. /\ st1.n.dhcp = m.dhcp /\ st1.n.added = m.added /\ st1.n.host = m.host
          /\ st1.n.ip = "any" /\ st1.n.use = m.use /\ st1.n.reg = m.reg
          /\ st1.n.collision = m.collision
      BY <1>3, <3>2 DEF Netif
    <3>4. n.dhcp = "off"
      BY <2>2 DEF Inv, Flags
    <3>5. Admits(st1.n, allowed)
      BY <1>3, <3>3 DEF Admits
    <3> QED BY <1>3, <2>2, <3>2, <3>3, <3>4, <3>5
  <2> QED BY <2>1, <2>2
<1> HIDE DEF st1
<1>6. /\ down \in Netif /\ down.added /\ down.dhcp = "off" /\ down.host = NULL
      /\ down.ip = st1.n.ip /\ down.use = st1.n.use /\ down.reg = st1.n.reg
      /\ down.collision = st1.n.collision
  BY <1>5 DEF StateOK, Netif, netif_set_down, netif_set_link_down
<1> HIDE DEF down
<1>7. Admits(down, allowed)
  BY <1>5, <1>6 DEF Admits
<1>8. /\ r \in Netif /\ ~r.added /\ NoUse(r) /\ r.dhcp = "off" /\ r.host = NULL
      /\ r.ip = st1.n.ip
  BY <1>2, <1>6, <1>7, NetifRemoved
<1> HIDE DEF r
<1>9. /\ n' \in Netif /\ ~n'.added /\ n'.dhcp = "off" /\ n'.host = NULL
      /\ n'.use = r.use /\ n'.ip = r.ip
  BY <1>1, <1>8 DEF Netif
<1>10. eth' \in EthObject /\ ~eth'.netif_ /\ ~eth'.dhcpActive_ /\ ~eth'.dhcpDesired_
  BY <1>1, <1>5 DEF StateOK, EthObject
<1>11. TypeOK'
  BY <1>1, <1>9, <1>10 DEF Inv, TypeOK
<1>12. NoUse(n')
  BY <1>8, <1>9 DEF NoUse
<1>13. Admits(n', {})
  BY <1>12 DEF Admits, NoUse
<1>14. InStep(eth, s_mac, n)' /\ Flags(eth, n)' /\ Admits(n, allowed)'
  BY <1>1, <1>9, <1>10, <1>12, <1>13 DEF InStep, Flags, Admits, NoUse
<1> QED BY <1>1, <1>9, <1>11, <1>14 DEF Inv, ServicesAreKnown, NoStaleBelow

\* A client that runs goes on running when the link changes, and one that is off
\* stays off.
LEMMA LinkKeeps ==
    ASSUME Inv, n' \in {n, netif_set_link_up(n), netif_set_link_down(n)},
           driver' \in [initialized : BOOLEAN, s_manualLinkState : BOOLEAN],
           UNCHANGED <<eth, s_mac, mdns, phy, allowed>>
    PROVE  Inv'
<1>0. n \in Netif /\ eth \in EthObject
  BY DEF Inv, TypeOK
<1>1. /\ n' \in Netif /\ n'.added = n.added /\ n'.host = n.host /\ n'.ip = n.ip
      /\ n'.use = n.use /\ n'.reg = n.reg /\ n'.collision = n.collision
      /\ n'.dhcp = "off" <=> n.dhcp = "off"
  <2>1. CASE n' = n
    BY <1>0, <2>1
  <2>2. CASE n' = netif_set_link_down(n)
    BY <1>0, <2>2 DEF netif_set_link_down, Netif
  <2>3. CASE n' = netif_set_link_up(n)
    <3>1. PICK d \in {"off", "selecting", "rebooting"} :
             d = dhcp_network_changed_link_up(n.dhcp) /\ (d = "off" <=> n.dhcp = "off")
      BY DEF dhcp_network_changed_link_up
    <3>2. n' = n \/ n' = [n EXCEPT !.link = TRUE, !.dhcp = d]
      BY <2>3, <3>1 DEF netif_set_link_up
    <3> QED BY <1>0, <3>1, <3>2 DEF Netif
  <2> QED BY <2>1, <2>2, <2>3
<1>2. Flags(eth, n)' /\ Admits(n, allowed)'
  BY <1>0, <1>1 DEF Inv, Flags, Admits
<1>3. n.added \/ (n'.dhcp = "off" /\ n'.use = n.use /\ allowed' = {})
  BY <1>1 DEF Inv, InStep
<1> QED BY <1>0, <1>1, <1>2, <1>3, StayKeeps DEF Inv, TypeOK

\* setLinkState().
LEMMA SetLinkKeeps ==
    ASSUME Inv, NEW flag \in BOOLEAN, setLinkState(flag)
    PROVE  Inv'
<1>1. /\ n' = IF flag THEN netif_set_link_up(n) ELSE netif_set_link_down(n)
      /\ driver' \in [initialized : BOOLEAN, s_manualLinkState : BOOLEAN]
      /\ UNCHANGED <<eth, s_mac, mdns, phy, allowed>>
  BY DEF setLinkState, Inv, TypeOK
<1> QED BY <1>1, LinkKeeps

\* check_link_status().
LEMMA PollKeeps ==
    ASSUME Inv, poll
    PROVE  Inv'
<1>1. LinkSeen(n) \in {n, netif_set_link_up(n), netif_set_link_down(n)}
  BY DEF LinkSeen
<1> QED BY <1>1, LinkKeeps DEF poll, Inv, TypeOK

\* A step that changes the filter and the groups only.
LEMMA FilterKeeps ==
    ASSUME Inv, n.added, SameButFilter(n, n'), Admits(n, allowed)',
           allowed' \in SUBSET Addresses, UNCHANGED <<eth, s_mac, mdns, phy, driver>>
    PROVE  Inv'
<1>1. Flags(eth, n)'
  BY DEF Inv, Flags, SameButFilter
<1> QED BY <1>1, StayKeeps DEF Inv, TypeOK, SameButFilter

\* joinGroup() and leaveGroup().
LEMMA GroupKeeps ==
    ASSUME Inv, NEW g \in Groups, joinGroup(g) \/ leaveGroup(g)
    PROVE  Inv'
<1>0. /\ n \in Netif /\ Admits(n, allowed) /\ allowed \in SUBSET Addresses
      /\ g \in Joinable
  BY DEF Inv, TypeOK, Joinable
<1>1. /\ n.added /\ UNCHANGED <<eth, s_mac, mdns, phy, driver, allowed>>
      /\ n' \in {igmp_join(n, g), igmp_leave(n, g)}
  BY DEF joinGroup, leaveGroup, Inv, InStep
<1>2. SameButFilter(n, n') /\ Admits(n', allowed')
  BY <1>0, <1>1, JoinAdmits, LeaveAdmits
<1>3. Admits(n, allowed)'
  BY <1>2 DEF Admits
<1> QED BY <1>0, <1>1, <1>2, <1>3, FilterKeeps

\* setMACAddressAllowed().
LEMMA AddressKeeps ==
    ASSUME Inv, NEW a \in Addresses, NEW flag \in BOOLEAN, setMACAddressAllowed(a, flag)
    PROVE  Inv'
<1>0. n \in Netif /\ Admits(n, allowed) /\ allowed \in SUBSET Addresses /\ n.added
  BY DEF Inv, TypeOK, setMACAddressAllowed, InStep
<1>1. CASE flag
  <2>1. n' = allow(n, a) /\ allowed' = allowed \cup {a}
    BY <1>1 DEF setMACAddressAllowed
  <2>2. SameButFilter(n, n') /\ Admits(n', allowed')
    BY <1>0, <2>1, AllowAdmits
  <2> QED BY <1>0, <2>1, <2>2, FilterKeeps DEF setMACAddressAllowed, Admits
<1>2. CASE ~flag
  <2>1. a \in allowed /\ n' = disallow(n, {a}) /\ allowed' = allowed \ {a}
    BY <1>2 DEF setMACAddressAllowed
  <2>2. SameButFilter(n, n') /\ Admits(n', allowed')
    BY <1>0, <2>1, DisallowAdmits
  <2> QED BY <1>0, <2>1, <2>2, FilterKeeps DEF setMACAddressAllowed, Admits
<1> QED BY <1>1, <1>2

\* A step of MDNSClass changes the filter, the host and its own variables.
LEMMA MdnsKeeps ==
    ASSUME Inv, n' \in Netif, n'.added = n.added, n'.ip = n.ip, n'.dhcp = n.dhcp,
           n.added \/ (n'.host = NULL /\ n'.use = n.use),
           Admits(n, allowed)', Responder',
           mdns' \in [s_netifAdded : BOOLEAN, slots_ : [Slots -> Services \cup {NULL}]],
           UNCHANGED <<eth, s_mac, phy, driver, allowed>>
    PROVE  Inv'
<1>1. TypeOK'
  BY DEF Inv, TypeOK
<1>2. InStep(eth, s_mac, n)' /\ Flags(eth, n)'
  BY DEF Inv, InStep, NoUse, Flags
<1> QED BY <1>1, <1>2 DEF Inv, Responder

\* MDNS.begin() gives the interface a host without services.
LEMMA MdnsBeginKeeps ==
    ASSUME Inv, mdnsBegin
    PROVE  Inv'
<1> DEFINE k == [n EXCEPT !.host = NoServices]
<1>1. /\ n.added /\ n' = igmp_join(k, MdnsGroup)
      /\ mdns' = [mdns EXCEPT !.s_netifAdded = TRUE]
      /\ UNCHANGED <<eth, s_mac, phy, driver, allowed>>
  BY DEF mdnsBegin, mdns_resp_add_netif
<1>2. /\ k \in Netif /\ k.host = NoServices /\ k.added = n.added /\ k.ip = n.ip
      /\ k.dhcp = n.dhcp
      /\ k.use = n.use /\ k.reg = n.reg /\ k.collision = n.collision
  BY DEF Inv, TypeOK, Netif, Hosts, NoServices
<1> HIDE DEF k
<1>3. Admits(k, allowed) /\ allowed \in SUBSET Addresses /\ MdnsGroup \in Joinable
  BY <1>2 DEF Inv, TypeOK, Admits, Joinable
<1>4. SameButFilter(k, n') /\ Admits(n', allowed)
  BY <1>1, <1>2, <1>3, JoinAdmits
<1>5. Admits(n, allowed)'
  BY <1>1, <1>4 DEF Admits
<1>6. /\ mdns' \in [s_netifAdded : BOOLEAN, slots_ : [Slots -> Services \cup {NULL}]]
      /\ mdns'.s_netifAdded
  BY <1>1 DEF Inv, TypeOK
<1>7. \A i \in Slots : n'.host[i] = NULL
  BY <1>2, <1>4 DEF SameButFilter, NoServices
<1>8. Responder'
  BY <1>6, <1>7 DEF Responder, ServicesAreKnown, NoStaleBelow
<1> QED BY <1>1, <1>2, <1>4, <1>5, <1>6, <1>8, MdnsKeeps DEF SameButFilter

\* MDNS.end(), with slots_ as it is.
LEMMA MdnsEndKeeps ==
    ASSUME Inv, mdnsEnd
    PROVE  Inv'
<1>1. /\ mdns' = [mdns EXCEPT !.s_netifAdded = FALSE]
      /\ n' = mdns_resp_remove_netif(n)
      /\ UNCHANGED <<eth, s_mac, phy, driver, allowed>>
  BY DEF mdnsEnd, MdnsEnded
<1>2. /\ n \in Netif /\ Admits(n, allowed) /\ allowed \in SUBSET Addresses
      /\ MdnsGroup \in Joinable
  BY DEF Inv, TypeOK, Joinable
<1>3. mdns' \in [s_netifAdded : BOOLEAN, slots_ : [Slots -> Services \cup {NULL}]]
  BY <1>1 DEF Inv, TypeOK
<1>4. CASE n.host = NULL
  <2>1. n' = n
    BY <1>1, <1>4 DEF mdns_resp_remove_netif
  <2>2. Responder' /\ Admits(n, allowed)'
    BY <1>1, <1>2, <1>4, <2>1 DEF Responder, ServicesAreKnown, NoStaleBelow, Admits
  <2> QED BY <1>1, <1>2, <1>3, <1>4, <2>1, <2>2, MdnsKeeps
<1>5. CASE n.host # NULL
  <2> DEFINE l == igmp_leave(n, MdnsGroup)
  <2>1. n' = [l EXCEPT !.host = NULL]
    BY <1>1, <1>5 DEF mdns_resp_remove_netif
  <2>2. SameButFilter(n, l) /\ Admits(l, allowed)
    BY <1>2, LeaveAdmits
  <2> HIDE DEF l
  <2>3. /\ n' \in Netif /\ n'.added = n.added /\ n'.host = NULL
        /\ n'.dhcp = n.dhcp /\ n'.ip = n.ip
        /\ n'.use = l.use /\ n'.reg = l.reg /\ n'.collision = l.collision
    BY <2>1, <2>2 DEF SameButFilter, Netif, Hosts
  <2>4. Responder' /\ Admits(n, allowed)'
    BY <1>1, <2>2, <2>3 DEF Responder, ServicesAreKnown, NoStaleBelow, Admits
  <2>5. n.added
    BY <1>5 DEF Inv, InStep
  <2> QED BY <1>1, <1>3, <2>3, <2>4, <2>5, MdnsKeeps
<1> QED BY <1>4, <1>5

\* addService() fills the first free slot, so that nothing stale is below it.
LEMMA AddServiceKeeps ==
    ASSUME Inv, NEW s \in Services, addService(s)
    PROVE  Inv'
<1>1. PICK i \in Slots :
        /\ n.host[i] = NULL /\ \A j \in Slots : j < i => n.host[j] # NULL
        /\ n' = [n EXCEPT !.host[i] = s]
        /\ mdns' = [mdns EXCEPT !.slots_ = [mdns.slots_ EXCEPT ![i] = s]]
  BY DEF addService, FreeSlots, Noted
<1>2. /\ n.host # NULL /\ mdns.s_netifAdded
      /\ UNCHANGED <<eth, s_mac, phy, driver, allowed>>
  BY DEF addService
<1>3. /\ n \in Netif /\ n.host \in [Slots -> Services \cup {NULL}] /\ n.added
      /\ mdns \in [s_netifAdded : BOOLEAN, slots_ : [Slots -> Services \cup {NULL}]]
      /\ s # NULL
  BY <1>2, NetifAssumption DEF Inv, TypeOK, Netif, Hosts, InStep
<1>4. /\ n'.host = [n.host EXCEPT ![i] = s]
      /\ n' \in Netif /\ n'.added = n.added /\ n'.ip = n.ip /\ n'.dhcp = n.dhcp
      /\ n'.use = n.use /\ n'.reg = n.reg /\ n'.collision = n.collision
  BY <1>1, <1>3 DEF Netif, Hosts
<1>5. /\ mdns'.slots_ = [mdns.slots_ EXCEPT ![i] = s] /\ mdns'.s_netifAdded
      /\ mdns' \in [s_netifAdded : BOOLEAN, slots_ : [Slots -> Services \cup {NULL}]]
  BY <1>1, <1>2, <1>3
<1>6. ServicesAreKnown'
  BY <1>2, <1>3, <1>4, <1>5 DEF Inv, ServicesAreKnown
<1>7. NoStaleBelow'
  <2> SUFFICES ASSUME NEW j \in Slots, NEW k \in Slots, j < k,
                      n'.host[k] # NULL, n'.host[j] = NULL
               PROVE  mdns'.slots_[j] = NULL
    BY DEF NoStaleBelow
  <2>1. j # i /\ n.host[j] = NULL
    BY <1>3, <1>4
  <2>2. CASE k = i
    BY <1>1, <2>1, <2>2
  <2>3. CASE k # i
    BY <1>2, <1>3, <1>4, <1>5, <2>1, <2>3 DEF Inv, NoStaleBelow
  <2> QED BY <2>2, <2>3
<1>8. Responder' /\ Admits(n, allowed)'
  BY <1>2, <1>4, <1>5, <1>6, <1>7 DEF Responder, Inv, Admits
<1> QED BY <1>2, <1>3, <1>4, <1>5, <1>8, MdnsKeeps

\* removeService() empties the slot in slots_ too.
LEMMA RemoveServiceKeeps ==
    ASSUME Inv, NEW s \in Services, removeService(s)
    PROVE  Inv'
<1>1. PICK i \in Slots :
        /\ mdns' = [mdns EXCEPT !.slots_ = [mdns.slots_ EXCEPT ![i] = NULL]]
        /\ n' = mdns_resp_del_service(n, i)
  BY DEF removeService, findService
<1>2. mdns.s_netifAdded /\ UNCHANGED <<eth, s_mac, phy, driver, allowed>>
  BY DEF removeService
<1>3. /\ n \in Netif
      /\ mdns \in [s_netifAdded : BOOLEAN, slots_ : [Slots -> Services \cup {NULL}]]
  BY DEF Inv, TypeOK
<1>4. /\ mdns'.slots_ = [mdns.slots_ EXCEPT ![i] = NULL] /\ mdns'.s_netifAdded
      /\ mdns' \in [s_netifAdded : BOOLEAN, slots_ : [Slots -> Services \cup {NULL}]]
  BY <1>1, <1>2, <1>3
<1>5. CASE n.host = NULL
  <2>1. n' = n
    BY <1>1, <1>5 DEF mdns_resp_del_service
  <2>2. Responder' /\ Admits(n, allowed)'
    BY <1>2, <1>5, <2>1 DEF Responder, ServicesAreKnown, NoStaleBelow, Inv, Admits
  <2> QED BY <1>2, <1>3, <1>4, <1>5, <2>1, <2>2, MdnsKeeps
<1>6. CASE n.host # NULL
  <2>1. n.host \in [Slots -> Services \cup {NULL}] /\ n.added
    BY <1>3, <1>6 DEF Netif, Hosts, Inv, InStep
  <2>2. /\ n'.host = [n.host EXCEPT ![i] = NULL]
        /\ n' \in Netif /\ n'.added = n.added /\ n'.ip = n.ip /\ n'.dhcp = n.dhcp
        /\ n'.use = n.use /\ n'.reg = n.reg /\ n'.collision = n.collision
    BY <1>1, <1>3, <1>6, <2>1 DEF Netif, Hosts, mdns_resp_del_service
  <2>3. ServicesAreKnown'
    BY <1>3, <1>4, <1>6, <2>1, <2>2 DEF Inv, ServicesAreKnown
  <2>4. NoStaleBelow'
    BY <1>3, <1>4, <1>6, <2>1, <2>2 DEF Inv, NoStaleBelow
  <2>5. Responder' /\ Admits(n, allowed)'
    BY <1>2, <1>4, <2>2, <2>3, <2>4 DEF Responder, Inv, Admits
  <2> QED BY <1>2, <1>4, <2>1, <2>2, <2>5, MdnsKeeps
<1> QED BY <1>5, <1>6

\* The DHCP server: its answers reach a client that runs.
LEMMA ServerKeeps ==
    ASSUME Inv, DhcpAck \/ DhcpNak \/ DhcpSilent
    PROVE  Inv'
<1>1. PICK d \in {"bound", "selecting"}, a \in {n.ip, "leased", "any"} :
        n' = [n EXCEPT !.dhcp = d, !.ip = a]
  BY ZenonT(60) DEF DhcpAck, DhcpNak, DhcpSilent, Inv, TypeOK, Netif
<1>2. n.dhcp # "off" /\ UNCHANGED <<eth, s_mac, mdns, phy, driver, allowed>>
  BY DEF DhcpAck, DhcpNak, DhcpSilent
<1>3. /\ n' \in Netif /\ n'.added = n.added /\ n'.host = n.host
      /\ n'.use = n.use /\ n'.reg = n.reg /\ n'.collision = n.collision
      /\ n'.dhcp = d /\ n'.ip = a
  BY <1>1 DEF Inv, TypeOK, Netif
<1>4. Flags(eth, n)' /\ Admits(n, allowed)' /\ n.added
  BY <1>2, <1>3 DEF Inv, Flags, Admits, InStep
<1> QED BY <1>2, <1>3, <1>4, StayKeeps DEF Inv, TypeOK

\* The cable.
LEMMA CableKeeps ==
    ASSUME Inv, Cable
    PROVE  Inv'
<1>1. phy' \in BOOLEAN /\ UNCHANGED <<eth, s_mac, n, mdns, driver, allowed>>
  BY DEF Cable
<1>2. Flags(eth, n)' /\ Admits(n, allowed)'
  BY <1>1 DEF Inv, Flags, Admits
<1> QED BY <1>1, <1>2, StayKeeps DEF Inv, TypeOK, InStep

\* A step of something else.
LEMMA StutterKeeps ==
    ASSUME Inv, UNCHANGED vars
    PROVE  Inv'
<1>1. UNCHANGED <<eth, s_mac, n, mdns, phy, driver, allowed>>
  BY DEF vars
<1>2. Flags(eth, n)' /\ Admits(n, allowed)'
  BY <1>1 DEF Inv, Flags, Admits
<1> QED BY <1>1, <1>2, StayKeeps DEF Inv, TypeOK, InStep

\* The induction step.
LEMMA NextKeeps == Inv /\ [Next]_vars => Inv'
<1> SUFFICES ASSUME Inv, [Next]_vars PROVE Inv'
  OBVIOUS
<1>1. CASE Program
  BY <1>1, BeginKeeps, BeginMacKeeps, SetMACKeeps, DHCPEnabledKeeps, EndKeeps,
     SetLinkKeeps, GroupKeeps, AddressKeeps, MdnsBeginKeeps, MdnsEndKeeps,
     AddServiceKeeps, RemoveServiceKeeps DEF Program
<1>2. CASE poll
  BY <1>2, PollKeeps
<1>3. CASE DhcpAck \/ DhcpNak \/ DhcpSilent
  BY <1>3, ServerKeeps
<1>4. CASE Cable
  BY <1>4, CableKeeps
<1>5. CASE UNCHANGED vars
  BY <1>5, StutterKeeps
<1> QED BY <1>1, <1>2, <1>3, <1>4, <1>5 DEF Next

-----------------------------------------------------------------------------
(* The results.                                                            *)

\* The invariant holds in every state of every instance.
THEOREM Invariance == Spec => []Inv
BY InitHolds, NextKeeps, PTL DEF Spec

\* What begin() and the others do to a flag that is true.
LEMMA TruthKept ==
    ASSUME Inv, Next, Truthful(eth, n), ~(eth.netif_ /\ Replaces)
    PROVE  Truthful(eth', n')
<1>1. ASSUME NEW ip \in {"any", "static"}, NEW ok \in BOOLEAN, begin(ip, ok)
      PROVE  Truthful(eth', n')
  <2>1. eth.mac_ \in Macs /\ (eth.netif_ => eth.mac_ = s_mac)
    BY <1>1 DEF Replaces, Inv, TypeOK, EthObject
  <2>2. Truthful(Begun(eth.mac_, ip, ok).eth, Begun(eth.mac_, ip, ok).n)
    BY <2>1, BegunOK
  <2> QED BY <1>1, <2>2 DEF begin, Becomes
<1>2. ASSUME NEW mac \in Macs, NEW ip \in {"any", "static"}, NEW ok \in BOOLEAN,
             beginMac(mac, ip, ok)
      PROVE  Truthful(eth', n')
  <2> DEFINE st == Begun(mac, ip, ok)
  <2>1. eth.netif_ => mac = s_mac
    BY <1>2 DEF Replaces
  <2>2. StartedOK(st) /\ Truthful(st.eth, st.n)
    BY <2>1, BegunOK
  <2>3. Becomes(IF Fails(ip, ok) THEN [st EXCEPT !.eth.mac_ = eth.mac_] ELSE st)
    BY <1>2 DEF beginMac
  <2> HIDE DEF st
  <2>4. eth'.dhcpActive_ = st.eth.dhcpActive_ /\ n' = st.n
    BY <2>2, <2>3 DEF Becomes, StartedOK, StateOK, EthObject
  <2> QED BY <2>2, <2>4 DEF Truthful
<1>3. ASSUME NEW mac \in Macs, NEW ok \in BOOLEAN, setMACAddress(mac, ok)
      PROVE  Truthful(eth', n')
  <2>1. CASE eth.netif_
    BY <1>3, <2>1, MacSetOK DEF setMACAddress, Becomes
  <2>2. CASE ~eth.netif_
    BY <1>3, <2>2 DEF setMACAddress, Becomes, State, Truthful, Inv, TypeOK, EthObject
  <2> QED BY <2>1, <2>2
<1>4. ASSUME NEW flag \in BOOLEAN, NEW ok \in BOOLEAN, setDHCPEnabled(flag, ok)
      PROVE  Truthful(eth', n')
  <2> DEFINE st == State([eth EXCEPT !.dhcpEnabled_ = flag], n)
  <2>1. /\ StateOK(st) /\ st.n = n /\ st.eth = [eth EXCEPT !.dhcpEnabled_ = flag]
        /\ st.eth.dhcpActive_ = eth.dhcpActive_
    BY DEF State, StateOK, Inv, TypeOK, EthObject
  <2>2. CASE eth.netif_ /\ flag /\ eth.dhcpDesired_ /\ ~eth.dhcpActive_
    <3>1. Becomes([st EXCEPT !.n = dhcp_start(st.n, ok), !.eth.dhcpActive_ = ok])
      BY <1>4, <2>2 DEF setDHCPEnabled
    <3> HIDE DEF st
    <3>2. eth'.dhcpActive_ = ok /\ n' = dhcp_start(n, ok)
      BY <2>1, <3>1 DEF Becomes, StateOK, EthObject
    <3>3. ok => n'.dhcp # "off"
      BY <3>2 DEF dhcp_start, Inv, TypeOK, Netif
    <3> QED BY <3>2, <3>3 DEF Truthful
  <2>3. CASE eth.netif_ /\ ~flag /\ eth.dhcpActive_
    <3>1. eth' = StopDHCP(st).eth
      BY <1>4, <2>3 DEF setDHCPEnabled, Becomes
    <3>2. ~StopDHCP(st).eth.dhcpActive_
      BY <2>1 DEF StopDHCP, StateOK, EthObject
    <3> QED BY <3>1, <3>2 DEF Truthful
  <2>4. CASE /\ ~(eth.netif_ /\ flag /\ eth.dhcpDesired_ /\ ~eth.dhcpActive_)
             /\ ~(eth.netif_ /\ ~flag /\ eth.dhcpActive_)
    <3>1. eth' = st.eth /\ n' = st.n
      BY <1>4, <2>4 DEF setDHCPEnabled, Becomes
    <3> QED BY <2>1, <3>1 DEF Truthful
  <2> QED BY <2>2, <2>3, <2>4
<1>5. ASSUME end
      PROVE  Truthful(eth', n')
  <2> DEFINE st0 == State(eth, MdnsEnded(n))
             st1 == IF eth.dhcpActive_ THEN StopDHCP(st0)
                    ELSE [st0 EXCEPT !.n = netif_set_addr(st0.n, "any")]
  <2>1. st0.eth = eth /\ eth \in EthObject
    BY DEF State, Inv, TypeOK
  <2>2. st1.eth \in EthObject /\ ~st1.eth.dhcpActive_
    BY <2>1 DEF StopDHCP, State, EthObject
  <2>3. eth' = [st1.eth EXCEPT !.netif_ = FALSE, !.dhcpDesired_ = FALSE]
    BY <1>5 DEF end
  <2> HIDE DEF st1
  <2>4. ~eth'.dhcpActive_
    BY <2>2, <2>3 DEF EthObject
  <2> QED BY <2>4 DEF Truthful
<1>6. ASSUME UNCHANGED eth, n'.dhcp = "off" => n.dhcp = "off"
      PROVE  Truthful(eth', n')
  BY <1>6 DEF Truthful
<1>7. n \in Netif
  BY DEF Inv, TypeOK
<1>8. \A m \in Netif : netif_set_link_up(m).dhcp = "off" => m.dhcp = "off"
  BY DEF netif_set_link_up, dhcp_network_changed_link_up, Netif
<1>9. \A m \in Netif : netif_set_link_down(m).dhcp = m.dhcp
  BY DEF netif_set_link_down, Netif
<1>10. ASSUME NEW flag \in BOOLEAN, setLinkState(flag)
       PROVE  Truthful(eth', n')
  BY <1>6, <1>7, <1>8, <1>9, <1>10 DEF setLinkState
<1>11. ASSUME poll
       PROVE  Truthful(eth', n')
  BY <1>6, <1>7, <1>8, <1>9, <1>11 DEF poll, LinkSeen
<1>12. /\ Admits(n, allowed) /\ allowed \in SUBSET Addresses
       /\ MdnsGroup \in Joinable /\ Groups \subseteq Joinable
  BY DEF Inv, TypeOK, Joinable
<1>13. ASSUME NEW g \in Groups, joinGroup(g) \/ leaveGroup(g)
       PROVE  Truthful(eth', n')
  BY <1>6, <1>7, <1>12, <1>13, JoinAdmits, LeaveAdmits
     DEF joinGroup, leaveGroup, SameButFilter
<1>14. ASSUME NEW a \in Addresses, NEW flag \in BOOLEAN, setMACAddressAllowed(a, flag)
       PROVE  Truthful(eth', n')
  BY <1>6, <1>7, <1>12, <1>14, AllowAdmits, DisallowAdmits
     DEF setMACAddressAllowed, SameButFilter
<1>15. MdnsEnded(n).dhcp = n.dhcp
  <2>1. SameButFilter(n, igmp_leave(n, MdnsGroup))
    BY <1>7, <1>12, LeaveAdmits
  <2> QED BY <1>7, <2>1 DEF MdnsEnded, mdns_resp_remove_netif, SameButFilter, Netif
<1>16. ASSUME mdnsBegin
       PROVE  Truthful(eth', n')
  <2> DEFINE m == [n EXCEPT !.host = NoServices]
  <2>1. m \in Netif /\ m.dhcp = n.dhcp /\ Admits(m, allowed)
    BY <1>7, <1>12 DEF Netif, Hosts, NoServices, Admits
  <2>2. n' = igmp_join(m, MdnsGroup) /\ UNCHANGED eth
    BY <1>16 DEF mdnsBegin, mdns_resp_add_netif
  <2> HIDE DEF m
  <2>3. SameButFilter(m, n')
    BY <1>12, <2>1, <2>2, JoinAdmits
  <2> QED BY <1>6, <2>1, <2>2, <2>3 DEF SameButFilter
<1>17. ASSUME mdnsEnd
       PROVE  Truthful(eth', n')
  BY <1>6, <1>15, <1>17 DEF mdnsEnd
<1>18. ASSUME NEW s \in Services, addService(s) \/ removeService(s)
       PROVE  Truthful(eth', n')
  BY <1>6, <1>7, <1>18 DEF addService, removeService, mdns_resp_del_service, Netif
<1>19. CASE Cable \/ DhcpAck \/ DhcpNak \/ DhcpSilent
  BY <1>6, <1>7, <1>19 DEF Cable, DhcpAck, DhcpNak, DhcpSilent, Netif
<1>20. CASE Program
  BY <1>1, <1>2, <1>3, <1>4, <1>5, <1>10, <1>13, <1>14, <1>16, <1>17, <1>18, <1>20
     DEF Program
<1> QED BY <1>11, <1>19, <1>20 DEF Next

\* Only begin() with another MAC address and no end() before makes dhcpActive_ claim a
\* client that does not run.
THEOREM FlagCorrect == Spec => FlagKept
<1> DEFINE A == DhcpFlagAgrees /\ ~DhcpFlagAgrees' => eth.netif_ /\ Replaces
<1>1. Inv /\ Next => A
  BY TruthKept DEF Truthful, DhcpFlagAgrees
<1>2. Inv /\ [Next]_vars => [A]_vars
  BY <1>1
<1>3. [][A]_vars => FlagKept
  BY PTL DEF FlagKept
<1> QED BY <1>2, <1>3, Invariance, PTL DEF Spec

\* No DHCP client runs that the library does not know of.
THEOREM ClientCorrect == Spec => []ClientIsKnown
<1>1. Inv => ClientIsKnown
  BY DEF Inv, Flags, ClientIsKnown
<1> QED BY <1>1, Invariance, PTL

\* No DHCP client runs beside a static address, whatever the program calls.
THEOREM StaticCorrect == Spec => []StaticIsSafe
<1>1. Inv => StaticIsSafe
  BY DEF Inv, Flags, StaticIsSafe
<1> QED BY <1>1, Invariance, PTL

\* Groups that are joined and addresses that are allowed pass the filter, for
\* every hash function.
THEOREM FilterCorrect == Spec => []FilterAdmits
<1>1. Inv => FilterAdmits
  BY DEF Inv, Admits, FilterAdmits
<1> QED BY <1>1, Invariance, PTL

\* MDNSClass knows every service that lwIP announces, under its slot.
THEOREM ServicesCorrect == Spec => []ServicesAreKnown
<1>1. Inv => ServicesAreKnown
  BY DEF Inv
<1> QED BY <1>1, Invariance, PTL

\* Nothing of an interface is left after end().
THEOREM EndCorrect == Spec => []EndCleansUp
<1>1. Inv => EndCleansUp
  BY DEF Inv, InStep, NoUse, EndCleansUp
<1> QED BY <1>1, Invariance, PTL

\* removeService() takes away the service it is given and no other, if lwIP
\* announces it.
THEOREM RemovalCorrect == Spec => RemovesNamed
<1> DEFINE A == \A s \in Services : (removeService(s) /\ n.host # NULL) =>
          LET gone == {i \in Slots : n'.host[i] # n.host[i]}
          IN  /\ \A i \in gone : n.host[i] = s
              /\ (\E i \in Slots : n.host[i] = s) => \E i \in gone : gone = {i}
<1>1. Inv => A
  <2> SUFFICES ASSUME Inv, NEW s \in Services, removeService(s), n.host # NULL
               PROVE  LET gone == {i \in Slots : n'.host[i] # n.host[i]}
                      IN  /\ \A i \in gone : n.host[i] = s
                          /\ (\E i \in Slots : n.host[i] = s) => \E i \in gone : gone = {i}
    OBVIOUS
  <2> DEFINE gone == {i \in Slots : n'.host[i] # n.host[i]}
  <2>1. PICK i \in Slots :
          /\ mdns.slots_[i] = s /\ \A j \in Slots : j < i => mdns.slots_[j] # s
          /\ n' = mdns_resp_del_service(n, i)
    BY DEF removeService, findService
  <2>2. n \in Netif /\ n.host \in [Slots -> Services \cup {NULL}] /\ s # NULL
    BY NetifAssumption DEF Inv, TypeOK, Netif, Hosts
  <2>3. n'.host = [n.host EXCEPT ![i] = NULL]
    BY <2>1, <2>2 DEF mdns_resp_del_service, Netif
  <2>4. \A j \in gone : j = i
    BY <2>2, <2>3
  <2>5. n.host[i] # NULL => n.host[i] = s
    BY <2>1 DEF Inv, ServicesAreKnown
  <2>6. \A j \in gone : n.host[j] = s
    BY <2>2, <2>3, <2>4, <2>5
  <2>7. ASSUME NEW j \in Slots, n.host[j] = s PROVE i \in gone
    <3>1. mdns.slots_[j] = s
      BY <2>2, <2>7 DEF Inv, ServicesAreKnown
    <3>2. i = j \/ i < j
      BY <2>1, <3>1, NetifAssumption DEF Slots
    <3>3. n.host[i] # NULL
      BY <2>1, <2>2, <2>7, <3>2 DEF Inv, NoStaleBelow
    <3> QED BY <2>2, <2>3, <3>3
  <2>8. (\E j \in Slots : n.host[j] = s) => \E j \in gone : gone = {j}
    BY <2>4, <2>7
  <2> QED BY <2>6, <2>8
<1>2. [][A]_vars => RemovesNamed
  BY PTL DEF RemovesNamed
<1> QED BY <1>1, <1>2, Invariance, PTL
=============================================================================

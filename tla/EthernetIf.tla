----------------------------- MODULE EthernetIf -----------------------------
(***************************************************************************)
(* QNEthernet.cpp and QNMDNS.cpp on one network interface: a program       *)
(* starts, restarts and ends Ethernet with static addresses or DHCP,       *)
(* changes the MAC address, joins groups, lets addresses through the       *)
(* filter and announces services, while the cable is plugged and           *)
(* unplugged and the DHCP server answers, refuses or is silent.            *)
(*                                                                         *)
(* The hardware is there, so that start() fails only for want of memory    *)
(* (dhcp_start()).  Callbacks of the program are left out.                 *)
(***************************************************************************)
EXTENDS LwipNetif

CONSTANTS
    Macs,       \* MAC addresses a program uses
    SystemMac,  \* the hardware's own
    MaxUse      \* bound: use count of a group

ASSUME EthAssumption ==
    SystemMac \in Macs /\ NULL \notin Macs /\ MaxUse \in Nat

VARIABLES
    eth,      \* EthernetClass: netif_ (is it set?), mac_ and the DHCP flags
    s_mac,    \* lwip_driver.cpp's MAC address
    n,        \* the interface, see LwipNetif
    mdns,     \* MDNSClass: s_netifAdded and slots_
    phy,      \* the cable is plugged in
    driver,   \* the driver: initialized?, s_manualLinkState
    allowed   \* history: addresses let in since the last end()

vars == <<eth, s_mac, n, mdns, phy, driver, allowed>>

Init ==
    /\ eth = [netif_ |-> FALSE, mac_ |-> SystemMac, dhcpEnabled_ |-> TRUE,
              dhcpDesired_ |-> FALSE, dhcpActive_ |-> FALSE]
    /\ s_mac = NULL
    /\ n = NoNetif
    /\ mdns = [s_netifAdded |-> FALSE, slots_ |-> NoServices]
    /\ phy \in BOOLEAN
    /\ driver = [initialized |-> FALSE, s_manualLinkState |-> FALSE]
    /\ allowed = {}

-----------------------------------------------------------------------------
(* Parts of the calls of EthernetClass, on the object e and the interface. *)

State(e, if) == [eth |-> e, n |-> if]

\* Mutants: the client is not stopped; dhcpActive_ is not reset.
StopDHCP_Runs(st) == [st EXCEPT !.eth.dhcpActive_ = FALSE]
StopDHCP_Mutant(st) == [st EXCEPT !.n = dhcp_release_and_stop(@)]
\* Stop the DHCP client, wherever the code finds dhcpActive_ set.
StopDHCP(st) == [st EXCEPT !.n = dhcp_release_and_stop(@), !.eth.dhcpActive_ = FALSE]

\* start(): the link goes down, and comes up again when the driver sees it.
start(st) ==
    LET down == IF st.eth.netif_ THEN netif_set_down(netif_set_link_down(st.n)) ELSE st.n
    IN  State([st.eth EXCEPT !.netif_ = TRUE],
              netif_set_up(enet_init(down, s_mac = st.eth.mac_)))

\* maybeStartDHCP(); ok: is there memory for it?
maybeStartDHCP(st, ok) ==
    CASE st.n.ip # "any" ->
           [st EXCEPT !.eth.dhcpActive_ = FALSE, !.eth.dhcpDesired_ = FALSE]
      [] st.n.ip = "any" /\ st.eth.dhcpEnabled_ /\ ~st.eth.dhcpActive_ ->
           [st EXCEPT !.n = dhcp_start(@, ok),
                      !.eth.dhcpActive_ = ok, !.eth.dhcpDesired_ = TRUE]
      [] OTHER -> st

\* Mutant: the DHCP client goes on beside a static address.
StopForStatic_Mutant(ip) == FALSE
StopForStatic(ip) == eth.netif_ /\ eth.dhcpActive_ /\ ip # "any"

\* begin(ip, ...) with mac_ set to mac.
Begun(mac, ip, ok) ==
    LET st0 == State([eth EXCEPT !.mac_ = mac], n)
        st1 == start(IF StopForStatic(ip) THEN StopDHCP(st0) ELSE st0)
    IN  maybeStartDHCP([st1 EXCEPT !.n = netif_set_addr(@, ip)], ok)

\* begin() returns what maybeStartDHCP() does: false if DHCP could not start.
Fails(ip, ok) ==
    ~ok /\ ip = "any" /\ eth.dhcpEnabled_ /\ ~eth.dhcpActive_

Becomes(st) == eth' = st.eth /\ n' = st.n

-----------------------------------------------------------------------------
begin(ip, ok) ==
    /\ Becomes(Begun(eth.mac_, ip, ok))
    /\ s_mac' = eth.mac_
    /\ driver' = [driver EXCEPT !.initialized = TRUE]
    /\ UNCHANGED <<mdns, phy, allowed>>

\* begin(mac, ip, ...): mac_ is restored if begin() fails.
beginMac(mac, ip, ok) ==
    LET st == Begun(mac, ip, ok)
    IN  /\ Becomes(IF Fails(ip, ok) THEN [st EXCEPT !.eth.mac_ = eth.mac_] ELSE st)
        /\ s_mac' = mac
        /\ driver' = [driver EXCEPT !.initialized = TRUE]
        /\ UNCHANGED <<mdns, phy, allowed>>

\* setMACAddress(): restarts the interface if there is one.  A static address
\* is gone with the old interface, and DHCP starts instead.
setMACAddress(mac, ok) ==
    LET st0 == State([eth EXCEPT !.mac_ = mac], n)
        st1 == start(IF eth.dhcpActive_ THEN StopDHCP(st0) ELSE st0)
    IN  /\ mac # eth.mac_
        /\ IF eth.netif_
           THEN Becomes(maybeStartDHCP(st1, ok)) /\ s_mac' = mac
           ELSE Becomes(st0) /\ UNCHANGED s_mac
        /\ UNCHANGED <<mdns, phy, driver, allowed>>

setDHCPEnabled(flag, ok) ==
    LET st == State([eth EXCEPT !.dhcpEnabled_ = flag], n)
    IN  /\ Becomes(CASE eth.netif_ /\ flag /\ eth.dhcpDesired_ /\ ~eth.dhcpActive_ ->
                          [st EXCEPT !.n = dhcp_start(@, ok), !.eth.dhcpActive_ = ok]
                     [] eth.netif_ /\ ~flag /\ eth.dhcpActive_ -> StopDHCP(st)
                     [] OTHER -> st)
        /\ UNCHANGED <<s_mac, mdns, phy, driver, allowed>>

\* Mutant: the responder is not told.
MdnsEnded_Mutant(if) == if
\* MDNS.end(); slots_ is not reset.
MdnsEnded(if) == IF mdns.s_netifAdded THEN mdns_resp_remove_netif(if) ELSE if

\* end()
end ==
    LET st0 == State(eth, MdnsEnded(n))
        st1 == IF eth.dhcpActive_ THEN StopDHCP(st0)
               ELSE [st0 EXCEPT !.n = netif_set_addr(@, "any")]
        down == netif_set_down(netif_set_link_down(st1.n))
    IN  /\ eth.netif_
        /\ eth' = [st1.eth EXCEPT !.netif_ = FALSE, !.dhcpDesired_ = FALSE]
        /\ n' = enet_deinit(down)
        /\ s_mac' = NULL
        /\ mdns' = [mdns EXCEPT !.s_netifAdded = FALSE]
        /\ allowed' = {}
        /\ UNCHANGED <<phy, driver>>

setLinkState(flag) ==
    /\ eth.netif_
    /\ driver' = [driver EXCEPT !.s_manualLinkState = flag]
    /\ n' = IF flag THEN netif_set_link_up(n) ELSE netif_set_link_down(n)
    /\ UNCHANGED <<eth, s_mac, mdns, phy, allowed>>

\* joinGroup(), leaveGroup() and setMACAddressAllowed().  A program disallows
\* only what it has allowed: another address may share the filter's bit.
joinGroup(g) ==
    /\ eth.netif_ /\ n.use[g] < MaxUse
    /\ n' = igmp_join(n, g)
    /\ UNCHANGED <<eth, s_mac, mdns, phy, driver, allowed>>
leaveGroup(g) ==
    /\ eth.netif_
    /\ n' = igmp_leave(n, g)
    /\ UNCHANGED <<eth, s_mac, mdns, phy, driver, allowed>>
setMACAddressAllowed(a, flag) ==
    /\ eth.netif_ /\ (flag \/ a \in allowed)
    /\ n' = IF flag THEN allow(n, a) ELSE disallow(n, {a})
    /\ allowed' = IF flag THEN allowed \cup {a} ELSE allowed \ {a}
    /\ UNCHANGED <<eth, s_mac, mdns, phy, driver>>

-----------------------------------------------------------------------------
(* MDNSClass.                                                              *)

\* MDNS.begin(), with memory for the host.  (A second one renames at most.)
mdnsBegin ==
    /\ n.added /\ ~mdns.s_netifAdded
    /\ n' = mdns_resp_add_netif(n)
    /\ mdns' = [mdns EXCEPT !.s_netifAdded = TRUE]
    /\ UNCHANGED <<eth, s_mac, phy, driver, allowed>>

mdnsEnd ==
    /\ mdns.s_netifAdded
    /\ n' = MdnsEnded(n)
    /\ mdns' = [mdns EXCEPT !.s_netifAdded = FALSE]
    /\ UNCHANGED <<eth, s_mac, phy, driver, allowed>>

\* Mutant: a slot that was used before is not written.
Noted_Mutant(slots, i, s) == IF slots[i] = NULL THEN [slots EXCEPT ![i] = s] ELSE slots
Noted(slots, i, s) == [slots EXCEPT ![i] = s]

\* addService(); it fails if the interface has lost its host.
addService(s) ==
    /\ mdns.s_netifAdded /\ n.host # NULL
    /\ \E i \in FreeSlots(n) :
         /\ n' = [n EXCEPT !.host[i] = s]
         /\ mdns' = [mdns EXCEPT !.slots_ = Noted(@, i, s)]
    /\ UNCHANGED <<eth, s_mac, phy, driver, allowed>>

\* Mutant: the last match is taken.
findService_Mutant(s) ==
    {i \in Slots : mdns.slots_[i] = s /\ \A j \in Slots : j > i => mdns.slots_[j] # s}
\* findService(): the first match in slots_.
findService(s) ==
    {i \in Slots : mdns.slots_[i] = s /\ \A j \in Slots : j < i => mdns.slots_[j] # s}

removeService(s) ==
    /\ mdns.s_netifAdded
    /\ \E i \in findService(s) :
         /\ mdns' = [mdns EXCEPT !.slots_[i] = NULL]
         /\ n' = mdns_resp_del_service(n, i)
    /\ UNCHANGED <<eth, s_mac, phy, driver, allowed>>

-----------------------------------------------------------------------------
(* The driver, the cable and the DHCP server.                              *)

\* check_link_status(): the driver polls its PHY, and a link that was set by hand
\* is not taken down.
LinkSeen(if) ==
    CASE phy -> netif_set_link_up(if)
      [] ~phy /\ ~driver.s_manualLinkState -> netif_set_link_down(if)
      [] OTHER -> if
poll ==
    /\ driver.initialized
    /\ n' = LinkSeen(n)
    /\ UNCHANGED <<eth, s_mac, mdns, phy, driver, allowed>>

Cable ==
    /\ phy' = ~phy
    /\ UNCHANGED <<eth, s_mac, n, mdns, driver, allowed>>

\* The server grants a lease, or renews it.
DhcpAck ==
    /\ n.link /\ phy /\ n.dhcp \in {"selecting", "rebooting"}
    /\ n' = [n EXCEPT !.dhcp = "bound", !.ip = "leased"]
    /\ UNCHANGED <<eth, s_mac, mdns, phy, driver, allowed>>

\* It refuses, or the lease expires; or it is silent after a reboot.
DhcpNak ==
    /\ n.dhcp \in {"bound", "rebooting"}
    /\ n' = [n EXCEPT !.dhcp = "selecting", !.ip = "any"]
    /\ UNCHANGED <<eth, s_mac, mdns, phy, driver, allowed>>
DhcpSilent ==
    /\ n.dhcp = "rebooting"
    /\ n' = [n EXCEPT !.dhcp = "selecting"]
    /\ UNCHANGED <<eth, s_mac, mdns, phy, driver, allowed>>

Program ==
    \/ \E ip \in {"any", "static"}, ok \in BOOLEAN :
          begin(ip, ok) \/ \E mac \in Macs : beginMac(mac, ip, ok)
    \/ \E mac \in Macs, ok \in BOOLEAN : setMACAddress(mac, ok)
    \/ \E flag, ok \in BOOLEAN : setDHCPEnabled(flag, ok)
    \/ end
    \/ \E flag \in BOOLEAN : setLinkState(flag)
    \/ \E g \in Groups : joinGroup(g) \/ leaveGroup(g)
    \/ \E a \in Addresses, flag \in BOOLEAN : setMACAddressAllowed(a, flag)
    \/ mdnsBegin \/ mdnsEnd
    \/ \E s \in Services : addService(s) \/ removeService(s)

Next == Program \/ poll \/ Cable \/ DhcpAck \/ DhcpNak \/ DhcpSilent

\* loop() polls the driver, and a server that is asked answers.
Fairness == WF_vars(poll) /\ WF_vars(DhcpAck)

Spec == Init /\ [][Next]_vars /\ Fairness

-----------------------------------------------------------------------------
\* No client runs behind the library's back: while lwIP's DHCP client runs,
\* dhcpActive_ is set, so that begin(ip, ...), setMACAddress(), setDHCPEnabled()
\* and end(), which all ask the flag, stop it.
ClientIsKnown == n.dhcp # "off" => eth.dhcpActive_

\* A begin() with another MAC address than that of the interface there is: enet::init()
\* puts a new one in its place.
Replaces ==
    \E ip \in {"any", "static"}, ok \in BOOLEAN :
        \/ eth.mac_ # s_mac /\ begin(ip, ok)
        \/ \E mac \in Macs \ {s_mac} : beginMac(mac, ip, ok)

\* isDHCPActive() tells the truth: if dhcpActive_ is set then the client runs.
\* CHANGELOG.md says that begin() stops the client by itself, without an end() before
\* it, and a test calls begin() with a second MAC address and asks for the flag.
\* The code violates this.
DhcpFlagAgrees == eth.dhcpActive_ => n.dhcp # "off"

\* The flag goes wrong in that one way only: every other call, every failure of
\* dhcp_start() and every event keeps a true flag true.
FlagKept == [][DhcpFlagAgrees /\ ~DhcpFlagAgrees' => eth.netif_ /\ Replaces]_vars

\* A static address won't be overwritten by a DHCP client that ran before
\* (begin(ip, ...), setMACAddress()): no client runs beside one.
StaticIsSafe == n.ip = "static" => n.dhcp = "off"

\* What was let in passes the filter: every group that is joined and every
\* address that is allowed has its bit, across collisions of hashes, end() and
\* the removal of the interface.
FilterAdmits ==
    /\ \A g \in Joinable : n.use[g] > 0 => Hash[g] \in n.reg
    /\ \A a \in allowed : Hash[a] \in n.reg

\* Every service that lwIP announces is known to MDNSClass under the same slot,
\* although slots_ keeps the services of an earlier begin().
ServicesAreKnown ==
    n.host # NULL => \A i \in Slots : n.host[i] # NULL => mdns.slots_[i] = n.host[i]

\* removeService(s) takes away one s if lwIP announces any, and else nothing: it
\* is misled neither by what slots_ keeps from an earlier begin() nor by another
\* service that has got a slot s had.
RemovesNamed ==
    [][\A s \in Services : (removeService(s) /\ n.host # NULL) =>
          LET gone == {i \in Slots : n'.host[i] # n.host[i]}
          IN  /\ \A i \in gone : n.host[i] = s
              /\ (\E i \in Slots : n.host[i] = s) => \E i \in gone : gone = {i}]_vars

\* What end() leaves behind: no interface, no DHCP client, no group and no mDNS host,
\* although each is stopped only if a flag or the interface says that it is there.
\* The address is not part of it: end() leaves it to dhcp_release_and_stop() if DHCP
\* is active, which clears only that of a bound client.
EndCleansUp ==
    ~eth.netif_ => /\ ~n.added /\ n.dhcp = "off" /\ n.host = NULL
                   /\ \A g \in Joinable : n.use[g] = 0

\* A DHCP client that runs and is left alone by the program gets an address again and
\* again, as long as the cable is plugged in: no restart of the interface leaves it
\* without a link, or in a state that does not ask.  (That a client runs is what
\* lwIP says, not dhcpActive_: see DhcpFlagAgrees.)
AddressComes ==
    /\ <>[][poll \/ Cable \/ DhcpAck \/ DhcpNak \/ DhcpSilent]_vars
    /\ <>[](n.dhcp # "off" /\ phy)
    => []<>(n.ip = "leased")

=============================================================================

----------------------------- MODULE LwipNetif -----------------------------
(***************************************************************************)
(* The network interface as QNEthernet.cpp and QNMDNS.cpp see it: lwIP's   *)
(* netif with its DHCP client, its IGMP groups and its mDNS host           *)
(* (netif.c, dhcp.c, igmp.c, mdns.c), lwip_driver.cpp, which adds and      *)
(* removes it, and the hash filter for MAC addresses of the Teensy 4.1     *)
(* driver.  All of it is one record; every operator maps a state of it to  *)
(* the state after a call.                                                 *)
(*                                                                         *)
(* An address is "any", "static" or "leased".  The states of the DHCP      *)
(* client between INIT and BOUND are one, "selecting"; RENEWING and        *)
(* REBINDING are part of "bound".                                          *)
(***************************************************************************)
EXTENDS Integers

CONSTANTS
    Groups,      \* multicast addresses a program joins
    Addresses,   \* other MAC addresses a program lets in
    Hash,        \* the filter's bit for each of them
    AllSystems,  \* 224.0.0.1
    MdnsGroup,   \* 224.0.0.251
    Services,    \* services a program announces
    NumSlots,    \* MDNS_MAX_SERVICES
    NULL

Joinable == Groups \cup {AllSystems, MdnsGroup}

ASSUME NetifAssumption ==
    /\ DOMAIN Hash = Joinable \cup Addresses
    /\ NumSlots \in Nat
    /\ NULL \notin Services
    /\ AllSystems \notin Groups /\ MdnsGroup \notin Groups
    /\ AllSystems # MdnsGroup

Slots == 0..(NumSlots - 1)
NoServices == [i \in Slots |-> NULL]

\* s_netif before it is added, with everything else at rest.
NoNetif ==
    [added |-> FALSE, up |-> FALSE, link |-> FALSE, ip |-> "any", dhcp |-> "off",
     use |-> [g \in Joinable |-> 0], reg |-> {}, collision |-> {},
     host |-> NULL]

-----------------------------------------------------------------------------
\* set_incoming_mac_address_allowed(mac, true)
allow(n, a) ==
    IF Hash[a] \in n.reg THEN [n EXCEPT !.collision = @ \cup {Hash[a]}]
    ELSE [n EXCEPT !.reg = @ \cup {Hash[a]}]

\* Mutant: bits that several addresses share are cleared as well.
disallow_Mutant(n, as) == [n EXCEPT !.reg = @ \ {Hash[a] : a \in as}]
\* set_incoming_mac_address_allowed(mac, false), for each of a set.
disallow(n, as) == [n EXCEPT !.reg = @ \ ({Hash[a] : a \in as} \ n.collision)]

\* igmp_joingroup_netif()
igmp_join(n, g) ==
    [(IF n.use[g] = 0 THEN allow(n, g) ELSE n) EXCEPT !.use[g] = @ + 1]

\* igmp_leavegroup_netif(); it fails for a group that is not joined.
igmp_leave(n, g) ==
    CASE n.use[g] = 0 -> n
      [] n.use[g] = 1 -> [disallow(n, {g}) EXCEPT !.use[g] = 0]
      [] OTHER        -> [n EXCEPT !.use[g] = @ - 1]

\* igmp_stop()
igmp_stop(n) ==
    [disallow(n, {g \in Joinable : n.use[g] > 0}) EXCEPT !.use = [g \in Joinable |-> 0]]

-----------------------------------------------------------------------------
\* dhcp_start(); on failure the client's structure is cleared.
dhcp_start(n, ok) ==
    [n EXCEPT !.dhcp = CASE ~ok -> "off" [] ok /\ n.link -> "selecting" [] OTHER -> "init"]

\* dhcp_release_and_stop(): only a bound client gives its address back.
dhcp_release_and_stop(n) ==
    [n EXCEPT !.dhcp = "off", !.ip = IF n.dhcp = "bound" THEN "any" ELSE @]

\* Mutant: a client that waited for the link is left waiting.
dhcp_network_changed_link_up_Mutant(dhcp) == IF dhcp = "bound" THEN "rebooting" ELSE dhcp
\* dhcp_network_changed_link_up()
dhcp_network_changed_link_up(dhcp) ==
    CASE dhcp \in {"bound", "rebooting"} -> "rebooting"
      [] dhcp = "off"                    -> "off"
      [] OTHER                           -> "selecting"

netif_set_link_up(n) ==
    IF n.link THEN n
    ELSE [n EXCEPT !.link = TRUE, !.dhcp = dhcp_network_changed_link_up(@)]
netif_set_link_down(n) == [n EXCEPT !.link = FALSE]
netif_set_up(n) == [n EXCEPT !.up = TRUE]
netif_set_down(n) == [n EXCEPT !.up = FALSE]
netif_set_addr(n, ip) == [n EXCEPT !.ip = ip]

\* netif_add() with init_netif(): addresses, flags and client data are cleared,
\* the DHCP client is off, and the interface joins AllSystems.
netif_add(n) ==
    igmp_join([n EXCEPT !.added = TRUE, !.up = FALSE, !.link = FALSE,
                        !.ip = "any", !.dhcp = "off", !.host = NULL], AllSystems)

\* remove_netif() of lwip_driver.cpp
remove_netif(n) ==
    IF n.added THEN [igmp_stop(n) EXCEPT !.added = FALSE, !.up = FALSE] ELSE n

\* enet::init(), whose driver works; sameMac: s_mac is the address asked for.
enet_init(n, sameMac) ==
    LET m == IF sameMac THEN n ELSE remove_netif(n)
    IN  IF m.added THEN m ELSE netif_add(m)

\* enet::deinit(); driver::deinit() clears the bookkeeping of collisions, but
\* not the filter.
enet_deinit(n) == [remove_netif(n) EXCEPT !.collision = {}]

-----------------------------------------------------------------------------
\* mdns_resp_add_netif()
mdns_resp_add_netif(n) == igmp_join([n EXCEPT !.host = NoServices], MdnsGroup)

\* mdns_resp_remove_netif(); it fails if the host is not there.
mdns_resp_remove_netif(n) ==
    IF n.host = NULL THEN n ELSE [igmp_leave(n, MdnsGroup) EXCEPT !.host = NULL]

\* The first free slot, as mdns_resp_add_service() takes it; there may be none.
FreeSlots(n) ==
    {i \in Slots : n.host[i] = NULL /\ \A j \in Slots : j < i => n.host[j] # NULL}

\* mdns_resp_del_service(); it fails if the slot is free.
mdns_resp_del_service(n, i) ==
    IF n.host = NULL THEN n ELSE [n EXCEPT !.host[i] = NULL]

=============================================================================

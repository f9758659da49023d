----------------------------- MODULE MCEthernet -----------------------------
(* EthernetIf for TLC: the mDNS group shares a bit of the filter with an    *)
(* address that a program lets in, and AllSystems with a group it joins.    *)
EXTENDS EthernetIf

MCHash == [x \in Joinable \cup Addresses |->
              IF x \in Addresses \cup {MdnsGroup} THEN "bit1" ELSE "bit2"]

=============================================================================

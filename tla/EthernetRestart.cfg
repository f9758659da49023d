SPECIFICATION Spec
CONSTANTS
  Groups = {g1}
  Addresses = {a1}
  Hash <- MCHash
  AllSystems = AllSystems
  MdnsGroup = MdnsGroup
  Services = {s1, s2}
  NumSlots = 2
  NULL = NULL
  Macs = {m1, m2}
  SystemMac = m1
  MaxUse = 1
INVARIANT DhcpFlagAgrees

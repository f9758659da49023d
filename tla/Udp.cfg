SPECIFICATION Spec
CONSTANTS
  Sockets = {s1, s2, s3}
  TheSocket = s1
  Pcbs = {p1, p2}
  Ports = {80, 81}
  Groups = {g1, g2}
  NULL = NULL
  Blank = Blank
  Lens = {2}
  MaxCapacity = 3
  MaxPackets = 6
  MaxUse = 2
  MaxPayload = 1
  MoveOpen = FALSE
SYMMETRY Symmetry
CONSTRAINT Small
INVARIANTS QueueIsNewest PcbsAreOwned GroupsAreHeld
PROPERTY QueueSpec

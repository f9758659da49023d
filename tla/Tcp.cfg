CONSTANTS
    Pcbs = {p1, p2}
    Holders = {h1, h2}
    Ports = {port1}
    Clients = {c1, c2}
    NULL = NULL
    TCP_WND = 2
    MaxBytes = 3
SPECIFICATION Spec
SYMMETRY Symmetry
VIEW LiveState
CONSTRAINT Small
INVARIANTS
    ListIsExact
    CallbacksFindHolder
    StreamIntact
    HolderIsConsistent

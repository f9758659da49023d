CONSTANTS
    Pcbs = {p1}
    Holders = {h1}
    Ports = {port1}
    Clients = {c1}
    NULL = NULL
    TCP_WND = 1
    MaxBytes = 1
SPECIFICATION Spec
PROPERTY BufferedIsKept

SPECIFICATION Spec
CONSTANTS
    TCP_SND_BUF = 2
    MaxWnd = 2
    TCP_MAXRTX = 1
    MaxBytes = 3
    MaxCasts = 1
INVARIANT StreamExact
PROPERTIES
    WriteFullyReturns
    QueuedArrives
CHECK_DEADLOCK FALSE

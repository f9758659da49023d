SPECIFICATION Spec
CONSTANTS
    RxSize = 2
    TxSize = 2
    MaxFrames = 6
    MaxOut = 3
INVARIANTS
    FramesTakenOnce
    RingsMeet
    NoFrameWaits
    DmaIsTold
    TxInOrder
PROPERTIES
    OutputReturns
    RxDrains
CHECK_DEADLOCK FALSE

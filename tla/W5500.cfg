SPECIFICATION Spec
CONSTANTS
    Sizes = {1, 2}
    WrongLens = {0, 7}
    kMaxFrameLen = 1
    RxBufSize = 6
    InputBufSize = 5
    TxBufSize = 6
    OutLens = {3}
    Words = 7
    Start = 4
    MaxFrames = 3
    MaxOut = 2
INVARIANTS WholeFrames EndToEnd SendsAlone
PROPERTIES LoopReturns SendReturns ChipDrains
CHECK_DEADLOCK FALSE

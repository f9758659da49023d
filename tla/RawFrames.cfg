SPECIFICATION Spec
CONSTANTS
    Sizes = {1, 3}
    Capacities = {0, 1, 2, 3}
    MinLen = 1
    VlanLen = 1
    maxFrameLen = 3
    MaxFrames = 5
INVARIANTS QueueAddsUp ParsedOnce PositionFits

SPECIFICATION LinkFairSpec
CONSTANTS
    Bytes = {0, 1, 2}
    Frames <- MCFrames
    Capacity = 4
    FrameLimit = 2
    Burst = 3
INVARIANTS
    IdleMeansSent
    ListensUnlessOverrun
PROPERTIES
    ImplementsStream
    InterruptsSubside

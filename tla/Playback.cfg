SPECIFICATION FairSpec
CONSTANTS
    Carriers <- AllCarriers
    ChunkFrames = 3
    MarkEvery = 2
    MaxFrames = 5
    MaxInterrupts = 2
    MaxLate = 2
INVARIANTS NothingLost
PROPERTIES DrainHeardIt NothingStranded
CHECK_DEADLOCK FALSE

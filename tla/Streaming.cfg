SPECIFICATION FairSpec
CONSTANTS
    MaxAudio = 2
    MaxBargeIns = 1
    MarkEvery = 1
    CachedGreeting = TRUE
INVARIANTS
    TypeOK
    HandedOver
    PlayedOut
    InterruptedAudioIsGone
    LineIsReleased
PROPERTY
    StreamEnds
CHECK_DEADLOCK FALSE

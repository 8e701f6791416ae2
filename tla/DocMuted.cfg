SPECIFICATION Spec
CONSTANTS
    MaxAudio = 2
    MaxBargeIns = 1
    MarkEvery = 1
    CachedGreeting = TRUE
INVARIANT
    NotLeftMuted
CHECK_DEADLOCK FALSE

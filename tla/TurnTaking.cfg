SPECIFICATION FairSpec
CONSTANTS
    ConfirmFrames = 3
    HangoverFrames = 2
    MaxPause = 4
    IdleTicks = 1
    MaxNudges = 1
    StallTicks = 1
    DrainTicks = 3
    MaxAudio = 1
    MaxPauses = 2
    FrameKinds <- Speakerphone
PROPERTIES DecidedOnEvidence PauseEnds SilentLineIsClosed DrainEnds
CHECK_DEADLOCK FALSE

SPECIFICATION Spec
CONSTANTS
    ConfirmFrames = 2
    HangoverFrames = 1
    MaxPause = 1
    IdleTicks = 1
    MaxNudges = 1
    StallTicks = 0
    DrainTicks = 1
    MaxAudio = 1
    MaxPauses = 0
    FrameKinds = {"quiet", "echo"}
INVARIANT EchoIsNotTheCaller
CHECK_DEADLOCK FALSE

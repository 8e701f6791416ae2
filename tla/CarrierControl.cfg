SPECIFICATION Spec
CONSTANTS
    Carriers <- AllCarriers
    RingSeconds = 3
    MaxCallSeconds = 5
    Grace = 8
    StreamTTL = 5
    RetryMargin = 8
    MaxAttempts = 5
    MaxBackoff = 3
    MaxFailures = 2
INVARIANTS TypeOK VerdictIsTheLegs TokensOutliveUse OverdueLegIsEnded
PROPERTIES ConversationIsSpared
CHECK_DEADLOCK FALSE

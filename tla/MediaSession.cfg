SPECIFICATION FairSpec
CONSTANTS
    FlushEvery = 2
    MaxEvents = 4
    MaxCancels = 2
INVARIANTS WrittenOnce
PROPERTIES TeardownCompletes
CHECK_DEADLOCK FALSE

\* Two calls to one phone, one coordinator, no media and no operator.
SPECIFICATION Spec
CONSTANTS
    NCalls = 2
    PhoneOf <- OnePhone
    Worker = {w1}
    NoWorker = NoWorker
    Capacity = 1
    MaxReconcile = 1
    Verdict = {"completed"}
    EndReason = {}
    Commands = {}
CHECK_DEADLOCK FALSE
INVARIANTS
    LiveLegIsTracked
    OneLegPerPhone
    PhoneIndexHolds

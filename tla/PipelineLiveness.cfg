\* One call and one coordinator that may die at any await, and every end of its media.
SPECIFICATION FairSpec
CONSTANTS
    NCalls = 1
    PhoneOf <- OnePhone
    Worker = {w1}
    NoWorker = NoWorker
    Capacity = 1
    MaxReconcile = 2
    Verdict = {"no-answer", "completed"}
    EndReason = {"completed", "error"}
    Commands = {}
CHECK_DEADLOCK FALSE
PROPERTIES
    KeepsLedger
    SlotIsReleased

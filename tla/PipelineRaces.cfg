\* One call, two coordinators, media, and an operator.
SPECIFICATION Spec
CONSTANTS
    NCalls = 1
    PhoneOf <- OnePhone
    Worker = {w1, w2}
    NoWorker = NoWorker
    Capacity = 1
    MaxReconcile = 2
    Verdict = {"completed"}
    EndReason = {"client_disconnected"}
    Commands = {"resolve", "delete", "clear"}
SYMMETRY Coordinators
CHECK_DEADLOCK FALSE
INVARIANTS
    TypeOK
    NeverRedialed
    FinalizedExactly
PROPERTIES
    TerminalNeedsProof
    TerminalIsSticky
    SlotReleaseIsAccounted
    OnlyOwnerReconciles

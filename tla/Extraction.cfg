\* Two calls to one phone, two coordinators, two attempts, every deletion.
SPECIFICATION FairSpec
CONSTANTS
    NCalls = 2
    PhoneOf <- OnePhone
    Worker = {w1, w2}
    NoWorker = NoWorker
    Capacity = 1
    MaxReconcile = 1
    MaxAttempts = 2
    Verdict = {"completed"}
    EndReason = {"hung_up"}
CHECK_DEADLOCK FALSE
INVARIANTS
    TypeOK
    RecordsAgree
    DndIsSuppressed
    LeadsAreFlagged
PROPERTIES
    OnlyHolderRecords
    ResultIsFinal
    ExtractionEnds

SPECIFICATION Spec
CONSTANTS
    w1 = w1
    w2 = w2
    r1 = r1
    r2 = r2
    r3 = r3
    Worker = {w1, w2}
    Request = {r1, r2, r3}
    Configured <- TwoCarriers
    Seeds <- TwoSeeds
    TTL = 2
    MaxNow = 3
    MaxChanges = 1
SYMMETRY Interchangeable
INVARIANTS
    ChoiceIsFresh
CHECK_DEADLOCK FALSE

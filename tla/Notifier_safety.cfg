\* One recall, two owners of the affected unit; a failing call and a crash.
SPECIFICATION Spec
CONSTANTS
    RecallId = {1}
    Owner = {o1, o2}
    Unit = {1}
    Affects <- MCAffects
    BATCH_SIZE = 1
    MaxFaults = 1
    MaxCrashes = 1
    None = None
SYMMETRY MCSymmetry
CHECK_DEADLOCK FALSE
INVARIANTS
    NotifiedCoversEntitled
    ResendsBounded

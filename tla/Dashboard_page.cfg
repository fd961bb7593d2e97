\* Two accounts, two batches.
SPECIFICATION Spec
CONSTANTS
    Account = {a1, a2}
    Batch = {b1, b2}
    MaxConnects = 2
    MaxLoads = 2
    MaxSubmissions = 2
    MaxFaults = 1
    None = None
SYMMETRY MCSymmetry
CHECK_DEADLOCK FALSE
INVARIANTS
    ShownIsOfWallet
    RepeatsNeedALostForm
    RecallsNameOwnBatches
PROPERTIES
    ListNeverShrinks

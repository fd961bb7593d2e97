\* Two manufacturers and holders, two batches, ranges over three of four serials.
SPECIFICATION Spec
CONSTANTS
    Address = {a1, a2}
    BatchId = {ZeroHash, b1, b2}
    MessageHash = {ZeroHash, h1}
    ZeroHash = ZeroHash
    Name = {0, 64, 129}
    NameLength <- MCNameLength
    Severity = {Warning}
    ManufacturedDate = {0, 1}
    U64Max = 3
    Serial = {0, 1, 3}
    MaxEvents = 6
    None = None
SYMMETRY MCSymmetry
CHECK_DEADLOCK FALSE
INVARIANTS
    IInv
    SerialGenuineOnce
    EventsMirrorStorage
    EventsCausallyOrdered
    RecallsCoverGenuineSerials
    MyRecallsExact
    ReceiptsHeldOnce
PROPERTIES
    VerdictStable
    RecallsAppendOnly
    ImplementsLedger

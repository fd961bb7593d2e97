\* The indexer joins late, pages end inside ledgers, the node forgets what an indexer
\* that was down has not read (latest > savedCursor + Retention), a call
\* fails, the process crashes.
SPECIFICATION FairSpec
CONSTANTS
    Account = {m1, m2}
    Owner = {o1}
    BatchId = {b1, b2}
    START_LEDGER = 0
    Limit = 2
    Retention = 2
    MaxEvents = 4
    MaxPerLedger = 2
    MaxLedger = 4
    MaxFaults = 1
    MaxCrashes = 1
    None = None
CHECK_DEADLOCK FALSE
INVARIANTS
    MirrorSound
    LossesHaveCause
PROPERTIES
    RerunChangesNothing
    EventuallyMirrored
    ImplementsMirror

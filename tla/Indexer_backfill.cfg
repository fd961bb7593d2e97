\* INDEXER_START_LEDGER is set and there are more events than one page.
SPECIFICATION FairSpec
CONSTANTS
    Account = {m1}
    Owner = {o1}
    BatchId = {b1}
    START_LEDGER = 1
    Limit = 2
    Retention = 5
    MaxEvents = 3
    MaxPerLedger = 1
    MaxLedger = 5
    MaxFaults = 0
    MaxCrashes = 0
    None = None
CHECK_DEADLOCK FALSE
PROPERTIES
    BackfillCompletes

\* Two recalls of overlapping ranges, more than one poll takes; one owner.
SPECIFICATION FairSpec
CONSTANTS
    RecallId = {1, 2}
    Owner = {o1}
    Unit = {1, 2}
    Affects <- MCAffects
    BATCH_SIZE = 1
    MaxFaults = 1
    MaxCrashes = 1
    None = None
CHECK_DEADLOCK FALSE
INVARIANT SendsAreOnRecord
PROPERTIES
    NotifiedIsFinal
    EventuallyNotified

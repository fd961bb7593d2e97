\* Three runs, two possible admins, two interruptions.
SPECIFICATION Spec
CONSTANTS
    Account = {d, a}
    Deployer = d
    MaxRuns = 3
    MaxFaults = 2
    None = None
CHECK_DEADLOCK FALSE
INVARIANTS
    IInv
    RecordIsTrue
    GivenUpIsFinal
PROPERTIES
    RunEnds

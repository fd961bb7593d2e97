\* A recall form and a batch form of one account, three transactions, a lost
\* answer; long enough for a transaction to expire and its wait to end.
SPECIFICATION Spec
CONSTANTS
    Form = {recall, batch}
    Repeatable = {recall}
    TxTimeout = 1
    WaitTimeout = 3
    MaxPollDelay = 1
    MaxAttempts = 3
    MaxTime = 5
    MaxFaults = 1
CHECK_DEADLOCK FALSE
INVARIANTS
    TimeoutIsFinal
    RepeatsNeedLostAnswers
    ReportsAreTrue

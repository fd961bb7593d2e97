\* Two codes, three requests, two openings of the scanner.
SPECIFICATION ScanSpec
CONSTANTS
    Code = {c1, c2}
    MaxRequests = 3
    MaxMounts = 2
    NoCode = NoCode
CHECK_DEADLOCK FALSE
INVARIANTS
    VerdictIsOfLastRequest
    CheckingMeansPending
    CameraIsAttended

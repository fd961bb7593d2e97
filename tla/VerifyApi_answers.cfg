\* Two concurrent requests about one serial of a batch of up to two; the clock
\* runs past the lifetime of a cache entry and of the requests around it.
SPECIFICATION Spec
CONSTANTS
    Request = {r1, r2}
    BatchId = {b1}
    Serial = {s1, s2}
    Asked = {s1}
    TTL = 1
    MaxDuration = 1
    RpcFails = TRUE
    MaxTime = 4
    MaxRecalls = 1
    None = None
SYMMETRY MCSymmetry
INVARIANTS
    VerdictsNeverContradictChain
    AnswersShowIndexedRecalls
    UnregisteredExpires

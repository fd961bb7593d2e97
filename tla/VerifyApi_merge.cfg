\* The contract always answers, the indexer lags.
SPECIFICATION Spec
CONSTANTS
    Request = {r1}
    BatchId = {b1}
    Serial = {s1}
    Asked = {s1}
    TTL = 1
    MaxDuration = 1
    RpcFails = FALSE
    MaxTime = 3
    MaxRecalls = 1
    None = None
INVARIANT AnswersMergeChainRecalls

SPECIFICATION FairSpec
CONSTANTS
    ProofHash = {p1}
    CodeHash = {c1}
    ChainId = {k1}
    Address = {a1}
    Payload = {d1}
    Sender = {s1}
    MaxHead = 3
    MaxLogs = 2
    Persistent = TRUE
    HasFromBlock = FALSE
    FromBlock = 0
    BootBatch = 1
    LiveBatch = 2
    MaxRpcFailures = 0
    MaxThrows = 1
    MaxCrashes = 0
    MaxLag = 0
CHECK_DEADLOCK FALSE
PROPERTY EventuallyIndexed

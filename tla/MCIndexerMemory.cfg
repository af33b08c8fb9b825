SPECIFICATION FairSpec
CONSTANTS
    ProofHash = {p1, p2}
    CodeHash = {c1}
    ChainId = {k1}
    Address = {a1, a2}
    Payload = {d1}
    Sender = {s1}
    MaxHead = 3
    MaxLogs = 2
    Persistent = FALSE
    HasFromBlock = FALSE
    FromBlock = 0
    BootBatch = 1
    LiveBatch = 2
    MaxRpcFailures = 1
    MaxThrows = 0
    MaxCrashes = 1
    MaxLag = 0
CHECK_DEADLOCK FALSE
INVARIANTS NoGap LiveRowsAnnounced ProofsBeforeDeployments
PROPERTY EventuallyIndexed

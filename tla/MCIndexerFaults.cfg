SPECIFICATION Spec
CONSTANTS
    ProofHash = {p1, p2}
    CodeHash = {c1}
    ChainId = {k1}
    Address = {a1, a2}
    Payload = {d1}
    Sender = {s1}
    MaxHead = 3
    MaxLogs = 2
    Persistent = TRUE
    HasFromBlock = TRUE
    FromBlock = 1
    BootBatch = 1
    LiveBatch = 2
    MaxRpcFailures = 1
    MaxThrows = 1
    MaxCrashes = 1
    MaxLag = 1
CHECK_DEADLOCK FALSE
SYMMETRY Symmetry
INVARIANTS TypeOK SkippedOnlyByFaults CursorOnRow
PROPERTY ImplementsStream

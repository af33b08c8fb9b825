SPECIFICATION SubSpec
CONSTANTS
    Zero = Zero
    ProofHash <- MCProof
    Payload <- MCProof
    Compiles <- MCCompiles
    CodeHash = {c1}
    ChainId = {k1, k2}
    Address = {a1}
    Sender = {s1}
    Source = {src1}
    Call = {x1, x2}
    MaxTime = 1
    MaxHead = 1
    MaxLogs = 12
CHECK_DEADLOCK FALSE
INVARIANT FallsBackToPropagation

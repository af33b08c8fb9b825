SPECIFICATION BatchSpec
CONSTANTS
    Zero = Zero
    ProofHash <- MCProof
    Payload <- MCProof
    Compiles <- MCCompiles
    Call <- MCCall
    CodeHash = {c1}
    ChainId = {k1, k2, k3}
    Address = {a1}
    Sender = {s1}
    Source = {src1}
    Targets = 2
    Lists <- MCAllLists
    Concurrency = 2
    MaxTime = 0
    MaxHead = 1
    MaxLogs = 12
CHECK_DEADLOCK FALSE
INVARIANT ReadyTargetsRegister

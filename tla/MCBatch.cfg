SPECIFICATION BatchFairSpec
CONSTANTS
    Zero = Zero
    ProofHash <- MCProof
    Payload <- MCProof
    Compiles <- MCCompiles
    Call <- MCCall
    CodeHash = {c1}
    ChainId = {k1, k2}
    Address = {a1}
    Sender = {s1}
    Source = {src1}
    Targets = 3
    Lists <- MCDuplicate
    Concurrency = 2
    MaxTime = 0
    MaxHead = 1
    MaxLogs = 12
CHECK_DEADLOCK FALSE
INVARIANTS EachTargetAnswered NoTargetTwice SuccessIsRegistered ReadyTargetsRegisterSerially
PROPERTY BatchAnswers

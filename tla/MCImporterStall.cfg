SPECIFICATION ImportFairSpec
CONSTANTS
    k1 = k1
    ProofHash <- MCJob
    CodeHash <- MCCodes
    ChainId = {k1}
    Address = {1, 2}
    Payload <- MCJob
    Sender = {"importer", "stranger"}
    Zero = Zero
    MaxHead = 1
    MaxLogs = 12
    Account = "importer"
    Listings <- MCListings
    Options <- MCOptions
    MaxFaults = 0
    MaxStrangers = 1
CHECK_DEADLOCK FALSE
PROPERTY ImportEnds

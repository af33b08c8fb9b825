SPECIFICATION MCSpec
CONSTANTS
    k1 = k1
    k2 = k2
    k3 = k3
    MaxEvents = 3
    Proofs <- MCProofs
    RecentLimit = 1
    ListCap = 2
    MaxCalls = 2
    Budgets <- MCBudgets
    ProofHash <- MCJob
    CodeHash <- MCCodes
    ChainId = {k1, k2}
    Address = {1, 2}
    Payload <- MCJob
    Sender = {"importer", "stranger"}
    Zero = Zero
    MaxHead = 1
    MaxLogs = 12
    Account = "importer"
    Listings <- MCListings
    Options <- MCOptions
    MaxFaults = 1
    MaxStrangers = 1
    HookInputs <- MCHookInputs
    Implementation = {1, 2}
    MaxUpgrades = 2
CHECK_DEADLOCK FALSE
INVARIANTS ToastsInOrder MissingOnlyWhatWasLost StatsAddUp NonceGapsExplained ImportedReverifies HookTargetRight ProxyExplained
PROPERTY StatsCatchUp

SPECIFICATION ProxySpec
CONSTANTS
    Implementation = {1, 2}
    MaxUpgrades = 0
CHECK_DEADLOCK FALSE
INVARIANT EverySlotCanBeRead

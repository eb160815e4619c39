SPECIFICATION Spec
CONSTANTS
    PageSize = 2
    MaxHeight = 2
    MaxWithdrawals = 2
    MaxFaults = 1
    None = None
PROPERTIES
    SolanaStoredAtLast
CHECK_DEADLOCK FALSE

SPECIFICATION Spec
CONSTANTS
    BatchSize = 2
    Attempts = 2
    MaxEvents = 5
    MaxFaults = 1
    MaxIds = 5
    Networks <- MCNetworks
    Supported <- MCSupported
    Seeds = {s1}
    None = None
INVARIANTS
    QuietIsChain
    CachedItemFresh
    CachedListComplete
CHECK_DEADLOCK FALSE

SPECIFICATION Spec
CONSTANTS
    BatchSize = 2
    Attempts = 2
    MaxEvents = 5
    MaxFaults = 1
    MaxItems = 1
    MaxIds = 6
    Networks = {n1, n2}
    Supported = {n1}
    Values = {v1, v2}
    None = None
SYMMETRY Symmetric
INVARIANTS
    TypeOK
    QuietIsChain
    CachedCollectionFresh
    LostForAReason
CHECK_DEADLOCK FALSE

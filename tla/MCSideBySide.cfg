SPECIFICATION SpecAll
CONSTANTS
    Components = {"genesis", "bridge", "evidence", "pages", "builder", "item", "stream"}
    Savers = {s1, s2}
    NumCollections = 2
    NumItems = 2
    MaxCrashes = 1
    None = None
    PageSize = 2
    MaxHeight = 2
    MaxWithdrawals = 3
    MaxFaults = 1
    EvidenceTables = {confirmations, approvals}
    UniqueTables = {confirmations}
    Operations = {o1, o2}
    Callers = {q1, q2}
    MaxRows = 2
    Times = {1, 2}
    Limit = 2
    Readers = {r1}
    MaxTransfers = 2
    Configured <- MCConfigured
    MaxChanges = 1
    Origins = {w1, w2}
    StreamTimes = {1, 2}
INVARIANTS
    TypesOK
    MissingMappingsAreLeft
    DoneIsSaved
    CursorCovered
    CachedListSound
    NotBuiltForAReason
    CrashOnlyOnUndecodedId
    ServedUnlessDisturbed
    NotFoundOnlyIfMissing
PROPERTIES
    SaversFinish
    StoredAtLast
    LostOnlyToNewer
    ListenerLearns
CHECK_DEADLOCK FALSE

SPECIFICATION SpecAll
CONSTANTS
    Components = {"pages"}
    Savers = {s1}
    NumCollections = 1
    NumItems = 1
    MaxCrashes = 0
    None = None
    PageSize = 1
    MaxHeight = 1
    MaxWithdrawals = 0
    MaxFaults = 0
    EvidenceTables = {approvals}
    UniqueTables = {}
    Operations = {o1}
    Callers = {q1}
    MaxRows = 1
    Times = {1, 2}
    Limit = 2
    Readers = {r1}
    MaxTransfers = 3
    Configured <- MCConfigured
    MaxChanges = 0
    Origins = {w1}
    StreamTimes = {1}
INVARIANTS
    WalkSeesAllOnce
CHECK_DEADLOCK FALSE

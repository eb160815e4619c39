SPECIFICATION SpecAll
CONSTANTS
    m1 = m1
    m2 = m2
    r1 = r1
    r2 = r2
    Msgs = {m1, m2}
    PrefetchLimit = 2
    Attempts = 2
    MaxRuns = 2
    MaxStarts = 1
    Ranges = {r1, r2}
    RangeOf <- TwoRanges
    Pages <- TwoAndOne
    Transfers = {t1, t2}
    Statuses <- MCStatuses
    Filters <- MCFilters
    Writers = {w1, w2}
    Readers = {q1}
    None = None
    MaxWrites = 2
SYMMETRY Symmetric
INVARIANTS
    PageCursorCovered
    HandledIsSent
    RowsMissingOnlyIfPassedBy
    FreshUnlessOutrun
PROPERTIES
    ImplementsCursorLog
CHECK_DEADLOCK FALSE

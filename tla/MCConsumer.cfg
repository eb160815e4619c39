SPECIFICATION FairSpec
CONSTANTS
    Msgs = {m1, m2, m3}
    PrefetchLimit = 2
    Attempts = 2
    MaxRuns = 3
    MaxStarts = 2
INVARIANTS
    SettledOnlyAfterEffort
PROPERTIES
    ReadyIsSettled
CHECK_DEADLOCK FALSE

SPECIFICATION Spec
CONSTANTS
    Msgs = {m1}
    PrefetchLimit = 1
    Attempts = 2
    MaxRuns = 1
    MaxStarts = 1
INVARIANTS
    NothingLost
CHECK_DEADLOCK FALSE

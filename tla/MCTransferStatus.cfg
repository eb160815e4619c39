SPECIFICATION Spec
CONSTANTS
    Transfers = {t1, t2}
    MaxSubmits = 2
    MaxRepeats = 2
SYMMETRY Symmetry
CONSTRAINT Bounds
INVARIANTS
    StatusFollowsEvidence
    QuietIsChain
CHECK_DEADLOCK FALSE

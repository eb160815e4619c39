SPECIFICATION Spec
CONSTANTS
    Ranges <- MCRanges
    Heights <- MCHeights
    MaxDeliveries = 4
INVARIANTS
    CursorsCovered
    HandledIsSent
    BlocksInOrder
    RowsMissingOnlyIfPassedBy
PROPERTIES
    ImplementsCursorLog
CHECK_DEADLOCK FALSE

SPECIFICATION FairSpec
CONSTANTS
    BlockRangeLimit = 2
    MaxHeight = 5
    SpecialCaseBlocks <- MCSpecialCaseBlocks
INVARIANTS
    CursorCovered
    FreshUnlessUnsaved
PROPERTIES
    ImplementsCursorLog
    EveryBlockAnnounced

SPECIFICATION Spec
CONSTANTS
    BlockRangeLimit = 2
    MaxHeight = 5
    SpecialCaseBlocks <- NoSpecialCaseBlocks
INVARIANTS
    EveryBlockHandled

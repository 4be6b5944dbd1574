SPECIFICATION Spec
CONSTANTS
    WordCounts <- MCWordCounts
    Sizes <- MCSizes
    Overlaps <- MCOverlaps
    DefaultSize = 8
INVARIANTS
    LoopInv
    ClosedForm
    EveryWordIsKept
    WindowsOverlap
    RowsAreFilled
    MatchesReference
PROPERTIES
    LoopAdvances
CHECK_DEADLOCK FALSE

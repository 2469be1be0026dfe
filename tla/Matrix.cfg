SPECIFICATION LoopSpec
CONSTANTS
    IntLimit = 8
    LongLimit = 64
    MaxSize = 3
    Lengths <- MCLengths
INVARIANTS
    NoOverflow
    VerdictCorrect
CHECK_DEADLOCK FALSE

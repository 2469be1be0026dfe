SPECIFICATION FairSpec
CONSTANTS
    b1 = b1
    b2 = b2
    b3 = b3
    k1 = k1
    k2 = k2
    Blocks = {b1, b2}
    Methods = {b2}
    Keys = {k1, k2}
    Values = {"result"}
    CounterSize = 4
    TimeLimited = TRUE
    QueueLimited = TRUE
    NoBlock = NoBlock
    NoKey = NoKey
INVARIANT
    IInv
PROPERTIES
    RefinesService
    CompletionsArrive
    StopReturns
CHECK_DEADLOCK FALSE

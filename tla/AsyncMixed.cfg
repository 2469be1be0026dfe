SPECIFICATION Spec
CONSTANTS
    b1 = b1
    b2 = b2
    b3 = b3
    k1 = k1
    k2 = k2
    Blocks = {b1, b2, b3}
    Methods = {b3}
    Keys = {k1, k2}
    Values = {"result"}
    CounterSize = 4
    TimeLimited = TRUE
    QueueLimited = TRUE
    NoBlock = NoBlock
    NoKey = NoKey
SYMMETRY MCSymmetry
INVARIANTS
    RegistryAgrees
    NoLostCompletion
    InflightExact
    NoPushAfterShutdown
    LostOnlyWhenCancelled
PROPERTIES
    AnswerFinal
    DrainDecides
CHECK_DEADLOCK FALSE

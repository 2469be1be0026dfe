SPECIFICATION Spec
CONSTANTS
    Nodes = {"io", "twin", "property", "method", "argument"}
    Kind <- MCKind
    Id <- MCId
    Root = "Objects"
    Managers = {"m1", "m2"}
    NoManager = "null"
    MaxStarts = 2
INVARIANTS
    NoUseAfterDelete
    ListMatchesSpace
    StopReleases
    ServerInv
PROPERTIES
    NoReadLostInStart
    StopReturns
CHECK_DEADLOCK FALSE

SPECIFICATION FairSpec
CONSTANTS
    t1 = t1
    t2 = t2
    main = main
    Threads <- MCThreads
    Callers <- MCCallers
    Owner = main
    CountSize = 8
    Initial = 0
    MaxRange = 2
    Releases <- MCReleases
    MaxStarts = 2
    MaxCalls = 2
INVARIANTS
    NobodyOverlooked
    TokensNotInvented
    NoUseAfterDestroy
PROPERTIES
    JoinEnds
CHECK_DEADLOCK FALSE

SPECIFICATION FairSpec
CONSTANTS
    r1 = r1
    r2 = r2
    number = number
    text = text
    unknown = unknown
    Requests <- MCRequests
    NoRequest = NoRequest
    Nodes <- MCNodes
    NodesToRead <- MCNodesToRead
    Variables <- MCVariables
    IoVariables <- MCIoVariables
    Nullable <- MCNullable
    Timestamps <- MCTimestamps
    Results <- MCResults
    Nothing = Nothing
    QueueLimit = 2
    TimeLimited = TRUE
    Pending = Pending
    Refused = Refused
INVARIANTS
    CountsAgree
PROPERTIES
    RefinesReadService
    EveryReadAnswered
CHECK_DEADLOCK FALSE

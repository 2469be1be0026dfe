SPECIFICATION Spec
CONSTANTS
    Threads = {"t1", "t2"}
    Clients = {1, 2}
    NoClient = 0
    NoThread = "nobody"
    Methods = {"connect", "disconnect", "read", "write", "call", "browse", "serverStatus"}
    MaxNodes = 2
INVARIANTS
    NoDeletedClient
    OneLockedAtATime
    SessionInv
PROPERTIES
    ResultsAligned
    MutexIsReleased
CHECK_DEADLOCK FALSE

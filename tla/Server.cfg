CONSTANTS
    Clients = {c1, c2}
    MaxRequests = 2
    MaxRoots = 1
SPECIFICATION FairSpec
INVARIANTS
    PoolClosedAfterHandlers
    RequestsInSync
    ShutdownReturnsWhenDone
    ServerInv

    
CHECK_DEADLOCK FALSE

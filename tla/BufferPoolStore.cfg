CONSTANTS
    g1 = g1
    g2 = g2
    g3 = g3
    v0 = v0
    v1 = v1
    Guards <- MCGuards2
    Pages = {0, 1, 2}
    PoolSize = 2
    Values <- MCValues2
    InitValue = v0
    IOErrors = FALSE
SPECIFICATION Spec
SYMMETRY GuardSymmetry
INVARIANTS
    CleanFramesMatchDisk
    CloseIsDurable
PROPERTY
    ImplementsPageStore
CHECK_DEADLOCK FALSE

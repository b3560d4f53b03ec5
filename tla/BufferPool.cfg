CONSTANTS
    g1 = g1
    g2 = g2
    g3 = g3
    v0 = v0
    v1 = v1
    Guards <- MCGuards3
    Pages = {0, 1, 2}
    PoolSize = 2
    Values <- MCValue1
    InitValue = v0
    IOErrors = TRUE
SPECIFICATION Spec
SYMMETRY GuardSymmetry
INVARIANTS
    SingleCopy
    GuardKeepsItsPage
    PinsMatchGuards
    FrameRoles
    WriterIsAlone
    CrashOnlyWhenExhausted
    PoolInv
CHECK_DEADLOCK FALSE

SPECIFICATION FairSpec
CONSTANTS
    Clients = {c1}
    Trees <- Trees2
    Keys <- Keys10
    Values = {short, long}
    short = short
    long = long
    KeySize = 700
    ValueSize <- Sizes
    Plans <- SequentialPlans
    PoolSize = 5
    MaxPageId = 10
    MaxFailAt = 0
    Logged <- AlwaysLogged
INVARIANTS
    TypeOK
    RecoverySucceeds
    RedoesCommitted
    NothingUncommittedOnDisk
    PagesOwned
    GuardsReleased
PROPERTIES
    RecoveryRestores
    ImplementsRedoLog
    RecoveryEnds
CHECK_DEADLOCK FALSE

SPECIFICATION Spec
CONSTANTS
    Clients = {c1, c2}
    Trees <- Trees1
    Keys <- Keys10
    Values = {short, long}
    short = short
    long = long
    KeySize = 700
    ValueSize <- Sizes
    Plans <- SameTree
    PoolSize = 5
    MaxPageId = 10
    MaxFailAt = 0
    Logged <- AlwaysLogged
PROPERTY
    RecoveryRestores
CHECK_DEADLOCK FALSE

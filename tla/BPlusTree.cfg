SPECIFICATION Spec
CONSTANTS
    Keys <- Keys5
    Deletable <- Keys5
    Values = {v1, v2}
    KeySize = 12
    ValueSize <- Bytes1000
    MaxPageId = 12
    MaxFailAt = 0
    Reopens = FALSE
INVARIANTS
    LookupMatches
    SpaceAccounted
    
PROPERTIES
    ImplementsOrderedLeaves
CHECK_DEADLOCK FALSE

SPECIFICATION Spec
CONSTANTS
    Keys <- Keys10
    Deletable <- NoKeys
    Values = {v1}
    KeySize = 700
    ValueSize <- Bytes500
    MaxPageId = 13
    MaxFailAt = 0
    Reopens = TRUE
INVARIANTS
    TreeInOrder
    SiblingsInOrder
    PagesAccounted
CHECK_DEADLOCK FALSE

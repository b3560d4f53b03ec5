SPECIFICATION IteratorFairSpec
CONSTANTS
    Iterators = {i1}
    Keys <- Keys6
    Deletable = {2, 5}
    Values = {v1}
    KeySize = 12
    ValueSize <- Bytes1000
    MaxPageId = 10
    MaxFailAt = 0
    Reopens = FALSE
    ReadErrors = FALSE
    IterateClosed = FALSE
INVARIANTS
    PassesInOrder
    PassesEveryKey
PROPERTIES
    ImplementsLeafCursors
    IterationEnds
CHECK_DEADLOCK FALSE

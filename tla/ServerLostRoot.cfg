CONSTANTS
    Clients = {c1, c2}
    MaxRequests = 2
    MaxRoots = 1
SPECIFICATION Spec
INVARIANT
    InsertedSurvives
CHECK_DEADLOCK FALSE

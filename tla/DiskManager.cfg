CONSTANTS
    MaxPageId = 4
    Growth = 2
    FreeSlots = 3
    IOErrors = TRUE
SPECIFICATION Spec
INVARIANTS
    
    
    PagesAreInFile

    

CONSTANTS
    A = A
    B = B
    NoId = NoId
    Ids = {A, B}
    Contents <- AllContents
    MaxLength = 2
    MaxAttempts = 2
    MaxEdits = 1
    Adapters = {"sqlite", "postgres", "oracle"}
    MaxChanges = 2
SPECIFICATION PartSpec
INVARIANTS
    HistorySafety
    
PROPERTIES
    MetadataSteps
CHECK_DEADLOCK FALSE
SYMMETRY IdSymmetry

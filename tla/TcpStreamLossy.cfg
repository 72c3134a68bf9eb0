SPECIFICATION Spec
CONSTANTS
    Mss = 2
    Writes <- MCWritesLossy
    Reads <- MCReads
    MayClose = TRUE
    MaxDrops = 3
    MaxBytes = 10
INVARIANTS
    AcksMatch
PROPERTIES
    IsByteStream
CHECK_DEADLOCK FALSE

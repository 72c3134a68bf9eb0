SPECIFICATION FairSpec
CONSTANTS
    Mss = 2
    Writes <- MCWrites
    Reads <- MCReads
    MayClose = TRUE
    MaxDrops = 0
    MaxBytes = 8
PROPERTIES
    StreamFlows
CHECK_DEADLOCK FALSE

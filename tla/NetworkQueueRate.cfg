SPECIFICATION FairSpec
CONSTANTS
    Sizes <- MCSizes
    MaxQueueSize = 3
    Latency = 1
    TimePerByte = 1
    Reentrant = FALSE
    LastArrival = 3
    MaxPackets = 4
INVARIANTS
    WithinLimit
PROPERTIES
    IsDelayLine
    EveryPacketLeaves
CHECK_DEADLOCK FALSE

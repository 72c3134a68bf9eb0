SPECIFICATION FairSpec
CONSTANTS
    Lens <- MCLens
    Overhead = 1
    Buffers <- MCBuffers
    RecvLimit = 4
    SendQueueTime = 4
    TimePerByte = 1
    AbortsWait = FALSE
    MaxOpens = 2
    MaxDatagrams = 3
    LastEvent = 2
INVARIANTS
    ReaderAwake
PROPERTIES
    OnlyCurrentDelivered
    WaitWriteCompletes
CHECK_DEADLOCK FALSE

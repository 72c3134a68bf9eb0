SPECIFICATION FairSpec
CONSTANTS
    c1 = c1
    c2 = c2
    p1 = p1
    Connectors <- MCOneConnector
    Peers <- MCOnePeer
    Acceptor = Acceptor
    Nowhere = Nowhere
    NoSocket = NoSocket
    MayCancel = FALSE
    MayReuseUnread = FALSE
    MaxConnects = 2
    MaxDrops = 1
INVARIANTS
    PacketsExpected
    OneEndEachSide
    ReadsOwnStream
PROPERTIES
    ConnectCompletes
    CloseIsSeen
CHECK_DEADLOCK FALSE

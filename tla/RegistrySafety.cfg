SPECIFICATION Spec
CONSTANTS
    t1 = t1
    t2 = t2
    t3 = t3
    u1 = u1
    u2 = u2
    TcpSockets <- MCTcp
    UdpSockets <- MCUdp
    NoEndpoint = NoEndpoint
    Ips <- MCIps
    BindPorts <- MCBindPorts
    FirstPort = 2
    FirstEphemeral = 3
    ScanLimit = 4
    LastEphemeral = 5
    MayBindAgain = FALSE
SYMMETRY MCSymmetry
INVARIANTS
    NoStaleEntry
    OneOwner
    BoundIsFound
CHECK_DEADLOCK FALSE

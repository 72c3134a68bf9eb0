SPECIFICATION FairSpec
CONSTANTS
    c1 = c1
    c2 = c2
    Clients <- MCClients
    Scenes <- MCScenes
    MaxData = 2
    MaxPackets = 3
INVARIANTS
    StreamsKept
    OneUserPerBuffer
    
    MemorySafe
PROPERTIES
    Answered
    Released
CHECK_DEADLOCK FALSE

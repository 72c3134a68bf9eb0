SPECIFICATION FairSpec
CONSTANTS
    c1 = c1
    c2 = c2
    Clients <- MCClients
    NoClient = NoClient
    Kinds <- MCFew
    MaySets <- MCOrderly
    InSize = 2
    OutSize = 2
    MaxSegment = 2
    MaxUnits = 3
INVARIANTS
    FreshWhenIdle
    
    RelaysInOrder
PROPERTIES
    RequestsAnswered
    LetsGo
CHECK_DEADLOCK FALSE

SPECIFICATION FairSpec
CONSTANTS
    c1 = c1
    c2 = c2
    c3 = c3
    Clients <- MCClients
    NoClient = NoClient
    FlagSets <- MCFlagSets
    Kinds <- MCKinds
    MinSize = 2
    MayOverrun = FALSE
    MayGiveUp = FALSE
    MaxUnits = 3
INVARIANTS
    ChainKept
    AnswersOwnRequests
    CloseIsAnnounced
PROPERTIES
    RequestsAnswered
    WaitingAccepted
CHECK_DEADLOCK FALSE

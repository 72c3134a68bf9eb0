SPECIFICATION FairSpec
CONSTANTS
    Latencies <- MCLatencies
    LiteralLatency = 2
    Literals = TRUE
    CancelFrom <- MCFromIdle
    MaxLookups = 3
    MaxOutstanding = 3
    LastCall = 4
INVARIANTS
    AnsweredInTurn
PROPERTIES
    EveryLookupAnswered
CHECK_DEADLOCK FALSE

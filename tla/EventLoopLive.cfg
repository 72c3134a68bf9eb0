SPECIFICATION FairSpec
CONSTANTS
    t1 = t1
    t2 = t2
    t3 = t3
    Timers <- MCTwoTimers
    Times <- MCTimes
    Durations <- MCDurations
    PastAllowed = FALSE
    MaxStalled = 1
    MaxTime = 2
    MaxReady = 2
INVARIANTS
    NeverLate
PROPERTIES
    WaitCompletes
CHECK_DEADLOCK FALSE

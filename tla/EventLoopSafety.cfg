SPECIFICATION Spec
CONSTANTS
    t1 = t1
    t2 = t2
    t3 = t3
    Timers <- MCThreeTimers
    Times <- MCTimes
    Durations <- MCDurations
    PastAllowed = TRUE
    MaxStalled = 1
    MaxTime = 2
    MaxReady = 2
SYMMETRY MCSymmetry
INVARIANTS
    TimerQueueComplete
    OnTime
PROPERTIES
    ArmingOrderKept
CHECK_DEADLOCK FALSE

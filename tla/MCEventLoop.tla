---------------------------- MODULE MCEventLoop ----------------------------
(* Small instances of EventLoop for TLC. *)
EXTENDS EventLoop, FiniteSets, TLC

CONSTANTS t1, t2, t3

MCTwoTimers == {t1, t2}
MCThreeTimers == {t1, t2, t3}
MCTimes == 0..2
MCDurations == {0, 1}
MCSymmetry == Permutations({t1, t2, t3})

=============================================================================

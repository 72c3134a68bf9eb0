------------------------------ MODULE DelayLine ------------------------------
(***************************************************************************)
(* What a sim::queue promises ("a network node with a specific rate limit, *)
(* propagation delay and queue size", README.rst): a first-in first-out    *)
(* line in which the time a packet leaves is settled the moment it is      *)
(* accepted.  A packet starts to be sent once it has travelled for Latency *)
(* and its predecessor is gone, and takes TimePerByte for each byte.       *)
(***************************************************************************)
EXTENDS Integers, Sequences

CONSTANTS
    Ids,          \* the packets
    Sizes,        \* the sizes a packet can have, in bytes, overhead included
    Latency,      \* m_forwarding_latency
    TimePerByte   \* the inverse of m_bandwidth, 0 for an unlimited rate

VARIABLES
    now,       \* the simulated time
    line,      \* the packets accepted and not forwarded, with their leave time
    lastLeave, \* the time the packet accepted last leaves
    gone       \* the packets forwarded, in order

vars == <<now, line, lastLeave, gone>>

Later(a, b) == IF a < b THEN b ELSE a

\* The time at which a packet of n bytes leaves when it is accepted at time t
\* behind a packet that leaves at time last.
LeaveTime(t, last, n) == Later(t + Latency, last) + TimePerByte * n

Init ==
    /\ now = 0
    /\ line = <<>>
    /\ lastLeave = 0
    /\ gone = <<>>

Accept(id, n) ==
    /\ lastLeave' = LeaveTime(now, lastLeave, n)
    /\ line' = Append(line, [id |-> id, leave |-> lastLeave'])
    /\ UNCHANGED <<now, gone>>

Leave ==
    /\ line # <<>>
    /\ Head(line).leave = now
    /\ line' = Tail(line)
    /\ gone' = Append(gone, Head(line).id)
    /\ UNCHANGED <<now, lastLeave>>

\* Time passes, but not beyond the moment the first packet has to leave.
Tick ==
    /\ line # <<>> => now < Head(line).leave
    /\ now' = now + 1
    /\ UNCHANGED <<line, lastLeave, gone>>

Next == Leave \/ Tick \/ \E n \in Sizes, id \in Ids : Accept(id, n)

Spec == Init /\ [][Next]_vars

=============================================================================

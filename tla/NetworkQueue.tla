---------------------------- MODULE NetworkQueue ----------------------------
(***************************************************************************)
(* sim::queue (src/queue.cpp): a hop of the simulated network with a       *)
(* propagation delay, a rate limit and a tail-drop limit.  It runs on      *)
(* continuations: handlers of its m_forward_timer, or posted to the event  *)
(* loop, that call begin_send_next_packet() or next_packet_sent().         *)
(*                                                                         *)
(* Of the event loop it uses what EventLoop shows: posted handlers are     *)
(* called before time moves, a timer fires exactly at its expiry, and      *)
(* arming a timer again posts the handler that was pending on it.          *)
(***************************************************************************)
EXTENDS Integers, Sequences

CONSTANTS
    Sizes,        \* packet sizes: buffer plus overhead
    MaxQueueSize, \* m_max_queue_size, 0 for no limit
    Latency,      \* m_forwarding_latency
    TimePerByte,  \* 1 / m_bandwidth, 0 for an unlimited rate
    Reentrant,    \* may the next hop answer through this same queue, from
                  \* within forward_packet()?
    LastArrival,  \* bound: packets arrive until this time
    MaxPackets    \* bound: number of packets that arrive

ASSUME ConstantsAssumption ==
    /\ Sizes \subseteq Nat \ {0}
    /\ MaxQueueSize \in Nat
    /\ Latency \in Nat
    /\ TimePerByte \in Nat
    /\ Reentrant \in BOOLEAN
    /\ LastArrival \in Nat
    /\ MaxPackets \in Nat

VARIABLES
    now,        \* the simulated time
    queue,      \* m_queue
    queue_size, \* m_queue_size
    timer,      \* m_forward_timer: its expiry and its pending handler
    posted,     \* the continuations of this queue posted to the event loop
    ctx,        \* "idle", "forwarding" (inside forward_packet() called by
                \* next_packet_sent()) or "undefined" (front() of no packet)
    arrived,    \* history: the number of packets that arrived
    lastLeave,  \* history: the time the packet accepted last is to leave
    gone        \* history: the packets forwarded, in order

vars == <<now, queue, queue_size, timer, posted, ctx, arrived, lastLeave, gone>>

\* The abstract view of the queue: a delay line.
Line == INSTANCE DelayLine WITH
    Ids <- 1..MaxPackets,
    line <- [i \in DOMAIN queue |-> [id |-> queue[i].id,
                                     leave |-> queue[i].leave]],
    gone <- [i \in DOMAIN gone |-> gone[i].id]

Continuations == {"begin", "sent"}
NoHandler == [at |-> 0, cb |-> "none"]

\* timed_packet: ts is the time a packet may begin to be sent.  leave is not
\* in the code: it is the time the packet is to leave, settled on arrival.
TimedPackets ==
    [id : Nat, size : Sizes, droppable : BOOLEAN, ts : Nat, leave : Nat]

TypeOK ==
    /\ now \in Nat
    /\ queue \in Seq(TimedPackets)
    /\ queue_size \in Nat
    /\ timer \in [at : Nat, cb : Continuations \cup {"none"}]
    /\ posted \in Seq(Continuations)
    /\ ctx \in {"idle", "forwarding", "undefined"}
    /\ arrived \in Nat
    /\ lastLeave \in Nat
    /\ gone \in Seq([id : Nat, size : Sizes, ts : Nat, at : Nat])

Init ==
    /\ now = 0
    /\ queue = <<>>
    /\ queue_size = 0
    /\ timer = NoHandler
    /\ posted = <<>>
    /\ ctx = "idle"
    /\ arrived = 0
    /\ lastLeave = 0
    /\ gone = <<>>

-----------------------------------------------------------------------------

\* m_forward_timer.expires_at(x) followed by async_wait(cb).  expires_at()
\* cancels the handler that is pending, which posts it: the bound handler
\* ignores the error code.
ArmTimer(x, cb, pst) ==
    /\ timer' = [at |-> x, cb |-> cb]
    /\ posted' = IF timer.cb = "none" THEN pst ELSE Append(pst, timer.cb)

\* Mutant: a packet is sent without waiting for its propagation delay.
begin_at_once(q, pst) ==
    IF TimePerByte = 0
    THEN posted' = Append(pst, "sent") /\ UNCHANGED timer
    ELSE ArmTimer(now + TimePerByte * Head(q).size, "sent", pst)

\* begin_send_next_packet(), with q the content of m_queue and pst what is
\* posted when it is called.
begin_send_next_packet(q, pst) ==
    LET p == Head(q) IN
    IF now < p.ts
    THEN ArmTimer(p.ts, "begin", pst)
    ELSE IF TimePerByte = 0
    THEN posted' = Append(pst, "sent") /\ UNCHANGED timer
    ELSE ArmTimer(now + TimePerByte * p.size, "sent", pst)

\* Mutant: the size of the packet itself is not counted.
TailDropFull(n, droppable) ==
    /\ droppable
    /\ MaxQueueSize > 0
    /\ queue_size > MaxQueueSize

\* The tail-drop condition of incoming_packet().
TailDrop(n, droppable) ==
    /\ droppable
    /\ MaxQueueSize > 0
    /\ queue_size + n > MaxQueueSize

MayArrive ==
    /\ arrived < MaxPackets
    /\ now =< LastArrival
    /\ \/ ctx = "idle"
       \/ ctx = "forwarding" /\ Reentrant

\* incoming_packet() gives a packet that does not fit back to its sender ...
DropPacket(n) ==
    /\ MayArrive
    /\ TailDrop(n, TRUE)
    /\ arrived' = arrived + 1
    /\ UNCHANGED <<now, queue, queue_size, timer, posted, ctx, lastLeave, gone>>

\* ... and appends any other to the queue, starting to send it if it is alone.
AcceptPacket(n, droppable) ==
    /\ MayArrive
    /\ ~TailDrop(n, droppable)
    /\ arrived' = arrived + 1
    /\ lastLeave' = Line!LeaveTime(now, lastLeave, n)
    /\ queue' = Append(queue, [id |-> arrived', size |-> n,
                               droppable |-> droppable, ts |-> now + Latency,
                               leave |-> lastLeave'])
    /\ queue_size' = queue_size + n
    /\ IF queue = <<>>
       THEN begin_send_next_packet(queue', posted)
       ELSE UNCHANGED <<timer, posted>>
    /\ UNCHANGED <<now, ctx, gone>>

\* The event loop calls the oldest posted continuation: begin_send_next_packet()
RunBegin ==
    /\ ctx = "idle"
    /\ posted # <<>>
    /\ Head(posted) = "begin"
    /\ IF queue = <<>>
       THEN /\ ctx' = "undefined"
            /\ UNCHANGED <<timer, posted>>
       ELSE /\ begin_send_next_packet(queue, Tail(posted))
            /\ UNCHANGED ctx
    /\ UNCHANGED <<now, queue, queue_size, arrived, lastLeave, gone>>

\* or next_packet_sent(), which takes the first packet off the queue and calls
\* forward_packet() ...
RunSent ==
    /\ ctx = "idle"
    /\ posted # <<>>
    /\ Head(posted) = "sent"
    /\ IF queue = <<>>
       THEN /\ ctx' = "undefined"
            /\ UNCHANGED <<queue, queue_size, posted, gone>>
       ELSE LET p == Head(queue) IN
            /\ queue' = Tail(queue)
            /\ queue_size' = queue_size - p.size
            /\ posted' = Tail(posted)
            /\ gone' = Append(gone, [id |-> p.id, size |-> p.size,
                                     ts |-> p.ts, at |-> now])
            /\ ctx' = "forwarding"
    /\ UNCHANGED <<now, timer, arrived, lastLeave>>

\* Mutant: the packets behind the one that was sent are forgotten.
ForwardReturnsOnly ==
    /\ ctx = "forwarding"
    /\ ctx' = "idle"
    /\ UNCHANGED <<now, queue, queue_size, timer, posted, arrived, lastLeave, gone>>

\* ... and when that returns goes on with the next packet, if there is one.
ForwardReturns ==
    /\ ctx = "forwarding"
    /\ ctx' = "idle"
    /\ IF queue # <<>>
       THEN begin_send_next_packet(queue, posted)
       ELSE UNCHANGED <<timer, posted>>
    /\ UNCHANGED <<now, queue, queue_size, arrived, lastLeave, gone>>

\* run() fires the timer at its expiry, once nothing is posted.
FireTimer ==
    /\ ctx = "idle"
    /\ posted = <<>>
    /\ timer.cb # "none"
    /\ timer.at = now
    /\ posted' = <<timer.cb>>
    /\ timer' = NoHandler
    /\ UNCHANGED <<now, queue, queue_size, ctx, arrived, lastLeave, gone>>

\* Time moves when nothing is posted, up to the next expiry.  The clock stops
\* with the last event: an arrival or the timer of this queue.
Tick ==
    /\ ctx = "idle"
    /\ posted = <<>>
    /\ timer.cb # "none" => now < timer.at
    /\ now < LastArrival \/ timer.cb # "none"
    /\ now' = now + 1
    /\ UNCHANGED <<queue, queue_size, timer, posted, ctx, arrived, lastLeave, gone>>

Run == RunBegin \/ RunSent \/ ForwardReturns \/ FireTimer \/ Tick

Arrive ==
    \E n \in Sizes :
        \/ DropPacket(n)
        \/ \E droppable \in BOOLEAN : AcceptPacket(n, droppable)

Next == Arrive \/ Run

Spec == Init /\ [][Next]_vars

\* run() keeps calling what is posted and firing what is due.
FairSpec == Spec /\ WF_vars(Run)

-----------------------------------------------------------------------------

\* The bytes of the first n packets of q.
SizeUpTo(q, n) ==
    LET sum[i \in 0..Len(q)] == IF i = 0 THEN 0 ELSE sum[i-1] + q[i].size
    IN  sum[n]

SizeOf(q) == SizeUpTo(q, Len(q))

\* m_queue_size is "the number of bytes currently in the packet queue"
\* (queue.hpp): the additions of incoming_packet() and the subtractions of
\* next_packet_sent() stay balanced.
QueueSizeIsSum == ctx # "undefined" => queue_size = SizeOf(queue)

\* Tail drop works: a packet that may be dropped is in the queue only if it and
\* all that is ahead of it fit in the limit.
DroppableFits ==
    MaxQueueSize > 0 =>
        \A i \in DOMAIN queue :
            queue[i].droppable => SizeUpTo(queue, i) =< MaxQueueSize

\* The queue keeps to its byte limit: the count is exact, through any order of
\* arrivals and departures, and decides what is dropped.
WithinLimit == QueueSizeIsSum /\ DroppableFits

\* The doc comment of m_max_queue_size: "the queue can't hold more than this
\* number of bytes".
LimitNeverExceeded == MaxQueueSize > 0 => queue_size =< MaxQueueSize

\* A queue that holds packets has exactly one continuation outstanding, an
\* empty one has none: it neither stalls nor sends the same packet twice, and
\* next_packet_sent() never looks at the front of an empty queue.
OneContinuation ==
    LET armed == IF timer.cb = "none" THEN 0 ELSE 1 IN
    ctx = "idle" => Len(posted) + armed = IF queue = <<>> THEN 0 ELSE 1

\* "a specific rate limit, propagation delay" (README.rst): a packet is
\* forwarded no sooner than its delay plus the time its bytes take.
RateLimitKept ==
    \A i \in DOMAIN gone : gone[i].ts + TimePerByte * gone[i].size =< gone[i].at

\* The queue is a delay line: every packet leaves in order of arrival, at the
\* very time settled when it arrived.  "Every packet is delayed by at least
\* this much before being forwarded" (queue.hpp) and no longer than the packets
\* ahead of it and its own bytes make it wait.
IsDelayLine == Line!Spec

\* Every packet the queue accepts is forwarded in the end.
EveryPacketLeaves ==
    \A id \in 1..MaxPackets :
        (\E i \in DOMAIN queue : queue[i].id = id)
            ~> (\E i \in DOMAIN gone : gone[i].id = id)

=============================================================================

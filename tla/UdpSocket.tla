------------------------------ MODULE UdpSocket ------------------------------
(***************************************************************************)
(* ip::udp::socket (src/udp_socket.cpp): its life (open, bind, close), the *)
(* queue of received datagrams with its byte count and limit, the pacing   *)
(* of what it sends, and the wait for the send queue to drain.             *)
(*                                                                         *)
(* Datagrams travel in order, may be dropped by a hop, and carry the       *)
(* forwarder the socket had when they were sent.  The wait for writing is  *)
(* a timer whose handler is a REFERENCE to m_wait_send_handler.            *)
(***************************************************************************)
EXTENDS Integers, Sequences, SequencesExt

CONSTANTS
    Lens,           \* sizes of datagrams, in bytes
    Overhead,       \* the overhead of a packet (28 in the code)
    Buffers,        \* sizes of the buffers passed to receive operations
    RecvLimit,      \* the limit of the receive queue (256 kB in the code)
    SendQueueTime,  \* m_send_queue_time
    TimePerByte,    \* the inverse of nic_bandwidth
    AbortsWait,     \* may user code make a call that aborts a wait_write?
    MaxOpens,       \* bound: calls of open()
    MaxDatagrams,   \* bound: datagrams sent to the socket
    LastEvent       \* bound: user code has no timer later than this

ASSUME ConstantsAssumption ==
    /\ Lens \subseteq Nat \ {0}
    /\ Overhead \in Nat
    /\ Buffers \subseteq Nat \ {0}
    /\ RecvLimit \in Nat
    /\ SendQueueTime \in Nat
    /\ TimePerByte \in Nat
    /\ AbortsWait \in BOOLEAN
    /\ MaxOpens \in Nat
    /\ MaxDatagrams \in Nat
    /\ LastEvent \in Nat

VARIABLES
    now,         \* the simulated time
    life,        \* "closed", "open" or "bound"; "undefined" once a function
                 \* object without a handler was called
    fwd,         \* m_forwarder: the number of the current one
    opens,       \* history: the number of calls of open()
    incoming,    \* m_incoming_queue
    queue_size,  \* m_queue_size
    recv_op,     \* the pending operation: m_recv_handler or m_wait_recv_handler
    next_send,   \* m_next_send
    wait_send,   \* is m_wait_send_handler set?
    timer,       \* m_recv_timer, which calls m_wait_send_handler
    refs,        \* posted calls of m_wait_send_handler, with their error code
    net,         \* datagrams on their way to this socket
    sent,        \* history: the number of datagrams sent to this socket
    got          \* history: the datagrams read

recvVars == <<incoming, queue_size, recv_op, got>>
sendVars == <<next_send, wait_send, timer, refs>>
netVars == <<net, sent>>
lifeVars == <<life, fwd, opens>>
vars == <<now, lifeVars, recvVars, sendVars, netVars>>

NoOp == [op |-> "none", n |-> 0]

\* A datagram with the forwarder it is sent to; opens is history.
Datagrams ==
    [id : 1..MaxDatagrams, len : Lens, fwd : 1..MaxOpens, opens : 1..MaxOpens]

TypeOK ==
    /\ now \in Nat
    /\ life \in {"closed", "open", "bound", "undefined"}
    /\ fwd \in 0..MaxOpens
    /\ opens \in 0..MaxOpens
    /\ incoming \in Seq(Datagrams)
    /\ queue_size \in 0..RecvLimit
    /\ recv_op \in {NoOp, [op |-> "wait", n |-> 0]} \cup [op : {"some"}, n : Buffers]
    /\ next_send \in Nat
    /\ wait_send \in BOOLEAN
    /\ timer \in [at : Nat, armed : BOOLEAN]
    /\ refs \in Seq({"ok", "operation_aborted"})
    /\ net \in Seq(Datagrams)
    /\ sent \in 0..MaxDatagrams
    /\ got \in Seq([id : 1..MaxDatagrams, bytes : Nat])

Init ==
    /\ now = 0 /\ life = "closed" /\ fwd = 0 /\ opens = 0
    /\ incoming = <<>> /\ queue_size = 0 /\ recv_op = NoOp /\ got = <<>>
    /\ next_send = 0 /\ wait_send = FALSE
    /\ timer = [at |-> 0, armed |-> FALSE] /\ refs = <<>>
    /\ net = <<>> /\ sent = 0

-----------------------------------------------------------------------------
(* Aborting operations.                                                    *)

Disarmed(t) == [t EXCEPT !.armed = FALSE]

\* abort_recv_handlers() cancels m_recv_timer, which posts its handler; that is
\* the one of wait_write, bound to no_error.
TimerCancelled(r) == IF timer.armed THEN Append(r, "ok") ELSE r

\* abort_send_handlers() posts a reference to the handler and clears it.
SendAborted(r) == IF wait_send THEN Append(r, "operation_aborted") ELSE r

MayAbortSend == wait_send => AbortsWait

\* cancel(): both.
Cancelled ==
    /\ MayAbortSend
    /\ recv_op' = NoOp
    /\ timer' = Disarmed(timer)
    /\ refs' = SendAborted(TimerCancelled(refs))
    /\ wait_send' = FALSE
    /\ UNCHANGED next_send

-----------------------------------------------------------------------------
(* The life of the socket.                                                 *)

\* Mutant: the forwarder is kept, so that packets still find the socket.
open_keeps_forwarder ==
    /\ life # "undefined"
    /\ opens < MaxOpens
    /\ opens' = opens + 1
    /\ life' = "open"
    /\ fwd' = 1
    /\ Cancelled
    /\ UNCHANGED <<now, incoming, queue_size, got, netVars>>

\* open() closes first, then makes a new forwarder.  What was received and not
\* read stays in the queue.
open ==
    /\ life # "undefined"
    /\ opens < MaxOpens
    /\ opens' = opens + 1
    /\ life' = "open"
    /\ fwd' = fwd + 1
    /\ Cancelled
    /\ UNCHANGED <<now, incoming, queue_size, got, netVars>>

bind ==
    /\ life = "open"
    /\ life' = "bound"
    /\ UNCHANGED <<now, fwd, opens, recvVars, sendVars, netVars>>

\* close() resets the forwarder and cancels.
close ==
    /\ life \in {"open", "bound"}
    /\ life' = "closed"
    /\ Cancelled
    /\ UNCHANGED <<now, fwd, opens, incoming, queue_size, got, netVars>>

cancel ==
    /\ life # "undefined"
    /\ Cancelled
    /\ UNCHANGED <<now, lifeVars, incoming, queue_size, got, netVars>>

-----------------------------------------------------------------------------
(* Receiving.                                                              *)

\* receive_from_impl() on a queue q of the given size that is not empty: what
\* does not fit in the buffer is lost, and stays in the count.
ReadFront(q, size, n) ==
    LET p == Head(q)
        k == IF p.len < n THEN p.len ELSE n
    IN /\ incoming' = Tail(q)
       /\ queue_size' = size - k
       /\ got' = Append(got, [id |-> p.id, bytes |-> k])

\* abort_recv_handlers(), the first thing every receive operation does.
RecvAborted ==
    /\ timer' = Disarmed(timer)
    /\ refs' = TimerCancelled(refs)
    /\ UNCHANGED <<next_send, wait_send>>

\* async_receive_from(): reads what is there, or waits for it.
async_receive_from(n) ==
    /\ life = "bound"
    /\ RecvAborted
    /\ IF incoming = <<>>
       THEN /\ recv_op' = [op |-> "some", n |-> n]
            /\ UNCHANGED <<incoming, queue_size, got>>
       ELSE /\ recv_op' = NoOp
            /\ ReadFront(incoming, queue_size, n)
    /\ UNCHANGED <<now, lifeVars, netVars>>

\* receive_from(), and any receive operation on a socket that is not bound: an
\* error or would_block ends it at once.
receive_from(n) ==
    /\ life # "undefined"
    /\ RecvAborted
    /\ recv_op' = NoOp
    /\ IF life # "bound" \/ incoming = <<>>
       THEN UNCHANGED <<incoming, queue_size, got>>
       ELSE ReadFront(incoming, queue_size, n)
    /\ UNCHANGED <<now, lifeVars, netVars>>

\* async_wait(wait_read)
async_wait_read ==
    /\ life = "bound"
    /\ RecvAborted
    /\ recv_op' = IF incoming = <<>> THEN [op |-> "wait", n |-> 0] ELSE NoOp
    /\ UNCHANGED <<now, lifeVars, incoming, queue_size, got, netVars>>

\* Mutant: a reader that waits is not told.
no_wakeup_reader(q, size) ==
    /\ incoming' = q
    /\ queue_size' = size
    /\ UNCHANGED <<recv_op, got>>

\* maybe_wakeup_reader() with m_incoming_queue q of the given size.
maybe_wakeup_reader(q, size) ==
    IF Len(q) # 1 \/ recv_op.op # "some"
    THEN /\ incoming' = q
         /\ queue_size' = size
         /\ recv_op' = IF Len(q) = 1 THEN NoOp ELSE recv_op
         /\ UNCHANGED got
    ELSE /\ recv_op' = NoOp
         /\ ReadFront(q, size, recv_op.n)

\* The silent drop of incoming_packet().
ReceiveFull(p) == queue_size + p.len + Overhead > RecvLimit

\* A datagram arrives: a forwarder that was reset swallows it, and so does
\* incoming_packet() when the queue is full.
Deliver ==
    /\ life # "undefined"
    /\ net # <<>>
    /\ net' = Tail(net)
    /\ LET p == Head(net) IN
        IF life = "closed" \/ p.fwd # fwd \/ ReceiveFull(p)
        THEN UNCHANGED recvVars
        ELSE maybe_wakeup_reader(Append(incoming, p), queue_size + p.len)
    /\ UNCHANGED <<now, lifeVars, sendVars, sent>>

\* The peer sends a datagram to this socket, which find_udp_socket() finds ...
PeerSends(len) ==
    /\ life = "bound"
    /\ sent < MaxDatagrams
    /\ sent' = sent + 1
    /\ net' = Append(net, [id |-> sent', len |-> len, fwd |-> fwd,
                          opens |-> opens])
    /\ UNCHANGED <<now, lifeVars, recvVars, sendVars>>

\* ... and a hop may drop it.
NetDrop(i) ==
    /\ life # "undefined"
    /\ net' = RemoveAt(net, i)
    /\ UNCHANGED <<now, lifeVars, recvVars, sendVars, sent>>

-----------------------------------------------------------------------------
(* Sending.                                                                *)

Later(a, b) == IF a < b THEN b ELSE a

\* send_to_impl() would block when the send queue is too long.
CanSend == next_send - now =< SendQueueTime

\* send_to(): an unbound socket is bound first, which fails when it is closed;
\* routed is false when the packet is silently dropped (no receiver, or larger
\* than the path MTU).
send_to(len, routed) ==
    /\ life # "undefined"
    /\ MayAbortSend
    /\ now =< LastEvent
    /\ refs' = SendAborted(refs)
    /\ wait_send' = FALSE
    /\ life' = IF life = "closed" THEN "closed" ELSE "bound"
    /\ next_send' = IF life # "closed" /\ routed /\ CanSend
                    THEN Later(now, next_send) + TimePerByte * (len + Overhead)
                    ELSE next_send
    /\ UNCHANGED <<now, fwd, opens, recvVars, timer, netVars>>

\* async_wait(wait_write): completes at once, or when the timer fires.
async_wait_write ==
    /\ life # "undefined"
    /\ MayAbortSend
    /\ now =< LastEvent
    /\ IF 2 * (next_send - now) > SendQueueTime
       THEN /\ timer' = [at |-> next_send + SendQueueTime \div 2, armed |-> TRUE]
            /\ refs' = TimerCancelled(SendAborted(refs))
            /\ wait_send' = TRUE
       ELSE /\ refs' = SendAborted(refs)
            /\ wait_send' = FALSE
            /\ UNCHANGED timer
    /\ UNCHANGED <<now, lifeVars, recvVars, next_send, netVars>>

\* A posted call through the reference: a function object is called at most
\* once, and one without a handler fails the assert of function::operator().
CallRef ==
    /\ life # "undefined"
    /\ refs # <<>>
    /\ refs' = Tail(refs)
    /\ life' = IF wait_send THEN life ELSE "undefined"
    /\ wait_send' = FALSE
    /\ UNCHANGED <<now, fwd, opens, recvVars, next_send, timer, netVars>>

\* Mutant: the handler is not called when the timer fires.
FireSilently ==
    /\ life # "undefined"
    /\ refs = <<>>
    /\ timer.armed
    /\ timer.at = now
    /\ timer' = Disarmed(timer)
    /\ UNCHANGED <<now, lifeVars, recvVars, next_send, wait_send, refs, netVars>>

FireTimer ==
    /\ life # "undefined"
    /\ refs = <<>>
    /\ timer.armed
    /\ timer.at = now
    /\ timer' = Disarmed(timer)
    /\ refs' = <<"ok">>
    /\ UNCHANGED <<now, lifeVars, recvVars, next_send, wait_send, netVars>>

Tick ==
    /\ life # "undefined"
    /\ refs = <<>>
    /\ timer.armed => now < timer.at
    /\ timer.armed \/ now < LastEvent
    /\ now' = now + 1
    /\ UNCHANGED <<lifeVars, recvVars, sendVars, netVars>>

-----------------------------------------------------------------------------

User ==
    \/ open \/ bind \/ close \/ cancel
    \/ async_wait_read \/ async_wait_write
    \/ \E n \in Buffers : async_receive_from(n) \/ receive_from(n)
    \/ \E len \in Lens, routed \in BOOLEAN : send_to(len, routed)

Network ==
    \/ Deliver
    \/ \E len \in Lens : PeerSends(len)
    \/ \E i \in DOMAIN net : NetDrop(i)

Run == CallRef \/ FireTimer \/ Tick

Next == User \/ Network \/ Run

Spec == Init /\ [][Next]_vars

\* run() keeps calling what is posted and firing what is due.
FairSpec == Spec /\ WF_vars(Run)

-----------------------------------------------------------------------------

LenOf(q) == FoldLeft(LAMBDA sum, p : sum + p.len, 0, q)

\* "the number of bytes in the incoming packet queue" (simulator.hpp): what
\* incoming_packet() adds and receive_from_impl() takes off stay balanced, also
\* over close() and open().
QueueSizeIsSum == queue_size = LenOf(incoming)

\* No receive operation is pending while there is a datagram to read.
ReaderAwake == recv_op # NoOp => incoming = <<>>

\* Datagrams are read in the order they were sent, each at most once, whatever
\* was dropped on the way, cancelled, or left over by close().
ReadInOrder == \A i, j \in DOMAIN got : i < j => got[i].id < got[j].id

\* "prevent any more packets from being delivered to this socket" (close()): a
\* datagram sent to a socket that was closed since is not put in its queue,
\* also not when the socket is open again.
OnlyCurrentDelivered ==
    [][net' # net /\ recvVars' # recvVars
       => life # "closed" /\ Head(net).opens = opens]_vars

\* The send queue holds no more than SendQueueTime and one packet.
BacklogBounded ==
    \E len \in Lens : next_send - now =< SendQueueTime + TimePerByte * (len + Overhead)

\* "assert(m_callable)" (function.hpp): no function object is called that has
\* no handler.
HandlerIsSet == life # "undefined"

\* Every wait_write completes.
WaitWriteCompletes == wait_send ~> ~wait_send

=============================================================================

------------------------------ MODULE TcpStream ------------------------------
(***************************************************************************)
(* The data transfer of ip::tcp::socket (src/tcp_socket.cpp) in one        *)
(* direction of an established connection: a writer that splits buffers    *)
(* into segments under a congestion window, a network that keeps the order *)
(* of segments and may drop some, and a reader that acknowledges, reorders *)
(* and delivers them.  Acknowledgements and the end of the stream are      *)
(* never dropped (packet::ok_to_drop()).                                   *)
(***************************************************************************)
EXTENDS Integers, Sequences, FiniteSets, SequencesExt

CONSTANTS
    Mss,       \* m_mss: the largest segment, in bytes
    Writes,    \* the sizes of the buffers passed to async_write_some()
    Reads,     \* the sizes of the buffers passed to async_read_some()
    MayClose,  \* may the writer close its socket?
    MaxDrops,  \* bound: the number of segments the network drops
    MaxBytes   \* bound: the number of bytes written

ASSUME ConstantsAssumption ==
    /\ Mss \in Nat \ {0}
    /\ Writes \subseteq Nat \ {0}
    /\ Reads \subseteq Nat \ {0}
    /\ MayClose \in BOOLEAN
    /\ MaxDrops \in Nat
    /\ MaxBytes \in Nat

VARIABLES
    \* the socket of the writer
    ctx,         \* "idle"; "writing", "sent": in the loop of write_some_impl();
                 \* "undefined": m_channel was used after its reset
    left,        \* the bytes of the buffer that loop has not sent yet
    send_op,     \* the pending operation: m_send_handler or m_wait_send_handler
    next_seq,    \* m_next_outgoing_seq
    cwnd,        \* m_cwnd
    in_flight,   \* m_bytes_in_flight
    outstanding, \* m_outstanding_packet_sizes: a set of [seq, len]
    resend,      \* m_outgoing_packets
    last_drop,   \* m_last_drop_seq
    \* the socket of the reader
    next_in,     \* m_next_incoming_seq
    reorder,     \* m_reorder_buffer
    incoming,    \* m_incoming_queue
    recv_op,     \* the pending operation: m_recv_handler or m_wait_recv_handler
    \* the network
    data,        \* the segments on their way to the reader
    acks,        \* the sequence numbers on their way back
    drops,       \* the number of segments dropped so far
    \* what the users of the two sockets saw
    written, got, closed, eof,
    recover      \* history: next_seq when the window was halved last

writerVars == <<ctx, left, send_op, next_seq, cwnd, in_flight, outstanding,
                resend, last_drop, written, closed, recover>>
readerVars == <<next_in, reorder, incoming, recv_op, got, eof>>
vars == <<writerVars, readerVars, data, acks, drops>>

NoOp == [op |-> "none", n |-> 0]
Ops(sizes) == {NoOp, [op |-> "wait", n |-> 0]} \cup [op : {"some"}, n : sizes]

\* A segment: the len bytes that follow the first off ones of the stream, or
\* the end of the stream.  cb tells whether drop_fun is set.
Segments == [seq : Nat, off : Nat, len : Nat, fin : BOOLEAN, cb : BOOLEAN]

TypeOK ==
    /\ ctx \in {"idle", "writing", "sent", "undefined"}
    /\ left \in Nat
    /\ send_op \in Ops(Writes)
    /\ next_seq \in Nat
    /\ cwnd \in Nat
    /\ in_flight \in Nat
    /\ outstanding \subseteq [seq : Nat, len : Nat]
    /\ resend \in Seq(Segments)
    /\ last_drop \in Nat
    /\ next_in \in Nat
    /\ reorder \subseteq Segments
    /\ incoming \in Seq(Segments)
    /\ recv_op \in Ops(Reads)
    /\ data \in Seq(Segments)
    /\ acks \in Seq(Nat)
    /\ drops \in 0..MaxDrops
    /\ written \in 0..MaxBytes
    /\ got \in Seq(1..MaxBytes)
    /\ closed \in BOOLEAN
    /\ eof \in BOOLEAN
    /\ recover \in Nat

\* The connection is established: internal_connect() set m_cwnd.
Init ==
    /\ ctx = "idle" /\ left = 0 /\ send_op = NoOp
    /\ next_seq = 0
    /\ cwnd = 2 * Mss
    /\ in_flight = 0
    /\ outstanding = {}
    /\ resend = <<>>
    /\ last_drop = 0
    /\ next_in = 0 /\ reorder = {} /\ incoming = <<>> /\ recv_op = NoOp
    /\ data = <<>> /\ acks = <<>> /\ drops = 0
    /\ written = 0 /\ got = <<>> /\ closed = FALSE /\ eof = FALSE
    /\ recover = 0

-----------------------------------------------------------------------------
(* The writer.                                                             *)

TotalLen(segs) ==
    LET upTo[i \in 0..Len(segs)] == IF i = 0 THEN 0 ELSE upTo[i-1] + segs[i].len
    IN upTo[Len(segs)]

WindowFull(flight, window) == flight + Mss > window

\* async_write_some(): a pending operation is aborted, then write_some_impl()
\* blocks when the window is full.
async_write_some(n) ==
    /\ ctx = "idle"
    /\ ~closed
    /\ written + n =< MaxBytes
    /\ IF WindowFull(in_flight, cwnd)
       THEN send_op' = [op |-> "some", n |-> n] /\ UNCHANGED <<ctx, left>>
       ELSE send_op' = NoOp /\ ctx' = "writing" /\ left' = n
    /\ UNCHANGED <<next_seq, cwnd, in_flight, outstanding, resend, last_drop,
                   written, closed, recover, readerVars, data, acks, drops>>

\* async_wait(wait_write)
async_wait_write ==
    /\ ctx = "idle"
    /\ ~closed
    /\ send_op' = IF WindowFull(in_flight, cwnd)
                  THEN [op |-> "wait", n |-> 0]
                  ELSE NoOp
    /\ UNCHANGED <<ctx, left, next_seq, cwnd, in_flight, outstanding, resend,
                   last_drop, written, closed, recover, readerVars, data,
                   acks, drops>>

\* One iteration of the loop in write_some_impl(), with send_packet() ...
WriteSegment ==
    LET k == IF left < Mss THEN left ELSE Mss IN
    /\ ctx = "writing"
    /\ data' = Append(data, [seq |-> next_seq, off |-> written, len |-> k,
                             fin |-> FALSE, cb |-> TRUE])
    /\ in_flight' = in_flight + k
    /\ outstanding' = outstanding \cup {[seq |-> next_seq, len |-> k]}
    /\ next_seq' = next_seq + 1
    /\ written' = written + k
    /\ left' = left - k
    /\ ctx' = "sent"
    /\ UNCHANGED <<send_op, cwnd, resend, last_drop, closed, recover,
                   readerVars, acks, drops>>

\* ... which ends with the buffer, or when the window is full.  The first hop
\* may have dropped the segment meanwhile, and halved the window.
WriteLoop ==
    /\ ctx = "sent"
    /\ IF left = 0 \/ WindowFull(in_flight, cwnd)
       THEN ctx' = "idle" /\ left' = 0
       ELSE ctx' = "writing" /\ UNCHANGED left
    /\ UNCHANGED <<send_op, next_seq, cwnd, in_flight, outstanding, resend,
                   last_drop, written, closed, recover, readerVars, data,
                   acks, drops>>

\* Mutant: a dropped segment no longer counts as in flight, but is still in
\* m_outstanding_packet_sizes.
packet_dropped_uncounted(p) ==
    /\ resend' = Append(resend, [p EXCEPT !.cb = FALSE])
    /\ in_flight' = in_flight - p.len
    /\ UNCHANGED <<ctx, left, send_op, next_seq, cwnd, outstanding, last_drop,
                   written, closed, recover>>

\* packet_dropped(), called by the hop that drops p.  The window is halved
\* unless that happened for a segment not long before this one.
packet_dropped(p) ==
    /\ resend' = Append(resend, [p EXCEPT !.cb = FALSE])
    /\ IF last_drop > 0 /\ p.seq < last_drop + cwnd \div Mss
       THEN UNCHANGED <<cwnd, last_drop, recover>>
       ELSE /\ cwnd' = IF cwnd \div 2 < Mss THEN Mss ELSE cwnd \div 2
            /\ last_drop' = p.seq
            /\ recover' = next_seq
    /\ UNCHANGED <<ctx, left, send_op, next_seq, in_flight, outstanding,
                   written, closed>>

\* A hop drops the i-th segment on the way.  From within send_packet() only
\* the segment just sent can be dropped.
NetDrop(i) ==
    /\ drops < MaxDrops
    /\ \/ ctx = "idle"
       \/ ctx = "sent" /\ data[i].seq = next_seq - 1
    /\ ~data[i].fin
    /\ drops' = drops + 1
    /\ data' = RemoveAt(data, i)
    /\ IF ~data[i].cb
       THEN UNCHANGED writerVars
       ELSE IF closed
       THEN /\ ctx' = "undefined"
            /\ UNCHANGED <<left, send_op, next_seq, cwnd, in_flight,
                           outstanding, resend, last_drop, written, closed,
                           recover>>
       ELSE packet_dropped(data[i])
    /\ UNCHANGED <<readerVars, acks>>

\* The k dropped segments that the loop in the ack handler sends again.
Resends(k, flight) ==
    /\ \A j \in 1..k : flight + TotalLen(SubSeq(resend, 1, j)) =< cwnd
    /\ k < Len(resend) => flight + TotalLen(SubSeq(resend, 1, k+1)) > cwnd

\* Mutant: the writer is not woken up.
NoWakeupWriter == UNCHANGED <<ctx, left, send_op>>

\* maybe_wakeup_writer(): the pending operation is tried again.
WakeupWriter ==
    /\ IF send_op.op = "some"
       THEN ctx' = "writing" /\ left' = send_op.n
       ELSE UNCHANGED <<ctx, left>>
    /\ send_op' = NoOp

\* An ack arrives (incoming_packet(), case ack).  The flag was_writeable of
\* the code holds when the socket was not writeable.
ReceiveAck ==
    /\ ctx = "idle"
    /\ acks # <<>>
    /\ ~closed
    /\ acks' = Tail(acks)
    /\ LET was_writeable == WindowFull(in_flight, cwnd)
           acked == CHOOSE o \in outstanding : o.seq = Head(acks)
           flight == in_flight - acked.len
       IN \E k \in 0..Len(resend) :
          /\ Resends(k, flight)
          /\ in_flight' = flight + TotalLen(SubSeq(resend, 1, k))
          /\ outstanding' = (outstanding \ {acked}) \cup
                {[seq |-> resend[j].seq, len |-> resend[j].len] : j \in 1..k}
          /\ data' = data \o SubSeq(resend, 1, k)
          /\ resend' = SubSeq(resend, k+1, Len(resend))
          /\ cwnd' = cwnd + (Mss * acked.len) \div cwnd
          /\ IF ~was_writeable /\ ~WindowFull(in_flight', cwnd')
             THEN WakeupWriter
             ELSE UNCHANGED <<ctx, left, send_op>>
    /\ UNCHANGED <<next_seq, last_drop, written, closed, recover, readerVars,
                   drops>>

\* An ack arrives at a closed socket, whose forwarder is reset.
LoseAck ==
    /\ ctx = "idle"
    /\ acks # <<>>
    /\ closed
    /\ acks' = Tail(acks)
    /\ UNCHANGED <<writerVars, readerVars, data, drops>>

\* close(): the end of the stream is sent and the state is reset, except for
\* m_outgoing_packets.
close ==
    /\ MayClose
    /\ ctx = "idle"
    /\ ~closed
    /\ data' = Append(data, [seq |-> next_seq, off |-> written, len |-> 0,
                             fin |-> TRUE, cb |-> FALSE])
    /\ closed' = TRUE
    /\ send_op' = NoOp
    /\ next_seq' = 0
    /\ cwnd' = 2 * Mss
    /\ in_flight' = 0
    /\ outstanding' = {}
    /\ last_drop' = 0
    /\ recover' = 0
    /\ UNCHANGED <<ctx, left, resend, written, readerVars, acks, drops>>

\* cancel() on the writer's side: abort_send_handlers().
cancel_write ==
    /\ ctx = "idle"
    /\ send_op # NoOp
    /\ send_op' = NoOp
    /\ UNCHANGED <<ctx, left, next_seq, cwnd, in_flight, outstanding, resend,
                   last_drop, written, closed, recover, readerVars, data,
                   acks, drops>>

-----------------------------------------------------------------------------
(* The reader.                                                             *)

\* One step of the copy loop of read_some_impl(): bytes of the segment s go into
\* the room left, up to the end of the stream.
CopySegment(a, s) ==
    IF a.room = 0 \/ s.fin \/ a.rest # <<>>
    THEN [a EXCEPT !.rest = Append(@, s)]
    ELSE LET k == IF s.len < a.room THEN s.len ELSE a.room IN
         [bytes |-> a.bytes \o [j \in 1..k |-> s.off + j],
          room |-> a.room - k,
          rest |-> IF k = s.len
                   THEN <<>>
                   ELSE <<[s EXCEPT !.off = @ + k, !.len = @ - k]>>]

\* The loop, from the queue q into a buffer of n bytes.
CopyOut(q, n) ==
    LET after[i \in 0..Len(q)] ==
            IF i = 0 THEN [bytes |-> <<>>, room |-> n, rest |-> <<>>]
                     ELSE CopySegment(after[i-1], q[i])
    IN after[Len(q)]

\* read_some_impl() on a queue q that holds something.
ReadFrom(q, n) ==
    IF Head(q).fin
    THEN /\ eof' = TRUE
         /\ incoming' = Tail(q)
         /\ UNCHANGED got
    ELSE LET r == CopyOut(q, n) IN
         /\ got' = got \o r.bytes
         /\ incoming' = r.rest
         /\ UNCHANGED eof

\* async_read_some(): a pending operation is aborted; reads what is there, or
\* waits for it.  After the end of the stream the socket is not connected.
async_read_some(n) ==
    /\ ctx = "idle"
    /\ ~eof
    /\ IF incoming = <<>>
       THEN /\ recv_op' = [op |-> "some", n |-> n]
            /\ UNCHANGED <<got, eof, incoming>>
       ELSE /\ recv_op' = NoOp
            /\ ReadFrom(incoming, n)
    /\ UNCHANGED <<writerVars, next_in, reorder, data, acks, drops>>

\* async_wait(wait_read)
async_wait_read ==
    /\ ctx = "idle"
    /\ ~eof
    /\ recv_op' = IF incoming = <<>> THEN [op |-> "wait", n |-> 0] ELSE NoOp
    /\ UNCHANGED <<writerVars, next_in, reorder, incoming, got, eof, data,
                   acks, drops>>

\* cancel() on the reader's side: abort_recv_handlers().
cancel_read ==
    /\ ctx = "idle"
    /\ recv_op # NoOp
    /\ recv_op' = NoOp
    /\ UNCHANGED <<writerVars, next_in, reorder, incoming, got, eof, data,
                   acks, drops>>

\* maybe_wakeup_reader() when m_incoming_queue is q: a pending operation is
\* tried again if there is exactly one segment.
maybe_wakeup_reader(q) ==
    IF Len(q) # 1 \/ recv_op = NoOp
    THEN incoming' = q /\ UNCHANGED <<recv_op, got, eof>>
    ELSE /\ recv_op' = NoOp
         /\ IF recv_op.op = "wait"
            THEN incoming' = q /\ UNCHANGED <<got, eof>>
            ELSE ReadFrom(q, recv_op.n)

\* Mutant: all of the reorder buffer is delivered, gaps or not.
AllBuffered(seq, segs) == SetToSortSeq(segs, LAMBDA a, b : a.seq < b.seq)

\* The segments found under the numbers that follow seq, up to the first gap.
Consecutive(seq, segs) ==
    LET run == {i \in 1..Cardinality(segs) :
                    \A m \in 1..i : \E s \in segs : s.seq = seq + m}
    IN [i \in run |-> CHOOSE s \in segs : s.seq = seq + i]

\* A segment arrives (incoming_packet(), cases error and payload).
ReceiveSegment ==
    /\ ctx = "idle"
    /\ data # <<>>
    /\ data' = Tail(data)
    /\ acks' = Append(acks, Head(data).seq)
    /\ IF Head(data).seq # next_in
       THEN /\ reorder' = reorder \cup {Head(data)}
            /\ UNCHANGED <<next_in, incoming, recv_op, got, eof>>
       ELSE LET next == Consecutive(next_in, reorder) IN
            /\ next_in' = next_in + 1 + Len(next)
            /\ reorder' = reorder \ ToSet(next)
            /\ maybe_wakeup_reader(Append(incoming, Head(data)) \o next)
    /\ UNCHANGED <<writerVars, drops>>

-----------------------------------------------------------------------------

Writer ==
    \/ \E n \in Writes : async_write_some(n)
    \/ async_wait_write
    \/ cancel_write
    \/ close

Reader ==
    \/ \E n \in Reads : async_read_some(n)
    \/ async_wait_read
    \/ cancel_read

Deliver == WriteSegment \/ WriteLoop \/ ReceiveSegment \/ ReceiveAck \/ LoseAck

Drop == \E i \in DOMAIN data : NetDrop(i)

Next == Writer \/ Reader \/ Deliver \/ Drop

Spec == Init /\ [][Next]_vars

\* The event loop delivers what is on the way, and the reader keeps reading:
\* it asks for more whenever it has no operation pending.
ReadsOn == recv_op = NoOp /\ \E n \in Reads : async_read_some(n)

FairSpec == Spec /\ WF_vars(Deliver) /\ WF_vars(ReadsOn)

-----------------------------------------------------------------------------

\* Whatever is dropped, sent again and reordered, the connection is a byte
\* stream: the reader gets the bytes in order, each once, and the end of the
\* stream after all of them.
Stream == INSTANCE ByteStream
IsByteStream == Stream!Spec

\* The assertions of the ack handler: an ack always answers an outstanding
\* segment, and in-flight bytes never become negative.
AcksMatch ==
    ~closed =>
        /\ \A i \in DOMAIN acks :
            Cardinality({o \in outstanding : o.seq = acks[i]}) = 1
        /\ in_flight >= MapThenSumSet(LAMBDA o : o.len, outstanding)

\* "the number of bytes that have been sent but not ACKed yet" (simulator.hpp):
\* m_bytes_in_flight is the sum of m_outstanding_packet_sizes.
InFlightExact == in_flight = MapThenSumSet(LAMBDA o : o.len, outstanding)

\* "if there is an outstanding read operation, and this was the first incoming
\* operation since we last drained, wake up the reader" (tcp_socket.cpp): no
\* read is pending while there is something to read.
ReaderAwake == recv_op # NoOp => incoming = <<>>

\* "if the socket just became writeable, we need to notify the client"
\* (tcp_socket.cpp): no write is pending while the window has room.
WriterAwake == send_op # NoOp => WindowFull(in_flight, cwnd)

\* "prevent any more packets from being delivered to this socket" (close()):
\* no packet reaches the socket once it is closed.
NoPacketAfterClose == ctx # "undefined"

\* "If a whole window is lost, we need to only halve it once" (simulator.hpp).
HalvedOncePerWindow ==
    [][cwnd' < cwnd /\ ~closed' => last_drop' >= recover]_vars

\* A pending write is tried again as long as the reader reads and nothing is
\* dropped, and every byte written is read in the end.
WritesComplete == (send_op # NoOp) ~> (send_op = NoOp)
BytesArrive == \A n \in 1..MaxBytes : (written >= n) ~> (Len(got) >= n)

\* Neither end of a connection waits for the other for ever: the writer is woken up
\* when the window opens, and the reader when there is something to read.
StreamFlows == WritesComplete /\ BytesArrive

\* Segments "to re-send (because they were dropped)" (simulator.hpp) are sent
\* again.
DroppedAreResent == (resend # <<>>) ~> (resend = <<>>)

=============================================================================

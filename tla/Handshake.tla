----------------------------- MODULE Handshake -----------------------------
(***************************************************************************)
(* How a TCP connection begins and ends: ip::tcp::acceptor                 *)
(* (src/acceptor.cpp) with its queue of connections, the sockets that      *)
(* connect to it and the sockets it accepts into (src/tcp_socket.cpp), and *)
(* the channel that simulation::internal_connect() creates for each        *)
(* attempt.                                                                *)
(*                                                                         *)
(* A packet finds its receiver through the last hop of its route, the      *)
(* forwarder of a socket.  A forwarder that is reset swallows what reaches *)
(* it, for good; here every route that ends in it ends Nowhere from then   *)
(* on.  Of what is sent on an established connection only the end of the   *)
(* stream is modelled; TcpStream has the rest.                             *)
(***************************************************************************)
EXTENDS Integers, Sequences, SequencesExt

CONSTANTS
    Connectors,       \* the sockets that connect
    Peers,            \* the sockets the acceptor accepts into
    Acceptor,         \* the acceptor
    Nowhere,          \* where a route ends once its forwarder is reset
    NoSocket,         \* m_accept_into without a pending accept
    MayCancel,        \* may user code cancel() a connect before its time is up?
    MayReuseUnread,   \* may it reuse a socket with unread packets?
    MaxConnects,      \* bound: connection attempts that reach the acceptor
    MaxDrops          \* bound: packets the network drops

Sockets == Connectors \cup Peers

ASSUME ConstantsAssumption ==
    /\ Connectors \cap Peers = {}
    /\ {Acceptor, Nowhere, NoSocket} \cap Sockets = {}
    /\ Acceptor # Nowhere
    /\ MayCancel \in BOOLEAN
    /\ MayReuseUnread \in BOOLEAN
    /\ MaxConnects \in Nat
    /\ MaxDrops \in Nat

VARIABLES
    \* the acceptor
    acc,         \* m_open, whether it is bound, m_queue_size_limit > 0
    conns,       \* m_incoming_conns
    accepting,   \* m_accept_into, while an accept handler is set
    \* the sockets
    opened,      \* the sockets whose m_open is true
    chan,        \* m_channel: the number of the channel, 0 for none
    connecting,  \* the connectors whose m_connect_handler is set
    refused,     \* the connectors whose m_connect_timer is to report an error
    unread,      \* m_incoming_queue: the channels of the ends of streams in it
    ended,       \* the sockets that read the end of their stream
    \* the channels and the network
    chans,       \* the ends of each channel: of hops[0] and of hops[1]
    up, down,    \* packets to the acceptor's side and to the connector's side
    drops,       \* the number of packets dropped
    status,      \* "ok"; "assert": an assert failed; "null": a null channel
                 \* was dereferenced
    gone,        \* history: channels whose SYN was lost, or was in the queue
                 \* when the acceptor was closed
    abandoned    \* history: channels given up while connecting

accVars == <<acc, conns, accepting>>
socketVars == <<opened, chan, connecting, refused, unread, ended>>
netVars == <<chans, up, down, drops>>
vars == <<accVars, socketVars, netVars, status, gone, abandoned>>

Channels == 1..MaxConnects
UpPackets == [type : {"syn", "eof", "ack"}, to : Peers \cup {Acceptor, Nowhere}]
DownPackets == {"syn_ack", "reset", "eof", "ack"}

TypeOK ==
    /\ acc \in [open : BOOLEAN, bound : BOOLEAN, listening : BOOLEAN]
    /\ conns \in Seq(Channels)
    /\ accepting \in Peers \cup {NoSocket}
    /\ opened \subseteq Sockets
    /\ chan \in [Sockets -> 0..MaxConnects]
    /\ connecting \subseteq Connectors
    /\ refused \subseteq Connectors
    /\ unread \in [Sockets -> Seq(Channels)]
    /\ ended \subseteq Sockets
    /\ chans \in Seq([home : Connectors \cup {Nowhere},
                      dest : Peers \cup {Acceptor, Nowhere}])
    /\ up \in [Channels -> Seq(UpPackets)]
    /\ down \in [Channels -> Seq(DownPackets)]
    /\ drops \in 0..MaxDrops
    /\ status \in {"ok", "assert", "null"}
    /\ gone \subseteq Channels
    /\ abandoned \subseteq Channels

Init ==
    /\ acc = [open |-> FALSE, bound |-> FALSE, listening |-> FALSE]
    /\ conns = <<>>
    /\ accepting = NoSocket
    /\ opened = {}
    /\ chan = [x \in Sockets |-> 0]
    /\ connecting = {} /\ refused = {}
    /\ unread = [x \in Sockets |-> <<>>]
    /\ ended = {}
    /\ chans = <<>>
    /\ up = [c \in Channels |-> <<>>]
    /\ down = [c \in Channels |-> <<>>]
    /\ drops = 0
    /\ status = "ok"
    /\ gone = {} /\ abandoned = {}

-----------------------------------------------------------------------------
(* Routes.                                                                 *)

\* sink_forwarder::reset(): routes that ended at x end nowhere.
Cut(end, x) == IF end = x THEN Nowhere ELSE end
CutChannels(x) ==
    [c \in DOMAIN chans |->
        [home |-> Cut(chans[c].home, x), dest |-> Cut(chans[c].dest, x)]]
\* Mutant: close() takes a new forwarder and leaves the old one alone.
CutPacketsNone(u, x) == u
CutPackets(u, x) ==
    [c \in Channels |->
        [i \in DOMAIN u[c] |-> [u[c][i] EXCEPT !.to = Cut(@, x)]]]

SendUp(u, c, type) ==
    [u EXCEPT ![c] = Append(@, [type |-> type, to |-> chans[c].dest])]
SendDown(d, c, type) == [d EXCEPT ![c] = Append(@, type)]

Established(x) == chan[x] # 0 /\ x \notin connecting

-----------------------------------------------------------------------------
(* Closing.                                                                *)

\* Mutant: no end of the stream is sent.
UpClosedSilently(x) == CutPackets(up, x)

\* The packets after tcp::socket::close(): an established connection sends the
\* end of the stream first, a connecting one sends nothing.
UpClosed(x) ==
    CutPackets(IF x \in Connectors /\ Established(x)
               THEN SendUp(up, chan[x], "eof") ELSE up, x)
DownClosed(x) ==
    IF x \in Peers /\ Established(x)
    THEN SendDown(down, chan[x], "eof") ELSE down

\* Mutant: m_channel is not reset.
close_keeps_channel(x) ==
    /\ status = "ok"
    /\ x \in opened
    /\ chans' = CutChannels(x)
    /\ up' = UpClosed(x)
    /\ down' = DownClosed(x)
    /\ opened' = opened \ {x}
    /\ connecting' = connecting \ {x}
    /\ ended' = ended \ {x}
    /\ UNCHANGED <<accVars, chan, refused, unread, drops, status, gone, abandoned>>

\* tcp::socket::close(); m_incoming_queue keeps what it holds.
close(x) ==
    /\ status = "ok"
    /\ x \in opened
    /\ chans' = CutChannels(x)
    /\ up' = UpClosed(x)
    /\ down' = DownClosed(x)
    /\ chan' = [chan EXCEPT ![x] = 0]
    /\ opened' = opened \ {x}
    /\ connecting' = connecting \ {x}
    /\ ended' = ended \ {x}
    /\ abandoned' = IF x \in connecting THEN abandoned \cup {chan[x]} ELSE abandoned
    /\ UNCHANGED <<accVars, refused, unread, drops, status, gone>>

\* The destructor, and a new object in the place of x: the channel is reset
\* before anything could be sent along it.
renew(x) ==
    /\ status = "ok"
    /\ accepting # x
    /\ chans' = CutChannels(x)
    /\ up' = CutPackets(up, x)
    /\ chan' = [chan EXCEPT ![x] = 0]
    /\ opened' = opened \ {x}
    /\ connecting' = connecting \ {x}
    /\ unread' = [unread EXCEPT ![x] = <<>>]
    /\ ended' = ended \ {x}
    /\ abandoned' = IF chan[x] # 0 THEN abandoned \cup {chan[x]} ELSE abandoned
    /\ UNCHANGED <<accVars, refused, down, drops, status, gone>>

\* Nothing of channel c is in flight or in the queue: its SYN was lost, or
\* answered with an error.
TimedOut(c) == up[c] = <<>> /\ down[c] = <<>> /\ c \notin ToSet(conns)

\* tcp::socket::cancel() of a connect.  Unless MayCancel, user code calls it
\* when a timeout is over that is longer than any answer takes.
cancel(s) ==
    /\ status = "ok"
    /\ s \in connecting
    /\ MayCancel \/ TimedOut(chan[s])
    /\ connecting' = connecting \ {s}
    /\ chan' = [chan EXCEPT ![s] = 0]
    /\ abandoned' = abandoned \cup {chan[s]}
    /\ UNCHANGED <<accVars, opened, refused, unread, ended, netVars, status, gone>>

\* A read that delivers the end of the stream resets the channel.
read_some(x) ==
    /\ status = "ok"
    /\ x \in opened
    /\ Established(x)
    /\ unread[x] # <<>>
    /\ unread' = [unread EXCEPT ![x] = Tail(@)]
    /\ chan' = [chan EXCEPT ![x] = 0]
    /\ ended' = ended \cup {x}
    /\ UNCHANGED <<accVars, opened, connecting, refused, netVars, status, gone,
                   abandoned>>

-----------------------------------------------------------------------------
(* Connecting.                                                             *)

\* Unless MayReuseUnread, user code takes a new socket object (renew) once a
\* connection left unread packets in the old one.
Reusable(x) == MayReuseUnread \/ unread[x] = <<>>

\* User code connects a socket that is closed, or open and not yet connected.
MayConnect(s) ==
    /\ status = "ok"
    /\ chan[s] = 0
    /\ s \notin ended
    /\ Reusable(s)

\* async_connect() to an acceptor that listens: internal_connect() creates the
\* channel and sends a SYN along it.
async_connect(s) ==
    /\ MayConnect(s)
    /\ acc.bound /\ acc.listening
    /\ Len(chans) < MaxConnects
    /\ LET c == Len(chans) + 1 IN
        /\ chans' = Append(chans, [home |-> s, dest |-> Acceptor])
        /\ up' = [up EXCEPT ![c] = <<[type |-> "syn", to |-> Acceptor]>>]
        /\ chan' = [chan EXCEPT ![s] = c]
    /\ opened' = opened \cup {s}
    /\ connecting' = connecting \cup {s}
    /\ UNCHANGED <<accVars, refused, unread, ended, down, drops, status, gone,
                   abandoned>>

\* async_connect() when nothing listens: an error, by m_connect_timer.
ConnectFails(s) ==
    /\ MayConnect(s)
    /\ ~(acc.bound /\ acc.listening)
    /\ opened' = opened \cup {s}
    /\ refused' = refused \cup {s}
    /\ UNCHANGED <<accVars, chan, connecting, unread, ended, netVars, status,
                   gone, abandoned>>

\* The timer fires: its handler is the user's, bound to connection_refused.
ConnectRefused(s) ==
    /\ status = "ok"
    /\ s \in refused
    /\ refused' = refused \ {s}
    /\ UNCHANGED <<accVars, opened, chan, connecting, unread, ended, netVars,
                   status, gone, abandoned>>

-----------------------------------------------------------------------------
(* The acceptor.                                                           *)

\* socket::open() of the acceptor closes the socket part first: it is unbound
\* and has a new forwarder.  m_queue_size_limit, the queue and a pending accept
\* stay.
acc_open ==
    /\ status = "ok"
    /\ acc' = [acc EXCEPT !.open = TRUE, !.bound = FALSE]
    /\ chans' = CutChannels(Acceptor)
    /\ up' = CutPackets(up, Acceptor)
    /\ gone' = gone \cup ToSet(conns)
    /\ UNCHANGED <<conns, accepting, socketVars, down, drops, status, abandoned>>

acc_bind ==
    /\ status = "ok"
    /\ acc.open /\ ~acc.bound
    /\ acc' = [acc EXCEPT !.bound = TRUE]
    /\ UNCHANGED <<conns, accepting, socketVars, netVars, status, gone, abandoned>>

\* listen() fails on a closed or unbound acceptor.
listen ==
    /\ status = "ok"
    /\ acc.open /\ acc.bound
    /\ acc' = [acc EXCEPT !.listening = TRUE]
    /\ UNCHANGED <<conns, accepting, socketVars, netVars, status, gone, abandoned>>

\* acceptor::close(ec) and the destructor: the pending accept is aborted, the
\* queue stays.
acc_close ==
    /\ status = "ok"
    /\ acc' = [open |-> FALSE, bound |-> FALSE, listening |-> FALSE]
    /\ accepting' = NoSocket
    /\ chans' = CutChannels(Acceptor)
    /\ up' = CutPackets(up, Acceptor)
    /\ gone' = gone \cup ToSet(conns)
    /\ UNCHANGED <<conns, socketVars, down, drops, status, abandoned>>

\* acceptor::cancel(), and acceptor::close() without an error_code, which does
\* the same and closes nothing.
acc_cancel ==
    /\ status = "ok"
    /\ accepting' = NoSocket
    /\ UNCHANGED <<acc, conns, socketVars, netVars, status, gone, abandoned>>

\* check_accept_queue() of an open acceptor with connection c to be accepted
\* into p: internal_connect() opens p, attaches it and redirects the channel to
\* it, a SYN+ACK is sent and the accept handler is posted.  cs, d: the channels
\* and packets so far.
Accepted(c, p, cs, d) ==
    /\ chans' = [cs EXCEPT ![c].dest = p]
    /\ down' = SendDown(d, c, "syn_ack")
    /\ chan' = [chan EXCEPT ![p] = c]
    /\ opened' = opened \cup {p}
    /\ accepting' = NoSocket

\* async_accept(): peer p is closed if it is open; an earlier accept is aborted.
\* (The overload that makes a new socket accepts into a closed p.)
\* User code binds an acceptor before it accepts: a socket that is accepted by an
\* unbound one has an m_bound_to that is no end of its channel (remote_idx()).
\* The first connection in the queue is accepted at once.
AcceptNow(p) ==
    /\ status = "ok"
    /\ Reusable(p)
    /\ acc.open /\ acc.bound
    /\ conns # <<>>
    /\ Accepted(Head(conns), p, CutChannels(p), DownClosed(p))
    /\ conns' = Tail(conns)
    /\ up' = UpClosed(p)
    /\ ended' = ended \ {p}
    /\ UNCHANGED <<acc, connecting, refused, unread, drops, status, gone, abandoned>>

\* async_accept() with nothing in the queue: p waits, closed.
AcceptLater(p) ==
    /\ status = "ok"
    /\ Reusable(p)
    /\ acc.open /\ acc.bound
    /\ conns = <<>>
    /\ accepting' = p
    /\ chans' = CutChannels(p)
    /\ up' = UpClosed(p)
    /\ down' = DownClosed(p)
    /\ chan' = [chan EXCEPT ![p] = 0]
    /\ opened' = opened \ {p}
    /\ ended' = ended \ {p}
    /\ UNCHANGED <<acc, conns, connecting, refused, unread, drops, status, gone,
                   abandoned>>

\* async_accept() on a closed acceptor: the connections left in the queue are
\* sent an error, the accept is aborted.
AcceptClosed(p) ==
    LET d == DownClosed(p) IN
    /\ status = "ok"
    /\ Reusable(p)
    /\ ~acc.open
    /\ down' = [c \in Channels |->
                    IF c \in ToSet(conns) THEN Append(d[c], "reset") ELSE d[c]]
    /\ conns' = <<>>
    /\ accepting' = NoSocket
    /\ chans' = CutChannels(p)
    /\ up' = UpClosed(p)
    /\ chan' = [chan EXCEPT ![p] = 0]
    /\ opened' = opened \ {p}
    /\ ended' = ended \ {p}
    /\ UNCHANGED <<acc, connecting, refused, unread, drops, status, gone, abandoned>>

async_accept(p) == AcceptNow(p) \/ AcceptLater(p) \/ AcceptClosed(p)

-----------------------------------------------------------------------------
(* The network.                                                            *)

\* A SYN may be dropped, silently; the other packets may not (ok_to_drop()).
NetDrop(c) ==
    /\ status = "ok"
    /\ drops < MaxDrops
    /\ up[c] # <<>>
    /\ Head(up[c]).type = "syn"
    /\ up' = [up EXCEPT ![c] = Tail(@)]
    /\ drops' = drops + 1
    /\ gone' = gone \cup {c}
    /\ UNCHANGED <<accVars, socketVars, chans, down, status, abandoned>>

\* acceptor::incoming_packet() of a SYN: the connection is put in the queue, and
\* taken out again when an accept is pending.
SynArrives(c) ==
    /\ up' = [up EXCEPT ![c] = Tail(@)]
    /\ IF accepting = NoSocket
       THEN /\ conns' = Append(conns, c)
            /\ UNCHANGED <<accepting, opened, chan, chans, down>>
       ELSE /\ Accepted(Head(Append(conns, c)), accepting, chans, down)
            /\ conns' = Tail(Append(conns, c))
    /\ UNCHANGED <<acc, connecting, refused, unread, ended, drops, status, gone,
                   abandoned>>

\* socket::incoming_packet() of an error packet of channel c at socket x: it is
\* acknowledged along the channel of x and put in the incoming queue.
ErrorArrives(x, c, u, d) ==
    /\ IF chan[x] = 0
       THEN /\ status' = "null"
            /\ up' = u /\ down' = d
            /\ UNCHANGED unread
       ELSE /\ unread' = [unread EXCEPT ![x] = Append(@, c)]
            /\ up' = IF x \in Connectors THEN SendUp(u, chan[x], "ack") ELSE u
            /\ down' = IF x \in Peers THEN SendDown(d, chan[x], "ack") ELSE d
            /\ UNCHANGED status
    /\ UNCHANGED <<accVars, opened, chan, connecting, refused, ended, chans,
                   drops, gone, abandoned>>

\* A packet that nobody expects: one that is no SYN at the acceptor, a SYN+ACK
\* at a socket that is not connecting, an ack at a socket that sent nothing.
Unexpected(u, d) ==
    /\ status' = "assert"
    /\ up' = u /\ down' = d
    /\ UNCHANGED <<accVars, socketVars, chans, drops, gone, abandoned>>

Swallowed(u, d) ==
    /\ up' = u /\ down' = d
    /\ UNCHANGED <<accVars, socketVars, chans, drops, status, abandoned>>

\* The next packet of channel c reaches the side of the acceptor.
DeliverUp(c) ==
    /\ status = "ok"
    /\ up[c] # <<>>
    /\ LET p == Head(up[c])
           u == [up EXCEPT ![c] = Tail(@)] IN
        \/ /\ p.to = Nowhere
           /\ gone' = IF p.type = "syn" THEN gone \cup {c} ELSE gone
           /\ Swallowed(u, down)
        \/ /\ p.to = Acceptor
           /\ IF p.type = "syn" THEN SynArrives(c) ELSE Unexpected(u, down)
        \/ /\ p.to \in Peers
           /\ IF p.type = "eof"
              THEN ErrorArrives(p.to, c, u, down)
              ELSE Unexpected(u, down)

\* Mutant: the connect handler stays set.
SynAckKept(s, d) ==
    /\ down' = d
    /\ UNCHANGED <<accVars, socketVars, chans, up, drops, status, gone, abandoned>>

\* socket::incoming_packet() of a SYN+ACK: the connect handler is posted.
SynAckArrives(s, d) ==
    /\ connecting' = connecting \ {s}
    /\ down' = d
    /\ UNCHANGED <<accVars, opened, chan, refused, unread, ended, chans, up,
                   drops, status, gone, abandoned>>

\* The next packet of channel c reaches the side of the connector.
DeliverDown(c) ==
    /\ status = "ok"
    /\ down[c] # <<>>
    /\ LET s == chans[c].home
           d == [down EXCEPT ![c] = Tail(@)] IN
        \/ s = Nowhere /\ Swallowed(up, d) /\ UNCHANGED gone
        \/ /\ s # Nowhere
           /\ Head(down[c]) \in {"syn_ack", "ack"}
           /\ IF Head(down[c]) = "syn_ack" /\ s \in connecting
              THEN SynAckArrives(s, d)
              ELSE Unexpected(up, d)
        \/ /\ s # Nowhere
           /\ Head(down[c]) \in {"reset", "eof"}
           /\ ErrorArrives(s, c, up, d)

-----------------------------------------------------------------------------

AcceptorOp == acc_open \/ acc_bind \/ listen \/ acc_close \/ acc_cancel

Network(c) == DeliverUp(c) \/ DeliverDown(c)

Next ==
    \/ AcceptorOp
    \/ \E p \in Peers : async_accept(p)
    \/ \E s \in Connectors :
            async_connect(s) \/ ConnectFails(s) \/ ConnectRefused(s) \/ cancel(s)
    \/ \E x \in Sockets : close(x) \/ renew(x) \/ read_some(x)
    \/ \E c \in Channels : NetDrop(c) \/ Network(c)

Spec == Init /\ [][Next]_vars

\* run() delivers what is in flight.  The server accepts again whenever it has
\* no accept pending on a bound acceptor, reads what it is sent and does not
\* keep closed sockets for reuse.
Fairness ==
    /\ \A c \in Channels : WF_vars(DeliverUp(c)) /\ WF_vars(DeliverDown(c))
    /\ WF_vars(/\ accepting = NoSocket /\ acc.open /\ acc.bound
               /\ \E p \in Peers : async_accept(p))
    /\ \A p \in Peers : WF_vars(read_some(p)) /\ WF_vars(p \notin opened /\ renew(p))

FairSpec == Spec /\ Fairness

-----------------------------------------------------------------------------
(* Safety.                                                                 *)

\* The assertions on incoming packets hold: a SYN+ACK finds a socket that is
\* connecting ("assert(m_connect_handler)"), the acceptor gets nothing but SYNs,
\* and no packet reaches a socket whose m_channel is null, however closing,
\* reading and accepting interleave with packets in flight.
PacketsExpected == status = "ok"

\* A socket whose connect completed is connected to a socket that was accepted
\* and not to the acceptor: its channel was redirected before the SYN+ACK came.
ConnectedIsAccepted ==
    \A s \in Connectors : Established(s) => chans[chan[s]].dest # Acceptor

\* A channel has one end on each side, whose packets it carries as long as it is
\* attached: no connection is accepted twice, none is taken over.
OneEndEachSide ==
    /\ \A p \in Peers : chan[p] # 0 => chans[chan[p]].dest = p
    /\ \A s \in Connectors : chan[s] # 0 => chans[chan[s]].home = s

\* No connection waits in the queue of an open acceptor that waits for one.
AcceptorAwake == accepting # NoSocket /\ acc.open => conns = <<>>

\* close() resets the socket state ("reset socket state", tcp_socket.cpp:233):
\* what a socket can read was sent on the connection it has now.
ReadsOwnStream ==
    \A x \in Sockets : chan[x] # 0 => ToSet(unread[x]) \subseteq {chan[x]}

\* "if m_connect_handler is still set, it means the connection hasn't been
\* established yet, and this channel points to the acceptor socket, not another
\* open TCP connection" (close()).
ConnectingIsUnaccepted ==
    \A s \in connecting : chans[chan[s]].dest \notin Peers

-----------------------------------------------------------------------------
(* Liveness.                                                               *)

\* A connect completes, unless its SYN was lost or the acceptor was closed with
\* the connection in its queue.
ConnectCompletes ==
    \A s \in Connectors, c \in Channels :
        (s \in connecting /\ chan[s] = c) ~>
            (s \notin connecting \/ chan[s] # c \/ c \in gone)

\* The accepted end of a connection learns that the other end was closed, unless
\* that happened during the handshake or by destruction.
CloseIsSeen ==
    \A p \in Peers, c \in Channels :
        (chan[p] = c /\ \A s \in Connectors : chan[s] # c) ~>
            (chan[p] # c \/ unread[p] # <<>> \/ c \in abandoned)

=============================================================================

---------------------------- MODULE SocksServer ----------------------------
(***************************************************************************)
(* sim::socks_server and socks_connection (src/socks_server.cpp): a SOCKS4  *)
(* or SOCKS5 proxy.  Each connection object owns five sockets and resolvers *)
(* and two buffers, and lives as long as a handler holds a shared_ptr to   *)
(* it; the handlers of its UDP socket hold a plain pointer.                *)
(*                                                                         *)
(* sv is the server with its connections and what is posted; handlers are  *)
(* operators from one value of it to the next.  What a client sends is a   *)
(* sequence of units: one for each thing the protocol makes the server     *)
(* read, then its data.                                                    *)
(***************************************************************************)
EXTENDS Integers, Sequences, SequencesExt, FiniteSetsExt

CONSTANTS
    Clients,     \* the sockets that connect to the server
    Scenes,      \* what the server and the clients do, see SceneType
    MaxData,     \* bound: units of data each way on a connection
    MaxPackets   \* bound: UDP packets to a relay

CONNECT == 1
BIND == 2
UDP_ASSOCIATE == 3

\* The request of a client.  target: for CONNECT an address where a server listens
\* or none does ("dead"), or a host name, of more than 3 bytes, of 3 ("name3") or of
\* fewer ("short"); for the others an address the server can bind to or not; "ip6"
\* an address of that type.  methods: how many auth-methods it offers, "many" are
\* 128 or more.  bad: which unit of the handshake is not well-formed, 0 for none.
\* port: a UDP_ASSOCIATE says which port the client sends from.
Names == {"name", "name3", "short"}
PlanType == [cmd : 0..4, target : {"live", "dead", "ip6"} \cup Names,
             methods : {"none", "some", "many"}, bad : 0..3, port : BOOLEAN]

\* may: what else may happen.  "coincide": packets arrive at the same time as
\* others, whose handlers are still posted; "early": the client of a BIND sends
\* data before its peer has connected.
Mays == {"coincide", "early"}

SceneType == [version : {4, 5}, disconnect_udp_associate : BOOLEAN,
              plan : UNION {[S -> PlanType] : S \in SUBSET Clients}, may : SUBSET Mays]

ASSUME ConstantsAssumption ==
    /\ Scenes \subseteq SceneType
    /\ MaxData \in Nat /\ MaxPackets \in Nat

VARIABLES
    sv,      \* the server, see TypeOK
    scene,   \* of Scenes
    begun,   \* the clients that have connected
    hung,    \* the clients that have closed their socket
    sent,    \* how many units each client sent
    peer     \* of each connection: the units its server sent, and whether it closed;
             \* the packets its relay received, and the lookups for it that failed

env == <<scene, begun, hung, sent, peer>>
vars == <<sv, env>>

Plan(c) == scene.plan[c]
May(m) == m \in scene.may

\* What a client sends before its data, and its data.  A "request" for a host name of
\* 3 bytes is complete with the 10 bytes that the server reads first.
Script(c) ==
    LET s == IF scene.version = 4 THEN <<"request">>
             ELSE <<"greet">>
                    \o (IF Plan(c).methods = "none" THEN <<>> ELSE <<"methods">>)
                    \o <<"request">>
                    \o (IF Plan(c).target = "name" THEN <<"name">> ELSE <<>>) IN
    [i \in DOMAIN s |-> IF i = Plan(c).bad THEN "bad" ELSE s[i]]
ClientData == <<"c1", "c2", "c3">>
ServerData == <<"s1", "s2", "s3">>

Units == {"greet", "methods", "request", "name", "bad", "eof"}
            \cup ToSet(ClientData) \cup ToSet(ServerData)
Packets == [from : {"client", "host"}, kind : {"ip", "name", "other"}, n : Nat]

\* The handlers with a shared_ptr to the connection, and those without.
StrongHandlers ==
    {"on_accept", "on_handshake1", "on_handshake2", "on_handshake3", "on_request1",
     "on_request_domain_name", "on_request_domain_lookup", "on_connected", "relay",
     "start_accept", "wait_for_eof", "on_client_receive", "on_client_forward",
     "on_server_receive", "on_server_forward", "close_connection"}
WeakHandlers == {"on_read_udp", "on_udp_lookup"}

Errors == {"ok", "operation_aborted", "bad_descriptor", "eof", "error"}

\* reading, writing: the handler of what is pending; wbuf: what is being written.
\* "refused": the connect timer is going to report that nobody listens.
SocketType ==
    [st : {"closed", "connecting", "refused", "open", "ended"}, inq : Seq(Units),
     reading : StrongHandlers \cup {"none"}, writing : StrongHandlers \cup {"none"},
     wbuf : Seq(Units)]
NoSocket == [st |-> "closed", inq |-> <<>>, reading |-> "none", writing |-> "none",
             wbuf |-> <<>>]

\* m_udp_associate: ep says whether the port of m_udp_associate_ep is known, named
\* whether m_name_mapping has the host, lookups is m_udp_resolver's queue.
UdpType == [open : BOOLEAN, reading : BOOLEAN, inq : Seq(Packets), ep : BOOLEAN,
            named : BOOLEAN, lookups : Seq(Packets)]
NoUdp == [open |-> FALSE, reading |-> FALSE, inq |-> <<>>, ep |-> FALSE,
          named |-> FALSE, lookups |-> <<>>]

\* bind: m_bind_socket, "accepting" with m_accept_handler set; timer: the connect
\* timer of the server socket is armed; lookup: m_resolver is at work.
ConnType ==
    [alive : BOOLEAN, client : SocketType, server : SocketType,
     bind : {"closed", "bound", "accepting", "listening"},
     timer : BOOLEAN, lookup : BOOLEAN, udp : UdpType]
NoConn == [alive |-> FALSE, client |-> NoSocket, server |-> NoSocket,
           bind |-> "closed", timer |-> FALSE, lookup |-> FALSE, udp |-> NoUdp]

\* got: what each client received; rx: what each server received; fwd: the packets
\* each relay sent out; fault: what went wrong in memory.
TypeOK ==
    /\ sv \in [backlog : Seq(Clients), accepting : BOOLEAN, m_close : BOOLEAN,
               conn : [Clients -> ConnType], counts : [1..3 -> Nat],
               posted : Seq([c : Clients, h : StrongHandlers, ec : Errors, data : Seq(Units)]
                            \cup [c : Clients, h : WeakHandlers, ec : Errors, packets : Seq(Packets)]),
               got : [Clients -> Seq(Units \cup {"method", "granted", "rejected"})],
               rx : [Clients -> Seq(Units)], fwd : [Clients -> Seq(Packets)],
               fault : {"none", "counts", "dangling"}]
    /\ scene \in Scenes
    /\ begun \subseteq Clients /\ hung \subseteq Clients
    /\ sent \in [Clients -> Nat]
    /\ peer \in [Clients -> [sent : 0..MaxData, closed : BOOLEAN,
                             packets : Seq(Packets), unresolved : SUBSET Packets]]

\* The constructor listens and accepts.
Init ==
    /\ sv = [backlog |-> <<>>, accepting |-> TRUE, m_close |-> FALSE,
             conn |-> [c \in Clients |-> NoConn], counts |-> [i \in 1..3 |-> 0],
             posted |-> <<>>, got |-> [c \in Clients |-> <<>>],
             rx |-> [c \in Clients |-> <<>>], fwd |-> [c \in Clients |-> <<>>],
             fault |-> "none"]
    /\ scene \in Scenes
    /\ begun = {} /\ hung = {}
    /\ sent = [c \in Clients |-> 0]
    /\ peer = [c \in Clients |-> [sent |-> 0, closed |-> FALSE,
                              packets |-> <<>>, unresolved |-> {}]]

-----------------------------------------------------------------------------
(* The sockets underneath.  s is "client" or "server".                     *)

Post(w, c, h, ec, data) ==
    [w EXCEPT !.posted = Append(@, [c |-> c, h |-> h, ec |-> ec, data |-> data])]
PostUdp(w, c, h, ec, packets) ==
    [w EXCEPT !.posted = Append(@, [c |-> c, h |-> h, ec |-> ec, packets |-> packets])]

\* What is posted when handler h of connection c is aborted, if one is set.
Aborted(c, h) ==
    IF h = "none" THEN <<>>
    ELSE <<[c |-> c, h |-> h, ec |-> "operation_aborted", data |-> <<>>]>>

\* socket::close() of a socket k posts these.  The sockets are not used again, so
\* that what is unread does not matter.
Closing(c, k) ==
    Aborted(c, k.reading) \o Aborted(c, k.writing)
        \o Aborted(c, IF k.st = "connecting" THEN "on_connected" ELSE "none")
CloseSocket(w, c, s) ==
    [w EXCEPT !.posted = @ \o Closing(c, w.conn[c][s]), !.conn[c][s] = NoSocket]

\* Mutant: the request is read with async_read_some().
ExactHandshake(h) == h \in {"on_handshake1", "on_handshake2", "on_request_domain_name"}

\* The handlers of async_read().
Exact(h) == h \in {"on_handshake1", "on_handshake2", "on_request1",
                   "on_request_domain_name"}

\* More units than a client sends: the length of a read that is negative as an int.
Endless == 5 + MaxData

\* How many units such a read waits for.  The number of methods is a signed char.  Of
\* a request for a host name its length less 3 bytes are left; with fewer than 3 the
\* request itself is shorter than the 10 bytes that are read of it.
Wanted(c, h) ==
    LET p == Plan(c) IN
    CASE h = "on_handshake2" /\ p.methods = "none" -> 0
      [] h = "on_handshake2" /\ p.methods = "many" -> Endless
      [] h = "on_request1" /\ p.target = "short" -> 2
      [] h = "on_request_domain_name" /\ p.target = "name3" -> 0
      [] h = "on_request_domain_name" /\ p.target = "short" -> Endless
      [] OTHER -> 1

\* async_read_some(), which takes what there is, or async_read() of what the protocol
\* expects.  A read of no bytes completes at once.
CompleteRead(w, c, s, h) ==
    LET k == w.conn[c][s]
        q == k.inq
        available == Len(SelectSeq(q, LAMBDA u : u # "eof"))
        n == IF Exact(h) THEN Wanted(c, h) ELSE Max({1, available}) IN
    IF Exact(h) /\ Wanted(c, h) = 0 THEN Post(w, c, h, "ok", <<>>)
    ELSE CASE k.st = "closed" -> Post(w, c, h, "bad_descriptor", <<>>)
           [] k.st \in {"ended", "refused"} -> Post(w, c, h, "error", <<>>)
           [] k.st = "open" /\ available >= n ->
                Post([w EXCEPT !.conn[c][s].inq = SubSeq(q, n+1, Len(q)),
                               !.conn[c][s].reading = "none"], c, h, "ok", SubSeq(q, 1, n))
           [] k.st = "open" /\ available < n /\ available < Len(q) ->
                Post([w EXCEPT !.conn[c][s].st = "ended", !.conn[c][s].inq = <<>>,
                               !.conn[c][s].reading = "none"], c, h, "eof", <<>>)
           [] OTHER -> [w EXCEPT !.conn[c][s].reading = h]

\* A read that is pending is aborted.
Read(w, c, s, h) ==
    CompleteRead([w EXCEPT !.posted = @ \o Aborted(c, w.conn[c][s].reading),
                           !.conn[c][s].reading = "none"], c, s, h)

\* Data that arrives at the other end: none does if that is closed.
Delivered(w, c, s, data) ==
    IF s = "client" THEN IF c \in hung THEN w ELSE [w EXCEPT !.got[c] = @ \o data]
    ELSE IF peer[c].closed THEN w ELSE [w EXCEPT !.rx[c] = @ \o data]

\* async_write(): it waits for acks if the window is full.
Write(w, c, s, h, data, full) ==
    LET v == [w EXCEPT !.posted = @ \o Aborted(c, w.conn[c][s].writing),
                       !.conn[c][s].writing = "none"]
        st == w.conn[c][s].st IN
    IF st = "closed" THEN Post(v, c, h, "bad_descriptor", <<>>)
    ELSE IF st # "open" THEN Post(v, c, h, "error", <<>>)
    ELSE IF full THEN [v EXCEPT !.conn[c][s].writing = h, !.conn[c][s].wbuf = data]
    ELSE Post(Delivered(v, c, s, data), c, h, "ok", <<>>)

\* A reply of the protocol fits the window.
Reply(w, c, h, reply) == Write(w, c, "client", h, <<reply>>, FALSE)

\* async_receive_from()
ReceiveUdp(w, c) ==
    LET q == w.conn[c].udp.inq IN
    IF ~w.conn[c].udp.open THEN PostUdp(w, c, "on_read_udp", "bad_descriptor", <<>>)
    ELSE IF q = <<>> THEN [w EXCEPT !.conn[c].udp.reading = TRUE]
    ELSE PostUdp([w EXCEPT !.conn[c].udp.inq = Tail(q), !.conn[c].udp.reading = FALSE],
                 c, "on_read_udp", "ok", <<Head(q)>>)

CloseUdp(w, c) ==
    LET u == w.conn[c].udp
        v == IF u.reading THEN PostUdp(w, c, "on_read_udp", "operation_aborted", <<>>) ELSE w IN
    [v EXCEPT !.conn[c].udp = [NoUdp EXCEPT !.named = u.named, !.lookups = u.lookups]]

\* check_accept_queue() of m_listen_socket: m_conn is connected to the first client.
CheckQueue(w) ==
    IF w.backlog = <<>> \/ ~w.accepting THEN w
    ELSE LET c == Head(w.backlog) IN
         Post([w EXCEPT !.accepting = FALSE, !.backlog = Tail(@),
                        !.conn[c].alive = TRUE, !.conn[c].client.st = "open"],
              c, "on_accept", "ok", <<>>)

-----------------------------------------------------------------------------
(* The life of a connection.                                               *)

\* A handler that is pending or posted holds a shared_ptr to the connection.
Held(w, c) ==
    LET k == w.conn[c] IN
    \/ \E s \in {"client", "server"} :
            k[s].reading # "none" \/ k[s].writing # "none" \/ k[s].st = "connecting"
    \/ k.bind = "accepting" \/ k.timer \/ k.lookup
    \/ \E i \in DOMAIN w.posted : w.posted[i].c = c /\ w.posted[i].h \in StrongHandlers

\* ~socks_connection(), once nobody holds it: the destructors close what is open,
\* and the queue of m_udp_resolver goes with it.
Reaped(w, c) ==
    IF w.conn[c].alive /\ ~Held(w, c)
    THEN [CloseUdp(w, c) EXCEPT !.conn[c] = NoConn] ELSE w

close_connection(w, c) ==
    LET k == w.conn[c] IN
    [w EXCEPT !.posted = @ \o Closing(c, k.client) \o Closing(c, k.server)
                \o Aborted(c, IF k.bind = "accepting" THEN "on_connected" ELSE "none"),
              !.conn[c].client = NoSocket, !.conn[c].server = NoSocket,
              !.conn[c].bind = "closed"]

-----------------------------------------------------------------------------
(* The requests.                                                           *)

\* A target that does not listen is reported by the connect timer of the socket,
\* which close() does not cancel.
open_forward_connection(w, c, live) ==
    LET v == CloseSocket(w, c, "server") IN
    IF live THEN [v EXCEPT !.conn[c].server.st = "connecting"]
    ELSE [v EXCEPT !.conn[c].server.st = "refused", !.conn[c].timer = TRUE]

\* All clients that BIND ask for the same endpoint, which one socket can have.
CanBind(w, c) ==
    /\ Plan(c).target # "dead"
    /\ \A d \in Clients : w.conn[d].bind = "closed"

\* Mutant: the first reply is left out.
bind_connection_silent(w, c) ==
    IF CanBind(w, c)
    THEN Read([w EXCEPT !.conn[c].bind = "accepting"], c, "client", "on_client_receive")
    ELSE Reply(w, c, "close_connection", "rejected")

bind_connection(w, c) ==
    IF CanBind(w, c)
    THEN Reply([w EXCEPT !.conn[c].bind = "bound"], c, "start_accept", "granted")
    ELSE Reply(w, c, "close_connection", "rejected")

\* Every relay has a port of its own, of m_bind_port.
udp_associate(w, c) ==
    IF Plan(c).target = "dead" THEN Reply(w, c, "close_connection", "rejected")
    ELSE Reply(ReceiveUdp([w EXCEPT !.conn[c].udp.open = TRUE,
                                    !.conn[c].udp.ep = Plan(c).port], c),
               c, "wait_for_eof", "granted")

\* What on_request1() does with a well-formed request.
Execute(w, c) ==
    LET cmd == Plan(c).cmd
        target == Plan(c).target IN
    CASE \/ target = "ip6"
         \/ target \in Names /\ cmd = BIND
         \/ scene.version = 4 /\ cmd = UDP_ASSOCIATE -> close_connection(w, c)
      [] target \in Names /\ cmd # BIND -> Read(w, c, "client", "on_request_domain_name")
      [] target \in {"live", "dead"} /\ cmd = CONNECT ->
            open_forward_connection(w, c, target = "live")
      [] target \in {"live", "dead"} /\ cmd = BIND -> bind_connection(w, c)
      [] target \in {"live", "dead"} /\ cmd = UDP_ASSOCIATE /\ scene.version = 5 ->
            udp_associate(w, c)

-----------------------------------------------------------------------------
(* The handlers.                                                           *)

\* The first completion posted, its connection, and the server when it is called.
\* What has gone wrong in memory has no next state.
Called == Head(sv.posted)
Conn == Called.c
Ok == Called.ec = "ok"
Popped == [sv EXCEPT !.posted = Tail(@)]
Running(h) == sv.fault = "none" /\ sv.posted # <<>> /\ Called.h = h

\* A handler returns, and with it goes its shared_ptr.
Return(v) == (\E w \in {v} : sv' = Reaped(w, Conn)) /\ UNCHANGED env

\* on_accept(): start() reads, and the next connection is accepted.
on_accept ==
    /\ Running("on_accept")
    /\ LET w == Read(Popped, Conn, "client", IF scene.version = 4 THEN "on_request1"
                                             ELSE "on_handshake1") IN
        Return(CheckQueue([w EXCEPT !.accepting = TRUE]))

\* The handlers of the handshake close the connection for an error or for a unit
\* that is not as it should be.
WellFormed == Ok /\ "bad" \notin ToSet(Called.data)
Proceed(h, good, w) ==
    /\ Running(h)
    /\ Return(IF good THEN w ELSE close_connection(Popped, Conn))

on_handshake1 ==
    Proceed("on_handshake1", WellFormed, Read(Popped, Conn, "client", "on_handshake2"))

\* One of the methods has to be 0.
on_handshake2 ==
    Proceed("on_handshake2", WellFormed /\ Called.data # <<>>,
            Reply(Popped, Conn, "on_handshake3", "method"))
on_handshake3 ==
    Proceed("on_handshake3", Ok, Read(Popped, Conn, "client", "on_request1"))

\* The command is counted before it is looked at.
on_request1 ==
    /\ Running("on_request1")
    /\ LET cmd == Plan(Conn).cmd
           w == [Popped EXCEPT !.counts[cmd] = @ + 1] IN
        Return(IF ~Ok THEN close_connection(Popped, Conn)
               ELSE IF cmd \notin 1..3 THEN [Popped EXCEPT !.fault = "counts"]
               ELSE IF ~WellFormed THEN close_connection(w, Conn)
               ELSE Execute(w, Conn))

\* The name is looked up whatever the command was.
on_request_domain_name ==
    Proceed("on_request_domain_name", Ok, [Popped EXCEPT !.conn[Conn].lookup = TRUE])

\* The resolver has an address where a server listens, or none does, or an error.
on_request_domain_lookup ==
    /\ Running("on_request_domain_lookup")
    /\ Return(IF ~Ok THEN Reply(Popped, Conn, "close_connection", "rejected")
              ELSE open_forward_connection(Popped, Conn, Called.data # <<>>))

on_connected ==
    /\ Running("on_connected")
    /\ Return(CASE Called.ec \in {"operation_aborted", "bad_descriptor"} -> Popped
                [] Ok -> Reply(Popped, Conn, "relay", "granted")
                [] OTHER -> Reply(Popped, Conn, "close_connection", "rejected"))

\* The handler of the reply in on_connected().
relay ==
    /\ Running("relay")
    /\ Return(IF ~Ok THEN Popped
              ELSE Read(Read(Popped, Conn, "server", "on_server_receive"),
                        Conn, "client", "on_client_receive"))

\* The handler of a reply that reports an error.
Rejected ==
    /\ Running("close_connection")
    /\ Return(close_connection(Popped, Conn))

\* Mutant: the client is not read meanwhile.
start_accept_only ==
    /\ Running("start_accept")
    /\ Return(IF ~Ok THEN close_connection(Popped, Conn)
              ELSE [Popped EXCEPT !.conn[Conn].bind = "accepting"])

\* listen(), and accept into m_server_connection; meanwhile the client is read, to
\* see it go.
start_accept ==
    /\ Running("start_accept")
    /\ Return(IF ~Ok THEN close_connection(Popped, Conn)
              ELSE Read([Popped EXCEPT !.conn[Conn].bind = "accepting"],
                        Conn, "client", "on_client_receive"))

\* Mutant: the next data is read before this is written.
on_client_receive_reads ==
    /\ Running("on_client_receive")
    /\ \E full \in BOOLEAN :
        Return(CASE Called.ec \in {"operation_aborted", "bad_descriptor"} -> Popped
                 [] Ok -> Read(Write(Popped, Conn, "server", "on_client_forward",
                                     Called.data, full),
                               Conn, "client", "on_client_receive")
                 [] OTHER -> close_connection(Popped, Conn))

on_client_receive ==
    /\ Running("on_client_receive")
    /\ \E full \in BOOLEAN :
        Return(CASE Called.ec \in {"operation_aborted", "bad_descriptor"} -> Popped
                 [] Ok -> Write(Popped, Conn, "server", "on_client_forward", Called.data, full)
                 [] OTHER -> close_connection(Popped, Conn))

on_server_receive ==
    /\ Running("on_server_receive")
    /\ \E full \in BOOLEAN :
        Return(IF Ok
               THEN Write(Popped, Conn, "client", "on_server_forward", Called.data, full)
               ELSE close_connection(Popped, Conn))

\* One direction goes on reading when its write is done.
Forwarded(h, s, next) ==
    /\ Running(h)
    /\ Return(IF Ok THEN Read(Popped, Conn, s, next) ELSE close_connection(Popped, Conn))

on_client_forward == Forwarded("on_client_forward", "client", "on_client_receive")
on_server_forward == Forwarded("on_server_forward", "server", "on_server_receive")

-----------------------------------------------------------------------------
(* The UDP relay.                                                          *)

\* The control connection of an association: it is read until it ends.
wait_for_eof ==
    /\ Running("wait_for_eof")
    /\ Return(IF ~Ok THEN CloseSocket(CloseUdp(Popped, Conn), Conn, "client")
              ELSE IF scene.disconnect_udp_associate THEN CloseSocket(Popped, Conn, "client")
              ELSE Read(Popped, Conn, "client", "wait_for_eof"))

SendOut(w, c, p) == [w EXCEPT !.fwd[c] = Append(@, p)]


\* on_read_udp() with packet p.  The first packet from the address of the client
\* tells its port.  A packet for a host that m_name_mapping has is sent, and then
\* the function returns; in all other cases it goes on receiving.  What a host sends
\* goes to the client, or nowhere while its port is not known.
RelayPacket(w, c, p) ==
    LET v == IF p.from = "client" THEN [w EXCEPT !.conn[c].udp.ep = TRUE] ELSE w IN
    CASE p.from = "client" /\ p.kind = "name" /\ v.conn[c].udp.named -> SendOut(v, c, p)
      [] p.from = "client" /\ p.kind = "name" /\ ~v.conn[c].udp.named ->
            ReceiveUdp([v EXCEPT !.conn[c].udp.lookups = Append(@, p)], c)
      [] \/ p.from = "client" /\ p.kind = "ip"
         \/ p.from = "host" /\ v.conn[c].udp.ep ->
            ReceiveUdp(SendOut(v, c, p), c)
      [] OTHER -> ReceiveUdp(v, c)

\* Mutant: the error is looked at after the port of the client.
on_read_udp_learns_first ==
    /\ Running("on_read_udp")
    /\ Return(IF ~sv.conn[Conn].alive THEN [Popped EXCEPT !.fault = "dangling"]
              ELSE IF ~Ok THEN Popped
              ELSE RelayPacket(Popped, Conn, Called.packets[1]))

\* "this" is used unless there is an error.
on_read_udp ==
    /\ Running("on_read_udp")
    /\ Return(IF ~Ok THEN Popped
              ELSE IF ~sv.conn[Conn].alive THEN [Popped EXCEPT !.fault = "dangling"]
              ELSE RelayPacket(Popped, Conn, Called.packets[1]))

\* on_lookup() of m_udp_resolver, and the handler that it calls.
on_udp_lookup ==
    /\ Running("on_udp_lookup")
    /\ Return(IF ~sv.conn[Conn].alive THEN [Popped EXCEPT !.fault = "dangling"]
              ELSE IF ~Ok \/ ~sv.conn[Conn].udp.open THEN Popped
              ELSE [SendOut(Popped, Conn, Called.packets[1])
                        EXCEPT !.conn[Conn].udp.named = TRUE])

\* stop(): the accept is aborted, and on_accept() returns at once.
stop ==
    /\ sv.fault = "none" /\ ~sv.m_close
    /\ sv' = [sv EXCEPT !.m_close = TRUE, !.accepting = FALSE]
    /\ UNCHANGED env

-----------------------------------------------------------------------------
(* The clients, the servers and the resolvers.                             *)

Quiet == sv.fault = "none" /\ (sv.posted = <<>> \/ May("coincide"))

connect(c) ==
    /\ Quiet
    /\ c \in DOMAIN scene.plan \ begun
    /\ begun' = begun \cup {c}
    /\ sv' = CheckQueue([sv EXCEPT !.backlog = Append(@, c)])
    /\ UNCHANGED <<scene, hung, sent, peer>>

\* A packet arrives, and the pending read is completed.
Arrive(c, s, u) ==
    LET w == [sv EXCEPT !.conn[c][s].inq = Append(@, u)]
        h == sv.conn[c][s].reading IN
    sv' = IF h = "none" THEN w ELSE CompleteRead(w, c, s, h)

Connected(c) == sv.conn[c].client.st = "open" /\ c \notin hung

Grants(c) == IF Plan(c).cmd = BIND THEN 2 ELSE 1
Granted(c) == Len(SelectSeq(sv.got[c], LAMBDA r : r = "granted")) >= Grants(c)
Posted(c, h) == \E i \in DOMAIN sv.posted : sv.posted[i].c = c /\ sv.posted[i].h = h

\* The client of a BIND sends data when the second reply has reached it, by which
\* time the handler of that reply has run.
send(c) ==
    /\ Quiet /\ Connected(c)
    /\ LET n == sent[c] + 1
           k == n - Len(Script(c)) IN
        /\ k =< MaxData
        /\ k > 0 /\ Plan(c).cmd = BIND => May("early") \/ (Granted(c) /\ ~Posted(c, "relay"))
        /\ Arrive(c, "client", IF k > 0 THEN ClientData[k] ELSE Script(c)[n])
        /\ sent' = [sent EXCEPT ![c] = n]
    /\ UNCHANGED <<scene, begun, hung, peer>>

hangup(c) ==
    /\ Quiet /\ Connected(c)
    /\ hung' = hung \cup {c}
    /\ Arrive(c, "client", "eof")
    /\ UNCHANGED <<scene, begun, sent, peer>>

ServerOpen(c) == sv.conn[c].server.st = "open" /\ ~peer[c].closed

ServerSends(c) ==
    /\ Quiet /\ ServerOpen(c)
    /\ peer[c].sent < MaxData
    /\ peer' = [peer EXCEPT ![c].sent = @ + 1]
    /\ Arrive(c, "server", ServerData[peer[c].sent + 1])
    /\ UNCHANGED <<scene, begun, hung, sent>>

ServerCloses(c) ==
    /\ Quiet /\ ServerOpen(c)
    /\ peer' = [peer EXCEPT ![c].closed = TRUE]
    /\ Arrive(c, "server", "eof")
    /\ UNCHANGED <<scene, begun, hung, sent>>

\* The acks for a pending write arrive.
Acks(c, s) ==
    /\ Quiet
    /\ sv.conn[c][s].writing # "none"
    /\ IF s = "client" THEN c \notin hung ELSE ~peer[c].closed
    /\ sv' = Post([Delivered(sv, c, s, sv.conn[c][s].wbuf) EXCEPT
                        !.conn[c][s].writing = "none", !.conn[c][s].wbuf = <<>>],
                  c, sv.conn[c][s].writing, "ok", <<>>)
    /\ UNCHANGED env

SynAck(c) ==
    /\ Quiet
    /\ sv.conn[c].server.st = "connecting"
    /\ sv' = Post([sv EXCEPT !.conn[c].server.st = "open"], c, "on_connected", "ok", <<>>)
    /\ UNCHANGED env

ConnectRefused(c) ==
    /\ Quiet
    /\ sv.conn[c].timer
    /\ sv' = Post([sv EXCEPT !.conn[c].timer = FALSE], c, "on_connected", "error", <<>>)
    /\ UNCHANGED env

\* The peer of a BIND connects.
PeerConnects(c) ==
    /\ Quiet
    /\ sv.conn[c].bind = "accepting"
    /\ sv' = Post([sv EXCEPT !.conn[c].bind = "listening", !.conn[c].server.st = "open"],
                  c, "on_connected", "ok", <<>>)
    /\ UNCHANGED env

LookupDone(c, ec, live) ==
    /\ Quiet
    /\ sv.conn[c].lookup
    /\ sv' = Post([sv EXCEPT !.conn[c].lookup = FALSE], c, "on_request_domain_lookup", ec,
                  IF live THEN <<"name">> ELSE <<>>)
    /\ UNCHANGED env

UdpLookupDone(c, ec) ==
    /\ Quiet
    /\ sv.conn[c].udp.lookups # <<>>
    /\ sv' = PostUdp([sv EXCEPT !.conn[c].udp.lookups = Tail(@)], c, "on_udp_lookup", ec,
                     <<Head(sv.conn[c].udp.lookups)>>)
    /\ peer' = IF ec = "ok" THEN peer
               ELSE [peer EXCEPT ![c].unresolved = @ \cup {Head(sv.conn[c].udp.lookups)}]
    /\ UNCHANGED <<scene, begun, hung, sent>>

\* A UDP packet arrives at the relay of client c.
UdpArrives(c, from, kind) ==
    LET u == sv.conn[c].udp
        p == [from |-> from, kind |-> kind, n |-> Len(peer[c].packets) + 1]
        w == [sv EXCEPT !.conn[c].udp.inq = Append(@, p)] IN
    /\ Quiet /\ u.open
    /\ Len(peer[c].packets) < MaxPackets
    /\ sv' = IF u.reading THEN ReceiveUdp(w, c) ELSE w
    /\ peer' = [peer EXCEPT ![c].packets = Append(@, p)]
    /\ UNCHANGED <<scene, begun, hung, sent>>

-----------------------------------------------------------------------------

Run ==
    \/ on_accept \/ on_handshake1 \/ on_handshake2 \/ on_handshake3 \/ on_request1
    \/ on_request_domain_name \/ on_request_domain_lookup \/ on_connected \/ relay
    \/ Rejected \/ start_accept \/ wait_for_eof \/ on_read_udp \/ on_udp_lookup
    \/ on_client_receive \/ on_client_forward \/ on_server_receive \/ on_server_forward

Network(c) ==
    \/ \E s \in {"client", "server"} : Acks(c, s)
    \/ SynAck(c) \/ ConnectRefused(c)
    \/ \E live \in BOOLEAN : LookupDone(c, "ok", live)
    \/ LookupDone(c, "error", FALSE)
    \/ \E ec \in {"ok", "error"} : UdpLookupDone(c, ec)

Next ==
    \/ Run \/ stop
    \/ \E c \in Clients :
        \/ Network(c)
        \/ connect(c) \/ send(c) \/ hangup(c)
        \/ PeerConnects(c) \/ ServerSends(c) \/ ServerCloses(c)
        \/ \E kind \in {"ip", "name", "other"} : UdpArrives(c, "client", kind)
        \/ UdpArrives(c, "host", "ip")

Spec == Init /\ [][Next]_vars

\* The io_context calls what is posted, and the network and the resolvers answer.
\* One condition for all of them is enough: none of them goes on for ever.
FairSpec == Spec /\ WF_vars(Run \/ \E c \in Clients : Network(c))

-----------------------------------------------------------------------------
(* Properties.                                                             *)

\* What a client that is served receives before data.
Prologue(c) ==
    (IF scene.version = 5 THEN <<"method">> ELSE <<>>)
        \o [i \in 1..Grants(c) |-> "granted"]

\* A client receives the replies of the protocol in order (two for BIND), each
\* once, and then what the server sent, in order; or the replies up to a rejection,
\* after which nothing comes.
RepliesThenData ==
    \A c \in begun :
        LET got == sv.got[c] IN
        \/ IsPrefix(got, Prologue(c) \o SubSeq(ServerData, 1, peer[c].sent))
        \/ /\ got # <<>> /\ Last(got) = "rejected"
           /\ IsStrictPrefix(Front(got), Prologue(c))

\* The server receives the data of the client, in order, with nothing of the
\* handshake, and not before the client's request was granted.
ServerGetsData ==
    \A c \in begun :
        /\ IsPrefix(sv.rx[c], SubSeq(ClientData, 1, sent[c] - Len(Script(c))))
        /\ sv.rx[c] # <<>> => Granted(c) \/ c \in hung

\* The client and the server see one undisturbed stream each way, after the
\* handshake: BIND and CONNECT, and whatever fails or closes on the way.
StreamsKept == RepliesThenData /\ ServerGetsData

Count(b) == IF b THEN 1 ELSE 0
PostedOk(c, hs) ==
    Len(SelectSeq(sv.posted, LAMBDA m : m.c = c /\ m.h \in hs /\ m.ec = "ok"))

\* Each buffer is used by one operation at a time: one that fills it, one that
\* waits to be handled, or one that writes it.
OneUserPerBuffer ==
    \A c \in Clients :
        LET k == sv.conn[c] IN
        /\ Count(k.client.reading # "none") + Count(k.server.writing # "none")
                + PostedOk(c, {"on_client_receive", "on_client_forward"}) =< 1
        /\ Count(k.server.reading # "none") + Count(k.client.writing # "none")
                + PostedOk(c, {"on_server_receive", "on_server_forward", "relay",
                               "on_handshake3", "start_accept"}) =< 1

\* A UDP_ASSOCIATE was granted, and its control connection is open.
Associated(c) ==
    Plan(c).cmd = UDP_ASSOCIATE /\ Granted(c) /\ sv.conn[c].client.st = "open"
Listens(c) == sv.conn[c].udp.reading \/ PostedOk(c, {"on_read_udp"}) > 0

\* The last packet that was read is for a host name, and so was an earlier one, with
\* an answer by now.
StoppedByName(c) ==
    LET ps == peer[c].packets
        ByName(i) == ps[i].from = "client" /\ ps[i].kind = "name"
        last == Len(ps) - Len(sv.conn[c].udp.inq) IN
    /\ sv.conn[c].udp.named
    /\ last > 0 /\ ByName(last)
    /\ \E i \in 1..last-1 : ByName(i) /\ ps[i] \notin peer[c].unresolved

\* The packets a relay may discard: of an unknown address type, for a host that could
\* not be resolved, and from a host while the port of the client is not known.
MayDiscard(c, i) ==
    LET ps == peer[c].packets IN
    \/ ps[i].from = "client" /\ ps[i].kind = "other"
    \/ ps[i] \in peer[c].unresolved
    \/ ~Plan(c).port /\ \A j \in 1..i : ps[j].from = "host"

\* Where the packets of a relay are: waiting to be read, read, being looked up or
\* sent out.
Places(c) ==
    LET u == sv.conn[c].udp
        handled == SelectSeq(sv.posted, LAMBDA m :
                        m.c = c /\ m.h \in WeakHandlers /\ m.ec = "ok") IN
    u.inq \o u.lookups \o sv.fwd[c] \o [i \in DOMAIN handled |-> handled[i].packets[1]]


\* A relay that is associated receives packets, without that case.
RelayListens ==
    \A c \in begun : Associated(c) => sv.conn[c].udp.open /\ Listens(c)

\* No handler uses a connection that has been destroyed, and no command is counted
\* outside of m_cmd_counts.
MemorySafe == sv.fault = "none"

\* Clients of set C that have sent their request and have no reply.
Waiting(C) ==
    \E c \in C \cap begun :
        /\ sent[c] >= Len(Script(c)) /\ Connected(c) /\ sv.fault = "none"
        /\ {"granted", "rejected"} \cap ToSet(sv.got[c]) = {}

\* The server reads on for a request that has no end: the number of auth-methods is
\* 128 or more, or the host name has fewer than 3 bytes.
HasEnd(c) ==
    c \in DOMAIN scene.plan /\ Plan(c).methods # "many" /\ Plan(c).target # "short"

\* A client that has sent its request gets a reply, or finds its connection closed:
\* through the lookup, the connect and their failures.  Not so for requests that the
\* server takes to be longer than they are.
Answered == LET C == {c \in Clients : HasEnd(c)} IN Waiting(C) ~> ~Waiting(C)

\* The same for all requests.
AllAnswered == Waiting(Clients) ~> ~Waiting(Clients)

\* Both ends have closed while a write to each waits for acks, which do not come;
\* nothing is read that would tell.
Deserted(c) ==
    /\ c \in hung /\ sv.conn[c].client.writing # "none"
    /\ peer[c].closed /\ sv.conn[c].server.writing # "none"

\* When one end of a connection closes, whatever the connection is waiting for, the
\* connection is taken down: its sockets, its relay and the object itself.
Released ==
    \A c \in Clients :
        (c \in hung \/ peer[c].closed) ~>
            (~sv.conn[c].alive \/ Deserted(c) \/ sv.fault # "none")

\* "set to true when shutting down": a server that was stopped accepts nobody, once
\* what was posted has run.
StopsAccepting == sv.m_close /\ sv.posted = <<>> => ~sv.accepting

=============================================================================

------------------------------ MODULE HttpProxy ------------------------------
(***************************************************************************)
(* sim::http_proxy (src/http_proxy.cpp): one client at a time, whose       *)
(* requests are forwarded to one server.  Two sockets, a resolver and an   *)
(* acceptor run at the same time, and every handler that fails calls       *)
(* close_connection(), which aborts the others: their completions come     *)
(* when the proxy has already gone on to the next client.                  *)
(*                                                                         *)
(* px is the proxy object with its sockets and what is posted; handlers are *)
(* operators from one value of it to the next.  Bytes are units: requests,  *)
(* and parts of requests that are not their end.  The response to a request *)
(* is that request.                                                         *)
(***************************************************************************)
EXTENDS Integers, Sequences, SequencesExt, FiniteSetsExt

CONSTANTS
    Clients,    \* the sockets that connect to the proxy
    NoClient,   \* m_client_connection is not connected
    Kinds,      \* the kinds of units the clients send
    MaySets,    \* what the environment may do: sets of the elements of Mays
    InSize,     \* sizeof(m_client_in_buffer), in units
    OutSize,    \* sizeof(m_server_out_buffer), in units
    MaxSegment, \* bound: units of one packet of a client
    MaxUnits    \* bound: units the clients send

\* "ip", "dead": a request for a literal address with, or without, a server that
\* listens there; "name": for a host name; "bad": no request, or not for http://.
AllKinds == {"part", "ip", "dead", "name", "bad"}

\* "overlap": a client connects while the last one is being served, or something
\* of it is left; "coincide": packets arrive at the same time as others, whose
\* handlers are still posted; "hurry": a client sends a request behind one whose
\* host is not looked up yet, or with it; "fill": it fills m_client_in_buffer without the end
\* of a request.
Mays == {"overlap", "coincide", "hurry", "fill"}

ASSUME ConstantsAssumption ==
    /\ NoClient \notin Clients
    /\ Kinds \subseteq AllKinds
    /\ MaySets \subseteq SUBSET Mays
    /\ InSize \in Nat \ {0} /\ OutSize \in Nat \ {0}
    /\ MaxSegment \in Nat \ {0} /\ MaxUnits \in Nat

VARIABLES
    px,      \* the proxy, see TypeOK
    may,     \* of MaySets
    begun,   \* the clients that have connected
    hung,    \* the clients that have closed their socket
    sent,    \* what each client sent
    got,     \* what each client received
    failed,  \* history: a lookup failed or a connect was refused
    strayed, \* history: a lookup was answered after its client had gone
    spoiled  \* history: an exception was thrown behind a write to the server

vars == <<px, may, begun, hung, sent, got, failed, strayed, spoiled>>

UnitType == [from : Clients, n : 1..MaxUnits, kind : AllKinds]
EOF == [eof |-> TRUE]
Unavailable == [code |-> 503]

Handlers == {"on_accept", "on_read_request", "on_domain_lookup", "on_connected",
             "on_server_write", "on_server_receive", "on_server_forward",
             "close_connection"}

Completions ==
    [h : Handlers, ec : {"ok", "error", "operation_aborted"}, data : Seq(UnitType),
     live : BOOLEAN]

\* client, server: the two sockets.  A socket is "closed", "open", or open with
\* its connection "ended"; "connecting" with m_connect_handler set, or "refused"
\* with m_connect_timer armed.
\* client.writing is the handler of a pending write, server.writing the length of
\* one, -1 for none; server.received is what was sent on this connection.
TypeOK ==
    /\ px.backlog \in Seq(Clients)
    /\ px.accepting \in BOOLEAN
    /\ px.client \in [st : {"closed", "open", "ended"},
                      peer : Clients \cup {NoClient},
                      inq : Seq(UnitType \cup {EOF}), reading : BOOLEAN,
                      writing : {"none", "on_server_forward", "close_connection"}]
    /\ px.server \in [st : {"closed", "connecting", "refused", "open", "ended"},
                      inq : Seq(UnitType \cup {EOF}), reading : BOOLEAN,
                      writing : -1..OutSize,
                      received : Seq(UnitType), answered : 0..MaxUnits]
    /\ px.timer \in BOOLEAN
    /\ px.in \in Seq(UnitType) /\ px.out \in Seq(UnitType)
    /\ px.m_writing_to_server \in BOOLEAN
    /\ px.lookups \in Seq(UnitType)
    /\ px.m_close \in BOOLEAN
    /\ px.posted \in Seq(Completions)
    /\ px.ok \in BOOLEAN
    /\ may \in MaySets
    /\ begun \subseteq Clients /\ hung \subseteq Clients
    /\ sent \in [Clients -> Seq(UnitType)]
    /\ got \in [Clients -> Seq(UnitType \cup {Unavailable})]
    /\ failed \in BOOLEAN /\ strayed \in BOOLEAN /\ spoiled \in BOOLEAN

ClosedClient == [st |-> "closed", peer |-> NoClient, inq |-> <<>>,
                 reading |-> FALSE, writing |-> "none"]
ClosedServer == [st |-> "closed", inq |-> <<>>, reading |-> FALSE, writing |-> -1,
                 received |-> <<>>, answered |-> 0]

\* The constructor listens and accepts.
Init ==
    /\ px = [backlog |-> <<>>, accepting |-> TRUE,
             client |-> ClosedClient, server |-> ClosedServer, timer |-> FALSE,
             in |-> <<>>, out |-> <<>>, m_writing_to_server |-> FALSE,
             lookups |-> <<>>, m_close |-> FALSE, posted |-> <<>>, ok |-> TRUE]
    /\ may \in MaySets
    /\ begun = {} /\ hung = {}
    /\ sent = [c \in Clients |-> <<>>]
    /\ got = [c \in Clients |-> <<>>]
    /\ failed = FALSE /\ strayed = FALSE /\ spoiled = FALSE

-----------------------------------------------------------------------------
(* The sockets underneath.                                                 *)

PostData(w, h, ec, data, live) ==
    [w EXCEPT !.posted = Append(@, [h |-> h, ec |-> ec, data |-> data, live |-> live])]
Post(w, h, ec) == PostData(w, h, ec, <<>>, FALSE)

\* What is posted when handler h is aborted, if it is set.
Aborted(set, h) ==
    IF set THEN <<[h |-> h, ec |-> "operation_aborted", data |-> <<>>, live |-> FALSE]>>
    ELSE <<>>

\* socket::close(): what is pending is aborted, what is unread stays.
CloseClient(w) ==
    LET k == w.client IN
    [w EXCEPT !.posted = @ \o Aborted(k.reading, "on_read_request")
                           \o Aborted(k.writing # "none", k.writing),
              !.client = [ClosedClient EXCEPT !.inq = k.inq]]
CloseServer(w) ==
    LET k == w.server IN
    [w EXCEPT !.posted = @ \o Aborted(k.reading, "on_server_receive")
                           \o Aborted(k.writing # -1, "on_server_write")
                           \o Aborted(k.st = "connecting", "on_connected"),
              !.server = [ClosedServer EXCEPT !.inq = k.inq]]

\* check_accept_queue() with an accept pending.
CheckQueue(w) ==
    IF w.backlog = <<>> THEN w
    ELSE Post([w EXCEPT !.accepting = FALSE, !.backlog = Tail(@),
                        !.client.st = "open", !.client.peer = Head(w.backlog)],
              "on_accept", "ok")

async_accept(w) ==
    CheckQueue([w EXCEPT !.posted = @ \o Aborted(w.accepting, "on_accept"),
                         !.accepting = TRUE])

\* How many units a read into room of n takes of queue q: no more than there is
\* before the end of the stream.
Readable(q, n) ==
    CHOOSE k \in 0..Len(q) :
        /\ k =< n
        /\ \A i \in 1..k : q[i] # EOF
        /\ k = n \/ k = Len(q) \/ q[k+1] = EOF

\* async_read_some_impl() of m_client_connection into room units of the buffer; a
\* read of no bytes completes at once.
ReadClient(w, room) ==
    LET q == w.client.inq
        k == Readable(q, room) IN
    IF room = 0 THEN Post(w, "on_read_request", "ok")
    ELSE IF w.client.st # "open" THEN Post(w, "on_read_request", "error")
    ELSE IF q = <<>> THEN [w EXCEPT !.client.reading = TRUE]
    ELSE IF k = 0
    THEN Post([w EXCEPT !.client.inq = Tail(q), !.client.st = "ended"],
              "on_read_request", "error")
    ELSE PostData([w EXCEPT !.client.inq = SubSeq(q, k+1, Len(q))],
                  "on_read_request", "ok", SubSeq(q, 1, k), FALSE)

\* The same of m_server_connection, whose buffer is free.
ReadServer(w) ==
    LET q == w.server.inq
        k == Readable(q, Len(q)) IN
    IF w.server.st \notin {"open", "connecting"} THEN Post(w, "on_server_receive", "error")
    ELSE IF q = <<>> \/ w.server.st = "connecting"
    THEN [w EXCEPT !.server.reading = TRUE]
    ELSE IF k = 0
    THEN Post([w EXCEPT !.server.inq = Tail(q), !.server.st = "ended"],
              "on_server_receive", "error")
    ELSE PostData([w EXCEPT !.server.inq = SubSeq(q, k+1, Len(q))],
                  "on_server_receive", "ok", SubSeq(q, 1, k), FALSE)

\* async_read_some(): a read that is pending is aborted first.
ReadClientAnew(w, room) ==
    ReadClient([w EXCEPT !.posted = @ \o Aborted(w.client.reading, "on_read_request"),
                         !.client.reading = FALSE], room)
ReadServerAnew(w) ==
    ReadServer([w EXCEPT !.posted = @ \o Aborted(w.server.reading, "on_server_receive"),
                         !.server.reading = FALSE])

\* What is left of m_client_in_buffer.
InRoom(w) == Max({0, InSize - Len(w.in)})

\* async_write_some_impl() of the first n units of the buffer: they wait while the
\* socket connects, and while the window is full.  room: the units that fit into
\* the window, at least one when nothing is in flight.
WriteServer(w, n, room) ==
    IF \/ w.server.st = "connecting"
       \/ w.server.st = "open" /\ room = 0 /\ w.server.received # <<>>
    THEN [w EXCEPT !.server.writing = n]
    ELSE IF w.server.st # "open" THEN Post(w, "on_server_write", "error")
    ELSE LET data == SubSeq(w.out, 1, Min({n, Max({room, 1})})) IN
         PostData([w EXCEPT !.server.received = @ \o data],
                  "on_server_write", "ok", data, FALSE)

\* async_write_some(): a write that is pending is aborted first.
WriteServerAnew(w, n, room) ==
    WriteServer([w EXCEPT !.posted = @ \o Aborted(w.server.writing # -1, "on_server_write"),
                          !.server.writing = -1], n, room)

\* async_write() to the client, with handler h: it waits for acks if the window
\* is full.
WriteClient(w, h, full) ==
    LET v == [w EXCEPT !.posted = @ \o Aborted(w.client.writing # "none", w.client.writing),
                       !.client.writing = "none"] IN
    IF v.client.st # "open" THEN Post(v, h, "error")
    ELSE IF full THEN [v EXCEPT !.client.writing = h]
    ELSE Post(v, h, "ok")

\* What client c has received when data is written to it.
Receives(w, data) ==
    IF w.client.st = "open" /\ w.client.peer \notin hung
    THEN [got EXCEPT ![w.client.peer] = @ \o data] ELSE got

-----------------------------------------------------------------------------
(* The member functions.                                                   *)

\* Mutant: m_num_server_out_bytes is not reset.
close_connection_keeps_out(w) ==
    LET v == CloseServer(CloseClient([w EXCEPT !.in = <<>>])) IN
    IF w.m_close THEN v ELSE async_accept(v)

close_connection(w) ==
    LET v == CloseServer(CloseClient([w EXCEPT !.in = <<>>, !.out = <<>>])) IN
    IF w.m_close THEN v ELSE async_accept(v)


write_server_send_buffer(w, room) ==
    IF w.m_writing_to_server THEN w
    ELSE WriteServerAnew([w EXCEPT !.m_writing_to_server = TRUE], Len(w.out), room)

\* open() closes the socket.  A target that does not listen is reported by
\* m_connect_timer; arming that again aborts an earlier wait.
open_forward_connection(w, live) ==
    LET v == CloseServer(w) IN
    IF live THEN [v EXCEPT !.server.st = "connecting"]
    ELSE [v EXCEPT !.posted = @ \o Aborted(w.timer, "on_connected"),
                   !.server.st = "refused", !.timer = TRUE]

Throws(w, r) == r.kind = "bad" \/ Len(w.out) + 1 > OutSize

\* forward_request(), unless an earlier request threw an exception.  x.w: the
\* proxy, x.thrown: whether one did, x.room: the window of the server.
forward_request(x, r) ==
    LET w == [x.w EXCEPT !.out = Append(@, r)] IN
    IF x.thrown \/ Throws(x.w, r) THEN [x EXCEPT !.thrown = TRUE]
    ELSE [x EXCEPT !.w =
            IF w.server.st # "closed" THEN write_server_send_buffer(w, x.room)
            ELSE IF r.kind = "name" THEN [w EXCEPT !.lookups = Append(@, r)]
            ELSE open_forward_connection(w, r.kind = "ip")]

\* error(): a 503 response, after which the connection is closed.
error(w) == WriteClient(w, "close_connection", FALSE)

-----------------------------------------------------------------------------
(* The handlers.                                                           *)

\* The first completion posted, and the proxy when it is called.
Called == Head(px.posted)
Popped == [px EXCEPT !.posted = Tail(@)]
Running(h) == px.ok /\ px.posted # <<>> /\ Called.h = h

Env == <<may, begun, hung, sent>>

\* The read is into the start of the buffer, all of which it may fill.  (Data that
\* is in the buffer, which takes packets that coincide, is not overwritten here.)
on_accept ==
    /\ Running("on_accept")
    /\ px' = IF Called.ec = "ok" THEN ReadClientAnew(Popped, InSize) ELSE Popped
    /\ UNCHANGED <<Env, got, failed, strayed, spoiled>>

IsEnd(u) == u.kind # "part"

\* The loop over the full requests in buffer b, and what is left of b behind them.
ForwardAll(b, room) ==
    FoldLeft(forward_request, [w |-> Popped, thrown |-> FALSE, room |-> room],
             SelectSeq(b, IsEnd))
Unfinished(b) == SubSeq(b, 1 + Max({0} \cup {i \in DOMAIN b : IsEnd(b[i])}), Len(b))

\* Mutant: the end of the stream of the client is not handled.
on_read_request_ignores_end ==
    /\ Running("on_read_request")
    /\ \E room \in 0..OutSize :
        LET b == px.in \o Called.data
            x == ForwardAll(b, room)
            v == [x.w EXCEPT !.in = Unfinished(b)] IN
        px' = IF Called.ec # "ok" THEN Popped
              ELSE IF x.thrown THEN close_connection(x.w)
              ELSE ReadClientAnew(v, InRoom(v))
    /\ UNCHANGED <<Env, got, failed, strayed, spoiled>>

\* All full requests in the buffer are forwarded, then more is read.  One that
\* throws ends the loop, whatever those before it have started.
on_read_request ==
    /\ Running("on_read_request")
    /\ \E room \in 0..OutSize :
        LET b == px.in \o Called.data
            x == ForwardAll(b, room)
            v == [x.w EXCEPT !.in = Unfinished(b)] IN
        IF Called.ec # "ok"
        THEN px' = close_connection(Popped) /\ UNCHANGED spoiled
        ELSE /\ px' = IF x.thrown THEN close_connection(x.w)
                      ELSE ReadClientAnew(v, InRoom(v))
             /\ spoiled' = \/ spoiled
                           \/ x.thrown /\ x.w.server.received # px.server.received
    /\ UNCHANGED <<Env, got, failed, strayed>>

\* The resolver reports an error, or an address with or without a server.
on_domain_lookup ==
    /\ Running("on_domain_lookup")
    /\ px' = IF Called.ec # "ok" THEN error(Popped)
             ELSE open_forward_connection(Popped, Called.live)
    /\ got' = IF Called.ec # "ok" THEN Receives(Popped, <<Unavailable>>) ELSE got
    /\ failed' = (failed \/ Called.ec # "ok")
    /\ strayed' = (strayed \/ px.client.peer # Called.data[1].from)
    /\ UNCHANGED <<Env, spoiled>>

on_connected ==
    /\ Running("on_connected")
    /\ IF Called.ec # "ok" THEN px' = error(CloseServer(Popped))
       ELSE \E room \in 0..OutSize :
                px' = ReadServerAnew(write_server_send_buffer(Popped, room))
    /\ got' = IF Called.ec # "ok" THEN Receives(Popped, <<Unavailable>>) ELSE got
    /\ failed' = (failed \/ Called.ec = "error")
    /\ UNCHANGED <<Env, strayed, spoiled>>

\* Mutant: the rest of the buffer is not moved to its front.
unmoved(b, n) == SubSeq(b, 1, Len(b) - n)

\* What is in the buffer b once n units are written: the rest, at its front.
memmove(b, n) == SubSeq(b, n+1, Len(b))

\* Mutant: the rest of the buffer is not written.
WriteNothing(w, room) == w

WriteRest(w, room) == IF w.out # <<>> THEN write_server_send_buffer(w, room) ELSE w

\* The units written are taken off m_num_server_out_bytes: with fewer than that in
\* the buffer the length of the memmove() is negative.
on_server_write ==
    /\ Running("on_server_write")
    /\ LET w == [Popped EXCEPT !.m_writing_to_server = FALSE]
           n == Len(Called.data) IN
       \/ Called.ec # "ok" /\ px' = close_connection(w)
       \/ Called.ec = "ok" /\ n > Len(w.out) /\ px' = [w EXCEPT !.ok = FALSE]
       \/ /\ Called.ec = "ok" /\ n =< Len(w.out)
          /\ \E room \in 0..OutSize :
                px' = WriteRest([w EXCEPT !.out = memmove(@, n)], room)
    /\ UNCHANGED <<Env, got, failed, strayed, spoiled>>

on_server_receive ==
    /\ Running("on_server_receive")
    /\ IF Called.ec # "ok"
       THEN px' = close_connection(Popped) /\ UNCHANGED got
       ELSE /\ \E full \in BOOLEAN : px' = WriteClient(Popped, "on_server_forward", full)
            /\ got' = Receives(Popped, Called.data)
    /\ UNCHANGED <<Env, failed, strayed, spoiled>>

on_server_forward ==
    /\ Running("on_server_forward")
    /\ px' = IF Called.ec # "ok" THEN close_connection(Popped) ELSE ReadServerAnew(Popped)
    /\ UNCHANGED <<Env, got, failed, strayed, spoiled>>

\* error() binds close_connection() as the handler of its write.
ErrorSent ==
    /\ Running("close_connection")
    /\ px' = close_connection(Popped)
    /\ UNCHANGED <<Env, got, failed, strayed, spoiled>>

\* stop(): acceptor::close() without an error_code aborts the accept.
stop ==
    /\ px.ok /\ ~px.m_close
    /\ px' = [px EXCEPT !.posted = @ \o Aborted(px.accepting, "on_accept"),
                        !.m_close = TRUE, !.accepting = FALSE]
    /\ UNCHANGED <<Env, got, failed, strayed, spoiled>>

-----------------------------------------------------------------------------
(* The clients, the servers and the resolver.                              *)

Quiet == px.ok /\ (px.posted = <<>> \/ "coincide" \in may)

\* Nothing is left of the client before.
Clean ==
    /\ px.accepting /\ px.posted = <<>>
    /\ px.lookups = <<>> /\ ~px.timer
    /\ px.client.inq = <<>> /\ px.server.inq = <<>>

connect(c) ==
    /\ Quiet /\ (Clean \/ "overlap" \in may)
    /\ c \notin begun
    /\ begun' = begun \cup {c}
    /\ LET w == [px EXCEPT !.backlog = Append(@, c)] IN
        px' = IF px.accepting THEN CheckQueue(w) ELSE w
    /\ UNCHANGED <<may, hung, sent, got, failed, strayed, spoiled>>

Connected(c) == px.client.st = "open" /\ px.client.peer = c /\ c \notin hung

\* A packet with units us arrives, and the pending read is completed.
ClientPacket(us) ==
    LET w == [px EXCEPT !.client.inq = @ \o us] IN
    IF px.client.reading THEN ReadClient([w EXCEPT !.client.reading = FALSE], InRoom(w))
    ELSE w
ServerPacket(w) ==
    IF w.server.reading THEN ReadServer([w EXCEPT !.server.reading = FALSE]) ELSE w

\* A request for a host name, to be looked up, with another request behind it.
Hurried(us) ==
    /\ px.server.st = "closed"
    /\ LET rs == SelectSeq(us, IsEnd) IN Len(rs) > 1 /\ rs[1].kind = "name"

\* The buffer is filled by parts of one request.
Filled(us) ==
    LET b == px.in \o px.client.inq \o us IN
    \E i \in 0..Len(b) - InSize : \A j \in i+1..i+InSize : ~IsEnd(b[j])

send(c, kinds) ==
    LET us == [i \in DOMAIN kinds |->
                [from |-> c, n |-> Len(sent[c]) + i, kind |-> kinds[i]]] IN
    /\ Quiet /\ Connected(c)
    /\ MapThenSumSet(LAMBDA d : Len(sent[d]), Clients) + Len(us) =< MaxUnits
    /\ (px.lookups = <<>> /\ ~Hurried(us)) \/ "hurry" \in may
    /\ ~Filled(us) \/ "fill" \in may
    /\ sent' = [sent EXCEPT ![c] = @ \o us]
    /\ px' = ClientPacket(us)
    /\ UNCHANGED <<may, begun, hung, got, failed, strayed, spoiled>>

hangup(c) ==
    /\ Quiet /\ Connected(c)
    /\ hung' = hung \cup {c}
    /\ px' = ClientPacket(<<EOF>>)
    /\ UNCHANGED <<may, begun, sent, got, failed, strayed, spoiled>>

\* The acks of client c make room for a pending write.
ClientAcks ==
    /\ Quiet
    /\ px.client.writing # "none"
    /\ px.client.peer \notin hung
    /\ px' = Post([px EXCEPT !.client.writing = "none"], px.client.writing, "ok")
    /\ UNCHANGED <<Env, got, failed, strayed, spoiled>>

LookupDone(ec, live) ==
    /\ Quiet
    /\ px.lookups # <<>>
    /\ px' = PostData([px EXCEPT !.lookups = Tail(@)],
                      "on_domain_lookup", ec, <<Head(px.lookups)>>, live)
    /\ UNCHANGED <<Env, got, failed, strayed, spoiled>>

\* The pending write of the server connection is tried again.
WokenWriter(w, room) == WriteServer([w EXCEPT !.server.writing = -1], w.server.writing, room)

\* The SYN+ACK of the server: the connect handler is posted, then a pending write
\* is woken up.
SynAck ==
    /\ Quiet
    /\ px.server.st = "connecting"
    /\ LET w == Post([px EXCEPT !.server.st = "open"], "on_connected", "ok") IN
        IF w.server.writing = -1 THEN px' = w
        ELSE \E room \in 1..OutSize : px' = WokenWriter(w, room)
    /\ UNCHANGED <<Env, got, failed, strayed, spoiled>>

\* m_connect_timer fires.
ConnectRefused ==
    /\ Quiet
    /\ px.timer
    /\ px' = Post([px EXCEPT !.timer = FALSE], "on_connected", "error")
    /\ UNCHANGED <<Env, got, failed, strayed, spoiled>>

\* The server has not closed its end of the connection.
ServerOpen == px.server.st = "open" /\ EOF \notin ToSet(px.server.inq)

\* The acks of the server make room for a pending write.
ServerAcks ==
    /\ Quiet /\ ServerOpen
    /\ px.server.writing # -1
    /\ \E room \in 1..OutSize : px' = WokenWriter(px, room)
    /\ UNCHANGED <<Env, got, failed, strayed, spoiled>>

\* The server answers the next request it received, or closes the connection.
ServerAnswers ==
    /\ Quiet /\ ServerOpen
    /\ px.server.answered < Len(px.server.received)
    /\ px' = ServerPacket([px EXCEPT
                !.server.answered = @ + 1,
                !.server.inq = Append(@, px.server.received[px.server.answered + 1])])
    /\ UNCHANGED <<Env, got, failed, strayed, spoiled>>

ServerCloses ==
    /\ Quiet /\ ServerOpen
    /\ px' = ServerPacket([px EXCEPT !.server.inq = Append(@, EOF)])
    /\ UNCHANGED <<Env, got, failed, strayed, spoiled>>

-----------------------------------------------------------------------------

Run ==
    \/ on_accept \/ on_read_request \/ on_domain_lookup \/ on_connected
    \/ on_server_write \/ on_server_receive \/ on_server_forward \/ ErrorSent

Network ==
    \/ ClientAcks \/ SynAck \/ ConnectRefused \/ ServerAcks \/ ServerAnswers
    \/ \E live \in BOOLEAN : LookupDone("ok", live)
    \/ LookupDone("error", FALSE)

Segments == UNION {[1..n -> Kinds] : n \in 1..MaxSegment}

Next ==
    \/ Run \/ Network \/ stop \/ ServerCloses
    \/ \E c \in Clients : \/ connect(c) \/ hangup(c)
                          \/ \E kinds \in Segments : send(c, kinds)

Spec == Init /\ [][Next]_vars

\* The io_context calls what is posted, and the network, the servers and the
\* resolver answer.
FairSpec == Spec /\ WF_vars(Run) /\ WF_vars(Network)

-----------------------------------------------------------------------------
(* Properties.                                                             *)

Fresh ==
    /\ px.client = ClosedClient /\ px.server = ClosedServer
    /\ px.in = <<>> /\ px.out = <<>>
    /\ ~px.m_writing_to_server

\* However a client leaves, and whatever was outstanding then: once its last
\* completion has run the proxy is as its constructor left it, so that the next
\* client does not inherit bytes, connections or a blocked writer.  Not so after
\* the answer to a lookup whose client had gone, which close_connection() does not
\* cancel.
FreshWhenIdle == Clean /\ ~strayed => Fresh

\* The same for such answers.
FreshAfterStray == Clean => Fresh


\* The same without the exception.
AlwaysBuffered == px.ok

Requests(c) == SelectSeq(sent[c], IsEnd)

\* The server is sent the requests of the client that is connected, in order and
\* each once, and a client gets the responses to them, in order, or a 503 after
\* which nothing comes.
RelaysInOrder ==
    may = {} /\ ~strayed =>
        /\ px.server.received # <<>> =>
                IsPrefix(px.server.received, Requests(px.client.peer))
        /\ \A c \in Clients :
                \/ IsPrefix(got[c], Requests(c))
                \/ /\ Last(got[c]) = Unavailable
                   /\ IsPrefix(Front(got[c]), Requests(c))

\* A client that is connected waits for the answer to a request.
Unanswered ==
    \E c \in Clients : px.ok /\ Connected(c) /\ Len(Requests(c)) > Len(got[c])

\* All requests are answered, by the server or with 503, or the client finds its
\* connection closed: pipelined or not, sent during the connect or after.  (A client
\* sends finitely many, and none behind one whose host is still being looked up.)
RequestsAnswered == (may = {} /\ ~strayed /\ Unanswered) ~> ~Unanswered

\* The proxy lets go of a client that has closed its socket, and accepts again.
LetsGo == (px.client.peer \in hung) ~> (px.client.peer \notin hung \/ ~px.ok)

\* "Resource Temporarily Unavailable": a 503 is due to a lookup that failed or a
\* connection that was refused.
UnavailableIsTrue == (\E c \in Clients : Unavailable \in ToSet(got[c])) => failed

\* "now we can accept another connection": a client that has sent nothing is not
\* closed for what another one left behind.
NotTurnedAway ==
    \A c \in begun \ hung :
        sent[c] = <<>> => c \in ToSet(px.backlog) \/ px.client.peer = c

=============================================================================

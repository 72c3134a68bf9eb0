----------------------------- MODULE HttpServer -----------------------------
(***************************************************************************)
(* sim::http_server (src/http_server.cpp): one connection at a time, served *)
(* by a chain of completion handlers: accept, read, write, read again.     *)
(*                                                                         *)
(* The clients are the environment.  Bytes are units: a "part" of a request *)
(* that is not its end, or the end of a request, named for what the request *)
(* makes the server do.  Of the sockets underneath the model has what       *)
(* Handshake and TcpStream show of them: connections wait in the queue of   *)
(* the acceptor, a read takes what is there or waits, a response that does  *)
(* not fit the window waits for acks, and close() leaves unread packets     *)
(* where they are.                                                          *)
(***************************************************************************)
EXTENDS Integers, Sequences, SequencesExt, FiniteSetsExt

CONSTANTS
    Clients,      \* the sockets that connect to the server
    NoClient,     \* m_connection is not connected
    FlagSets,     \* the values of m_flags: sets of "keep_alive", "http_1_0"
    Kinds,        \* the kinds of requests the clients send, of EndUnits
    MinSize,      \* what read() resizes an empty buffer to (500 bytes)
    MayOverrun,   \* may a client send more, or hang up, after a request that
                  \* makes the server close the connection?
    MayGiveUp,    \* may a client give up while it waits for its SYN+ACK?
    MaxUnits      \* bound: units the clients send

\* "get": answered by a handler or by 404; "close": the same, with the header
\* "Connection: close"; "big": answered by more than the window holds;
\* "stall": a path of m_stall_handlers; "bad": parse_request() or the handler
\* throws.
EndUnits == {"get", "close", "big", "stall", "bad"}
Units == {"part"} \cup EndUnits

ASSUME ConstantsAssumption ==
    /\ NoClient \notin Clients
    /\ \A f \in FlagSets : f \subseteq {"keep_alive", "http_1_0"}
    /\ Kinds \subseteq EndUnits
    /\ MinSize \in Nat \ {0}
    /\ MayOverrun \in BOOLEAN
    /\ MayGiveUp \in BOOLEAN
    /\ MaxUnits \in Nat

VARIABLES
    flags,      \* m_flags
    backlog,    \* m_listen_socket: the connections in its queue
    accepting,  \* m_listen_socket: m_accept_handler is set
    conn,       \* m_connection: the client it is connected to
    inq,        \* m_connection: m_incoming_queue
    reading,    \* m_connection: m_recv_handler is set
    writing,    \* m_connection: m_send_handler is set, within async_write()
    recv,       \* the first m_bytes_used bytes of m_recv_buffer
    size,       \* m_recv_buffer.size()
    response,   \* m_send_buffer: the request it answers, what it tells the client
    m_close,
    posted,     \* the completions posted to the io_context
    state,      \* of each client: see ClientStates
    sent,       \* what each client sent
    got         \* the complete responses each client received

connVars == <<conn, inq, reading, writing>>
bufVars == <<recv, size, response>>
clientVars == <<state, sent, got>>
vars == <<flags, backlog, accepting, connVars, bufVars, m_close, posted, clientVars>>

\* "waiting": for its SYN+ACK; "open": connected; "closed": by the server;
\* "hungup": by itself.
ClientStates == {"idle", "waiting", "open", "closed", "hungup"}

\* A response: the units of the request it answers, and whether it says that the
\* server closes the connection (by "Connection: close" or by "HTTP/1.0").
Responses == [request : Seq(Units), close : BOOLEAN]
NoResponse == [request |-> <<>>, close |-> FALSE]

Completions ==
    [h : {"on_accept", "on_read", "on_write"},
     ec : {"ok", "eof", "operation_aborted"}, data : Seq(Units)]

Completion(h, ec, data) == [h |-> h, ec |-> ec, data |-> data]

TypeOK ==
    /\ flags \in FlagSets
    /\ backlog \in Seq(Clients)
    /\ accepting \in BOOLEAN
    /\ conn \in Clients \cup {NoClient}
    /\ inq \in Seq(Units \cup {"eof"})
    /\ reading \in BOOLEAN /\ writing \in BOOLEAN
    /\ recv \in Seq(Units)
    /\ size \in Nat
    /\ response \in Responses
    /\ m_close \in BOOLEAN
    /\ posted \in Seq(Completions)
    /\ state \in [Clients -> ClientStates]
    /\ sent \in [Clients -> Seq(Units)]
    /\ got \in [Clients -> Seq(Responses)]

\* The constructor listens and accepts.
Init ==
    /\ flags \in FlagSets
    /\ backlog = <<>> /\ accepting = TRUE
    /\ conn = NoClient /\ inq = <<>>
    /\ reading = FALSE /\ writing = FALSE
    /\ recv = <<>> /\ size = 0
    /\ response = NoResponse
    /\ m_close = FALSE
    /\ posted = <<>>
    /\ state = [c \in Clients |-> "idle"]
    /\ sent = [c \in Clients |-> <<>>]
    /\ got = [c \in Clients |-> <<>>]

-----------------------------------------------------------------------------
(* The sockets underneath.                                                 *)

\* The handler that runs is the first one posted.
Running(h) == posted # <<>> /\ Head(posted).h = h

\* check_accept_queue() with an accept pending and clients q in the queue: the
\* first one is connected, and on_accept() is posted after p.
Accept(q, p, st) ==
    IF q = <<>>
    THEN /\ accepting' = TRUE
         /\ backlog' = q
         /\ conn' = NoClient
         /\ posted' = p
         /\ state' = st
    ELSE /\ accepting' = FALSE
         /\ backlog' = Tail(q)
         /\ conn' = Head(q)
         /\ posted' = Append(p, Completion("on_accept", "ok", <<>>))
         /\ state' = IF st[Head(q)] = "waiting"
                     THEN [st EXCEPT ![Head(q)] = "open"] ELSE st

\* The completions posted when handler h is aborted, if it is set.
AbortIf(set, h) ==
    IF set THEN <<Completion(h, "operation_aborted", <<>>)>> ELSE <<>>

\* How many units a read into room of n takes of queue q: no more than there is
\* before the end of the stream.
Readable(q, n) ==
    CHOOSE k \in 0..Len(q) :
        /\ k =< n
        /\ \A i \in 1..k : q[i] # "eof"
        /\ k = n \/ k = Len(q) \/ q[k+1] = "eof"

\* async_read_some() into room of n, with q in the incoming queue.
ReadSome(q, n, p) ==
    IF q = <<>>
    THEN /\ reading' = TRUE
         /\ inq' = q
         /\ posted' = p
    ELSE LET k == Readable(q, n) IN
         /\ reading' = FALSE
         /\ inq' = IF k = 0 THEN Tail(q) ELSE SubSeq(q, k+1, Len(q))
         /\ posted' = Append(p, IF k = 0 THEN Completion("on_read", "eof", <<>>)
                                ELSE Completion("on_read", "ok", SubSeq(q, 1, k)))

-----------------------------------------------------------------------------
(* The handlers.                                                           *)

\* m_connection.close(): what is pending is aborted, the client is sent the end of
\* the stream, and what is unread stays in m_incoming_queue.
PostedAfterClose ==
    Tail(posted) \o AbortIf(reading, "on_read") \o AbortIf(writing, "on_write")
StateAfterClose ==
    IF conn # NoClient /\ state[conn] = "open"
    THEN [state EXCEPT ![conn] = "closed"] ELSE state

\* close_connection() after it cleared the buffer.
CloseAndAccept ==
    /\ reading' = FALSE /\ writing' = FALSE
    /\ IF m_close
       THEN /\ conn' = NoClient
            /\ posted' = PostedAfterClose
            /\ state' = StateAfterClose
            /\ UNCHANGED <<backlog, accepting>>
       ELSE Accept(backlog, PostedAfterClose \o AbortIf(accepting, "on_accept"),
                   StateAfterClose)
    /\ UNCHANGED <<flags, inq, response, m_close, sent, got>>

\* Mutant: the buffer is not cleared.
close_connection_keeps_buffer == CloseAndAccept /\ UNCHANGED <<recv, size>>

\* Mutant: no accept follows.
close_connection_only ==
    /\ recv' = <<>> /\ size' = 0
    /\ reading' = FALSE /\ writing' = FALSE
    /\ conn' = NoClient
    /\ posted' = PostedAfterClose
    /\ state' = StateAfterClose
    /\ UNCHANGED <<flags, backlog, accepting, inq, response, m_close, sent, got>>

close_connection ==
    /\ recv' = <<>> /\ size' = 0
    /\ CloseAndAccept

\* The size of the buffer after the resize() in read().
Grown(b, n) ==
    IF Len(b) >= n \div 2 THEN Max({MinSize, Len(b) * 2}) ELSE n

\* read(): with b in the buffer of size n.
read(b, n) ==
    /\ size' = Grown(b, n)
    /\ recv' = b
    /\ ReadSome(inq, Grown(b, n) - Len(b), Tail(posted))

on_accept ==
    /\ Running("on_accept")
    /\ IF Head(posted).ec # "ok"
       THEN close_connection
       ELSE /\ read(recv, size)
            /\ UNCHANGED <<flags, backlog, accepting, conn, writing, response,
                           m_close, clientVars>>

\* find_request_len(): the length of the first request in b, 0 for none.
RequestLen(b) ==
    IF \A i \in DOMAIN b : b[i] = "part" THEN 0
    ELSE CHOOSE i \in DOMAIN b :
            b[i] # "part" /\ \A j \in 1..(i-1) : b[j] = "part"

\* Mutant: a close that the client did not ask for is not announced.
TellsAsked(kind, close) == close /\ kind = "close"

\* A response tells the client that the connection is to be closed.
Tells(kind, close) == close

\* Whether the connection is closed after the response to a request.
Closes(kind) ==
    \/ "http_1_0" \in flags
    \/ kind = "close"
    \/ "keep_alive" \notin flags

\* Mutant: the next request is read while the response is written.
WriteAndRead(r, big) ==
    /\ response' = r
    /\ writing' = big
    /\ posted' = Tail(posted) \o
                 <<Completion("on_write", "ok", <<>>), Completion("on_read", "ok", <<>>)>>
    /\ got' = IF state[conn] # "open" THEN got
              ELSE [got EXCEPT ![conn] = Append(@, r)]

\* async_write() of response r: one that fits the window is sent at once, a big
\* one waits for acks.
Write(r, big) ==
    /\ response' = r
    /\ writing' = big
    /\ posted' = IF big THEN Tail(posted)
                 ELSE Append(Tail(posted), Completion("on_write", "ok", <<>>))
    /\ got' = IF big \/ state[conn] # "open" THEN got
              ELSE [got EXCEPT ![conn] = Append(@, r)]

\* on_read() with a full request of length n in buffer b of size m.
Serve(b, m, n) ==
    IF b[n] = "bad"
    THEN close_connection
    ELSE /\ recv' = SubSeq(b, n+1, Len(b))
         /\ size' = m - n
         /\ IF b[n] = "stall"
            THEN /\ posted' = Tail(posted)
                 /\ UNCHANGED <<writing, response, got>>
            ELSE Write([request |-> SubSeq(b, 1, n),
                        close |-> Tells(b[n], Closes(b[n]))], b[n] = "big")
         /\ UNCHANGED <<flags, backlog, accepting, conn, inq, reading, m_close,
                        state, sent>>

on_read ==
    /\ Running("on_read")
    /\ IF Head(posted).ec # "ok"
       THEN close_connection
       ELSE LET b == recv \o Head(posted).data
                n == RequestLen(b) IN
            IF n = 0
            THEN /\ read(b, size)
                 /\ UNCHANGED <<flags, backlog, accepting, conn, writing,
                                response, m_close, clientVars>>
            ELSE Serve(b, size, n)

\* Mutant: read() in place of the posted on_read().
on_write_reads ==
    /\ Running("on_write")
    /\ IF Head(posted).ec # "ok" \/ Closes(Last(response.request))
       THEN close_connection
       ELSE /\ read(recv, size)
            /\ UNCHANGED <<flags, backlog, accepting, conn, writing, response,
                           m_close, clientVars>>

\* on_write(): the next request may be in the buffer already, so that on_read()
\* is posted and looks there first.
on_write ==
    /\ Running("on_write")
    /\ IF Head(posted).ec # "ok" \/ Closes(Last(response.request))
       THEN close_connection
       ELSE /\ posted' = Append(Tail(posted), Completion("on_read", "ok", <<>>))
            /\ UNCHANGED <<flags, backlog, accepting, connVars, bufVars, m_close,
                           clientVars>>

\* stop(): acceptor::close() without an error_code aborts the accept and leaves
\* the acceptor open.
stop ==
    /\ ~m_close
    /\ m_close' = TRUE
    /\ accepting' = FALSE
    /\ posted' = IF accepting
                 THEN Append(posted, Completion("on_accept", "operation_aborted", <<>>))
                 ELSE posted
    /\ UNCHANGED <<flags, backlog, connVars, bufVars, clientVars>>

-----------------------------------------------------------------------------
(* The clients and the network.                                            *)

\* The SYN of client c arrives.
connect(c) ==
    /\ state[c] = "idle"
    /\ LET st == [state EXCEPT ![c] = "waiting"] IN
        IF accepting
        THEN Accept(Append(backlog, c), posted, st)
        ELSE /\ backlog' = Append(backlog, c)
             /\ state' = st
             /\ UNCHANGED <<accepting, conn, posted>>
    /\ UNCHANGED <<flags, inq, reading, writing, bufVars, m_close, sent, got>>

\* A request of client c makes, or is about to make, the server close.
Closing(c) ==
    \E u \in ToSet(sent[c]) : u \in EndUnits /\ (u = "bad" \/ Closes(u))

\* Units of a packet of client c arrive; a pending read is completed.
Arrive(u) ==
    IF reading THEN ReadSome(Append(inq, u), size - Len(recv), posted)
    ELSE inq' = Append(inq, u) /\ UNCHANGED <<reading, posted>>

BelowBound == MapThenSumSet(LAMBDA d : Len(sent[d]), Clients) < MaxUnits

send(c, u) ==
    /\ state[c] = "open"
    /\ BelowBound
    /\ MayOverrun \/ ~Closing(c)
    /\ sent' = [sent EXCEPT ![c] = Append(@, u)]
    /\ Arrive(u)
    /\ UNCHANGED <<flags, backlog, accepting, conn, writing, bufVars, m_close,
                   state, got>>

\* Client c closes its socket.  The end of its stream arrives; while it connects
\* nothing is sent.
hangup(c) ==
    /\ IF state[c] = "waiting"
       THEN MayGiveUp /\ UNCHANGED <<inq, reading, posted>>
       ELSE state[c] = "open" /\ (MayOverrun \/ ~Closing(c)) /\ Arrive("eof")
    /\ state' = [state EXCEPT ![c] = "hungup"]
    /\ UNCHANGED <<flags, backlog, accepting, conn, writing, bufVars, m_close,
                   sent, got>>

\* The acks of a big response arrive, and the rest of it is sent.  A client that
\* closed its socket sends no acks.
Acked ==
    /\ writing
    /\ state[conn] = "open"
    /\ writing' = FALSE
    /\ got' = [got EXCEPT ![conn] = Append(@, response)]
    /\ posted' = Append(posted, Completion("on_write", "ok", <<>>))
    /\ UNCHANGED <<flags, backlog, accepting, conn, inq, reading, bufVars, m_close,
                   state, sent>>

-----------------------------------------------------------------------------

Run == on_accept \/ on_read \/ on_write

Next ==
    \/ Run
    \/ Acked
    \/ stop
    \/ \E c \in Clients : \/ connect(c) \/ hangup(c)
                          \/ \E u \in {"part"} \cup Kinds : send(c, u)

Spec == Init /\ [][Next]_vars

\* The io_context calls what is posted, and the network delivers acks.  A client
\* need not do anything.
FairSpec == Spec /\ WF_vars(Run) /\ WF_vars(Acked)

-----------------------------------------------------------------------------
(* Properties.                                                             *)

Count(b) == IF b THEN 1 ELSE 0

StalledBy(c) == "stall" \in ToSet(sent[c])

\* The chain of handlers never forks and never ends: of accept, read, write and
\* posted completions there is one outstanding, whatever arrives and whenever
\* stop() is called; none only after stop() or for a stalled request.  The two
\* buffers have no other protection.
OneHandler ==
    LET n == Len(posted) + Count(accepting) + Count(reading) + Count(writing) IN
    /\ n =< 1
    /\ n = 0 => m_close \/ (conn # NoClient /\ StalledBy(conn))

\* "assert(int(m_recv_buffer.size()) > m_bytes_used)" in read(): a read has room,
\* however requests are split and pipelined, so that on_read() cannot be called
\* with 0 bytes over and over.
ReadHasRoom == reading => size > Len(recv)

\* The server always has one next step, and a read as next step can succeed.
ChainKept == OneHandler /\ ReadHasRoom

\* The responses a client gets answer the requests it sent, each once, in order
\* and whole: nothing of an earlier client, or left in a buffer, is answered.
AnswersOwnRequests ==
    \A c \in Clients :
        IsPrefix(FlattenSeq([i \in DOMAIN got[c] |-> got[c][i].request]), sent[c])

\* "so the client knows not to reuse the socket (rather than discovering it via a
\* failed write)": the server closes a connection only after a response that said
\* so, or for a request it could not parse.
CloseIsAnnounced ==
    \A c \in Clients :
        state[c] = "closed" =>
            \/ "bad" \in ToSet(sent[c])
            \/ got[c] # <<>> /\ Last(got[c]).close

\* Every complete request is answered, or the connection is closed, also when it
\* was pipelined and no byte arrives after it.
RequestsAnswered ==
    \A c \in Clients, n \in 1..MaxUnits :
        (conn = c /\ Len(SelectSeq(sent[c], LAMBDA u : u # "part")) >= n) ~>
            (Len(got[c]) >= n \/ conn # c \/ state[c] = "hungup" \/ StalledBy(c))

\* A client that hangs up while a big response is written takes the server with
\* it: no ack comes, and nothing is read that would tell.
Deserted == writing /\ state[conn] = "hungup"

\* If no client stays for ever, one that waits is served in the end: the server
\* always gets back to its acceptor, unless it was stopped, a request stalls, or
\* it was deserted.
WaitingAccepted ==
    (\A d \in Clients : state[d] = "open" ~> state[d] # "open") =>
        \A c \in Clients :
            state[c] = "waiting" ~>
                (state[c] # "waiting" \/ m_close \/ Deserted
                    \/ \E d \in Clients : StalledBy(d))

=============================================================================

------------------------------ MODULE Registry ------------------------------
(***************************************************************************)
(* The registry of a simulation (src/simulation.cpp, src/io_service.cpp):  *)
(* which socket object is bound to which endpoint, and the counter that    *)
(* ephemeral ports are taken from.  It is all there is to find the other   *)
(* end of a connection or the receiver of a datagram, and it holds plain   *)
(* pointers: a stale one is a use of a destroyed socket.                   *)
(*                                                                         *)
(* One address family; TCP and UDP have a map each and share the counter.  *)
(***************************************************************************)
EXTENDS Integers, Sequences

CONSTANTS
    TcpSockets, UdpSockets,  \* the socket and acceptor objects
    NoEndpoint,              \* the default endpoint of an unbound socket
    Ips,                     \* m_ips of the io_context of each socket
    BindPorts,               \* the ports user code passes to bind(), but 0
    FirstPort,               \* first port that is not reserved (1024)
    FirstEphemeral,          \* first value of m_next_bind_port (2000)
    ScanLimit,               \* last port the search for a free one tries (65530)
    LastEphemeral,           \* last value of m_next_bind_port (65534)
    MayBindAgain             \* may user code bind a bound socket?

Sockets == TcpSockets \cup UdpSockets

Addresses == UNION {{Ips[s][i] : i \in 1..Len(Ips[s])} : s \in Sockets}

ASSUME ConstantsAssumption ==
    /\ TcpSockets \cap UdpSockets = {}
    /\ BindPorts \subseteq Nat \ {0}
    /\ FirstPort \in Nat \ {0}
    /\ FirstEphemeral \in Nat /\ ScanLimit \in Nat /\ LastEphemeral \in Nat
    /\ FirstPort =< FirstEphemeral
    /\ FirstEphemeral =< ScanLimit
    /\ ScanLimit =< LastEphemeral
    /\ MayBindAgain \in BOOLEAN

ASSUME AddressAssumption ==
    \A s \in Sockets : Ips[s] \in Seq(Addresses) /\ Ips[s] # <<>>

Protocol(s) == IF s \in TcpSockets THEN "tcp" ELSE "udp"

Endpoints == [proto : {"tcp", "udp"}, addr : Addresses, port : Nat]

ASSUME EndpointAssumption == NoEndpoint \notin Endpoints

VARIABLES
    bound,      \* m_listen_sockets and m_udp_sockets: a set of [ep, owner]
    next_port,  \* m_next_bind_port
    opened,     \* the sockets whose m_open is true
    bound_to,   \* m_bound_to of each socket
    accepted,   \* history: the sockets that got m_bound_to from an acceptor
    aborted     \* an assert failed and the process is gone

vars == <<bound, next_port, opened, bound_to, accepted, aborted>>

TypeOK ==
    /\ bound \subseteq [ep : Endpoints, owner : Sockets]
    /\ next_port \in FirstEphemeral..LastEphemeral
    /\ opened \subseteq Sockets
    /\ bound_to \in [Sockets -> Endpoints \cup {NoEndpoint}]
    /\ accepted \subseteq TcpSockets
    /\ aborted \in BOOLEAN

Init ==
    /\ bound = {}
    /\ next_port = FirstEphemeral
    /\ opened = {}
    /\ bound_to = [s \in Sockets |-> NoEndpoint]
    /\ accepted = {}
    /\ aborted = FALSE

-----------------------------------------------------------------------------
(* The maps.                                                               *)

Taken(ep) == \E b \in bound : b.ep = ep

Endpoint(s, a, p) == [proto |-> Protocol(s), addr |-> a, port |-> p]

\* io_context::bind_socket(): any() is the first address of the node, another
\* address has to be one of the node's.
LocalAddresses(s) == {Ips[s][i] : i \in 1..Len(Ips[s])}

\* Mutant: an entry is erased whoever owns it.
UnboundAnyOwner(s) == {b \in bound : b.ep # bound_to[s]}

\* unbind_socket(), unbind_udp_socket(): erase the entry, if it is this socket's.
Unbound(s) == bound \ {[ep |-> bound_to[s], owner |-> s]}

NextPort ==
    IF next_port + 1 > LastEphemeral THEN FirstEphemeral ELSE next_port + 1

\* Mutant: the search only looks at the first port it tries.
FreePortUnchecked(s, a, p) ==
    /\ p \in next_port..LastEphemeral
    /\ p = next_port \/ p =< ScanLimit
    /\ \A q \in next_port..(p-1) : Taken(Endpoint(s, a, q))

\* The port bind_socket() finds for port 0: the counter, or the first free one
\* after it, up to a limit.
FreePort(s, a, p) ==
    /\ p \in next_port..LastEphemeral
    /\ ~Taken(Endpoint(s, a, p))
    /\ p = next_port \/ p =< ScanLimit
    /\ \A q \in next_port..(p-1) : Taken(Endpoint(s, a, q))

\* bind_socket(), bind_udp_socket(): the entry is inserted and the socket
\* remembers the endpoint.
Bound(s, ep) ==
    /\ bound' = bound \cup {[ep |-> ep, owner |-> s]}
    /\ bound_to' = [bound_to EXCEPT ![s] = ep]
    /\ accepted' = accepted \ {s}
    /\ UNCHANGED aborted

-----------------------------------------------------------------------------
(* The operations of sockets.                                              *)

\* socket::bind() to a given port.  Errors change nothing: a reserved port, an
\* endpoint in use, an address of another node, a closed socket.
BindExplicit(s, a, p) ==
    /\ ~aborted
    /\ s \in opened
    /\ MayBindAgain \/ bound_to[s] = NoEndpoint
    /\ p >= FirstPort
    /\ ~Taken(Endpoint(s, a, p))
    /\ Bound(s, Endpoint(s, a, p))
    /\ UNCHANGED <<next_port, opened>>

\* socket::bind() to port 0, the bind in udp::socket::send_to_impl() and, on an
\* open socket, the one in tcp::socket::async_connect().
BindEphemeral(s, a, p) ==
    /\ ~aborted
    /\ s \in opened
    /\ MayBindAgain \/ bound_to[s] = NoEndpoint
    /\ FreePort(s, a, p)
    /\ Bound(s, Endpoint(s, a, p))
    /\ next_port' = NextPort
    /\ UNCHANGED opened

\* The same when the search fails: address_in_use, but the counter has moved.
BindExhausted(s, a) ==
    /\ ~aborted
    /\ s \in opened
    /\ MayBindAgain \/ bound_to[s] = NoEndpoint
    /\ ~\E p \in next_port..LastEphemeral : FreePort(s, a, p)
    /\ next_port' = NextPort
    /\ UNCHANGED <<bound, opened, bound_to, accepted, aborted>>

\* tcp::socket::async_connect() on a closed socket opens it, then binds it to
\* the first address of its node; without a free port it stays open, unbound.
async_connect(s) ==
    LET a == Ips[s][1]
        free == {p \in next_port..LastEphemeral : FreePort(s, a, p)} IN
    /\ ~aborted
    /\ s \in TcpSockets \ opened
    /\ opened' = opened \cup {s}
    /\ next_port' = NextPort
    /\ \/ \E p \in free : Bound(s, Endpoint(s, a, p))
       \/ free = {} /\ UNCHANGED <<bound, bound_to, accepted, aborted>>

\* close() and the destructors.
close(s) ==
    /\ ~aborted
    /\ bound' = Unbound(s)
    /\ bound_to' = [bound_to EXCEPT ![s] = NoEndpoint]
    /\ opened' = opened \ {s}
    /\ accepted' = accepted \ {s}
    /\ UNCHANGED <<next_port, aborted>>

\* Mutant: open() on an open socket does not close it first.
open_again(s) ==
    /\ ~aborted
    /\ bound_to' = [bound_to EXCEPT ![s] = NoEndpoint]
    /\ opened' = opened \cup {s}
    /\ accepted' = accepted \ {s}
    /\ UNCHANGED <<bound, next_port, aborted>>

\* open() closes the socket first.
open(s) ==
    /\ ~aborted
    /\ bound' = Unbound(s)
    /\ bound_to' = [bound_to EXCEPT ![s] = NoEndpoint]
    /\ opened' = opened \cup {s}
    /\ accepted' = accepted \ {s}
    /\ UNCHANGED <<next_port, aborted>>

\* check_accept_queue(): the acceptor s hands a connection to socket t, which
\* is opened and takes over the endpoint of s without an entry of its own.
accept(s, t) ==
    /\ ~aborted
    /\ s \in TcpSockets \cap opened
    /\ t \in TcpSockets \ {s}
    /\ bound_to[s] # NoEndpoint
    /\ s \notin accepted
    /\ bound' = Unbound(t)
    /\ bound_to' = [bound_to EXCEPT ![t] = bound_to[s]]
    /\ opened' = opened \cup {t}
    /\ accepted' = accepted \cup {t}
    /\ UNCHANGED <<next_port, aborted>>

\* rebind_socket() replaces the owner if it is s; rebind_udp_socket() replaces
\* it in any case.
Rebound(s, t) ==
    {IF b.ep = bound_to[s] /\ (b.owner = s \/ s \in UdpSockets)
     THEN [b EXCEPT !.owner = t]
     ELSE b : b \in bound}

\* The move constructor of a socket: t, which does not exist so far, is
\* constructed from s on the same node.
move(s, t) ==
    /\ ~aborted
    /\ s # t
    /\ Protocol(s) = Protocol(t)
    /\ Ips[s] = Ips[t]
    /\ t \notin opened
    /\ bound_to[s] # NoEndpoint => Taken(bound_to[s])
    /\ bound' = IF bound_to[s] = NoEndpoint THEN bound ELSE Rebound(s, t)
    /\ bound_to' = [bound_to EXCEPT ![t] = bound_to[s], ![s] = NoEndpoint]
    /\ opened' = IF s \in opened THEN (opened \ {s}) \cup {t} ELSE opened
    /\ accepted' = IF s \in accepted
                   THEN (accepted \ {s}) \cup {t}
                   ELSE accepted
    /\ UNCHANGED <<next_port, aborted>>

\* rebind_socket() asserts that the endpoint is in the map.
MoveAsserts(s) ==
    /\ ~aborted
    /\ bound_to[s] # NoEndpoint
    /\ ~Taken(bound_to[s])
    /\ aborted' = TRUE
    /\ UNCHANGED <<bound, next_port, opened, bound_to, accepted>>

-----------------------------------------------------------------------------

Bind(s) ==
    \E a \in LocalAddresses(s) :
        \/ \E p \in BindPorts : BindExplicit(s, a, p)
        \/ \E p \in FirstEphemeral..LastEphemeral : BindEphemeral(s, a, p)
        \/ BindExhausted(s, a)

Next ==
    \E s \in Sockets :
        \/ open(s)
        \/ close(s)
        \/ Bind(s)
        \/ async_connect(s)
        \/ \E t \in Sockets : accept(s, t) \/ move(s, t)
        \/ MoveAsserts(s)

Spec == Init /\ [][Next]_vars

-----------------------------------------------------------------------------
(* Safety.                                                                 *)

\* The pointers of the registry are alive: each belongs to an open socket that
\* is bound to that very endpoint, whatever was moved, closed, opened again or
\* accepted into.  internal_connect() and find_udp_socket() dereference them.
NoStaleEntry ==
    \A b \in bound : b.owner \in opened /\ bound_to[b.owner] = b.ep

\* No endpoint is given to two sockets, by an explicit port or by the search
\* for a free one.
OneOwner == \A b, c \in bound : b.ep = c.ep => b = c

\* A bound socket can be found: it is open and in the registry under its
\* endpoint, until it lets go of it.  Only a socket that was accepted has none:
\* it shares the endpoint of its acceptor.  So no close() or move of one socket
\* takes the entry of another.
BoundIsFound ==
    \A s \in Sockets :
        bound_to[s] # NoEndpoint =>
            /\ s \in opened
            /\ s \notin accepted => [ep |-> bound_to[s], owner |-> s] \in bound

\* The assertion of rebind_socket(): a socket that is moved is bound to an
\* endpoint of the registry.
RebindFindsEntry == ~aborted

=============================================================================

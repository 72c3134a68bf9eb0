--------------------------- MODULE RegistryProofs ---------------------------
(***************************************************************************)
(* Proofs about Registry, for every set of sockets, nodes and ports, and   *)
(* for user code that does not bind a bound socket: the entries of the     *)
(* registry and the m_bound_to of the sockets agree.                       *)
(***************************************************************************)
EXTENDS Registry, TLAPS

\* The inductive invariant.  None of its parts is inductive alone: that close()
\* leaves no stale entry needs BoundIsFound and OneOwner, that a moved UDP socket
\* takes its own entry along, whose owner rebind_udp_socket() does not check,
\* needs all of them.
IInv == TypeOK /\ NoStaleEntry /\ OneOwner /\ BoundIsFound

\* An entry of the registry under the endpoint of a socket that was not accepted
\* is the entry of that socket.
LEMMA OwnEntry ==
    ASSUME IInv, NEW s \in Sockets, s \notin accepted,
           NEW b \in bound, b.ep = bound_to[s]
    PROVE  b.owner = s
<1>1. b \in [ep : Endpoints, owner : Sockets]
  BY DEF IInv, TypeOK
<1>2. bound_to[s] # NoEndpoint
  BY <1>1, EndpointAssumption
<1>3. [ep |-> bound_to[s], owner |-> s] \in bound
  BY <1>2 DEF IInv, BoundIsFound
<1>4. b = [ep |-> bound_to[s], owner |-> s]
  BY <1>3 DEF IInv, OneOwner
<1>5. QED
  BY <1>4

\* A local address makes an endpoint.
LEMMA EndpointType ==
    ASSUME NEW s \in Sockets, NEW a \in Addresses, NEW p \in Nat
    PROVE  Endpoint(s, a, p) \in Endpoints
BY DEF Endpoint, Endpoints, Protocol

\* So do the addresses of a node, which has at least one.
LEMMA LocalIsAddress ==
    ASSUME NEW s \in Sockets
    PROVE  LocalAddresses(s) \subseteq Addresses /\ Ips[s][1] \in Addresses
<1>1. Ips[s] \in Seq(Addresses) /\ Len(Ips[s]) >= 1
  BY AddressAssumption
<1>2. \A i \in 1..Len(Ips[s]) : Ips[s][i] \in Addresses
  BY <1>1
<1>3. QED
  BY <1>1, <1>2 DEF LocalAddresses

\* The counter of ephemeral ports stays in its range.
LEMMA NextPortType ==
    ASSUME IInv
    PROVE  NextPort \in FirstEphemeral..LastEphemeral
BY ConstantsAssumption DEF IInv, TypeOK, NextPort

\* At the start nothing is bound.
LEMMA InitIInv == Init => IInv
<1> SUFFICES ASSUME Init PROVE IInv
  OBVIOUS
<1>1. FirstEphemeral \in FirstEphemeral..LastEphemeral
  BY ConstantsAssumption
<1>2. TypeOK
  BY <1>1, Zenon DEF Init, TypeOK
<1>3. NoStaleEntry /\ OneOwner /\ BoundIsFound
  BY DEF Init, NoStaleEntry, OneOwner, BoundIsFound
<1>4. QED
  BY <1>2, <1>3 DEF IInv

\* close() and open(): a socket lets go of its endpoint.
LEMMA UnbindStep ==
    ASSUME IInv, NEW s \in Sockets,
           bound' = Unbound(s),
           bound_to' = [bound_to EXCEPT ![s] = NoEndpoint],
           opened' \in {opened \cup {s}, opened \ {s}},
           accepted' = accepted \ {s},
           UNCHANGED <<next_port, aborted>>
    PROVE  IInv'
<1>1. TypeOK'
  BY DEF IInv, TypeOK, Unbound
<1>2. NoStaleEntry'
  <2> SUFFICES ASSUME NEW b \in bound'
               PROVE  b.owner \in opened' /\ bound_to'[b.owner] = b.ep
    BY DEF NoStaleEntry
  <2>1. /\ b \in bound /\ b # [ep |-> bound_to[s], owner |-> s]
        /\ b \in [ep : Endpoints, owner : Sockets]
    BY DEF IInv, TypeOK, Unbound
  <2>2. b.owner \in opened /\ bound_to[b.owner] = b.ep
    BY <2>1 DEF IInv, NoStaleEntry
  <2>3. b.owner # s
    BY <2>1, <2>2
  <2>4. QED
    BY <2>1, <2>2, <2>3 DEF IInv, TypeOK
<1>3. OneOwner'
  BY DEF IInv, OneOwner, Unbound
<1>4. BoundIsFound'
  <2> SUFFICES ASSUME NEW x \in Sockets, bound_to'[x] # NoEndpoint
               PROVE  /\ x \in opened'
                      /\ x \notin accepted' =>
                            [ep |-> bound_to'[x], owner |-> x] \in bound'
    BY DEF BoundIsFound
  <2>1. x # s /\ bound_to'[x] = bound_to[x]
    BY DEF IInv, TypeOK
  <2>2. QED
    BY <2>1 DEF IInv, BoundIsFound, Unbound
<1>5. QED
  BY <1>1, <1>2, <1>3, <1>4 DEF IInv

\* bind_socket() and bind_udp_socket() with an endpoint that is free.
LEMMA BindStep ==
    ASSUME IInv, NEW s \in Sockets, NEW ep \in Endpoints,
           bound_to[s] = NoEndpoint, ~Taken(ep), Bound(s, ep),
           opened' = opened \cup {s},
           next_port' \in FirstEphemeral..LastEphemeral
    PROVE  IInv'
<1> DEFINE e == [ep |-> ep, owner |-> s]
<1>1. /\ bound' = bound \cup {e}
      /\ bound_to' = [bound_to EXCEPT ![s] = ep]
      /\ accepted' = accepted \ {s}
      /\ aborted' = aborted
      /\ bound_to \in [Sockets -> Endpoints \cup {NoEndpoint}]
      /\ bound \subseteq [ep : Endpoints, owner : Sockets]
  BY DEF Bound, IInv, TypeOK
<1>2. TypeOK'
  BY <1>1 DEF IInv, TypeOK
<1>3. NoStaleEntry'
  <2> SUFFICES ASSUME NEW b \in bound'
               PROVE  b.owner \in opened' /\ bound_to'[b.owner] = b.ep
    BY DEF NoStaleEntry
  <2>1. CASE b = e
    BY <2>1, <1>1
  <2>2. CASE b \in bound
    <3>1. /\ b \in [ep : Endpoints, owner : Sockets]
          /\ b.owner \in opened /\ bound_to[b.owner] = b.ep
      BY <2>2, <1>1 DEF IInv, NoStaleEntry
    <3>2. b.owner # s
      BY <3>1, EndpointAssumption
    <3>3. QED
      BY <3>1, <3>2, <1>1
  <2>3. QED
    BY <2>1, <2>2, <1>1
<1>4. OneOwner'
  <2>1. \A b \in bound : b.ep # e.ep
    BY DEF Taken
  <2>2. QED
    BY <2>1, <1>1 DEF IInv, OneOwner
<1>5. BoundIsFound'
  <2> SUFFICES ASSUME NEW x \in Sockets, bound_to'[x] # NoEndpoint
               PROVE  /\ x \in opened'
                      /\ x \notin accepted' =>
                            [ep |-> bound_to'[x], owner |-> x] \in bound'
    BY DEF BoundIsFound
  <2>1. CASE x = s
    BY <2>1, <1>1
  <2>2. CASE x # s
    BY <2>2, <1>1 DEF IInv, BoundIsFound
  <2>3. QED
    BY <2>1, <2>2
<1>6. QED
  BY <1>2, <1>3, <1>4, <1>5 DEF IInv

\* check_accept_queue(): t shares the endpoint of the acceptor.
LEMMA AcceptStep ==
    ASSUME IInv, NEW s \in Sockets, NEW t \in Sockets, accept(s, t)
    PROVE  IInv'
<1>1. /\ t \in TcpSockets /\ t # s /\ s \in opened
      /\ bound_to[s] # NoEndpoint
      /\ bound' = bound \ {[ep |-> bound_to[t], owner |-> t]}
      /\ bound_to' = [bound_to EXCEPT ![t] = bound_to[s]]
      /\ opened' = opened \cup {t}
      /\ accepted' = accepted \cup {t}
      /\ next_port' = next_port /\ aborted' = aborted
  BY DEF accept, Unbound
<1>2. /\ bound_to \in [Sockets -> Endpoints \cup {NoEndpoint}]
      /\ bound \subseteq [ep : Endpoints, owner : Sockets]
  BY DEF IInv, TypeOK
<1>3. TypeOK'
  BY <1>1, <1>2 DEF IInv, TypeOK
<1>4. NoStaleEntry'
  <2> SUFFICES ASSUME NEW b \in bound'
               PROVE  b.owner \in opened' /\ bound_to'[b.owner] = b.ep
    BY DEF NoStaleEntry
  <2>1. /\ b \in bound /\ b # [ep |-> bound_to[t], owner |-> t]
        /\ b \in [ep : Endpoints, owner : Sockets]
    BY <1>1, <1>2
  <2>2. b.owner \in opened /\ bound_to[b.owner] = b.ep
    BY <2>1 DEF IInv, NoStaleEntry
  <2>3. b.owner # t
    BY <2>1, <2>2
  <2>4. QED
    BY <2>1, <2>2, <2>3, <1>1, <1>2
<1>5. OneOwner'
  BY <1>1 DEF IInv, OneOwner
<1>6. BoundIsFound'
  <2> SUFFICES ASSUME NEW x \in Sockets, bound_to'[x] # NoEndpoint
               PROVE  /\ x \in opened'
                      /\ x \notin accepted' =>
                            [ep |-> bound_to'[x], owner |-> x] \in bound'
    BY DEF BoundIsFound
  <2>1. CASE x = t
    BY <2>1, <1>1
  <2>2. CASE x # t
    BY <2>2, <1>1, <1>2 DEF IInv, BoundIsFound
  <2>3. QED
    BY <2>1, <2>2
<1>7. QED
  BY <1>3, <1>4, <1>5, <1>6 DEF IInv

\* What rebind_socket() and rebind_udp_socket() do to the registry: the entry of
\* s, if it has one, becomes the entry of t, and the others stay.
LEMMA ReboundEntries ==
    ASSUME IInv, NEW s \in Sockets, NEW t \in Sockets
    PROVE  Rebound(s, t) =
            {b \in bound : b.owner # s} \cup
            {[ep |-> b.ep, owner |-> t] : b \in {c \in bound : c.owner = s}}
<1> DEFINE Mine(b) == b.ep = bound_to[s] /\ (b.owner = s \/ s \in UdpSockets)
           Moved(b) == IF Mine(b) THEN [b EXCEPT !.owner = t] ELSE b
<1>1. bound \subseteq [ep : Endpoints, owner : Sockets]
  BY DEF IInv, TypeOK
<1>2. ASSUME NEW b \in bound PROVE Mine(b) <=> b.owner = s
  <2>1. b.owner = s => b.ep = bound_to[s]
    BY DEF IInv, NoStaleEntry
  <2>2. s \in UdpSockets => s \notin accepted
    BY ConstantsAssumption DEF IInv, TypeOK
  <2>3. Mine(b) => b.owner = s
    BY <2>2, OwnEntry
  <2>4. QED
    BY <2>1, <2>3
<1>3. ASSUME NEW b \in bound
      PROVE  Moved(b) = IF b.owner = s THEN [ep |-> b.ep, owner |-> t] ELSE b
  <2>1. b \in [ep : Endpoints, owner : Sockets]
    BY <1>1
  <2>2. [b EXCEPT !.owner = t] = [ep |-> b.ep, owner |-> t]
    BY <2>1
  <2>3. QED
    BY <1>2, <2>2
<1>4. Rebound(s, t) = {Moved(b) : b \in bound}
  BY DEF Rebound
<1> HIDE DEF Moved
<1>5. QED
  BY <1>3, <1>4

\* The move constructor: t takes over what s had.
LEMMA MoveStep ==
    ASSUME IInv, NEW s \in Sockets, NEW t \in Sockets, move(s, t)
    PROVE  IInv'
<1>1. /\ t # s /\ t \notin opened
      /\ Protocol(s) = Protocol(t)
      /\ bound_to' = [bound_to EXCEPT ![t] = bound_to[s], ![s] = NoEndpoint]
      /\ opened' = IF s \in opened THEN (opened \ {s}) \cup {t} ELSE opened
      /\ accepted' = IF s \in accepted THEN (accepted \ {s}) \cup {t} ELSE accepted
      /\ next_port' = next_port /\ aborted' = aborted
  BY DEF move
<1>2. /\ bound_to \in [Sockets -> Endpoints \cup {NoEndpoint}]
      /\ bound \subseteq [ep : Endpoints, owner : Sockets]
  BY DEF IInv, TypeOK
<1>3. bound' = {b \in bound : b.owner # s} \cup
               {[ep |-> b.ep, owner |-> t] : b \in {c \in bound : c.owner = s}}
  <2>1. CASE bound_to[s] = NoEndpoint
    <3>1. \A b \in bound : b.owner # s
      BY <2>1, <1>2, EndpointAssumption DEF IInv, NoStaleEntry
    <3>2. bound' = bound
      BY <2>1 DEF move
    <3>3. QED
      BY <3>1, <3>2
  <2>2. CASE bound_to[s] # NoEndpoint
    BY <2>2, ReboundEntries DEF move
  <2>3. QED
    BY <2>1, <2>2
<1>4. /\ bound_to'[t] = bound_to[s] /\ bound_to'[s] = NoEndpoint
      /\ \A x \in Sockets \ {s, t} : bound_to'[x] = bound_to[x]
  BY <1>1, <1>2
<1>5. \A b \in bound : b.owner = s => b.ep = bound_to[s] /\ s \in opened
  BY DEF IInv, NoStaleEntry
<1>6. \A b \in bound : b.owner # t
  BY <1>1 DEF IInv, NoStaleEntry
<1>7. TypeOK'
  <2>1. bound' \subseteq [ep : Endpoints, owner : Sockets]
    BY <1>2, <1>3
  <2>2. bound_to' \in [Sockets -> Endpoints \cup {NoEndpoint}]
    BY <1>1, <1>2
  <2>3. accepted' \subseteq TcpSockets
    BY <1>1, ConstantsAssumption DEF IInv, TypeOK, Protocol, Sockets
  <2>4. QED
    BY <2>1, <2>2, <2>3, <1>1 DEF IInv, TypeOK
<1>8. NoStaleEntry'
  <2> SUFFICES ASSUME NEW b \in bound'
               PROVE  b.owner \in opened' /\ bound_to'[b.owner] = b.ep
    BY DEF NoStaleEntry
  <2>1. CASE b \in bound /\ b.owner # s
    <3>1. b.owner \in Sockets \ {s, t}
      BY <2>1, <1>2, <1>6
    <3>2. b.owner \in opened /\ bound_to[b.owner] = b.ep
      BY <2>1 DEF IInv, NoStaleEntry
    <3>3. QED
      BY <3>1, <3>2, <1>1, <1>4
  <2>2. CASE \E c \in bound : c.owner = s /\ b = [ep |-> c.ep, owner |-> t]
    BY <2>2, <1>1, <1>4, <1>5
  <2>3. QED
    BY <2>1, <2>2, <1>3
<1>9. OneOwner'
  <2> SUFFICES ASSUME NEW b \in bound', NEW c \in bound', b.ep = c.ep
               PROVE  b = c
    BY DEF OneOwner
  <2>1. \A x \in bound' :
            \E y \in bound : /\ y.ep = x.ep
                             /\ x = IF y.owner = s
                                    THEN [ep |-> y.ep, owner |-> t] ELSE y
    BY <1>3
  <2>2. PICK y \in bound : /\ y.ep = b.ep
                           /\ b = IF y.owner = s
                                  THEN [ep |-> y.ep, owner |-> t] ELSE y
    BY <2>1
  <2>3. PICK z \in bound : /\ z.ep = c.ep
                           /\ c = IF z.owner = s
                                  THEN [ep |-> z.ep, owner |-> t] ELSE z
    BY <2>1
  <2>4. y = z
    BY <2>2, <2>3 DEF IInv, OneOwner
  <2>5. QED
    BY <2>2, <2>3, <2>4
<1>10. BoundIsFound'
  <2> SUFFICES ASSUME NEW x \in Sockets, bound_to'[x] # NoEndpoint
               PROVE  /\ x \in opened'
                      /\ x \notin accepted' =>
                            [ep |-> bound_to'[x], owner |-> x] \in bound'
    BY DEF BoundIsFound
  <2>1. x # s
    BY <1>4
  <2>2. CASE x = t
    <3>1. s \in opened /\ (s \notin accepted =>
                            [ep |-> bound_to[s], owner |-> s] \in bound)
      BY <2>2, <1>4 DEF IInv, BoundIsFound
    <3>2. [ep |-> bound_to[s], owner |-> s] \in bound =>
            [ep |-> bound_to[s], owner |-> t] \in bound'
      BY <1>3
    <3>3. QED
      BY <3>1, <3>2, <2>2, <1>1, <1>4
  <2>3. CASE x # t
    <3>1. bound_to'[x] = bound_to[x]
      BY <2>1, <2>3, <1>4
    <3>2. x \in opened /\ (x \notin accepted =>
                            [ep |-> bound_to[x], owner |-> x] \in bound)
      BY <3>1 DEF IInv, BoundIsFound
    <3>3. [ep |-> bound_to[x], owner |-> x] \in bound =>
            [ep |-> bound_to[x], owner |-> x] \in bound'
      BY <1>3, <2>1
    <3>4. QED
      BY <3>1, <3>2, <3>3, <2>1, <2>3, <1>1
  <2>4. QED
    BY <2>2, <2>3
<1>11. QED
  BY <1>7, <1>8, <1>9, <1>10 DEF IInv

\* A step that leaves the registry and the sockets alone.
LEMMA CounterStep ==
    ASSUME IInv, UNCHANGED <<bound, opened, bound_to, accepted>>,
           next_port' \in FirstEphemeral..LastEphemeral, aborted' \in BOOLEAN
    PROVE  IInv'
BY DEF IInv, TypeOK, NoStaleEntry, OneOwner, BoundIsFound

\* Every step of a socket keeps the invariant.
LEMMA NextIInv ==
    ASSUME MayBindAgain = FALSE, IInv, [Next]_vars
    PROVE  IInv'
<1>0. next_port \in FirstEphemeral..LastEphemeral /\ aborted \in BOOLEAN
  BY DEF IInv, TypeOK
<1>1. ASSUME NEW s \in Sockets, open(s) PROVE IInv'
  BY <1>1, UnbindStep DEF open
<1>2. ASSUME NEW s \in Sockets, close(s) PROVE IInv'
  BY <1>2, UnbindStep DEF close
<1>3. ASSUME NEW s \in Sockets, NEW a \in LocalAddresses(s), NEW p \in BindPorts,
             BindExplicit(s, a, p)
      PROVE  IInv'
  <2>1. Endpoint(s, a, p) \in Endpoints
    BY LocalIsAddress, EndpointType, ConstantsAssumption
  <2>2. /\ bound_to[s] = NoEndpoint /\ ~Taken(Endpoint(s, a, p))
        /\ Bound(s, Endpoint(s, a, p)) /\ next_port' = next_port
        /\ opened' = opened \cup {s}
    BY <1>3 DEF BindExplicit
  <2>3. QED
    BY <2>1, <2>2, <1>0, BindStep
<1>4. ASSUME NEW s \in Sockets, NEW a \in LocalAddresses(s),
             NEW p \in FirstEphemeral..LastEphemeral, BindEphemeral(s, a, p)
      PROVE  IInv'
  <2>1. Endpoint(s, a, p) \in Endpoints
    BY LocalIsAddress, EndpointType, ConstantsAssumption
  <2>2. /\ bound_to[s] = NoEndpoint /\ ~Taken(Endpoint(s, a, p))
        /\ Bound(s, Endpoint(s, a, p)) /\ next_port' = NextPort
        /\ opened' = opened \cup {s}
    BY <1>4 DEF BindEphemeral, FreePort
  <2>3. QED
    BY <2>1, <2>2, NextPortType, BindStep
<1>5. ASSUME NEW s \in Sockets, NEW a, BindExhausted(s, a) PROVE IInv'
  BY <1>0, <1>5, CounterStep, NextPortType DEF BindExhausted
<1>6. ASSUME NEW s \in Sockets, async_connect(s) PROVE IInv'
  <2> DEFINE a == Ips[s][1]
  <2>1. /\ s \notin opened /\ opened' = opened \cup {s} /\ next_port' = NextPort
    BY <1>6 DEF async_connect
  <2>2. bound_to[s] = NoEndpoint
    BY <2>1 DEF IInv, BoundIsFound
  <2>3. CASE \E p \in next_port..LastEphemeral :
                FreePort(s, a, p) /\ Bound(s, Endpoint(s, a, p))
    <3>1. PICK p \in next_port..LastEphemeral :
                FreePort(s, a, p) /\ Bound(s, Endpoint(s, a, p))
      BY <2>3
    <3>2. p \in Nat
      BY <1>0, ConstantsAssumption
    <3>3. Endpoint(s, a, p) \in Endpoints
      BY <3>2, LocalIsAddress, EndpointType
    <3>4. ~Taken(Endpoint(s, a, p))
      BY <3>1 DEF FreePort
    <3>5. QED
      BY <3>1, <3>3, <3>4, <2>1, <2>2, NextPortType, BindStep
  <2>4. CASE UNCHANGED <<bound, bound_to, accepted, aborted>>
    <3>1. next_port' \in FirstEphemeral..LastEphemeral
      BY <2>1, NextPortType
    <3>2. TypeOK'
      BY <3>1, <2>1, <2>4 DEF IInv, TypeOK
    <3>3. NoStaleEntry' /\ OneOwner' /\ BoundIsFound'
      BY <2>1, <2>4 DEF IInv, NoStaleEntry, OneOwner, BoundIsFound
    <3>4. QED
      BY <3>2, <3>3 DEF IInv
  <2>5. QED
    BY <2>3, <2>4, <1>6 DEF async_connect
<1>7. ASSUME NEW s \in Sockets, MoveAsserts(s) PROVE IInv'
  BY <1>0, <1>7, CounterStep DEF MoveAsserts
<1>8. CASE UNCHANGED vars
  BY <1>0, <1>8, CounterStep DEF vars
<1>9. QED
  BY <1>1, <1>2, <1>3, <1>4, <1>5, <1>6, <1>7, <1>8, AcceptStep, MoveStep
     DEF Next, Bind

-----------------------------------------------------------------------------

\* The invariant holds throughout, for user code that never binds a bound socket.
THEOREM RegistryInvariance ==
    ASSUME MayBindAgain = FALSE
    PROVE  Spec => []IInv
<1>1. Init => IInv
  BY InitIInv
<1>2. IInv /\ [Next]_vars => IInv'
  BY NextIInv
<1>3. QED
  BY <1>1, <1>2, PTL DEF Spec

\* The state of the registry is well typed; the counter of ephemeral ports never
\* leaves its range.
THEOREM RegistryTypeCorrect ==
    ASSUME MayBindAgain = FALSE
    PROVE  Spec => []TypeOK
BY RegistryInvariance, PTL DEF IInv

\* No sequence of open(), bind(), connect, accept, move, close() and destruction
\* leaves a pointer in the registry to a socket that is closed or bound to
\* something else: what internal_connect() and find_udp_socket() dereference is
\* alive.
THEOREM NoStalePointers ==
    ASSUME MayBindAgain = FALSE
    PROVE  Spec => []NoStaleEntry
BY RegistryInvariance, PTL DEF IInv

\* No two sockets are given one endpoint.
THEOREM EndpointsUnique ==
    ASSUME MayBindAgain = FALSE
    PROVE  Spec => []OneOwner
BY RegistryInvariance, PTL DEF IInv

\* A socket that is bound, and was not accepted, can be found under its endpoint.
THEOREM BoundSocketsFound ==
    ASSUME MayBindAgain = FALSE
    PROVE  Spec => []BoundIsFound
BY RegistryInvariance, PTL DEF IInv

=============================================================================

--------------------------- MODULE MCSocksServer ---------------------------
(* Small instances of SocksServer for TLC. *)
EXTENDS SocksServer

CONSTANTS c1, c2

MCClients == {c1, c2}

P(cmd, target) == [cmd |-> cmd, target |-> target, methods |-> "some",
                   bad |-> 0, port |-> FALSE]
Scene(version, plan, may) ==
    [version |-> version, disconnect_udp_associate |-> FALSE, plan |-> plan, may |-> may]

\* One client, with every request that the server understands.
Requests5 == {P(1, t) : t \in {"live", "dead", "name", "name3", "short", "ip6"}}
    \cup {P(2, t) : t \in {"live", "dead", "name"}}
Requests4 == {P(cmd, t) : cmd \in {1, 2}, t \in {"live", "dead"}} \cup {P(3, "live")}
UdpRequests == {[P(3, t) EXCEPT !.port = b] : t \in {"live", "dead"}, b \in BOOLEAN}
BadRequests == {[P(1, "live") EXCEPT !.bad = i] : i \in 1..3}
    \cup {[P(1, "live") EXCEPT !.methods = m] : m \in {"none", "many"}}
Alone ==
    {Scene(5, c1 :> r, may) : r \in Requests5, may \in {{}, {"coincide"}}}
    \cup {Scene(4, c1 :> r, {"coincide"}) : r \in Requests4}
    \cup {Scene(5, c1 :> P(2, "live"), {"early"})}
    \cup {Scene(5, c1 :> r, {}) : r \in UdpRequests \cup BadRequests}
    \cup {[Scene(5, c1 :> P(3, "live"), {}) EXCEPT !.disconnect_udp_associate = TRUE]}

\* Two clients that want the same endpoint.
Together == {Scene(4, c1 :> P(2, "live") @@ c2 :> P(2, "live"), {})}

MCScenes == Alone \cup Together

MCEarly == {Scene(5, c1 :> P(2, "live"), {"early", "coincide"})}
MCEndless == {Scene(5, c1 :> r, {}) :
                r \in {P(1, "short"), [P(1, "live") EXCEPT !.methods = "many"]}}
MCUdpName == {Scene(5, c1 :> P(3, "name"), {})}
MCUdpCoincide == {Scene(5, c1 :> P(3, "live"), {"coincide"})}
MCCommand == {Scene(5, c1 :> P(4, "live"), {})}

=============================================================================

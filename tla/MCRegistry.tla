----------------------------- MODULE MCRegistry -----------------------------
EXTENDS Registry, TLC

CONSTANTS t1, t2, t3, u1, u2

MCTcp == {t1, t2, t3}
MCUdp == {u1, u2}
\* One node with two addresses.
MCIps == [s \in Sockets |-> <<"a", "b">>]
\* A reserved port, one below the ephemeral range and one within it.
MCBindPorts == {1, 2, 4}
MCSymmetry == Permutations(MCTcp) \cup Permutations(MCUdp)
=============================================================================

----------------------------- MODULE MCHandshake -----------------------------
EXTENDS Handshake, TLC

CONSTANTS c1, c2, p1

MCConnectors == {c1, c2}
MCOneConnector == {c1}
MCOnePeer == {p1}
=============================================================================

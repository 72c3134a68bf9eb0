---------------------------- MODULE MCTcpStream ----------------------------
(* Small instances of TcpStream for TLC. *)
EXTENDS TcpStream

MCWrites == {1, 3, 4}
MCWritesLossy == {1, 4}
MCWritesFull == {4, 8}
MCReads == {1, 3}
MCReadsLive == {2}

=============================================================================

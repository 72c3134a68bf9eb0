---------------------------- MODULE MCUdpSocket ----------------------------
(* Small instances of UdpSocket for TLC. *)
EXTENDS UdpSocket

MCLens == {1, 2}
MCBuffers == {2, 3}
MCSmallBuffers == {1}

=============================================================================

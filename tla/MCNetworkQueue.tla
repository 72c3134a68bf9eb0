-------------------------- MODULE MCNetworkQueue --------------------------
(* Small instances of NetworkQueue for TLC. *)
EXTENDS NetworkQueue

MCSizes == {1, 2}

=============================================================================

----------------------------- MODULE MCResolver -----------------------------
(* Small instances of Resolver for TLC. *)
EXTENDS Resolver

MCLatencies == {1, 3}
MCFromIdle == {"idle"}
MCFromHandler == {"handler"}

=============================================================================

---------------------------- MODULE MCHttpServer ----------------------------
(* Small instances of HttpServer for TLC. *)
EXTENDS HttpServer

CONSTANTS c1, c2, c3

MCClients == {c1, c2}
MCThreeClients == {c1, c2, c3}
MCFlagSets == {{}, {"keep_alive"}, {"keep_alive", "http_1_0"}}
MCKeepAlive == {{"keep_alive"}}
MCKinds == {"get", "close", "big", "stall", "bad"}
MCPlain == {"get"}

=============================================================================

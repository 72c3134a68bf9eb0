---------------------------- MODULE MCHttpProxy ----------------------------
(* Small instances of HttpProxy for TLC. *)
EXTENDS HttpProxy

CONSTANTS c1, c2

MCClients == {c1, c2}
MCOneClient == {c1}
MCKinds == {"part", "ip", "dead", "name", "bad"}
MCFew == {"part", "ip", "name", "bad"}
MCOrderly == {{}, {"overlap"}}
MCPolite == {{}}
MCOverlap == {{"overlap"}}
MCCoincide == {{"coincide"}}
MCHurry == {{"hurry"}}
MCFill == {{"fill", "coincide"}}

=============================================================================

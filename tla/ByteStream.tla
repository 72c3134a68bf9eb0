----------------------------- MODULE ByteStream -----------------------------
(***************************************************************************)
(* What a TCP connection promises in one direction: the reader gets the    *)
(* bytes that were written, each once and in order, and the end of the     *)
(* stream after all of them.  The n-th byte written is the number n.       *)
(***************************************************************************)
EXTENDS Integers, Sequences

CONSTANT MaxBytes  \* bound: the number of bytes that are written

VARIABLES
    written,  \* the number of bytes the writer handed to its socket
    got,      \* the bytes the reader took from its socket
    closed,   \* the writer closed its socket
    eof       \* the reader was told about it

vars == <<written, got, closed, eof>>

Init ==
    /\ written = 0
    /\ got = <<>>
    /\ closed = FALSE
    /\ eof = FALSE

Write ==
    /\ ~closed
    /\ \E n \in 1..(MaxBytes - written) : written' = written + n
    /\ UNCHANGED <<got, closed, eof>>

Read ==
    /\ ~eof
    /\ \E n \in 1..(written - Len(got)) :
            got' = got \o [i \in 1..n |-> Len(got) + i]
    /\ UNCHANGED <<written, closed, eof>>

Close ==
    /\ ~closed
    /\ closed' = TRUE
    /\ UNCHANGED <<written, got, eof>>

Eof ==
    /\ closed
    /\ ~eof
    /\ Len(got) = written
    /\ eof' = TRUE
    /\ UNCHANGED <<written, got, closed>>

Next == Write \/ Read \/ Close \/ Eof

Spec == Init /\ [][Next]_vars

=============================================================================

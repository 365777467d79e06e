---------------------------- MODULE MCQuicStream ----------------------------
(* Instances of QuicStream for TLC. *)
EXTENDS QuicStream

\* More bytes on s1 than either window admits at once; the window that is left
\* of the session is what s2 needs.
MCBytes == [s1 |-> 3, s2 |-> 1]
=============================================================================

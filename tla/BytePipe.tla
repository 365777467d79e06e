------------------------------ MODULE BytePipe ------------------------------
(***************************************************************************)
(* What one direction of a forwarded connection, or of a QUIC stream,      *)
(* promises: the units that come out are those that went in, in that order,*)
(* without a gap.  The n-th unit that goes in is the number n.             *)
(***************************************************************************)
EXTENDS Integers, Sequences

VARIABLES sent,   \* how many units went in
          got     \* the units that came out

Init == sent = 0 /\ got = <<>>

Put == sent' > sent /\ UNCHANGED got

Get == /\ Len(got') > Len(got) /\ Len(got') <= sent
       /\ got' = [i \in 1..Len(got') |-> i]
       /\ UNCHANGED sent

Next == [Put \/ Get]_<<sent, got>>

Spec == Init /\ [][Next]_<<sent, got>>
=============================================================================

--------------------------- MODULE MCTransmitter ---------------------------
(* Instances of Transmitter for TLC. *)
EXTENDS Transmitter

MCFlow == {"zero", "f1"}
MCSrc == [zero |-> 0, f1 |-> 1]
MCDst == [zero |-> 0, f1 |-> 1]
=============================================================================

---------------------------- MODULE MCForwarding ----------------------------
(***************************************************************************)
(* Instances of Forwarding for TLC: who sends, and how much.               *)
(***************************************************************************)
EXTENDS Forwarding

BothSend == [src |-> 2, dst |-> 2]
MostlySource == [src |-> 2, dst |-> 1]
OnlySource == [src |-> 2, dst |-> 0]
=============================================================================

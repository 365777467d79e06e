------------------------- MODULE MCPacketScheduler -------------------------
(* An instance of PacketScheduler for TLC: without Multi_streams every packet
   has the empty flow. *)
EXTENDS PacketScheduler

OneFlow == {"zero"}
OneSrc == [zero |-> 0]
OneDst == [zero |-> 0]
=============================================================================

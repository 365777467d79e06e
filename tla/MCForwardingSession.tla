------------------------ MODULE MCForwardingSession ------------------------
(* Instances of ForwardingSession for TLC. *)
EXTENDS ForwardingSession
=============================================================================

----------------------------- MODULE PacketPool -----------------------------
(***************************************************************************)
(* What a carrier of packets promises and no more: a packet put in comes   *)
(* out at most once, nothing else ever comes out, and the order is free.   *)
(* LosslessSpec is the promise of the send queue of a VPN endpoint         *)
(* (PacketScheduler); Spec, which may also lose packets, is that of the    *)
(* whole one-way tunnel (Transmitter): the service IP gives.               *)
(***************************************************************************)
EXTENDS Sequences

CONSTANT Packet

VARIABLES pending,     \* put in, not yet out
          delivered,   \* come out, in that order
          lost         \* will never come out

poolVars == <<pending, delivered, lost>>

Init == pending = {} /\ delivered = <<>> /\ lost = {}

Put(p) == /\ p \notin pending \cup lost /\ \A i \in DOMAIN delivered : delivered[i] # p
          /\ pending' = pending \cup {p}
          /\ UNCHANGED <<delivered, lost>>

Take(p) == /\ p \in pending
           /\ pending' = pending \ {p}
           /\ delivered' = Append(delivered, p)
           /\ UNCHANGED lost

Lose(P) == /\ P \subseteq pending
           /\ pending' = pending \ P
           /\ lost' = lost \cup P
           /\ UNCHANGED delivered

LosslessNext == \E p \in Packet : Put(p) \/ Take(p)
Next == LosslessNext \/ \E P \in SUBSET pending : Lose(P)

LosslessSpec == Init /\ [][LosslessNext]_poolVars
Spec == Init /\ [][Next]_poolVars
=============================================================================

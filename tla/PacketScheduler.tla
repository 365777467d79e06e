-------------------------- MODULE PacketScheduler --------------------------
(***************************************************************************)
(* The send queue of a VPN endpoint (quic_vpn/internal/transmitter.go):    *)
(* the goroutine ListenTun puts packets into the bounded Go channel        *)
(* toSendQueue; the goroutine SchedulePackets, its only consumer, pops     *)
(* one, drains the rest into workingSlice, sorts it by one endpoint of the *)
(* flow, hands the first packet to sendPacket and puts the others back at  *)
(* the END of the channel, one channel send at a time, while ListenTun goes *)
(* on enqueueing.                                                          *)
(*                                                                         *)
(* A packet is the record of the Go type toSend: its flow, and its arrival *)
(* number instead of its bytes.  What happens inside sendPacket is in the  *)
(* module Transmitter, which composes the actions of this one.             *)
(***************************************************************************)
EXTENDS SchedState, Sequences, Functions

schedVars == <<toSendQueue, workingSlice, n, spc, enqueued, handed, atEnqueue>>

Id == 1..MaxPackets
Packet == [flow : Flow, id : Id]

\* The ids in a sequence of packets.
Ids(s) == {s[i].id : i \in DOMAIN s}

\* The endpoint the packets are sorted by: the one on the side of the VPN's
\* client, that is the source of what a client sends and the destination of
\* what a server sends.
Key(f) == IF Mode = "client" THEN Src[f] ELSE Dst[f]
-----------------------------------------------------------------------------
\* Variants for mutation: sort.Slice, which is not stable; the comparison the
\* wrong way round.
IsStableSort_anyOrder(s, pi) ==
  \A i, j \in 1..Len(s) : i < j => Key(s[pi[i]].flow) <= Key(s[pi[j]].flow)

IsStableSort_descending(s, pi) ==
  \A i, j \in 1..Len(s) : i < j =>
    \/ Key(s[pi[i]].flow) > Key(s[pi[j]].flow)
    \/ Key(s[pi[i]].flow) = Key(s[pi[j]].flow) /\ pi[i] < pi[j]

\* sort.SliceStable with the two comparisons of SchedulePackets: pi[k] is the
\* position in s of the packet that ends up k-th.
IsStableSort(s, pi) ==
  \A i, j \in 1..Len(s) : i < j =>
    \/ Key(s[pi[i]].flow) < Key(s[pi[j]].flow)
    \/ Key(s[pi[i]].flow) = Key(s[pi[j]].flow) /\ pi[i] < pi[j]

\* What SchedulePackets has taken out of the channel, or is about to in the
\* drain loop it is in, and will put back behind a packet enqueued now.
Held == IF spc \in {"pop", "len"} THEN {}
        ELSE Ids(workingSlice) \cup {toSendQueue[i].id : i \in 1..n}
-----------------------------------------------------------------------------
Init == /\ toSendQueue = <<>>
        /\ workingSlice = <<>>
        /\ n = 0
        /\ spc = "pop"
        /\ enqueued = 0
        /\ handed = <<>>
        /\ atEnqueue = [i \in Id |-> [flow |-> CHOOSE f \in Flow : TRUE,
                                    held |-> {}, handed |-> 0]]

\* ListenTun's last step, the send on the channel: it waits for room.
ListenTun_enqueue(f) ==
  /\ enqueued < MaxPackets
  /\ Len(toSendQueue) < QueueCap
  /\ toSendQueue' = Append(toSendQueue, [flow |-> f, id |-> enqueued + 1])
  /\ enqueued' = enqueued + 1
  /\ atEnqueue' = [atEnqueue EXCEPT ![enqueued + 1] =
                     [flow |-> f, held |-> Held, handed |-> Len(handed)]]
  /\ UNCHANGED <<workingSlice, n, spc, handed>>

SchedulePackets_pop ==
  /\ spc = "pop"
  /\ toSendQueue # <<>>
  /\ workingSlice' = <<Head(toSendQueue)>>
  /\ toSendQueue' = Tail(toSendQueue)
  /\ spc' = "len"
  /\ UNCHANGED <<n, enqueued, handed, atEnqueue>>

\* len(toSendQueue) is 0: the packet popped is sent alone.
SchedulePackets_alone ==
  /\ spc = "len"
  /\ toSendQueue = <<>>
  /\ spc' = "send"
  /\ UNCHANGED <<toSendQueue, workingSlice, n, enqueued, handed, atEnqueue>>

\* Variant for mutation: the drain loop makes one receive too many.
SchedulePackets_len_oneMore ==
  /\ spc = "len"
  /\ toSendQueue # <<>>
  /\ n' = Len(toSendQueue) + 1
  /\ spc' = "drain"
  /\ UNCHANGED <<toSendQueue, workingSlice, enqueued, handed, atEnqueue>>

\* It is not 0: its value, read a second time, is the number of receives of
\* the drain loop.  What ListenTun adds later is not part of the batch.
SchedulePackets_len ==
  /\ spc = "len"
  /\ toSendQueue # <<>>
  /\ n' = Len(toSendQueue)
  /\ spc' = "drain"
  /\ UNCHANGED <<toSendQueue, workingSlice, enqueued, handed, atEnqueue>>

\* One receive of the drain loop; after the last, the slice is sorted.
SchedulePackets_drain ==
  /\ spc = "drain"
  /\ toSendQueue # <<>>
  /\ workingSlice' = Append(workingSlice, Head(toSendQueue))
  /\ toSendQueue' = Tail(toSendQueue)
  /\ n' = n - 1
  /\ spc' = IF n = 1 THEN "sort" ELSE "drain"
  /\ UNCHANGED <<enqueued, handed, atEnqueue>>

SchedulePackets_sort ==
  /\ spc = "sort"
  /\ \E pi \in Bijection(1..Len(workingSlice), 1..Len(workingSlice)) :
       /\ IsStableSort(workingSlice, pi)
       /\ workingSlice' = [k \in 1..Len(workingSlice) |-> workingSlice[pi[k]]]
  /\ spc' = "send"
  /\ UNCHANGED <<toSendQueue, n, enqueued, handed, atEnqueue>>

SchedulePackets_sent_forget ==
  /\ spc = "send"
  /\ handed' = Append(handed, Head(workingSlice))
  /\ workingSlice' = <<>>
  /\ spc' = "pop"
  /\ UNCHANGED <<toSendQueue, n, enqueued, atEnqueue>>

\* sendPacket(workingSlice[0]) returns, or sendPacket(top) when it was alone.
SchedulePackets_sent ==
  /\ spc = "send"
  /\ handed' = Append(handed, Head(workingSlice))
  /\ workingSlice' = Tail(workingSlice)
  /\ spc' = IF Len(workingSlice) = 1 THEN "pop" ELSE "requeue"
  /\ UNCHANGED <<toSendQueue, n, enqueued, atEnqueue>>

\* One channel send of the loop that puts the rest back: it waits for room,
\* and no other goroutine makes any.
SchedulePackets_requeue ==
  /\ spc = "requeue"
  /\ Len(toSendQueue) < QueueCap
  /\ toSendQueue' = Append(toSendQueue, Head(workingSlice))
  /\ workingSlice' = Tail(workingSlice)
  /\ spc' = IF Len(workingSlice) = 1 THEN "pop" ELSE "requeue"
  /\ UNCHANGED <<n, enqueued, handed, atEnqueue>>

SchedulePackets ==
  \/ SchedulePackets_pop
  \/ SchedulePackets_alone
  \/ SchedulePackets_len
  \/ SchedulePackets_drain
  \/ SchedulePackets_sort
  \/ SchedulePackets_sent
  \/ SchedulePackets_requeue

Next == (\E f \in Flow : ListenTun_enqueue(f)) \/ SchedulePackets

Spec == Init /\ [][Next]_schedVars

\* The Go runtime runs a goroutine that can go on; the arrival of packets is
\* up to the network.
FairSpec == Spec /\ WF_schedVars(SchedulePackets)
-----------------------------------------------------------------------------
(* What holds of it.                                                       *)

\* The type of the variables; workingSlice is never larger than the channel
\* and the packet popped first (the make([]toSend, n+1) of SchedulePackets).
TypeOK ==
  /\ toSendQueue \in Seq(Packet) /\ Len(toSendQueue) <= QueueCap
  /\ workingSlice \in Seq(Packet) /\ Len(workingSlice) + n <= QueueCap + 1
  /\ n \in 0..QueueCap
  /\ spc \in {"pop", "len", "drain", "sort", "send", "requeue"}
  /\ enqueued \in 0..MaxPackets
  /\ handed \in Seq(Packet)
  /\ atEnqueue \in [Id -> [flow : Flow, held : SUBSET Id, handed : Nat]]

\* The receive of the drain loop (transmitter.go:68) never waits: however
\* ListenTun interleaves with it, the channel still holds the n packets that
\* len() reported, although the length was read before the receives.
DrainFindsPackets == spc = "drain" => n \in 1..Len(toSendQueue)

\* SchedulePackets loses and duplicates nothing while it moves packets from
\* the channel to the slice, sorts them and puts them back: every packet
\* enqueued is in exactly one place, once.
NoIdTwice(s) == \A i, j \in DOMAIN s : s[i].id = s[j].id => i = j

EachPacketOnce ==
  /\ NoIdTwice(toSendQueue)
  /\ NoIdTwice(workingSlice)
  /\ NoIdTwice(handed)
  /\ Ids(toSendQueue) \cap Ids(workingSlice) = {}
  /\ Ids(toSendQueue) \cap Ids(handed) = {}
  /\ Ids(workingSlice) \cap Ids(handed) = {}
  /\ Ids(toSendQueue) \cup Ids(workingSlice) \cup Ids(handed) = 1..enqueued

\* Packets of one flow leave in the order they came, as the comment
\* "important to be stable to avoid reordering" wants (transmitter.go:71).
\* The code does NOT have this property: see the run order_broken.
FlowOrder ==
  \A i, j \in DOMAIN handed :
    i < j /\ handed[i].flow = handed[j].flow => handed[i].id < handed[j].id

\* The only way a packet q overtakes an earlier packet p of its flow: q was
\* enqueued while SchedulePackets held p (or had counted it in len()), to put
\* it back behind q.  The stable sort and the channel never reorder a flow.
OvertakenOnlyWhenHeld ==
  \A j \in DOMAIN handed : \A p \in 1..(handed[j].id - 1) :
    /\ atEnqueue[p].flow = handed[j].flow
    /\ p \notin {handed[i].id : i \in 1..j}
    => p \in atEnqueue[handed[j].id].held

\* "sort to prioritize" (transmitter.go:71): from the moment a packet is in
\* the channel, at most one packet of a flow with a larger endpoint is still
\* sent before it: the one SchedulePackets had already chosen.
InversionBounded ==
  \A p \in 1..enqueued :
    Cardinality({j \in DOMAIN handed :
                   /\ j > atEnqueue[p].handed
                   /\ p \notin {handed[i].id : i \in 1..j}
                   /\ Key(handed[j].flow) > Key(atEnqueue[p].flow)}) <= 1

\* SchedulePackets holds a packet and the channel is full again: it waits for
\* room that only SchedulePackets itself could make.
Wedged == spc = "requeue" /\ Len(toSendQueue) = QueueCap

\* The send path implements the lossless pool of packets.
Pool == INSTANCE PacketPool WITH
          Packet <- Id,
          pending <- Ids(toSendQueue) \cup Ids(workingSlice),
          delivered <- [i \in DOMAIN handed |-> handed[i].id],
          lost <- {}
PoolSpec == Pool!LosslessSpec
=============================================================================

---------------------------- MODULE Tunnel_proofs ----------------------------
(***************************************************************************)
(* Proof that the one-way tunnel (Transmitter, here T) is the carrier of   *)
(* packets IP expects, for every number of packets, set of flows, stream   *)
(* limit and window, and whatever fails: each packet comes out at most     *)
(* once, and only packets that went in do.                                 *)
(*                                                                         *)
(* The send queue of T is the one PacketScheduler_proofs is about, over    *)
(* the same variables, so that its lemmas are used here as they stand.     *)
(*                                                                         *)
(* At the end, that sendPacket leaves a right checksum in the headers it   *)
(* marks (IpPacket).                                                       *)
(***************************************************************************)
EXTENDS PacketScheduler_proofs, MCTunnel, WellFoundedInduction

(* The steps of T on the send queue are steps of PacketScheduler. *)

\* What SchedulePackets does outside sendPacket.
LEMMA StepIsSchedulePackets ==
  T!SchedulePackets_step => SchedulePackets /\ ~SchedulePackets_sent
BY DEF T!SchedulePackets_step, SchedulePackets, SchedulePackets_sent,
   T!S!SchedulePackets_pop, SchedulePackets_pop,
   T!S!SchedulePackets_alone, SchedulePackets_alone,
   T!S!SchedulePackets_len, SchedulePackets_len,
   T!S!SchedulePackets_drain, SchedulePackets_drain,
   T!S!SchedulePackets_sort, SchedulePackets_sort,
   T!S!SchedulePackets_requeue, SchedulePackets_requeue,
   T!S!IsStableSort, IsStableSort, T!S!Key, Key, T!S!Bijection, Bijection,
   T!S!Injection, Injection, T!S!Surjection, Surjection,
   T!S!IsInjective, IsInjective

\* The return of sendPacket.
LEMMA SentIsSent == T!S!SchedulePackets_sent => SchedulePackets_sent
BY DEF T!S!SchedulePackets_sent, SchedulePackets_sent

\* The enqueue of ListenTun.
LEMMA EnqueueIsEnqueue ==
  ASSUME NEW f, T!S!ListenTun_enqueue(f)
  PROVE  ListenTun_enqueue(f)
BY DEF T!S!ListenTun_enqueue, ListenTun_enqueue, T!S!Held, Held, T!S!Ids, Ids

\* The send queue is the same in both.
LEMMA InitIsInit == T!Init => Init
BY DEF T!Init, T!S!Init, Init, T!S!Id, Id

\* What a step of T does to the send queue.
QueueStep ==
  \/ T!ListenTun_enqueue /\ ListenTun_enqueue(tflow)
  \/ T!SchedulePackets_step /\ SchedulePackets /\ ~SchedulePackets_sent
  \/ T!sendPacket_noStream /\ SchedulePackets_sent
  \/ T!sendPacket_written /\ SchedulePackets_sent
  \/ T!sendPacket_writeFails /\ SchedulePackets_sent
  \/ UNCHANGED schedVars

\* Every step of T is one of these.
LEMMA NextQueueStep == T!Next => QueueStep
<1> USE DEF T!schedVars, schedVars
<1>1. T!ListenTun => QueueStep
  <2>1. T!ListenTun_enqueue => QueueStep
    BY EnqueueIsEnqueue DEF T!ListenTun_enqueue, QueueStep
  <2>2. T!ListenTun /\ ~T!ListenTun_enqueue => UNCHANGED schedVars
    BY DEF T!ListenTun, T!ListenTun_read, T!ListenTun_readFails, T!ListenTun_lookup,
       T!ListenTun_open, T!ListenTun_storeStream, T!ListenTun_storeTime
  <2> QED BY <2>1, <2>2 DEF QueueStep
<1>2. T!SchedulePackets => QueueStep
  <2>1. T!SchedulePackets_step => QueueStep
    BY StepIsSchedulePackets DEF QueueStep
  <2>2. T!sendPacket_load \/ T!sendPacket_write => QueueStep
    BY DEF T!sendPacket_load, T!sendPacket_write, QueueStep
  <2>3. T!sendPacket_noStream => SchedulePackets_sent
    BY SentIsSent DEF T!sendPacket_noStream
  <2>4. T!sendPacket_written => SchedulePackets_sent
    BY SentIsSent DEF T!sendPacket_written
  <2>5. T!sendPacket_writeFails => SchedulePackets_sent
    BY SentIsSent DEF T!sendPacket_writeFails
  <2> QED BY <2>1, <2>2, <2>3, <2>4, <2>5 DEF T!SchedulePackets, QueueStep
<1>3. T!CollectUnused => UNCHANGED schedVars
  BY DEF T!CollectUnused, T!CollectUnused_return, T!CollectUnused_scan,
     T!CollectUnused_close, T!CollectUnused_noStream, T!CollectUnused_read,
     T!CollectUnused_deleteStream, T!CollectUnused_deleteTime
<1>4. (\E f \in Flow : T!InactivityTimeout(f)) \/ T!ListenNet_accept
        \/ (\E e \in T!Endpoint : T!ListenNet_fails(e)) => UNCHANGED schedVars
  BY DEF T!InactivityTimeout, T!ListenNet_accept, T!ListenNet_fails
<1>5. (\E s \in T!Stream : T!HandleStream(s)) => UNCHANGED schedVars
  BY DEF T!HandleStream, T!ListenNet_handleStream_recv, T!ListenNet_handleStream_write,
     T!ListenNet_handleStream_eof, T!ListenNet_handleStream_fails
<1>6. T!WaitOutput => UNCHANGED schedVars
  BY DEF T!WaitOutput, T!LastError_ListenTun, T!LastError_CollectUnused,
     T!LastError_ListenNet, T!LastError_handleStream
<1>7. (\E e \in T!Endpoint : T!SessionFails(e) \/ T!SessionFollows(e)) => UNCHANGED schedVars
  BY DEF T!SessionFails, T!SessionFollows, T!SessionEnds
<1> QED BY <1>1, <1>2, <1>3, <1>4, <1>5, <1>6, <1>7 DEF T!Next, QueueStep

\* The invariant of the send queue holds in the tunnel.
LEMMA NextOnce ==
  ASSUME OnceInv, tflow \in Flow, T!Next
  PROVE  OnceInv'
<1>1. [Next]_schedVars
  BY NextQueueStep DEF QueueStep, Next, SchedulePackets
<1> QED BY <1>1, NextOnceInv
-----------------------------------------------------------------------------
(* What each goroutine leaves alone. *)

\* ListenTun has its flow and stream, the maps and the send queue.
LEMMA ListenTunFrame ==
  ASSUME T!ListenTun
  PROVE  /\ cpc' = cpc /\ cflow' = cflow /\ ppc' = ppc /\ pstream' = pstream
         /\ streams' = streams /\ npc' = npc /\ naccepted' = naccepted
         /\ hpc' = hpc /\ hpacket' = hpacket /\ up' = up /\ waiting' = waiting
         /\ alive' = alive /\ delivered' = delivered /\ lost' = lost
BY DEF T!ListenTun, T!ListenTun_read, T!ListenTun_readFails, T!ListenTun_lookup,
   T!ListenTun_open, T!ListenTun_storeStream, T!ListenTun_storeTime,
   T!ListenTun_enqueue, T!collectVars, T!sendVars, T!streamVars, T!recvVars,
   T!endVars, T!histVars

\* SchedulePackets has the send queue, and writes to streams.
LEMMA SchedulePacketsFrame ==
  ASSUME T!SchedulePackets
  PROVE  /\ tpc' = tpc /\ tflow' = tflow /\ tstream' = tstream
         /\ cpc' = cpc /\ cflow' = cflow
         /\ mapInteraction' = mapInteraction /\ mapQuicStream' = mapQuicStream
         /\ nopen' = nopen /\ npc' = npc /\ naccepted' = naccepted
         /\ hpc' = hpc /\ hpacket' = hpacket /\ up' = up /\ waiting' = waiting
         /\ alive' = alive /\ delivered' = delivered
BY DEF T!SchedulePackets, T!SchedulePackets_step, T!sendPacket_load,
   T!sendPacket_noStream, T!sendPacket_write, T!sendPacket_written,
   T!sendPacket_writeFails, T!tunVars, T!collectVars, T!mapVars, T!streamVars,
   T!recvVars, T!endVars, T!histVars

\* CollectUnused has the maps, and closes streams.
LEMMA CollectUnusedFrame ==
  ASSUME T!CollectUnused
  PROVE  /\ tpc' = tpc /\ tflow' = tflow /\ tstream' = tstream
         /\ ppc' = ppc /\ pstream' = pstream
         /\ nopen' = nopen /\ npc' = npc /\ naccepted' = naccepted
         /\ hpc' = hpc /\ hpacket' = hpacket /\ up' = up /\ waiting' = waiting
         /\ alive' = alive /\ delivered' = delivered /\ lost' = lost
         /\ UNCHANGED schedVars
BY DEF T!CollectUnused, T!CollectUnused_return, T!CollectUnused_scan,
   T!CollectUnused_close, T!CollectUnused_noStream, T!CollectUnused_read,
   T!CollectUnused_deleteStream, T!CollectUnused_deleteTime, T!schedVars, schedVars,
   T!tunVars, T!sendVars, T!mapVars, T!streamVars, T!recvVars, T!endVars, T!histVars

\* Time passes for mapInteraction only.
LEMMA InactivityTimeoutFrame ==
  ASSUME NEW f, T!InactivityTimeout(f)
  PROVE  /\ tpc' = tpc /\ tflow' = tflow /\ tstream' = tstream
         /\ cpc' = cpc /\ cflow' = cflow /\ ppc' = ppc /\ pstream' = pstream
         /\ mapQuicStream' = mapQuicStream /\ nopen' = nopen /\ streams' = streams
         /\ npc' = npc /\ naccepted' = naccepted
         /\ hpc' = hpc /\ hpacket' = hpacket /\ up' = up /\ waiting' = waiting
         /\ alive' = alive /\ delivered' = delivered /\ lost' = lost
         /\ UNCHANGED schedVars
BY DEF T!InactivityTimeout, T!schedVars, schedVars, T!tunVars, T!collectVars,
   T!sendVars, T!streamVars, T!recvVars, T!endVars, T!histVars

Receive ==
  \/ T!ListenNet_accept
  \/ \E e \in T!Endpoint : T!ListenNet_fails(e)
  \/ \E s \in T!Stream : T!HandleStream(s)

\* ListenNet and its handlers have the streams and what is delivered.
LEMMA ReceiveFrame ==
  ASSUME Receive
  PROVE  /\ tpc' = tpc /\ tflow' = tflow /\ tstream' = tstream
         /\ cpc' = cpc /\ cflow' = cflow /\ ppc' = ppc /\ pstream' = pstream
         /\ mapInteraction' = mapInteraction /\ mapQuicStream' = mapQuicStream
         /\ nopen' = nopen /\ up' = up /\ waiting' = waiting /\ alive' = alive
         /\ lost' = lost /\ UNCHANGED schedVars
BY DEF Receive, T!ListenNet_accept, T!ListenNet_fails, T!HandleStream,
   T!ListenNet_handleStream_recv, T!ListenNet_handleStream_write,
   T!ListenNet_handleStream_eof, T!ListenNet_handleStream_fails, T!schedVars,
   schedVars, T!tunVars, T!collectVars, T!sendVars, T!mapVars, T!streamVars,
   T!endVars, T!histVars

\* WaitOutput has the goroutines that report an error.
LEMMA WaitOutputFrame ==
  ASSUME T!WaitOutput
  PROVE  /\ tflow' = tflow /\ tstream' = tstream
         /\ cflow' = cflow /\ ppc' = ppc /\ pstream' = pstream
         /\ mapInteraction' = mapInteraction /\ mapQuicStream' = mapQuicStream
         /\ nopen' = nopen /\ streams' = streams /\ naccepted' = naccepted
         /\ hpacket' = hpacket /\ up' = up
         /\ delivered' = delivered /\ lost' = lost /\ UNCHANGED schedVars
BY DEF T!WaitOutput, T!LastError_ListenTun, T!LastError_CollectUnused,
   T!LastError_ListenNet, T!LastError_handleStream, T!schedVars, schedVars,
   T!tunVars, T!collectVars, T!sendVars, T!mapVars, T!streamVars, T!recvVars,
   T!histVars

SessionStep == \E e \in T!Endpoint : T!SessionFails(e) \/ T!SessionFollows(e)

\* The session has what is on the streams.
LEMMA SessionFrame ==
  ASSUME SessionStep
  PROVE  /\ tpc' = tpc /\ tflow' = tflow /\ tstream' = tstream
         /\ cpc' = cpc /\ cflow' = cflow /\ ppc' = ppc /\ pstream' = pstream
         /\ mapInteraction' = mapInteraction /\ mapQuicStream' = mapQuicStream
         /\ nopen' = nopen /\ npc' = npc /\ naccepted' = naccepted
         /\ hpc' = hpc /\ hpacket' = hpacket /\ waiting' = waiting
         /\ alive' = alive /\ delivered' = delivered /\ UNCHANGED schedVars
BY DEF SessionStep, T!SessionFails, T!SessionFollows, T!SessionEnds, T!schedVars,
   schedVars, T!tunVars, T!collectVars, T!sendVars, T!mapVars, T!recvVars

\* The steps of T, by goroutine.
LEMMA NextCases ==
  T!Next <=> \/ T!ListenTun \/ T!SchedulePackets \/ T!CollectUnused
             \/ \E f \in Flow : T!InactivityTimeout(f)
             \/ Receive \/ T!WaitOutput \/ SessionStep
BY DEF T!Next, Receive, SessionStep
-----------------------------------------------------------------------------
(* The types of the variables of T. *)

Stream == 1..MaxPackets
Endpoint == {"snd", "rcv"}
StreamState == [data : Seq(Id), fin : BOOLEAN, peerFin : BOOLEAN,
                finRead : BOOLEAN, cut : BOOLEAN]

\* ListenTun opens a stream for a packet it has read and not yet enqueued.
ListenTunTypes ==
  /\ tpc \in {"read", "lookup", "open", "storeStream", "storeTime", "enqueue",
              "report", "stopped"}
  /\ tflow \in Flow /\ tstream \in Stream \cup {0}
  /\ nopen \in 0..MaxPackets
  /\ tpc \in {"lookup", "open", "storeStream", "storeTime", "enqueue"} =>
       enqueued < MaxPackets
  /\ nopen <= enqueued + (IF tpc \in {"storeStream", "storeTime", "enqueue"} THEN 1 ELSE 0)

MapTypes ==
  /\ cpc \in {"scan", "load", "read", "deleteStream", "deleteTime", "report",
              "stopped"}
  /\ cflow \in Flow
  /\ mapInteraction \in [Flow -> {"none", "fresh", "old"}]
  /\ mapQuicStream \in [Flow -> Stream \cup {0}]

\* sendPacket is at work on the first packet of the slice.
SendTypes ==
  /\ ppc \in {"load", "write", "writing"} /\ pstream \in Stream \cup {0}
  /\ ppc # "load" => spc = "send" /\ pstream \in Stream

EndTypes ==
  /\ npc \in [Endpoint -> {"accept", "report", "stopped"}]
  /\ naccepted \in 0..nopen
  /\ hpc \in [Stream -> {"none", "recv", "write", "done", "report"}]
  /\ up \in [Endpoint -> BOOLEAN]
  /\ waiting \in [Endpoint -> BOOLEAN] /\ alive \in [Endpoint -> BOOLEAN]

\* hpacket is the packet between Recv and the Write to the tun interface.
PacketTypes ==
  /\ streams \in [Stream -> StreamState]
  /\ hpacket \in [Stream -> Id \cup {0}]
  /\ \A s \in Stream : hpacket[s] # 0 <=> hpc[s] = "write"
  /\ \A s \in Stream : s > naccepted => hpc[s] = "none"
  /\ delivered \in Seq(Id) /\ lost \in SUBSET Id

TunnelTypes == ListenTunTypes /\ MapTypes /\ SendTypes /\ EndTypes /\ PacketTypes

\* Every step keeps the types of what ListenTun has.
LEMMA NextListenTunTypes ==
  ASSUME OnceInv, ListenTunTypes, T!Next
  PROVE  ListenTunTypes'
<1>0. enqueued \in Nat /\ nopen \in Nat /\ MaxPackets \in Nat
  BY SchedAssumption DEF OnceInv, TypeInv, TypeOK, ListenTunTypes
<1>1. CASE UNCHANGED <<tpc, tflow, tstream, nopen, enqueued>>
  BY <1>1 DEF ListenTunTypes
<1>2. CASE T!ListenTun
  <2>1. CASE \E f \in Flow : T!ListenTun_read(f)
    BY <1>0, <2>1, TransmitterAssumption DEF T!ListenTun_read, ListenTunTypes, T!schedVars, T!streamVars
  <2>2. CASE T!ListenTun_readFails \/ T!ListenTun_lookup
    BY <1>0, <2>2 DEF T!ListenTun_readFails, T!ListenTun_lookup, ListenTunTypes,
       T!schedVars, T!streamVars
  <2>3. CASE T!ListenTun_open
    <3>1. /\ tpc = "open" /\ tflow' = tflow /\ enqueued' = enqueued
          /\ \/ tpc' = "storeStream" /\ nopen' = nopen + 1 /\ tstream' = nopen + 1
             \/ tpc' = "report" /\ nopen' = nopen /\ tstream' = tstream
      BY <2>3 DEF T!ListenTun_open, T!schedVars
    <3>2. nopen + 1 \in Stream
      BY <1>0, <3>1 DEF ListenTunTypes, Stream
    <3> QED BY <1>0, <3>1, <3>2 DEF ListenTunTypes
  <2>4. CASE T!ListenTun_storeStream \/ T!ListenTun_storeTime
    BY <1>0, <2>4 DEF T!ListenTun_storeStream, T!ListenTun_storeTime, ListenTunTypes,
       T!schedVars, T!streamVars, T!NoStream
  <2>5. CASE T!ListenTun_enqueue
    BY <1>0, <2>5 DEF T!ListenTun_enqueue, T!S!ListenTun_enqueue, ListenTunTypes,
       T!streamVars
  <2> QED BY <1>2, <2>1, <2>2, <2>3, <2>4, <2>5 DEF T!ListenTun
<1>3. CASE T!SchedulePackets
  <2>1. SchedulePackets \/ SchedulePackets_sent \/ UNCHANGED schedVars
    BY <1>3, StepIsSchedulePackets, SentIsSent DEF T!SchedulePackets, T!sendPacket_load,
       T!sendPacket_noStream, T!sendPacket_write, T!sendPacket_written,
       T!sendPacket_writeFails, T!schedVars, schedVars
  <2>2. enqueued' = enqueued
    BY <2>1 DEF SchedulePackets, SchedulePackets_sent, SchedulePackets_pop,
       SchedulePackets_alone, SchedulePackets_len, SchedulePackets_drain,
       SchedulePackets_sort, SchedulePackets_requeue, schedVars
  <2> QED BY <1>1, <1>3, <2>2, SchedulePacketsFrame
<1>4. CASE T!CollectUnused \/ Receive \/ SessionStep
  BY <1>1, <1>4, CollectUnusedFrame, ReceiveFrame, SessionFrame DEF schedVars
<1>5. CASE \E f \in Flow : T!InactivityTimeout(f)
  BY <1>1, <1>5, InactivityTimeoutFrame DEF schedVars
<1>6. CASE T!WaitOutput
  <2>1. tpc' = tpc \/ (tpc = "report" /\ tpc' = "stopped")
    BY <1>6 DEF T!WaitOutput, T!LastError_ListenTun, T!LastError_CollectUnused,
       T!LastError_ListenNet, T!LastError_handleStream, T!tunVars
  <2> QED BY <1>6, <2>1, WaitOutputFrame DEF ListenTunTypes, schedVars
<1> QED BY <1>2, <1>3, <1>4, <1>5, <1>6, NextCases

\* Every step keeps the types of the maps.
LEMMA NextMapTypes ==
  ASSUME ListenTunTypes, MapTypes, T!Next
  PROVE  MapTypes'
<1>1. CASE UNCHANGED <<cpc, cflow, mapInteraction, mapQuicStream>>
  BY <1>1 DEF MapTypes
<1>2. CASE T!ListenTun
  <2>1. cpc' = cpc /\ cflow' = cflow
    BY <1>2, ListenTunFrame
  <2>2. mapInteraction' \in {mapInteraction, [mapInteraction EXCEPT ![tflow] = "fresh"]}
    BY <1>2 DEF T!ListenTun, T!ListenTun_read, T!ListenTun_readFails, T!ListenTun_lookup,
       T!ListenTun_open, T!ListenTun_storeStream, T!ListenTun_storeTime,
       T!ListenTun_enqueue, T!mapVars
  <2>3. mapQuicStream' \in {mapQuicStream, [mapQuicStream EXCEPT ![tflow] = tstream]}
    BY <1>2 DEF T!ListenTun, T!ListenTun_read, T!ListenTun_readFails, T!ListenTun_lookup,
       T!ListenTun_open, T!ListenTun_storeStream, T!ListenTun_storeTime,
       T!ListenTun_enqueue, T!mapVars
  <2> QED BY <2>1, <2>2, <2>3 DEF MapTypes, ListenTunTypes
<1>3. CASE T!CollectUnused
  <2>1. /\ cpc' \in {"scan", "load", "read", "deleteStream", "deleteTime", "report",
                     "stopped"}
        /\ cflow' \in Flow
    BY <1>3 DEF T!CollectUnused, T!CollectUnused_return, T!CollectUnused_scan,
       T!CollectUnused_close, T!CollectUnused_noStream, T!CollectUnused_read,
       T!CollectUnused_deleteStream, T!CollectUnused_deleteTime, MapTypes
  <2>2. mapInteraction' \in {mapInteraction, [mapInteraction EXCEPT ![cflow] = "none"]}
    BY <1>3 DEF T!CollectUnused, T!CollectUnused_return, T!CollectUnused_scan,
       T!CollectUnused_close, T!CollectUnused_noStream, T!CollectUnused_read,
       T!CollectUnused_deleteStream, T!CollectUnused_deleteTime, T!mapVars
  <2>3. mapQuicStream' \in {mapQuicStream, [mapQuicStream EXCEPT ![cflow] = 0]}
    BY <1>3 DEF T!CollectUnused, T!CollectUnused_return, T!CollectUnused_scan,
       T!CollectUnused_close, T!CollectUnused_noStream, T!CollectUnused_read,
       T!CollectUnused_deleteStream, T!CollectUnused_deleteTime, T!mapVars, T!NoStream
  <2> QED BY <2>1, <2>2, <2>3 DEF MapTypes
<1>4. CASE T!SchedulePackets \/ Receive \/ SessionStep
  BY <1>1, <1>4, SchedulePacketsFrame, ReceiveFrame, SessionFrame
<1>5. CASE \E f \in Flow : T!InactivityTimeout(f)
  BY <1>5, InactivityTimeoutFrame DEF MapTypes, T!InactivityTimeout
<1>6. CASE T!WaitOutput
  <2>1. cpc' = cpc \/ cpc' = "scan"
    BY <1>6 DEF T!WaitOutput, T!LastError_ListenTun, T!LastError_CollectUnused,
       T!LastError_ListenNet, T!LastError_handleStream, T!collectVars
  <2> QED BY <1>6, <2>1, WaitOutputFrame DEF MapTypes
<1> QED BY <1>2, <1>3, <1>4, <1>5, <1>6, NextCases

\* Every step keeps the types of what SchedulePackets has.
LEMMA NextSendTypes ==
  ASSUME OnceInv, MapTypes, SendTypes, T!Next
  PROVE  SendTypes'
<1>1. CASE UNCHANGED <<ppc, pstream, spc>>
  BY <1>1 DEF SendTypes
<1>2. CASE T!ListenTun
  <2>1. spc' = spc
    BY <1>2 DEF T!ListenTun, T!ListenTun_read, T!ListenTun_readFails, T!ListenTun_lookup,
       T!ListenTun_open, T!ListenTun_storeStream, T!ListenTun_storeTime,
       T!ListenTun_enqueue, T!S!ListenTun_enqueue, T!schedVars
  <2> QED BY <1>1, <1>2, <2>1, ListenTunFrame
<1>3. CASE T!SchedulePackets
  <2>1. CASE T!SchedulePackets_step
    <3>1. spc # "send" /\ ppc' = ppc /\ pstream' = pstream
      BY <2>1 DEF T!SchedulePackets_step, T!sendVars, T!S!SchedulePackets_pop,
         T!S!SchedulePackets_alone, T!S!SchedulePackets_len, T!S!SchedulePackets_drain,
         T!S!SchedulePackets_sort, T!S!SchedulePackets_requeue
    <3> QED BY <3>1 DEF SendTypes
  <2>2. CASE T!sendPacket_load
    <3>1. /\ spc = "send" /\ spc' = spc /\ ppc' = "write"
          /\ pstream' = mapQuicStream[Head(workingSlice).flow] /\ pstream' # 0
      BY <2>2 DEF T!sendPacket_load, T!schedVars, T!NoStream
    <3>2. Head(workingSlice) \in Packet
      BY <3>1, TailFacts DEF OnceInv, TypeInv, TypeOK, PcInv
    <3>3. pstream' \in Stream
      BY <3>1, <3>2 DEF MapTypes, Packet
    <3> QED BY <3>1, <3>3 DEF SendTypes
  <2>3. CASE T!sendPacket_write
    BY <2>3 DEF T!sendPacket_write, T!schedVars, SendTypes
  <2>4. CASE T!sendPacket_noStream
    BY <2>4 DEF T!sendPacket_noStream, T!sendVars, SendTypes
  <2>5. CASE T!sendPacket_written \/ T!sendPacket_writeFails
    BY <2>5 DEF T!sendPacket_written, T!sendPacket_writeFails, SendTypes, T!NoStream
  <2> QED BY <1>3, <2>1, <2>2, <2>3, <2>4, <2>5 DEF T!SchedulePackets
<1>4. CASE T!CollectUnused \/ Receive \/ T!WaitOutput \/ SessionStep
  BY <1>1, <1>4, CollectUnusedFrame, ReceiveFrame, WaitOutputFrame, SessionFrame
  DEF schedVars
<1>5. CASE \E f \in Flow : T!InactivityTimeout(f)
  BY <1>1, <1>5, InactivityTimeoutFrame DEF schedVars
<1> QED BY <1>2, <1>3, <1>4, <1>5, NextCases

\* Every step keeps the types of the sessions and of the receiving end.
LEMMA NextEndTypes ==
  ASSUME ListenTunTypes, EndTypes, T!Next
  PROVE  EndTypes'
<1>0. /\ nopen \in Nat /\ naccepted \in Nat
      /\ T!Endpoint = Endpoint /\ T!Stream = Stream
  BY DEF ListenTunTypes, EndTypes, T!Endpoint, Endpoint, T!Stream, Stream
<1>1. CASE UNCHANGED <<nopen, npc, naccepted, hpc, up, waiting, alive>>
  BY <1>1 DEF EndTypes
<1>2. CASE T!ListenTun
  <2>1. nopen' = nopen \/ nopen' = nopen + 1
    BY <1>2 DEF T!ListenTun, T!ListenTun_read, T!ListenTun_readFails, T!ListenTun_lookup,
       T!ListenTun_open, T!ListenTun_storeStream, T!ListenTun_storeTime,
       T!ListenTun_enqueue, T!streamVars
  <2>2. naccepted' \in 0..nopen'
    BY <1>0, <1>2, <2>1, ListenTunFrame DEF EndTypes
  <2> QED BY <1>2, <2>2, ListenTunFrame DEF EndTypes
<1>3. CASE T!SchedulePackets \/ T!CollectUnused
  BY <1>1, <1>3, SchedulePacketsFrame, CollectUnusedFrame
<1>4. CASE \E f \in Flow : T!InactivityTimeout(f)
  BY <1>1, <1>4, InactivityTimeoutFrame
<1>5. CASE Receive
  <2>1. /\ npc' \in [Endpoint -> {"accept", "report", "stopped"}]
        /\ hpc' \in [Stream -> {"none", "recv", "write", "done", "report"}]
        /\ naccepted' \in 0..nopen
    BY <1>0, <1>5 DEF Receive, T!ListenNet_accept, T!ListenNet_fails, T!HandleStream,
       T!ListenNet_handleStream_recv, T!ListenNet_handleStream_write,
       T!ListenNet_handleStream_eof, T!ListenNet_handleStream_fails, EndTypes
  <2> QED BY <1>5, <2>1, ReceiveFrame DEF EndTypes
<1>6. CASE T!WaitOutput
  <2>1. /\ npc' \in [Endpoint -> {"accept", "report", "stopped"}]
        /\ hpc' \in [Stream -> {"none", "recv", "write", "done", "report"}]
        /\ \E e \in Endpoint : T!WaitOutput_return(e)
    BY <1>0, <1>6 DEF T!WaitOutput, T!LastError_ListenTun, T!LastError_CollectUnused,
       T!LastError_ListenNet, T!LastError_handleStream, T!recvVars, EndTypes, Endpoint
  <2>2. PICK e \in Endpoint : T!WaitOutput_return(e)
    BY <2>1
  <2>3. PICK b \in BOOLEAN : b = ~T!IsClient(e)
    OBVIOUS
  <2>4. alive' = [alive EXCEPT ![e] = b] /\ waiting' = [waiting EXCEPT ![e] = FALSE]
    BY <2>2, <2>3 DEF T!WaitOutput_return
  <2>5. alive' \in [Endpoint -> BOOLEAN] /\ waiting' \in [Endpoint -> BOOLEAN]
    BY <2>4 DEF EndTypes
  <2> QED BY <1>6, <2>1, <2>5, WaitOutputFrame DEF EndTypes
<1>7. CASE SessionStep
  <2>1. up' \in [Endpoint -> BOOLEAN]
    BY <1>0, <1>7 DEF SessionStep, T!SessionFails, T!SessionFollows, T!SessionEnds, EndTypes
  <2> QED BY <1>7, <2>1, SessionFrame DEF EndTypes
<1> QED BY <1>2, <1>3, <1>4, <1>5, <1>6, <1>7, NextCases
-----------------------------------------------------------------------------
(* The updates of the streams, and what they do to the packets on them. *)

\* Closing a stream or reading its end leaves its packets alone.
LEMMA SetFlag ==
  ASSUME streams \in [Stream -> StreamState], NEW x, NEW b \in BOOLEAN,
         \/ streams' = [streams EXCEPT ![x].fin = b]
         \/ streams' = [streams EXCEPT ![x].finRead = b]
         \/ streams' = [streams EXCEPT ![x].peerFin = b]
  PROVE  /\ streams' \in [Stream -> StreamState]
         /\ \A s \in Stream : streams'[s].data = streams[s].data
<1>1. CASE streams' = [streams EXCEPT ![x].fin = b]
  <2>1. \A s \in Stream : streams'[s] \in StreamState /\ streams'[s].data = streams[s].data
    BY <1>1 DEF StreamState
  <2> QED BY <1>1, <2>1
<1>2. CASE streams' = [streams EXCEPT ![x].finRead = b]
  <2>1. \A s \in Stream : streams'[s] \in StreamState /\ streams'[s].data = streams[s].data
    BY <1>2 DEF StreamState
  <2> QED BY <1>2, <2>1
<1>3. CASE streams' = [streams EXCEPT ![x].peerFin = b]
  <2>1. \A s \in Stream : streams'[s] \in StreamState /\ streams'[s].data = streams[s].data
    BY <1>3 DEF StreamState
  <2> QED BY <1>3, <2>1
<1> QED BY <1>1, <1>2, <1>3

\* A Write or a Recv changes the packets of one stream.
LEMMA SetData ==
  ASSUME streams \in [Stream -> StreamState], NEW s \in Stream, NEW d \in Seq(Id),
         streams' = [streams EXCEPT ![s].data = d]
  PROVE  /\ streams' \in [Stream -> StreamState]
         /\ streams'[s].data = d
         /\ \A r \in Stream : r # s => streams'[r].data = streams[r].data
BY DEF StreamState

\* What rcv may still read of a stream after the end of the session.
LEMMA PrefixFacts ==
  ASSUME NEW d \in Seq(Id), NEW k \in Nat, k <= Len(d)
  PROVE  /\ SubSeq(d, 1, k) \in Seq(Id) /\ Len(SubSeq(d, 1, k)) = k
         /\ \A i \in 1..k : SubSeq(d, 1, k)[i] = d[i]
<1>1. Len(d) \in Nat /\ d \in [1..Len(d) -> Id]
  BY LenProperties
<1>2. \A i \in 1..k : d[i] \in Id
  BY <1>1
<1>3. PICK m \in Int : m = 1
  OBVIOUS
<1>4. /\ SubSeq(d, m, k) \in Seq(Id)
      /\ Len(SubSeq(d, m, k)) = IF m <= k THEN k - m + 1 ELSE 0
      /\ \A i \in 1..k - m + 1 : SubSeq(d, m, k)[i] = d[m + i - 1]
  BY <1>2, <1>3, SubSeqProperties
<1> QED BY <1>3, <1>4
-----------------------------------------------------------------------------
(* Where a packet is that sendPacket has finished with: on a stream, in the  *)
(* hands of the goroutine that reads it, out or lost; in one place, once.    *)

OnStream(s) == {streams[s].data[i] : i \in 1..Len(streams[s].data)}
OnStreams == UNION {OnStream(s) : s \in Stream}
InHands == {hpacket[s] : s \in Stream} \ {0}
Out == {delivered[i] : i \in 1..Len(delivered)}

OnceOnStreams ==
  \A s, r \in Stream :
    \A i \in 1..Len(streams[s].data), j \in 1..Len(streams[r].data) :
      streams[s].data[i] = streams[r].data[j] => s = r /\ i = j

OnceInHands == \A s, r \in Stream : hpacket[s] # 0 /\ hpacket[s] = hpacket[r] => s = r

CarriedInv ==
  /\ OnStreams \subseteq Ids(handed) /\ InHands \subseteq Ids(handed)
  /\ Out \subseteq Ids(handed) /\ lost \subseteq Ids(handed)
  /\ OnStreams \cap InHands = {}
  /\ OnceOnStreams /\ OnceInHands

\* Nothing moves downstream of sendPacket.
LEMMA NothingMoves ==
  ASSUME \A s \in Stream : streams'[s].data = streams[s].data, hpacket' = hpacket
  PROVE  /\ OnStreams' = OnStreams /\ InHands' = InHands
         /\ OnceOnStreams => OnceOnStreams'
         /\ OnceInHands => OnceInHands'
<1>1. OnStreams' = OnStreams
  <2>1. \A s \in Stream : OnStream(s)' = OnStream(s)
    BY DEF OnStream
  <2> QED BY <2>1 DEF OnStreams
<1>2. InHands' = InHands /\ (OnceInHands => OnceInHands')
  BY DEF InHands, OnceInHands
<1>3. OnceOnStreams => OnceOnStreams'
  BY DEF OnceOnStreams
<1> QED BY <1>1, <1>2, <1>3

\* sendPacket has written packet p to stream s.
LEMMA PacketWritten ==
  ASSUME streams \in [Stream -> StreamState], NEW s \in Stream, NEW p \in Id,
         OnceOnStreams, p \notin OnStreams,
         streams' = [streams EXCEPT ![s].data = Append(streams[s].data, p)]
  PROVE  /\ streams' \in [Stream -> StreamState]
         /\ OnStreams' = OnStreams \cup {p}
         /\ OnceOnStreams'
<1>1. PICK d : d = streams[s].data
  OBVIOUS
<1>2. d \in Seq(Id)
  BY <1>1 DEF StreamState
<1>3. PICK e : e = Append(d, p)
  OBVIOUS
<1>4. /\ e \in Seq(Id) /\ Len(e) = Len(d) + 1 /\ Len(d) \in Nat
      /\ \A i \in 1..Len(d) : e[i] = d[i]
      /\ e[Len(d) + 1] = p
  BY <1>2, <1>3, AppendProperties, LenProperties
<1>5. /\ streams' \in [Stream -> StreamState] /\ streams'[s].data = e
      /\ \A r \in Stream : r # s => streams'[r].data = streams[r].data
  BY <1>1, <1>3, <1>4, SetData
<1>6. \A i \in 1..Len(e) : i \in 1..Len(d) \/ i = Len(d) + 1
  BY <1>4
<1>7. /\ OnStream(s)' = OnStream(s) \cup {p}
      /\ \A r \in Stream : r # s => OnStream(r)' = OnStream(r)
  <2>1. {e[i] : i \in 1..Len(e)} = {d[i] : i \in 1..Len(d)} \cup {p}
    <3>1. 1..Len(d) \subseteq 1..Len(e) /\ Len(d) + 1 \in 1..Len(e)
      BY <1>4
    <3> QED BY <1>4, <1>6, <3>1
  <2>2. OnStream(s)' = {e[i] : i \in 1..Len(e)} /\ OnStream(s) = {d[i] : i \in 1..Len(d)}
    BY <1>1, <1>5 DEF OnStream
  <2>3. \A r \in Stream : r # s => OnStream(r)' = OnStream(r)
    BY <1>5 DEF OnStream
  <2> QED BY <2>1, <2>2, <2>3
<1>8. OnStreams' = OnStreams \cup {p}
  BY <1>7 DEF OnStreams
<1>9. OnceOnStreams'
  <2> SUFFICES ASSUME NEW q \in Stream, NEW r \in Stream,
                      NEW i \in 1..Len(streams'[q].data),
                      NEW j \in 1..Len(streams'[r].data),
                      streams'[q].data[i] = streams'[r].data[j]
               PROVE  q = r /\ i = j
    BY DEF OnceOnStreams
  <2>1. \A t \in Stream : \A k \in 1..Len(streams'[t].data) :
          \/ k \in 1..Len(streams[t].data) /\ streams'[t].data[k] = streams[t].data[k]
          \/ t = s /\ k = Len(d) + 1 /\ streams'[t].data[k] = p
    BY <1>1, <1>4, <1>5, <1>6
  <2>2. \A t \in Stream : \A k \in 1..Len(streams[t].data) : streams[t].data[k] # p
    BY DEF OnStreams, OnStream
  <2> QED BY <2>1, <2>2 DEF OnceOnStreams
<1> QED BY <1>5, <1>8, <1>9

\* The reader of stream s has received its first packet p.
LEMMA PacketReceived ==
  ASSUME streams \in [Stream -> StreamState], NEW s \in Stream,
         hpacket \in [Stream -> Id \cup {0}], hpacket[s] = 0,
         OnceOnStreams, OnceInHands, OnStreams \cap InHands = {},
         streams[s].data # <<>>, NEW p, p = Head(streams[s].data),
         streams' = [streams EXCEPT ![s].data = Tail(streams[s].data)],
         hpacket' = [hpacket EXCEPT ![s] = p]
  PROVE  /\ streams' \in [Stream -> StreamState]
         /\ hpacket' \in [Stream -> Id \cup {0}] /\ p \in Id
         /\ p \in OnStreams
         /\ OnStreams' = OnStreams \ {p} /\ InHands' = InHands \cup {p}
         /\ OnceOnStreams' /\ OnceInHands'
<1>1. PICK d : d = streams[s].data
  OBVIOUS
<1>2. d \in Seq(Id) /\ d # <<>>
  BY <1>1 DEF StreamState
<1>3. PICK e : e = Tail(d)
  OBVIOUS
<1>4. /\ e \in Seq(Id) /\ p \in Id /\ Len(e) = Len(d) - 1 /\ Len(d) \in Nat
      /\ Len(d) >= 1 /\ d[1] = p
      /\ \A i \in 1..Len(e) : e[i] = d[i + 1]
  <2>1. /\ e \in Seq(Id) /\ p \in Id /\ Len(e) = Len(d) - 1
        /\ \A i \in 1..Len(e) : e[i] = d[i + 1]
    BY <1>1, <1>2, <1>3, HeadTailProperties
  <2>2. Len(d) \in Nat /\ Len(d) # 0
    BY <1>2, LenProperties, EmptySeq
  <2>3. d[1] = p
    BY <1>1, <1>2
  <2> QED BY <2>1, <2>2, <2>3
<1>5. /\ streams' \in [Stream -> StreamState] /\ streams'[s].data = e
      /\ \A r \in Stream : r # s => streams'[r].data = streams[r].data
  BY <1>1, <1>3, <1>4, SetData
<1>6. /\ hpacket' \in [Stream -> Id \cup {0}] /\ hpacket'[s] = p
      /\ \A r \in Stream : r # s => hpacket'[r] = hpacket[r]
  BY <1>4
<1>7. p \in OnStream(s) /\ p \in OnStreams
  BY <1>1, <1>4 DEF OnStream, OnStreams
<1>8. /\ OnStream(s)' = OnStream(s) \ {p}
      /\ \A r \in Stream : r # s => OnStream(r)' = OnStream(r) /\ p \notin OnStream(r)
  <2>1. \A i \in 2..Len(d) : d[i] # p
    <3> SUFFICES ASSUME NEW i \in 2..Len(d), d[i] = p PROVE FALSE
      OBVIOUS
    <3>1. PICK one \in 1..Len(d) : one = 1
      BY <1>4
    <3>2. i \in 1..Len(d) /\ d[i] = d[one]
      BY <1>4, <3>1
    <3>3. i = one
      BY <1>1, <3>1, <3>2 DEF OnceOnStreams
    <3> QED BY <3>1, <3>3
  <2>2. {e[i] : i \in 1..Len(e)} = {d[i] : i \in 1..Len(d)} \ {p}
    <3>1. ASSUME NEW i \in 1..Len(e)
          PROVE  e[i] \in {d[k] : k \in 1..Len(d)} \ {p}
      <4>1. i + 1 \in 2..Len(d) /\ i + 1 \in 1..Len(d) /\ e[i] = d[i + 1]
        BY <1>4
      <4> QED BY <2>1, <4>1
    <3>2. ASSUME NEW k \in 1..Len(d), d[k] # p
          PROVE  d[k] \in {e[i] : i \in 1..Len(e)}
      <4>1. k - 1 \in 1..Len(e) /\ e[k - 1] = d[k - 1 + 1] /\ k - 1 + 1 = k
        BY <1>4, <3>2
      <4> QED BY <4>1
    <3>3. ASSUME NEW x \in {d[k] : k \in 1..Len(d)} \ {p}
          PROVE  x \in {e[i] : i \in 1..Len(e)}
      <4>1. PICK k \in 1..Len(d) : x = d[k]
        BY <3>3, Zenon
      <4> QED BY <3>2, <3>3, <4>1, Zenon
    <3>4. ASSUME NEW x \in {e[i] : i \in 1..Len(e)}
          PROVE  x \in {d[k] : k \in 1..Len(d)} \ {p}
      <4>1. PICK i \in 1..Len(e) : x = e[i]
        BY <3>4, Zenon
      <4> QED BY <3>1, <4>1, Zenon
    <3> QED BY <3>3, <3>4, Zenon
  <2>3. OnStream(s)' = {e[i] : i \in 1..Len(e)} /\ OnStream(s) = {d[i] : i \in 1..Len(d)}
    BY <1>1, <1>5 DEF OnStream
  <2>4. \A r \in Stream : r # s => OnStream(r)' = OnStream(r)
    BY <1>5 DEF OnStream
  <2>5. 1 \in 1..Len(d)
    BY <1>4
  <2>6. \A r \in Stream : r # s => p \notin OnStream(r)
    BY <1>1, <1>4, <2>5 DEF OnceOnStreams, OnStream
  <2> QED BY <2>2, <2>3, <2>4, <2>6
<1>9. OnStreams' = OnStreams \ {p}
  BY <1>8 DEF OnStreams
<1>10. 0 \notin Id
  BY DEF Id
<1>11. InHands' = InHands \cup {p}
  BY <1>4, <1>6, <1>10 DEF InHands
<1>12. OnceOnStreams'
  <2> SUFFICES ASSUME NEW q \in Stream, NEW r \in Stream,
                      NEW i \in 1..Len(streams'[q].data),
                      NEW j \in 1..Len(streams'[r].data),
                      streams'[q].data[i] = streams'[r].data[j]
               PROVE  q = r /\ i = j
    BY DEF OnceOnStreams
  <2>1. i \in Int /\ j \in Int
    OBVIOUS
  <2>2. \A t \in Stream : \A k \in 1..Len(streams'[t].data) :
          \/ t # s /\ k \in 1..Len(streams[t].data) /\ streams'[t].data[k] = streams[t].data[k]
          \/ /\ t = s /\ k + 1 \in 1..Len(streams[t].data)
             /\ streams'[t].data[k] = streams[t].data[k + 1]
    BY <1>1, <1>4, <1>5
  <2>3. CASE q # s /\ r # s
    BY <2>2, <2>3 DEF OnceOnStreams
  <2>4. CASE q = s /\ r = s
    <3>1. i + 1 = j + 1
      BY <2>2, <2>4 DEF OnceOnStreams
    <3> QED BY <2>1, <2>4, <3>1
  <2>5. CASE (q = s /\ r # s) \/ (q # s /\ r = s)
    BY <2>2, <2>5 DEF OnceOnStreams
  <2> QED BY <2>3, <2>4, <2>5
<1>13. OnceInHands'
  <2>1. \A r \in Stream : hpacket[r] # p
    BY <1>4, <1>7, <1>10 DEF InHands
  <2> QED BY <1>6, <2>1 DEF OnceInHands
<1> QED BY <1>4, <1>5, <1>6, <1>7, <1>9, <1>11, <1>12, <1>13

\* The reader of stream s has written its packet p to the tun interface.
LEMMA PacketOut ==
  ASSUME NEW s \in Stream, hpacket \in [Stream -> Id \cup {0}],
         NEW p, p = hpacket[s], p # 0, OnceInHands,
         hpacket' = [hpacket EXCEPT ![s] = 0]
  PROVE  /\ hpacket' \in [Stream -> Id \cup {0}] /\ p \in Id /\ p \in InHands
         /\ InHands' = InHands \ {p}
         /\ OnceInHands'
<1>1. /\ hpacket' \in [Stream -> Id \cup {0}] /\ hpacket'[s] = 0
      /\ \A r \in Stream : r # s => hpacket'[r] = hpacket[r]
  OBVIOUS
<1>2. \A r \in Stream : r # s => hpacket[r] # p
  BY DEF OnceInHands
<1>3. p \in Id /\ p \in InHands
  BY DEF InHands
<1>4. InHands' = InHands \ {p}
  BY <1>1, <1>2 DEF InHands
<1>5. OnceInHands'
  BY <1>1 DEF OnceInHands
<1> QED BY <1>1, <1>3, <1>4, <1>5

\* The packets of the streams behind the prefixes that stay.
Behind == UNION {{streams[s].data[i] : i \in Len(streams'[s].data) + 1..Len(streams[s].data)}
                   : s \in Stream}

\* Of each stream a prefix stays.
LEMMA PrefixesStay ==
  ASSUME streams \in [Stream -> StreamState], streams' \in [Stream -> StreamState],
         \A s \in Stream : /\ Len(streams[s].data) \in Nat
                           /\ Len(streams'[s].data) \in 0..Len(streams[s].data),
         \A s \in Stream : \A i \in 1..Len(streams'[s].data) :
           streams'[s].data[i] = streams[s].data[i],
         OnceOnStreams
  PROVE  /\ Behind \subseteq OnStreams
         /\ OnStreams' = OnStreams \ Behind
         /\ OnceOnStreams'
<1>0. PICK P : P = Behind
  OBVIOUS
<1>1a. \A p : p \in P <=> \E s \in Stream :
         \E i \in Len(streams'[s].data) + 1..Len(streams[s].data) : p = streams[s].data[i]
  BY <1>0 DEF Behind
<1>1. \A s \in Stream : \A i \in Len(streams'[s].data) + 1..Len(streams[s].data) :
        i \in 1..Len(streams[s].data)
  OBVIOUS
<1>2. \A s \in Stream : \A i \in 1..Len(streams'[s].data) :
        i \in 1..Len(streams[s].data) /\ i \notin Len(streams'[s].data) + 1..Len(streams[s].data)
  OBVIOUS
<1>3. \A s \in Stream : \A i \in 1..Len(streams[s].data) :
        \/ i \in 1..Len(streams'[s].data)
        \/ i \in Len(streams'[s].data) + 1..Len(streams[s].data)
  OBVIOUS
<1>4. P \subseteq OnStreams
  BY <1>1, <1>1a DEF OnStreams, OnStream
<1>5. OnStreams' \subseteq OnStreams \ P
  <2> SUFFICES ASSUME NEW s \in Stream, NEW i \in 1..Len(streams'[s].data)
               PROVE  /\ streams'[s].data[i] \in OnStreams
                      /\ streams'[s].data[i] \notin P
    BY DEF OnStreams, OnStream
  <2>1. i \in 1..Len(streams[s].data) /\ streams'[s].data[i] = streams[s].data[i]
    BY <1>2
  <2>2. \A r \in Stream : \A j \in Len(streams'[r].data) + 1..Len(streams[r].data) :
          streams[s].data[i] = streams[r].data[j] => s = r /\ i = j
    BY <1>1, <2>1 DEF OnceOnStreams
  <2>3. ASSUME streams[s].data[i] \in P
        PROVE  FALSE
    <3>1. PICK r \in Stream : \E j \in Len(streams'[r].data) + 1..Len(streams[r].data) :
            streams[s].data[i] = streams[r].data[j]
      BY <1>1a, <2>3
    <3>2. i \in Len(streams'[s].data) + 1..Len(streams[s].data)
      BY <2>2, <3>1
    <3> QED BY <1>2, <3>2
  <2> QED BY <2>1, <2>3 DEF OnStreams, OnStream
<1>6. OnStreams \ P \subseteq OnStreams'
  <2> SUFFICES ASSUME NEW s \in Stream, NEW i \in 1..Len(streams[s].data),
                      streams[s].data[i] \notin P
               PROVE  streams[s].data[i] \in OnStreams'
    BY DEF OnStreams, OnStream
  <2>1. i \in 1..Len(streams'[s].data)
    BY <1>3, <1>1a
  <2> QED BY <2>1 DEF OnStreams, OnStream
<1>7. OnceOnStreams'
  BY <1>2 DEF OnceOnStreams
<1> QED BY <1>0, <1>4, <1>5, <1>6, <1>7

\* The streams after SessionEnds("snd") with the prefixes k, and the packets
\* that are cut off.
CutTo(k) == [s \in Stream |->
               IF s \in T!Opened /\ k[s] <= Len(streams[s].data)
               THEN [streams[s] EXCEPT !.data = SubSeq(@, 1, k[s]), !.cut = TRUE]
               ELSE streams[s]]
CutOff(k) == UNION {{streams[s].data[i] : i \in k[s] + 1..Len(streams[s].data)} : s \in T!Opened}

\* One stream in CutTo(k).
LEMMA CutOne ==
  ASSUME streams \in [Stream -> StreamState], NEW k \in [T!Opened -> 0..Window + 1],
         NEW s \in Stream
  PROVE  /\ CutTo(k)[s] \in StreamState
         /\ Len(streams[s].data) \in Nat
         /\ Len(CutTo(k)[s].data) \in 0..Len(streams[s].data)
         /\ \A i \in 1..Len(CutTo(k)[s].data) : CutTo(k)[s].data[i] = streams[s].data[i]
         /\ s \in T!Opened => Len(CutTo(k)[s].data) =
              IF k[s] <= Len(streams[s].data) THEN k[s] ELSE Len(streams[s].data)
         /\ s \notin T!Opened => Len(CutTo(k)[s].data) = Len(streams[s].data)
<1>1. streams[s] \in StreamState /\ streams[s].data \in Seq(Id) /\ Len(streams[s].data) \in Nat
  <2>1. streams[s] \in StreamState /\ streams[s].data \in Seq(Id)
    BY DEF StreamState
  <2> QED BY <2>1, LenProperties
<1>2. CASE s \in T!Opened /\ k[s] <= Len(streams[s].data)
  <2>1. k[s] \in Nat
    BY <1>2, TransmitterAssumption
  <2>2. PICK d : d = SubSeq(streams[s].data, 1, k[s])
    OBVIOUS
  <2>3. /\ d \in Seq(Id) /\ Len(d) = k[s]
        /\ \A i \in 1..k[s] : d[i] = streams[s].data[i]
    BY <1>1, <1>2, <2>1, <2>2, PrefixFacts
  <2>4. PICK b \in BOOLEAN : b = TRUE
    OBVIOUS
  <2>5. CutTo(k)[s] = [streams[s] EXCEPT !.data = d, !.cut = b]
    BY <1>2, <2>2, <2>4 DEF CutTo
  <2>6. CutTo(k)[s] \in StreamState /\ CutTo(k)[s].data = d
    BY <1>1, <2>3, <2>5 DEF StreamState
  <2> QED BY <1>1, <1>2, <2>1, <2>3, <2>6
<1>3. CASE ~(s \in T!Opened /\ k[s] <= Len(streams[s].data))
  <2>1. CutTo(k)[s] = streams[s]
    BY <1>3 DEF CutTo
  <2> QED BY <1>1, <1>3, <2>1
<1> QED BY <1>2, <1>3

\* The session has ended at the sender: of each stream a prefix stays.
LEMMA StreamsCut ==
  ASSUME streams \in [Stream -> StreamState], T!Opened \subseteq Stream,
         NEW k \in [T!Opened -> 0..Window + 1], streams' = CutTo(k),
         OnceOnStreams
  PROVE  /\ streams' \in [Stream -> StreamState]
         /\ CutOff(k) \subseteq OnStreams
         /\ OnStreams' = OnStreams \ CutOff(k)
         /\ OnceOnStreams'
<1>1. /\ \A s \in Stream : streams'[s] \in StreamState
      /\ \A s \in Stream : /\ Len(streams[s].data) \in Nat
                           /\ Len(streams'[s].data) \in 0..Len(streams[s].data)
      /\ \A s \in Stream : \A i \in 1..Len(streams'[s].data) :
           streams'[s].data[i] = streams[s].data[i]
  BY CutOne
<1>2. streams' \in [Stream -> StreamState]
  <2>1. streams' = [s \in Stream |-> streams'[s]]
    BY DEF CutTo
  <2> QED BY <1>1, <2>1
<1>3. \A s \in T!Opened : k[s] + 1..Len(streams[s].data) =
        Len(streams'[s].data) + 1..Len(streams[s].data)
  <2> SUFFICES ASSUME NEW s \in T!Opened
               PROVE  k[s] + 1..Len(streams[s].data) =
                        Len(streams'[s].data) + 1..Len(streams[s].data)
    OBVIOUS
  <2>1. PICK m \in Nat, l \in Nat, j \in Nat :
          m = k[s] /\ l = Len(streams[s].data) /\ j = Len(streams'[s].data)
    BY <1>1, TransmitterAssumption
  <2>2. j = IF m <= l THEN m ELSE l
    BY <2>1, CutOne
  <2>3. m + 1..l = j + 1..l
    BY <2>2
  <2> QED BY <2>1, <2>3
<1>4. \A s \in Stream \ T!Opened : Len(streams'[s].data) = Len(streams[s].data)
  BY CutOne
<1>5. ASSUME NEW p
      PROVE  p \in CutOff(k) <=> \E s \in Stream :
        \E i \in Len(streams'[s].data) + 1..Len(streams[s].data) : p = streams[s].data[i]
  <2>1. p \in CutOff(k) <=> \E s \in T!Opened :
          \E i \in k[s] + 1..Len(streams[s].data) : p = streams[s].data[i]
    BY DEF CutOff
  <2>2. p \in CutOff(k) <=> \E s \in T!Opened :
          \E i \in Len(streams'[s].data) + 1..Len(streams[s].data) : p = streams[s].data[i]
    BY <1>3, <2>1
  <2>3. \A s \in Stream \ T!Opened :
          Len(streams'[s].data) + 1..Len(streams[s].data) = {}
    BY <1>1, <1>4
  <2> QED BY <2>2, <2>3
<1>6. CutOff(k) = Behind
  BY <1>5 DEF Behind
<1>7. /\ Behind \subseteq OnStreams /\ OnStreams' = OnStreams \ Behind /\ OnceOnStreams'
  BY <1>1, <1>2, PrefixesStay
<1> QED BY <1>2, <1>6, <1>7
-----------------------------------------------------------------------------
(* What a step of T does to where the packets are. *)

Queued == Ids(toSendQueue) \cup Ids(workingSlice)
Pending == Queued \cup OnStreams \cup InHands

Stays == UNCHANGED <<OnStreams, InHands, delivered, lost>>

Moved ==
  \/ /\ \E p \in Id \ (Queued \cup Ids(handed)) : Queued' = Queued \cup {p}
     /\ Ids(handed)' = Ids(handed) /\ Stays
  \/ \E p \in Queued \ Ids(handed) :
       /\ Queued' = Queued \ {p} /\ Ids(handed)' = Ids(handed) \cup {p}
       /\ UNCHANGED <<InHands, delivered>>
       /\ \/ OnStreams' = OnStreams \cup {p} /\ lost' = lost
          \/ OnStreams' = OnStreams /\ lost' = lost \cup {p}
  \/ /\ Queued' = Queued /\ Ids(handed)' = Ids(handed)
     /\ \/ Stays
        \/ \E p \in OnStreams : /\ OnStreams' = OnStreams \ {p}
                                /\ InHands' = InHands \cup {p}
                                /\ UNCHANGED <<delivered, lost>>
        \/ \E p \in InHands : /\ p \in Id /\ InHands' = InHands \ {p}
                              /\ delivered' = Append(delivered, p)
                              /\ UNCHANGED <<OnStreams, lost>>
        \/ \E P \in SUBSET OnStreams : /\ OnStreams' = OnStreams \ P
                                       /\ lost' = lost \cup P
                                       /\ UNCHANGED <<InHands, delivered>>

\* A step of the send queue puts a packet in, takes one out, or moves none.
LEMMA QueueEnqueue ==
  ASSUME OnceInv, OnceInv', NEW f \in Flow, ListenTun_enqueue(f)
  PROVE  /\ \E p \in Id \ (Queued \cup Ids(handed)) : Queued' = Queued \cup {p}
         /\ Ids(handed)' = Ids(handed)
<1>1. Pool!Put(enqueued + 1)
  BY EnqueuePool
<1>2. Queued' = Queued \cup {enqueued + 1} /\ enqueued + 1 \notin Queued
  BY <1>1 DEF Pool!Put, Queued
<1>3. handed' = handed
  BY DEF ListenTun_enqueue
<1>4. enqueued \in Nat /\ enqueued + 1 \in Id /\ enqueued + 1 \notin 1..enqueued
  BY SchedAssumption DEF ListenTun_enqueue, OnceInv, TypeInv, TypeOK, Id
<1>5. enqueued + 1 \notin Ids(handed)
  BY <1>4 DEF OnceInv, EachPacketOnce
<1> QED BY <1>2, <1>3, <1>4, <1>5

\* sendPacket takes one packet from the queue.
LEMMA QueueSent ==
  ASSUME OnceInv, SchedulePackets_sent, NEW p, p = Head(workingSlice).id
  PROVE  /\ p \in Id /\ p \in Queued \ Ids(handed)
         /\ Queued' = Queued \ {p} /\ Ids(handed)' = Ids(handed) \cup {p}
<1>1. /\ workingSlice \in Seq(Packet) /\ Len(workingSlice) >= 1
      /\ handed \in Seq(Packet)
  BY DEF SchedulePackets_sent, OnceInv, TypeInv, TypeOK, PcInv
<1>2. /\ Head(workingSlice) \in Packet
      /\ Ids(workingSlice) = Ids(Tail(workingSlice)) \cup {p}
      /\ p \notin Ids(Tail(workingSlice))
  BY <1>1, TailFacts DEF OnceInv, EachPacketOnce
<1>3. p \notin Ids(toSendQueue) /\ p \notin Ids(handed)
  BY <1>2 DEF OnceInv, EachPacketOnce
<1>4. /\ workingSlice' = Tail(workingSlice) /\ toSendQueue' = toSendQueue
      /\ handed' = Append(handed, Head(workingSlice))
  BY DEF SchedulePackets_sent
<1>5. Ids(handed') = Ids(handed) \cup {p}
  BY <1>1, <1>2, <1>4, AppendFacts
<1>6. p \in Id
  BY <1>2 DEF Packet
<1>7. Queued' = Queued \ {p}
  BY <1>2, <1>3, <1>4 DEF Queued
<1> QED BY <1>2, <1>3, <1>5, <1>6, <1>7 DEF Queued

\* The other steps of SchedulePackets keep the packets there are.
LEMMA QueueShuffled ==
  ASSUME OnceInv, SchedulePackets, ~SchedulePackets_sent
  PROVE  Queued' = Queued /\ Ids(handed)' = Ids(handed)
<1>1. UNCHANGED Pool!poolVars
  BY StutterPool
<1>2. Queued' = Queued
  BY <1>1 DEF Pool!poolVars, Queued
<1>3. handed' = handed
  BY DEF SchedulePackets, SchedulePackets_pop, SchedulePackets_alone, SchedulePackets_len,
     SchedulePackets_drain, SchedulePackets_sort, SchedulePackets_requeue
<1> QED BY <1>2, <1>3
-----------------------------------------------------------------------------
(* Each goroutine moves at most one packet, the end of the session loses     *)
(* what it cuts off the streams.                                             *)

CarriedStep == PacketTypes' /\ OnceOnStreams' /\ OnceInHands' /\ Moved

\* A step that leaves the packets downstream of sendPacket where they are.
LEMMA StaysCarried ==
  ASSUME PacketTypes, CarriedInv,
         streams' \in [Stream -> StreamState],
         \A s \in Stream : streams'[s].data = streams[s].data,
         hpacket' = hpacket, delivered' = delivered, lost' = lost,
         \A s \in Stream : (hpc'[s] = "write") = (hpc[s] = "write"),
         \A s \in Stream : s > naccepted' => hpc'[s] = "none"
  PROVE  PacketTypes' /\ OnceOnStreams' /\ OnceInHands' /\ Stays
<1>1. OnStreams' = OnStreams /\ InHands' = InHands /\ OnceOnStreams' /\ OnceInHands'
  BY NothingMoves DEF CarriedInv
<1>2. PacketTypes'
  BY DEF PacketTypes
<1> QED BY <1>1, <1>2 DEF Stays

\* ListenTun puts a packet in the queue, or moves none.
LEMMA ListenTunMoves ==
  ASSUME OnceInv, OnceInv', TunnelTypes, CarriedInv, T!ListenTun
  PROVE  CarriedStep
<1>1. PacketTypes' /\ OnceOnStreams' /\ OnceInHands' /\ Stays
  BY ListenTunFrame, StaysCarried DEF TunnelTypes, PacketTypes
<1>2. CASE T!ListenTun_enqueue
  <2>1. tflow \in Flow /\ ListenTun_enqueue(tflow)
    BY <1>2, EnqueueIsEnqueue DEF T!ListenTun_enqueue, TunnelTypes, ListenTunTypes
  <2> QED BY <1>1, <2>1, QueueEnqueue DEF CarriedStep, Moved
<1>3. CASE ~T!ListenTun_enqueue
  <2>1. UNCHANGED schedVars
    BY <1>3 DEF T!ListenTun, T!ListenTun_read, T!ListenTun_readFails, T!ListenTun_lookup,
       T!ListenTun_open, T!ListenTun_storeStream, T!ListenTun_storeTime, T!schedVars,
       schedVars
  <2>2. Queued' = Queued /\ Ids(handed)' = Ids(handed)
    BY <2>1 DEF schedVars, Queued
  <2> QED BY <1>1, <2>2 DEF CarriedStep, Moved
<1> QED BY <1>2, <1>3

\* SchedulePackets moves a packet to a stream, or loses it.
LEMMA SchedulePacketsMoves ==
  ASSUME OnceInv, OnceInv', TunnelTypes, CarriedInv, T!SchedulePackets
  PROVE  CarriedStep
<1>1. /\ hpacket' = hpacket /\ hpc' = hpc /\ naccepted' = naccepted
      /\ delivered' = delivered
  BY SchedulePacketsFrame
<1>2. CASE T!SchedulePackets_step
  <2>1. UNCHANGED <<streams, lost>> /\ SchedulePackets /\ ~SchedulePackets_sent
    BY <1>2, StepIsSchedulePackets DEF T!SchedulePackets_step, T!streamVars, T!histVars
  <2>2. Queued' = Queued /\ Ids(handed)' = Ids(handed)
    BY <2>1, QueueShuffled
  <2> QED BY <1>1, <2>1, <2>2, StaysCarried DEF TunnelTypes, PacketTypes, CarriedStep, Moved
<1>3. CASE T!sendPacket_load \/ T!sendPacket_write
  <2>1. UNCHANGED <<streams, lost>> /\ UNCHANGED schedVars
    BY <1>3 DEF T!sendPacket_load, T!sendPacket_write, T!streamVars, T!histVars,
       T!schedVars, schedVars
  <2>2. Queued' = Queued /\ Ids(handed)' = Ids(handed)
    BY <2>1 DEF schedVars, Queued
  <2> QED BY <1>1, <2>1, <2>2, StaysCarried DEF TunnelTypes, PacketTypes, CarriedStep, Moved
<1>4. CASE T!sendPacket_noStream \/ T!sendPacket_writeFails
  <2>1. PICK p : p = Head(workingSlice).id
    OBVIOUS
  <2>2. /\ streams' = streams /\ lost' = lost \cup {p} /\ SchedulePackets_sent
    BY <1>4, <2>1, SentIsSent DEF T!sendPacket_noStream, T!sendPacket_writeFails, T!streamVars
  <2>3. /\ p \in Id /\ p \in Queued \ Ids(handed)
        /\ Queued' = Queued \ {p} /\ Ids(handed)' = Ids(handed) \cup {p}
    BY <2>1, <2>2, QueueSent
  <2>4. OnStreams' = OnStreams /\ InHands' = InHands /\ OnceOnStreams' /\ OnceInHands'
    BY <1>1, <2>2, NothingMoves DEF CarriedInv
  <2>5. PacketTypes'
    BY <1>1, <2>2, <2>3 DEF TunnelTypes, PacketTypes
  <2> QED BY <1>1, <2>2, <2>3, <2>4, <2>5 DEF CarriedStep, Moved
<1>5. CASE T!sendPacket_written
  <2>1. PICK p : p = Head(workingSlice).id
    OBVIOUS
  <2>2. SchedulePackets_sent /\ lost' = lost
    BY <1>5, SentIsSent DEF T!sendPacket_written, T!histVars
  <2>3. /\ p \in Id /\ p \in Queued \ Ids(handed)
        /\ Queued' = Queued \ {p} /\ Ids(handed)' = Ids(handed) \cup {p}
    BY <2>1, <2>2, QueueSent
  <2>4. /\ pstream \in Stream
        /\ streams' = [streams EXCEPT ![pstream].data = Append(streams[pstream].data, p)]
    BY <1>5, <2>1 DEF T!sendPacket_written, TunnelTypes, SendTypes
  <2>5. p \notin OnStreams /\ OnceOnStreams /\ streams \in [Stream -> StreamState]
    BY <2>3 DEF CarriedInv, TunnelTypes, PacketTypes
  <2>6. /\ streams' \in [Stream -> StreamState]
        /\ OnStreams' = OnStreams \cup {p} /\ OnceOnStreams'
    BY <2>3, <2>4, <2>5, PacketWritten
  <2>7. InHands' = InHands /\ OnceInHands'
    BY <1>1 DEF CarriedInv, InHands, OnceInHands
  <2>8. PacketTypes'
    BY <1>1, <2>2, <2>6 DEF TunnelTypes, PacketTypes
  <2> QED BY <1>1, <2>2, <2>3, <2>6, <2>7, <2>8 DEF CarriedStep, Moved
<1> QED BY <1>2, <1>3, <1>4, <1>5 DEF T!SchedulePackets

\* CollectUnused and the passing of time move none.
LEMMA CollectMoves ==
  ASSUME OnceInv, TunnelTypes, CarriedInv,
         T!CollectUnused \/ \E f \in Flow : T!InactivityTimeout(f)
  PROVE  CarriedStep
<1>1. /\ hpacket' = hpacket /\ hpc' = hpc /\ naccepted' = naccepted
      /\ delivered' = delivered /\ lost' = lost /\ UNCHANGED schedVars
  BY CollectUnusedFrame, InactivityTimeoutFrame
<1>2. PICK b \in BOOLEAN : b = TRUE
  OBVIOUS
<1>3. \/ streams' = streams
      \/ streams' = [streams EXCEPT ![mapQuicStream[cflow]].fin = b]
      \/ streams' = [streams EXCEPT ![mapQuicStream[cflow]].finRead = b]
  <2>1. CASE T!CollectUnused_close
    BY <1>2, <2>1 DEF T!CollectUnused_close
  <2>2. CASE T!CollectUnused_read
    BY <1>2, <2>2 DEF T!CollectUnused_read
  <2>3. CASE ~T!CollectUnused_close /\ ~T!CollectUnused_read /\ T!CollectUnused
    BY <2>3 DEF T!CollectUnused, T!CollectUnused_return, T!CollectUnused_scan,
       T!CollectUnused_noStream, T!CollectUnused_deleteStream,
       T!CollectUnused_deleteTime, T!streamVars
  <2>4. CASE \E f \in Flow : T!InactivityTimeout(f)
    BY <2>4, InactivityTimeoutFrame
  <2> QED BY <2>1, <2>2, <2>3, <2>4
<1>4. /\ streams' \in [Stream -> StreamState]
      /\ \A s \in Stream : streams'[s].data = streams[s].data
  <2>1. streams \in [Stream -> StreamState]
    BY DEF TunnelTypes, PacketTypes
  <2>2. PICK x : x = mapQuicStream[cflow]
    OBVIOUS
  <2> QED BY <1>3, <2>1, <2>2, SetFlag
<1>5. PacketTypes' /\ OnceOnStreams' /\ OnceInHands' /\ Stays
  BY <1>1, <1>4, StaysCarried DEF TunnelTypes, PacketTypes
<1>6. Queued' = Queued /\ Ids(handed)' = Ids(handed)
  BY <1>1 DEF schedVars, Queued
<1> QED BY <1>5, <1>6 DEF CarriedStep, Moved

\* ListenNet_handleStream moves a packet from its stream to the tun interface.
LEMMA HandleStreamMoves ==
  ASSUME OnceInv, TunnelTypes, CarriedInv, NEW s \in Stream, T!HandleStream(s)
  PROVE  CarriedStep
<1>1. lost' = lost /\ naccepted' = naccepted /\ UNCHANGED schedVars
  BY DEF T!HandleStream, T!ListenNet_handleStream_recv, T!ListenNet_handleStream_write,
     T!ListenNet_handleStream_eof, T!ListenNet_handleStream_fails, T!schedVars,
     schedVars, T!histVars
<1>2. Queued' = Queued /\ Ids(handed)' = Ids(handed)
  BY <1>1 DEF schedVars, Queued
<1>3. /\ streams \in [Stream -> StreamState] /\ hpacket \in [Stream -> Id \cup {0}]
      /\ hpc \in [Stream -> {"none", "recv", "write", "done", "report"}]
      /\ \A r \in Stream : hpacket[r] # 0 <=> hpc[r] = "write"
      /\ \A r \in Stream : r > naccepted => hpc[r] = "none"
      /\ delivered \in Seq(Id) /\ lost \in SUBSET Id
  BY DEF TunnelTypes, PacketTypes, EndTypes
<1>4. 0 \notin Id
  BY DEF Id
<1>5. CASE T!ListenNet_handleStream_recv(s)
  <2>1. PICK p : p = Head(streams[s].data)
    OBVIOUS
  <2>2. /\ hpc[s] = "recv" /\ streams[s].data # <<>>
        /\ streams' = [streams EXCEPT ![s].data = Tail(streams[s].data)]
        /\ hpacket' = [hpacket EXCEPT ![s] = p]
        /\ hpc' = [hpc EXCEPT ![s] = "write"] /\ delivered' = delivered
    BY <1>5, <2>1 DEF T!ListenNet_handleStream_recv, T!histVars
  <2>3. hpacket[s] = 0
    BY <1>3, <2>2
  <2>4. OnceOnStreams /\ OnceInHands /\ OnStreams \cap InHands = {}
    BY DEF CarriedInv
  <2>5. /\ streams' \in [Stream -> StreamState]
        /\ hpacket' \in [Stream -> Id \cup {0}] /\ p \in Id
        /\ p \in OnStreams
        /\ OnStreams' = OnStreams \ {p} /\ InHands' = InHands \cup {p}
        /\ OnceOnStreams' /\ OnceInHands'
    BY <1>3, <2>1, <2>2, <2>3, <2>4, PacketReceived
  <2>6. \A r \in Stream : hpacket'[r] # 0 <=> hpc'[r] = "write"
    BY <1>3, <1>4, <2>2, <2>5
  <2>7. \A r \in Stream : r > naccepted => hpc'[r] = "none"
    BY <1>3, <2>2
  <2>8. PacketTypes'
    BY <1>1, <1>3, <2>2, <2>5, <2>6, <2>7 DEF PacketTypes
  <2> QED BY <1>1, <1>2, <2>2, <2>5, <2>8 DEF CarriedStep, Moved
<1>6. CASE T!ListenNet_handleStream_write(s)
  <2>1. PICK p : p = hpacket[s]
    OBVIOUS
  <2>2. /\ hpc[s] = "write" /\ hpacket' = [hpacket EXCEPT ![s] = 0]
        /\ hpc' = [hpc EXCEPT ![s] = "recv"]
        /\ delivered' = Append(delivered, p) /\ streams' = streams
    BY <1>6, <2>1 DEF T!ListenNet_handleStream_write, T!streamVars
  <2>3. p # 0 /\ OnceInHands
    BY <1>3, <2>1, <2>2 DEF CarriedInv
  <2>4. /\ hpacket' \in [Stream -> Id \cup {0}] /\ p \in Id /\ p \in InHands
        /\ InHands' = InHands \ {p} /\ OnceInHands'
    BY <1>3, <2>1, <2>2, <2>3, PacketOut
  <2>5. OnStreams' = OnStreams /\ OnceOnStreams'
    BY <2>2 DEF CarriedInv, OnStreams, OnStream, OnceOnStreams
  <2>6. \A r \in Stream : hpacket'[r] # 0 <=> hpc'[r] = "write"
    BY <1>3, <2>2
  <2>7. \A r \in Stream : r > naccepted => hpc'[r] = "none"
    BY <1>3, <2>2
  <2>8. delivered' \in Seq(Id)
    BY <1>3, <2>2, <2>4, AppendProperties
  <2>9. PacketTypes'
    BY <1>1, <1>3, <2>2, <2>4, <2>6, <2>7, <2>8 DEF PacketTypes
  <2> QED BY <1>1, <1>2, <2>2, <2>4, <2>5, <2>9 DEF CarriedStep, Moved
<1>7. CASE T!ListenNet_handleStream_eof(s) \/ T!ListenNet_handleStream_fails(s)
  <2>1. PICK b \in BOOLEAN : b = TRUE
    OBVIOUS
  <2>2. /\ hpc[s] = "recv" /\ hpacket' = hpacket /\ delivered' = delivered
        /\ hpc' = [hpc EXCEPT ![s] = "done"] \/ hpc' = [hpc EXCEPT ![s] = "report"]
        /\ streams' = streams \/ streams' = [streams EXCEPT ![s].peerFin = b]
    BY <1>7, <2>1 DEF T!ListenNet_handleStream_eof, T!ListenNet_handleStream_fails,
       T!streamVars, T!histVars
  <2>3. /\ streams' \in [Stream -> StreamState]
        /\ \A r \in Stream : streams'[r].data = streams[r].data
    BY <1>3, <2>2, SetFlag
  <2>4. /\ \A r \in Stream : (hpc'[r] = "write") = (hpc[r] = "write")
        /\ \A r \in Stream : r > naccepted => hpc'[r] = "none"
    BY <1>3, <2>2
  <2>5. PacketTypes' /\ OnceOnStreams' /\ OnceInHands' /\ Stays
    BY <1>1, <2>2, <2>3, <2>4, StaysCarried DEF TunnelTypes
  <2> QED BY <1>2, <2>5 DEF CarriedStep, Moved
<1> QED BY <1>5, <1>6, <1>7 DEF T!HandleStream

\* So does the receiving end as a whole.
LEMMA ReceiveMoves ==
  ASSUME OnceInv, TunnelTypes, CarriedInv, Receive
  PROVE  CarriedStep
<1>1. CASE \E s \in T!Stream : T!HandleStream(s)
  BY <1>1, HandleStreamMoves DEF T!Stream, Stream
<1>2. CASE T!ListenNet_accept \/ \E e \in T!Endpoint : T!ListenNet_fails(e)
  <2>1. /\ lost' = lost /\ hpacket' = hpacket /\ delivered' = delivered
        /\ streams' = streams /\ UNCHANGED schedVars
    BY <1>2 DEF T!ListenNet_accept, T!ListenNet_fails, T!streamVars, T!histVars,
       T!schedVars, schedVars
  <2>2. Queued' = Queued /\ Ids(handed)' = Ids(handed)
    BY <2>1 DEF schedVars, Queued
  <2>3. \/ naccepted' = naccepted /\ hpc' = hpc
        \/ naccepted' = naccepted + 1 /\ hpc' = [hpc EXCEPT ![naccepted + 1] = "recv"]
    BY <1>2 DEF T!ListenNet_accept, T!ListenNet_fails
  <2>4. /\ naccepted \in Nat
        /\ hpc \in [Stream -> {"none", "recv", "write", "done", "report"}]
        /\ \A s \in Stream : s > naccepted => hpc[s] = "none"
        /\ streams \in [Stream -> StreamState]
    BY DEF TunnelTypes, PacketTypes, EndTypes, ListenTunTypes
  <2>5. Stream \subseteq Int
    BY SchedAssumption DEF Stream
  <2>6. /\ \A s \in Stream : (hpc'[s] = "write") = (hpc[s] = "write")
        /\ \A s \in Stream : s > naccepted' => hpc'[s] = "none"
    BY <2>3, <2>4, <2>5
  <2>7. PacketTypes' /\ OnceOnStreams' /\ OnceInHands' /\ Stays
    BY <2>1, <2>4, <2>6, StaysCarried DEF TunnelTypes
  <2> QED BY <2>2, <2>7 DEF CarriedStep, Moved
<1> QED BY <1>1, <1>2 DEF Receive

\* WaitOutput moves none.
LEMMA WaitOutputMoves ==
  ASSUME OnceInv, TunnelTypes, CarriedInv, T!WaitOutput
  PROVE  CarriedStep
<1>1. /\ lost' = lost /\ hpacket' = hpacket /\ delivered' = delivered
      /\ streams' = streams /\ naccepted' = naccepted /\ UNCHANGED schedVars
  BY WaitOutputFrame
<1>2. Queued' = Queued /\ Ids(handed)' = Ids(handed)
  BY <1>1 DEF schedVars, Queued
<1>3. \/ hpc' = hpc
      \/ \E s \in Stream : hpc[s] = "report" /\ hpc' = [hpc EXCEPT ![s] = "recv"]
  BY DEF T!WaitOutput, T!LastError_ListenTun, T!LastError_CollectUnused,
     T!LastError_ListenNet, T!LastError_handleStream, T!recvVars, T!Stream, Stream
<1>4. /\ hpc \in [Stream -> {"none", "recv", "write", "done", "report"}]
      /\ \A s \in Stream : s > naccepted => hpc[s] = "none"
      /\ streams \in [Stream -> StreamState]
  BY DEF TunnelTypes, PacketTypes, EndTypes
<1>5. /\ \A s \in Stream : (hpc'[s] = "write") = (hpc[s] = "write")
      /\ \A s \in Stream : s > naccepted => hpc'[s] = "none"
  BY <1>3, <1>4
<1>6. PacketTypes' /\ OnceOnStreams' /\ OnceInHands' /\ Stays
  BY <1>1, <1>4, <1>5, StaysCarried DEF TunnelTypes
<1> QED BY <1>2, <1>6 DEF CarriedStep, Moved

\* The end of the session loses the packets it cuts off.
LEMMA SessionMoves ==
  ASSUME OnceInv, TunnelTypes, CarriedInv, SessionStep
  PROVE  CarriedStep
<1>1. /\ hpacket' = hpacket /\ delivered' = delivered /\ hpc' = hpc
      /\ naccepted' = naccepted /\ UNCHANGED schedVars
  BY SessionFrame
<1>2. Queued' = Queued /\ Ids(handed)' = Ids(handed)
  BY <1>1 DEF schedVars, Queued
<1>3. /\ streams \in [Stream -> StreamState] /\ T!Opened \subseteq Stream
      /\ T!Stream = Stream /\ lost \in SUBSET Id
  <2>1. T!Opened \subseteq Stream
    BY SchedAssumption DEF T!Opened, Stream, TunnelTypes, ListenTunTypes
  <2> QED BY <2>1 DEF TunnelTypes, PacketTypes, T!Stream, Stream
<1>4. CASE streams' = streams /\ lost' = lost
  <2>1. PacketTypes' /\ OnceOnStreams' /\ OnceInHands' /\ Stays
    BY <1>1, <1>3, <1>4, StaysCarried DEF TunnelTypes, PacketTypes
  <2> QED BY <1>2, <2>1 DEF CarriedStep, Moved
<1>5. CASE \E k \in [T!Opened -> 0..Window + 1] :
             streams' = CutTo(k) /\ lost' = lost \cup CutOff(k)
  <2>1. PICK k \in [T!Opened -> 0..Window + 1] :
          streams' = CutTo(k) /\ lost' = lost \cup CutOff(k)
    BY <1>5
  <2>2. PICK P : P = CutOff(k)
    OBVIOUS
  <2>3. /\ streams' \in [Stream -> StreamState] /\ P \subseteq OnStreams
        /\ OnStreams' = OnStreams \ P /\ OnceOnStreams' /\ lost' = lost \cup P
    BY <1>3, <2>1, <2>2, StreamsCut DEF CarriedInv
  <2>4. InHands' = InHands /\ OnceInHands'
    BY <1>1 DEF CarriedInv, InHands, OnceInHands
  <2>5. OnStreams \subseteq Id
    <3>1. Ids(handed) \subseteq Id
      BY IdsType DEF OnceInv, TypeInv, TypeOK
    <3> QED BY <3>1 DEF CarriedInv
  <2>6. PacketTypes'
    BY <1>1, <1>3, <2>3, <2>5 DEF TunnelTypes, PacketTypes
  <2> QED BY <1>1, <1>2, <2>3, <2>4, <2>6 DEF CarriedStep, Moved
<1>6. (streams' = streams /\ lost' = lost) \/
      \E k \in [T!Opened -> 0..Window + 1] :
        streams' = CutTo(k) /\ lost' = lost \cup CutOff(k)
  BY <1>3 DEF SessionStep, T!SessionFails, T!SessionFollows, T!SessionEnds, CutTo, CutOff
<1> QED BY <1>4, <1>5, <1>6

\* Every step moves a packet along, loses some, or moves none.
LEMMA NextMoves ==
  ASSUME OnceInv, OnceInv', TunnelTypes, CarriedInv, T!Next
  PROVE  CarriedStep
BY NextCases, ListenTunMoves, SchedulePacketsMoves, CollectMoves, ReceiveMoves,
   WaitOutputMoves, SessionMoves
-----------------------------------------------------------------------------
(* The invariant.                                                          *)

TunnelInv == OnceInv /\ TunnelTypes /\ CarriedInv

\* Packets that move as they may are never in two places.
LEMMA MovedCarried ==
  ASSUME PacketTypes, CarriedInv, CarriedStep
  PROVE  CarriedInv'
<1>1. /\ OnStreams \subseteq Ids(handed) /\ InHands \subseteq Ids(handed)
      /\ Out \subseteq Ids(handed) /\ lost \subseteq Ids(handed)
      /\ OnStreams \cap InHands = {}
  BY DEF CarriedInv
<1>2. Moved
  BY DEF CarriedStep
<1>3. /\ Ids(handed) \subseteq Ids(handed)'
      /\ OnStreams' \subseteq Ids(handed)' /\ InHands' \subseteq Ids(handed)'
      /\ lost' \subseteq Ids(handed)'
      /\ OnStreams' \cap InHands' = {}
  BY <1>1, <1>2 DEF Moved, Stays
<1>4. delivered' = delivered \/ \E p \in InHands : p \in Id /\ delivered' = Append(delivered, p)
  BY <1>2 DEF Moved, Stays
<1>5. CASE delivered' = delivered
  <2>1. Out' = Out
    BY <1>5 DEF Out
  <2> QED BY <1>1, <1>3, <2>1 DEF CarriedInv, CarriedStep
<1>6. CASE \E p \in InHands : p \in Id /\ delivered' = Append(delivered, p)
  <2>1. PICK p \in InHands : p \in Id /\ delivered' = Append(delivered, p)
    BY <1>6
  <2>2. PICK d \in Seq(Id) : d = delivered
    BY DEF PacketTypes
  <2>3. PICK e : e = delivered'
    OBVIOUS
  <2>4. /\ Len(d) \in Nat /\ Len(e) = Len(d) + 1 /\ e[Len(d) + 1] = p
        /\ \A i \in 1..Len(d) : e[i] = d[i]
    BY <2>1, <2>2, <2>3, AppendProperties, LenProperties
  <2>5. \A i \in 1..Len(e) : i \in 1..Len(d) \/ i = Len(d) + 1
    BY <2>4
  <2>6. {e[i] : i \in 1..Len(e)} \subseteq {d[i] : i \in 1..Len(d)} \cup {p}
    BY <2>4, <2>5
  <2>7. Out' \subseteq Out \cup {p}
    BY <2>2, <2>3, <2>6 DEF Out
  <2> QED BY <1>1, <1>3, <2>1, <2>7 DEF CarriedInv, CarriedStep
<1> QED BY <1>4, <1>5, <1>6

\* At the start there are no packets.
LEMMA InitTunnelInv == T!Init => TunnelInv
<1> SUFFICES ASSUME T!Init PROVE TunnelInv
  OBVIOUS
<1>1. OnceInv
  BY InitIsInit, InitOnceInv
<1>2. /\ MaxPackets \in Nat /\ enqueued = 0
      /\ T!Stream = Stream /\ T!Endpoint = Endpoint
  BY SchedAssumption, InitIsInit DEF Init, T!Stream, Stream, T!Endpoint, Endpoint
<1>3. ListenTunTypes /\ MapTypes /\ SendTypes
  BY <1>2, TransmitterAssumption DEF T!Init, T!NoStream, ListenTunTypes, MapTypes, SendTypes
<1>4. EndTypes
  BY <1>2 DEF T!Init, EndTypes
<1>5. <<>> \in Seq(Id) /\ Len(<<>>) = 0 /\ 1..0 = {}
  BY EmptySeq
<1>6. /\ \A s \in Stream : streams[s].data = <<>> /\ hpacket[s] = 0 /\ hpc[s] = "none"
      /\ delivered = <<>> /\ lost = {}
  BY <1>2 DEF T!Init
<1>7. PacketTypes
  <2>1. streams \in [Stream -> StreamState]
    BY <1>2, <1>5 DEF T!Init, StreamState
  <2>2. hpacket \in [Stream -> Id \cup {0}]
    BY <1>2 DEF T!Init
  <2> QED BY <1>5, <1>6, <2>1, <2>2 DEF PacketTypes
<1>8. OnStreams = {} /\ InHands = {} /\ Out = {} /\ OnceOnStreams /\ OnceInHands
  BY <1>5, <1>6 DEF OnStreams, OnStream, InHands, Out, OnceOnStreams, OnceInHands
<1>9. CarriedInv
  BY <1>6, <1>8 DEF CarriedInv
<1> QED BY <1>1, <1>3, <1>4, <1>7, <1>9 DEF TunnelInv, TunnelTypes

\* A stutter of T changes none of its variables.
LEMMA StutterTunnel ==
  ASSUME UNCHANGED T!vars
  PROVE  /\ UNCHANGED schedVars
         /\ tpc' = tpc /\ tflow' = tflow /\ tstream' = tstream
         /\ cpc' = cpc /\ cflow' = cflow /\ ppc' = ppc /\ pstream' = pstream
         /\ mapInteraction' = mapInteraction /\ mapQuicStream' = mapQuicStream
         /\ nopen' = nopen /\ streams' = streams
         /\ npc' = npc /\ naccepted' = naccepted /\ hpc' = hpc /\ hpacket' = hpacket
         /\ up' = up /\ waiting' = waiting /\ alive' = alive
         /\ delivered' = delivered /\ lost' = lost
BY DEF T!vars, T!schedVars, schedVars, T!tunVars, T!collectVars, T!sendVars, T!mapVars,
   T!streamVars, T!recvVars, T!endVars, T!histVars

\* Every step keeps the invariant.
LEMMA NextTunnelInv == TunnelInv /\ [T!Next]_(T!vars) => TunnelInv'
<1> SUFFICES ASSUME TunnelInv, [T!Next]_(T!vars) PROVE TunnelInv'
  OBVIOUS
<1>1. OnceInv /\ TunnelTypes /\ CarriedInv
  BY DEF TunnelInv
<1>2. CASE T!Next
  <2>1. OnceInv'
    BY <1>1, <1>2, NextOnce DEF TunnelTypes, ListenTunTypes
  <2>2. CarriedStep
    BY <1>1, <1>2, <2>1, NextMoves
  <2>3. CarriedInv'
    BY <1>1, <2>2, MovedCarried DEF TunnelTypes
  <2>4. ListenTunTypes' /\ MapTypes' /\ SendTypes' /\ EndTypes'
    BY <1>1, <1>2, NextListenTunTypes, NextMapTypes, NextSendTypes, NextEndTypes
    DEF TunnelTypes
  <2> QED BY <2>1, <2>2, <2>3, <2>4 DEF TunnelInv, TunnelTypes, CarriedStep
<1>3. CASE UNCHANGED T!vars
  <2>1. OnceInv'
    BY <1>1, <1>3, StutterTunnel, NextOnceInv
  <2>2. TunnelTypes'
    <3>1. ListenTunTypes' /\ MapTypes'
      BY <1>1, <1>3, StutterTunnel DEF schedVars, TunnelTypes, ListenTunTypes, MapTypes
    <3>2. SendTypes' /\ EndTypes'
      BY <1>1, <1>3, StutterTunnel DEF schedVars, TunnelTypes, SendTypes, EndTypes
    <3>3. PacketTypes'
      BY <1>1, <1>3, StutterTunnel DEF TunnelTypes, PacketTypes
    <3> QED BY <3>1, <3>2, <3>3 DEF TunnelTypes
  <2>3. CarriedInv'
    <3>1. OnStreams' = OnStreams /\ InHands' = InHands /\ OnceOnStreams' /\ OnceInHands'
      BY <1>1, <1>3, StutterTunnel, NothingMoves DEF CarriedInv
    <3>2. Out' = Out /\ lost' = lost /\ handed' = handed
      BY <1>3, StutterTunnel DEF schedVars, Out
    <3> QED BY <1>1, <3>1, <3>2 DEF CarriedInv
  <2> QED BY <2>1, <2>2, <2>3 DEF TunnelInv
<1> QED BY <1>2, <1>3
-----------------------------------------------------------------------------
(* The tunnel implements PacketPool. *)

\* The packets on the way, by the place they are in.
LEMMA OnTheWayIsPending == PacketTypes => T!OnTheWay = Pending
<1> SUFFICES ASSUME PacketTypes PROVE T!OnTheWay = Pending
  OBVIOUS
<1>1. \A s \in Stream : DOMAIN streams[s].data = 1..Len(streams[s].data)
  <2>1. \A s \in Stream : streams[s].data \in Seq(Id)
    BY DEF PacketTypes, StreamState
  <2> QED BY <2>1, LenProperties
<1>2. UNION {{streams[s].data[i] : i \in DOMAIN streams[s].data} : s \in DOMAIN streams} = OnStreams
  BY <1>1 DEF OnStreams, OnStream, PacketTypes
<1>3. UNION {{hpacket[s]} \ {0} : s \in DOMAIN hpacket} = InHands
  BY DEF InHands, PacketTypes
<1>4. T!S!Ids(toSendQueue) = Ids(toSendQueue) /\ T!S!Ids(workingSlice) = Ids(workingSlice)
  BY DEF T!S!Ids, Ids
<1> DEFINE A == {{streams[s].data[i] : i \in DOMAIN streams[s].data} : s \in DOMAIN streams}
           B == {{hpacket[s]} \ {0} : s \in DOMAIN hpacket}
<1>5. T!OnTheWay = UNION ({Ids(toSendQueue), Ids(workingSlice)} \cup A \cup B)
  BY <1>4 DEF T!OnTheWay
<1>6. UNION A = OnStreams /\ UNION B = InHands
  BY <1>2, <1>3
<1> HIDE DEF A, B
<1> QED BY <1>5, <1>6 DEF Pending, Queued

\* The same after a step.
LEMMA OnTheWayIsPendingNext == (PacketTypes => T!OnTheWay = Pending)'
BY OnTheWayIsPending, PTL

\* The tunnel starts as an empty pool.
LEMMA InitTunnel == T!Init => T!Tunnel!Init
<1> SUFFICES ASSUME T!Init PROVE T!Tunnel!Init
  OBVIOUS
<1>1. TunnelInv
  BY InitTunnelInv
<1>2. delivered = <<>> /\ lost = {}
  BY DEF T!Init
<1>3. Ids(handed) = {} /\ Queued = {}
  BY InitIsInit, IdsOfEmpty DEF Init, Queued
<1>4. T!OnTheWay = {}
  BY <1>1, <1>3, OnTheWayIsPending DEF TunnelInv, TunnelTypes, CarriedInv, Pending
<1> QED BY <1>2, <1>4 DEF T!Tunnel!Init

\* A packet that moves is put in, taken out, lost, or still on the way.
LEMMA NextTunnel ==
  TunnelInv /\ TunnelInv' /\ [T!Next]_(T!vars) => [T!Tunnel!Next]_(T!Tunnel!poolVars)
<1> SUFFICES ASSUME TunnelInv, TunnelInv', [T!Next]_(T!vars)
             PROVE  [T!Tunnel!Next]_(T!Tunnel!poolVars)
  OBVIOUS
<1>1. OnceInv /\ TunnelTypes /\ CarriedInv /\ PacketTypes /\ PacketTypes'
  BY DEF TunnelInv, TunnelTypes
<1>2. T!OnTheWay = Pending /\ T!OnTheWay' = Pending'
  <2>1. T!OnTheWay = Pending
    BY <1>1, OnTheWayIsPending
  <2>2. T!OnTheWay' = Pending'
    BY <1>1, OnTheWayIsPendingNext
  <2> QED BY <2>1, <2>2
<1>3. CASE UNCHANGED T!vars
  <2>1. Pending' = Pending
    BY <1>3, StutterTunnel DEF schedVars, Pending, Queued, OnStreams, OnStream, InHands
  <2> QED BY <1>2, <1>3, <2>1, StutterTunnel DEF T!Tunnel!poolVars
<1>4. CASE T!Next
  <2>1. Moved
    BY <1>1, <1>4, NextMoves DEF TunnelInv, CarriedStep
  <2>2. /\ OnStreams \subseteq Ids(handed) /\ InHands \subseteq Ids(handed)
        /\ Out \subseteq Ids(handed) /\ lost \subseteq Ids(handed)
        /\ OnStreams \cap InHands = {} /\ Queued \cap Ids(handed) = {}
    BY <1>1 DEF CarriedInv, OnceInv, EachPacketOnce, Queued
  <2>3. \A i \in DOMAIN delivered : delivered[i] \in Out
    <3>1. DOMAIN delivered = 1..Len(delivered)
      BY <1>1, LenProperties DEF PacketTypes
    <3> QED BY <3>1 DEF Out
  <2>4. T!Id = Id
    BY DEF T!Id, Id
  <2>5. CASE /\ \E p \in Id \ (Queued \cup Ids(handed)) : Queued' = Queued \cup {p}
             /\ Ids(handed)' = Ids(handed) /\ Stays
    <3>1. PICK p \in Id \ (Queued \cup Ids(handed)) : Queued' = Queued \cup {p}
      BY <2>5
    <3>2. Pending' = Pending \cup {p} /\ delivered' = delivered /\ lost' = lost
      BY <2>5, <3>1 DEF Stays, Pending
    <3>3. p \notin Pending \cup lost /\ \A i \in DOMAIN delivered : delivered[i] # p
      BY <2>2, <2>3, <3>1 DEF Pending
    <3>4. T!Tunnel!Put(p)
      BY <1>2, <3>2, <3>3 DEF T!Tunnel!Put
    <3> QED BY <2>4, <3>4 DEF T!Tunnel!Next, T!Tunnel!LosslessNext
  <2>6. CASE \E p \in Queued \ Ids(handed) :
               /\ Queued' = Queued \ {p} /\ Ids(handed)' = Ids(handed) \cup {p}
               /\ UNCHANGED <<InHands, delivered>>
               /\ \/ OnStreams' = OnStreams \cup {p} /\ lost' = lost
                  \/ OnStreams' = OnStreams /\ lost' = lost \cup {p}
    <3>1. PICK p \in Queued \ Ids(handed) :
               /\ Queued' = Queued \ {p} /\ InHands' = InHands /\ delivered' = delivered
               /\ \/ OnStreams' = OnStreams \cup {p} /\ lost' = lost
                  \/ OnStreams' = OnStreams /\ lost' = lost \cup {p}
      BY <2>6
    <3>2. CASE OnStreams' = OnStreams \cup {p} /\ lost' = lost
      <4>1. Pending' = Pending
        BY <3>1, <3>2 DEF Pending
      <4> QED BY <1>2, <3>1, <3>2, <4>1 DEF T!Tunnel!poolVars
    <3>3. CASE OnStreams' = OnStreams /\ lost' = lost \cup {p}
      <4>1. Pending' = Pending \ {p} /\ {p} \in SUBSET Pending
        BY <2>2, <3>1, <3>3 DEF Pending
      <4>2. T!Tunnel!Lose({p})
        BY <1>2, <3>1, <3>3, <4>1 DEF T!Tunnel!Lose
      <4> QED BY <1>2, <4>1, <4>2 DEF T!Tunnel!Next
    <3> QED BY <3>1, <3>2, <3>3
  <2>7. CASE Queued' = Queued /\ Stays
    <3>1. Pending' = Pending
      BY <2>7 DEF Pending, Stays
    <3> QED BY <1>2, <2>7, <3>1 DEF Stays, T!Tunnel!poolVars
  <2>8. CASE /\ Queued' = Queued
             /\ \E p \in OnStreams : /\ OnStreams' = OnStreams \ {p}
                                     /\ InHands' = InHands \cup {p}
                                     /\ UNCHANGED <<delivered, lost>>
    <3>1. Pending' = Pending
      BY <2>8 DEF Pending
    <3> QED BY <1>2, <2>8, <3>1 DEF T!Tunnel!poolVars
  <2>9. CASE /\ Queued' = Queued
             /\ \E p \in InHands : /\ p \in Id /\ InHands' = InHands \ {p}
                                   /\ delivered' = Append(delivered, p)
                                   /\ UNCHANGED <<OnStreams, lost>>
    <3>1. PICK p \in InHands : /\ p \in Id /\ InHands' = InHands \ {p}
                               /\ delivered' = Append(delivered, p)
                               /\ OnStreams' = OnStreams /\ lost' = lost
      BY <2>9
    <3>2. Pending' = Pending \ {p} /\ p \in Pending
      BY <2>2, <2>9, <3>1 DEF Pending
    <3>3. T!Tunnel!Take(p)
      BY <1>2, <3>1, <3>2 DEF T!Tunnel!Take
    <3> QED BY <2>4, <3>1, <3>3 DEF T!Tunnel!Next, T!Tunnel!LosslessNext
  <2>10. CASE /\ Queued' = Queued
              /\ \E P \in SUBSET OnStreams : /\ OnStreams' = OnStreams \ P
                                             /\ lost' = lost \cup P
                                             /\ UNCHANGED <<InHands, delivered>>
    <3>1. PICK P \in SUBSET OnStreams : /\ OnStreams' = OnStreams \ P
                                        /\ lost' = lost \cup P
                                        /\ InHands' = InHands /\ delivered' = delivered
      BY <2>10
    <3>2. Pending' = Pending \ P /\ P \in SUBSET Pending
      BY <2>2, <2>10, <3>1 DEF Pending
    <3>3. T!Tunnel!Lose(P)
      BY <1>2, <3>1, <3>2 DEF T!Tunnel!Lose
    <3> QED BY <1>2, <3>2, <3>3 DEF T!Tunnel!Next
  <2> QED BY <2>1, <2>5, <2>6, <2>7, <2>8, <2>9, <2>10 DEF Moved
<1> QED BY <1>3, <1>4

\* The tunnel is an IP-like carrier: each packet comes out at most once, and
\* only packets put in do, whatever fails and however the goroutines of the two
\* endpoints interleave.
THEOREM TunnelCarriesPackets == T!Spec => CarriesPackets
BY InitTunnelInv, NextTunnelInv, InitTunnel, NextTunnel, PTL
DEF CarriesPackets, T!Spec, T!TunnelSpec, T!Tunnel!Spec

\* The variables of the tunnel have their types: in particular a stream number
\* of ListenTun, sendPacket or the map is one of a stream.
THEOREM TunnelTypeCorrect == T!Spec => []T!TypeOK
<1>1. TunnelInv => T!TypeOK
  <2> SUFFICES ASSUME TunnelInv PROVE T!TypeOK
    OBVIOUS
  <2>1. T!S!TypeOK
    BY DEF TunnelInv, OnceInv, TypeInv, TypeOK, T!S!TypeOK, T!S!Packet, Packet, T!S!Id, Id
  <2>2. /\ T!Stream = Stream /\ T!Endpoint = Endpoint /\ T!Id = Id /\ T!NoStream = 0
        /\ [data : Seq(Id), fin : BOOLEAN, peerFin : BOOLEAN, finRead : BOOLEAN,
            cut : BOOLEAN] = StreamState
    BY DEF T!Stream, Stream, T!Endpoint, Endpoint, T!Id, Id, T!NoStream, StreamState
  <2>3. ListenTunTypes /\ MapTypes /\ SendTypes /\ EndTypes /\ PacketTypes
    BY DEF TunnelInv, TunnelTypes
  <2> QED BY <2>1, <2>2, <2>3 DEF T!TypeOK, ListenTunTypes, MapTypes, SendTypes, EndTypes,
        PacketTypes
<1> QED BY InitTunnelInv, NextTunnelInv, <1>1, PTL DEF T!Spec
-----------------------------------------------------------------------------
(* The headers sendPacket marks (IpPacket), for every size of a word and   *)
(* of a header: Ip of MCTunnel is Header(8, 4, 1).                         *)
Header(WordSize, HeaderWords, MaxOptions) == INSTANCE IpPacket

\* A set of numbers has a least one.
LEMMA HasMin == ASSUME NEW K \in SUBSET Nat, K # {} PROVE \E x \in K : \A y \in K : x <= y
<1>1. IsWellFoundedOn(OpToRel(<, Nat), Nat)
  BY NatLessThanWellFounded
<1>2. PICK x \in K : \A y \in K : ~ (<<y, x>> \in OpToRel(<, Nat))
  BY <1>1, WFMin
<1>3. \A y \in K : ~ (y < x)
  BY <1>2 DEF OpToRel
<1> QED BY <1>3

\* Of some subsets of a finite set, one has no other one a single element below it.
LEMMA Smallest ==
  ASSUME NEW I, IsFiniteSet(I), NEW D, D \subseteq SUBSET I, D # {}
  PROVE  \E s \in D : \A x \in s : s \ {x} \notin D
<1> DEFINE K == {Cardinality(s) : s \in D}
<1>1. \A s \in D : IsFiniteSet(s) /\ Cardinality(s) \in Nat
  BY FS_Subset, FS_CardinalityType
<1>2. PICK size \in K : \A y \in K : size <= y
  <2>1. K \in SUBSET Nat /\ K # {}
    BY <1>1
  <2> QED BY <2>1, HasMin
<1>3. PICK s \in D : Cardinality(s) = size
  BY <1>2
<1>4. \A x \in s : Cardinality(s \ {x}) = Cardinality(s) - 1
  BY <1>1, FS_RemoveElement
<1>5. ASSUME NEW x \in s, s \ {x} \in D PROVE FALSE
  <2>1. Cardinality(s) <= Cardinality(s \ {x}) /\ Cardinality(s) \in Nat
    BY <1>1, <1>2, <1>3, <1>5
  <2> QED BY <2>1, <1>4
<1> QED BY <1>5

\* The sum of h over a finite set, as the fold of the library computes it:
\* one chosen element after the other.
Pick(s) == CHOOSE x \in s : TRUE
Fold(h, I) ==
  (CHOOSE g : g = [s \in SUBSET I |->
                     IF s = {} THEN 0 ELSE h[Pick(s)] + g[s \ {Pick(s)}]])[I]
IsFold(g, h, I) ==
  /\ g \in [SUBSET I -> Nat]
  /\ \A s \in SUBSET I : g[s] = IF s = {} THEN 0 ELSE h[Pick(s)] + g[s \ {Pick(s)}]

LEMMA WordSumIsFold ==
  ASSUME NEW W, NEW H, NEW M, NEW h, NEW I
  PROVE  Header(W, H, M)!WordSum(h, I) = Fold(h, I)
BY DEF Header!WordSum, Header!MapThenSumSet, Header!MapThenFoldSet, Fold, Pick

LEMMA PickIn == ASSUME NEW s, s # {} PROVE Pick(s) \in s
BY DEF Pick

\* There is a fold over the subsets of any finite set.
LEMMA FoldExists ==
  ASSUME NEW I, IsFiniteSet(I), NEW h, \A i \in I : h[i] \in Nat
  PROVE  \E g : IsFold(g, h, I)
<1> DEFINE Level(size) == {s \in SUBSET I : Cardinality(s) <= size}
           Upto(g, size) == /\ g \in [Level(size) -> Nat]
                            /\ \A s \in Level(size) :
                                 g[s] = IF s = {} THEN 0 ELSE h[Pick(s)] + g[s \ {Pick(s)}]
           K == {size \in Nat : ~ \E g : Upto(g, size)}
<1>fin. \A s \in SUBSET I : IsFiniteSet(s) /\ Cardinality(s) \in Nat
                            /\ (Cardinality(s) = 0 <=> s = {})
  BY FS_Subset, FS_EmptySet, FS_CardinalityType
<1>less. \A s \in SUBSET I : s # {} =>
            /\ Pick(s) \in I /\ s \ {Pick(s)} \in SUBSET I
            /\ Cardinality(s \ {Pick(s)}) = Cardinality(s) - 1
  BY <1>fin, FS_RemoveElement, PickIn
<1>1. K = {}
  <2> SUFFICES ASSUME K # {} PROVE FALSE
    OBVIOUS
  <2>1. PICK size \in K : \A y \in K : size <= y
    BY HasMin
  <2>2. CASE size = 0
    <3> DEFINE g == [s \in Level(0) |-> 0]
    <3>1. \A s \in Level(0) : s = {}
      BY <1>fin
    <3>2. Upto(g, 0)
      BY <3>1
    <3>3. \E f : Upto(f, 0)
      BY <3>2
    <3>4. 0 \notin K
      <4> HIDE DEF Upto
      <4> QED BY <3>3
    <3> HIDE DEF K
    <3> QED BY <2>1, <2>2, <3>4
  <2>3. CASE size # 0
    <3>0. K \in SUBSET Nat
      OBVIOUS
    <3>1. size - 1 \in Nat /\ size - 1 \notin K
      <4> HIDE DEF K
      <4>1. size \in Nat
        BY <3>0
      <4>2. size - 1 \in Nat
        BY <4>1, <2>3
      <4>3. size - 1 \in K => size <= size - 1
        BY <2>1
      <4> QED BY <4>1, <4>2, <4>3
    <3>2. PICK g : Upto(g, size - 1)
      BY <3>1
    <3> DEFINE G == [s \in Level(size) |->
                       IF s \in Level(size - 1) THEN g[s]
                       ELSE h[Pick(s)] + g[s \ {Pick(s)}]]
    <3>3. \A s \in Level(size) : s # {} => s \ {Pick(s)} \in Level(size - 1)
      BY <1>fin, <1>less, <3>1
    <3>4. \A s \in Level(size - 1) : s \in Level(size)
      BY <1>fin, <3>1
    <3>5. {} \in Level(size - 1)
      BY <1>fin, <3>1
    <3> HIDE DEF Level
    <3>6. \A s \in Level(size - 1) : g[s] \in Nat
      BY <3>2
    <3>7. \A s \in Level(size) : G[s] \in Nat
      <4> SUFFICES ASSUME NEW s \in Level(size) PROVE G[s] \in Nat
        OBVIOUS
      <4>1. CASE s \in Level(size - 1)
        BY <4>1, <3>6
      <4>2. CASE s \notin Level(size - 1)
        <5>1. s # {} /\ s \in SUBSET I
          BY <3>5, <4>2 DEF Level
        <5>2. h[Pick(s)] \in Nat
          BY <5>1, <1>less
        <5>3. g[s \ {Pick(s)}] \in Nat
          BY <5>1, <3>3, <3>6
        <5> QED BY <5>2, <5>3, <4>2
      <4> QED BY <4>1, <4>2
    <3>8. \A s \in Level(size) : 
             G[s] = IF s = {} THEN 0 ELSE h[Pick(s)] + G[s \ {Pick(s)}]
      <4> SUFFICES ASSUME NEW s \in Level(size)
                   PROVE  G[s] = IF s = {} THEN 0 ELSE h[Pick(s)] + G[s \ {Pick(s)}]
        OBVIOUS
      <4>1. CASE s = {}
        BY <4>1, <3>5, <3>2
      <4>2. CASE s # {}
        <5>1. s \ {Pick(s)} \in Level(size - 1) /\ s \ {Pick(s)} \in Level(size)
          BY <4>2, <3>3, <3>4
        <5>2. G[s \ {Pick(s)}] = g[s \ {Pick(s)}]
          BY <5>1
        <5>3. CASE s \in Level(size - 1)
          BY <5>3, <3>2, <4>2, <5>2
        <5>4. CASE s \notin Level(size - 1)
          BY <5>4, <4>2, <5>2
        <5> QED BY <5>3, <5>4
      <4> QED BY <4>1, <4>2
    <3>9. Upto(G, size)
      BY <3>7, <3>8
    <3> QED BY <3>9, <2>1
  <2> QED BY <2>2, <2>3
<1>2. PICK g : Upto(g, Cardinality(I))
  BY <1>1, <1>fin
<1>3. Level(Cardinality(I)) = SUBSET I
  BY FS_Subset, <1>fin
<1> QED BY <1>2, <1>3 DEF IsFold

\* Two folds agree wherever both are defined.
LEMMA FoldsAgree ==
  ASSUME NEW I, IsFiniteSet(I), NEW J, NEW h, NEW f, NEW g,
         IsFold(f, h, I), IsFold(g, h, J), J \subseteq I
  PROVE  \A s \in SUBSET J : f[s] = g[s]
<1> DEFINE D == {s \in SUBSET J : f[s] # g[s]}
<1> SUFFICES ASSUME D # {} PROVE FALSE
  OBVIOUS
<1>1. PICK s \in D : \A x \in s : s \ {x} \notin D
  <2>1. IsFiniteSet(J)
    BY FS_Subset
  <2> QED BY <2>1, Smallest
<1>2. s # {}
  BY DEF IsFold
<1>3. s \ {Pick(s)} \in (SUBSET J) \ D
  BY <1>1, <1>2, PickIn
<1> QED BY <1>2, <1>3 DEF IsFold

\* What a sum is: a natural number, the sum of the words one after the other.
LEMMA FoldDef ==
  ASSUME NEW I, IsFiniteSet(I), NEW h, \A i \in I : h[i] \in Nat
  PROVE  /\ Fold(h, I) \in Nat
         /\ I = {} => Fold(h, I) = 0
         /\ I # {} => Fold(h, I) = h[Pick(I)] + Fold(h, I \ {Pick(I)})
<1> DEFINE Is(g, S) == g = [s \in SUBSET S |->
                     IF s = {} THEN 0 ELSE h[Pick(s)] + g[s \ {Pick(s)}]]
<1>1. ASSUME NEW S \in SUBSET I
      PROVE  \E g : IsFold(g, h, S) /\ Fold(h, S) = g[S]
  <2>1. IsFiniteSet(S)
    BY FS_Subset
  <2>2. PICK g : IsFold(g, h, S)
    BY <2>1, FoldExists
  <2>3. Is(g, S)
    BY <2>2 DEF IsFold
  <2> DEFINE f == CHOOSE f : Is(f, S)
  <2>4. Is(f, S)
    BY <2>3
  <2>5. IsFold(f, h, S)
    <3>1. \A s \in SUBSET S : f[s] = g[s]
      <4> DEFINE D == {s \in SUBSET S : f[s] # g[s]}
      <4> SUFFICES ASSUME D # {} PROVE FALSE
        OBVIOUS
      <4> HIDE DEF f
      <4>1. PICK s \in D : \A x \in s : s \ {x} \notin D
        BY <2>1, Smallest
      <4>2. s # {}
        BY <2>3, <2>4
      <4>3. s \ {Pick(s)} \in (SUBSET S) \ D
        BY <4>1, <4>2, PickIn
      <4> QED BY <4>2, <4>3, <2>3, <2>4
    <3>2. f = g
      <4> HIDE DEF f
      <4> QED BY <3>1, <2>3, <2>4
    <3> QED BY <3>2, <2>2
  <2>6. Fold(h, S) = f[S]
    BY DEF Fold
  <2> HIDE DEF f
  <2> QED BY <2>5, <2>6
<1>2. PICK g : IsFold(g, h, I) /\ Fold(h, I) = g[I]
  BY <1>1
<1>3. ASSUME I # {} PROVE Fold(h, I) = h[Pick(I)] + Fold(h, I \ {Pick(I)})
  <2> DEFINE J == I \ {Pick(I)}
  <2>1. PICK k : IsFold(k, h, J) /\ Fold(h, J) = k[J]
    BY <1>1
  <2>2. g[J] = k[J]
    BY <1>2, <2>1, FoldsAgree
  <2> QED BY <1>2, <1>3, <2>1, <2>2 DEF IsFold
<1> QED BY <1>2, <1>3 DEF IsFold

\* The order makes no difference: any word can be the last one.
LEMMA FoldAdd ==
  ASSUME NEW I, IsFiniteSet(I), NEW h, \A i \in I : h[i] \in Nat,
         NEW S \in SUBSET I, NEW x \in I, x \notin S
  PROVE  Fold(h, S \cup {x}) = h[x] + Fold(h, S)
<1> DEFINE D == {s \in SUBSET I : \E y \in I :
                   y \notin s /\ Fold(h, s \cup {y}) # h[y] + Fold(h, s)}
<1>def. \A s \in SUBSET I :
          /\ Fold(h, s) \in Nat
          /\ s # {} => Fold(h, s) = h[Pick(s)] + Fold(h, s \ {Pick(s)})
  BY FS_Subset, FoldDef
<1> SUFFICES ASSUME D # {} PROVE FALSE
  OBVIOUS
<1>1. PICK s \in D : \A z \in s : s \ {z} \notin D
  BY Smallest
<1>2. PICK y \in I : y \notin s /\ Fold(h, s \cup {y}) # h[y] + Fold(h, s)
  BY <1>1
<1> DEFINE t == s \cup {y}
           z == Pick(t)
           r == s \ {z}
<1>3. t \in SUBSET I /\ z \in t /\ Fold(h, t) = h[z] + Fold(h, t \ {z})
  BY <1>def, PickIn
<1>4. z # y
  <2> SUFFICES ASSUME z = y PROVE FALSE
    OBVIOUS
  <2>1. t \ {z} = s
    BY <1>2
  <2> QED BY <2>1, <1>2, <1>3
<1>5. /\ z \in s /\ z \in I /\ y \notin r /\ z \notin r /\ r \in SUBSET I
      /\ t \ {z} = r \cup {y} /\ s = r \cup {z}
  BY <1>2, <1>3, <1>4
<1>6. r \notin D
  BY <1>1, <1>5
<1>7. Fold(h, r \cup {y}) = h[y] + Fold(h, r) /\ Fold(h, r \cup {z}) = h[z] + Fold(h, r)
  BY <1>5, <1>6
<1>8. h[y] \in Nat /\ h[z] \in Nat /\ Fold(h, r) \in Nat
  BY <1>5, <1>def
<1>9. Fold(h, t) = h[z] + (h[y] + Fold(h, r)) /\ Fold(h, s) = h[z] + Fold(h, r)
  BY <1>3, <1>5, <1>7
<1>10. Fold(h, t) = h[y] + Fold(h, s)
  <2> DEFINE p == h[y]  q == h[z]  u == Fold(h, r)  v == Fold(h, s)  w == Fold(h, t)
  <2>1. p \in Nat /\ q \in Nat /\ u \in Nat /\ w = q + (p + u) /\ v = q + u
    BY <1>8, <1>9
  <2> HIDE DEF p, q, u, v, w
  <2>2. w = p + v
    BY <2>1
  <2> QED BY <2>2 DEF p, v, w
<1> QED BY <1>2, <1>10

\* The sum over two sets that have nothing in common.
LEMMA FoldUnion ==
  ASSUME NEW I, IsFiniteSet(I), NEW h, \A i \in I : h[i] \in Nat,
         NEW A \in SUBSET I, NEW B \in SUBSET I, A \cap B = {}
  PROVE  Fold(h, A \cup B) = Fold(h, A) + Fold(h, B)
<1> DEFINE D == {b \in SUBSET B : Fold(h, A \cup b) # Fold(h, A) + Fold(h, b)}
<1>def. \A s \in SUBSET I : Fold(h, s) \in Nat /\ (s = {} => Fold(h, s) = 0)
  BY FS_Subset, FoldDef
<1> SUFFICES ASSUME D # {} PROVE FALSE
  OBVIOUS
<1>1. PICK s \in D : \A z \in s : s \ {z} \notin D
  <2>1. IsFiniteSet(B)
    BY FS_Subset
  <2> QED BY <2>1, Smallest
<1>2. s # {}
  <2> SUFFICES ASSUME s = {} PROVE FALSE
    OBVIOUS
  <2>1. A \cup s = A /\ Fold(h, s) = 0 /\ Fold(h, A) \in Nat
    BY <1>def
  <2> QED BY <2>1
<1> DEFINE x == Pick(s)
           r == s \ {x}
<1>3. /\ x \in s /\ x \in I /\ x \notin r /\ s = r \cup {x}
      /\ r \in SUBSET I /\ r \in SUBSET B
      /\ A \cup r \in SUBSET I /\ x \notin A \cup r /\ A \cup s = (A \cup r) \cup {x}
  BY <1>2, PickIn
<1>4. r \notin D
  BY <1>1, <1>3
<1> HIDE DEF x, r
<1>5. Fold(h, s) = h[x] + Fold(h, r)
  BY <1>3, FoldAdd
<1>6. Fold(h, A \cup s) = h[x] + Fold(h, A \cup r)
  BY <1>3, FoldAdd
<1>7. Fold(h, A \cup r) = Fold(h, A) + Fold(h, r)
  BY <1>3, <1>4
<1>8. Fold(h, A) \in Nat /\ Fold(h, r) \in Nat /\ h[x] \in Nat
  BY <1>3, <1>def
<1> QED BY <1>5, <1>6, <1>7, <1>8

\* The sum depends on nothing but the words that are in it.
LEMMA FoldSame ==
  ASSUME NEW I, IsFiniteSet(I), NEW h, \A i \in I : h[i] \in Nat,
         NEW k, \A i \in I : k[i] = h[i]
  PROVE  Fold(k, I) = Fold(h, I)
<1> DEFINE D == {s \in SUBSET I : Fold(k, s) # Fold(h, s)}
<1>def. \A s \in SUBSET I :
          /\ s = {} => Fold(h, s) = 0 /\ Fold(k, s) = 0
          /\ s # {} => /\ Fold(h, s) = h[Pick(s)] + Fold(h, s \ {Pick(s)})
                       /\ Fold(k, s) = k[Pick(s)] + Fold(k, s \ {Pick(s)})
  BY FS_Subset, FoldDef
<1> SUFFICES ASSUME D # {} PROVE FALSE
  OBVIOUS
<1>1. PICK s \in D : \A z \in s : s \ {z} \notin D
  BY Smallest
<1>2. s # {}
  BY <1>def
<1>3. Pick(s) \in I /\ s \ {Pick(s)} \in (SUBSET I) \ D
  BY <1>1, <1>2, PickIn
<1> QED BY <1>2, <1>3, <1>def
-----------------------------------------------------------------------------
(* One's complement addition is addition modulo AllOnes. *)

\* A multiple of the divisor makes no difference to the remainder.
LEMMA ModMultiple ==
  ASSUME NEW m \in Nat, m >= 1, NEW a \in Nat, NEW k \in Nat
  PROVE  (a + k * m) % m = a % m
<1> DEFINE q == a \div m
           r == a % m
           Q == (a + k * m) \div m
           R == (a + k * m) % m
<1>1. k * m \in Nat /\ a + k * m \in Nat
  OBVIOUS
<1>2. a = m * q + r /\ r \in 0..(m - 1) /\ q \in Int
  OBVIOUS
<1>3. a + k * m = m * Q + R /\ R \in 0..(m - 1) /\ Q \in Int
  BY <1>1
<1> HIDE DEF q, r, Q, R
<1>4. R - r = m * (q + k - Q)
  BY <1>2, <1>3
<1>5. \A d \in Int : m * d < m /\ m * d > 0 - m => d = 0
  OBVIOUS
<1>6. q + k - Q = 0
  <2>1. R - r < m /\ R - r > 0 - m
    BY <1>2, <1>3
  <2> QED BY <2>1, <1>4, <1>5, <1>2, <1>3
<1> QED BY <1>4, <1>6, <1>2, <1>3 DEF r, R

\* The remainder of a sum is that of the sum of the remainders.
LEMMA ModSum ==
  ASSUME NEW m \in Nat, m >= 1, NEW a \in Nat, NEW b \in Nat
  PROVE  (a + b) % m = ((a % m) + b) % m
<1>1. PICK k \in Nat : a = (a % m) + k * m
  <2>1. a \div m \in Nat /\ a = (a % m) + (a \div m) * m
    OBVIOUS
  <2> QED BY <2>1
<1>2. a % m \in Nat /\ (a % m) + b \in Nat
  OBVIOUS
<1> DEFINE c == (a % m) + b
<1>3. a + b = c + k * m /\ c \in Nat
  BY <1>1, <1>2
<1> HIDE DEF c
<1>4. (c + k * m) % m = c % m
  BY <1>3, ModMultiple
<1>5. (a + b) % m = c % m
  BY <1>3, <1>4
<1> QED BY <1>5 DEF c

\* What adding the carries until there are none leaves of a sum.
Rest(m, sum) == IF sum = 0 THEN 0 ELSE ((sum - 1) % m) + 1

\* One addition of the carries makes no difference to it, and ends.
LEMMA CarryStep ==
  ASSUME NEW W \in Nat, W >= 2, NEW sum \in Nat, sum >= W
  PROVE  /\ sum \div W + (sum % W) \in Nat
         /\ sum \div W + (sum % W) < sum
         /\ Rest(W - 1, sum \div W + (sum % W)) = Rest(W - 1, sum)
<1> DEFINE q == sum \div W
           r == sum % W
<1>1. sum = W * q + r /\ r \in 0..(W - 1) /\ q \in Nat
  OBVIOUS
<1>2. q >= 1
  <2>1. CASE q = 0
    BY <1>1, <2>1
  <2> QED BY <1>1, <2>1
<1> HIDE DEF q, r
<1>3. sum = (q + r) + q * (W - 1)
  BY <1>1
<1>4. q * (W - 1) >= 1
  BY <1>1, <1>2
<1>5. (q + r) - 1 \in Nat /\ q * (W - 1) \in Nat /\ sum - 1 = ((q + r) - 1) + q * (W - 1)
  BY <1>1, <1>2, <1>3
<1>6. (sum - 1) % (W - 1) = ((q + r) - 1) % (W - 1)
  <2> DEFINE m == W - 1
             a == (q + r) - 1
  <2>1. m \in Nat /\ m >= 1 /\ a \in Nat /\ q \in Nat /\ sum - 1 = a + q * m
    BY <1>1, <1>5
  <2> HIDE DEF m, a
  <2>2. (a + q * m) % m = a % m
    BY <2>1, ModMultiple
  <2>3. (sum - 1) % m = a % m
    BY <2>1, <2>2
  <2> QED BY <2>3 DEF m, a
<1>7. q + r \in Nat /\ q + r < sum
  BY <1>1, <1>3, <1>4
<1>8. q + r # 0 /\ sum # 0
  BY <1>1, <1>2
<1>9. Rest(W - 1, q + r) = Rest(W - 1, sum)
  <2>1. Rest(W - 1, sum) = ((sum - 1) % (W - 1)) + 1
    BY <1>8, Zenon DEF Rest
  <2>2. Rest(W - 1, q + r) = (((q + r) - 1) % (W - 1)) + 1
    BY <1>8, Zenon DEF Rest
  <2> QED BY <1>6, <2>1, <2>2, Zenon
<1> QED BY <1>7, <1>9 DEF q, r

\* Rest in terms of the remainder.
LEMMA RestMod ==
  ASSUME NEW m \in Nat, m >= 1, NEW sum \in Nat
  PROVE  /\ Rest(m, sum) \in 0..m
         /\ Rest(m, sum) % m = sum % m
         /\ Rest(m, sum) = m <=> sum # 0 /\ sum % m = 0
<1>1. CASE sum = 0
  <2>1. Rest(m, sum) = 0
    BY <1>1 DEF Rest
  <2> QED BY <1>1, <2>1
<1>2. CASE sum # 0
  <2> DEFINE r == (sum - 1) % m
  <2>1. sum - 1 \in Nat /\ r \in 0..(m - 1) /\ Rest(m, sum) = r + 1
    BY <1>2 DEF Rest
  <2>2. sum % m = (r + 1) % m
    <3>1. ((sum - 1) + 1) % m = (r + 1) % m
      BY <2>1, ModSum
    <3> QED BY <3>1
  <2> HIDE DEF r
  <2>3. CASE r + 1 = m
    <3>1. m % m = 0
      <4>1. (0 + 1 * m) % m = 0 % m
        BY ModMultiple
      <4>2. 0 % m = 0
        OBVIOUS
      <4> QED BY <4>1, <4>2
    <3> QED BY <1>2, <2>1, <2>2, <2>3, <3>1
  <2>4. CASE r + 1 < m
    <3>1. (r + 1) % m = r + 1
      BY <2>1, <2>4
    <3> QED BY <1>2, <2>1, <2>2, <2>4, <3>1
  <2> QED BY <2>1, <2>3, <2>4
<1> QED BY <1>1, <1>2

\* Folded is Rest: the loop of recomputeV4Checksum computes the sum modulo
\* AllOnes, with AllOnes for 0 unless every word is 0.
LEMMA FoldedIsRest ==
  ASSUME NEW W \in Nat, W >= 2, NEW H, NEW M, NEW sum \in Nat
  PROVE  Header(W, H, M)!Folded[sum] = Rest(W - 1, sum)
<1> DEFINE Is(f) == f = [s \in Nat |-> IF s <= W - 1 THEN s ELSE f[s \div W + (s % W)]]
           R == [s \in Nat |-> Rest(W - 1, s)]
           F == CHOOSE f : Is(f)
<1>1. Header(W, H, M)!Folded = F
  BY DEF Header!Folded, Header!AllOnes
<1>2. Is(R)
  <2>1. \A s \in Nat : s <= W - 1 => Rest(W - 1, s) = s
    <3> SUFFICES ASSUME NEW s \in Nat, s <= W - 1 PROVE Rest(W - 1, s) = s
      OBVIOUS
    <3>1. CASE s = 0
      BY <3>1 DEF Rest
    <3>2. CASE s # 0
      <4>1. (s - 1) % (W - 1) = s - 1
        BY <3>2
      <4> QED BY <3>2, <4>1 DEF Rest
    <3> QED BY <3>1, <3>2
  <2>2. \A s \in Nat : ~ s <= W - 1 => /\ s \div W + (s % W) \in Nat
                                       /\ Rest(W - 1, s \div W + (s % W)) = Rest(W - 1, s)
    <3> SUFFICES ASSUME NEW s \in Nat, ~ s <= W - 1
                 PROVE  /\ s \div W + (s % W) \in Nat
                        /\ Rest(W - 1, s \div W + (s % W)) = Rest(W - 1, s)
      OBVIOUS
    <3>1. s >= W
      OBVIOUS
    <3> QED BY <3>1, CarryStep
  <2>3. R = [s \in Nat |-> IF s <= W - 1 THEN s ELSE R[s \div W + (s % W)]]
    BY <2>1, <2>2
  <2> QED BY <2>3
<1>3. Is(F)
  BY <1>2
<1> HIDE DEF F
<1> DEFINE D == {s \in Nat : F[s] # R[s]}
<1>4. D = {}
  <2> SUFFICES ASSUME D # {} PROVE FALSE
    OBVIOUS
  <2>1. PICK s \in D : \A y \in D : s <= y
    BY HasMin
  <2> DEFINE t == s \div W + (s % W)
  <2>2. ~ s <= W - 1
    BY <1>2, <1>3
  <2>3. t \in Nat /\ t < s
    <3>1. s >= W /\ s \in Nat
      BY <2>2
    <3> QED BY <3>1, CarryStep
  <2>4. F[s] = F[t] /\ R[s] = R[t]
    <3> HIDE DEF R
    <3> QED BY <1>2, <1>3, <2>2
  <2>5. t \notin D
    BY <2>1, <2>3
  <2> QED BY <2>3, <2>4, <2>5
<1> QED BY <1>1, <1>4
-----------------------------------------------------------------------------
(* MarkECN.  sendPacket puts 3 into the two low bits of the first word, so *)
(* that no header it has marked is all zeros, and sums the words before    *)
(* the options but the checksum.                                           *)

\* The words of a header.
HeaderType(W, H) ==
  \E len \in Nat : len >= H /\ header \in [1..len -> 0..(W - 1)]

\* A header with a checksum over some of its words is valid if the rest of
\* them has no weight.
LEMMA ChecksumOver ==
  ASSUME NEW m \in Nat, m >= 1, NEW s \in Nat, s # 0, NEW o \in Nat
  PROVE  Rest(m, s + (m - Rest(m, s)) + o) = m <=> o % m = 0
<1> DEFINE c == m - Rest(m, s)
<1>1. c \in Nat /\ Rest(m, s) % m = s % m /\ Rest(m, s) + c = m /\ Rest(m, s) \in Nat
  <2>1. Rest(m, s) \in 0..m /\ Rest(m, s) % m = s % m
    BY RestMod
  <2> DEFINE r == Rest(m, s)
  <2>2. r \in 0..m
    BY <2>1
  <2> HIDE DEF r
  <2>3. m - r \in Nat /\ r + (m - r) = m /\ r \in Nat
    BY <2>2
  <2> QED BY <2>1, <2>3 DEF r
<1> HIDE DEF c
<1>2. (s + c) % m = 0
  <2>1. (s + c) % m = ((s % m) + c) % m
    BY <1>1, ModSum
  <2>2. (Rest(m, s) + c) % m = ((Rest(m, s) % m) + c) % m
    BY <1>1, ModSum
  <2>3. m % m = 0
    <3>1. (0 + 1 * m) % m = 0 % m
      BY ModMultiple
    <3> QED BY <3>1
  <2> QED BY <1>1, <2>1, <2>2, <2>3
<1>3. ((s + c) + o) % m = o % m
  <2> DEFINE a == s + c
  <2>1. a \in Nat
    BY <1>1
  <2> HIDE DEF a
  <2>2. (a + o) % m = ((a % m) + o) % m
    BY <2>1, ModSum
  <2>3. (a + o) % m = (0 + o) % m
    BY <1>2, <2>2 DEF a
  <2> QED BY <2>3 DEF a
<1> DEFINE t == (s + c) + o
<1>4. t \in Nat /\ t # 0
  BY <1>1
<1> HIDE DEF t
<1>5. Rest(m, t) = m <=> t % m = 0
  BY <1>4, RestMod
<1> QED BY <1>3, <1>5 DEF t, c

\* The sum of a header is that of its words before the options, its checksum
\* and the options.
LEMMA HeaderSum ==
  ASSUME NEW len \in Nat, NEW H \in 1..len, NEW h, \A i \in 1..len : h[i] \in Nat
  PROVE  Fold(h, 1..len) =
           (Fold(h, (1..H) \ {H}) + h[H]) + Fold(h, (1..len) \ (1..H))
<1> DEFINE I == 1..len
           A == 1..H
           B == (1..len) \ (1..H)
           C == (1..H) \ {H}
<1>1. IsFiniteSet(I)
  <2>1. 1 \in Int /\ len \in Int
    OBVIOUS
  <2> QED BY <2>1, FS_Interval
<1>2. \A i \in I : h[i] \in Nat
  OBVIOUS
<1>3. A \in SUBSET I /\ B \in SUBSET I /\ A \cap B = {} /\ A \cup B = I
  OBVIOUS
<1>4. C \in SUBSET I /\ H \in I /\ H \notin C /\ C \cup {H} = A
  OBVIOUS
<1> HIDE DEF I, A, B, C
<1>5. Fold(h, A \cup B) = Fold(h, A) + Fold(h, B)
  BY <1>1, <1>2, <1>3, FoldUnion
<1>6. Fold(h, C \cup {H}) = h[H] + Fold(h, C)
  <2>1. \A x \in I : x \notin C => Fold(h, C \cup {x}) = h[x] + Fold(h, C)
    <3>1. C \in SUBSET I
      BY <1>4
    <3> QED BY <1>1, <1>2, <3>1, FoldAdd
  <2> QED BY <2>1, <1>4
<1>7. Fold(h, B) \in Nat /\ Fold(h, C) \in Nat
  <2>1. \A S \in SUBSET I : Fold(h, S) \in Nat
    BY <1>1, <1>2, FS_Subset, FoldDef
  <2> QED BY <2>1, <1>3, <1>4
<1>8. h[H] \in Nat
  BY <1>2, <1>4
<1>9. Fold(h, I) = (h[H] + Fold(h, C)) + Fold(h, B)
  BY <1>3, <1>4, <1>5, <1>6
<1>10. \A p, q, r \in Nat : (p + q) + r = (q + p) + r
  OBVIOUS
<1>11. Fold(h, I) = (Fold(h, C) + h[H]) + Fold(h, B)
  BY <1>7, <1>8, <1>9, <1>10
<1> QED BY <1>11 DEF I, B, C

LEMMA MarkECNStep ==
  ASSUME NEW W \in Nat, W >= 4, W % 4 = 0, NEW H \in Nat, H >= 2, NEW M,
         HeaderType(W, H), Header(W, H, M)!MarkECN
  PROVE  HeaderType(W, H)' /\ Header(W, H, M)!MarkedIsValid'
<1>1. PICK len \in Nat : len >= H /\ header \in [1..len -> 0..(W - 1)]
  BY DEF HeaderType
<1> DEFINE set == [header EXCEPT ![1] = @ - (@ % 4) + 3]
           fixed == (1..H) \ {H}
           s == Fold(set, fixed)
<1>2. header[1] - (header[1] % 4) + 3 \in 0..(W - 1)
  <2>1. 1 \in 1..len
    BY <1>1
  <2> DEFINE w == header[1]
  <2>2. w \in 0..(W - 1)
    BY <1>1, <2>1
  <2> HIDE DEF w
  <2>3. PICK v \in Nat : W = 4 * v
    <3>1. W = 4 * (W \div 4) /\ W \div 4 \in Nat
      OBVIOUS
    <3> QED BY <3>1
  <2>4. PICK u \in Nat : w = 4 * u + (w % 4)
    <3>1. w = 4 * (w \div 4) + (w % 4) /\ w \div 4 \in Nat
      BY <2>2
    <3> QED BY <3>1
  <2>5. w % 4 \in 0..3
    BY <2>2
  <2>6. u < v
    BY <2>2, <2>3, <2>4, <2>5
  <2>7. w - (w % 4) + 3 \in 0..(W - 1)
    BY <2>2, <2>3, <2>4, <2>5, <2>6
  <2> QED BY <2>7 DEF w
<1>3. set \in [1..len -> 0..(W - 1)] /\ set[1] >= 3
  <2>1. header[1] - (header[1] % 4) >= 0 
    <3>1. header[1] \in Nat
      BY <1>1
    <3> QED BY <3>1
  <2>2. 1 \in 1..len /\ set[1] = header[1] - (header[1] % 4) + 3
    BY <1>1
  <2> QED BY <1>1, <1>2, <2>1, <2>2
<1> HIDE DEF set
<1>4. IsFiniteSet(1..len) /\ \A i \in 1..len : set[i] \in Nat
  <2>1. IsFiniteSet(1..len)
    <3>1. 1 \in Int /\ len \in Int
      OBVIOUS
    <3> QED BY <3>1, FS_Interval
  <2>2. \A i \in 1..len : set[i] \in 0..(W - 1)
    BY <1>3
  <2> QED BY <2>1, <2>2
<1>5. /\ 1..H \in SUBSET (1..len) /\ fixed \in SUBSET (1..len) /\ 1 \in fixed
      /\ H \in 1..len /\ DOMAIN header = 1..len
  BY <1>1
<1>6. s \in Nat /\ s # 0
  <2>1. IsFiniteSet(fixed) /\ \A i \in fixed : set[i] \in Nat
    BY <1>4, <1>5, FS_Subset
  <2> DEFINE z == fixed \ {1}
  <2>2. z \in SUBSET fixed /\ 1 \notin z /\ fixed = z \cup {1} /\ IsFiniteSet(z)
    BY <1>5, <2>1, FS_Subset
  <2> HIDE DEF z, fixed
  <2>3. Fold(set, fixed) = set[1] + Fold(set, z)
    <3>1. 1 \in fixed
      BY <1>5
    <3> QED BY <2>1, <2>2, <3>1, FoldAdd
  <2>4. Fold(set, z) \in Nat /\ set[1] \in Nat
    BY <2>1, <2>2, <1>5, FoldDef
  <2> QED BY <1>3, <2>3, <2>4
<1> DEFINE m == W - 1
           c == m - Rest(m, s)
           new == [set EXCEPT ![H] = c]
           options == (1..len) \ (1..H)
           o == Fold(new, options)
<1>7. m \in Nat /\ m >= 1 /\ c \in 0..m
  <2>1. Rest(m, s) \in 0..m
    BY <1>6, RestMod
  <2> QED BY <2>1
<1>8. header' = new /\ marked' = TRUE
  <2>1. Header(W, H, M)!recomputeV4Checksum(set) = c
    <3>1. Header(W, H, M)!WordSum(set, fixed) = s
      BY WordSumIsFold
    <3>2. Header(W, H, M)!Folded[s] = Rest(m, s)
      BY <1>6, FoldedIsRest
    <3> HIDE DEF s
    <3> QED BY <3>1, <3>2
            DEF Header!recomputeV4Checksum, Header!AllOnes, Header!Checksum
  <2> HIDE DEF c
  <2> QED BY <2>1 DEF Header!MarkECN, Header!Checksum, set
<1>9. new \in [1..len -> 0..(W - 1)]
  BY <1>3, <1>7
<1>10. HeaderType(W, H)'
  <2> HIDE DEF new
  <2> QED BY <1>1, <1>8, <1>9 DEF HeaderType
<1>11. /\ \A i \in 1..len : new[i] \in Nat
       /\ \A i \in fixed : new[i] = set[i]
       /\ new[H] = c /\ DOMAIN new = 1..len
  BY <1>3, <1>5, <1>7, <1>9
<1> HIDE DEF new
<1>12. Fold(new, fixed) = s
  <2>1. IsFiniteSet(fixed) /\ \A i \in fixed : set[i] \in Nat
    BY <1>4, <1>5, FS_Subset
  <2> QED BY <2>1, <1>11, FoldSame
<1>13. o \in Nat
  <2>1. IsFiniteSet(options) /\ \A i \in options : new[i] \in Nat
    BY <1>4, <1>11, FS_Subset
  <2> QED BY <2>1, FoldDef
<1>14. Fold(new, 1..len) = (s + c) + o
  <2>1. Fold(new, 1..len) = (Fold(new, (1..H) \ {H}) + new[H]) + Fold(new, (1..len) \ (1..H))
    BY <1>5, <1>11, HeaderSum
  <2> HIDE DEF s, c
  <2> QED BY <2>1, <1>11, <1>12
<1>15. Header(W, H, M)!Valid(new) <=> Rest(m, (s + c) + o) = m
  <2>1. Header(W, H, M)!WordSum(new, DOMAIN new) = (s + c) + o
    BY <1>11, <1>14, WordSumIsFold
  <2>2. (s + c) + o \in Nat
    BY <1>6, <1>7, <1>13
  <2>3. Header(W, H, M)!Folded[(s + c) + o] = Rest(m, (s + c) + o)
    BY <2>2, FoldedIsRest
  <2> HIDE DEF c, s, o
  <2> QED BY <2>1, <2>3 DEF Header!Valid, Header!AllOnes
<1>16. Rest(m, (s + c) + o) = m <=> o % m = 0
  <2> HIDE DEF s, o, m
  <2> QED BY <1>6, <1>7, <1>13, ChecksumOver
<1>17. Header(W, H, M)!WordSum(new, DOMAIN new \ (1..H)) = o
  BY <1>11, WordSumIsFold
<1>18. Header(W, H, M)!MarkedIsValid'
  <2>1. Header(W, H, M)!Valid(new) <=>
          Header(W, H, M)!WordSum(new, DOMAIN new \ (1..H)) % m = 0
    <3> HIDE DEF o, c, s
    <3> QED BY <1>15, <1>16, <1>17
  <2>2. Header(W, H, M)!AllOnes = m
    BY DEF Header!AllOnes
  <2> HIDE DEF m, options
  <2> QED BY <1>8, <2>1, <2>2 DEF Header!MarkedIsValid
<1> QED BY <1>10, <1>18

\* A header as packets have it: HeaderWords words, and those of the options.
LEMMA HeaderInitType ==
  ASSUME NEW W \in Nat, NEW H \in Nat, NEW M \in Nat, Header(W, H, M)!HeaderInit
  PROVE  HeaderType(W, H) /\ Header(W, H, M)!MarkedIsValid
<1>1. PICK len \in H..(H + M) : header \in [1..len -> 0..(W - 1)]
  BY DEF Header!HeaderInit, Header!Word
<1>2. len \in Nat /\ len >= H
  OBVIOUS
<1>3. HeaderType(W, H)
  BY <1>1, <1>2 DEF HeaderType
<1> QED BY <1>3 DEF Header!HeaderInit, Header!MarkedIsValid

\* MarkECN and recomputeV4Checksum: however often and in however many tunnels a
\* header is marked, its words stay words and it is valid exactly if its
\* options have no weight in the sum: for words of any size and headers of any
\* length, with 2^16 and 10 of an IPv4 header among them.
THEOREM MarkedHeaders ==
  ASSUME NEW W \in Nat, W >= 4, W % 4 = 0, NEW H \in Nat, H >= 2, NEW M \in Nat
  PROVE  Header(W, H, M)!HeaderInit /\ [][Header(W, H, M)!MarkECN]_<<header, marked>>
           => [](HeaderType(W, H) /\ Header(W, H, M)!MarkedIsValid)
<1> DEFINE Inv == HeaderType(W, H) /\ Header(W, H, M)!MarkedIsValid
<1>1. Header(W, H, M)!HeaderInit => Inv
  BY HeaderInitType
<1>2. Inv /\ [Header(W, H, M)!MarkECN]_<<header, marked>> => Inv'
  <2>1. Inv /\ Header(W, H, M)!MarkECN => Inv'
    BY MarkECNStep
  <2>2. Inv /\ UNCHANGED <<header, marked>> => Inv'
    <3> SUFFICES ASSUME Inv, UNCHANGED <<header, marked>> PROVE Inv'
      OBVIOUS
    <3>1. header' = header /\ marked' = marked
      OBVIOUS
    <3>2. HeaderType(W, H)'
      BY <3>1 DEF HeaderType
    <3>3. Header(W, H, M)!MarkedIsValid'
      BY <3>1 DEF Header!MarkedIsValid
    <3> QED BY <3>2, <3>3
  <2> QED BY <2>1, <2>2
<1> QED BY <1>1, <1>2, PTL

\* A header without options is valid whenever it has been marked.
THEOREM MarkedPlainIsValid ==
  ASSUME NEW W \in Nat, W >= 4, W % 4 = 0, NEW H \in Nat, H >= 2, NEW M \in Nat
  PROVE  Header(W, H, M)!HeaderInit /\ [][Header(W, H, M)!MarkECN]_<<header, marked>>
           => [](marked /\ DOMAIN header = 1..H => Header(W, H, M)!Valid(header))
<1>1. Header(W, H, M)!MarkedIsValid /\ marked /\ DOMAIN header = 1..H
        => Header(W, H, M)!Valid(header)
  <2>1. Header(W, H, M)!WordSum(header, {}) = 0
    <3>1. Fold(header, {}) = 0
      BY FoldDef, FS_EmptySet
    <3> QED BY <3>1, WordSumIsFold
  <2>2. (1..H) \ (1..H) = {}
    OBVIOUS
  <2>3. 0 % Header(W, H, M)!AllOnes = 0
    <3>1. 0 % (W - 1) = 0
      OBVIOUS
    <3> QED BY <3>1 DEF Header!AllOnes
  <2> QED BY <2>1, <2>2, <2>3 DEF Header!MarkedIsValid
<1> QED BY <1>1, MarkedHeaders, PTL

\* Ip of MCTunnel is Header of its constants.
LEMMA IpIsHeader ==
  /\ Ip!HeaderInit <=> Header(8, 4, 1)!HeaderInit
  /\ Ip!MarkECN <=> Header(8, 4, 1)!MarkECN
  /\ Ip!MarkedIsValid <=> Header(8, 4, 1)!MarkedIsValid
<1>1. \A h, I : Ip!WordSum(h, I) = Header(8, 4, 1)!WordSum(h, I)
  BY DEF Ip!WordSum, Ip!MapThenSumSet, Ip!MapThenFoldSet,
         Header!WordSum, Header!MapThenSumSet, Header!MapThenFoldSet
<1>2. /\ Ip!AllOnes = Header(8, 4, 1)!AllOnes /\ Ip!Checksum = Header(8, 4, 1)!Checksum
      /\ Ip!Word = Header(8, 4, 1)!Word /\ Ip!Checksum = 4
  BY DEF Ip!AllOnes, Ip!Checksum, Ip!Word, Header!AllOnes, Header!Checksum, Header!Word
<1>3. Ip!Folded = Header(8, 4, 1)!Folded
  BY DEF Ip!Folded, Header!Folded, Ip!AllOnes, Header!AllOnes
<1>4. \A h : Ip!Valid(h) <=> Header(8, 4, 1)!Valid(h)
  BY <1>1, <1>2, <1>3 DEF Ip!Valid, Header!Valid
<1>5. \A h : Ip!recomputeV4Checksum(h) = Header(8, 4, 1)!recomputeV4Checksum(h)
  BY <1>1, <1>2, <1>3 DEF Ip!recomputeV4Checksum, Header!recomputeV4Checksum
<1>6. Ip!HeaderInit <=> Header(8, 4, 1)!HeaderInit
  BY <1>2, <1>4 DEF Ip!HeaderInit, Header!HeaderInit
<1>7. Ip!MarkECN <=> Header(8, 4, 1)!MarkECN
  BY <1>2, <1>5 DEF Ip!MarkECN, Header!MarkECN
<1>8. Ip!MarkedIsValid <=> Header(8, 4, 1)!MarkedIsValid
  BY <1>1, <1>2, <1>4 DEF Ip!MarkedIsValid, Header!MarkedIsValid
<1> QED BY <1>6, <1>7, <1>8

\* The headers of the run are some of those of MarkedHeaders.
THEOREM HeadersStayValid == MCSpec => []HeaderStaysValid
<1> DEFINE Inv == config = "mark" => HeaderType(8, 4) /\ Header(8, 4, 1)!MarkedIsValid
<1>1. MCInit => Inv
  <2>1. config = "mark" /\ MCInit => Header(8, 4, 1)!HeaderInit
    BY IpIsHeader DEF MCInit
  <2> QED BY <2>1, HeaderInitType
<1>2. Inv /\ [MCNext]_mcVars => Inv'
  <2> SUFFICES ASSUME Inv, [MCNext]_mcVars, config' = "mark" PROVE Inv'
    OBVIOUS
  <2>1. CASE UNCHANGED mcVars
    <3>1. header' = header /\ marked' = marked /\ config = "mark"
      BY <2>1 DEF mcVars
    <3>2. HeaderType(8, 4)'
      BY <3>1 DEF HeaderType
    <3>3. Header(8, 4, 1)!MarkedIsValid'
      BY <3>1 DEF Header!MarkedIsValid
    <3> QED BY <3>2, <3>3
  <2>2. CASE MCNext
    <3>1. config = "mark" /\ Header(8, 4, 1)!MarkECN
      BY <2>2, IpIsHeader DEF MCNext
    <3>2. HeaderType(8, 4)' /\ Header(8, 4, 1)!MarkedIsValid'
      <4>1. 8 % 4 = 0 /\ 8 >= 4 /\ 4 >= 2
        OBVIOUS
      <4> QED BY <3>1, <4>1, MarkECNStep
    <3> QED BY <3>2
  <2> QED BY <2>1, <2>2
<1>3. Inv => HeaderStaysValid
  BY IpIsHeader DEF HeaderStaysValid
<1> QED BY <1>1, <1>2, <1>3, PTL DEF MCSpec
=============================================================================

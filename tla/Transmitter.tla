---------------------------- MODULE Transmitter ----------------------------
(***************************************************************************)
(* One direction of the VPN tunnel (quic_vpn/internal/transmitter.go).     *)
(*                                                                         *)
(* At the endpoint "snd" the goroutine ListenTun reads packets from the    *)
(* tun interface, opens a QUIC stream for each new flow and enqueues the   *)
(* packet; SchedulePackets (module PacketScheduler, instantiated as S)     *)
(* writes the packets to the streams of their flows; CollectUnused closes  *)
(* the streams of flows without traffic for inactivityTimeout.  ListenTun, *)
(* CollectUnused and sendPacket share the two sync.Maps mapInteraction and *)
(* mapQuicStream, each operation of which is atomic, and nothing else      *)
(* orders them.  At the endpoint "rcv" ListenNet accepts the streams and   *)
(* starts a ListenNet_handleStream for each, which writes the packets to   *)
(* the tun interface and closes its side when it has read the end of the   *)
(* stream.  Both endpoints wait in WaitOutput for the first error.         *)
(*                                                                         *)
(* A datagram (Send/Recv: length and bytes in one Write) is one element    *)
(* of the ordered, reliable, flow-controlled QUIC stream.                  *)
(***************************************************************************)
EXTENDS TunnelState, Sequences

S == INSTANCE PacketScheduler

schedVars == <<toSendQueue, workingSlice, n, spc, enqueued, handed, atEnqueue>>
tunVars == <<tpc, tflow, tstream>>
collectVars == <<cpc, cflow>>
sendVars == <<ppc, pstream>>
mapVars == <<mapInteraction, mapQuicStream>>
streamVars == <<nopen, streams>>
recvVars == <<npc, naccepted, hpc, hpacket>>
endVars == <<up, waiting, alive>>
histVars == <<delivered, lost>>

vars == <<schedVars, tunVars, collectVars, sendVars, mapVars, streamVars,
          recvVars, endVars, histVars>>

Endpoint == {"snd", "rcv"}
Stream == 1..MaxPackets    \* ListenTun opens at most one per packet
NoStream == 0
Id == 1..MaxPackets

\* The process at e is a client, which exits when WaitOutput returns.
IsClient(e) == (e = "snd") <=> (Mode = "client")

Opened == 1..nopen

\* A stream counts against the limit until its end has been sent and the end
\* of the peer's side has been read.
Counted == {s \in Opened : ~(streams[s].fin /\ streams[s].finRead)}
-----------------------------------------------------------------------------
Init == /\ S!Init
        /\ tpc = "read" /\ tflow = ZeroFlow /\ tstream = NoStream
        /\ cpc = "scan" /\ cflow = ZeroFlow
        /\ ppc = "load" /\ pstream = NoStream
        /\ mapInteraction = [f \in Flow |-> "none"]
        /\ mapQuicStream = [f \in Flow |-> NoStream]
        /\ nopen = 0
        /\ streams = [s \in Stream |-> [data |-> <<>>, fin |-> FALSE,
                                        peerFin |-> FALSE, finRead |-> FALSE,
                                        cut |-> FALSE]]
        /\ npc = [e \in Endpoint |-> "accept"] /\ naccepted = 0
        /\ hpc = [s \in Stream |-> "none"]
        /\ hpacket = [s \in Stream |-> 0]
        /\ up = [e \in Endpoint |-> TRUE]
        /\ waiting = [e \in Endpoint |-> TRUE]
        /\ alive = [e \in Endpoint |-> TRUE]
        /\ delivered = <<>> /\ lost = {}
-----------------------------------------------------------------------------
(* ListenTun *)

\* Read returns a packet of flow f and FindFlow finds it.  The id the packet
\* will have is enqueued + 1, which bounds the packets read.
ListenTun_read(f) ==
  /\ alive["snd"] /\ tpc = "read"
  /\ enqueued < MaxPackets
  /\ tflow' = IF Multi_streams THEN f ELSE ZeroFlow
  /\ tpc' = "lookup"
  /\ UNCHANGED <<schedVars, tstream, collectVars, sendVars, mapVars,
                 streamVars, recvVars, endVars, histVars>>

\* Read fails, or FindFlow does (a packet shorter than an IPv6 header).
ListenTun_readFails ==
  /\ Failures
  /\ alive["snd"] /\ tpc = "read"
  /\ tpc' = "report"
  /\ UNCHANGED <<schedVars, tflow, tstream, collectVars, sendVars, mapVars,
                 streamVars, recvVars, endVars, histVars>>

ListenTun_lookup ==
  /\ alive["snd"] /\ tpc = "lookup"
  /\ tpc' = IF mapInteraction[tflow] = "none" THEN "open" ELSE "storeTime"
  /\ UNCHANGED <<schedVars, tflow, tstream, collectVars, sendVars, mapVars,
                 streamVars, recvVars, endVars, histVars>>

\* OpenStream does not wait: at the limit, or when the session is closed, it
\* returns an error.
ListenTun_open ==
  /\ alive["snd"] /\ tpc = "open"
  /\ IF up["snd"] /\ Cardinality(Counted) < StreamLimit
     THEN /\ nopen' = nopen + 1
          /\ tstream' = nopen + 1
          /\ tpc' = "storeStream"
     ELSE /\ tpc' = "report"
          /\ UNCHANGED <<nopen, tstream>>
  /\ UNCHANGED <<schedVars, tflow, collectVars, sendVars, mapVars, streams,
                 recvVars, endVars, histVars>>

ListenTun_storeStream ==
  /\ alive["snd"] /\ tpc = "storeStream"
  /\ mapQuicStream' = [mapQuicStream EXCEPT ![tflow] = tstream]
  /\ tstream' = NoStream
  /\ tpc' = "storeTime"
  /\ UNCHANGED <<schedVars, tflow, collectVars, sendVars, mapInteraction,
                 streamVars, recvVars, endVars, histVars>>

ListenTun_storeTime ==
  /\ alive["snd"] /\ tpc = "storeTime"
  /\ mapInteraction' = [mapInteraction EXCEPT ![tflow] = "fresh"]
  /\ tpc' = "enqueue"
  /\ UNCHANGED <<schedVars, tflow, tstream, collectVars, sendVars,
                 mapQuicStream, streamVars, recvVars, endVars, histVars>>

ListenTun_enqueue ==
  /\ alive["snd"] /\ tpc = "enqueue"
  /\ S!ListenTun_enqueue(tflow)
  /\ tpc' = "read"
  /\ UNCHANGED <<tflow, tstream, collectVars, sendVars, mapVars,
                 streamVars, recvVars, endVars, histVars>>
-----------------------------------------------------------------------------
(* SchedulePackets, whose sendPacket looks the stream up and writes to it.
   Marking the packet (MarkECN) changes its bytes only. *)

\* Everything SchedulePackets does outside sendPacket.
SchedulePackets_step ==
  /\ alive["snd"]
  /\ \/ S!SchedulePackets_pop
     \/ S!SchedulePackets_alone
     \/ S!SchedulePackets_len
     \/ S!SchedulePackets_drain
     \/ S!SchedulePackets_sort
     \/ S!SchedulePackets_requeue
  /\ UNCHANGED <<tunVars, collectVars, sendVars, mapVars, streamVars,
                 recvVars, endVars, histVars>>

sendPacket_load ==
  /\ alive["snd"] /\ spc = "send" /\ ppc = "load"
  /\ mapQuicStream[Head(workingSlice).flow] # NoStream
  /\ pstream' = mapQuicStream[Head(workingSlice).flow]
  /\ ppc' = "write"
  /\ UNCHANGED <<schedVars, tunVars, collectVars, mapVars, streamVars,
                 recvVars, endVars, histVars>>

\* The flow has no stream: the packet is dropped without a word.
sendPacket_noStream ==
  /\ alive["snd"] /\ spc = "send" /\ ppc = "load"
  /\ mapQuicStream[Head(workingSlice).flow] = NoStream
  /\ lost' = lost \cup {Head(workingSlice).id}
  /\ S!SchedulePackets_sent
  /\ UNCHANGED <<tunVars, collectVars, sendVars, mapVars, streamVars,
                 recvVars, endVars, delivered>>

\* Write accepts the datagram of a stream that is not closed, and waits.
sendPacket_write ==
  /\ alive["snd"] /\ ppc = "write"
  /\ up["snd"] /\ ~streams[pstream].fin
  /\ ppc' = "writing"
  /\ UNCHANGED <<schedVars, tunVars, collectVars, pstream, mapVars, streamVars,
                 recvVars, endVars, histVars>>

\* The stream has taken the datagram, whether or not it has been closed in the
\* meantime, and Write returns.
sendPacket_written ==
  /\ alive["snd"] /\ ppc = "writing"
  /\ up["snd"] /\ Len(streams[pstream].data) < Window
  /\ streams' = [streams EXCEPT ![pstream].data = Append(@, Head(workingSlice).id)]
  /\ S!SchedulePackets_sent
  /\ ppc' = "load" /\ pstream' = NoStream
  /\ UNCHANGED <<tunVars, collectVars, mapVars, nopen,
                 recvVars, endVars, histVars>>

\* Write returns an error, on a stream already closed or a closed session;
\* Send returns it and sendPacket ignores it.
sendPacket_writeFails ==
  /\ alive["snd"]
  /\ \/ ppc = "write" /\ (~up["snd"] \/ streams[pstream].fin)
     \/ ppc = "writing" /\ ~up["snd"]
  /\ lost' = lost \cup {Head(workingSlice).id}
  /\ S!SchedulePackets_sent
  /\ ppc' = "load" /\ pstream' = NoStream
  /\ UNCHANGED <<tunVars, collectVars, mapVars, streamVars,
                 recvVars, endVars, delivered>>

SchedulePackets ==
  \/ SchedulePackets_step
  \/ sendPacket_load
  \/ sendPacket_noStream
  \/ sendPacket_write
  \/ sendPacket_written
  \/ sendPacket_writeFails
-----------------------------------------------------------------------------
(* CollectUnused *)

\* Without Multi_streams the goroutine returns at once.
CollectUnused_return ==
  /\ alive["snd"] /\ cpc = "scan"
  /\ ~Multi_streams
  /\ cpc' = "stopped"
  /\ UNCHANGED <<schedVars, tunVars, cflow, sendVars, mapVars, streamVars,
                 recvVars, endVars, histVars>>

\* Variant for mutation: the test of Multi_streams is missing.
CollectUnused_scan_always(f) ==
  /\ alive["snd"] /\ cpc = "scan"
  /\ mapInteraction[f] = "old"
  /\ cflow' = f
  /\ cpc' = "load"
  /\ UNCHANGED <<schedVars, tunVars, sendVars, mapVars, streamVars,
                 recvVars, endVars, histVars>>

\* Range finds a flow whose last packet is older than inactivityTimeout.
CollectUnused_scan(f) ==
  /\ alive["snd"] /\ cpc = "scan"
  /\ Multi_streams
  /\ mapInteraction[f] = "old"
  /\ cflow' = f
  /\ cpc' = "load"
  /\ UNCHANGED <<schedVars, tunVars, sendVars, mapVars, streamVars,
                 recvVars, endVars, histVars>>

\* The stream of the flow is closed; without one it is an error.
CollectUnused_close ==
  /\ alive["snd"] /\ cpc = "load"
  /\ mapQuicStream[cflow] # NoStream
  /\ streams' = [streams EXCEPT ![mapQuicStream[cflow]].fin = TRUE]
  /\ cpc' = "read"
  /\ UNCHANGED <<schedVars, tunVars, cflow, sendVars, mapVars, nopen,
                 recvVars, endVars, histVars>>

CollectUnused_noStream ==
  /\ alive["snd"] /\ cpc = "load"
  /\ mapQuicStream[cflow] = NoStream
  /\ cpc' = "report"
  /\ UNCHANGED <<schedVars, tunVars, cflow, sendVars, mapVars, streamVars,
                 recvVars, endVars, histVars>>

\* Variant for mutation: without the Read.
CollectUnused_read_skipped ==
  /\ alive["snd"] /\ cpc = "read"
  /\ cpc' = "deleteStream"
  /\ UNCHANGED <<schedVars, tunVars, cflow, sendVars, mapVars, streamVars,
                 recvVars, endVars, histVars>>

\* Read waits for the end of the peer's side, which never writes, or for the
\* end of the session.  The stream read is still the one just closed: only
\* CollectUnused takes a stream out of the map.
CollectUnused_read ==
  /\ alive["snd"] /\ cpc = "read"
  /\ \/ /\ up["snd"] /\ streams[mapQuicStream[cflow]].peerFin
        /\ streams' = [streams EXCEPT ![mapQuicStream[cflow]].finRead = TRUE]
     \/ /\ ~up["snd"]
        /\ UNCHANGED streams
  /\ cpc' = "deleteStream"
  /\ UNCHANGED <<schedVars, tunVars, cflow, sendVars, mapVars, nopen,
                 recvVars, endVars, histVars>>

\* Variant for mutation: the entry of mapInteraction deleted first.
CollectUnused_deleteStream_last ==
  /\ alive["snd"] /\ cpc = "deleteStream"
  /\ IF mapInteraction[cflow] # "none"
     THEN /\ mapInteraction' = [mapInteraction EXCEPT ![cflow] = "none"]
          /\ UNCHANGED <<mapQuicStream, cpc>>
     ELSE /\ mapQuicStream' = [mapQuicStream EXCEPT ![cflow] = NoStream]
          /\ cpc' = "scan"
          /\ UNCHANGED mapInteraction
  /\ UNCHANGED <<schedVars, tunVars, cflow, sendVars,
                 streamVars, recvVars, endVars, histVars>>

CollectUnused_deleteStream ==
  /\ alive["snd"] /\ cpc = "deleteStream"
  /\ mapQuicStream' = [mapQuicStream EXCEPT ![cflow] = NoStream]
  /\ cpc' = "deleteTime"
  /\ UNCHANGED <<schedVars, tunVars, cflow, sendVars, mapInteraction,
                 streamVars, recvVars, endVars, histVars>>

CollectUnused_deleteTime ==
  /\ alive["snd"] /\ cpc = "deleteTime"
  /\ mapInteraction' = [mapInteraction EXCEPT ![cflow] = "none"]
  /\ cpc' = "scan"
  /\ UNCHANGED <<schedVars, tunVars, cflow, sendVars, mapQuicStream,
                 streamVars, recvVars, endVars, histVars>>

CollectUnused ==
  \/ CollectUnused_return
  \/ \E f \in Flow : CollectUnused_scan(f)
  \/ CollectUnused_close
  \/ CollectUnused_noStream
  \/ CollectUnused_read
  \/ CollectUnused_deleteStream
  \/ CollectUnused_deleteTime

\* inactivityTimeout goes by since the time stored for the flow.
InactivityTimeout(f) ==
  /\ mapInteraction[f] = "fresh"
  /\ mapInteraction' = [mapInteraction EXCEPT ![f] = "old"]
  /\ UNCHANGED <<schedVars, tunVars, collectVars, sendVars, mapQuicStream,
                 streamVars, recvVars, endVars, histVars>>
-----------------------------------------------------------------------------
(* ListenNet and ListenNet_handleStream at rcv *)

\* The end of the stream can reach rcv: the end follows the datagram that Write
\* was waiting to send when the stream was closed.
Ended(s) == /\ streams[s].fin /\ ~streams[s].cut
            /\ ~(ppc = "writing" /\ pstream = s)

\* Something of the stream has reached rcv, or of a later one: quic-go opens
\* the streams of lower numbers with it.
Visible(s) == \E r \in s..nopen : streams[r].data # <<>> \/ Ended(r)

\* AcceptStream returns the streams in the order of their numbers.
ListenNet_accept ==
  /\ alive["rcv"] /\ up["rcv"] /\ npc["rcv"] = "accept"
  /\ naccepted < nopen /\ Visible(naccepted + 1)
  /\ naccepted' = naccepted + 1
  /\ hpc' = [hpc EXCEPT ![naccepted + 1] = "recv"]
  /\ UNCHANGED <<schedVars, tunVars, collectVars, sendVars, mapVars,
                 streamVars, npc, hpacket, endVars, histVars>>

\* Variant for mutation: the error is not reported.
ListenNet_fails_silently(e) ==
  /\ alive[e] /\ ~up[e] /\ npc[e] = "accept"
  /\ npc' = [npc EXCEPT ![e] = "stopped"]
  /\ UNCHANGED <<schedVars, tunVars, collectVars, sendVars, mapVars,
                 streamVars, naccepted, hpc, hpacket, endVars, histVars>>

\* AcceptStream returns an error, at either endpoint.
ListenNet_fails(e) ==
  /\ alive[e] /\ ~up[e] /\ npc[e] = "accept"
  /\ npc' = [npc EXCEPT ![e] = "report"]
  /\ UNCHANGED <<schedVars, tunVars, collectVars, sendVars, mapVars,
                 streamVars, naccepted, hpc, hpacket, endVars, histVars>>

\* Recv returns the next datagram.
ListenNet_handleStream_recv(s) ==
  /\ alive["rcv"] /\ up["rcv"] /\ hpc[s] = "recv"
  /\ streams[s].data # <<>>
  /\ hpacket' = [hpacket EXCEPT ![s] = Head(streams[s].data)]
  /\ streams' = [streams EXCEPT ![s].data = Tail(@)]
  /\ hpc' = [hpc EXCEPT ![s] = "write"]
  /\ UNCHANGED <<schedVars, tunVars, collectVars, sendVars, mapVars, nopen,
                 npc, naccepted, endVars, histVars>>

\* Variants for mutation: the goroutine returns after one datagram; after an
\* error of Recv the previous payload is written again.
ListenNet_handleStream_write_once(s) ==
  /\ alive["rcv"] /\ hpc[s] = "write"
  /\ delivered' = Append(delivered, hpacket[s])
  /\ hpacket' = [hpacket EXCEPT ![s] = 0]
  /\ hpc' = [hpc EXCEPT ![s] = "done"]
  /\ UNCHANGED <<schedVars, tunVars, collectVars, sendVars, mapVars,
                 streamVars, npc, naccepted, endVars, lost>>

ListenNet_handleStream_write_stale(s) ==
  /\ alive["rcv"] /\ hpc[s] = "write"
  /\ delivered' = Append(delivered, hpacket[s])
  /\ hpacket' = IF up["rcv"] THEN [hpacket EXCEPT ![s] = 0] ELSE hpacket
  /\ hpc' = [hpc EXCEPT ![s] = IF up["rcv"] THEN "recv" ELSE "write"]
  /\ UNCHANGED <<schedVars, tunVars, collectVars, sendVars, mapVars,
                 streamVars, npc, naccepted, endVars, lost>>

ListenNet_handleStream_write(s) ==
  /\ alive["rcv"] /\ hpc[s] = "write"
  /\ delivered' = Append(delivered, hpacket[s])
  /\ hpacket' = [hpacket EXCEPT ![s] = 0]
  /\ hpc' = [hpc EXCEPT ![s] = "recv"]
  /\ UNCHANGED <<schedVars, tunVars, collectVars, sendVars, mapVars,
                 streamVars, npc, naccepted, endVars, lost>>

\* Variant for mutation: the stream is not closed in return.
ListenNet_handleStream_eof_noClose(s) ==
  /\ alive["rcv"] /\ up["rcv"] /\ hpc[s] = "recv"
  /\ streams[s].data = <<>> /\ Ended(s)
  /\ hpc' = [hpc EXCEPT ![s] = "done"]
  /\ UNCHANGED <<schedVars, tunVars, collectVars, sendVars, mapVars,
                 streamVars, npc, naccepted, hpacket, endVars, histVars>>

\* Recv returns io.EOF.
ListenNet_handleStream_eof(s) ==
  /\ alive["rcv"] /\ up["rcv"] /\ hpc[s] = "recv"
  /\ streams[s].data = <<>> /\ Ended(s)
  /\ streams' = [streams EXCEPT ![s].peerFin = TRUE]
  /\ hpc' = [hpc EXCEPT ![s] = "done"]
  /\ UNCHANGED <<schedVars, tunVars, collectVars, sendVars, mapVars, nopen,
                 npc, naccepted, hpacket, endVars, histVars>>

\* Recv returns another error.
ListenNet_handleStream_fails(s) ==
  /\ alive["rcv"] /\ ~up["rcv"] /\ hpc[s] = "recv"
  /\ hpc' = [hpc EXCEPT ![s] = "report"]
  /\ UNCHANGED <<schedVars, tunVars, collectVars, sendVars, mapVars,
                 streamVars, npc, naccepted, hpacket, endVars, histVars>>

HandleStream(s) ==
  \/ ListenNet_handleStream_recv(s)
  \/ ListenNet_handleStream_write(s)
  \/ ListenNet_handleStream_eof(s)
  \/ ListenNet_handleStream_fails(s)
-----------------------------------------------------------------------------
(* WaitOutput: one receive from lastError, then the caller returns.  The
   goroutine whose error it was goes on after its send: ListenTun and
   ListenNet return, CollectUnused and ListenNet_handleStream loop.  Every
   later send on lastError waits for ever. *)
WaitOutput_return(e) ==
  /\ alive[e] /\ waiting[e]
  /\ waiting' = [waiting EXCEPT ![e] = FALSE]
  /\ alive' = [alive EXCEPT ![e] = ~IsClient(e)]

LastError_ListenTun ==
  /\ tpc = "report" /\ WaitOutput_return("snd")
  /\ tpc' = "stopped"
  /\ UNCHANGED <<schedVars, tflow, tstream, collectVars, sendVars, mapVars,
                 streamVars, recvVars, up, histVars>>

LastError_CollectUnused ==
  /\ cpc = "report" /\ WaitOutput_return("snd")
  /\ cpc' = "scan"
  /\ UNCHANGED <<schedVars, tunVars, cflow, sendVars, mapVars,
                 streamVars, recvVars, up, histVars>>

LastError_ListenNet(e) ==
  /\ npc[e] = "report" /\ WaitOutput_return(e)
  /\ npc' = [npc EXCEPT ![e] = "stopped"]
  /\ UNCHANGED <<schedVars, tunVars, collectVars, sendVars, mapVars,
                 streamVars, naccepted, hpc, hpacket, up, histVars>>

LastError_handleStream(s) ==
  /\ hpc[s] = "report" /\ WaitOutput_return("rcv")
  /\ hpc' = [hpc EXCEPT ![s] = "recv"]
  /\ UNCHANGED <<schedVars, tunVars, collectVars, sendVars, mapVars,
                 streamVars, npc, naccepted, hpacket, up, histVars>>

WaitOutput ==
  \/ LastError_ListenTun
  \/ LastError_CollectUnused
  \/ \E e \in Endpoint : LastError_ListenNet(e)
  \/ \E s \in Stream : LastError_handleStream(s)
-----------------------------------------------------------------------------
(* The QUIC session ends at an endpoint.  What snd had not yet got through
   to rcv then never arrives: of each stream, rcv may still read a prefix. *)
SessionEnds(e) ==
  /\ up[e]
  /\ up' = [up EXCEPT ![e] = FALSE]
  /\ IF e = "snd"
     THEN \E k \in [Opened -> 0..Window + 1] :
            /\ streams' = [s \in Stream |->
                 IF s \in Opened /\ k[s] <= Len(streams[s].data)
                 THEN [streams[s] EXCEPT !.data = SubSeq(@, 1, k[s]), !.cut = TRUE]
                 ELSE streams[s]]
            /\ lost' = lost \cup UNION
                 {{streams[s].data[i] : i \in k[s] + 1..Len(streams[s].data)} : s \in Opened}
     ELSE UNCHANGED <<streams, lost>>
  /\ UNCHANGED <<schedVars, tunVars, collectVars, sendVars, mapVars, nopen,
                 recvVars, waiting, alive, delivered>>

SessionFails(e) == Failures /\ SessionEnds(e)

\* The other endpoint has ended the session, or the process has exited.
SessionFollows(e) ==
  /\ \E d \in Endpoint : ~up[d] \/ ~alive[e]
  /\ SessionEnds(e)

ListenTun ==
  \/ \E f \in Flow : ListenTun_read(f)
  \/ ListenTun_readFails
  \/ ListenTun_lookup
  \/ ListenTun_open
  \/ ListenTun_storeStream
  \/ ListenTun_storeTime
  \/ ListenTun_enqueue

Next ==
  \/ ListenTun
  \/ SchedulePackets
  \/ CollectUnused
  \/ \E f \in Flow : InactivityTimeout(f)
  \/ ListenNet_accept
  \/ \E e \in Endpoint : ListenNet_fails(e)
  \/ \E s \in Stream : HandleStream(s)
  \/ WaitOutput
  \/ \E e \in Endpoint : SessionFails(e) \/ SessionFollows(e)

Spec == Init /\ [][Next]_vars

\* Every goroutine that can go on does, and the end of the session is noticed
\* at the other endpoint (idle timeout); packets, failures and the passing
\* of time are up to the environment.
FairSpec ==
  /\ Spec
  /\ WF_vars(tpc # "read" /\ ListenTun)
  /\ WF_vars(SchedulePackets)
  /\ WF_vars(CollectUnused)
  /\ WF_vars(ListenNet_accept)
  /\ \A e \in Endpoint : WF_vars(ListenNet_fails(e)) /\ WF_vars(SessionFollows(e))
  /\ \A s \in Stream : WF_vars(HandleStream(s))
  /\ WF_vars(WaitOutput)
-----------------------------------------------------------------------------
(* What holds of it.                                                       *)

\* The type of the variables.
TypeOK ==
  /\ S!TypeOK
  /\ tpc \in {"read", "lookup", "open", "storeStream", "storeTime", "enqueue",
              "report", "stopped"}
  /\ tflow \in Flow /\ tstream \in Stream \cup {NoStream}
  /\ cpc \in {"scan", "load", "read", "deleteStream", "deleteTime", "report",
              "stopped"}
  /\ cflow \in Flow
  /\ ppc \in {"load", "write", "writing"} /\ pstream \in Stream \cup {NoStream}
  /\ mapInteraction \in [Flow -> {"none", "fresh", "old"}]
  /\ mapQuicStream \in [Flow -> Stream \cup {NoStream}]
  /\ nopen \in 0..MaxPackets
  /\ streams \in [Stream -> [data : Seq(Id), fin : BOOLEAN, peerFin : BOOLEAN,
                             finRead : BOOLEAN, cut : BOOLEAN]]
  /\ npc \in [Endpoint -> {"accept", "report", "stopped"}]
  /\ naccepted \in 0..nopen
  /\ hpc \in [Stream -> {"none", "recv", "write", "done", "report"}]
  /\ hpacket \in [Stream -> Id \cup {0}]
  /\ up \in [Endpoint -> BOOLEAN]
  /\ waiting \in [Endpoint -> BOOLEAN] /\ alive \in [Endpoint -> BOOLEAN]
  /\ delivered \in Seq(Id) /\ lost \in SUBSET Id

\* No stream leaks: a stream that is still open is the stream of exactly one
\* flow in mapQuicStream, where CollectUnused will find it, or in the hands of
\* ListenTun.  So neither the order of the two Deletes of CollectUnused nor
\* the unlocked Load/OpenStream/Store of ListenTun makes one unreachable.
OpenStreamReachable ==
  \A s \in Opened : ~streams[s].fin =>
    \/ tstream = s
    \/ \E f \in Flow : mapQuicStream[f] = s /\ \A g \in Flow \ {f} : mapQuicStream[g] # s

\* The Read that CollectUnused makes "to close the flows" (transmitter.go:207)
\* gives the stream back before the flow is forgotten: when the peer allows as
\* many streams as there are flows, OpenStream is never refused, so a flow may
\* come and go any number of times.
StreamLimitSuffices ==
  ~Failures /\ Cardinality(Flow) <= StreamLimit => tpc # "report"

\* A stream that is still in the map after it has been closed is the one
\* CollectUnused is working on: no other flow's packets meet a closed stream.
ClosedStreamIsCollected ==
  \A f \in Flow :
    /\ mapQuicStream[f] # NoStream
    /\ streams[mapQuicStream[f]].fin
    => cflow = f /\ cpc \in {"read", "deleteStream"}

\* The map of streams that ListenTun and CollectUnused share without a lock is
\* exact, both ways.
MapIsExact == OpenStreamReachable /\ ClosedStreamIsCollected

\* A flow is given up only after inactivityTimeout without traffic ("time
\* before closing a flow", parameters.go:307): a flow used since has a stream.
\* The code does NOT have this property: ListenTun may store the time of a
\* flow it has found in the map while CollectUnused removes the flow; see the
\* run flow_orphaned.
ActiveFlowHasStream ==
  \A f \in Flow : mapInteraction[f] = "fresh" => mapQuicStream[f] # NoStream

\* Over a single stream the tunnel is reliable: while the session is up at the
\* sending endpoint, no packet enqueued is ever dropped.
SingleStreamReliable ==
  ~Multi_streams /\ up["snd"] => lost = {}

\* The packets between ListenTun's enqueue and the other tun interface.
OnTheWay ==
  UNION ({S!Ids(toSendQueue), S!Ids(workingSlice)}
           \cup {{streams[s].data[i] : i \in DOMAIN streams[s].data} : s \in DOMAIN streams}
           \cup {{hpacket[s]} \ {0} : s \in DOMAIN hpacket})

\* The tunnel is an IP-like carrier: each packet comes out at most once, and
\* only packets put in come out, whatever fails.
Tunnel == INSTANCE PacketPool WITH
            Packet <- Id,
            pending <- OnTheWay,
            delivered <- delivered,
            lost <- lost
TunnelSpec == Tunnel!Spec

\* The end of the session at an endpoint ends its WaitOutput.
SessionEndReturns ==
  \A e \in Endpoint : ~up[e] ~> ~waiting[e]

\* CollectUnused gets rid of an idle flow, the wait for the peer in its Read
\* included, or the endpoint is giving up.
IdleFlowCollected ==
  \A f \in Flow : mapInteraction[f] = "old" ~>
    mapInteraction[f] # "old" \/ ~waiting["snd"]

\* A packet taken out of the send queue for a stream reaches the tun interface
\* of the other endpoint or is lost with the session or a closed stream.
HandedIsDelivered ==
  \A p \in Id : p \in S!Ids(handed) ~>
    p \in lost \/ (\E i \in DOMAIN delivered : delivered[i] = p) \/ \E e \in Endpoint : ~up[e]
=============================================================================

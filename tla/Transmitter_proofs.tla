------------------------- MODULE Transmitter_proofs -------------------------
(***************************************************************************)
(* Proofs about Transmitter, for every number of packets, set of flows,    *)
(* stream limit and window: ListenTun and CollectUnused, which share two   *)
(* maps without a lock, keep the map of streams exact; the streams the     *)
(* peer allows suffice; over a single stream nothing is dropped.  Each      *)
(* theorem ends with the property as it is checked in one configuration    *)
(* (MCTunnel).                                                             *)
(***************************************************************************)
EXTENDS Transmitter, MCTunnel, SequenceTheorems, FiniteSetTheorems, TLAPS

(* The types the proofs need: those of the variables of ListenTun and      *)
(* CollectUnused and the shape of a stream, whose data may be anything.    *)

StreamsShape ==
  /\ streams = [s \in Stream |->
                  [data |-> streams[s].data, fin |-> streams[s].fin,
                   peerFin |-> streams[s].peerFin,
                   finRead |-> streams[s].finRead, cut |-> streams[s].cut]]
  /\ \A s \in Stream : streams[s].fin \in BOOLEAN /\ streams[s].finRead \in BOOLEAN

MapTypes ==
  /\ tpc \in {"read", "lookup", "open", "storeStream", "storeTime", "enqueue",
              "report", "stopped"}
  /\ tflow \in Flow /\ tstream \in Stream \cup {NoStream}
  /\ cpc \in {"scan", "load", "read", "deleteStream", "deleteTime", "report",
              "stopped"}
  /\ cflow \in Flow
  /\ mapInteraction \in [Flow -> {"none", "fresh", "old"}]
  /\ mapQuicStream \in [Flow -> Stream \cup {NoStream}]
  /\ nopen \in 0..MaxPackets /\ enqueued \in 0..MaxPackets

\* A stream is opened for a packet that is read and not yet enqueued.
OpenForPacket ==
  /\ tpc \in {"lookup", "open", "storeStream", "storeTime", "enqueue"} =>
       enqueued < MaxPackets
  /\ nopen <= enqueued + (IF tpc \in {"storeStream", "storeTime", "enqueue"} THEN 1 ELSE 0)

\* The stream ListenTun has opened and not yet stored is open and in no map.
InHandInv ==
  /\ tstream # NoStream <=> tpc = "storeStream"
  /\ tstream # NoStream =>
       /\ tstream \in Opened /\ ~streams[tstream].fin
       /\ \A f \in Flow : mapQuicStream[f] # tstream

\* No two flows share a stream, and no stream is closed before it is opened.
StreamsInv ==
  /\ \A f \in Flow : mapQuicStream[f] # NoStream => mapQuicStream[f] \in Opened
  /\ \A f, g \in Flow :
       mapQuicStream[f] # NoStream /\ mapQuicStream[f] = mapQuicStream[g] => f = g
  /\ \A s \in Stream : s > nopen => ~streams[s].fin

\* Where ListenTun and CollectUnused are in their sequences of map operations.
ListenTunInv ==
  /\ tpc \in {"open", "storeStream"} => mapInteraction[tflow] = "none"
  /\ \A f \in Flow : mapInteraction[f] = "none" =>
       mapQuicStream[f] = NoStream \/ (tpc = "storeTime" /\ tflow = f)

CollectInv ==
  /\ cpc \in {"load", "read", "deleteStream", "deleteTime"} =>
       mapInteraction[cflow] # "none"
  /\ cpc \in {"read", "deleteStream"} =>
       mapQuicStream[cflow] # NoStream /\ streams[mapQuicStream[cflow]].fin
  /\ cpc = "deleteTime" => mapQuicStream[cflow] = NoStream

MapInv ==
  /\ StreamsShape /\ MapTypes
  /\ OpenForPacket /\ InHandInv /\ StreamsInv /\ ListenTunInv /\ CollectInv
  /\ MapIsExact

\* The ends of the session.
EndTypes ==
  /\ up \in [Endpoint -> BOOLEAN] /\ alive \in [Endpoint -> BOOLEAN]
  /\ npc \in [Endpoint -> {"accept", "report", "stopped"}]
  /\ hpc \in [Stream -> {"none", "recv", "write", "done", "report"}]

\* Neither the session nor the receiver is in trouble.
Quiet ==
  /\ \A e \in Endpoint : up[e] /\ npc[e] # "report"
  /\ alive["rcv"]
  /\ \A s \in Stream : hpc[s] # "report"

\* Every stream that counts against the limit is in the map or in hand.
CountedReachable ==
  \A s \in Counted : s = tstream \/ \E f \in Flow : mapQuicStream[f] = s

\* When nothing may fail and the peer allows as many streams as there are flows.
LimitInv ==
  /\ alive["snd"] => Quiet
  /\ tpc # "report"
  /\ alive["snd"] /\ cpc = "deleteStream" => streams[mapQuicStream[cflow]].finRead
  /\ CountedReachable

\* Where the packets are that SchedulePackets holds or waits for: without
\* Multi_streams all of them have the empty flow.
UsedFlow == IF Multi_streams THEN Flow ELSE {ZeroFlow}
Packets == [flow : UsedFlow, id : Nat]

QueueInv ==
  /\ tflow \in UsedFlow
  /\ toSendQueue \in Seq(Packets) /\ workingSlice \in Seq(Packets)
  /\ spc # "pop" => Len(workingSlice) >= 1
  /\ ppc \in {"write", "writing"} => pstream \in Stream

\* With one stream it is never closed, and it is in the map before the first
\* packet is sent.
OneStream ==
  /\ cpc \in {"scan", "stopped"}
  /\ \A s \in Stream : ~streams[s].fin

StreamFirst ==
  tpc \in {"storeTime", "enqueue"} \/ mapInteraction[ZeroFlow] # "none"
    \/ toSendQueue # <<>> \/ workingSlice # <<>> => mapQuicStream[ZeroFlow] # NoStream

SingleInv ==
  ~Multi_streams => OneStream /\ StreamFirst /\ (up["snd"] => lost = {})
-----------------------------------------------------------------------------
(* What the updates of a stream do to its fields. *)

\* Closing stream s: its end is set, and nothing else.
LEMMA SetFin ==
  ASSUME StreamsShape, NEW s \in Stream,
         NEW b \in BOOLEAN, streams' = [streams EXCEPT ![s].fin = b]
  PROVE  /\ StreamsShape'
         /\ streams'[s].fin = b
         /\ \A r \in Stream : r # s => streams'[r].fin = streams[r].fin
         /\ \A r \in Stream : streams'[r].finRead = streams[r].finRead
<1>1. \A r \in Stream : streams'[r] =
        [data |-> streams[r].data, fin |-> IF r = s THEN b ELSE streams[r].fin,
         peerFin |-> streams[r].peerFin, finRead |-> streams[r].finRead,
         cut |-> streams[r].cut]
  BY DEF StreamsShape
<1>2. streams' = [r \in Stream |-> streams'[r]]
  BY DEF StreamsShape
<1> QED BY <1>1, <1>2 DEF StreamsShape

\* CollectUnused reads the end of the peer's side of stream s.
LEMMA SetFinRead ==
  ASSUME StreamsShape, NEW s \in Stream,
         NEW b \in BOOLEAN, streams' = [streams EXCEPT ![s].finRead = b]
  PROVE  /\ StreamsShape'
         /\ streams'[s].finRead = b
         /\ \A r \in Stream : streams'[r].fin = streams[r].fin
         /\ \A r \in Stream : r # s => streams'[r].finRead = streams[r].finRead
<1>1. \A r \in Stream : streams'[r] =
        [data |-> streams[r].data, fin |-> streams[r].fin,
         peerFin |-> streams[r].peerFin,
         finRead |-> IF r = s THEN b ELSE streams[r].finRead,
         cut |-> streams[r].cut]
  BY DEF StreamsShape
<1>2. streams' = [r \in Stream |-> streams'[r]]
  BY DEF StreamsShape
<1> QED BY <1>1, <1>2 DEF StreamsShape

\* The other updates leave the ends of every stream as they are.
SameEnds ==
  /\ StreamsShape'
  /\ \A r \in Stream : /\ streams'[r].fin = streams[r].fin
                       /\ streams'[r].finRead = streams[r].finRead

\* What the peer closes is not this endpoint's end.
LEMMA SetPeerFin ==
  ASSUME StreamsShape, NEW s \in Stream,
         NEW b \in BOOLEAN, streams' = [streams EXCEPT ![s].peerFin = b]
  PROVE  SameEnds
<1>1. \A r \in Stream : streams'[r] =
        [data |-> streams[r].data, fin |-> streams[r].fin,
         peerFin |-> IF r = s THEN b ELSE streams[r].peerFin,
         finRead |-> streams[r].finRead, cut |-> streams[r].cut]
  BY DEF StreamsShape
<1>2. streams' = [r \in Stream |-> streams'[r]]
  BY DEF StreamsShape
<1> QED BY <1>1, <1>2 DEF StreamsShape, SameEnds

\* Nor are the data of a stream.
LEMMA SetData ==
  ASSUME StreamsShape, NEW s \in Stream, NEW d,
         streams' = [streams EXCEPT ![s].data = d]
  PROVE  SameEnds
<1>1. \A r \in Stream : streams'[r] =
        [data |-> IF r = s THEN d ELSE streams[r].data, fin |-> streams[r].fin,
         peerFin |-> streams[r].peerFin, finRead |-> streams[r].finRead,
         cut |-> streams[r].cut]
  BY DEF StreamsShape
<1>2. streams' = [r \in Stream |-> streams'[r]]
  BY DEF StreamsShape
<1> QED BY <1>1, <1>2 DEF StreamsShape, SameEnds

\* Nor is a step that leaves the streams alone.
LEMMA SameStreams ==
  ASSUME StreamsShape, streams' = streams
  PROVE  SameEnds
BY DEF StreamsShape, SameEnds

\* The end of the session cuts the data of streams short.
LEMMA CutStreams ==
  ASSUME StreamsShape, NEW e, SessionEnds(e)
  PROVE  SameEnds
<1>1. CASE streams' = streams
  BY <1>1, SameStreams
<1>2. CASE \E k \in [Opened -> 0..Window + 1] :
             streams' = [s \in Stream |->
                 IF s \in Opened /\ k[s] <= Len(streams[s].data)
                 THEN [streams[s] EXCEPT !.data = SubSeq(@, 1, k[s]), !.cut = TRUE]
                 ELSE streams[s]]
  <2>1. PICK k \in [Opened -> 0..Window + 1] :
             streams' = [s \in Stream |->
                 IF s \in Opened /\ k[s] <= Len(streams[s].data)
                 THEN [streams[s] EXCEPT !.data = SubSeq(@, 1, k[s]), !.cut = TRUE]
                 ELSE streams[s]]
    BY <1>2
  <2>2. ASSUME NEW r \in Stream
        PROVE  /\ streams'[r] = [data |-> streams'[r].data, fin |-> streams[r].fin,
                                 peerFin |-> streams[r].peerFin,
                                 finRead |-> streams[r].finRead,
                                 cut |-> streams'[r].cut]
    <3>1. streams[r] = [data |-> streams[r].data, fin |-> streams[r].fin,
                        peerFin |-> streams[r].peerFin,
                        finRead |-> streams[r].finRead, cut |-> streams[r].cut]
      BY DEF StreamsShape
    <3>2. \/ streams'[r] = streams[r]
          \/ streams'[r] = [streams[r] EXCEPT !.data = SubSeq(@, 1, k[r]), !.cut = TRUE]
      BY <2>1
    <3> QED BY <3>1, <3>2
  <2>3. streams' = [r \in Stream |-> streams'[r]]
    BY <2>1
  <2> QED BY <2>2, <2>3 DEF StreamsShape, SameEnds
<1> QED BY <1>1, <1>2 DEF SessionEnds
-----------------------------------------------------------------------------
(* MapInv is inductive: one lemma per operation on the maps, and one for    *)
(* the steps that touch neither the maps nor the ends of the streams.       *)

\* At the start there are no streams and both maps are empty.
LEMMA InitMap == Init => MapInv
<1> SUFFICES ASSUME Init PROVE MapInv
  OBVIOUS
<1>1. StreamsShape
  BY DEF Init, StreamsShape
<1>2. MapTypes
  BY SchedAssumption, TransmitterAssumption DEF Init, S!Init, MapTypes, NoStream
<1>3. OpenForPacket /\ InHandInv /\ ListenTunInv /\ CollectInv
  BY SchedAssumption, TransmitterAssumption
  DEF Init, S!Init, OpenForPacket, InHandInv, ListenTunInv, CollectInv, NoStream
<1>4. StreamsInv
  BY TransmitterAssumption DEF Init, StreamsInv, NoStream
<1>5. MapIsExact
  <2>1. Opened = {}
    BY DEF Init, Opened
  <2>2. \A f \in Flow : mapQuicStream[f] = NoStream
    BY DEF Init
  <2> QED BY <2>1, <2>2 DEF MapIsExact, OpenStreamReachable, ClosedStreamIsCollected
<1> QED BY <1>1, <1>2, <1>3, <1>4, <1>5 DEF MapInv

\* A stream opened is a stream, and a stream in a map is one.
LEMMA OpenedType == MapTypes => Opened \subseteq Stream
BY SchedAssumption DEF MapTypes, Opened, Stream

\* The steps that only let time pass, or change the streams' data.
LEMMA KeepMap ==
  ASSUME MapInv, SameEnds,
         UNCHANGED <<tunVars, collectVars, mapQuicStream, nopen, enqueued>>,
         mapInteraction' \in [Flow -> {"none", "fresh", "old"}],
         \A f \in Flow : mapInteraction'[f] = "none" <=> mapInteraction[f] = "none"
  PROVE  MapInv'
<1>0. /\ tpc' = tpc /\ tflow' = tflow /\ tstream' = tstream
      /\ cpc' = cpc /\ cflow' = cflow /\ mapQuicStream' = mapQuicStream
      /\ nopen' = nopen /\ enqueued' = enqueued
  BY DEF tunVars, collectVars
<1>1. Opened' = Opened /\ Opened \subseteq Stream
  BY <1>0, OpenedType DEF MapInv, Opened
<1>2. \A s \in Stream : streams'[s].fin = streams[s].fin
  BY DEF SameEnds
<1>3. \A f \in Flow : mapQuicStream[f] # NoStream => mapQuicStream[f] \in Stream
  BY DEF MapInv, MapTypes
<1>4. MapTypes'
  BY <1>0 DEF MapInv, MapTypes
<1>5. OpenForPacket'
  BY <1>0 DEF MapInv, OpenForPacket
<1>6. InHandInv'
  BY <1>0, <1>1, <1>2 DEF MapInv, InHandInv
<1>7. StreamsInv'
  BY <1>0, <1>1, <1>2 DEF MapInv, StreamsInv
<1>8. ListenTunInv' /\ CollectInv'
  BY <1>0, <1>2, <1>3 DEF MapInv, MapTypes, ListenTunInv, CollectInv
<1>9. MapIsExact'
  BY <1>0, <1>1, <1>2, <1>3
  DEF MapInv, MapIsExact, OpenStreamReachable, ClosedStreamIsCollected
<1> QED BY <1>4, <1>5, <1>6, <1>7, <1>8, <1>9 DEF MapInv, SameEnds

\* The steps of ListenTun that read the maps or report an error.
LEMMA ListenTunReadsMap ==
  ASSUME MapInv,
         \/ \E f \in Flow : ListenTun_read(f)
         \/ ListenTun_readFails
         \/ ListenTun_lookup
         \/ LastError_ListenTun
  PROVE  MapInv'
<1>0. /\ tstream' = tstream /\ cpc' = cpc /\ cflow' = cflow
      /\ mapQuicStream' = mapQuicStream /\ mapInteraction' = mapInteraction
      /\ nopen' = nopen /\ enqueued' = enqueued /\ streams' = streams
  BY DEF ListenTun_read, ListenTun_readFails, ListenTun_lookup, LastError_ListenTun,
         collectVars, mapVars, streamVars, schedVars
<1>1. /\ tflow' \in Flow /\ (tpc = "lookup" => tflow' = tflow)
      /\ \/ tpc = "read" /\ tpc' = "lookup" /\ enqueued < MaxPackets
         \/ tpc = "read" /\ tpc' = "report"
         \/ tpc = "lookup" /\ tpc' = "open" /\ mapInteraction[tflow] = "none"
         \/ tpc = "lookup" /\ tpc' = "storeTime"
         \/ tpc = "report" /\ tpc' = "stopped"
  BY TransmitterAssumption
  DEF ListenTun_read, ListenTun_readFails, ListenTun_lookup, LastError_ListenTun,
      MapInv, MapTypes
<1>2. StreamsShape' /\ MapTypes'
  BY <1>0, <1>1 DEF MapInv, StreamsShape, MapTypes
<1>3. OpenForPacket'
  BY <1>0, <1>1 DEF MapInv, MapTypes, OpenForPacket
<1>4. InHandInv' /\ StreamsInv'
  BY <1>0, <1>1 DEF MapInv, InHandInv, StreamsInv, Opened
<1>5. ListenTunInv' /\ CollectInv'
  BY <1>0, <1>1 DEF MapInv, ListenTunInv, CollectInv
<1>6. MapIsExact'
  BY <1>0 DEF MapInv, MapIsExact, OpenStreamReachable, ClosedStreamIsCollected, Opened
<1> QED BY <1>2, <1>3, <1>4, <1>5, <1>6 DEF MapInv

\* OpenStream: the new stream is closed to nobody and in no map.
LEMMA OpenMap ==
  ASSUME MapInv, ListenTun_open
  PROVE  MapInv'
<1>0. /\ tflow' = tflow /\ cpc' = cpc /\ cflow' = cflow
      /\ mapQuicStream' = mapQuicStream /\ mapInteraction' = mapInteraction
      /\ enqueued' = enqueued /\ streams' = streams
      /\ tpc = "open" /\ tstream = NoStream
  BY DEF ListenTun_open, collectVars, mapVars, schedVars, MapInv, InHandInv
<1>1. CASE tpc' = "report" /\ nopen' = nopen /\ tstream' = tstream
  <2>1. StreamsShape' /\ MapTypes'
    BY <1>0, <1>1 DEF MapInv, StreamsShape, MapTypes
  <2>2. OpenForPacket' /\ InHandInv' /\ StreamsInv'
    BY <1>0, <1>1 DEF MapInv, OpenForPacket, InHandInv, StreamsInv, Opened
  <2>3. ListenTunInv' /\ CollectInv'
    BY <1>0, <1>1 DEF MapInv, ListenTunInv, CollectInv
  <2>4. MapIsExact'
    BY <1>0, <1>1 DEF MapInv, MapIsExact, OpenStreamReachable, ClosedStreamIsCollected, Opened
  <2> QED BY <2>1, <2>2, <2>3, <2>4 DEF MapInv
<1>2. CASE tpc' = "storeStream" /\ nopen' = nopen + 1 /\ tstream' = nopen + 1
  <2>0. nopen \in Nat /\ enqueued \in Nat /\ MaxPackets \in Nat /\ nopen + 1 <= MaxPackets
    BY <1>0, SchedAssumption DEF MapInv, MapTypes, OpenForPacket
  <2>1. /\ Opened' = Opened \cup {nopen + 1} /\ Opened \subseteq Stream
        /\ nopen + 1 \in Stream /\ nopen + 1 \notin Opened /\ nopen + 1 # NoStream
    BY <1>2, <2>0 DEF Opened, Stream, NoStream
  <2>2. StreamsShape' /\ MapTypes'
    BY <1>0, <1>2, <2>0, <2>1 DEF MapInv, StreamsShape, MapTypes
  <2>3. OpenForPacket'
    BY <1>0, <1>2, <2>0 DEF MapInv, OpenForPacket
  <2>4. InHandInv'
    <3>1. ~streams[nopen + 1].fin
      BY <2>0, <2>1 DEF MapInv, StreamsInv
    <3>2. \A f \in Flow : mapQuicStream[f] # nopen + 1
      BY <2>1 DEF MapInv, StreamsInv
    <3> QED BY <1>0, <1>2, <2>1, <3>1, <3>2 DEF InHandInv
  <2>5. StreamsInv'
    <3>1. \A s \in Stream : s > nopen + 1 => s > nopen
      BY <2>0 DEF Stream
    <3> QED BY <1>0, <1>2, <2>1, <3>1 DEF MapInv, StreamsInv
  <2>6. ListenTunInv' /\ CollectInv'
    BY <1>0, <1>2 DEF MapInv, ListenTunInv, CollectInv
  <2>7. OpenStreamReachable'
    <3>1. \A s \in Opened : s # tstream
      BY <1>0, <2>0 DEF Opened, NoStream
    <3>2. \A s \in Opened : ~streams[s].fin =>
            \E f \in Flow : mapQuicStream[f] = s /\ \A g \in Flow \ {f} : mapQuicStream[g] # s
      BY <3>1 DEF MapInv, MapIsExact, OpenStreamReachable
    <3> QED BY <1>0, <1>2, <2>1, <3>2 DEF OpenStreamReachable
  <2>8. ClosedStreamIsCollected'
    BY <1>0 DEF MapInv, MapIsExact, ClosedStreamIsCollected
  <2> QED BY <2>2, <2>3, <2>4, <2>5, <2>6, <2>7, <2>8 DEF MapInv, MapIsExact
<1> QED BY <1>1, <1>2 DEF ListenTun_open

\* The Store of the new stream: the flow had none.
LEMMA StoreStreamMap ==
  ASSUME MapInv, ListenTun_storeStream
  PROVE  MapInv'
<1>0. /\ tflow' = tflow /\ cpc' = cpc /\ cflow' = cflow
      /\ mapInteraction' = mapInteraction /\ nopen' = nopen
      /\ enqueued' = enqueued /\ streams' = streams
      /\ tpc = "storeStream" /\ tpc' = "storeTime" /\ tstream' = NoStream
      /\ mapQuicStream' = [mapQuicStream EXCEPT ![tflow] = tstream]
      /\ tflow \in Flow
  BY DEF ListenTun_storeStream, collectVars, schedVars, streamVars, MapInv, MapTypes
<1>1. /\ tstream \in Opened /\ ~streams[tstream].fin /\ tstream \in Stream
      /\ tstream # NoStream
      /\ \A f \in Flow : mapQuicStream[f] # tstream
  BY <1>0, OpenedType DEF MapInv, InHandInv
<1>2. mapInteraction[tflow] = "none" /\ mapQuicStream[tflow] = NoStream
  BY <1>0 DEF MapInv, ListenTunInv
<1>3. /\ mapQuicStream'[tflow] = tstream
      /\ \A f \in Flow : f # tflow => mapQuicStream'[f] = mapQuicStream[f]
  BY <1>0 DEF MapInv, MapTypes
<1>4. Opened' = Opened
  BY <1>0 DEF Opened
<1>5. StreamsShape' /\ MapTypes'
  BY <1>0, <1>1 DEF MapInv, StreamsShape, MapTypes
<1>6. OpenForPacket' /\ InHandInv'
  BY <1>0 DEF MapInv, OpenForPacket, InHandInv
<1>7. StreamsInv'
  BY <1>0, <1>1, <1>3, <1>4 DEF MapInv, StreamsInv
<1>8. ListenTunInv'
  BY <1>0, <1>3 DEF MapInv, ListenTunInv
<1>9. CollectInv'
  <2>1. cpc \in {"load", "read", "deleteStream", "deleteTime"} => cflow # tflow
    BY <1>2 DEF MapInv, CollectInv
  <2> QED BY <1>0, <1>3, <2>1 DEF MapInv, MapTypes, CollectInv
<1>10. OpenStreamReachable'
  <2> SUFFICES ASSUME NEW s \in Opened, ~streams[s].fin
               PROVE  \E f \in Flow : /\ mapQuicStream'[f] = s
                                      /\ \A g \in Flow \ {f} : mapQuicStream'[g] # s
    BY <1>0, <1>4 DEF OpenStreamReachable
  <2>1. CASE s = tstream
    BY <1>0, <1>1, <1>3, <2>1
  <2>2. CASE s # tstream
    <3>1. PICK f \in Flow : /\ mapQuicStream[f] = s
                            /\ \A g \in Flow \ {f} : mapQuicStream[g] # s
      BY <2>2 DEF MapInv, MapIsExact, OpenStreamReachable
    <3>2. s # NoStream
      BY DEF MapInv, MapTypes, Opened, NoStream
    <3>3. f # tflow
      BY <1>2, <3>1, <3>2
    <3> QED BY <1>3, <2>2, <3>1, <3>3
  <2> QED BY <2>1, <2>2
<1>11. ClosedStreamIsCollected'
  BY <1>0, <1>1, <1>3 DEF MapInv, MapIsExact, ClosedStreamIsCollected
<1> QED BY <1>5, <1>6, <1>7, <1>8, <1>9, <1>10, <1>11 DEF MapInv, MapIsExact

\* The Store of the time: it may make an entry the collector has just removed.
LEMMA StoreTimeMap ==
  ASSUME MapInv, ListenTun_storeTime
  PROVE  MapInv'
<1>0. /\ tflow' = tflow /\ tstream' = tstream /\ cpc' = cpc /\ cflow' = cflow
      /\ mapQuicStream' = mapQuicStream /\ nopen' = nopen
      /\ enqueued' = enqueued /\ streams' = streams
      /\ tpc = "storeTime" /\ tpc' = "enqueue"
      /\ mapInteraction' = [mapInteraction EXCEPT ![tflow] = "fresh"]
  BY DEF ListenTun_storeTime, collectVars, schedVars, streamVars
<1>1. /\ mapInteraction'[tflow] = "fresh"
      /\ \A f \in Flow : f # tflow => mapInteraction'[f] = mapInteraction[f]
  BY <1>0 DEF MapInv, MapTypes
<1>2. StreamsShape' /\ MapTypes'
  BY <1>0 DEF MapInv, StreamsShape, MapTypes
<1>3. OpenForPacket' /\ InHandInv' /\ StreamsInv'
  BY <1>0 DEF MapInv, OpenForPacket, InHandInv, StreamsInv, Opened
<1>4. ListenTunInv' /\ CollectInv'
  BY <1>0, <1>1 DEF MapInv, MapTypes, ListenTunInv, CollectInv
<1>5. MapIsExact'
  BY <1>0 DEF MapInv, MapIsExact, OpenStreamReachable, ClosedStreamIsCollected, Opened
<1> QED BY <1>2, <1>3, <1>4, <1>5 DEF MapInv

\* The packet is enqueued: the next one may need another stream.
LEMMA EnqueueMap ==
  ASSUME MapInv, ListenTun_enqueue
  PROVE  MapInv'
<1>0. /\ tflow' = tflow /\ tstream' = tstream /\ cpc' = cpc /\ cflow' = cflow
      /\ mapQuicStream' = mapQuicStream /\ mapInteraction' = mapInteraction
      /\ nopen' = nopen /\ streams' = streams
      /\ tpc = "enqueue" /\ tpc' = "read"
      /\ enqueued' = enqueued + 1 /\ enqueued < MaxPackets
  BY DEF ListenTun_enqueue, S!ListenTun_enqueue, collectVars, mapVars, streamVars
<1>1. enqueued \in Nat /\ nopen \in Nat /\ MaxPackets \in Nat
  BY SchedAssumption DEF MapInv, MapTypes
<1>2. StreamsShape' /\ MapTypes'
  BY <1>0, <1>1 DEF MapInv, StreamsShape, MapTypes
<1>3. OpenForPacket'
  BY <1>0, <1>1 DEF MapInv, OpenForPacket
<1>4. InHandInv' /\ StreamsInv'
  BY <1>0 DEF MapInv, InHandInv, StreamsInv, Opened
<1>5. ListenTunInv' /\ CollectInv'
  BY <1>0 DEF MapInv, ListenTunInv, CollectInv
<1>6. MapIsExact'
  BY <1>0 DEF MapInv, MapIsExact, OpenStreamReachable, ClosedStreamIsCollected, Opened
<1> QED BY <1>2, <1>3, <1>4, <1>5, <1>6 DEF MapInv

\* The steps of CollectUnused that read the maps or report an error.
LEMMA CollectReadsMap ==
  ASSUME MapInv,
         \/ CollectUnused_return
         \/ \E f \in Flow : CollectUnused_scan(f)
         \/ CollectUnused_noStream
         \/ LastError_CollectUnused
  PROVE  MapInv'
<1>0. /\ tpc' = tpc /\ tflow' = tflow /\ tstream' = tstream
      /\ mapQuicStream' = mapQuicStream /\ mapInteraction' = mapInteraction
      /\ nopen' = nopen /\ enqueued' = enqueued /\ streams' = streams
  BY DEF CollectUnused_return, CollectUnused_scan, CollectUnused_noStream,
         LastError_CollectUnused, tunVars, mapVars, streamVars, schedVars
<1>1. /\ cflow' \in Flow /\ cpc \in {"scan", "load", "report"}
      /\ \/ cpc' \in {"stopped", "report", "scan"}
         \/ cpc' = "load" /\ mapInteraction[cflow'] = "old"
  BY DEF CollectUnused_return, CollectUnused_scan, CollectUnused_noStream,
         LastError_CollectUnused, MapInv, MapTypes
<1>2. StreamsShape' /\ MapTypes'
  BY <1>0, <1>1 DEF MapInv, StreamsShape, MapTypes
<1>3. OpenForPacket' /\ InHandInv' /\ StreamsInv' /\ ListenTunInv'
  BY <1>0 DEF MapInv, OpenForPacket, InHandInv, StreamsInv, ListenTunInv, Opened
<1>4. CollectInv'
  BY <1>0, <1>1 DEF CollectInv
<1>5. MapIsExact'
  BY <1>0, <1>1 DEF MapInv, MapIsExact, OpenStreamReachable, ClosedStreamIsCollected, Opened
<1> QED BY <1>2, <1>3, <1>4, <1>5 DEF MapInv

\* The stream of an idle flow is closed: no other flow has it.
LEMMA CloseMap ==
  ASSUME MapInv, CollectUnused_close
  PROVE  MapInv'
<1> DEFINE s == mapQuicStream[cflow]
<1>0. /\ tpc' = tpc /\ tflow' = tflow /\ tstream' = tstream /\ cflow' = cflow
      /\ mapQuicStream' = mapQuicStream /\ mapInteraction' = mapInteraction
      /\ nopen' = nopen /\ enqueued' = enqueued
      /\ cpc = "load" /\ cpc' = "read" /\ s # NoStream
      /\ streams' = [streams EXCEPT ![s].fin = TRUE]
  BY DEF CollectUnused_close, tunVars, mapVars, schedVars
<1>1. cflow \in Flow /\ s \in Stream /\ s \in Opened /\ StreamsShape
  BY <1>0 DEF MapInv, MapTypes, StreamsInv
<1>2. tstream # s
  BY <1>0, <1>1 DEF MapInv, InHandInv
<1>3. \A f \in Flow : f # cflow => mapQuicStream[f] # s
  BY <1>0, <1>1 DEF MapInv, StreamsInv
<1> HIDE DEF s
<1>4. /\ StreamsShape' /\ streams'[s].fin = TRUE
      /\ \A r \in Stream : r # s => streams'[r].fin = streams[r].fin
  <2>1. PICK b \in BOOLEAN : b = TRUE
    OBVIOUS
  <2> QED BY <1>0, <1>1, <2>1, SetFin
<1>5. \A f \in Flow : mapQuicStream[f] # NoStream => mapQuicStream[f] \in Stream
  BY DEF MapInv, MapTypes
<1>6. Opened' = Opened /\ Opened \subseteq Stream /\ s = mapQuicStream[cflow]
  BY <1>0, OpenedType DEF MapInv, Opened, s
<1>7. MapTypes' /\ OpenForPacket'
  BY <1>0 DEF MapInv, MapTypes, OpenForPacket
<1>8. InHandInv'
  BY <1>0, <1>2, <1>4, <1>6 DEF MapInv, InHandInv
<1>9. StreamsInv'
  <2>1. nopen \in Nat /\ ~(s > nopen)
    BY <1>1 DEF MapInv, MapTypes, Opened
  <2> QED BY <1>0, <1>4, <1>6, <2>1 DEF MapInv, StreamsInv
<1>10. ListenTunInv' /\ CollectInv'
  BY <1>0, <1>4, <1>6 DEF MapInv, ListenTunInv, CollectInv
<1>11. OpenStreamReachable'
  BY <1>0, <1>1, <1>4, <1>6 DEF MapInv, MapIsExact, OpenStreamReachable
<1>12. ClosedStreamIsCollected'
  <2> SUFFICES ASSUME NEW f \in Flow, mapQuicStream[f] # NoStream,
                      streams'[mapQuicStream[f]].fin
               PROVE  f = cflow
    BY <1>0 DEF ClosedStreamIsCollected
  <2>1. SUFFICES ASSUME f # cflow PROVE FALSE
    OBVIOUS
  <2>2. streams[mapQuicStream[f]].fin
    BY <1>3, <1>4, <1>5, <2>1
  <2> QED BY <1>0, <2>2 DEF MapInv, MapIsExact, ClosedStreamIsCollected
<1> QED BY <1>4, <1>7, <1>8, <1>9, <1>10, <1>11, <1>12 DEF MapInv, MapIsExact

\* The Read of the collector is of the stream it has just closed.
LEMMA CollectReadMap ==
  ASSUME MapInv, CollectUnused_read
  PROVE  MapInv'
<1>0. /\ tpc' = tpc /\ tflow' = tflow /\ tstream' = tstream /\ cflow' = cflow
      /\ mapQuicStream' = mapQuicStream /\ mapInteraction' = mapInteraction
      /\ nopen' = nopen /\ enqueued' = enqueued
      /\ cpc = "read" /\ cpc' = "deleteStream"
  BY DEF CollectUnused_read, tunVars, mapVars, schedVars
<1>1. StreamsShape' /\ \A r \in Stream : streams'[r].fin = streams[r].fin
  <2>1. CASE streams' = streams
    BY <2>1 DEF MapInv, StreamsShape
  <2>2. CASE streams' = [streams EXCEPT ![mapQuicStream[cflow]].finRead = TRUE]
    <3>1. mapQuicStream[cflow] \in Stream
      BY <1>0 DEF MapInv, MapTypes, CollectInv
    <3>2. PICK b \in BOOLEAN : b = TRUE
      OBVIOUS
    <3> QED BY <2>2, <3>1, <3>2, SetFinRead DEF MapInv
  <2> QED BY <2>1, <2>2 DEF CollectUnused_read
<1>2. \A f \in Flow : mapQuicStream[f] # NoStream => mapQuicStream[f] \in Stream
  BY DEF MapInv, MapTypes
<1>3. Opened' = Opened /\ Opened \subseteq Stream
  BY <1>0, OpenedType DEF MapInv, Opened
<1>4. MapTypes' /\ OpenForPacket'
  BY <1>0 DEF MapInv, MapTypes, OpenForPacket
<1>5. InHandInv' /\ StreamsInv' /\ ListenTunInv'
  BY <1>0, <1>1, <1>3 DEF MapInv, InHandInv, StreamsInv, ListenTunInv
<1>6. CollectInv'
  BY <1>0, <1>1, <1>2 DEF MapInv, MapTypes, CollectInv
<1>7. MapIsExact'
  BY <1>0, <1>1, <1>2, <1>3
  DEF MapInv, MapIsExact, OpenStreamReachable, ClosedStreamIsCollected
<1> QED BY <1>1, <1>4, <1>5, <1>6, <1>7 DEF MapInv

\* The first Delete: the stream it forgets is closed.
LEMMA DeleteStreamMap ==
  ASSUME MapInv, CollectUnused_deleteStream
  PROVE  MapInv'
<1>0. /\ tpc' = tpc /\ tflow' = tflow /\ tstream' = tstream /\ cflow' = cflow
      /\ mapInteraction' = mapInteraction /\ nopen' = nopen
      /\ enqueued' = enqueued /\ streams' = streams
      /\ cpc = "deleteStream" /\ cpc' = "deleteTime" /\ cflow \in Flow
      /\ mapQuicStream' = [mapQuicStream EXCEPT ![cflow] = NoStream]
  BY DEF CollectUnused_deleteStream, tunVars, streamVars, schedVars, MapInv, MapTypes
<1>1. /\ mapQuicStream'[cflow] = NoStream
      /\ \A f \in Flow : f # cflow => mapQuicStream'[f] = mapQuicStream[f]
  BY <1>0 DEF MapInv, MapTypes
<1>2. StreamsShape' /\ MapTypes'
  BY <1>0 DEF MapInv, StreamsShape, MapTypes
<1>3. Opened' = Opened /\ \A s \in Opened : s # NoStream
  BY <1>0 DEF MapInv, MapTypes, Opened, NoStream
<1>4. OpenForPacket' /\ InHandInv' /\ StreamsInv'
  BY <1>0, <1>1, <1>3 DEF MapInv, OpenForPacket, InHandInv, StreamsInv
<1>5. ListenTunInv'
  BY <1>0, <1>1 DEF MapInv, ListenTunInv
<1>6. CollectInv'
  BY <1>0, <1>1 DEF MapInv, CollectInv
<1>7. OpenStreamReachable'
  <2> SUFFICES ASSUME NEW s \in Opened, ~streams[s].fin, tstream # s
               PROVE  \E f \in Flow : /\ mapQuicStream'[f] = s
                                      /\ \A g \in Flow \ {f} : mapQuicStream'[g] # s
    BY <1>0, <1>3 DEF OpenStreamReachable
  <2>1. PICK f \in Flow : /\ mapQuicStream[f] = s
                          /\ \A g \in Flow \ {f} : mapQuicStream[g] # s
    BY DEF MapInv, MapIsExact, OpenStreamReachable
  <2>2. f # cflow
    BY <1>0, <2>1 DEF MapInv, CollectInv
  <2> QED BY <1>1, <1>3, <2>1, <2>2
<1>8. ClosedStreamIsCollected'
  BY <1>0, <1>1 DEF MapInv, MapIsExact, ClosedStreamIsCollected
<1> QED BY <1>2, <1>4, <1>5, <1>6, <1>7, <1>8 DEF MapInv, MapIsExact

\* The second Delete: the flow has no stream any more.
LEMMA DeleteTimeMap ==
  ASSUME MapInv, CollectUnused_deleteTime
  PROVE  MapInv'
<1>0. /\ tpc' = tpc /\ tflow' = tflow /\ tstream' = tstream /\ cflow' = cflow
      /\ mapQuicStream' = mapQuicStream /\ nopen' = nopen
      /\ enqueued' = enqueued /\ streams' = streams
      /\ cpc = "deleteTime" /\ cpc' = "scan" /\ cflow \in Flow
      /\ mapInteraction' = [mapInteraction EXCEPT ![cflow] = "none"]
  BY DEF CollectUnused_deleteTime, tunVars, streamVars, schedVars, MapInv, MapTypes
<1>1. /\ mapInteraction'[cflow] = "none"
      /\ \A f \in Flow : f # cflow => mapInteraction'[f] = mapInteraction[f]
  BY <1>0 DEF MapInv, MapTypes
<1>2. mapQuicStream[cflow] = NoStream
  BY <1>0 DEF MapInv, CollectInv
<1>3. StreamsShape' /\ MapTypes'
  BY <1>0 DEF MapInv, StreamsShape, MapTypes
<1>4. OpenForPacket' /\ InHandInv' /\ StreamsInv'
  BY <1>0 DEF MapInv, OpenForPacket, InHandInv, StreamsInv, Opened
<1>5. ListenTunInv' /\ CollectInv'
  BY <1>0, <1>1, <1>2 DEF MapInv, MapTypes, ListenTunInv, CollectInv
<1>6. MapIsExact'
  BY <1>0 DEF MapInv, MapIsExact, OpenStreamReachable, ClosedStreamIsCollected, Opened
<1> QED BY <1>3, <1>4, <1>5, <1>6 DEF MapInv

\* The steps that touch neither the maps nor the ends of the streams: those of
\* SchedulePackets and the receiver, the passing of time, other errors, the end
\* of the session.
OtherStep ==
  \/ SchedulePackets
  \/ \E f \in Flow : InactivityTimeout(f)
  \/ ListenNet_accept
  \/ \E e \in Endpoint : ListenNet_fails(e)
  \/ \E s \in Stream : HandleStream(s)
  \/ \E e \in Endpoint : LastError_ListenNet(e)
  \/ \E s \in Stream : LastError_handleStream(s)
  \/ \E e \in Endpoint : SessionFails(e) \/ SessionFollows(e)

\* None of them changes what ListenTun and CollectUnused hold.
LEMMA OtherStepFacts ==
  ASSUME OtherStep
  PROVE  UNCHANGED <<tunVars, collectVars, mapQuicStream, nopen, enqueued>>
<1> USE DEF tunVars, collectVars, mapVars, streamVars, schedVars
<1>1. CASE SchedulePackets_step
  BY <1>1 DEF SchedulePackets_step, S!SchedulePackets_pop, S!SchedulePackets_alone,
     S!SchedulePackets_len, S!SchedulePackets_drain, S!SchedulePackets_sort,
     S!SchedulePackets_requeue
<1>2. CASE sendPacket_load \/ sendPacket_noStream \/ sendPacket_write
  BY <1>2 DEF sendPacket_load, sendPacket_noStream, sendPacket_write,
     S!SchedulePackets_sent
<1>3. CASE sendPacket_written \/ sendPacket_writeFails
  BY <1>3 DEF sendPacket_written, sendPacket_writeFails, S!SchedulePackets_sent
<1>4. CASE \E f \in Flow : InactivityTimeout(f)
  BY <1>4 DEF InactivityTimeout
<1>5. CASE ListenNet_accept \/ \E e \in Endpoint : ListenNet_fails(e)
  BY <1>5 DEF ListenNet_accept, ListenNet_fails
<1>6. CASE \E s \in Stream : HandleStream(s)
  BY <1>6 DEF HandleStream, ListenNet_handleStream_recv, ListenNet_handleStream_write,
     ListenNet_handleStream_eof, ListenNet_handleStream_fails
<1>7. CASE \/ \E e \in Endpoint : LastError_ListenNet(e)
           \/ \E s \in Stream : LastError_handleStream(s)
  BY <1>7 DEF LastError_ListenNet, LastError_handleStream
<1>8. CASE \E e \in Endpoint : SessionFails(e) \/ SessionFollows(e)
  BY <1>8 DEF SessionFails, SessionFollows, SessionEnds
<1> QED BY <1>1, <1>2, <1>3, <1>4, <1>5, <1>6, <1>7, <1>8 DEF OtherStep, SchedulePackets

\* The entry of a flow does not appear or vanish in them.
LEMMA OtherStepTimes ==
  ASSUME MapInv, OtherStep
  PROVE  /\ mapInteraction' \in [Flow -> {"none", "fresh", "old"}]
         /\ \A f \in Flow : mapInteraction'[f] = "none" <=> mapInteraction[f] = "none"
<1>1. CASE \E f \in Flow : InactivityTimeout(f)
  BY <1>1 DEF InactivityTimeout, MapInv, MapTypes
<1>2. CASE mapInteraction' = mapInteraction
  BY <1>2 DEF MapInv, MapTypes
<1>3. CASE SchedulePackets
  <2>1. mapInteraction' = mapInteraction
    BY <1>3 DEF SchedulePackets, SchedulePackets_step, sendPacket_load,
       sendPacket_noStream, sendPacket_write, sendPacket_written,
       sendPacket_writeFails, mapVars
  <2> QED BY <1>2, <2>1
<1>4. CASE \/ ListenNet_accept
           \/ \E e \in Endpoint : ListenNet_fails(e)
           \/ \E s \in Stream : HandleStream(s)
  <2>1. mapInteraction' = mapInteraction
    BY <1>4 DEF ListenNet_accept, ListenNet_fails, HandleStream,
       ListenNet_handleStream_recv, ListenNet_handleStream_write,
       ListenNet_handleStream_eof, ListenNet_handleStream_fails, mapVars
  <2> QED BY <1>2, <2>1
<1>5. CASE \/ \E e \in Endpoint : LastError_ListenNet(e)
           \/ \E s \in Stream : LastError_handleStream(s)
           \/ \E e \in Endpoint : SessionFails(e) \/ SessionFollows(e)
  <2>1. mapInteraction' = mapInteraction
    BY <1>5 DEF LastError_ListenNet, LastError_handleStream, SessionFails,
       SessionFollows, SessionEnds, mapVars
  <2> QED BY <1>2, <2>1
<1> QED BY <1>1, <1>3, <1>4, <1>5 DEF OtherStep

\* Nor does a stream's end.  sendPacket writes to a stream it has loaded.
LEMMA OtherStepEnds ==
  ASSUME StreamsShape, ppc = "writing" => pstream \in Stream, OtherStep
  PROVE  SameEnds
<1>1. CASE SchedulePackets
  <2>1. CASE sendPacket_written
    <3>1. PICK d : d = Append(streams[pstream].data, Head(workingSlice).id)
      OBVIOUS
    <3>2. streams' = [streams EXCEPT ![pstream].data = d] /\ pstream \in Stream
      BY <2>1, <3>1 DEF sendPacket_written
    <3> QED BY <3>2, SetData
  <2>2. CASE SchedulePackets_step \/ sendPacket_load \/ sendPacket_noStream
              \/ sendPacket_write \/ sendPacket_writeFails
    <3>1. streams' = streams
      BY <2>2 DEF SchedulePackets_step, sendPacket_load, sendPacket_noStream,
         sendPacket_write, sendPacket_writeFails, streamVars
    <3> QED BY <3>1, SameStreams
  <2> QED BY <1>1, <2>1, <2>2 DEF SchedulePackets
<1>2. CASE \/ \E f \in Flow : InactivityTimeout(f)
           \/ ListenNet_accept
           \/ \E e \in Endpoint : ListenNet_fails(e)
           \/ \E e \in Endpoint : LastError_ListenNet(e)
           \/ \E s \in Stream : LastError_handleStream(s)
  <2>1. streams' = streams
    BY <1>2 DEF InactivityTimeout, ListenNet_accept, ListenNet_fails,
       LastError_ListenNet, LastError_handleStream, streamVars
  <2> QED BY <2>1, SameStreams
<1>3. CASE \E s \in Stream : HandleStream(s)
  <2>1. PICK s \in Stream : HandleStream(s)
    BY <1>3
  <2>2. CASE ListenNet_handleStream_recv(s)
    <3>1. PICK d : d = Tail(streams[s].data)
      OBVIOUS
    <3>2. streams' = [streams EXCEPT ![s].data = d]
      BY <2>2, <3>1 DEF ListenNet_handleStream_recv
    <3> QED BY <3>2, SetData
  <2>3. CASE ListenNet_handleStream_eof(s)
    <3>1. PICK b \in BOOLEAN : b = TRUE
      OBVIOUS
    <3>2. streams' = [streams EXCEPT ![s].peerFin = b]
      BY <2>3, <3>1 DEF ListenNet_handleStream_eof
    <3> QED BY <3>2, SetPeerFin
  <2>4. CASE ListenNet_handleStream_write(s) \/ ListenNet_handleStream_fails(s)
    <3>1. streams' = streams
      BY <2>4 DEF ListenNet_handleStream_write, ListenNet_handleStream_fails, streamVars
    <3> QED BY <3>1, SameStreams
  <2> QED BY <2>1, <2>2, <2>3, <2>4 DEF HandleStream
<1>4. CASE \E e \in Endpoint : SessionFails(e) \/ SessionFollows(e)
  BY <1>4, CutStreams DEF SessionFails, SessionFollows
<1> QED BY <1>1, <1>2, <1>3, <1>4 DEF OtherStep
-----------------------------------------------------------------------------
(* SchedulePackets moves packets between the channel and its slice. *)

\* What a sort does: the slice stays a slice of packets, of the same length.
LEMMA SortedType ==
  ASSUME NEW P, NEW s \in Seq(P), NEW pi \in S!Bijection(1..Len(s), 1..Len(s)),
         NEW t, t = [k \in 1..Len(s) |-> s[pi[k]]]
  PROVE  t \in Seq(P) /\ Len(t) = Len(s)
<1>1. pi \in [1..Len(s) -> 1..Len(s)]
  BY DEF S!Bijection, S!Injection
<1>2. Len(s) \in Nat /\ s \in [1..Len(s) -> P]
  BY LenProperties
<1>3. t \in [1..Len(s) -> P]
  BY <1>1, <1>2
<1>4. t \in Seq(P)
  BY <1>2, <1>3, SeqDef
<1> QED BY <1>2, <1>3, <1>4, LenProperties

\* What a channel send or receive does to the type of a sequence.
LEMMA MovedType ==
  ASSUME NEW P, NEW s \in Seq(P), s # <<>>
  PROVE  /\ Head(s) \in P /\ Tail(s) \in Seq(P)
         /\ Len(s) \in Nat /\ Len(s) >= 1 /\ Len(Tail(s)) = Len(s) - 1
<1>1. Head(s) \in P /\ Tail(s) \in Seq(P) /\ Len(Tail(s)) = Len(s) - 1
  BY HeadTailProperties
<1>2. Len(s) \in Nat /\ Len(s) # 0
  BY EmptySeq, LenProperties
<1> QED BY <1>1, <1>2

\* At the start nothing is queued.
LEMMA InitQueue == Init => QueueInv
<1>1. <<>> \in Seq(Packets)
  BY EmptySeq
<1> QED BY <1>1, TransmitterAssumption DEF Init, S!Init, QueueInv, UsedFlow

\* The enqueue of ListenTun.
LEMMA EnqueueQueue ==
  ASSUME MapInv, QueueInv, ListenTun_enqueue
  PROVE  QueueInv'
<1>1. [flow |-> tflow, id |-> enqueued + 1] \in Packets
  BY DEF MapInv, MapTypes, QueueInv, Packets
<1>2. toSendQueue' = Append(toSendQueue, [flow |-> tflow, id |-> enqueued + 1])
  BY DEF ListenTun_enqueue, S!ListenTun_enqueue
<1>3. toSendQueue' \in Seq(Packets)
  BY <1>1, <1>2, AppendProperties DEF QueueInv
<1>4. /\ tflow' = tflow /\ workingSlice' = workingSlice /\ spc' = spc
      /\ ppc' = ppc /\ pstream' = pstream
  BY DEF ListenTun_enqueue, S!ListenTun_enqueue, sendVars
<1> QED BY <1>3, <1>4 DEF QueueInv

\* The return of sendPacket.
LEMMA SentQueue ==
  ASSUME QueueInv, S!SchedulePackets_sent
  PROVE  /\ toSendQueue' = toSendQueue /\ workingSlice' \in Seq(Packets)
         /\ spc' # "pop" => Len(workingSlice') >= 1
         /\ workingSlice # <<>>
<1>1. /\ workingSlice' = Tail(workingSlice) /\ toSendQueue' = toSendQueue
      /\ spc' = IF Len(workingSlice) = 1 THEN "pop" ELSE "requeue"
      /\ spc = "send"
  BY DEF S!SchedulePackets_sent
<1>2. workingSlice \in Seq(Packets) /\ Len(workingSlice) >= 1 /\ workingSlice # <<>>
  BY <1>1 DEF QueueInv
<1>3. /\ Tail(workingSlice) \in Seq(Packets) /\ Len(workingSlice) \in Nat
      /\ Len(Tail(workingSlice)) = Len(workingSlice) - 1
  BY <1>2, MovedType
<1>4. Len(workingSlice) # 1 => Len(Tail(workingSlice)) >= 1
  BY <1>2, <1>3
<1> QED BY <1>1, <1>2, <1>3, <1>4

\* The steps of SchedulePackets outside sendPacket.
LEMMA SchedulerQueue ==
  ASSUME QueueInv, SchedulePackets_step
  PROVE  /\ toSendQueue' \in Seq(Packets) /\ workingSlice' \in Seq(Packets)
         /\ spc' # "pop" => Len(workingSlice') >= 1
         /\ toSendQueue' # <<>> \/ workingSlice' # <<>> =>
              toSendQueue # <<>> \/ workingSlice # <<>>
<1>0. toSendQueue \in Seq(Packets) /\ workingSlice \in Seq(Packets)
  BY DEF QueueInv
<1>1. CASE S!SchedulePackets_pop
  <2>1. /\ toSendQueue # <<>> /\ toSendQueue' = Tail(toSendQueue)
        /\ workingSlice' = <<Head(toSendQueue)>>
    BY <1>1 DEF S!SchedulePackets_pop
  <2>2. Head(toSendQueue) \in Packets /\ toSendQueue' \in Seq(Packets)
    BY <1>0, <2>1, MovedType
  <2> QED BY <2>1, <2>2
<1>2. CASE S!SchedulePackets_alone \/ S!SchedulePackets_len
  BY <1>0, <1>2 DEF S!SchedulePackets_alone, S!SchedulePackets_len, QueueInv
<1>3. CASE S!SchedulePackets_drain
  <2>1. /\ toSendQueue # <<>> /\ toSendQueue' = Tail(toSendQueue)
        /\ workingSlice' = Append(workingSlice, Head(toSendQueue))
    BY <1>3 DEF S!SchedulePackets_drain
  <2>2. Head(toSendQueue) \in Packets /\ toSendQueue' \in Seq(Packets)
    BY <1>0, <2>1, MovedType
  <2>3. workingSlice' \in Seq(Packets) /\ Len(workingSlice') = Len(workingSlice) + 1
    BY <1>0, <2>1, <2>2, AppendProperties
  <2>4. Len(workingSlice) \in Nat
    BY <1>0, LenProperties
  <2> QED BY <2>1, <2>2, <2>3, <2>4
<1>4. CASE S!SchedulePackets_sort
  <2>1. PICK pi \in S!Bijection(1..Len(workingSlice), 1..Len(workingSlice)) :
          workingSlice' = [k \in 1..Len(workingSlice) |-> workingSlice[pi[k]]]
    BY <1>4 DEF S!SchedulePackets_sort
  <2>2. workingSlice' \in Seq(Packets) /\ Len(workingSlice') = Len(workingSlice)
    BY <1>0, <2>1, SortedType
  <2>3. toSendQueue' = toSendQueue /\ spc = "sort" /\ Len(workingSlice) >= 1
    BY <1>4 DEF S!SchedulePackets_sort, QueueInv
  <2>4. workingSlice # <<>>
    BY <2>3
  <2> QED BY <1>0, <2>2, <2>3, <2>4
<1>5. CASE S!SchedulePackets_requeue
  <2>1. /\ workingSlice' = Tail(workingSlice)
        /\ toSendQueue' = Append(toSendQueue, Head(workingSlice))
        /\ spc = "requeue"
        /\ spc' = IF Len(workingSlice) = 1 THEN "pop" ELSE "requeue"
    BY <1>5 DEF S!SchedulePackets_requeue
  <2>2. Len(workingSlice) >= 1 /\ workingSlice # <<>>
    BY <2>1 DEF QueueInv
  <2>3. /\ Head(workingSlice) \in Packets /\ workingSlice' \in Seq(Packets)
        /\ Len(workingSlice) \in Nat /\ Len(workingSlice') = Len(workingSlice) - 1
    BY <1>0, <2>1, <2>2, MovedType
  <2>4. toSendQueue' \in Seq(Packets)
    BY <1>0, <2>1, <2>3, AppendProperties
  <2> QED BY <2>1, <2>2, <2>3, <2>4
<1> QED BY <1>1, <1>2, <1>3, <1>4, <1>5 DEF SchedulePackets_step

\* Every step of SchedulePackets: the stream it writes to was in the map.
LEMMA SchedulePacketsQueue ==
  ASSUME MapInv, QueueInv, SchedulePackets
  PROVE  QueueInv'
<1>0. tflow' = tflow
  BY DEF SchedulePackets, SchedulePackets_step, sendPacket_load, sendPacket_noStream,
     sendPacket_write, sendPacket_written, sendPacket_writeFails, tunVars
<1>1. CASE SchedulePackets_step
  BY <1>0, <1>1, SchedulerQueue DEF QueueInv, SchedulePackets_step, sendVars
<1>2. CASE sendPacket_load
  <2>1. /\ toSendQueue' = toSendQueue /\ workingSlice' = workingSlice /\ spc' = spc
        /\ spc = "send" /\ pstream' = mapQuicStream[Head(workingSlice).flow]
        /\ pstream' # NoStream
    BY <1>2 DEF sendPacket_load, schedVars
  <2>2. workingSlice # <<>> /\ workingSlice \in Seq(Packets)
    BY <2>1 DEF QueueInv
  <2>3. Head(workingSlice).flow \in Flow
    <3>1. Head(workingSlice) \in Packets
      BY <2>2, MovedType
    <3> QED BY <3>1, TransmitterAssumption DEF Packets, UsedFlow
  <2>4. pstream' \in Stream
    BY <2>1, <2>3 DEF MapInv, MapTypes
  <2> QED BY <1>0, <2>1, <2>4 DEF QueueInv
<1>3. CASE sendPacket_write
  BY <1>0, <1>3 DEF sendPacket_write, QueueInv, schedVars
<1>4. CASE sendPacket_noStream
  BY <1>0, <1>4, SentQueue DEF sendPacket_noStream, QueueInv, sendVars
<1>5. CASE sendPacket_written \/ sendPacket_writeFails
  BY <1>0, <1>5, SentQueue DEF sendPacket_written, sendPacket_writeFails, QueueInv
<1> QED BY <1>1, <1>2, <1>3, <1>4, <1>5 DEF SchedulePackets

\* The other steps leave the queue alone.
LEMMA OtherQueue ==
  ASSUME QueueInv,
         UNCHANGED <<schedVars, ppc, pstream>>,
         tflow' \in UsedFlow
  PROVE  QueueInv'
BY DEF QueueInv, schedVars
-----------------------------------------------------------------------------
(* Every step. *)

TunnelInv == MapInv /\ QueueInv

\* The reader of the tun interface goes by the flow of the packet, or by the
\* empty flow.
LEMMA NextQueue ==
  ASSUME TunnelInv, Next
  PROVE  QueueInv'
<1>0. MapInv /\ QueueInv /\ tflow \in UsedFlow
  BY DEF TunnelInv, QueueInv
<1>1. CASE ListenTun
  <2>1. CASE ListenTun_enqueue
    BY <1>0, <2>1, EnqueueQueue
  <2>2. CASE \E f \in Flow : ListenTun_read(f)
    BY <1>0, <2>2, OtherQueue DEF ListenTun_read, sendVars, UsedFlow
  <2>3. CASE \/ ListenTun_readFails \/ ListenTun_lookup \/ ListenTun_open
             \/ ListenTun_storeStream \/ ListenTun_storeTime
    BY <1>0, <2>3, OtherQueue DEF ListenTun_readFails, ListenTun_lookup, ListenTun_open,
       ListenTun_storeStream, ListenTun_storeTime, sendVars
  <2> QED BY <1>1, <2>1, <2>2, <2>3 DEF ListenTun
<1>2. CASE SchedulePackets
  BY <1>0, <1>2, SchedulePacketsQueue
<1>3. CASE CollectUnused
  <2>1. UNCHANGED <<schedVars, tunVars, sendVars>>
    BY <1>3 DEF CollectUnused, CollectUnused_return, CollectUnused_scan,
       CollectUnused_close, CollectUnused_noStream, CollectUnused_read,
       CollectUnused_deleteStream, CollectUnused_deleteTime
  <2> QED BY <1>0, <2>1, OtherQueue DEF sendVars, tunVars
<1>4. CASE (\E f \in Flow : InactivityTimeout(f)) \/ ListenNet_accept
           \/ \E e \in Endpoint : ListenNet_fails(e)
  BY <1>0, <1>4, OtherQueue DEF InactivityTimeout, ListenNet_accept, ListenNet_fails,
     sendVars, tunVars
<1>5. CASE \E s \in Stream : HandleStream(s)
  BY <1>0, <1>5, OtherQueue DEF HandleStream, ListenNet_handleStream_recv,
     ListenNet_handleStream_write, ListenNet_handleStream_eof,
     ListenNet_handleStream_fails, sendVars, tunVars
<1>6. CASE WaitOutput
  <2>1. UNCHANGED <<schedVars, sendVars, tflow>>
    BY <1>6 DEF WaitOutput, LastError_ListenTun, LastError_CollectUnused,
       LastError_ListenNet, LastError_handleStream, tunVars
  <2> QED BY <1>0, <2>1, OtherQueue DEF sendVars
<1>7. CASE \E e \in Endpoint : SessionFails(e) \/ SessionFollows(e)
  <2>1. UNCHANGED <<schedVars, sendVars, tunVars>>
    BY <1>7 DEF SessionFails, SessionFollows, SessionEnds
  <2> QED BY <1>0, <2>1, OtherQueue DEF sendVars, tunVars
<1> QED BY <1>1, <1>2, <1>3, <1>4, <1>5, <1>6, <1>7 DEF Next

\* Every step is one of ListenTun's and CollectUnused's on the maps, or another.
LEMMA NextCases ==
  ASSUME Next
  PROVE  \/ ListenTun \/ LastError_ListenTun
         \/ CollectUnused \/ LastError_CollectUnused
         \/ OtherStep
BY DEF Next, WaitOutput, OtherStep

\* Every step keeps MapInv.
LEMMA NextMap ==
  ASSUME TunnelInv, Next
  PROVE  MapInv'
<1>0. MapInv /\ QueueInv
  BY DEF TunnelInv
<1>1. CASE ListenTun \/ LastError_ListenTun
  BY <1>0, <1>1, ListenTunReadsMap, OpenMap, StoreStreamMap, StoreTimeMap, EnqueueMap
  DEF ListenTun
<1>2. CASE CollectUnused \/ LastError_CollectUnused
  BY <1>0, <1>2, CollectReadsMap, CloseMap, CollectReadMap, DeleteStreamMap,
     DeleteTimeMap DEF CollectUnused
<1>3. CASE OtherStep
  <2>1. SameEnds
    BY <1>0, <1>3, OtherStepEnds DEF MapInv, QueueInv
  <2> QED BY <1>0, <1>3, <2>1, OtherStepFacts, OtherStepTimes, KeepMap
<1> QED BY <1>1, <1>2, <1>3, NextCases

\* The invariant is inductive.
LEMMA NextTunnel == TunnelInv /\ [Next]_vars => TunnelInv'
<1>1. ASSUME TunnelInv, Next PROVE TunnelInv'
  BY <1>1, NextMap, NextQueue DEF TunnelInv
<1>2. ASSUME TunnelInv, UNCHANGED vars PROVE TunnelInv'
  <2>1. MapInv'
    BY <1>2, SameStreams, KeepMap
    DEF TunnelInv, MapInv, MapTypes, vars, schedVars, streamVars, mapVars
  <2>2. QueueInv'
    BY <1>2, OtherQueue DEF TunnelInv, QueueInv, vars, sendVars, tunVars
  <2> QED BY <2>1, <2>2 DEF TunnelInv
<1> QED BY <1>1, <1>2

\* The map of streams that ListenTun and CollectUnused share without a lock is
\* exact: a stream that is open is the stream of exactly one flow or in the hands
\* of ListenTun, and one that is closed is no flow's but the one being collected.
THEOREM NoStreamLeaks == Spec => [](MapIsExact /\ MultiMapIsExact)
<1>1. Init => TunnelInv
  BY InitMap, InitQueue DEF TunnelInv
<1>2. TunnelInv => MapIsExact /\ MultiMapIsExact
  BY DEF TunnelInv, MapInv, MultiMapIsExact, MapIsExact, T!MapIsExact,
         OpenStreamReachable, T!OpenStreamReachable, Opened, T!Opened,
         ClosedStreamIsCollected, T!ClosedStreamIsCollected, NoStream, T!NoStream
<1> QED BY <1>1, <1>2, NextTunnel, PTL DEF Spec
-----------------------------------------------------------------------------
(* The streams the peer allows suffice. *)

\* The types of what the endpoints know of the session.
LEMMA NextEndTypes ==
  ASSUME EndTypes, Next
  PROVE  EndTypes'
<1>1. CASE UNCHANGED <<up, alive, npc, hpc>>
  BY <1>1 DEF EndTypes
<1>2. CASE ListenTun \/ SchedulePackets \/ CollectUnused
           \/ \E f \in Flow : InactivityTimeout(f)
  <2>1. UNCHANGED <<recvVars, endVars>>
    BY <1>2 DEF ListenTun, ListenTun_read, ListenTun_readFails, ListenTun_lookup,
       ListenTun_open, ListenTun_storeStream, ListenTun_storeTime, ListenTun_enqueue,
       SchedulePackets, SchedulePackets_step, sendPacket_load, sendPacket_noStream,
       sendPacket_write, sendPacket_written, sendPacket_writeFails, CollectUnused,
       CollectUnused_return, CollectUnused_scan, CollectUnused_close,
       CollectUnused_noStream, CollectUnused_read, CollectUnused_deleteStream,
       CollectUnused_deleteTime, InactivityTimeout
  <2> QED BY <1>1, <2>1 DEF recvVars, endVars
<1>3. CASE ListenNet_accept \/ \E e \in Endpoint : ListenNet_fails(e)
  BY <1>3 DEF ListenNet_accept, ListenNet_fails, EndTypes, endVars
<1>4. CASE \E s \in Stream : HandleStream(s)
  BY <1>4 DEF HandleStream, ListenNet_handleStream_recv, ListenNet_handleStream_write,
     ListenNet_handleStream_eof, ListenNet_handleStream_fails, EndTypes, endVars
<1>5. CASE WaitOutput
  <2>1. /\ up' = up
        /\ \E e \in Endpoint : WaitOutput_return(e)
        /\ npc' \in [Endpoint -> {"accept", "report", "stopped"}]
        /\ hpc' \in [Stream -> {"none", "recv", "write", "done", "report"}]
    BY <1>5 DEF WaitOutput, LastError_ListenTun, LastError_CollectUnused,
       LastError_ListenNet, LastError_handleStream, recvVars, Endpoint, EndTypes
  <2>2. PICK e \in Endpoint : WaitOutput_return(e)
    BY <2>1
  <2>3. PICK b \in BOOLEAN : b = ~IsClient(e)
    OBVIOUS
  <2>4. alive' = [alive EXCEPT ![e] = b]
    BY <2>2, <2>3 DEF WaitOutput_return
  <2> QED BY <2>1, <2>4 DEF EndTypes
<1>6. CASE \E e \in Endpoint : SessionFails(e) \/ SessionFollows(e)
  BY <1>6 DEF SessionFails, SessionFollows, SessionEnds, recvVars, EndTypes
<1> QED BY <1>2, <1>3, <1>4, <1>5, <1>6 DEF Next

\* A process that has exited does not come back.
LEMMA StaysDead ==
  ASSUME EndTypes, Next, alive'["snd"]
  PROVE  alive["snd"]
<1>0. Endpoint = {"snd", "rcv"}
  BY DEF Endpoint
<1>1. CASE UNCHANGED alive
  BY <1>1
<1>2. CASE \E e \in Endpoint : WaitOutput_return(e)
  BY <1>0, <1>2 DEF WaitOutput_return, EndTypes
<1>3. UNCHANGED alive \/ WaitOutput
  <2>1. ListenTun \/ SchedulePackets \/ CollectUnused => UNCHANGED alive
    BY DEF ListenTun, ListenTun_read, ListenTun_readFails, ListenTun_lookup,
       ListenTun_open, ListenTun_storeStream, ListenTun_storeTime, ListenTun_enqueue,
       SchedulePackets, SchedulePackets_step, sendPacket_load, sendPacket_noStream,
       sendPacket_write, sendPacket_written, sendPacket_writeFails, CollectUnused,
       CollectUnused_return, CollectUnused_scan, CollectUnused_close,
       CollectUnused_noStream, CollectUnused_read, CollectUnused_deleteStream,
       CollectUnused_deleteTime, endVars
  <2>2. \A f \in Flow : InactivityTimeout(f) => UNCHANGED alive
    BY DEF InactivityTimeout, endVars
  <2>3. ListenNet_accept \/ (\E e \in Endpoint : ListenNet_fails(e)) => UNCHANGED alive
    BY DEF ListenNet_accept, ListenNet_fails, endVars
  <2>4. \A s \in Stream : HandleStream(s) => UNCHANGED alive
    BY DEF HandleStream, ListenNet_handleStream_recv, ListenNet_handleStream_write,
       ListenNet_handleStream_eof, ListenNet_handleStream_fails, endVars
  <2>5. \A e \in Endpoint : SessionFails(e) \/ SessionFollows(e) => UNCHANGED alive
    BY DEF SessionFails, SessionFollows, SessionEnds
  <2> QED BY <2>1, <2>2, <2>3, <2>4, <2>5 DEF Next
<1>4. WaitOutput => \E e \in Endpoint : WaitOutput_return(e)
  BY <1>0 DEF WaitOutput, LastError_ListenTun, LastError_CollectUnused,
     LastError_ListenNet, LastError_handleStream
<1> QED BY <1>1, <1>2, <1>3, <1>4

\* A sender that still runs has seen neither session nor receiver end.
LEMMA NextQuiet ==
  ASSUME EndTypes, ~Failures, alive["snd"] => Quiet, Next, alive'["snd"]
  PROVE  Quiet'
<1>0. "snd" \in Endpoint /\ "rcv" \in Endpoint /\ Endpoint = {"snd", "rcv"}
  BY DEF Endpoint
<1>1. CASE UNCHANGED <<up, alive, npc, hpc>>
  BY <1>1 DEF Quiet
<1>2. CASE ListenTun \/ SchedulePackets \/ CollectUnused
           \/ \E f \in Flow : InactivityTimeout(f)
  <2>1. UNCHANGED <<recvVars, endVars>>
    BY <1>2 DEF ListenTun, ListenTun_read, ListenTun_readFails, ListenTun_lookup,
       ListenTun_open, ListenTun_storeStream, ListenTun_storeTime, ListenTun_enqueue,
       SchedulePackets, SchedulePackets_step, sendPacket_load, sendPacket_noStream,
       sendPacket_write, sendPacket_written, sendPacket_writeFails, CollectUnused,
       CollectUnused_return, CollectUnused_scan, CollectUnused_close,
       CollectUnused_noStream, CollectUnused_read, CollectUnused_deleteStream,
       CollectUnused_deleteTime, InactivityTimeout
  <2> QED BY <1>1, <2>1 DEF recvVars, endVars
<1>3. CASE ListenNet_accept \/ \E e \in Endpoint : ListenNet_fails(e)
  <2>1. Quiet
    BY <1>3 DEF ListenNet_accept, ListenNet_fails, endVars
  <2>2. ListenNet_accept
    BY <1>3, <2>1 DEF ListenNet_fails, Quiet
  <2>3. /\ up' = up /\ alive' = alive /\ npc' = npc
        /\ hpc' = [hpc EXCEPT ![naccepted + 1] = "recv"]
    BY <2>2 DEF ListenNet_accept, endVars
  <2>4. \A s \in Stream : hpc'[s] # "report"
    BY <2>1, <2>3 DEF Quiet, EndTypes
  <2> QED BY <2>1, <2>3, <2>4 DEF Quiet
<1>4. CASE \E s \in Stream : HandleStream(s)
  <2>0. UNCHANGED <<up, alive, npc>>
    BY <1>4 DEF HandleStream, ListenNet_handleStream_recv, ListenNet_handleStream_write,
       ListenNet_handleStream_eof, ListenNet_handleStream_fails, endVars
  <2>1. Quiet
    BY <2>0
  <2>2. PICK s \in Stream : HandleStream(s)
    BY <1>4
  <2>3. ~ListenNet_handleStream_fails(s)
    BY <1>0, <2>1 DEF ListenNet_handleStream_fails, Quiet
  <2>4. hpc' \in {[hpc EXCEPT ![s] = "write"], [hpc EXCEPT ![s] = "recv"],
                  [hpc EXCEPT ![s] = "done"]}
    BY <2>2, <2>3 DEF HandleStream, ListenNet_handleStream_recv,
       ListenNet_handleStream_write, ListenNet_handleStream_eof
  <2>5. \A r \in Stream : hpc'[r] # "report"
    BY <2>1, <2>4 DEF Quiet, EndTypes
  <2> QED BY <2>0, <2>1, <2>5 DEF Quiet
<1>5. CASE WaitOutput
  <2>1. PICK e \in Endpoint : WaitOutput_return(e)
    BY <1>0, <1>5 DEF WaitOutput, LastError_ListenTun, LastError_CollectUnused,
       LastError_ListenNet, LastError_handleStream
  <2>2. /\ alive[e] /\ alive' = [alive EXCEPT ![e] = ~IsClient(e)]
    BY <2>1 DEF WaitOutput_return
  <2>3. alive["snd"] /\ Quiet
    <3>1. CASE e = "snd"
      BY <2>2, <3>1
    <3>2. CASE e # "snd"
      BY <1>0, <2>2, <3>2 DEF EndTypes
    <3> QED BY <3>1, <3>2
  <2>4. LastError_ListenTun \/ LastError_CollectUnused
    BY <1>5, <2>3 DEF WaitOutput, LastError_ListenNet, LastError_handleStream, Quiet
  <2>5. /\ UNCHANGED <<up, npc, hpc>>
        /\ WaitOutput_return("snd")
    BY <2>4 DEF LastError_ListenTun, LastError_CollectUnused, recvVars
  <2>6. alive'["rcv"]
    BY <1>0, <2>3, <2>5 DEF WaitOutput_return, EndTypes, Quiet
  <2> QED BY <2>3, <2>5, <2>6 DEF Quiet
<1>6. CASE \E e \in Endpoint : SessionFails(e) \/ SessionFollows(e)
  <2>1. UNCHANGED alive
    BY <1>6 DEF SessionFails, SessionFollows, SessionEnds
  <2>2. Quiet /\ \A e \in Endpoint : up[e] /\ alive[e]
    BY <1>0, <2>1 DEF Quiet
  <2> QED BY <1>6, <2>2 DEF SessionFails, SessionFollows
<1> QED BY <1>2, <1>3, <1>4, <1>5, <1>6 DEF Next

\* The streams that count all belong to other flows than the one without an
\* entry in mapInteraction, so the peer allows one more.
LEMMA LimitNotReached ==
  ASSUME MapInv, CountedReachable, tpc = "open", Cardinality(Flow) <= StreamLimit
  PROVE  Cardinality(Counted) < StreamLimit
<1>1. tflow \in Flow /\ mapQuicStream[tflow] = NoStream /\ tstream = NoStream
  BY DEF MapInv, MapTypes, ListenTunInv, InHandInv
<1>2. \A s \in Counted : s # NoStream
  BY DEF Counted, Opened, NoStream, MapInv, MapTypes
<1> DEFINE Others == Flow \ {tflow}
           flowOf == [s \in Counted |-> CHOOSE f \in Flow : mapQuicStream[f] = s]
<1>3. \A s \in Counted : flowOf[s] \in Others /\ mapQuicStream[flowOf[s]] = s
  <2> SUFFICES ASSUME NEW s \in Counted
               PROVE  flowOf[s] \in Others /\ mapQuicStream[flowOf[s]] = s
    OBVIOUS
  <2>1. \E f \in Flow : mapQuicStream[f] = s
    BY <1>1, <1>2 DEF CountedReachable
  <2>2. flowOf[s] \in Flow /\ mapQuicStream[flowOf[s]] = s
    BY <2>1
  <2> QED BY <1>1, <1>2, <2>2
<1>4. flowOf \in Injection(Counted, Others)
  <2>1. flowOf \in [Counted -> Others]
    BY <1>3
  <2>2. \A a, b \in Counted : flowOf[a] = flowOf[b] => a = b
    BY <1>3
  <2> HIDE DEF flowOf, Others
  <2> QED BY <2>1, <2>2 DEF Injection, IsInjective
<1>5. /\ IsFiniteSet(Others) /\ Cardinality(Others) = Cardinality(Flow) - 1
      /\ Cardinality(Flow) \in Nat
  BY <1>1, TransmitterAssumption, FS_RemoveElement, FS_CardinalityType
<1> HIDE DEF flowOf, Others
<1>6. Cardinality(Counted) \in Nat /\ Cardinality(Counted) <= Cardinality(Others)
  BY <1>4, <1>5, FS_Injection, FS_CardinalityType
<1> QED BY <1>5, <1>6, TransmitterAssumption

\* CountedReachable in the steps that leave the set of streams that count, or
\* take one out of it.
LEMMA KeepReachable ==
  ASSUME CountedReachable, Counted' \subseteq Counted,
         tstream' = tstream, mapQuicStream' = mapQuicStream
  PROVE  CountedReachable'
BY DEF CountedReachable

\* The streams that count do not change in a step that changes no end.
LEMMA SameCounted ==
  ASSUME MapInv, nopen' = nopen, SameEnds \/ streams' = streams
  PROVE  Counted' = Counted
<1>1. Opened' = Opened /\ Opened \subseteq Stream
  BY OpenedType DEF MapInv, Opened
<1> QED BY <1>1 DEF SameEnds, Counted

\* LimitInv over a step of ListenTun.
LEMMA ListenTunLimit ==
  ASSUME TunnelInv, EndTypes, LimitInv, ~Failures, Cardinality(Flow) <= StreamLimit,
         Next, ListenTun
  PROVE  LimitInv'
<1>0. /\ MapInv /\ CountedReachable
      /\ alive["snd"] /\ cpc' = cpc /\ cflow' = cflow /\ streams' = streams
      /\ alive'["snd"] => Quiet'
  <2>1. alive'["snd"] => Quiet'
    BY NextQuiet DEF LimitInv
  <2> QED BY <2>1 DEF TunnelInv, LimitInv, ListenTun, ListenTun_read, ListenTun_readFails,
         ListenTun_lookup, ListenTun_open, ListenTun_storeStream, ListenTun_storeTime,
         ListenTun_enqueue, collectVars, streamVars
<1>1. CASE \/ \E f \in Flow : ListenTun_read(f)
           \/ ListenTun_lookup \/ ListenTun_storeTime \/ ListenTun_enqueue
  <2>1. /\ tpc' # "report" /\ tstream' = tstream
        /\ mapQuicStream' = mapQuicStream /\ nopen' = nopen
    BY <1>1 DEF ListenTun_read, ListenTun_lookup, ListenTun_storeTime,
       ListenTun_enqueue, mapVars, streamVars
  <2>2. Counted' = Counted
    BY <1>0, <2>1, SameCounted
  <2>3. CountedReachable'
    BY <1>0, <2>1, <2>2, KeepReachable
  <2> QED BY <1>0, <2>1, <2>3 DEF LimitInv
<1>2. CASE ListenTun_readFails
  BY <1>2 DEF ListenTun_readFails
<1>3. CASE ListenTun_open
  <2>1. Quiet /\ "snd" \in Endpoint
    BY <1>0 DEF LimitInv, Endpoint
  <2>2. Cardinality(Counted) < StreamLimit
    BY <1>0, <1>3, LimitNotReached DEF ListenTun_open
  <2>3. /\ nopen' = nopen + 1 /\ tstream' = nopen + 1 /\ tpc' = "storeStream"
        /\ mapQuicStream' = mapQuicStream
    BY <1>3, <2>1, <2>2 DEF ListenTun_open, Quiet, mapVars
  <2>4. tstream = NoStream /\ nopen \in Nat
    BY <1>0, <1>3 DEF ListenTun_open, MapInv, MapTypes, InHandInv
  <2>5. Counted' \subseteq Counted \cup {nopen + 1} /\ \A s \in Counted : s # NoStream
    BY <1>0, <2>3, <2>4 DEF Counted, Opened, NoStream
  <2>6. CountedReachable'
    BY <1>0, <2>3, <2>4, <2>5 DEF CountedReachable
  <2> QED BY <1>0, <2>3, <2>6 DEF LimitInv
<1>4. CASE ListenTun_storeStream
  <2>1. /\ tpc' # "report" /\ tflow \in Flow /\ nopen' = nopen
        /\ mapQuicStream' = [mapQuicStream EXCEPT ![tflow] = tstream]
        /\ mapQuicStream[tflow] = NoStream
    BY <1>0, <1>4 DEF ListenTun_storeStream, MapInv, MapTypes, ListenTunInv, streamVars
  <2>2. /\ mapQuicStream'[tflow] = tstream
        /\ \A f \in Flow : f # tflow => mapQuicStream'[f] = mapQuicStream[f]
    BY <1>0, <2>1 DEF MapInv, MapTypes
  <2>3. Counted' = Counted /\ \A s \in Counted : s # NoStream
    BY <1>0, <2>1, SameCounted DEF Counted, Opened, NoStream, MapInv, MapTypes
  <2>4. CountedReachable'
    <3> SUFFICES ASSUME NEW s \in Counted
                 PROVE  \E f \in Flow : mapQuicStream'[f] = s
      BY <2>3 DEF CountedReachable
    <3>1. CASE s = tstream
      BY <2>1, <2>2, <3>1
    <3>2. CASE s # tstream
      <4>1. PICK f \in Flow : mapQuicStream[f] = s
        BY <1>0, <3>2 DEF CountedReachable
      <4>2. f # tflow
        BY <2>1, <2>3, <4>1
      <4> QED BY <2>2, <4>1, <4>2
    <3> QED BY <3>1, <3>2
  <2>5. cpc = "deleteStream" => cflow \in Flow /\ cflow # tflow
    BY <1>0, <2>1 DEF MapInv, MapTypes, CollectInv
  <2> QED BY <1>0, <2>1, <2>2, <2>4, <2>5 DEF LimitInv
<1> QED BY <1>1, <1>2, <1>3, <1>4 DEF ListenTun

\* LimitInv over a step of CollectUnused: it forgets a stream only when the peer
\* has given it back.
LEMMA CollectLimit ==
  ASSUME TunnelInv, EndTypes, LimitInv, ~Failures, Next, CollectUnused
  PROVE  LimitInv'
<1>0. /\ MapInv /\ CountedReachable
      /\ alive["snd"] /\ tpc' = tpc /\ tstream' = tstream /\ nopen' = nopen
      /\ alive'["snd"] => Quiet'
  <2>1. alive'["snd"] => Quiet'
    BY NextQuiet DEF LimitInv
  <2> QED BY <2>1 DEF TunnelInv, LimitInv, CollectUnused, CollectUnused_return,
         CollectUnused_scan, CollectUnused_close, CollectUnused_noStream,
         CollectUnused_read, CollectUnused_deleteStream, CollectUnused_deleteTime,
         tunVars, streamVars
<1>1. CASE \/ CollectUnused_return \/ \E f \in Flow : CollectUnused_scan(f)
           \/ CollectUnused_noStream \/ CollectUnused_deleteTime
  <2>1. cpc' # "deleteStream" /\ mapQuicStream' = mapQuicStream /\ streams' = streams
    BY <1>1 DEF CollectUnused_return, CollectUnused_scan, CollectUnused_noStream,
       CollectUnused_deleteTime, mapVars, streamVars
  <2>2. CountedReachable'
    BY <1>0, <2>1, SameCounted, KeepReachable
  <2> QED BY <1>0, <2>1, <2>2 DEF LimitInv
<1>2. CASE CollectUnused_close
  <2>1. /\ cpc' = "read" /\ mapQuicStream' = mapQuicStream
        /\ streams' = [streams EXCEPT ![mapQuicStream[cflow]].fin = TRUE]
        /\ mapQuicStream[cflow] \in Stream
    BY <1>0, <1>2 DEF CollectUnused_close, mapVars, MapInv, MapTypes
  <2>2. PICK b \in BOOLEAN : b = TRUE
    OBVIOUS
  <2>3. /\ \A r \in Stream : streams[r].fin => streams'[r].fin
        /\ \A r \in Stream : streams'[r].finRead = streams[r].finRead
    BY <1>0, <2>1, <2>2, SetFin DEF MapInv
  <2>4. Counted' \subseteq Counted
    BY <1>0, <2>3, OpenedType DEF Counted, Opened, MapInv
  <2>5. CountedReachable'
    BY <1>0, <2>1, <2>4, KeepReachable
  <2> QED BY <1>0, <2>1, <2>5 DEF LimitInv
<1>3. CASE CollectUnused_read
  <2>1. /\ mapQuicStream' = mapQuicStream /\ cflow' = cflow
        /\ mapQuicStream[cflow] \in Stream
    BY <1>0, <1>3 DEF CollectUnused_read, mapVars, MapInv, MapTypes, CollectInv
  <2>2. up["snd"]
    BY <1>0 DEF LimitInv, Quiet, Endpoint
  <2>3. streams' = [streams EXCEPT ![mapQuicStream[cflow]].finRead = TRUE]
    BY <1>3, <2>2 DEF CollectUnused_read
  <2>4. PICK b \in BOOLEAN : b = TRUE
    OBVIOUS
  <2>5. /\ \A r \in Stream : streams'[r].fin = streams[r].fin
        /\ \A r \in Stream : streams[r].finRead => streams'[r].finRead
        /\ streams'[mapQuicStream[cflow]].finRead
    BY <1>0, <2>1, <2>3, <2>4, SetFinRead DEF MapInv
  <2>6. Counted' \subseteq Counted
    BY <1>0, <2>5, OpenedType DEF Counted, Opened, MapInv
  <2>7. CountedReachable'
    BY <1>0, <2>1, <2>6, KeepReachable
  <2> QED BY <1>0, <2>1, <2>5, <2>7 DEF LimitInv
<1>4. CASE CollectUnused_deleteStream
  <2>1. /\ cpc = "deleteStream" /\ cpc' # "deleteStream" /\ streams' = streams
        /\ mapQuicStream' = [mapQuicStream EXCEPT ![cflow] = NoStream]
    BY <1>4 DEF CollectUnused_deleteStream, streamVars
  <2>2. streams[mapQuicStream[cflow]].fin /\ streams[mapQuicStream[cflow]].finRead
    BY <1>0, <2>1 DEF LimitInv, MapInv, CollectInv
  <2>3. Counted' = Counted /\ mapQuicStream[cflow] \notin Counted
    BY <1>0, <2>1, <2>2, SameCounted DEF Counted
  <2>4. \A f \in Flow : f # cflow => mapQuicStream'[f] = mapQuicStream[f]
    BY <1>0, <2>1 DEF MapInv, MapTypes
  <2>5. CountedReachable'
    BY <1>0, <2>3, <2>4 DEF CountedReachable
  <2> QED BY <1>0, <2>1, <2>5 DEF LimitInv
<1> QED BY <1>1, <1>2, <1>3, <1>4 DEF CollectUnused

\* The other steps leave the streams that count alone.
LEMMA OtherLimit ==
  ASSUME TunnelInv, EndTypes, LimitInv, ~Failures, Next,
         LastError_ListenTun \/ LastError_CollectUnused \/ OtherStep
  PROVE  LimitInv'
<1>0. /\ MapInv /\ QueueInv /\ CountedReachable /\ tpc # "report"
      /\ alive'["snd"] => Quiet'
      /\ ~LastError_ListenTun
  <2>1. alive'["snd"] => Quiet'
    BY NextQuiet DEF LimitInv
  <2> QED BY <2>1 DEF TunnelInv, LimitInv, LastError_ListenTun
<1>1. /\ tpc' = tpc /\ tstream' = tstream /\ mapQuicStream' = mapQuicStream
      /\ nopen' = nopen /\ cflow' = cflow
      /\ cpc' = "deleteStream" => cpc = "deleteStream"
  <2>1. CASE LastError_CollectUnused
    BY <2>1 DEF LastError_CollectUnused, tunVars, mapVars, streamVars
  <2>2. CASE OtherStep
    BY <2>2, OtherStepFacts DEF tunVars, collectVars
  <2> QED BY <1>0, <2>1, <2>2
<1>2. SameEnds
  <2>1. CASE LastError_CollectUnused
    BY <1>0, <2>1, SameStreams DEF LastError_CollectUnused, streamVars, MapInv
  <2>2. CASE OtherStep
    BY <1>0, <2>2, OtherStepEnds DEF MapInv, QueueInv
  <2> QED BY <1>0, <2>1, <2>2
<1>3. CountedReachable'
  BY <1>0, <1>1, <1>2, SameCounted, KeepReachable
<1>4. alive'["snd"] => alive["snd"]
  BY StaysDead
<1>5. cpc = "deleteStream" => mapQuicStream[cflow] \in Stream
  BY <1>0 DEF MapInv, MapTypes, CollectInv
<1>6. alive'["snd"] /\ cpc' = "deleteStream" => streams'[mapQuicStream'[cflow']].finRead
  BY <1>1, <1>2, <1>4, <1>5 DEF LimitInv, SameEnds
<1> QED BY <1>0, <1>1, <1>3, <1>6 DEF LimitInv

\* LimitInv is about a tunnel in which nothing may fail.
EnoughStreams == ~Failures /\ Cardinality(Flow) <= StreamLimit

SafeLimit == TunnelInv /\ EndTypes /\ (EnoughStreams => LimitInv)

\* It holds at the start.
LEMMA InitLimit == Init => SafeLimit
<1> SUFFICES ASSUME Init PROVE TunnelInv /\ EndTypes /\ LimitInv
  BY DEF SafeLimit
<1>1. TunnelInv
  BY InitMap, InitQueue DEF TunnelInv
<1>2. EndTypes /\ Quiet
  BY DEF Init, EndTypes, Quiet, Endpoint
<1>3. Counted = {}
  BY DEF Init, Counted, Opened
<1> QED BY <1>1, <1>2, <1>3 DEF Init, LimitInv, CountedReachable

\* And it is inductive.
LEMMA NextLimit == SafeLimit /\ [Next]_vars => SafeLimit'
<1>1. ASSUME SafeLimit, Next PROVE SafeLimit'
  <2>1. TunnelInv' /\ EndTypes'
    BY <1>1, NextTunnel, NextEndTypes DEF SafeLimit
  <2>2. ASSUME EnoughStreams PROVE LimitInv'
    BY <1>1, <2>2, NextCases, ListenTunLimit, CollectLimit, OtherLimit
    DEF SafeLimit, EnoughStreams
  <2> QED BY <2>1, <2>2 DEF SafeLimit, EnoughStreams
<1>2. ASSUME SafeLimit, UNCHANGED vars PROVE SafeLimit'
  <2>1. TunnelInv'
    BY <1>2, NextTunnel DEF SafeLimit
  <2>2. EndTypes'
    BY <1>2 DEF SafeLimit, EndTypes, vars, endVars, recvVars
  <2>3. LimitInv => LimitInv'
    <3>1. UNCHANGED <<tunVars, collectVars, mapVars, streamVars, recvVars, endVars>>
      BY <1>2 DEF vars
    <3> QED BY <3>1 DEF LimitInv, Quiet, CountedReachable, Counted, Opened, tunVars,
               collectVars, mapVars, streamVars, recvVars, endVars
  <2> QED BY <1>2, <2>1, <2>2, <2>3 DEF SafeLimit, EnoughStreams
<1> QED BY <1>1, <1>2

\* When the peer allows as many streams as there are flows, OpenStream is never
\* refused and ListenTun does not stop, however often flows come and go: the
\* collector forgets a stream only after the peer has given it back.
THEOREM StreamsNeverRunOut == Spec => [](StreamLimitSuffices /\ MultiStreamLimitSuffices)
<1>0. T!Cardinality(Flow) = Cardinality(Flow)
  BY DEF T!Cardinality, Cardinality
<1>1. SafeLimit => StreamLimitSuffices /\ MultiStreamLimitSuffices
  BY <1>0 DEF SafeLimit, EnoughStreams, LimitInv, StreamLimitSuffices,
         MultiStreamLimitSuffices, T!StreamLimitSuffices
<1> QED BY <1>1, InitLimit, NextLimit, PTL DEF Spec
-----------------------------------------------------------------------------
(* Over a single stream nothing is dropped. *)

\* CollectUnused returns at once, so the stream is never closed.
LEMMA NextOneStream ==
  ASSUME TunnelInv, ~Multi_streams, OneStream, Next
  PROVE  OneStream'
<1>0. MapInv /\ QueueInv
  BY DEF TunnelInv
<1>1. CASE ListenTun \/ LastError_ListenTun
  <2>1. UNCHANGED <<cpc, streams>>
    BY <1>1 DEF ListenTun, ListenTun_read, ListenTun_readFails, ListenTun_lookup,
       ListenTun_open, ListenTun_storeStream, ListenTun_storeTime, ListenTun_enqueue,
       LastError_ListenTun, collectVars, streamVars
  <2> QED BY <2>1 DEF OneStream
<1>2. CASE CollectUnused \/ LastError_CollectUnused
  <2>1. CollectUnused_return
    BY <1>2 DEF OneStream, CollectUnused, CollectUnused_scan, CollectUnused_close,
       CollectUnused_noStream, CollectUnused_read, CollectUnused_deleteStream,
       CollectUnused_deleteTime, LastError_CollectUnused
  <2> QED BY <2>1 DEF CollectUnused_return, OneStream, streamVars
<1>3. CASE OtherStep
  <2>1. SameEnds
    BY <1>0, <1>3, OtherStepEnds DEF MapInv, QueueInv
  <2> QED BY <1>3, <2>1, OtherStepFacts DEF SameEnds, OneStream, collectVars
<1> QED BY <1>1, <1>2, <1>3, NextCases

\* A packet SchedulePackets sends has the empty flow.
LEMMA SentIsZero ==
  ASSUME QueueInv, ~Multi_streams, spc = "send"
  PROVE  workingSlice # <<>> /\ Head(workingSlice).flow = ZeroFlow
<1>1. workingSlice \in Seq(Packets) /\ workingSlice # <<>>
  BY DEF QueueInv
<1>2. Head(workingSlice) \in Packets
  BY <1>1, MovedType
<1> QED BY <1>1, <1>2 DEF Packets, UsedFlow

\* The stream of the empty flow is in the map before anything is queued.
LEMMA NextStreamFirst ==
  ASSUME TunnelInv, ~Multi_streams, OneStream, StreamFirst, Next
  PROVE  StreamFirst'
<1>0. MapInv /\ QueueInv /\ tflow = ZeroFlow /\ ZeroFlow \in Flow
  BY TransmitterAssumption DEF TunnelInv, QueueInv, UsedFlow
<1>1. CASE ListenTun \/ LastError_ListenTun
  <2>1. CASE ListenTun_storeStream
    <3>1. mapQuicStream' = [mapQuicStream EXCEPT ![ZeroFlow] = tstream] /\ tstream # NoStream
      BY <1>0, <2>1 DEF ListenTun_storeStream, MapInv, InHandInv
    <3>2. mapQuicStream'[ZeroFlow] # NoStream
      BY <1>0, <3>1 DEF MapInv, MapTypes
    <3> QED BY <3>2 DEF StreamFirst
  <2>2. CASE ListenTun_storeTime \/ ListenTun_enqueue
    <3>1. mapQuicStream' = mapQuicStream /\ mapQuicStream[ZeroFlow] # NoStream
      BY <2>2 DEF ListenTun_storeTime, ListenTun_enqueue, StreamFirst, mapVars
    <3> QED BY <3>1 DEF StreamFirst
  <2>3. CASE \/ \E f \in Flow : ListenTun_read(f)
             \/ ListenTun_readFails \/ ListenTun_lookup \/ ListenTun_open
             \/ LastError_ListenTun
    <3>1. /\ UNCHANGED <<mapInteraction, mapQuicStream, toSendQueue, workingSlice>>
          /\ tpc' \in {"storeTime", "enqueue"} => mapInteraction[ZeroFlow] # "none"
      BY <1>0, <2>3 DEF ListenTun_read, ListenTun_readFails, ListenTun_lookup,
         ListenTun_open, LastError_ListenTun, mapVars, schedVars
    <3> QED BY <3>1 DEF StreamFirst
  <2> QED BY <1>1, <2>1, <2>2, <2>3 DEF ListenTun
<1>2. CASE CollectUnused \/ LastError_CollectUnused
  <2>1. CollectUnused_return
    BY <1>2 DEF OneStream, CollectUnused, CollectUnused_scan, CollectUnused_close,
       CollectUnused_noStream, CollectUnused_read, CollectUnused_deleteStream,
       CollectUnused_deleteTime, LastError_CollectUnused
  <2> QED BY <2>1 DEF CollectUnused_return, StreamFirst, tunVars, mapVars, schedVars
<1>3. CASE OtherStep
  <2>1. /\ tpc' = tpc /\ mapQuicStream' = mapQuicStream
        /\ mapInteraction'[ZeroFlow] = "none" <=> mapInteraction[ZeroFlow] = "none"
    BY <1>0, <1>3, OtherStepFacts, OtherStepTimes DEF tunVars
  <2>2. toSendQueue' # <<>> \/ workingSlice' # <<>> => toSendQueue # <<>> \/ workingSlice # <<>>
    <3>1. CASE SchedulePackets_step
      BY <1>0, <3>1, SchedulerQueue
    <3>2. CASE sendPacket_noStream \/ sendPacket_written \/ sendPacket_writeFails
      BY <1>0, <3>2, SentQueue DEF sendPacket_noStream, sendPacket_written,
         sendPacket_writeFails
    <3>3. CASE UNCHANGED schedVars
      BY <3>3 DEF schedVars
    <3>4. SchedulePackets => SchedulePackets_step \/ sendPacket_noStream
             \/ sendPacket_written \/ sendPacket_writeFails \/ UNCHANGED schedVars
      BY DEF SchedulePackets, sendPacket_load, sendPacket_write
    <3>5. ~SchedulePackets => UNCHANGED schedVars
      BY <1>3 DEF OtherStep, InactivityTimeout, ListenNet_accept, ListenNet_fails,
         HandleStream, ListenNet_handleStream_recv, ListenNet_handleStream_write,
         ListenNet_handleStream_eof, ListenNet_handleStream_fails,
         LastError_ListenNet, LastError_handleStream, SessionFails, SessionFollows,
         SessionEnds
    <3> QED BY <3>1, <3>2, <3>3, <3>4, <3>5
  <2> QED BY <2>1, <2>2 DEF StreamFirst
<1> QED BY <1>1, <1>2, <1>3, NextCases

\* sendPacket drops nothing while the session is up.
LEMMA NextNothingLost ==
  ASSUME TunnelInv, EndTypes, ~Multi_streams, OneStream, StreamFirst,
         up["snd"] => lost = {}, Next, up'["snd"]
  PROVE  lost' = {}
<1>0. MapInv /\ QueueInv /\ Endpoint = {"snd", "rcv"}
  BY DEF TunnelInv, Endpoint
<1>1. CASE UNCHANGED <<up, lost>>
  BY <1>1
<1>2. CASE SchedulePackets
  <2>1. ~sendPacket_noStream
    <3> SUFFICES ASSUME sendPacket_noStream PROVE FALSE
      OBVIOUS
    <3>1. workingSlice # <<>> /\ Head(workingSlice).flow = ZeroFlow
      BY <1>0, SentIsZero DEF sendPacket_noStream
    <3> QED BY <3>1 DEF sendPacket_noStream, StreamFirst
  <2>2. up' = up
    BY <1>2 DEF SchedulePackets, SchedulePackets_step, sendPacket_load,
       sendPacket_noStream, sendPacket_write, sendPacket_written,
       sendPacket_writeFails, endVars
  <2>3. ~sendPacket_writeFails
    BY <1>0, <2>2 DEF sendPacket_writeFails, QueueInv, OneStream
  <2>4. lost' = lost
    BY <1>2, <2>1, <2>3 DEF SchedulePackets, SchedulePackets_step, sendPacket_load,
       sendPacket_write, sendPacket_written, histVars
  <2> QED BY <1>1, <2>2, <2>4
<1>3. CASE ListenTun \/ CollectUnused \/ \E f \in Flow : InactivityTimeout(f)
  <2>1. UNCHANGED <<up, lost>>
    BY <1>3 DEF ListenTun, ListenTun_read, ListenTun_readFails, ListenTun_lookup,
       ListenTun_open, ListenTun_storeStream, ListenTun_storeTime, ListenTun_enqueue,
       CollectUnused, CollectUnused_return, CollectUnused_scan, CollectUnused_close,
       CollectUnused_noStream, CollectUnused_read, CollectUnused_deleteStream,
       CollectUnused_deleteTime, InactivityTimeout, endVars, histVars
  <2> QED BY <1>1, <2>1
<1>4. CASE ListenNet_accept \/ (\E e \in Endpoint : ListenNet_fails(e))
           \/ \E s \in Stream : HandleStream(s)
  <2>1. UNCHANGED <<up, lost>>
    BY <1>4 DEF ListenNet_accept, ListenNet_fails, HandleStream,
       ListenNet_handleStream_recv, ListenNet_handleStream_write,
       ListenNet_handleStream_eof, ListenNet_handleStream_fails, endVars, histVars
  <2> QED BY <1>1, <2>1
<1>5. CASE WaitOutput
  <2>1. UNCHANGED <<up, lost>>
    BY <1>5 DEF WaitOutput, LastError_ListenTun, LastError_CollectUnused,
       LastError_ListenNet, LastError_handleStream, histVars
  <2> QED BY <1>1, <2>1
<1>6. CASE \E e \in Endpoint : SessionFails(e) \/ SessionFollows(e)
  <2>1. PICK e \in Endpoint : SessionEnds(e)
    BY <1>6 DEF SessionFails, SessionFollows
  <2>2. up' = [up EXCEPT ![e] = FALSE]
    BY <2>1 DEF SessionEnds
  <2>3. e # "snd" /\ up["snd"]
    BY <1>0, <2>2 DEF EndTypes
  <2>4. lost' = lost
    BY <2>1, <2>3 DEF SessionEnds
  <2> QED BY <2>3, <2>4
<1> QED BY <1>2, <1>3, <1>4, <1>5, <1>6 DEF Next

\* The three together are inductive.
LEMMA NextSingle ==
  (SafeLimit /\ SingleInv) /\ [Next]_vars => (SafeLimit /\ SingleInv)'
<1>1. ASSUME SafeLimit, SingleInv, Next PROVE SafeLimit' /\ SingleInv'
  BY <1>1, NextLimit, NextOneStream, NextStreamFirst, NextNothingLost
  DEF SafeLimit, SingleInv
<1>2. ASSUME SafeLimit, SingleInv, UNCHANGED vars PROVE SafeLimit' /\ SingleInv'
  <2>1. SafeLimit'
    BY <1>2, NextLimit
  <2>2. UNCHANGED <<schedVars, tunVars, collectVars, mapVars, streamVars, endVars, histVars>>
    BY <1>2 DEF vars
  <2>3. SingleInv'
    BY <1>2, <2>2 DEF SingleInv, OneStream, StreamFirst, schedVars, tunVars, collectVars,
       mapVars, streamVars, endVars, histVars
  <2> QED BY <2>1, <2>3
<1> QED BY <1>1, <1>2

\* A tunnel without Multi_streams is reliable: no packet is dropped while the
\* session is up at the sender, whatever fails at the receiver.
THEOREM OneStreamDropsNothing ==
  Spec => [](SingleStreamReliable /\ (~Multi_streams => OneStreamReliable))
<1>1. Init => SingleInv
  BY TransmitterAssumption DEF Init, S!Init, SingleInv, OneStream, StreamFirst
<1>2. SingleInv => SingleStreamReliable /\ (~Multi_streams => OneStreamReliable)
  BY DEF SingleInv, SingleStreamReliable, OneStreamReliable, Single!SingleStreamReliable
<1> QED BY <1>1, <1>2, InitLimit, NextSingle, PTL DEF Spec
=============================================================================

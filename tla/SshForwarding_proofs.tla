------------------------ MODULE SshForwarding_proofs ------------------------
(***************************************************************************)
(* Proofs about the two models of a quic_ssh session (MCSshForwarding).    *)
(*                                                                         *)
(* About ForwardingSession, for every number of connections and every      *)
(* pair of limits: the types of its variables, that the stream             *)
(* AcceptStream returns next is in the server's map, what the server keeps *)
(* of the streams the client has forgotten, and when that is too much.     *)
(*                                                                         *)
(* About SshSession (instance Ssh), for every set of clients, with any     *)
(* ports and whatever errors end their sessions: the types of its          *)
(* variables, that stopSessionChannel is sent on once, what the end of the *)
(* server process takes, and when a port is kept after its client.         *)
(***************************************************************************)
EXTENDS MCSshForwarding, FiniteSetTheorems, TLAPS

USE DEF Side

\* The type of the part of the state that the server's streams depend on.
ServerType ==
  /\ arrived \in 0..MaxConns /\ opened \in Nat
  /\ highest \in Nat /\ accepted \in Nat
  /\ dest \in [Stream -> {"none", "control", "dial", "pumps", "stopped"}]
  /\ streams \in [Side -> SUBSET Stream]
  /\ t2q \in [Side -> [Stream -> {"off", "run", "done"}]]
  /\ q2t \in [Side -> [Stream -> {"off", "run", "done"}]]

\* A stream that has not been accepted has no goroutine at the server.
NobodyYet ==
  \A s \in Stream : s > accepted => /\ dest[s] = "none"
                                    /\ t2q["server"][s] = "off"
                                    /\ q2t["server"][s] = "off"

\* The inductive invariant: only a goroutine of the server can end a stream
\* there, so that those not yet accepted stay in the map.
MapInv == ServerType /\ NobodyYet /\ NextToAcceptIsThere

\* What a pump of endpoint e does to the maps (SendFin, ReadFin): it deletes its
\* own stream at most.
LEMMA PumpDeletes ==
  ASSUME streams \in [Side -> SUBSET Stream], NEW e \in Side, NEW s \in Stream,
         \/ SendFin(e, s) \/ ReadFin(e, s) \/ UNCHANGED streamVars
  PROVE  /\ streams' \in [Side -> SUBSET Stream]
         /\ e = "client" => streams'["server"] = streams["server"]
         /\ streams["server"] \ {s} \subseteq streams'["server"]
  BY DEF SendFin, ReadFin, streamVars

\* Initially no stream exists.
LEMMA MapInvInit == Init => MapInv
<1> SUFFICES ASSUME Init PROVE MapInv
  OBVIOUS
<1>1. ServerType
  BY ForwardingSessionAssumption DEF Init, ServerType
<1>2. NobodyYet
  BY DEF Init, NobodyYet
<1>3. NextToAcceptIsThere
  BY DEF Init, NextToAcceptIsThere
<1> QED
  BY <1>1, <1>2, <1>3 DEF MapInv

\* Each step of the two endpoints preserves the invariant.
LEMMA MapInvStep == MapInv /\ [Next]_vars => MapInv'
<1> SUFFICES ASSUME MapInv, [Next]_vars PROVE MapInv'
  OBVIOUS
<1> USE DEF MapInv, ServerType, NobodyYet, NextToAcceptIsThere,
            openVars, acceptVars, streamVars, pumpVars
<1>1. CASE UNCHANGED vars
  BY <1>1 DEF vars
<1>2. CASE TCPListener_Accept \/ OpenStreamSync_fails \/ Close
           \/ AcceptStream_ends \/ AcceptStream_fails
  BY <1>2, ForwardingSessionAssumption
     DEF TCPListener_Accept, OpenStreamSync_fails, Close, AcceptStream_ends,
         AcceptStream_fails
<1>3. CASE \E e \in Side : closeRemote(e)
  BY <1>3 DEF closeRemote
<1>4. CASE OpenStreamSync
  <2>1. opened' \in Stream
    BY <1>4, ForwardingSessionAssumption DEF OpenStreamSync, Stream
  <2> QED
    BY <1>4, <2>1 DEF OpenStreamSync
<1>5. ASSUME NEW s \in Stream, runAsSource_flow(s) PROVE MapInv'
  <2>1. CASE writeControlMessage(s)
    BY <2>1 DEF writeControlMessage, StartPumps
  <2>2. CASE writeControlMessage_fails(s)
    BY <2>2 DEF writeControlMessage_fails
  <2> QED
    BY <1>5, <2>1, <2>2 DEF runAsSource_flow
<1>6. ASSUME NEW s \in Stream, FirstFrame(s) PROVE MapInv'
  <2>1. CASE getOrOpenStream(s)
    <3>1. s \in Nat /\ (highest + 1)..s \subseteq Stream
      BY ForwardingSessionAssumption DEF Stream
    <3> QED
      BY <2>1, <3>1 DEF getOrOpenStream
  <2>2. CASE getOrOpenStream_fails(s)
    <3>1. PICK last \in highest..(s - 1) :
            /\ streams' = [streams EXCEPT !["server"] = @ \cup (highest + 1)..last]
            /\ highest' = last
      BY <2>2 DEF getOrOpenStream_fails
    <3>2. last \in Nat /\ (highest + 1)..last \subseteq Stream
      BY <3>1, ForwardingSessionAssumption DEF Stream
    <3> QED
      BY <2>2, <3>1, <3>2 DEF getOrOpenStream_fails
  <2> QED
    BY <1>6, <2>1, <2>2 DEF FirstFrame
<1>7. CASE AcceptStream
  <2>1. accepted + 1 \in Stream
    BY <1>7 DEF AcceptStream
  <2> QED
    BY <1>7, <2>1 DEF AcceptStream, Stream
<1>8. ASSUME NEW s \in Stream, runAsDestination_flow(s) PROVE MapInv'
  <2>1. CASE readControlMessage(s)
    BY <2>1 DEF readControlMessage
  <2>2. CASE readControlMessage_fails(s)
    BY <2>2 DEF readControlMessage_fails
  <2>3. CASE Dial(s)
    BY <2>3 DEF Dial, StartPumps
  <2>4. CASE Dial_fails(s)
    <3>1. /\ streams' \in [Side -> SUBSET Stream]
          /\ streams["server"] \ {s} \subseteq streams'["server"]
      BY <2>4, PumpDeletes DEF Dial_fails
    <3>2. s <= accepted
      BY <2>4 DEF Dial_fails, Stream
    <3> QED
      BY <2>4, <3>1, <3>2 DEF Dial_fails, Stream
  <2> QED
    BY <1>8, <2>1, <2>2, <2>3, <2>4 DEF runAsDestination_flow
<1>9. ASSUME NEW e \in Side, NEW s \in Stream, Pump(e, s) PROVE MapInv'
  <2>1. /\ streams' \in [Side -> SUBSET Stream]
        /\ e = "client" => streams'["server"] = streams["server"]
        /\ streams["server"] \ {s} \subseteq streams'["server"]
    BY <1>9, PumpDeletes
       DEF Pump, readTCPSendQUIC, readQuicSendTCP, readQuicSendTCP_writeFails
  <2>2. e = "server" => s <= accepted
    BY <1>9 DEF Pump, readTCPSendQUIC, readQuicSendTCP, readQuicSendTCP_writeFails, Stream
  <2>3. UNCHANGED <<arrived, opened, highest, accepted, dest>>
    BY <1>9 DEF Pump, readTCPSendQUIC, readQuicSendTCP, readQuicSendTCP_writeFails
  <2>4. /\ t2q' \in [Side -> [Stream -> {"off", "run", "done"}]]
        /\ q2t' \in [Side -> [Stream -> {"off", "run", "done"}]]
        /\ \A r \in Stream : e = "client" \/ r # s =>
             t2q'["server"][r] = t2q["server"][r] /\ q2t'["server"][r] = q2t["server"][r]
    BY <1>9 DEF Pump, readTCPSendQUIC, readQuicSendTCP, readQuicSendTCP_writeFails
  <2>5. NextToAcceptIsThere'
    BY <2>1, <2>2, <2>3
  <2> QED
    BY <2>1, <2>2, <2>3, <2>4, <2>5 DEF Stream
<1> QED
  BY <1>1, <1>2, <1>3, <1>4, <1>5, <1>6, <1>7, <1>8, <1>9
     DEF Next, runAsSource, runAsDestination

\* AcceptStream never waits for a stream that has come and gone.
THEOREM AcceptNeverMisses == Spec => []NextToAcceptIsThere
<1>1. MapInv => NextToAcceptIsThere
  BY DEF MapInv
<1> QED
  BY <1>1, MapInvInit, MapInvStep, PTL DEF Spec
-----------------------------------------------------------------------------
(* What the server keeps. *)

\* The type of the rest of the state that the ends of the streams depend on.
EndType ==
  /\ opened <= arrived /\ accepted <= highest /\ highest <= opened
  /\ source \in [Stream -> {"none", "control", "pumps", "stopped"}]
  /\ control \subseteq Stream
  /\ fin \in [Side -> SUBSET Stream] /\ finRead \in [Side -> SUBSET Stream]

\* A stream that has not been opened has no goroutine at the client, and no
\* stream ends at an endpoint that does not know it.
NobodyElse ==
  /\ \A s \in Stream : s > opened => /\ source[s] = "none" /\ s \notin control
                                     /\ t2q["client"][s] = "off"
                                     /\ q2t["client"][s] = "off"
                                     /\ s \notin streams["client"]
                                     /\ s \notin fin["client"]
                                     /\ s \notin finRead["client"]
  /\ \A s \in Stream : s > accepted => s \notin fin["server"] /\ s \notin finRead["server"]
  /\ \A s \in streams["server"] : s <= highest

\* An end that has been read has been sent; an endpoint has forgotten the
\* streams that have ended both ways, and the client no others.
Forgotten ==
  /\ \A e \in Side : finRead[e] \subseteq fin[Peer(e)]
  /\ \A e \in Side : streams[e] \cap fin[e] \cap finRead[e] = {}
  /\ \A s \in Stream : s <= opened /\ s \notin streams["client"]
                         => s \in fin["client"] /\ s \in finRead["client"]

\* The inductive invariant: it follows that a stream the client has forgotten
\* has ended at the server, which therefore cannot have read the other end.
EndInv == MapInv /\ EndType /\ NobodyElse /\ Forgotten

\* The invariant says what a leftover is.
LEMMA EndInvSuffices == EndInv => LeftoversAreUnread
<1> SUFFICES ASSUME EndInv, NEW s \in streams["server"] \ streams["client"]
             PROVE  s \in fin["client"] /\ s \notin finRead["server"]
  BY DEF LeftoversAreUnread
<1>1. s \in Stream /\ s <= opened
  BY DEF EndInv, MapInv, ServerType, EndType, NobodyElse, Stream
<1>2. s \in fin["client"] /\ s \in finRead["client"]
  BY <1>1 DEF EndInv, Forgotten
<1>3. s \in fin["server"]
  BY <1>2 DEF EndInv, Forgotten, Peer
<1>4. s \notin finRead["server"]
  BY <1>3 DEF EndInv, Forgotten
<1> QED
  BY <1>2, <1>4

\* A pump keeps the books: it forgets its stream when that has ended both ways
\* (SendFin, ReadFin).
LEMMA PumpForgets ==
  ASSUME streams \in [Side -> SUBSET Stream],
         fin \in [Side -> SUBSET Stream], finRead \in [Side -> SUBSET Stream],
         Forgotten, opened' = opened, NEW e \in Side, NEW s \in Stream,
         \/ SendFin(e, s) \/ ReadFin(e, s) \/ UNCHANGED streamVars
  PROVE  /\ Forgotten'
         /\ fin' \in [Side -> SUBSET Stream] /\ finRead' \in [Side -> SUBSET Stream]
         /\ \A d \in Side : /\ streams'[d] \subseteq streams[d]
                            /\ fin'[d] \subseteq fin[d] \cup (IF d = e THEN {s} ELSE {})
                            /\ finRead'[d] \subseteq finRead[d] \cup (IF d = e THEN {s} ELSE {})
<1>1. CASE SendFin(e, s)
  <2>1. /\ fin' \in [Side -> SUBSET Stream] /\ finRead' = finRead
        /\ \A d \in Side : fin'[d] = IF d = e THEN fin[d] \cup {s} ELSE fin[d]
        /\ \A d \in Side : streams'[d] = IF d = e /\ s \in finRead[e]
                                         THEN streams[d] \ {s} ELSE streams[d]
    BY <1>1 DEF SendFin
  <2>2. Forgotten'
    BY <2>1 DEF Forgotten, Peer
  <2> QED
    BY <2>1, <2>2
<1>2. CASE ReadFin(e, s)
  <2>1. /\ finRead' \in [Side -> SUBSET Stream] /\ fin' = fin /\ s \in fin[Peer(e)]
        /\ \A d \in Side : finRead'[d] = IF d = e THEN finRead[d] \cup {s} ELSE finRead[d]
        /\ \A d \in Side : streams'[d] = IF d = e /\ s \in fin[e]
                                         THEN streams[d] \ {s} ELSE streams[d]
    BY <1>2 DEF ReadFin
  <2>2. Forgotten'
    BY <2>1 DEF Forgotten, Peer
  <2> QED
    BY <2>1, <2>2
<1>3. CASE UNCHANGED streamVars
  BY <1>3 DEF streamVars, Forgotten
<1> QED
  BY <1>1, <1>2, <1>3

\* Initially no stream exists.
LEMMA EndInvInit == Init => EndInv
<1> SUFFICES ASSUME Init PROVE EndInv
  OBVIOUS
<1>1. EndType
  BY DEF Init, EndType
<1>2. NobodyElse
  BY DEF Init, NobodyElse
<1>3. Forgotten
  BY DEF Init, Forgotten, Stream
<1> QED
  BY <1>1, <1>2, <1>3, MapInvInit DEF EndInv

\* Each step of the two endpoints preserves the invariant.
LEMMA EndInvStep == EndInv /\ [Next]_vars => EndInv'
<1> SUFFICES ASSUME EndInv, [Next]_vars PROVE EndInv'
  OBVIOUS
<1>0. MapInv'
  BY MapInvStep DEF EndInv
<1> SUFFICES (EndType /\ NobodyElse /\ Forgotten)'
  BY <1>0 DEF EndInv
<1> USE DEF EndInv, MapInv, ServerType, EndType, NobodyElse,
            openVars, acceptVars, streamVars, pumpVars
<1>1. CASE UNCHANGED vars
  BY <1>1 DEF vars, Forgotten
<1>2. CASE TCPListener_Accept \/ OpenStreamSync_fails \/ Close
           \/ AcceptStream_ends \/ AcceptStream_fails
  BY <1>2, ForwardingSessionAssumption
     DEF TCPListener_Accept, OpenStreamSync_fails, Close, AcceptStream_ends,
         AcceptStream_fails, Forgotten
<1>3. CASE \E e \in Side : closeRemote(e)
  BY <1>3 DEF closeRemote, Forgotten
<1>4. CASE OpenStreamSync
  <2>1. opened' \in Stream /\ opened' = opened + 1 /\ opened' <= arrived
    BY <1>4, ForwardingSessionAssumption DEF OpenStreamSync, Stream
  <2>2. EndType'
    BY <1>4, <2>1 DEF OpenStreamSync
  <2>3. NobodyElse'
    BY <1>4, <2>1 DEF OpenStreamSync, Stream
  <2>4. Forgotten'
    BY <1>4, <2>1 DEF OpenStreamSync, Forgotten, Stream
  <2> QED
    BY <2>2, <2>3, <2>4
<1>5. ASSUME NEW s \in Stream, runAsSource_flow(s)
      PROVE (EndType /\ NobodyElse /\ Forgotten)'
  <2>1. CASE writeControlMessage(s)
    BY <2>1 DEF writeControlMessage, StartPumps, Forgotten
  <2>2. CASE writeControlMessage_fails(s)
    BY <2>2 DEF writeControlMessage_fails, Forgotten
  <2> QED
    BY <1>5, <2>1, <2>2 DEF runAsSource_flow
<1>6. ASSUME NEW s \in Stream, FirstFrame(s)
      PROVE (EndType /\ NobodyElse /\ Forgotten)'
  <2>1. CASE getOrOpenStream(s)
    <3>1. s \in Nat /\ s <= opened /\ (highest + 1)..s \subseteq Stream
      BY <2>1, ForwardingSessionAssumption DEF getOrOpenStream, Stream
    <3>2. EndType' /\ NobodyElse'
      BY <2>1, <3>1 DEF getOrOpenStream, Stream
    <3>3. Forgotten'
      BY <2>1, <3>1 DEF getOrOpenStream, Forgotten, Stream
    <3> QED
      BY <3>2, <3>3
  <2>2. CASE getOrOpenStream_fails(s)
    <3>1. PICK last \in highest..(s - 1) :
            /\ streams' = [streams EXCEPT !["server"] = @ \cup (highest + 1)..last]
            /\ highest' = last
      BY <2>2 DEF getOrOpenStream_fails
    <3>2. s \in Nat /\ last \in Nat /\ highest <= last /\ last < s
      BY <3>1, ForwardingSessionAssumption DEF Stream
    <3>3. s <= opened /\ (highest + 1)..last \subseteq Stream
      BY <2>2, <3>2, ForwardingSessionAssumption DEF getOrOpenStream_fails, Stream
    <3>4. EndType' /\ NobodyElse'
      BY <2>2, <3>1, <3>2, <3>3 DEF getOrOpenStream_fails, Stream
    <3>5. Forgotten'
      <4>1. \A r \in (highest + 1)..last : r \notin fin["server"]
        BY <3>3, <3>2 DEF Stream
      <4> QED
        BY <2>2, <3>1, <4>1 DEF getOrOpenStream_fails, Forgotten, Stream
    <3> QED
      BY <3>4, <3>5
  <2> QED
    BY <1>6, <2>1, <2>2 DEF FirstFrame
<1>7. CASE AcceptStream
  <2>1. accepted + 1 \in Stream /\ accepted + 1 <= highest
    BY <1>7 DEF AcceptStream
  <2> QED
    BY <1>7, <2>1 DEF AcceptStream, Stream, Forgotten
<1>8. ASSUME NEW s \in Stream, runAsDestination_flow(s)
      PROVE (EndType /\ NobodyElse /\ Forgotten)'
  <2>1. CASE readControlMessage(s)
    BY <2>1 DEF readControlMessage, Forgotten
  <2>2. CASE readControlMessage_fails(s)
    BY <2>2 DEF readControlMessage_fails, Forgotten
  <2>3. CASE Dial(s)
    BY <2>3 DEF Dial, StartPumps, Forgotten
  <2>4. CASE Dial_fails(s)
    <3>1. UNCHANGED <<openVars, highest, accepted, pumpVars>> /\ s <= accepted
      BY <2>4 DEF Dial_fails, NobodyYet, Stream
    <3>2. /\ Forgotten'
          /\ fin' \in [Side -> SUBSET Stream] /\ finRead' \in [Side -> SUBSET Stream]
          /\ \A d \in Side : /\ streams'[d] \subseteq streams[d]
                             /\ fin'[d] \subseteq fin[d] \cup (IF d = "server" THEN {s} ELSE {})
                             /\ finRead'[d] \subseteq finRead[d] \cup (IF d = "server" THEN {s} ELSE {})
      BY <2>4, <3>1, PumpForgets DEF Dial_fails
    <3> QED
      BY <3>1, <3>2 DEF Stream
  <2> QED
    BY <1>8, <2>1, <2>2, <2>3, <2>4 DEF runAsDestination_flow
<1>9. ASSUME NEW e \in Side, NEW s \in Stream, Pump(e, s)
      PROVE (EndType /\ NobodyElse /\ Forgotten)'
  <2>1. /\ UNCHANGED <<openVars, highest, accepted>>
        /\ e = "client" => s <= opened
        /\ e = "server" => s <= accepted
    BY <1>9 DEF Pump, readTCPSendQUIC, readQuicSendTCP, readQuicSendTCP_writeFails,
                NobodyYet, Stream
  <2>2. /\ Forgotten'
        /\ fin' \in [Side -> SUBSET Stream] /\ finRead' \in [Side -> SUBSET Stream]
        /\ \A d \in Side : /\ streams'[d] \subseteq streams[d]
                           /\ fin'[d] \subseteq fin[d] \cup (IF d = e THEN {s} ELSE {})
                           /\ finRead'[d] \subseteq finRead[d] \cup (IF d = e THEN {s} ELSE {})
    BY <1>9, <2>1, PumpForgets
       DEF Pump, readTCPSendQUIC, readQuicSendTCP, readQuicSendTCP_writeFails
  <2>3. \A r \in Stream : r # s => /\ t2q'["client"][r] = t2q["client"][r]
                                   /\ q2t'["client"][r] = q2t["client"][r]
    BY <1>9 DEF Pump, readTCPSendQUIC, readQuicSendTCP, readQuicSendTCP_writeFails
  <2>4. e = "server" => /\ t2q'["client"] = t2q["client"]
                        /\ q2t'["client"] = q2t["client"]
    BY <1>9 DEF Pump, readTCPSendQUIC, readQuicSendTCP, readQuicSendTCP_writeFails
  <2>5. EndType'
    BY <2>1, <2>2
  <2>6. NobodyElse'
    BY <2>1, <2>2, <2>3, <2>4 DEF Stream
  <2> QED
    BY <2>2, <2>5, <2>6
<1> QED
  BY <1>1, <1>2, <1>3, <1>4, <1>5, <1>6, <1>7, <1>8, <1>9
     DEF Next, runAsSource, runAsDestination

\* A stream the server keeps and the client does not: the client has sent its
\* end, and the server has not read it (checkIfCompleted at both endpoints).
THEOREM LeftoversUnread == Spec => []LeftoversAreUnread
<1> QED
  BY EndInvInit, EndInvStep, EndInvSuffices, PTL DEF Spec
-----------------------------------------------------------------------------
(* The two limits. *)

Leftovers == streams["server"] \ streams["client"]

\* The inductive invariant: the maps respect their limits, and only the server
\* finds that there are too many streams.
LimitInv ==
  /\ EndInv
  /\ Cardinality(streams["client"]) <= MaxOutgoing
  /\ Cardinality(streams["server"]) <= MaxIncoming
  /\ closeErr \in [Side -> {"none", "PeerGoingAway", "TooManyOpenStreams"}]
  /\ closeErr["client"] = "TooManyOpenStreams" => closeErr["server"] = "TooManyOpenStreams"
  /\ LimitNeedsLeftovers

\* Sets of streams are finite, and a part of one is not larger.
LEMMA StreamSets ==
  ASSUME NEW S \in SUBSET Stream
  PROVE  /\ IsFiniteSet(S) /\ Cardinality(S) \in Nat
         /\ \A T \in SUBSET S : Cardinality(T) <= Cardinality(S)
<1>1. IsFiniteSet(Stream)
  BY ForwardingSessionAssumption, FS_Interval DEF Stream
<1>2. IsFiniteSet(S)
  BY <1>1, FS_Subset
<1> QED
  BY <1>2, FS_Subset, FS_CardinalityType

\* The server is over its limit: of the streams known to one of the two
\* endpoints at most MaxOutgoing are known to the client.
LEMMA OverTheLimit ==
  ASSUME NEW S \in SUBSET Stream, NEW C \in SUBSET Stream, NEW N \in SUBSET C,
         S \cap N = {}, Cardinality(S) + Cardinality(N) > MaxIncoming,
         Cardinality(C) <= MaxOutgoing
  PROVE  Cardinality(S \ C) > MaxIncoming - MaxOutgoing
<1> DEFINE known == S \cup N
<1>1. IsFiniteSet(S) /\ IsFiniteSet(N) /\ known \in SUBSET Stream
  BY StreamSets
<1>2. Cardinality(known) = Cardinality(S) + Cardinality(N)
  <2>1. Cardinality(known) = Cardinality(S) + Cardinality(N) - Cardinality(S \cap N)
    BY <1>1, FS_Union
  <2>2. Cardinality(S \cap N) = 0
    BY FS_EmptySet
  <2>3. Cardinality(S) \in Nat /\ Cardinality(N) \in Nat
    BY StreamSets
  <2> HIDE DEF known
  <2> QED
    BY <2>1, <2>2, <2>3
<1>3. S \ C = known \ C
  OBVIOUS
<1>4. Cardinality(known \ C) = Cardinality(known) - Cardinality(known \cap C)
  BY <1>1, FS_Difference, StreamSets
<1>5. Cardinality(known \cap C) <= Cardinality(C)
  BY StreamSets
<1>6. /\ Cardinality(known) \in Nat /\ Cardinality(known \cap C) \in Nat
      /\ Cardinality(C) \in Nat /\ Cardinality(S) \in Nat /\ Cardinality(N) \in Nat
  BY <1>1, StreamSets
<1> HIDE DEF known
<1> QED
  BY <1>2, <1>3, <1>4, <1>5, <1>6, ForwardingSessionAssumption

\* A step that only deletes streams, and none of a server that has closed the
\* session, preserves the invariant.
LEMMA DeletingKeepsLimits ==
  ASSUME LimitInv, EndInv', closeErr' = closeErr,
         streams'["client"] \subseteq streams["client"],
         streams'["server"] \subseteq streams["server"],
         closeErr["server"] # "none" => streams'["server"] = streams["server"]
  PROVE  LimitInv'
<1>1. streams \in [Side -> SUBSET Stream] /\ streams' \in [Side -> SUBSET Stream]
  BY DEF LimitInv, EndInv, MapInv, ServerType
<1>2. /\ Cardinality(streams'["client"]) \in Nat
      /\ Cardinality(streams'["client"]) <= Cardinality(streams["client"])
      /\ Cardinality(streams["client"]) \in Nat
  BY <1>1, StreamSets
<1>3. /\ Cardinality(streams'["server"]) \in Nat
      /\ Cardinality(streams'["server"]) <= Cardinality(streams["server"])
      /\ Cardinality(streams["server"]) \in Nat
  BY <1>1, StreamSets
<1>4. /\ Cardinality(streams'["client"]) <= MaxOutgoing
      /\ Cardinality(streams'["server"]) <= MaxIncoming
  BY <1>2, <1>3, ForwardingSessionAssumption DEF LimitInv
<1>5. LimitNeedsLeftovers'
  <2> SUFFICES ASSUME closeErr["server"] = "TooManyOpenStreams"
               PROVE  Cardinality(Leftovers') > MaxIncoming - MaxOutgoing
    BY DEF LimitNeedsLeftovers, Leftovers
  <2>1. Leftovers \subseteq Leftovers' /\ Leftovers' \in SUBSET Stream
    BY <1>1 DEF Leftovers
  <2>2. /\ Cardinality(Leftovers) \in Nat /\ Cardinality(Leftovers') \in Nat
        /\ Cardinality(Leftovers) <= Cardinality(Leftovers')
    BY <2>1, StreamSets
  <2>3. Cardinality(Leftovers) > MaxIncoming - MaxOutgoing
    BY DEF LimitInv, LimitNeedsLeftovers, Leftovers
  <2> QED
    BY <2>2, <2>3, ForwardingSessionAssumption
<1> QED
  BY <1>4, <1>5 DEF LimitInv

\* Initially no stream exists.
LEMMA LimitInvInit == Init => LimitInv
<1> SUFFICES ASSUME Init PROVE LimitInv
  OBVIOUS
<1>1. Cardinality(streams["client"]) = 0 /\ Cardinality(streams["server"]) = 0
  BY FS_EmptySet DEF Init
<1>2. closeErr = [e \in Side |-> "none"]
  BY DEF Init
<1> QED
  BY <1>1, <1>2, EndInvInit, ForwardingSessionAssumption DEF LimitInv, LimitNeedsLeftovers

\* Each step of the two endpoints preserves the invariant.
LEMMA LimitInvStep == LimitInv /\ [Next]_vars => LimitInv'
<1> SUFFICES ASSUME LimitInv, [Next]_vars PROVE LimitInv'
  OBVIOUS
<1>0. /\ EndInv' /\ streams \in [Side -> SUBSET Stream]
      /\ closeErr \in [Side -> {"none", "PeerGoingAway", "TooManyOpenStreams"}]
  BY EndInvStep DEF LimitInv, EndInv, MapInv, ServerType
<1> USE DEF openVars, acceptVars, streamVars, pumpVars
<1>1. CASE UNCHANGED <<streams, closeErr>>
  BY <1>0, <1>1, DeletingKeepsLimits
<1>2. CASE Close \/ \E e \in Side : closeRemote(e)
  <2>1. /\ streams' = streams
        /\ closeErr' \in [Side -> {"none", "PeerGoingAway", "TooManyOpenStreams"}]
    BY <1>0, <1>2 DEF Close, closeRemote, Peer
  <2>2. closeErr'["server"] = "TooManyOpenStreams" <=> closeErr["server"] = "TooManyOpenStreams"
    BY <1>0, <1>2 DEF Close, closeRemote, Peer, Up, LimitInv
  <2>3. closeErr'["client"] = "TooManyOpenStreams" => closeErr["server"] = "TooManyOpenStreams"
    BY <1>0, <1>2 DEF Close, closeRemote, Peer, Up, LimitInv
  <2> QED
    BY <1>0, <2>1, <2>2, <2>3 DEF LimitInv, LimitNeedsLeftovers
<1>3. CASE OpenStreamSync
  <2>1. /\ opened + 1 \in Stream /\ opened + 1 \notin streams["server"]
        /\ closeErr' = closeErr
        /\ streams'["server"] = streams["server"]
        /\ streams'["client"] = streams["client"] \cup {opened + 1}
        /\ Cardinality(streams["client"]) < MaxOutgoing
    BY <1>0, <1>3, ForwardingSessionAssumption
       DEF OpenStreamSync, Stream, LimitInv, EndInv, MapInv, ServerType, EndType, NobodyElse
  <2>2. /\ IsFiniteSet(streams["client"]) /\ Cardinality(streams["client"]) \in Nat
    BY <1>0, StreamSets
  <2>3. \/ Cardinality(streams'["client"]) = Cardinality(streams["client"])
        \/ Cardinality(streams'["client"]) = Cardinality(streams["client"]) + 1
    BY <2>1, <2>2, FS_AddElement, Zenon
  <2>4. Cardinality(streams'["client"]) \in Nat
    <3>1. streams'["client"] \in SUBSET Stream
      BY <1>0 DEF EndInv, MapInv, ServerType
    <3> QED
      BY <3>1, StreamSets
  <2>5. Cardinality(streams'["client"]) <= MaxOutgoing
    BY <2>1, <2>2, <2>3, <2>4, ForwardingSessionAssumption
  <2>6. Leftovers' = Leftovers
    BY <2>1 DEF Leftovers
  <2> QED
    BY <1>0, <2>1, <2>5, <2>6 DEF LimitInv, LimitNeedsLeftovers, Leftovers
<1>4. ASSUME NEW s \in Stream, FirstFrame(s) PROVE LimitInv'
  <2> DEFINE new == (highest + 1)..s
  <2>1. /\ s \in Nat /\ highest \in Nat /\ s > highest
        /\ opened \in Nat /\ s <= opened
        /\ closeErr["server"] = "none"
    BY <1>4 DEF FirstFrame, getOrOpenStream, getOrOpenStream_fails, Up, Stream,
                LimitInv, EndInv, MapInv, ServerType, NobodyElse
  <2>2. IsFiniteSet(new) /\ Cardinality(new) = s - highest
    BY <2>1, FS_Interval
  <2>3. /\ IsFiniteSet(streams["server"]) /\ Cardinality(streams["server"]) \in Nat
        /\ Cardinality(streams["client"]) \in Nat
    BY <1>0, StreamSets
  <2>4. streams["server"] \cap new = {}
    BY <2>1 DEF LimitInv, EndInv, MapInv, ServerType, NobodyElse, Stream
  <2>5. CASE getOrOpenStream(s)
    <3>1. /\ closeErr' = closeErr /\ streams'["client"] = streams["client"]
          /\ streams'["server"] = streams["server"] \cup new
          /\ Cardinality(streams["server"]) + s - highest <= MaxIncoming
      BY <1>0, <2>5 DEF getOrOpenStream
    <3>2. Cardinality(streams'["server"]) =
            Cardinality(streams["server"]) + Cardinality(new) - Cardinality(streams["server"] \cap new)
      BY <2>2, <2>3, <3>1, FS_Union
    <3>3. Cardinality(streams["server"] \cap new) = 0
      BY <2>4, FS_EmptySet
    <3> HIDE DEF new
    <3>4. Cardinality(streams'["server"]) <= MaxIncoming
      BY <2>1, <2>2, <2>3, <3>1, <3>2, <3>3, ForwardingSessionAssumption
    <3> QED
      BY <1>0, <2>1, <3>1, <3>4 DEF LimitInv, LimitNeedsLeftovers
  <2>6. CASE getOrOpenStream_fails(s)
    <3>1. PICK last \in highest..(s - 1) :
            /\ Cardinality(streams["server"]) + last - highest = MaxIncoming
            /\ streams' = [streams EXCEPT !["server"] = @ \cup (highest + 1)..last]
            /\ closeErr' = [closeErr EXCEPT !["server"] = "TooManyOpenStreams"]
      BY <2>6 DEF getOrOpenStream_fails
    <3> DEFINE part == (highest + 1)..last
    <3>7. /\ last \in Nat /\ highest <= last /\ last < s /\ part \subseteq new
          /\ IsFiniteSet(part) /\ Cardinality(part) = last - highest
      <4>1. last \in Nat /\ highest <= last /\ last < s
        BY <2>1
      <4>2. IsFiniteSet(part) /\ Cardinality(part) = last - highest
        <5>1. CASE last = highest
          <6>1. part = {}
            BY <2>1, <5>1
          <6> QED
            BY <2>1, <5>1, <6>1, FS_EmptySet
        <5>2. CASE highest < last
          BY <2>1, <4>1, <5>2, FS_Interval
        <5> QED
          BY <2>1, <4>1, <5>1, <5>2
      <4> QED
        BY <2>1, <4>1, <4>2
    <3>8. Cardinality(streams["server"]) + s - highest > MaxIncoming
      BY <2>1, <2>3, <3>1, <3>7, ForwardingSessionAssumption
    <3>2. new \subseteq streams["client"]
      <4> SUFFICES ASSUME NEW r \in new, r \notin streams["client"] PROVE FALSE
        OBVIOUS
      <4>1. r \in Stream /\ r <= opened /\ r > highest
        BY <2>1, ForwardingSessionAssumption DEF Stream
      <4>2. r \in finRead["client"]
        BY <4>1 DEF LimitInv, EndInv, Forgotten
      <4>3. r \in fin["server"]
        BY <4>2 DEF LimitInv, EndInv, Forgotten, Peer
      <4>4. r <= accepted /\ accepted <= highest
        <5>1. \A q \in Stream : q > accepted => q \notin fin["server"]
          BY DEF LimitInv, EndInv, NobodyElse
        <5>2. accepted \in Nat /\ highest \in Nat /\ accepted <= highest
          BY DEF LimitInv, EndInv, MapInv, ServerType, EndType
        <5> QED
          BY <4>1, <4>3, <5>1, <5>2 DEF Stream
      <4> QED
        BY <2>1, <4>1, <4>4 DEF Stream, LimitInv, EndInv, MapInv, ServerType
    <3> HIDE DEF new
    <3>3. Cardinality(streams["server"]) + Cardinality(new) > MaxIncoming
      BY <2>1, <2>2, <2>3, <3>8
    <3>4. Cardinality(streams["client"]) <= MaxOutgoing
      BY DEF LimitInv
    <3>5. streams["server"] \in SUBSET Stream /\ streams["client"] \in SUBSET Stream
      BY <1>0
    <3>6. Cardinality(streams["server"] \ streams["client"]) > MaxIncoming - MaxOutgoing
      BY <2>4, <3>2, <3>3, <3>4, <3>5, OverTheLimit
    <3>9. /\ streams'["client"] = streams["client"]
          /\ streams'["server"] = streams["server"] \cup part
      BY <1>0, <3>1
    <3> HIDE DEF part
    <3>10. streams'["server"] \ streams'["client"] = streams["server"] \ streams["client"]
      BY <3>2, <3>7, <3>9
    <3>11. Cardinality(streams'["server"]) = Cardinality(streams["server"]) + Cardinality(part)
      <4>1. Cardinality(streams["server"] \cap part) = 0
        <5>1. streams["server"] \cap part = {}
          BY <2>4, <3>7
        <5> QED
          BY <5>1, FS_EmptySet
      <4>2. Cardinality(streams'["server"]) =
              Cardinality(streams["server"]) + Cardinality(part)
                - Cardinality(streams["server"] \cap part)
        BY <2>3, <3>7, <3>9, FS_Union
      <4> QED
        BY <2>1, <2>3, <3>7, <4>1, <4>2
    <3>12. Cardinality(streams'["server"]) <= MaxIncoming
      BY <2>1, <2>3, <3>1, <3>7, <3>11, ForwardingSessionAssumption
    <3>13. closeErr' \in [Side -> {"none", "PeerGoingAway", "TooManyOpenStreams"}]
           /\ closeErr'["server"] = "TooManyOpenStreams"
      BY <1>0, <3>1
    <3> QED
      BY <1>0, <3>4, <3>6, <3>9, <3>10, <3>12, <3>13 DEF LimitInv, LimitNeedsLeftovers
  <2> QED
    BY <1>4, <2>5, <2>6 DEF FirstFrame
<1>5. ASSUME NEW s \in Stream, Dial_fails(s) \/ \E e \in Side : Pump(e, s) PROVE LimitInv'
  <2>1. PICK e \in Side : /\ SendFin(e, s) \/ ReadFin(e, s) \/ UNCHANGED streamVars
                          /\ ~Up(e) => streams' = streams
                          /\ closeErr' = closeErr
    BY <1>5 DEF Dial_fails, Pump, readTCPSendQUIC, readQuicSendTCP, readQuicSendTCP_writeFails
  <2>2. /\ streams'["client"] \subseteq streams["client"]
        /\ streams'["server"] \subseteq streams["server"]
        /\ e = "client" => streams'["server"] = streams["server"]
    BY <1>0, <2>1 DEF SendFin, ReadFin
  <2>3. closeErr["server"] # "none" => streams'["server"] = streams["server"]
    BY <2>1, <2>2 DEF Up
  <2> QED
    BY <1>0, <2>1, <2>2, <2>3, DeletingKeepsLimits
<1>6. CASE \/ UNCHANGED vars \/ TCPListener_Accept \/ OpenStreamSync_fails
           \/ AcceptStream \/ AcceptStream_ends \/ AcceptStream_fails
           \/ \E s \in Stream : \/ runAsSource_flow(s) \/ readControlMessage(s)
                                \/ readControlMessage_fails(s) \/ Dial(s)
  BY <1>1, <1>6
     DEF vars, TCPListener_Accept, OpenStreamSync_fails, AcceptStream, AcceptStream_ends,
         AcceptStream_fails, runAsSource_flow, writeControlMessage,
         writeControlMessage_fails, readControlMessage, readControlMessage_fails, Dial
<1> QED
  BY <1>2, <1>3, <1>4, <1>5, <1>6
     DEF Next, runAsSource, runAsDestination, runAsDestination_flow

\* The session is closed for too many streams only when the server keeps more
\* streams the client has forgotten than its tolerance (openRemoteStream).
THEOREM LimitNeedsMoreThanTolerance == Spec => []LimitNeedsLeftovers
<1>1. LimitInv => LimitNeedsLeftovers
  BY DEF LimitInv
<1> QED
  BY <1>1, LimitInvInit, LimitInvStep, PTL DEF Spec

\* The two flags, the rest of the type invariant.
FlagType == acceptor \in BOOLEAN /\ alive \in BOOLEAN

\* Each step preserves the type of the flags.
LEMMA FlagTypeStep == FlagType /\ [Next]_vars => FlagType'
<1> SUFFICES ASSUME FlagType, [Next]_vars PROVE FlagType'
  OBVIOUS
<1> USE DEF FlagType, acceptVars
<1>1. CASE UNCHANGED vars \/ runAsDestination
  BY <1>1 DEF vars, runAsDestination, AcceptStream, AcceptStream_ends, AcceptStream_fails
<1>2. CASE TCPListener_Accept \/ runAsSource \/ Close \/ \E e \in Side : closeRemote(e)
  BY <1>2 DEF TCPListener_Accept, runAsSource, OpenStreamSync, OpenStreamSync_fails,
              Close, closeRemote
<1>3. ASSUME NEW s \in Stream,
             \/ runAsSource_flow(s) \/ FirstFrame(s) \/ runAsDestination_flow(s)
             \/ \E e \in Side : Pump(e, s)
      PROVE  FlagType'
  BY <1>3 DEF runAsSource_flow, writeControlMessage, writeControlMessage_fails,
              FirstFrame, getOrOpenStream, getOrOpenStream_fails,
              runAsDestination_flow, readControlMessage, readControlMessage_fails,
              Dial, Dial_fails, Pump, readTCPSendQUIC, readQuicSendTCP,
              readQuicSendTCP_writeFails
<1> QED
  BY <1>1, <1>2, <1>3 DEF Next

\* The variables keep their types, and the two maps their limits.
THEOREM TypeCorrect == Spec => []TypeOK
<1>1. Init => FlagType
  BY DEF Init, FlagType
<1>2. LimitInv /\ FlagType => TypeOK
  <2> SUFFICES ASSUME LimitInv, FlagType PROVE TypeOK
    OBVIOUS
  <2>1. opened \in 0..arrived /\ highest \in 0..opened /\ accepted \in 0..highest
    BY DEF LimitInv, EndInv, MapInv, ServerType, EndType
  <2> QED
    BY <2>1 DEF LimitInv, EndInv, MapInv, ServerType, EndType, FlagType, TypeOK
<1> QED
  BY <1>1, <1>2, LimitInvInit, LimitInvStep, FlagTypeStep, PTL DEF Spec
-----------------------------------------------------------------------------
(* The goroutines of client and server (SshSession).                       *)

\* The server has not started the goroutines of a client's mode.
Early(c) == server[c].main \in {"accept", "stream", "allow", "mode"}

\* No goroutine of the mode runs before askServerMode starts it.
SshNobodyYet ==
  \A c \in Client : Early(c) =>
    /\ server[c].stop = "off" /\ server[c].loops = "off"
    /\ server[c].receive = "off" /\ server[c].look = "off"
    /\ server[c].streams = "off" /\ server[c].request = "off"
    /\ listener[c].state = "none"

\* Once the main goroutine has received, no sender is left; an error that
\* remoteLoginServerLoops still waits for would make it one.
NoSenderLeft ==
  \A c \in Client : server[c].main # "wait" =>
    server[c].stop \in {"off", "done"} /\ server[c].loops \in {"off", "done"}

\* A listener registered when stopListener has read the map is late.
RegisteredLate ==
  \A c \in Client : /\ listener[c].state = "registered"
                     /\ server[c].main \in {"assign", "return"}
                     => listener[c].late

\* A client that has not started has no session.
NotStarted == \A c \in Client : client[c].main = "start" => net[c].seen = "none"

\* The commands not yet read are some of those typed.
UnreadTyped ==
  \A c \in Client : net[c].unread <= net[c].typed /\ net[c].typed <= MaxTyped

\* The types of the variables, without the bound of the model.
ClientType ==
  client \in [Client -> [mode : Ssh!Mode, remote : BOOLEAN,
                         main : {"start", "mode", "request", "wait", "gone"},
                         loops : {"off", "error", "stop"},
                         ended : SUBSET Ssh!ClientGoroutine]]
NetRecord ==
  [up : BOOLEAN, seen : {"none", "up", "ended", "error", "closed"}, key : BOOLEAN,
   mode : BOOLEAN, typed : Nat, unread : Nat, request : BOOLEAN]
NetType == net \in [Client -> NetRecord]
ServerRecord ==
  [main : {"accept", "stream", "allow", "mode", "wait", "stopListener", "assign",
          "return", "panic"},
   stop : {"off", "read", "stop", "done"},
   loops : {"off", "error", "stop", "done"},
   receive : {"off", "read", "write", "report"},
   look : {"off", "read", "report"},
   streams : {"off", "accept", "done"},
   request : {"off", "listen", "register", "assign", "accept", "done"}]
SshServerType == server \in [Client -> ServerRecord]
TelnetType ==
  telnet \in [Client -> [run : {"off", "start", "running", "failed", "ended"},
                         stdin : BOOLEAN, said : BOOLEAN]]
ListenerType ==
  listener \in [Client -> [state : {"none", "open", "registered", "closed"},
                           late : BOOLEAN]]
SshType ==
  /\ ClientType /\ NetType /\ SshServerType /\ TelnetType /\ ListenerType
  /\ serverAlive \in BOOLEAN

\* The inductive invariant.
SshInv ==
  /\ SshType
  /\ SshNobodyYet /\ NoSenderLeft /\ Ssh!StoppedOnce
  /\ NotStarted /\ RegisteredLate

\* Initially no client has started.
LEMMA SshInvInit == Ssh!Init => SshInv
<1> SUFFICES ASSUME Ssh!Init PROVE SshInv
  OBVIOUS
<1>1. ClientType
  BY DEF Ssh!Init, ClientType
<1>2. NetType
  BY DEF Ssh!Init, NetType, NetRecord
<1>3. SshServerType
  BY DEF Ssh!Init, SshServerType, ServerRecord
<1>4. TelnetType /\ ListenerType /\ serverAlive \in BOOLEAN
  BY DEF Ssh!Init, TelnetType, ListenerType
<1>5. SshNobodyYet /\ NoSenderLeft /\ Ssh!StoppedOnce
  BY DEF Ssh!Init, SshNobodyYet, NoSenderLeft, Ssh!StoppedOnce, Early
<1>6. NotStarted /\ RegisteredLate
  BY DEF Ssh!Init, NotStarted, RegisteredLate
<1> QED
  BY <1>1, <1>2, <1>3, <1>4, <1>5, <1>6 DEF SshInv, SshType

\* A step of the client process, or of its user, keeps the types.
LEMMA ClientStepType ==
  ASSUME ClientType, NetType, NEW c \in Client,
         \/ Ssh!NewQuicSSHClient(c) \/ Ssh!ClientProcess(c)
         \/ Ssh!writeMessageLoop(c) \/ Ssh!Client_inputEnds(c)
  PROVE  ClientType' /\ NetType'
<1>1. CASE Ssh!NewQuicSSHClient(c)
  <2>1. ClientType'
    BY <1>1 DEF Ssh!NewQuicSSHClient, ClientType
  <2> DEFINE n == [net[c] EXCEPT !.up = TRUE, !.seen = "up", !.key = TRUE]
  <2>2. net' = [net EXCEPT ![c] = n]
    BY <1>1 DEF Ssh!NewQuicSSHClient, NetType, NetRecord
  <2>3. NetType'
    BY <2>2 DEF NetType, NetRecord
  <2> QED
    BY <2>1, <2>3
<1>2. CASE Ssh!setServerMode(c)
  <2>1. ClientType'
    BY <1>2 DEF Ssh!setServerMode, Ssh!Client_launch, ClientType
  <2>2. NetType'
    BY <1>2 DEF Ssh!setServerMode, NetType, NetRecord
  <2> QED
    BY <2>1, <2>2
<1>3. CASE Ssh!Client_launchPortForwarding(c)
  <2>1. ClientType'
    BY <1>3 DEF Ssh!Client_launchPortForwarding, Ssh!Client_launch, ClientType
  <2>2. NetType'
    BY <1>3 DEF Ssh!Client_launchPortForwarding, NetType, NetRecord
  <2> QED
    BY <2>1, <2>2
<1>4. CASE \/ Ssh!receiveMessageLoop_fails(c) \/ Ssh!remoteLoginClientLoops(c)
           \/ Ssh!Client_inputEnds(c)
  <2>1. ClientType'
    BY <1>4 DEF Ssh!receiveMessageLoop_fails, Ssh!remoteLoginClientLoops, Ssh!Client_inputEnds,
                Ssh!ClientGoroutine, ClientType
  <2>2. UNCHANGED net
    BY <1>4 DEF Ssh!receiveMessageLoop_fails, Ssh!remoteLoginClientLoops, Ssh!Client_inputEnds
  <2> QED
    BY <2>1, <2>2 DEF NetType, NetRecord
<1>5. CASE Ssh!Client_stop(c)
  <2>1. ClientType'
    BY <1>5 DEF Ssh!Client_stop, ClientType
  <2>2. NetType'
    BY <1>5 DEF Ssh!Client_stop, NetType, NetRecord
  <2> QED
    BY <2>1, <2>2
<1>6. CASE Ssh!writeMessageLoop(c)
  <2> DEFINE n == [net[c] EXCEPT !.typed = net[c].typed + 1,
                                 !.unread = net[c].unread + 1]
  <2>1. net[c].typed + 1 \in Nat /\ net[c].unread + 1 \in Nat
    BY DEF NetType, NetRecord
  <2>2. net' = [net EXCEPT ![c] = n]
    BY <1>6 DEF Ssh!writeMessageLoop, NetType, NetRecord
  <2>3. NetType'
    BY <2>1, <2>2 DEF NetType, NetRecord
  <2> QED
    BY <1>6, <2>3 DEF Ssh!writeMessageLoop, ClientType
<1> QED
  BY <1>1, <1>2, <1>3, <1>4, <1>5, <1>6 DEF Ssh!ClientProcess

\* Such a step leaves the server alone, and what its endpoint knows of the session.
LEMMA ClientStep ==
  ASSUME SshInv, NEW c \in Client,
         \/ Ssh!NewQuicSSHClient(c) \/ Ssh!ClientProcess(c)
         \/ Ssh!writeMessageLoop(c) \/ Ssh!Client_inputEnds(c)
  PROVE  SshInv'
<1>1. UNCHANGED <<server, telnet, listener, serverAlive>>
  BY DEF Ssh!NewQuicSSHClient, Ssh!ClientProcess, Ssh!writeMessageLoop, Ssh!Client_inputEnds,
         Ssh!setServerMode, Ssh!Client_launchPortForwarding, Ssh!receiveMessageLoop_fails,
         Ssh!remoteLoginClientLoops, Ssh!Client_stop
<1>2. ClientType /\ NetType /\ ClientType' /\ NetType'
  BY ClientStepType DEF SshInv, SshType
<1>3. SshType'
  BY <1>1, <1>2 DEF SshInv, SshType, SshServerType, TelnetType, ListenerType
<1>4. \A d \in Client : /\ client'[d].main = "start" => client[d].main = "start"
                        /\ net'[d].seen # net[d].seen =>
                             net[d].seen = "none" /\ client'[d].main # "start"
  <2>1. CASE Ssh!NewQuicSSHClient(c)
    BY <2>1, <1>2 DEF Ssh!NewQuicSSHClient, ClientType, NetType, NetRecord, SshInv, NotStarted
  <2>2. CASE Ssh!setServerMode(c)
    BY <2>2, <1>2 DEF Ssh!setServerMode, Ssh!Client_launch, ClientType, NetType, NetRecord
  <2>3. CASE Ssh!Client_launchPortForwarding(c)
    BY <2>3, <1>2 DEF Ssh!Client_launchPortForwarding, Ssh!Client_launch, ClientType,
       NetType, NetRecord
  <2>4. CASE \/ Ssh!receiveMessageLoop_fails(c) \/ Ssh!remoteLoginClientLoops(c)
             \/ Ssh!Client_inputEnds(c)
    BY <2>4, <1>2 DEF Ssh!receiveMessageLoop_fails, Ssh!remoteLoginClientLoops,
       Ssh!Client_inputEnds,
                      ClientType
  <2>5. CASE Ssh!Client_stop(c)
    BY <2>5, <1>2 DEF Ssh!Client_stop, ClientType, NetType, NetRecord
  <2>6. CASE Ssh!writeMessageLoop(c)
    BY <2>6, <1>2 DEF Ssh!writeMessageLoop, ClientType, NetType, NetRecord
  <2> QED
    BY <2>1, <2>2, <2>3, <2>4, <2>5, <2>6 DEF Ssh!ClientProcess
<1>5. NotStarted'
  BY <1>1, <1>4 DEF SshInv, NotStarted
<1>6. SshNobodyYet' /\ NoSenderLeft' /\ Ssh!StoppedOnce' /\ RegisteredLate'
  BY <1>1 DEF SshInv, SshNobodyYet, Early, NoSenderLeft, Ssh!StoppedOnce,
     RegisteredLate
<1> QED
  BY <1>3, <1>5, <1>6 DEF SshInv

\* The network: the session ends, or the server's endpoint learns of it.
LEMMA NetworkStep ==
  ASSUME SshInv, NEW c \in Client,
         Ssh!Session_fails(c) \/ Ssh!Session_endSeen(c) \/ Ssh!Session_error(c)
  PROVE  SshInv'
<1>1. UNCHANGED <<client, server, telnet, listener, serverAlive>>
  BY DEF Ssh!Session_fails, Ssh!Session_endSeen, Ssh!Session_error
<1>2. NetType
  BY DEF SshInv, SshType
<1>3. NetType'
  <2>1. CASE Ssh!Session_fails(c)
    BY <2>1, <1>2 DEF Ssh!Session_fails, NetType, NetRecord
  <2>2. CASE Ssh!Session_endSeen(c)
    <3> DEFINE n == [net[c] EXCEPT !.seen = "ended", !.up = FALSE]
    <3>1. n \in NetRecord /\ [net[c] EXCEPT !.up = FALSE] \in NetRecord
      BY <1>2 DEF NetType, NetRecord
    <3>2. \/ net' = [net EXCEPT ![c] = n]
          \/ net' = [net EXCEPT ![c] = [net[c] EXCEPT !.up = FALSE]]
      BY <2>2, <1>2 DEF Ssh!Session_endSeen, NetType, NetRecord
    <3> QED
      BY <3>1, <3>2, <1>2 DEF NetType, NetRecord
  <2>3. CASE Ssh!Session_error(c)
    BY <2>3, <1>2 DEF Ssh!Session_error, NetType, NetRecord
  <2> QED
    BY <2>1, <2>2, <2>3
<1>4. \A d \in Client : net'[d].seen # net[d].seen => net[d].seen = "up"
  BY <1>2 DEF Ssh!Session_fails, Ssh!Session_endSeen, Ssh!Session_error, NetType, NetRecord
<1>5. SshType'
  BY <1>1, <1>3 DEF SshInv, SshType, ClientType, SshServerType, TelnetType, ListenerType
<1>6. NotStarted'
  BY <1>1, <1>4 DEF SshInv, NotStarted
<1>7. SshNobodyYet' /\ NoSenderLeft' /\ Ssh!StoppedOnce' /\ RegisteredLate'
  BY <1>1 DEF SshInv, SshNobodyYet, Early, NoSenderLeft, Ssh!StoppedOnce,
     RegisteredLate
<1> QED
  BY <1>5, <1>6, <1>7 DEF SshInv
-----------------------------------------------------------------------------
(* The goroutines of the server.                                           *)

\* session.Close changes what the server's endpoint knows of a session that is up.
LEMMA CloseSessionSeen ==
  ASSUME NetType, NEW c \in Client, Ssh!CloseSession(c)
  PROVE  /\ NetType'
         /\ \A d \in Client : net'[d].seen # net[d].seen => net[d].seen = "up"
  BY DEF Ssh!CloseSession, NetType, NetRecord

\* What a step of the server for client c does to the goroutines of c is all
\* that the invariants of the server depend on.
ServerLocal(c) ==
  /\ Early(c) => /\ server[c].stop = "off" /\ server[c].loops = "off"
                 /\ server[c].receive = "off" /\ server[c].look = "off"
                 /\ server[c].streams = "off" /\ server[c].request = "off"
                 /\ listener[c].state = "none"
  /\ server[c].main # "wait" =>
       server[c].stop \in {"off", "done"} /\ server[c].loops \in {"off", "done"}
  /\ server[c].stop # "off" => server[c].loops = "off"
  /\ listener[c].state = "registered" /\ server[c].main \in {"assign", "return"}
       => listener[c].late

\* The invariants of the server, client by client.
LEMMA ServerLocalSuffices ==
  (\A c \in Client : ServerLocal(c)) <=>
    SshNobodyYet /\ NoSenderLeft /\ Ssh!StoppedOnce /\ RegisteredLate
  BY DEF ServerLocal, SshNobodyYet, NoSenderLeft, Ssh!StoppedOnce, RegisteredLate

\* A step of the main goroutine: it leaves the goroutines of the mode alone until
\* it starts them, and receives from one sender, when there is no other.
LEMMA ServerMainStep ==
  ASSUME SshInv, NEW c \in Client, Ssh!ServerMain(c)
  PROVE  SshInv'
<1>1. NetType /\ SshServerType /\ TelnetType /\ ListenerType /\ serverAlive \in BOOLEAN
  BY DEF SshInv, SshType
<1>2. ServerLocal(c)
  BY ServerLocalSuffices DEF SshInv
<1>3. server[c] \in ServerRecord
  BY <1>1 DEF SshServerType
<1>4. /\ server'[c] \in ServerRecord /\ ServerLocal(c)'
      /\ server' = [server EXCEPT ![c] = server'[c]]
      /\ server[c].main = "panic" => server'[c].main = "panic"
  <2>1. CASE Ssh!acceptNewClient(c)
    BY <2>1, <1>1, <1>2, <1>3 DEF Ssh!acceptNewClient, SshServerType, ServerRecord,
       ServerLocal, Early
  <2>2. CASE Ssh!acceptNewStream(c) \/ Ssh!allowClient(c)
    <3>1. /\ Early(c) /\ UNCHANGED listener
          /\ \/ UNCHANGED server
             \/ \E m \in {"allow", "mode", "return", "panic"} :
                  server[c].main # "panic" /\ server' = [server EXCEPT ![c].main = m]
      BY <2>2, <1>1, <1>3 DEF Ssh!acceptNewStream, Ssh!allowClient, SshServerType,
         ServerRecord, Early
    <3>2. CASE UNCHANGED server
      BY <3>1, <3>2, <1>1, <1>2, <1>3 DEF SshServerType, ServerLocal, Early
    <3>3. ASSUME NEW m \in {"allow", "mode", "return", "panic"},
                 server[c].main # "panic", server' = [server EXCEPT ![c].main = m]
          PROVE  /\ server'[c] \in ServerRecord /\ ServerLocal(c)'
                 /\ server' = [server EXCEPT ![c] = server'[c]]
      BY <3>1, <3>3, <1>1, <1>2, <1>3 DEF SshServerType, ServerRecord, ServerLocal, Early
    <3> QED
      BY <3>1, <3>2, <3>3, <1>1, <1>3 DEF SshServerType
  <2>3. CASE Ssh!askServerMode(c)
    <3> DEFINE n == [main |-> "wait", stop |-> IF Ssh!Login(c) THEN "off" ELSE "read",
                     loops |-> IF Ssh!Login(c) THEN "error" ELSE "off",
                     receive |-> IF Ssh!Login(c) THEN "read" ELSE "off",
                     look |-> IF Ssh!Login(c) THEN "read" ELSE "off",
                     streams |-> IF Ssh!Forwards(c) THEN "accept" ELSE "off",
                     request |-> server[c].request]
    <3>1. server' = [server EXCEPT ![c] = n] \/ server' = [server EXCEPT ![c].main = "return"]
      BY <2>3, <1>1, <1>3 DEF Ssh!askServerMode, SshServerType, ServerRecord
    <3>2. UNCHANGED listener /\ server[c].main = "mode"
      BY <2>3 DEF Ssh!askServerMode
    <3>3. CASE server' = [server EXCEPT ![c] = n]
      <4>1. n \in ServerRecord
        BY <1>3 DEF ServerRecord
      <4>2. server'[c] = n
        BY <3>3, <1>1 DEF SshServerType
      <4>3. n.main = "wait" /\ (n.stop # "off" => n.loops = "off")
        OBVIOUS
      <4>4. ServerLocal(c)'
        BY <4>2, <4>3, <3>2, <1>2 DEF ServerLocal, Early
      <4> QED
        BY <4>1, <4>2, <4>4, <3>2, <3>3
    <3>4. CASE server' = [server EXCEPT ![c].main = "return"]
      BY <3>2, <3>4, <1>1, <1>2, <1>3 DEF SshServerType, ServerRecord, ServerLocal, Early
    <3> QED
      BY <3>1, <3>3, <3>4
  <2>4. CASE Ssh!stopSessionChannel(c)
    <3>1. server[c].main = "wait" /\ UNCHANGED listener
      BY <2>4 DEF Ssh!stopSessionChannel
    <3>2. CASE /\ server[c].loops = "stop"
               /\ server' = [server EXCEPT ![c].main = "stopListener",
                                           ![c].loops = "done"]
      <4> DEFINE n == [server[c] EXCEPT !.main = "stopListener", !.loops = "done"]
      <4>1. server' = [server EXCEPT ![c] = n]
        BY <3>2, <1>1 DEF SshServerType, ServerRecord
      <4> QED
        BY <4>1, <3>1, <3>2, <1>1, <1>2, <1>3 DEF SshServerType, ServerRecord, ServerLocal,
           Early
    <3>3. CASE /\ server[c].stop = "stop"
               /\ server' = [server EXCEPT ![c].main = "stopListener",
                                           ![c].stop = "done"]
      <4> DEFINE n == [server[c] EXCEPT !.main = "stopListener", !.stop = "done"]
      <4>1. server' = [server EXCEPT ![c] = n]
        BY <3>3, <1>1 DEF SshServerType, ServerRecord
      <4> QED
        BY <4>1, <3>1, <3>3, <1>1, <1>2, <1>3 DEF SshServerType, ServerRecord, ServerLocal,
           Early
    <3> QED
      BY <2>4, <3>2, <3>3 DEF Ssh!stopSessionChannel
  <2>5. CASE Ssh!stopListener(c)
    BY <2>5, <1>1, <1>2, <1>3 DEF Ssh!stopListener, SshServerType, ServerRecord,
       ListenerType, ServerLocal, Early
  <2>6. CASE Ssh!stopListener_assigned(c)
    BY <2>6, <1>1, <1>2, <1>3 DEF Ssh!stopListener_assigned, SshServerType, ServerRecord,
       ServerLocal, Early
  <2> QED
    BY <2>1, <2>2, <2>3, <2>4, <2>5, <2>6 DEF Ssh!ServerMain
<1>5. SshServerType'
  BY <1>1, <1>4 DEF SshServerType
<1>6. /\ NetType'
      /\ \A d \in Client : net'[d].seen # net[d].seen => net[d].seen = "up"
  <2>1. UNCHANGED net \/ Ssh!CloseSession(c)
    BY DEF Ssh!ServerMain, Ssh!acceptNewClient, Ssh!acceptNewStream, Ssh!allowClient,
       Ssh!askServerMode,
           Ssh!stopSessionChannel, Ssh!stopListener, Ssh!stopListener_assigned
  <2> QED
    BY <2>1, <1>1, CloseSessionSeen DEF NetType, NetRecord
<1>7. UNCHANGED client /\ TelnetType' /\ ListenerType'
      /\ \A d \in Client : d # c => listener'[d] = listener[d]
  <2>1. \/ UNCHANGED telnet
        \/ telnet' = [telnet EXCEPT ![c].run = "start"]
    BY DEF Ssh!ServerMain, Ssh!acceptNewClient, Ssh!acceptNewStream, Ssh!allowClient,
       Ssh!askServerMode,
           Ssh!stopSessionChannel, Ssh!stopListener, Ssh!stopListener_assigned
  <2>2. \/ UNCHANGED listener
        \/ listener' = [listener EXCEPT ![c].state = "closed"]
    BY DEF Ssh!ServerMain, Ssh!acceptNewClient, Ssh!acceptNewStream, Ssh!allowClient,
       Ssh!askServerMode,
           Ssh!stopSessionChannel, Ssh!stopListener, Ssh!stopListener_assigned
  <2>3. TelnetType'
    BY <2>1, <1>1 DEF TelnetType
  <2>4. ListenerType' /\ \A d \in Client : d # c => listener'[d] = listener[d]
    BY <2>2, <1>1 DEF ListenerType
  <2>5. UNCHANGED client
    BY DEF Ssh!ServerMain, Ssh!acceptNewClient, Ssh!acceptNewStream, Ssh!allowClient,
       Ssh!askServerMode,
           Ssh!stopSessionChannel, Ssh!stopListener, Ssh!stopListener_assigned
  <2> QED
    BY <2>3, <2>4, <2>5
<1>8. serverAlive' \in BOOLEAN /\ (serverAlive' \/ net[c].seen = "error" \/ server'[c].main = "panic")
  <2>1. CASE Ssh!allowClient(c)
    BY <2>1, <1>1, <1>3 DEF Ssh!allowClient, SshServerType, ServerRecord
  <2>2. CASE ~Ssh!allowClient(c)
    BY <2>2, <1>1 DEF Ssh!ServerMain, Ssh!acceptNewClient, Ssh!acceptNewStream,
       Ssh!askServerMode,
                      Ssh!stopSessionChannel, Ssh!stopListener, Ssh!stopListener_assigned
  <2> QED
    BY <2>1, <2>2
<1>9. serverAlive
  BY DEF Ssh!ServerMain, Ssh!acceptNewClient, Ssh!acceptNewStream, Ssh!allowClient,
     Ssh!askServerMode,
         Ssh!stopSessionChannel, Ssh!stopListener, Ssh!stopListener_assigned
<1>10. SshType'
  BY <1>5, <1>6, <1>7, <1>8 DEF SshInv, SshType, ClientType
<1>11. NotStarted'
  BY <1>6, <1>7, <1>8 DEF SshInv, NotStarted
<1>12. \A d \in Client : ServerLocal(d)'
  <2>1. ASSUME NEW d \in Client, d # c PROVE ServerLocal(d)'
    <3>1. ServerLocal(d)
      BY ServerLocalSuffices DEF SshInv
    <3>2. server'[d] = server[d] /\ listener'[d] = listener[d]
      BY <2>1, <1>1, <1>4, <1>7 DEF SshServerType
    <3> QED
      BY <3>1, <3>2 DEF ServerLocal, Early
  <2> QED
    BY <2>1, <1>4
<1>13. SshNobodyYet' /\ NoSenderLeft' /\ Ssh!StoppedOnce' /\ RegisteredLate'
  BY <1>12 DEF ServerLocal, Early, SshNobodyYet, NoSenderLeft, Ssh!StoppedOnce,
     RegisteredLate
<1> QED
  BY <1>10, <1>11, <1>13 DEF SshInv

\* A step of another goroutine of client c, or of telnet: the main goroutine
\* stays where it is, and a sender appears only while it waits.
LEMMA GoroutineStep ==
  ASSUME SshInv, NEW c \in Client,
         Ssh!RemoteLogin(c) \/ Ssh!Telnet_ends(c) \/ Ssh!RemoteForwarding(c)
  PROVE  SshInv'
<1> USE DEF Ssh!RemoteLogin, Ssh!RemoteForwarding
<1>1. NetType /\ SshServerType /\ TelnetType /\ ListenerType /\ serverAlive
  BY DEF SshInv, SshType, Ssh!runTelnet, Ssh!receiveCommand_read, Ssh!receiveCommand_written,
         Ssh!receiveCommand_fails, Ssh!lookForEndOfCommunication, Ssh!remoteLoginServerLoops,
         Ssh!Telnet_ends, Ssh!waitForClientStopRequest, Ssh!runAsDestination,
         Ssh!acceptLocalConnection_listen,
         Ssh!acceptLocalConnection_append, Ssh!acceptLocalConnection_register,
         Ssh!runAsSource_ends
<1>2. ServerLocal(c)
  BY ServerLocalSuffices DEF SshInv
<1>3. server[c] \in ServerRecord
  BY <1>1 DEF SshServerType
<1>4. /\ server'[c] \in ServerRecord /\ ServerLocal(c)'
      /\ server' = [server EXCEPT ![c] = server'[c]]
      /\ server'[c].main = server[c].main
  <2>1. CASE UNCHANGED <<server, listener>>
    BY <2>1, <1>1, <1>2, <1>3 DEF SshServerType, ServerLocal, Early
  <2>2. CASE Ssh!receiveCommand_read(c)
    BY <2>2, <1>1, <1>2, <1>3
       DEF Ssh!receiveCommand_read, SshServerType, ServerRecord, ServerLocal, Early
  <2>3. CASE Ssh!receiveCommand_written(c)
    BY <2>3, <1>1, <1>2, <1>3
       DEF Ssh!receiveCommand_written, SshServerType, ServerRecord, ServerLocal, Early
  <2>4. CASE Ssh!receiveCommand_fails(c)
    BY <2>4, <1>1, <1>2, <1>3
       DEF Ssh!receiveCommand_fails, SshServerType, ServerRecord, ServerLocal, Early
  <2>5. CASE Ssh!lookForEndOfCommunication(c)
    BY <2>5, <1>1, <1>2, <1>3
       DEF Ssh!lookForEndOfCommunication, SshServerType, ServerRecord, ServerLocal, Early
  <2>6. CASE Ssh!remoteLoginServerLoops(c)
    <3>1. server[c].loops = "error" /\ UNCHANGED listener
      BY <2>6 DEF Ssh!remoteLoginServerLoops
    <3>2. server[c].main = "wait" /\ server[c].stop = "off"
      BY <3>1, <1>2, <1>3 DEF ServerLocal
    <3> DEFINE n == [server[c] EXCEPT !.loops = "stop", !.receive = "read"]
               k == [server[c] EXCEPT !.loops = "stop", !.look = "read"]
    <3>3. server' = [server EXCEPT ![c] = n] \/ server' = [server EXCEPT ![c] = k]
      BY <2>6, <1>1, <1>3 DEF Ssh!remoteLoginServerLoops, SshServerType, ServerRecord
    <3>4. \A r \in {n, k} : /\ r \in ServerRecord /\ r.main = "wait"
                            /\ r.stop = "off"
      BY <3>2, <1>3 DEF ServerRecord
    <3>5. server'[c] \in {n, k} /\ server' = [server EXCEPT ![c] = server'[c]]
      BY <3>3, <1>1 DEF SshServerType
    <3> HIDE DEF n, k
    <3> QED
      BY <3>1, <3>2, <3>4, <3>5, <1>2 DEF ServerLocal, Early
  <2>7. CASE Ssh!waitForClientStopRequest(c)
    BY <2>7, <1>1, <1>2, <1>3
       DEF Ssh!waitForClientStopRequest, SshServerType, ServerRecord, ServerLocal, Early
  <2>8. CASE Ssh!runAsDestination(c)
    <3>1. UNCHANGED listener
      BY <2>8 DEF Ssh!runAsDestination
    <3>2. \/ UNCHANGED server
          \/ /\ server[c].streams = "accept"
             /\ \/ server' = [server EXCEPT ![c].request = "listen"]
                \/ server' = [server EXCEPT ![c].streams = "done"]
      BY <2>8 DEF Ssh!runAsDestination
    <3> QED
      BY <2>1, <3>1, <3>2, <1>1, <1>2, <1>3
         DEF SshServerType, ServerRecord, ServerLocal, Early
  <2>9. CASE Ssh!acceptLocalConnection_listen(c)
    BY <2>9, <1>1, <1>2, <1>3
       DEF Ssh!acceptLocalConnection_listen, SshServerType, ServerRecord, ListenerType,
           ServerLocal, Early
  <2>10. CASE Ssh!acceptLocalConnection_register(c)
    <3>1. server' = [server EXCEPT ![c].request = "accept"] /\ server[c].request = "assign"
      BY <2>10 DEF Ssh!acceptLocalConnection_register
    <3>2. listener'[c].late = (server[c].main \in {"assign", "return"})
      BY <2>10, <1>1 DEF Ssh!acceptLocalConnection_register, ListenerType
    <3> QED
      BY <3>1, <3>2, <1>1, <1>2, <1>3 DEF SshServerType, ServerRecord, ServerLocal, Early
  <2>11. CASE Ssh!runAsSource_ends(c)
    BY <2>11, <1>1, <1>2, <1>3
       DEF Ssh!runAsSource_ends, SshServerType, ServerRecord, ServerLocal, Early
  <2>12. CASE Ssh!acceptLocalConnection_append(c)
    BY <2>12, <1>1, <1>2, <1>3
       DEF Ssh!acceptLocalConnection_append, SshServerType, ServerRecord, ServerLocal, Early
  <2> QED
    BY <2>1, <2>2, <2>3, <2>4, <2>5, <2>6, <2>7, <2>8, <2>9, <2>10, <2>11, <2>12
       DEF Ssh!runTelnet, Ssh!Telnet_ends
<1>5. SshServerType'
  BY <1>1, <1>4 DEF SshServerType
<1>6. NetType' /\ \A d \in Client : net'[d].seen = net[d].seen
  <2>1. CASE Ssh!receiveCommand_read(c)
    <3>1. net[c].unread - 1 \in Nat
      BY <2>1, <1>1 DEF Ssh!receiveCommand_read, NetType, NetRecord
    <3> QED
      BY <2>1, <3>1, <1>1 DEF Ssh!receiveCommand_read, NetType, NetRecord
  <2>2. CASE ~Ssh!receiveCommand_read(c)
    <3>1. UNCHANGED net
      BY <2>2 DEF Ssh!runTelnet, Ssh!receiveCommand_written, Ssh!receiveCommand_fails,
           Ssh!lookForEndOfCommunication, Ssh!remoteLoginServerLoops, Ssh!Telnet_ends,
           Ssh!waitForClientStopRequest, Ssh!runAsDestination, Ssh!acceptLocalConnection_listen,
           Ssh!acceptLocalConnection_append, Ssh!acceptLocalConnection_register, Ssh!runAsSource_ends
    <3> QED
      BY <3>1, <1>1 DEF NetType
  <2> QED
    BY <2>1, <2>2
<1>7. TelnetType'
  <2>1. CASE Ssh!runTelnet(c) \/ Ssh!Telnet_ends(c)
    <3>1. \E r \in {"running", "failed", "ended"}, b \in BOOLEAN :
             \/ telnet' = [telnet EXCEPT ![c].run = r, ![c].stdin = b]
             \/ telnet' = [telnet EXCEPT ![c].run = r, ![c].said = b]
      BY <2>1 DEF Ssh!runTelnet, Ssh!Telnet_ends
    <3> QED
      BY <3>1, <1>1 DEF TelnetType
  <2>2. CASE Ssh!receiveCommand_written(c)
    BY <2>2, <1>1 DEF Ssh!receiveCommand_written, TelnetType
  <2>3. CASE Ssh!lookForEndOfCommunication(c)
    BY <2>3, <1>1 DEF Ssh!lookForEndOfCommunication, TelnetType
  <2>4. CASE UNCHANGED telnet
    BY <2>4, <1>1 DEF TelnetType
  <2> QED
    BY <2>1, <2>2, <2>3, <2>4
       DEF Ssh!receiveCommand_read, Ssh!receiveCommand_fails, Ssh!remoteLoginServerLoops,
           Ssh!waitForClientStopRequest, Ssh!runAsDestination, Ssh!acceptLocalConnection_listen,
           Ssh!acceptLocalConnection_append, Ssh!acceptLocalConnection_register, Ssh!runAsSource_ends
<1>8. ListenerType' /\ \A d \in Client : d # c => listener'[d] = listener[d]
  <2>1. \/ UNCHANGED listener
        \/ listener' = [listener EXCEPT ![c].state = "open"]
        \/ listener' = [listener EXCEPT ![c].state = "registered",
                                        ![c].late = server[c].main \in {"assign", "return"}]
    BY DEF Ssh!runTelnet, Ssh!receiveCommand_read, Ssh!receiveCommand_written,
         Ssh!receiveCommand_fails, Ssh!lookForEndOfCommunication, Ssh!remoteLoginServerLoops,
         Ssh!Telnet_ends, Ssh!waitForClientStopRequest, Ssh!runAsDestination,
         Ssh!acceptLocalConnection_listen,
         Ssh!acceptLocalConnection_append, Ssh!acceptLocalConnection_register,
         Ssh!runAsSource_ends
  <2> QED
    BY <2>1, <1>1 DEF ListenerType
<1>9. UNCHANGED client /\ serverAlive' \in BOOLEAN /\ (serverAlive' \/ net[c].seen = "error")
  BY <1>1 DEF Ssh!runTelnet, Ssh!receiveCommand_read, Ssh!receiveCommand_written,
         Ssh!receiveCommand_fails, Ssh!lookForEndOfCommunication, Ssh!remoteLoginServerLoops,
         Ssh!Telnet_ends, Ssh!waitForClientStopRequest, Ssh!runAsDestination,
         Ssh!acceptLocalConnection_listen,
         Ssh!acceptLocalConnection_append, Ssh!acceptLocalConnection_register,
         Ssh!runAsSource_ends
<1>10. SshType'
  BY <1>5, <1>6, <1>7, <1>8, <1>9 DEF SshInv, SshType, ClientType
<1>11. NotStarted'
  BY <1>6, <1>9 DEF SshInv, NotStarted
<1>12. \A d \in Client : ServerLocal(d)'
  <2>1. ASSUME NEW d \in Client, d # c PROVE ServerLocal(d)'
    <3>1. ServerLocal(d)
      BY ServerLocalSuffices DEF SshInv
    <3>2. server'[d] = server[d] /\ listener'[d] = listener[d]
      BY <2>1, <1>1, <1>4, <1>8 DEF SshServerType
    <3> QED
      BY <3>1, <3>2 DEF ServerLocal, Early
  <2> QED
    BY <2>1, <1>4
<1>13. SshNobodyYet' /\ NoSenderLeft' /\ Ssh!StoppedOnce' /\ RegisteredLate'
  BY <1>12 DEF ServerLocal, Early, SshNobodyYet, NoSenderLeft, Ssh!StoppedOnce,
     RegisteredLate
<1> QED
  BY <1>10, <1>11, <1>13 DEF SshInv

\* Every step preserves the invariant.
LEMMA SshInvStep == SshInv /\ [Ssh!Next]_(Ssh!vars) => SshInv'
<1> SUFFICES ASSUME SshInv, [Ssh!Next]_(Ssh!vars) PROVE SshInv'
  OBVIOUS
<1>1. CASE UNCHANGED Ssh!vars
  BY <1>1 DEF Ssh!vars, SshInv, SshType, ClientType, NetType, SshServerType, TelnetType,
              ListenerType, SshNobodyYet, Early, NoSenderLeft, Ssh!StoppedOnce, NotStarted,
              RegisteredLate
<1>2. ASSUME NEW c \in Client, Ssh!listActiveListeners_fault(c) PROVE SshInv'
  BY <1>2 DEF Ssh!listActiveListeners_fault, SshInv, SshType, ClientType, NetType,
              SshServerType, TelnetType, ListenerType, SshNobodyYet, Early, NoSenderLeft,
              Ssh!StoppedOnce, NotStarted, RegisteredLate
<1>3. CASE Ssh!Next
  BY <1>2, <1>3, ClientStep, NetworkStep, ServerMainStep, GoroutineStep DEF Ssh!Next
<1> QED
  BY <1>1, <1>3

\* No step reads a command that has not been typed, or types one too many.
LEMMA UnreadTypedStep ==
  ASSUME MaxTyped \in Nat, SshInv, UnreadTyped, [Ssh!Next]_(Ssh!vars)
  PROVE  UnreadTyped'
<1>1. NetType
  BY DEF SshInv, SshType
<1>2. CASE \E c \in Client : Ssh!writeMessageLoop(c)
  BY <1>1, <1>2 DEF Ssh!writeMessageLoop, NetType, NetRecord, UnreadTyped
<1>3. CASE \E c \in Client : Ssh!receiveCommand_read(c)
  BY <1>1, <1>3 DEF Ssh!receiveCommand_read, NetType, NetRecord, UnreadTyped
<1>4. CASE \A c \in Client : net'[c].typed = net[c].typed /\ net'[c].unread = net[c].unread
  BY <1>4 DEF UnreadTyped
<1>5. CASE UNCHANGED net
  BY <1>5 DEF UnreadTyped
<1>6. ASSUME NEW c \in Client,
             Ssh!Session_fails(c) \/ Ssh!Session_endSeen(c) \/ Ssh!Session_error(c)
      PROVE  \A d \in Client : net'[d].typed = net[d].typed /\ net'[d].unread = net[d].unread
  BY <1>1, <1>6 DEF Ssh!Session_fails, Ssh!Session_endSeen, Ssh!Session_error, NetType,
     NetRecord
<1>7. ASSUME NEW c \in Client,
             Ssh!NewQuicSSHClient(c) \/ Ssh!ClientProcess(c) \/ Ssh!Client_inputEnds(c)
      PROVE  \A d \in Client : net'[d].typed = net[d].typed /\ net'[d].unread = net[d].unread
  <2>1. CASE Ssh!NewQuicSSHClient(c)
    BY <2>1, <1>1 DEF Ssh!NewQuicSSHClient, NetType, NetRecord
  <2>2. CASE Ssh!setServerMode(c)
    BY <2>2, <1>1 DEF Ssh!setServerMode, NetType, NetRecord
  <2>3. CASE Ssh!Client_launchPortForwarding(c)
    BY <2>3, <1>1 DEF Ssh!Client_launchPortForwarding, NetType, NetRecord
  <2>4. CASE Ssh!Client_stop(c)
    BY <2>4, <1>1 DEF Ssh!Client_stop, NetType, NetRecord
  <2> QED
    BY <1>7, <2>1, <2>2, <2>3, <2>4
       DEF Ssh!ClientProcess, Ssh!receiveMessageLoop_fails, Ssh!remoteLoginClientLoops,
       Ssh!Client_inputEnds
<1>8. ASSUME NEW c \in Client, Ssh!ServerMain(c)
      PROVE  \A d \in Client : net'[d].typed = net[d].typed /\ net'[d].unread = net[d].unread
  <2>1. UNCHANGED net \/ Ssh!CloseSession(c)
    BY <1>8 DEF Ssh!ServerMain, Ssh!acceptNewClient, Ssh!acceptNewStream, Ssh!allowClient,
       Ssh!askServerMode,
                Ssh!stopSessionChannel, Ssh!stopListener, Ssh!stopListener_assigned
  <2> QED
    BY <2>1, <1>1 DEF Ssh!CloseSession, NetType, NetRecord
<1>9. ASSUME NEW c \in Client, ~Ssh!receiveCommand_read(c),
             Ssh!RemoteLogin(c) \/ Ssh!Telnet_ends(c) \/ Ssh!RemoteForwarding(c)
      PROVE  UNCHANGED net
  BY <1>9 DEF Ssh!RemoteLogin, Ssh!RemoteForwarding, Ssh!runTelnet, Ssh!receiveCommand_written,
         Ssh!receiveCommand_fails, Ssh!lookForEndOfCommunication, Ssh!remoteLoginServerLoops,
         Ssh!Telnet_ends, Ssh!waitForClientStopRequest, Ssh!runAsDestination,
         Ssh!acceptLocalConnection_listen,
         Ssh!acceptLocalConnection_append, Ssh!acceptLocalConnection_register,
         Ssh!runAsSource_ends
<1>10. CASE UNCHANGED Ssh!vars \/ \E c \in Client : Ssh!listActiveListeners_fault(c)
  BY <1>5, <1>10 DEF Ssh!vars, Ssh!listActiveListeners_fault
<1> QED
  BY <1>2, <1>3, <1>4, <1>5, <1>6, <1>7, <1>8, <1>9, <1>10 DEF Ssh!Next

\* The variables keep their types: no goroutine is in two places, no command is
\* read that was not typed.
THEOREM SshTypeCorrect == ASSUME MaxTyped \in Nat PROVE Ssh!Spec => []Ssh!TypeOK
<1>1. Ssh!Init => UnreadTyped
  BY DEF Ssh!Init, UnreadTyped
<1>2. SshInv /\ UnreadTyped /\ [Ssh!Next]_(Ssh!vars) => UnreadTyped'
  BY UnreadTypedStep
<1>3. SshInv /\ UnreadTyped => Ssh!TypeOK
  <2> SUFFICES ASSUME SshInv, UnreadTyped PROVE Ssh!TypeOK
    OBVIOUS
  <2>1. net \in [Client -> [up : BOOLEAN, seen : {"none", "up", "ended", "error", "closed"},
                            key : BOOLEAN, mode : BOOLEAN, typed : 0..MaxTyped,
                            unread : 0..MaxTyped, request : BOOLEAN]]
    BY DEF SshInv, SshType, NetType, NetRecord, UnreadTyped
  <2> QED
    BY <2>1 DEF SshInv, SshType, ClientType, SshServerType, ServerRecord, TelnetType,
                ListenerType, Ssh!TypeOK
<1> QED
  BY <1>1, <1>2, <1>3, SshInvInit, SshInvStep, PTL DEF Ssh!Spec

\* stopSessionChannel is sent on by one goroutine at most, and never after the
\* main goroutine has received from it.
THEOREM SentOnce == Ssh!Spec => []StoppedOnce
<1>1. SshInv => StoppedOnce
  BY DEF StoppedOnce, SshInv
<1> QED
  BY <1>1, SshInvInit, SshInvStep, PTL DEF Ssh!Spec

\* stopListener leaves a port open only when the listener is registered after it.
THEOREM PortKeptByRace == Ssh!Spec => []KeptNeedsRace
<1>1. SshInv => KeptNeedsRace
  BY DEF KeptNeedsRace, Ssh!KeptNeedsRace, Ssh!Kept, RegisteredLate, SshInv
<1> QED
  BY <1>1, SshInvInit, SshInvStep, PTL DEF Ssh!Spec
-----------------------------------------------------------------------------
(* What the end of the server process takes. *)

\* Why the main goroutine of a client's server leaves the select: the session
\* has ended, not by its own Close, or telnet has said so.
StopReason(c) == net[c].seen \in {"ended", "error"} \/ telnet[c].run = "ended"

\* A port is listened on for a client with -R that asked for it.
AskedFor(c) ==
  /\ client[c].remote => Ssh!Forwards(c)
  /\ client[c].main = "request" => client[c].remote
  /\ net[c].request => client[c].remote
  /\ server[c].request # "off" => net[c].request
  /\ server[c].request \in {"register", "assign"} => listener[c].state = "open"
  /\ server[c].streams # "off" => Ssh!Forwards(c)

\* The session is closed by the server only after it has been told to stop, and
\* it is told so for a reason.
StoppedFor(c) ==
  /\ Early(c) \/ server[c].main = "wait" => net[c].seen # "closed"
  /\ Early(c) => telnet[c].run = "off" /\ ~telnet[c].said
  /\ telnet[c].said \/ server[c].look = "report" => telnet[c].run = "ended"
  /\ server[c].receive = "report" => Ssh!Over(c)
  /\ server[c].loops = "stop" \/ server[c].stop = "stop" => StopReason(c)
  /\ server[c].main \in {"stopListener", "assign"} => StopReason(c)

CauseInv ==
  /\ \A c \in Client : AskedFor(c) /\ StoppedFor(c)
  /\ Ssh!CrashNeedsForwarding

\* Why a client has ended the server process.
Culprit(c) ==
  \/ server[c].main \in {"stream", "panic"}
  \/ Ssh!Forwards(c) /\ net[c].seen = "error"
  \/ Ssh!MetInTheMap(c)

\* Initially no client has started, and none has been told to stop.
LEMMA CauseInvInit == Ssh!Init => CauseInv
<1> SUFFICES ASSUME Ssh!Init PROVE CauseInv
  OBVIOUS
<1>1. ASSUME NEW c \in Client PROVE AskedFor(c)
  BY DEF Ssh!Init, AskedFor
<1>2. ASSUME NEW c \in Client PROVE StoppedFor(c)
  BY DEF Ssh!Init, StoppedFor, Early
<1>3. Ssh!CrashNeedsForwarding
  BY DEF Ssh!Init, Ssh!CrashNeedsForwarding
<1> QED
  BY <1>1, <1>2, <1>3 DEF CauseInv

\* What the clients and the network do leaves the server alone, and what its
\* endpoint knows of a session goes from "none" to "up" and from there to an end.
LEMMA OutsideKeepsCause ==
  ASSUME CauseInv, UNCHANGED <<server, telnet, listener, serverAlive>>,
         \A c \in Client :
           /\ client'[c].mode = client[c].mode /\ client'[c].remote = client[c].remote
           /\ client'[c].main = "request" => client[c].main = "request" \/ client[c].remote
           /\ net'[c].request => net[c].request \/ client[c].main = "request"
           /\ net[c].request => net'[c].request
           /\ \/ net'[c].seen = net[c].seen
              \/ net[c].seen = "none" /\ net'[c].seen = "up"
              \/ net[c].seen = "up" /\ net'[c].seen \in {"ended", "error"}
  PROVE  CauseInv'
<1>1. ASSUME NEW c \in Client PROVE AskedFor(c)'
  BY DEF CauseInv, AskedFor, Ssh!Forwards
<1>2. ASSUME NEW c \in Client PROVE StoppedFor(c)'
  BY DEF CauseInv, StoppedFor, StopReason, Early, Ssh!Over
<1>3. Ssh!CrashNeedsForwarding'
  BY DEF CauseInv, Ssh!CrashNeedsForwarding, Ssh!Forwards, Ssh!MetInTheMap
<1> QED
  BY <1>1, <1>2, <1>3 DEF CauseInv

\* A step of the client process, of its user or of the network.
LEMMA OutsideCause ==
  ASSUME SshInv, CauseInv, NEW c \in Client,
         \/ Ssh!NewQuicSSHClient(c) \/ Ssh!ClientProcess(c)
         \/ Ssh!writeMessageLoop(c) \/ Ssh!Client_inputEnds(c)
         \/ Ssh!Session_fails(c) \/ Ssh!Session_endSeen(c) \/ Ssh!Session_error(c)
  PROVE  CauseInv'
<1>1. ClientType /\ NetType /\ NotStarted
  BY DEF SshInv, SshType
<1>2. CASE Ssh!NewQuicSSHClient(c)
  BY <1>1, <1>2, OutsideKeepsCause DEF Ssh!NewQuicSSHClient, ClientType, NetType, NetRecord,
     NotStarted
<1>3. CASE Ssh!setServerMode(c)
  BY <1>1, <1>3, OutsideKeepsCause DEF Ssh!setServerMode, Ssh!Client_launch, ClientType,
     NetType, NetRecord
<1>4. CASE Ssh!Client_launchPortForwarding(c)
  BY <1>1, <1>4, OutsideKeepsCause DEF Ssh!Client_launchPortForwarding, Ssh!Client_launch,
     ClientType, NetType, NetRecord
<1>5. CASE \/ Ssh!receiveMessageLoop_fails(c) \/ Ssh!remoteLoginClientLoops(c)
           \/ Ssh!Client_inputEnds(c)
  BY <1>1, <1>5, OutsideKeepsCause DEF Ssh!receiveMessageLoop_fails,
     Ssh!remoteLoginClientLoops, Ssh!Client_inputEnds, ClientType
<1>6. CASE Ssh!Client_stop(c)
  BY <1>1, <1>6, OutsideKeepsCause DEF Ssh!Client_stop, ClientType, NetType, NetRecord
<1>7. CASE Ssh!writeMessageLoop(c)
  BY <1>1, <1>7, OutsideKeepsCause DEF Ssh!writeMessageLoop, ClientType, NetType, NetRecord
<1>8. CASE Ssh!Session_fails(c) \/ Ssh!Session_endSeen(c) \/ Ssh!Session_error(c)
  BY <1>1, <1>8, OutsideKeepsCause DEF Ssh!Session_fails, Ssh!Session_endSeen,
     Ssh!Session_error, NetType, NetRecord
<1> QED
  BY <1>2, <1>3, <1>4, <1>5, <1>6, <1>7, <1>8 DEF Ssh!ClientProcess

\* A step of the server for client c touches what belongs to c only.
LEMMA ServerStepIsLocal ==
  ASSUME CauseInv, NEW c \in Client, serverAlive, UNCHANGED client,
         \A d \in Client : d # c =>
           /\ net'[d] = net[d] /\ server'[d] = server[d]
           /\ telnet'[d] = telnet[d] /\ listener'[d] = listener[d],
         AskedFor(c)', StoppedFor(c)', serverAlive' \/ Culprit(c)'
  PROVE  CauseInv'
<1>1. ASSUME NEW d \in Client, d # c PROVE AskedFor(d)' /\ StoppedFor(d)'
  BY <1>1 DEF CauseInv, AskedFor, StoppedFor, StopReason, Early, Ssh!Over, Ssh!Forwards
<1>2. Ssh!CrashNeedsForwarding'
  BY DEF Culprit, Ssh!CrashNeedsForwarding
<1> QED
  BY <1>1, <1>2 DEF CauseInv

\* A step of the main goroutine.
LEMMA ServerMainCause ==
  ASSUME SshInv, CauseInv, NEW c \in Client, Ssh!ServerMain(c)
  PROVE  CauseInv'
<1>1. NetType /\ SshServerType /\ TelnetType /\ ListenerType
  BY DEF SshInv, SshType
<1>2. AskedFor(c) /\ StoppedFor(c) /\ ServerLocal(c)
  BY ServerLocalSuffices DEF SshInv, CauseInv
<1> USE DEF AskedFor, StoppedFor, StopReason, Early, Ssh!Over, Ssh!Forwards,
            NetType, NetRecord, SshServerType, ServerRecord, TelnetType, ListenerType
<1>3. CASE Ssh!acceptNewClient(c)
  BY <1>1, <1>2, <1>3, ServerStepIsLocal DEF Ssh!acceptNewClient
<1>4. CASE Ssh!acceptNewStream(c)
  <2>1. /\ serverAlive /\ server[c].main = "stream"
        /\ UNCHANGED <<client, telnet, listener>>
    BY <1>4 DEF Ssh!acceptNewStream
  <2>2. CASE server' = [server EXCEPT ![c].main = "allow"] /\ UNCHANGED <<net, serverAlive>>
    BY <1>1, <1>2, <2>1, <2>2, ServerStepIsLocal DEF ServerLocal
  <2>3. CASE /\ server' = [server EXCEPT ![c].main = "return"]
             /\ Ssh!CloseSession(c) /\ UNCHANGED serverAlive
    BY <1>1, <1>2, <2>1, <2>3, ServerStepIsLocal DEF Ssh!CloseSession, ServerLocal
  <2>4. CASE UNCHANGED <<server, net>>
    BY <1>1, <1>2, <2>1, <2>4, ServerStepIsLocal DEF Culprit
  <2> QED
    BY <1>4, <2>2, <2>3, <2>4 DEF Ssh!acceptNewStream
<1>5. CASE Ssh!allowClient(c)
  <2>1. /\ serverAlive /\ server[c].main = "allow"
        /\ UNCHANGED <<client, telnet, listener>>
    BY <1>5 DEF Ssh!allowClient
  <2>2. CASE server' = [server EXCEPT ![c].main = "mode"] /\ UNCHANGED <<net, serverAlive>>
    BY <1>1, <1>2, <2>1, <2>2, ServerStepIsLocal DEF ServerLocal
  <2>3. CASE /\ server' = [server EXCEPT ![c].main = "return"]
             /\ Ssh!CloseSession(c) /\ UNCHANGED serverAlive
    BY <1>1, <1>2, <2>1, <2>3, ServerStepIsLocal DEF Ssh!CloseSession, ServerLocal
  <2>4. CASE server' = [server EXCEPT ![c].main = "panic"] /\ UNCHANGED net
    BY <1>1, <1>2, <2>1, <2>4, ServerStepIsLocal DEF Culprit, ServerLocal
  <2> QED
    BY <1>5, <2>2, <2>3, <2>4 DEF Ssh!allowClient
<1>6. CASE Ssh!askServerMode(c)
  <2>1. /\ serverAlive /\ serverAlive' /\ server[c].main = "mode"
        /\ UNCHANGED <<client, listener>>
    BY <1>6 DEF Ssh!askServerMode
  <2>2. CASE /\ server' = [server EXCEPT
                  ![c].main = "wait",
                  ![c].streams = IF Ssh!Forwards(c) THEN "accept" ELSE "off",
                  ![c].loops = IF Ssh!Login(c) THEN "error" ELSE "off",
                  ![c].receive = IF Ssh!Login(c) THEN "read" ELSE "off",
                  ![c].look = IF Ssh!Login(c) THEN "read" ELSE "off",
                  ![c].stop = IF Ssh!Login(c) THEN "off" ELSE "read"]
             /\ telnet' = IF Ssh!Login(c)
                             THEN [telnet EXCEPT ![c].run = "start"] ELSE telnet
             /\ UNCHANGED net
    <3>2. \A d \in Client \ {c} :
            net'[d] = net[d] /\ server'[d] = server[d]
            /\ telnet'[d] = telnet[d] /\ listener'[d] = listener[d]
      BY <1>1, <2>1, <2>2
    <3>3. /\ server'[c].main = "wait" /\ server'[c].request = server[c].request
          /\ server'[c].streams = IF Ssh!Forwards(c) THEN "accept" ELSE "off"
          /\ server'[c].loops \in {"error", "off"}
          /\ server'[c].receive \in {"read", "off"}
          /\ server'[c].look \in {"read", "off"}
          /\ server'[c].stop \in {"read", "off"}
      BY <1>1, <2>2
    <3>4. /\ telnet'[c].run = telnet[c].run \/ telnet'[c].run = "start"
          /\ telnet'[c].said = telnet[c].said
      BY <1>1, <2>2
    <3>5. AskedFor(c)'
      BY <1>2, <2>1, <2>2, <3>3
    <3>6. StoppedFor(c)'
      BY <1>2, <2>1, <2>2, <3>3, <3>4
    <3> QED
      BY <2>1, <3>2, <3>5, <3>6, ServerStepIsLocal
  <2>3. CASE /\ server' = [server EXCEPT ![c].main = "return"]
             /\ Ssh!CloseSession(c) /\ UNCHANGED telnet
    BY <1>1, <1>2, <2>1, <2>3, ServerStepIsLocal DEF Ssh!CloseSession, ServerLocal
  <2> QED
    BY <1>6, <2>2, <2>3, Zenon DEF Ssh!askServerMode
<1>7. CASE Ssh!stopSessionChannel(c)
  BY <1>1, <1>2, <1>7, ServerStepIsLocal
     DEF Ssh!stopSessionChannel, Ssh!CloseSession, ServerLocal
<1>8. CASE Ssh!stopListener(c)
  BY <1>1, <1>2, <1>8, ServerStepIsLocal DEF Ssh!stopListener, ServerLocal
<1>9. CASE Ssh!stopListener_assigned(c)
  BY <1>1, <1>2, <1>9, ServerStepIsLocal DEF Ssh!stopListener_assigned, ServerLocal
<1> QED
  BY <1>3, <1>4, <1>5, <1>6, <1>7, <1>8, <1>9 DEF Ssh!ServerMain

\* A step of another goroutine of the server for client c, or of telnet.
LEMMA GoroutineCause ==
  ASSUME SshInv, CauseInv, NEW c \in Client,
         \/ Ssh!RemoteLogin(c) \/ Ssh!Telnet_ends(c) \/ Ssh!RemoteForwarding(c)
         \/ Ssh!listActiveListeners_fault(c)
  PROVE  CauseInv'
<1>1. NetType /\ SshServerType /\ TelnetType /\ ListenerType
  BY DEF SshInv, SshType
<1>2. AskedFor(c) /\ StoppedFor(c) /\ ServerLocal(c)
  BY ServerLocalSuffices DEF SshInv, CauseInv
<1> USE DEF AskedFor, StoppedFor, StopReason, Early, Ssh!Over, Ssh!Forwards, ServerLocal,
            NetType, NetRecord, SshServerType, ServerRecord, TelnetType, ListenerType
<1>3. CASE Ssh!runTelnet(c) \/ Ssh!Telnet_ends(c)
  <2>1. serverAlive /\ UNCHANGED <<client, net, server, listener, serverAlive>>
    BY <1>3 DEF Ssh!runTelnet, Ssh!Telnet_ends
  <2>2. CASE Ssh!runTelnet(c)
    <3>1. telnet[c].run = "start"
      BY <2>2 DEF Ssh!runTelnet
    <3>2. \A d \in Client : /\ d # c => telnet'[d] = telnet[d]
                            /\ telnet'[d].said = telnet[d].said
      BY <2>2, <1>1 DEF Ssh!runTelnet
    <3> QED
      BY <1>2, <2>1, <3>1, <3>2, ServerStepIsLocal
  <2>3. CASE Ssh!Telnet_ends(c)
    <3>1. telnet[c].run = "running"
      BY <2>3 DEF Ssh!Telnet_ends
    <3>2. /\ \A d \in Client : d # c => telnet'[d] = telnet[d]
          /\ telnet'[c].said => telnet'[c].run = "ended"
      <4>1. PICK said \in BOOLEAN :
              telnet' = [telnet EXCEPT ![c].run = IF said THEN "ended" ELSE "failed",
                                       ![c].said = said]
        BY <2>3 DEF Ssh!Telnet_ends
      <4>2. CASE said
        <5>1. telnet' = [telnet EXCEPT ![c].run = "ended", ![c].said = said]
          BY <4>1, <4>2
        <5> QED
          BY <5>1, <1>1
      <4>3. CASE ~said
        <5>1. telnet' = [telnet EXCEPT ![c].run = "failed", ![c].said = said]
          BY <4>1, <4>3
        <5> QED
          BY <5>1, <4>3, <1>1
      <4> QED
        BY <4>2, <4>3
    <3> QED
      BY <1>2, <2>1, <3>1, <3>2, ServerStepIsLocal
  <2> QED
    BY <1>3, <2>2, <2>3
<1>4. CASE Ssh!receiveCommand_read(c)
  BY <1>1, <1>2, <1>4, ServerStepIsLocal DEF Ssh!receiveCommand_read
<1>5. CASE Ssh!receiveCommand_written(c)
  BY <1>1, <1>2, <1>5, ServerStepIsLocal DEF Ssh!receiveCommand_written
<1>6. CASE Ssh!receiveCommand_fails(c)
  BY <1>1, <1>2, <1>6, ServerStepIsLocal DEF Ssh!receiveCommand_fails
<1>7. CASE Ssh!lookForEndOfCommunication(c)
  BY <1>1, <1>2, <1>7, ServerStepIsLocal DEF Ssh!lookForEndOfCommunication
<1>8. CASE Ssh!remoteLoginServerLoops(c)
  <2>1. /\ serverAlive /\ server[c].loops = "error"
        /\ UNCHANGED <<client, net, telnet, listener, serverAlive>>
    BY <1>8 DEF Ssh!remoteLoginServerLoops
  <2>2. StopReason(c)
    BY <1>1, <1>2, <1>8, <2>1 DEF Ssh!remoteLoginServerLoops
  <2>3. CASE server' = [server EXCEPT ![c].loops = "stop", ![c].receive = "read"]
    BY <1>1, <1>2, <2>1, <2>2, <2>3, ServerStepIsLocal
  <2>4. CASE server' = [server EXCEPT ![c].loops = "stop", ![c].look = "read"]
    BY <1>1, <1>2, <2>1, <2>2, <2>4, ServerStepIsLocal
  <2> QED
    BY <1>8, <2>3, <2>4 DEF Ssh!remoteLoginServerLoops
<1>9. CASE Ssh!waitForClientStopRequest(c)
  BY <1>1, <1>2, <1>9, ServerStepIsLocal DEF Ssh!waitForClientStopRequest
<1>10. CASE Ssh!runAsDestination(c)
  <2>1. /\ serverAlive /\ server[c].streams = "accept"
        /\ UNCHANGED <<client, net, telnet, listener>>
    BY <1>10 DEF Ssh!runAsDestination
  <2>2. CASE /\ net[c].request /\ server' = [server EXCEPT ![c].request = "listen"]
             /\ UNCHANGED serverAlive
    BY <1>1, <1>2, <2>1, <2>2, ServerStepIsLocal
  <2>3. CASE server' = [server EXCEPT ![c].streams = "done"] /\ UNCHANGED serverAlive
    BY <1>1, <1>2, <2>1, <2>3, ServerStepIsLocal
  <2>4. CASE net[c].seen = "error" /\ UNCHANGED server
    BY <1>1, <1>2, <2>1, <2>4, ServerStepIsLocal DEF Culprit
  <2> QED
    BY <1>10, <2>2, <2>3, <2>4 DEF Ssh!runAsDestination
<1>11. CASE Ssh!acceptLocalConnection_listen(c)
  <2>1. /\ serverAlive /\ server[c].request = "listen"
        /\ UNCHANGED <<client, net, telnet, serverAlive>>
    BY <1>11 DEF Ssh!acceptLocalConnection_listen
  <2>2. CASE server' = [server EXCEPT ![c].request = "done"] /\ UNCHANGED listener
    BY <1>1, <1>2, <2>1, <2>2, ServerStepIsLocal
  <2>3. CASE /\ server' = [server EXCEPT ![c].request = "register"]
             /\ listener' = [listener EXCEPT ![c].state = "open"]
    BY <1>1, <1>2, <2>1, <2>3, ServerStepIsLocal
  <2> QED
    BY <1>11, <2>2, <2>3 DEF Ssh!acceptLocalConnection_listen
<1>12. CASE Ssh!acceptLocalConnection_append(c)
  BY <1>1, <1>2, <1>12, ServerStepIsLocal DEF Ssh!acceptLocalConnection_append
<1>13. CASE Ssh!acceptLocalConnection_register(c)
  BY <1>1, <1>2, <1>13, ServerStepIsLocal DEF Ssh!acceptLocalConnection_register
<1>14. CASE Ssh!runAsSource_ends(c)
  BY <1>1, <1>2, <1>14, ServerStepIsLocal DEF Ssh!runAsSource_ends
<1>15. CASE Ssh!listActiveListeners_fault(c)
  <2>1. /\ server[c].request \in {"register", "assign"}
        /\ server[c].main \in {"stopListener", "assign"}
        /\ serverAlive /\ UNCHANGED <<client, net, server, telnet, listener>>
    BY <1>15 DEF Ssh!listActiveListeners_fault
  <2>2. Culprit(c)
    BY <1>2, <2>1 DEF Culprit, Ssh!MetInTheMap
  <2> QED
    BY <1>2, <2>1, <2>2, ServerStepIsLocal DEF Culprit, Ssh!MetInTheMap
<1> QED
  BY <1>3, <1>4, <1>5, <1>6, <1>7, <1>8, <1>9, <1>10, <1>11, <1>12, <1>13, <1>14, <1>15
     DEF Ssh!RemoteLogin, Ssh!RemoteForwarding

\* Every step preserves the invariant.
LEMMA CauseInvStep == SshInv /\ CauseInv /\ [Ssh!Next]_(Ssh!vars) => CauseInv'
<1> SUFFICES ASSUME SshInv, CauseInv, [Ssh!Next]_(Ssh!vars) PROVE CauseInv'
  OBVIOUS
<1>1. CASE UNCHANGED Ssh!vars
  BY <1>1, OutsideKeepsCause DEF Ssh!vars
<1>2. CASE Ssh!Next
  BY <1>2, OutsideCause, ServerMainCause, GoroutineCause DEF Ssh!Next
<1> QED
  BY <1>1, <1>2

\* The server process is ended for the others by a client that forwards ports,
\* and one that has been admitted and only logs in cannot end it: whoever finds
\* another goroutine in listActiveListeners is there because the session, or
\* telnet, ended before the listener was registered.
THEOREM CrashHasItsCause == Ssh!Spec => []CrashNeedsForwarding
<1>1. CauseInv => CrashNeedsForwarding
  BY DEF CrashNeedsForwarding, CauseInv
<1> QED
  BY <1>1, SshInvInit, SshInvStep, CauseInvInit, CauseInvStep, PTL DEF Ssh!Spec
=============================================================================

------------------------- MODULE ForwardingSession -------------------------
(***************************************************************************)
(* The connections that one session of quic_ssh forwards, and the streams  *)
(* they use (port_forwarding.go, streams_map_legacy.go).                   *)
(*                                                                         *)
(* The client forwards a local port: runAsSource opens a stream for each   *)
(* TCP connection, and the server accepts the streams in runAsDestination. *)
(* An endpoint forgets a stream when it has sent and read the end of it.   *)
(* The client counts the streams it has open and waits at its limit; the   *)
(* server tolerates a few more before it closes the session.               *)
(*                                                                         *)
(* Streams are numbered in the order in which they are opened.  The data   *)
(* of a connection is that of module Forwarding; here only ends matter.    *)
(***************************************************************************)
EXTENDS Integers, FiniteSets

CONSTANTS MaxConns,     \* bound of the model: connections to the local port
          MaxOutgoing,  \* maxOutgoingStreams of the client
          MaxIncoming,  \* maxIncomingStreams of the server
          DialFails,    \* whether net.Dial may fail
          TCPFails      \* whether a write to a TCP connection may fail

ASSUME ForwardingSessionAssumption ==
  /\ MaxConns \in Nat
  /\ MaxOutgoing \in Nat \ {0}
  /\ MaxIncoming \in Nat /\ MaxIncoming >= MaxOutgoing
  /\ DialFails \in BOOLEAN
  /\ TCPFails \in BOOLEAN

Stream == 1..MaxConns
Side == {"client", "server"}
Peer(e) == IF e = "client" THEN "server" ELSE "client"

VARIABLES arrived,    \* TCP connections accepted on the local port
          opened,     \* streams the client has opened
          source,     \* the goroutine of runAsSource, per stream
          control,    \* the streams whose control message is written
          highest,    \* highestStreamOpenedByPeer at the server
          accepted,   \* streams returned by AcceptStream
          acceptor,   \* whether the loop of runAsDestination is running
          dest,       \* the goroutine of runAsDestination, per stream
          streams,    \* the streams each endpoint has in its map
          t2q, q2t,   \* readTCPSendQUIC and readQuicSendTCP, per stream
          fin,        \* the streams whose end each endpoint has sent
          finRead,    \* the streams whose end each endpoint has read
          closeErr,   \* why the session has ended, per endpoint
          alive       \* the server process

openVars == <<arrived, opened, source, control>>
acceptVars == <<highest, accepted, acceptor, dest>>
streamVars == <<streams, fin, finRead>>
pumpVars == <<t2q, q2t>>
vars == <<openVars, acceptVars, streamVars, pumpVars, closeErr, alive>>

Up(e) == closeErr[e] = "none" /\ (e = "server" => alive)
-----------------------------------------------------------------------------
Init == /\ arrived = 0 /\ opened = 0
        /\ source = [s \in Stream |-> "none"]
        /\ control = {}
        /\ highest = 0 /\ accepted = 0 /\ acceptor = TRUE
        /\ dest = [s \in Stream |-> "none"]
        /\ streams = [e \in Side |-> {}]
        /\ t2q = [e \in Side |-> [s \in Stream |-> "off"]]
        /\ q2t = [e \in Side |-> [s \in Stream |-> "off"]]
        /\ fin = [e \in Side |-> {}] /\ finRead = [e \in Side |-> {}]
        /\ closeErr = [e \in Side |-> "none"]
        /\ alive = TRUE

StartPumps(e, s) == /\ t2q' = [t2q EXCEPT ![e][s] = "run"]
                    /\ q2t' = [q2t EXCEPT ![e][s] = "run"]

\* The end of the stream is sent: with the end of the peer read, DeleteStream.
SendFin(e, s) ==
  /\ fin' = [fin EXCEPT ![e] = @ \cup {s}]
  /\ streams' = [streams EXCEPT ![e] = IF s \in finRead[e] THEN @ \ {s} ELSE @]
  /\ UNCHANGED finRead

\* Variant for mutation: a stream whose end is read last is not deleted.
ReadFin_keeps(e, s) ==
  /\ s \in fin[Peer(e)]
  /\ finRead' = [finRead EXCEPT ![e] = @ \cup {s}]
  /\ UNCHANGED <<streams, fin>>

\* The end of the stream is read, the other way round.
ReadFin(e, s) ==
  /\ s \in fin[Peer(e)]
  /\ finRead' = [finRead EXCEPT ![e] = @ \cup {s}]
  /\ streams' = [streams EXCEPT ![e] = IF s \in fin[e] THEN @ \ {s} ELSE @]
  /\ UNCHANGED fin
-----------------------------------------------------------------------------
(* The client: runAsSource *)

TCPListener_Accept ==
  /\ Up("client") /\ arrived < MaxConns
  /\ arrived' = arrived + 1
  /\ UNCHANGED <<opened, source, control, acceptVars, streamVars, pumpVars, closeErr, alive>>

\* One of the goroutines waiting for a stream gets one.
OpenStreamSync ==
  /\ Up("client") /\ opened < arrived
  /\ Cardinality(streams["client"]) < MaxOutgoing
  /\ opened' = opened + 1
  /\ source' = [source EXCEPT ![opened'] = "control"]
  /\ streams' = [streams EXCEPT !["client"] = @ \cup {opened'}]
  /\ UNCHANGED <<arrived, control, acceptVars, fin, finRead, pumpVars, closeErr, alive>>

OpenStreamSync_fails ==
  /\ ~Up("client") /\ opened < arrived
  /\ arrived' = arrived - 1
  /\ UNCHANGED <<opened, source, control, acceptVars, streamVars, pumpVars, closeErr, alive>>

writeControlMessage(s) ==
  /\ source[s] = "control" /\ Up("client")
  /\ source' = [source EXCEPT ![s] = "pumps"]
  /\ control' = control \cup {s}
  /\ StartPumps("client", s)
  /\ UNCHANGED <<arrived, opened, acceptVars, streamVars, closeErr, alive>>

writeControlMessage_fails(s) ==
  /\ source[s] = "control" /\ ~Up("client")
  /\ source' = [source EXCEPT ![s] = "stopped"]
  /\ UNCHANGED <<arrived, opened, control, acceptVars, streamVars, pumpVars, closeErr, alive>>

runAsSource == OpenStreamSync \/ OpenStreamSync_fails
runAsSource_flow(s) == writeControlMessage(s) \/ writeControlMessage_fails(s)
-----------------------------------------------------------------------------
(* The server: the session, and runAsDestination *)

\* Variant for mutation: only the stream of the frame is opened.
getOrOpenStream_gap(s) ==
  /\ Up("server") /\ s \in control /\ s > highest
  /\ Cardinality(streams["server"]) < MaxIncoming
  /\ streams' = [streams EXCEPT !["server"] = @ \cup {s}]
  /\ highest' = s
  /\ UNCHANGED <<openVars, accepted, acceptor, dest, fin, finRead, pumpVars, closeErr, alive>>

\* The first frame of a stream opens it and those before it.
getOrOpenStream(s) ==
  /\ Up("server") /\ s \in control /\ s > highest
  /\ Cardinality(streams["server"]) + s - highest <= MaxIncoming
  /\ streams' = [streams EXCEPT !["server"] = @ \cup (highest + 1)..s]
  /\ highest' = s
  /\ UNCHANGED <<openVars, accepted, acceptor, dest, fin, finRead, pumpVars, closeErr, alive>>

\* Variant for mutation: the limit is tested as if it were one lower.
getOrOpenStream_fails_early(s) ==
  /\ Up("server") /\ s \in control /\ s > highest
  /\ \E last \in highest..(s - 1) :
       /\ Cardinality(streams["server"]) + last - highest = MaxIncoming - 1
       /\ streams' = [streams EXCEPT !["server"] = @ \cup (highest + 1)..last]
       /\ highest' = last
  /\ closeErr' = [closeErr EXCEPT !["server"] = "TooManyOpenStreams"]
  /\ UNCHANGED <<openVars, accepted, acceptor, dest, fin, finRead, pumpVars, alive>>

\* Too many: those up to the limit are opened, and the frame is an error that
\* closes the session.
getOrOpenStream_fails(s) ==
  /\ Up("server") /\ s \in control /\ s > highest
  /\ \E last \in highest..(s - 1) :
       /\ Cardinality(streams["server"]) + last - highest = MaxIncoming
       /\ streams' = [streams EXCEPT !["server"] = @ \cup (highest + 1)..last]
       /\ highest' = last
  /\ closeErr' = [closeErr EXCEPT !["server"] = "TooManyOpenStreams"]
  /\ UNCHANGED <<openVars, accepted, acceptor, dest, fin, finRead, pumpVars, alive>>

FirstFrame(s) == getOrOpenStream(s) \/ getOrOpenStream_fails(s)

AcceptStream ==
  /\ acceptor /\ Up("server")
  /\ accepted + 1 \in streams["server"]
  /\ accepted' = accepted + 1
  /\ dest' = [dest EXCEPT ![accepted'] = "control"]
  /\ UNCHANGED <<openVars, highest, acceptor, streamVars, pumpVars, closeErr, alive>>

AcceptStream_ends ==
  /\ acceptor /\ alive /\ closeErr["server"] = "PeerGoingAway"
  /\ acceptor' = FALSE
  /\ UNCHANGED <<openVars, highest, accepted, dest, streamVars, pumpVars, closeErr, alive>>

\* Any other error is reported, and the goroutine started all the same: it
\* reads its control message from a nil stream, which ends the process.
AcceptStream_fails ==
  /\ acceptor /\ alive /\ closeErr["server"] \notin {"none", "PeerGoingAway"}
  /\ alive' = FALSE
  /\ UNCHANGED <<openVars, acceptVars, streamVars, pumpVars, closeErr>>

readControlMessage(s) ==
  /\ dest[s] = "control" /\ Up("server") /\ s \in control
  /\ dest' = [dest EXCEPT ![s] = "dial"]
  /\ UNCHANGED <<openVars, highest, accepted, acceptor, streamVars, pumpVars, closeErr, alive>>

readControlMessage_fails(s) ==
  /\ dest[s] = "control" /\ alive /\ ~Up("server")
  /\ dest' = [dest EXCEPT ![s] = "stopped"]
  /\ UNCHANGED <<openVars, highest, accepted, acceptor, streamVars, pumpVars, closeErr, alive>>

Dial(s) ==
  /\ dest[s] = "dial" /\ alive
  /\ dest' = [dest EXCEPT ![s] = "pumps"]
  /\ StartPumps("server", s)
  /\ UNCHANGED <<openVars, highest, accepted, acceptor, streamVars, closeErr, alive>>

\* The stream is closed; nobody reads what the client sends on it.
Dial_fails(s) ==
  /\ DialFails
  /\ dest[s] = "dial" /\ alive
  /\ dest' = [dest EXCEPT ![s] = "stopped"]
  /\ IF Up("server") THEN SendFin("server", s) ELSE UNCHANGED streamVars
  /\ UNCHANGED <<openVars, highest, accepted, acceptor, pumpVars, closeErr, alive>>

runAsDestination == AcceptStream \/ AcceptStream_ends \/ AcceptStream_fails
runAsDestination_flow(s) == \/ readControlMessage(s) \/ readControlMessage_fails(s)
                            \/ Dial(s) \/ Dial_fails(s)
-----------------------------------------------------------------------------
(* The pumps: their ends *)

Running(e) == e = "server" => alive

\* Variant for mutation: the stream is not closed.
readTCPSendQUIC_open(e, s) ==
  /\ t2q[e][s] = "run" /\ Running(e)
  /\ t2q' = [t2q EXCEPT ![e][s] = "done"]
  /\ UNCHANGED <<openVars, acceptVars, streamVars, q2t, closeErr, alive>>

\* Read or Write fails, because the application has ended, the other pump has
\* closed the connection, or the session has ended: Close.
readTCPSendQUIC(e, s) ==
  /\ t2q[e][s] = "run" /\ Running(e)
  /\ t2q' = [t2q EXCEPT ![e][s] = "done"]
  /\ IF Up(e) THEN SendFin(e, s) ELSE UNCHANGED streamVars
  /\ UNCHANGED <<openVars, acceptVars, q2t, closeErr, alive>>

\* Read returns io.EOF, or the error of the session.
readQuicSendTCP(e, s) ==
  /\ q2t[e][s] = "run" /\ Running(e)
  /\ q2t' = [q2t EXCEPT ![e][s] = "done"]
  /\ IF Up(e) THEN ReadFin(e, s) ELSE UNCHANGED streamVars
  /\ UNCHANGED <<openVars, acceptVars, t2q, closeErr, alive>>

\* Write fails: the rest of the stream is never read.
readQuicSendTCP_writeFails(e, s) ==
  /\ TCPFails
  /\ q2t[e][s] = "run" /\ Running(e)
  /\ q2t' = [q2t EXCEPT ![e][s] = "done"]
  /\ UNCHANGED <<openVars, acceptVars, streamVars, t2q, closeErr, alive>>

Pump(e, s) == \/ readTCPSendQUIC(e, s)
              \/ readQuicSendTCP(e, s)
              \/ readQuicSendTCP_writeFails(e, s)
-----------------------------------------------------------------------------
(* The session ends: by the client, or for an endpoint that has learnt that
   the other has ended it. *)
Close == /\ Up("client")
         /\ closeErr' = [closeErr EXCEPT !["client"] = "PeerGoingAway"]
         /\ UNCHANGED <<openVars, acceptVars, streamVars, pumpVars, alive>>

closeRemote(e) ==
  /\ Up(e) /\ closeErr[Peer(e)] # "none"
  /\ closeErr' = [closeErr EXCEPT ![e] = closeErr[Peer(e)]]
  /\ UNCHANGED <<openVars, acceptVars, streamVars, pumpVars, alive>>

Next ==
  \/ TCPListener_Accept
  \/ runAsSource
  \/ runAsDestination
  \/ \E s \in Stream :
       \/ runAsSource_flow(s)
       \/ FirstFrame(s)
       \/ runAsDestination_flow(s)
       \/ \E e \in Side : Pump(e, s)
  \/ Close
  \/ \E e \in Side : closeRemote(e)

Spec == Init /\ [][Next]_vars

\* The goroutines go on, frames arrive, and the applications come to an end.
\* readTCPSendQUIC notices that only while the peer reads the stream: else it
\* may be waiting in Write.
FairSpec ==
  /\ Spec
  /\ WF_vars(runAsSource) /\ WF_vars(runAsDestination)
  /\ \A s \in Stream :
       /\ WF_vars(runAsSource_flow(s)) /\ WF_vars(FirstFrame(s))
       /\ WF_vars(runAsDestination_flow(s))
       /\ \A e \in Side : /\ WF_vars(/\ readTCPSendQUIC(e, s)
                                     /\ q2t[Peer(e)][s] = "run" \/ ~Up(e))
                          /\ WF_vars(readQuicSendTCP(e, s))
  /\ \A e \in Side : WF_vars(closeRemote(e))
-----------------------------------------------------------------------------
(* What holds of it.                                                       *)

\* The type of the variables, with the limits of the two maps.
TypeOK ==
  /\ arrived \in 0..MaxConns /\ opened \in 0..arrived
  /\ source \in [Stream -> {"none", "control", "pumps", "stopped"}]
  /\ control \subseteq Stream
  /\ highest \in 0..opened /\ accepted \in 0..highest /\ acceptor \in BOOLEAN
  /\ dest \in [Stream -> {"none", "control", "dial", "pumps", "stopped"}]
  /\ streams \in [Side -> SUBSET Stream]
  /\ Cardinality(streams["client"]) <= MaxOutgoing
  /\ Cardinality(streams["server"]) <= MaxIncoming
  /\ t2q \in [Side -> [Stream -> {"off", "run", "done"}]]
  /\ q2t \in [Side -> [Stream -> {"off", "run", "done"}]]
  /\ fin \in [Side -> SUBSET Stream] /\ finRead \in [Side -> SUBSET Stream]
  /\ closeErr \in [Side -> {"none", "PeerGoingAway", "TooManyOpenStreams"}]
  /\ alive \in BOOLEAN

\* AcceptStream never waits for a stream that has come and gone: what it
\* returns next is in the map as soon as a later stream is (the loop of
\* getOrOpenStream, against DeleteStream).
NextToAcceptIsThere == (accepted + 1)..highest \subseteq streams["server"]

\* The session is closed for too many streams only when the server keeps more
\* streams that the client has given back than the tolerance of
\* newStreamsMapLegacy allows for: by those the limits agree about it is safe.
LimitNeedsLeftovers ==
  closeErr["server"] = "TooManyOpenStreams" =>
    Cardinality(streams["server"] \ streams["client"]) > MaxIncoming - MaxOutgoing

\* Such a leftover is a stream whose end the client has sent and the server
\* has not read: an endpoint forgets every stream that has ended both ways
\* (checkIfCompleted, whichever of the two halves is the last).
LeftoversAreUnread ==
  Up("server") =>
    streams["server"] \ streams["client"] \subseteq fin["client"] \ finRead["server"]

\* Nobody at endpoint e reads stream s any more, and its end has not been read.
Abandoned(e, s) ==
  /\ s \notin finRead[e]
  /\ q2t[e][s] = "done" \/ (e = "server" /\ dest[s] = "stopped")

\* A connection that waits in OpenStreamSync gets a stream, unless the session
\* ends or every stream of the client has been abandoned by an endpoint: a
\* session without failures of that kind serves every connection.
WaitingIsServed ==
  \A n \in Stream :
    arrived >= n ~> \/ opened >= n
                    \/ closeErr["client"] # "none"
                    \/ /\ Cardinality(streams["client"]) = MaxOutgoing
                       /\ \A s \in streams["client"] : \E e \in Side : Abandoned(e, s)

\* "if error appear on server side, stop the port forwarding without crashing
\* the server" (port_forwarding.go, line 174).
ServerSurvives == alive
=============================================================================

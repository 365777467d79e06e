----------------------------- MODULE VpnServer -----------------------------
(***************************************************************************)
(* A VPN server and its clients (quic_vpn/server.go, client.go).           *)
(*                                                                         *)
(* Each session begins with its control stream and, by the two Check_key   *)
(* settings, the exchange of keys, of which this module keeps the outcomes *)
(* (module ClientAuth).  The server then starts a Transmitter (module      *)
(* Transmitter) for the session.  All of them read packets from the one    *)
(* tun interface of the server, whichever client a packet is for; one      *)
(* whose session has ended reads on until a packet of a new flow.          *)
(*                                                                         *)
(* Of a Transmitter this is what decides which packets it takes and loses: *)
(* the queue, which may stop for ever (module PacketScheduler), the        *)
(* streams of the flows, which are closed after a time without packets,    *)
(* and the first error of its goroutines, which ends Handle only.          *)
(***************************************************************************)
EXTENDS Naturals, FiniteSets

CONSTANTS Host,       \* the clients; a packet for a host is of one flow
          Session,    \* the sessions the clients open, one after the other
          MaxPackets  \* bound of the model: packets, per host

VARIABLES hostOf,        \* the client of each session
          serves, asks,  \* Server.Check_key at the clients, Client.Check_key
                         \* at the server
          client,        \* per session: where ClientInstance.Run is
          handle,        \* per session: where connectedClient.Handle is
          up,            \* per session
          frames,        \* streams on which client frames have come
          tun,           \* packets waiting at the server's interface, per host
          arrived,       \* history: how many there have been, per host
          flow,          \* the flow of a host in the two maps of a session
          queue,         \* packets in toSendQueue, per session and host
          reading,       \* ListenTun, per session: "off", "on" or "failed"
          collected,     \* history: the flows closed once, per session
          got,           \* history: how many were sent to their host
          alive          \* the server process

startVars == <<hostOf, serves, asks, client, handle, up, frames>>
flowVars == <<flow, queue, reading, collected>>
tunVars == <<tun, arrived, flowVars, got>>
vars == <<startVars, tunVars, alive>>

\* Without an entry; with a stream, which CollectUnused then closes; or with an
\* entry in mapInteraction and no stream.
FlowState == {"none", "open", "closing", "orphan"}

Init == /\ hostOf \in [Session -> Host]
        /\ serves \in BOOLEAN /\ asks \in BOOLEAN
        /\ client = [s \in Session |-> "dial"]
        /\ handle = [s \in Session |-> "none"]
        /\ up = [s \in Session |-> FALSE]
        /\ frames = [s \in Session |-> FALSE]
        /\ tun = [h \in Host |-> 0] /\ arrived = [h \in Host |-> 0]
        /\ flow = [s \in Session |-> [h \in Host |-> "none"]]
        /\ queue = [s \in Session |-> [h \in Host |-> 0]]
        /\ reading = [s \in Session |-> "off"]
        /\ collected = [s \in Session |-> {}]
        /\ got = [h \in Host |-> 0]
        /\ alive = TRUE
-----------------------------------------------------------------------------
(* The client. *)

\* Mutant: ServeClientPublicKey sends no byte of its own.
Client_dial_noDummy(s) ==
  /\ alive /\ client[s] = "dial"
  /\ \A t \in Session \ {s} : hostOf[t] = hostOf[s] => client[t] \notin {"serve", "run"}
  /\ client' = [client EXCEPT ![s] = IF serves THEN "serve" ELSE "run"]
  /\ handle' = [handle EXCEPT ![s] = "control"]
  /\ up' = [up EXCEPT ![s] = TRUE]
  /\ UNCHANGED <<hostOf, serves, asks, frames, tunVars, alive>>

\* dial and openControlStream, which sends nothing, but ServeClientPublicKey
\* begins with a byte.  A client has one process.
Client_dial(s) ==
  /\ alive /\ client[s] = "dial"
  /\ \A t \in Session \ {s} : hostOf[t] = hostOf[s] => client[t] \notin {"serve", "run"}
  /\ client' = [client EXCEPT ![s] = IF serves THEN "serve" ELSE "run"]
  /\ handle' = [handle EXCEPT ![s] = "control"]
  /\ up' = [up EXCEPT ![s] = TRUE]
  /\ frames' = [frames EXCEPT ![s] = serves]
  /\ UNCHANGED <<hostOf, serves, asks, tunVars, alive>>

\* authenticateServer: ServeClientPublicKey returns when the server has taken
\* part, or with the session; its error is ignored.
authenticateServer(s) ==
  /\ client[s] = "serve"
  /\ handle[s] \in {"verify", "garbled"} \/ ~up[s]
  /\ client' = [client EXCEPT ![s] = "run"]
  /\ UNCHANGED <<hostOf, serves, asks, handle, up, frames, tunVars, alive>>

\* The Transmitter of the client sends a packet on a stream of its own.
Client_sends(s) ==
  /\ client[s] = "run" /\ up[s]
  /\ frames' = [frames EXCEPT ![s] = TRUE]
  /\ UNCHANGED <<hostOf, serves, asks, client, handle, up, tunVars, alive>>

\* WaitOutput returns, or the process is stopped.
Client_ends(s) ==
  /\ client[s] \in {"serve", "run"}
  /\ client' = [client EXCEPT ![s] = IF @ = "run" THEN "gone" ELSE "killed"]
  /\ UNCHANGED <<hostOf, serves, asks, handle, up, frames, tunVars, alive>>
-----------------------------------------------------------------------------
(* The session, and connectedClient.Handle. *)

Session_ends(s) ==
  /\ up[s] /\ up' = [up EXCEPT ![s] = FALSE]
  /\ UNCHANGED <<hostOf, serves, asks, client, handle, frames, tunVars, alive>>
Session_follows(s) == (client[s] \in {"gone", "killed"} \/ ~alive) /\ Session_ends(s)

\* AcceptStream returns the control stream once a frame of it, or of a later
\* stream, has come.
waitControlStream(s) ==
  /\ alive /\ handle[s] = "control"
  /\ \/ /\ frames[s]
        /\ handle' = [handle EXCEPT ![s] = IF asks THEN "ask" ELSE "start"]
     \/ /\ ~up[s]
        /\ handle' = [handle EXCEPT ![s] = "gone"]
  /\ UNCHANGED <<hostOf, serves, asks, client, up, frames, tunVars, alive>>

\* AskClientPublicKey goes on with a client that serves its key ...
checkAuthenticity_ask(s) ==
  /\ alive /\ handle[s] = "ask" /\ serves /\ up[s]
  /\ handle' = [handle EXCEPT ![s] = "verify"]
  /\ UNCHANGED <<hostOf, serves, asks, client, up, frames, tunVars, alive>>

\* ... and has it, or closes the session.
checkAuthenticity_verify(s) ==
  /\ alive /\ handle[s] = "verify" /\ up[s] /\ client[s] \in {"run", "gone"}
  /\ \/ /\ handle' = [handle EXCEPT ![s] = "start"]
        /\ UNCHANGED up
     \/ /\ handle' = [handle EXCEPT ![s] = "gone"]
        /\ up' = [up EXCEPT ![s] = FALSE]
  /\ UNCHANGED <<hostOf, serves, asks, client, frames, tunVars, alive>>

\* Mutant: a key that is refused is compared as nil.
checkAuthenticity_noKey_refused(s) ==
  /\ alive /\ handle[s] \in {"ask", "verify", "garbled"}
  /\ alive' = FALSE
  /\ UNCHANGED <<startVars, tunVars>>

\* It returns (nil, err) for a session that has ended, and ComparePublicKeys
\* of a nil key ends the process.
checkAuthenticity_noKey(s) ==
  /\ alive /\ handle[s] \in {"ask", "verify", "garbled"} /\ ~up[s]
  /\ alive' = FALSE
  /\ UNCHANGED <<startVars, tunVars>>

\* A readN of the answer comes short: decodeInt panics, or the fields that follow
\* are read out of step ...
checkAuthenticity_short(s) ==
  /\ alive /\ handle[s] = "verify" /\ up[s]
  /\ handle' = [handle EXCEPT ![s] = "garbled"]
  /\ alive' \in BOOLEAN
  /\ UNCHANGED <<hostOf, serves, asks, client, up, frames, tunVars>>

\* ... until decodeInt panics or no key can be decoded and the nil key is
\* compared; or a readN waits for what the client has no more to send.
checkAuthenticity_garbled(s) ==
  /\ alive /\ handle[s] = "garbled"
  /\ alive' = FALSE
  /\ UNCHANGED <<startVars, tunVars>>

\* NewTransmitter
Handle_start(s) ==
  /\ alive /\ handle[s] = "start"
  /\ handle' = [handle EXCEPT ![s] = "run"]
  /\ reading' = [reading EXCEPT ![s] = "on"]
  /\ UNCHANGED <<hostOf, serves, asks, client, up, frames, tun, arrived, flow, queue,
                 collected, got, alive>>

\* WaitOutput returns the first error: of ListenNet after the end of the session,
\* of ListenTun, or of CollectUnused, which finds a flow without a stream.  The
\* session is not closed, and the goroutines stay.
WaitOutput(s) ==
  /\ alive /\ handle[s] = "run"
  /\ ~up[s] \/ reading[s] = "failed" \/ \E h \in Host : flow[s][h] = "orphan"
  /\ handle' = [handle EXCEPT ![s] = "gone"]
  /\ UNCHANGED <<hostOf, serves, asks, client, up, frames, tunVars, alive>>

Handle(s) ==
  \/ waitControlStream(s) \/ checkAuthenticity_ask(s) \/ checkAuthenticity_verify(s)
  \/ checkAuthenticity_noKey(s) \/ checkAuthenticity_short(s) \/ Handle_start(s) \/ WaitOutput(s)
-----------------------------------------------------------------------------
(* The tun interface. *)

Packet_arrives(h) ==
  /\ arrived[h] < MaxPackets[h]
  /\ arrived' = [arrived EXCEPT ![h] = @ + 1]
  /\ tun' = [tun EXCEPT ![h] = @ + 1]
  /\ UNCHANGED <<startVars, flowVars, got, alive>>

\* Mutant: the packet that opens a stream is not sent.
ListenTun_first(s, h) ==
  /\ alive /\ reading[s] = "on" /\ tun[h] > 0
  /\ tun' = [tun EXCEPT ![h] = @ - 1]
  /\ \/ /\ flow[s][h] = "none" /\ up[s]
        /\ flow' = [flow EXCEPT ![s][h] = "open"]
        /\ UNCHANGED queue
     \/ /\ flow[s][h] # "none"
        /\ queue' = [queue EXCEPT ![s][h] = @ + 1]
        /\ flow' = [flow EXCEPT ![s][h] = @]
  /\ UNCHANGED <<startVars, arrived, reading, collected, got, alive>>

\* ListenTun of s reads a packet for h and puts it in the queue.  For a new flow
\* it opens a stream; a flow it has found may be gone when it stores the time.
ListenTun(s, h) ==
  /\ alive /\ reading[s] = "on" /\ tun[h] > 0
  /\ tun' = [tun EXCEPT ![h] = @ - 1]
  /\ queue' = [queue EXCEPT ![s][h] = @ + 1]
  /\ \/ /\ flow[s][h] = "none" /\ up[s]
        /\ flow' = [flow EXCEPT ![s][h] = "open"]
     \/ /\ flow[s][h] # "none"
        /\ \E f \in {flow[s][h]} \cup (IF flow[s][h] = "closing" THEN {"orphan"} ELSE {}) :
             flow' = [flow EXCEPT ![s][h] = f]
  /\ UNCHANGED <<startVars, arrived, reading, collected, got, alive>>

\* Or it fails for good: by Read, or with the packet lost by FindFlow, if that is
\* too short, or by OpenStream, which fails after the end of the session and at
\* the limit of streams.
ListenTun_fails(s) ==
  /\ alive /\ reading[s] = "on"
  /\ reading' = [reading EXCEPT ![s] = "failed"]
  /\ \/ UNCHANGED tun
     \/ \E h \in Host : tun[h] > 0 /\ tun' = [tun EXCEPT ![h] = @ - 1]
  /\ UNCHANGED <<startVars, arrived, flow, queue, collected, got, alive>>

\* SchedulePackets takes a packet from the queue.  Without an open stream, or
\* after the end of the session, sendPacket drops it.
sendPacket(s, h) ==
  /\ alive /\ queue[s][h] > 0
  /\ queue' = [queue EXCEPT ![s][h] = @ - 1]
  /\ got' = IF flow[s][h] = "open" /\ up[s] /\ hostOf[s] = h /\ client[s] = "run"
            THEN [got EXCEPT ![h] = @ + 1] ELSE got
  /\ UNCHANGED <<startVars, tun, arrived, flow, reading, collected, alive>>

\* CollectUnused closes the stream of a flow; when the peer has closed it too it
\* deletes the entries.
CollectUnused(s, h) ==
  /\ alive
  /\ \/ /\ flow[s][h] = "open"
        /\ flow' = [flow EXCEPT ![s][h] = "closing"]
        /\ collected' = [collected EXCEPT ![s] = @ \cup {h}]
     \/ /\ flow[s][h] = "closing"
        /\ flow' = [flow EXCEPT ![s][h] = "none"]
        /\ UNCHANGED collected
  /\ UNCHANGED <<startVars, tun, arrived, queue, reading, got, alive>>

Transmitter(s, h) == \/ ListenTun(s, h) \/ ListenTun_fails(s) \/ sendPacket(s, h)
                     \/ CollectUnused(s, h)

Next ==
  \/ \E s \in Session :
       \/ Client_dial(s) \/ authenticateServer(s) \/ Client_sends(s) \/ Client_ends(s)
       \/ Session_ends(s) \/ Handle(s) \/ checkAuthenticity_garbled(s)
       \/ \E h \in Host : Transmitter(s, h)
  \/ \E h \in Host : Packet_arrives(h)

Spec == Init /\ [][Next]_vars

\* Every goroutine of the start that can go on does; that of an answer out of
\* step may not.  A Transmitter may stop: its queue may be full.
FairSpec ==
  /\ Spec
  /\ \A s \in Session : /\ WF_vars(authenticateServer(s))
                        /\ WF_vars(Session_follows(s))
                        /\ WF_vars(Handle(s))
-----------------------------------------------------------------------------
(* What holds of it.                                                       *)

\* The type of the variables.
TypeOK ==
  /\ hostOf \in [Session -> Host]
  /\ serves \in BOOLEAN /\ asks \in BOOLEAN /\ alive \in BOOLEAN
  /\ client \in [Session -> {"dial", "serve", "run", "gone", "killed"}]
  /\ handle \in [Session -> {"none", "control", "ask", "verify", "start", "run", "gone", "garbled"}]
  /\ up \in [Session -> BOOLEAN] /\ frames \in [Session -> BOOLEAN]
  /\ flow \in [Session -> [Host -> FlowState]]
  /\ queue \in [Session -> [Host -> Nat]]
  /\ reading \in [Session -> {"off", "on", "failed"}]
  /\ collected \in [Session -> SUBSET Host]
  /\ tun \in [Host -> Nat] /\ arrived \in [Host -> Nat] /\ got \in [Host -> Nat]
  /\ \A h \in Host : arrived[h] <= MaxPackets[h]

\* A client ends the server for all of them (checkAuthenticity) only by leaving
\* while its key is asked for, or by an answer that comes in pieces.
CrashNeedsLeave ==
  ~alive => \E s \in Session : \/ ~up[s] /\ handle[s] \in {"ask", "verify"}
                               \/ handle[s] = "garbled"

\* With different Check_key settings a tunnel never carries packets both ways:
\* one end waits in the exchange for what the other does not send.
MismatchStalls ==
  \A s \in Session :
    serves # asks /\ up[s] => ~(client[s] = "run" /\ handle[s] = "run")

\* What the exchange of keys of one session may do to the server and to it.
ExchangeOutcome == CrashNeedsLeave /\ MismatchStalls

\* The first session to reach its Transmitter loses a packet for its client, while
\* it lasts, only through the ListenTun of another session (of another client, or
\* an earlier one), by an error of its own ListenTun, or after the stream of the
\* flow has been closed for want of packets.
SoleSessionKeepsPackets ==
  \A s \in Session :
    LET h == hostOf[s] IN
    /\ up[s] /\ client[s] = "run"
    /\ \A t \in Session \ {s} : handle[t] \notin {"run", "gone"}
    /\ reading[s] # "failed" /\ h \notin collected[s]
    => arrived[h] = tun[h] + queue[s][h] + got[h]

\* A client that serves its key, or sends, gets its Transmitter at the server, when
\* the ends agree, unless its answer came in pieces or the session or the server
\* ends: with the session up, Handle is only gone after that.
SenderIsServed ==
  \A s \in Session :
    serves = asks /\ (client[s] = "serve" \/ (client[s] = "run" /\ frames[s])) ~>
      handle[s] \in {"run", "gone", "garbled"} \/ ~up[s] \/ ~alive
=============================================================================

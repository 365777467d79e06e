----------------------------- MODULE Forwarding -----------------------------
(***************************************************************************)
(* One TCP connection forwarded by quic_ssh (port_forwarding.go).          *)
(*                                                                         *)
(* At the endpoint "src" the goroutine of runAsSource, which has accepted  *)
(* the connection, opens a QUIC stream and writes the control message.  At *)
(* "dst" that of runAsDestination accepts the stream, reads the control    *)
(* message and dials the destination.  Each endpoint then runs two         *)
(* goroutines, the pumps: readTCPSendQUIC (here T2Q) from its TCP          *)
(* connection to the stream, and readQuicSendTCP (Q2T) the other way.      *)
(*                                                                         *)
(* The payload is the numbers 1, 2, 3... in each direction, one per unit   *)
(* that a buffer holds.  TCP and the applications at its far ends are      *)
(* external: two bounded buffers, the ends the application can make, and   *)
(* resets.  The QUIC stream has one bounded channel per direction.         *)
(***************************************************************************)
EXTENDS Integers, Sequences

CONSTANTS MaxUnits,    \* bound of the model: units the application of each
                       \* endpoint sends
          BufSize,     \* sshConfig.bufSize
          TcpBuffer,   \* units a TCP connection holds in one direction
          Window,      \* units a direction of the stream holds
          Failures     \* whether the session may fail and applications abort

Endpoint == {"src", "dst"}
Peer(e) == IF e = "src" THEN "dst" ELSE "src"

ASSUME ForwardingAssumption ==
  /\ MaxUnits \in [Endpoint -> Nat]
  /\ BufSize \in Nat \ {0}
  /\ TcpBuffer \in Nat \ {0}
  /\ Window \in Nat \ {0}
  /\ Failures \in BOOLEAN

VARIABLES phase,         \* the goroutine that starts the pumps
          control,       \* the control message on the stream
          tpc, tbuf,     \* T2Q: where it is, what is left to write
          qpc, qbuf, qend,   \* Q2T: the same, and whether Read returned io.EOF
          conn,          \* TCPConnection at each endpoint
          app,           \* the application at its other end
          toPump, toApp, \* the TCP connection's two directions
          stream,        \* the QUIC stream: what each endpoint has written
          up,            \* the session, seen from each endpoint
          sent, got, sawEnd  \* history: units sent and received by each
                             \* application, and whether it read the end

t2qVars == <<tpc, tbuf>>
q2tVars == <<qpc, qbuf, qend>>
tcpVars == <<conn, app, toPump, toApp>>
histVars == <<sent, got, sawEnd>>
vars == <<phase, control, t2qVars, q2tVars, tcpVars, stream, up, histVars>>

Unit == 1..(IF MaxUnits["src"] >= MaxUnits["dst"]
            THEN MaxUnits["src"] ELSE MaxUnits["dst"])

Least(a, b) == IF a <= b THEN a ELSE b
Rest(s, k) == SubSeq(s, k + 1, Len(s))
-----------------------------------------------------------------------------
Init == /\ phase = [src |-> "open", dst |-> "accept"]
        /\ control = "none"
        /\ tpc = [e \in Endpoint |-> "off"] /\ tbuf = [e \in Endpoint |-> <<>>]
        /\ qpc = [e \in Endpoint |-> "off"] /\ qbuf = [e \in Endpoint |-> <<>>]
        /\ qend = [e \in Endpoint |-> FALSE]
        /\ conn = [src |-> "up", dst |-> "none"]
        /\ app = [e \in Endpoint |-> "open"]
        /\ toPump = [e \in Endpoint |-> <<>>]
        /\ toApp = [e \in Endpoint |-> <<>>]
        /\ stream = [e \in Endpoint |-> [data |-> <<>>, fin |-> FALSE,
                                         finRead |-> FALSE, cut |-> FALSE]]
        /\ up = [e \in Endpoint |-> TRUE]
        /\ sent = [e \in Endpoint |-> 0]
        /\ got = [e \in Endpoint |-> <<>>]
        /\ sawEnd = [e \in Endpoint |-> FALSE]
-----------------------------------------------------------------------------
(* The calls the goroutines make. *)

\* TCPConnection.Close: with unread data the peer is reset.
CloseTCP(e) ==
  conn' = [conn EXCEPT ![e] = IF @ # "up" THEN @
                                ELSE IF toPump[e] # <<>> THEN "reset" ELSE "closed"]

\* QUICStream.Close: on a session that has ended it has no effect.
CloseStream(e) ==
  stream' = [stream EXCEPT ![e].fin = @ \/ up[e]]

StartPumps(e) ==
  /\ phase' = [phase EXCEPT ![e] = "pumps"]
  /\ tpc' = [tpc EXCEPT ![e] = "read"]
  /\ qpc' = [qpc EXCEPT ![e] = "read"]
-----------------------------------------------------------------------------
(* runAsSource, from the connection accepted on. *)

runAsSource_open ==
  /\ phase["src"] = "open" /\ up["src"]
  /\ phase' = [phase EXCEPT !["src"] = "control"]
  /\ UNCHANGED <<control, t2qVars, q2tVars, tcpVars, stream, up, histVars>>

runAsSource_control ==
  /\ phase["src"] = "control" /\ up["src"]
  /\ control' = "sent"
  /\ StartPumps("src")
  /\ UNCHANGED <<tbuf, qbuf, qend, tcpVars, stream, up, histVars>>

\* OpenStreamSync or writeControlMessage returns an error.
runAsSource_fails ==
  /\ phase["src"] \in {"open", "control"} /\ ~up["src"]
  /\ CloseTCP("src")
  /\ phase' = [phase EXCEPT !["src"] = "stopped"]
  /\ UNCHANGED <<control, t2qVars, q2tVars, app, toPump, toApp, stream, up, histVars>>

runAsSource == runAsSource_open \/ runAsSource_control \/ runAsSource_fails
-----------------------------------------------------------------------------
(* runAsDestination, for one stream. *)

runAsDestination_accept ==
  /\ phase["dst"] = "accept" /\ up["dst"] /\ control = "sent"
  /\ phase' = [phase EXCEPT !["dst"] = "dial"]
  /\ UNCHANGED <<control, t2qVars, q2tVars, tcpVars, stream, up, histVars>>

\* AcceptStream or readControlMessage returns an error.
runAsDestination_fails ==
  /\ phase["dst"] = "accept" /\ ~up["dst"]
  /\ phase' = [phase EXCEPT !["dst"] = "stopped"]
  /\ UNCHANGED <<control, t2qVars, q2tVars, tcpVars, stream, up, histVars>>

runAsDestination_dial ==
  /\ phase["dst"] = "dial"
  /\ conn' = [conn EXCEPT !["dst"] = "up"]
  /\ StartPumps("dst")
  /\ UNCHANGED <<control, tbuf, qbuf, qend, app, toPump, toApp, stream, up, histVars>>

runAsDestination_dialFails ==
  /\ phase["dst"] = "dial"
  /\ CloseStream("dst")
  /\ phase' = [phase EXCEPT !["dst"] = "stopped"]
  /\ UNCHANGED <<control, t2qVars, q2tVars, tcpVars, up, histVars>>

runAsDestination ==
  \/ runAsDestination_accept
  \/ runAsDestination_fails
  \/ runAsDestination_dial
  \/ runAsDestination_dialFails
-----------------------------------------------------------------------------
(* readTCPSendQUIC *)

\* Read returns what there is, up to the size of the buffer.
readTCPSendQUIC_read(e) ==
  /\ tpc[e] = "read" /\ qpc[e] # "done"
  /\ \E k \in 1..Least(BufSize, Len(toPump[e])) :
       /\ tbuf' = [tbuf EXCEPT ![e] = SubSeq(toPump[e], 1, k)]
       /\ toPump' = [toPump EXCEPT ![e] = Rest(@, k)]
  /\ tpc' = [tpc EXCEPT ![e] = "write"]
  /\ UNCHANGED <<phase, control, q2tVars, conn, app, toApp, stream, up, histVars>>

\* Variant for mutation: the stream is not closed.
readTCPSendQUIC_end_open(e) ==
  /\ tpc[e] = "read"
  /\ conn[e] # "up" \/ (toPump[e] = <<>> /\ app[e] # "open")
  /\ tpc' = [tpc EXCEPT ![e] = "done"]
  /\ UNCHANGED <<phase, control, tbuf, q2tVars, tcpVars, stream, up, histVars>>

\* Read returns an error: the end of what the application sends, a reset, or
\* the connection closed by the other pump.
readTCPSendQUIC_end(e) ==
  /\ tpc[e] = "read"
  /\ conn[e] # "up" \/ (toPump[e] = <<>> /\ app[e] # "open")
  /\ CloseStream(e)
  /\ tpc' = [tpc EXCEPT ![e] = "done"]
  /\ UNCHANGED <<phase, control, tbuf, q2tVars, tcpVars, up, histVars>>

\* Write passes one unit to the session; after the last it returns.
readTCPSendQUIC_write(e) ==
  /\ tpc[e] = "write" /\ up[e]
  /\ Len(stream[e].data) < Window
  /\ stream' = [stream EXCEPT ![e].data = Append(@, Head(tbuf[e]))]
  /\ tbuf' = [tbuf EXCEPT ![e] = Tail(@)]
  /\ tpc' = [tpc EXCEPT ![e] = IF Len(tbuf[e]) = 1 THEN "read" ELSE "write"]
  /\ UNCHANGED <<phase, control, q2tVars, tcpVars, up, histVars>>

readTCPSendQUIC_writeFails(e) ==
  /\ tpc[e] = "write" /\ ~up[e]
  /\ CloseStream(e)
  /\ tbuf' = [tbuf EXCEPT ![e] = <<>>]
  /\ tpc' = [tpc EXCEPT ![e] = "done"]
  /\ UNCHANGED <<phase, control, q2tVars, tcpVars, up, histVars>>

readTCPSendQUIC(e) ==
  \/ readTCPSendQUIC_read(e)
  \/ readTCPSendQUIC_end(e)
  \/ readTCPSendQUIC_write(e)
  \/ readTCPSendQUIC_writeFails(e)
-----------------------------------------------------------------------------
(* readQuicSendTCP *)

\* Read returns k units, and io.EOF with the last of them if it has found the
\* end of the stream: in the same frame, or in one that was there too.
StreamRead(e, k, end) ==
  LET s == stream[Peer(e)] IN
  /\ k <= Least(BufSize, Len(s.data))
  /\ end => k = Len(s.data) /\ s.fin /\ ~s.cut /\ ~s.finRead
  /\ k > 0 \/ end
  /\ stream' = [stream EXCEPT ![Peer(e)].data = Rest(@, k),
                              ![Peer(e)].finRead = @ \/ end]

\* Variant for mutation: what Read returns with io.EOF is not written (n > 0 not tested).
readQuicSendTCP_read_eofDrops(e) ==
  /\ qpc[e] = "read" /\ up[e]
  /\ \E k \in 0..BufSize, end \in BOOLEAN :
       /\ StreamRead(e, k, end)
       /\ qbuf' = [qbuf EXCEPT ![e] = IF end THEN <<>>
                                      ELSE SubSeq(stream[Peer(e)].data, 1, k)]
       /\ qend' = [qend EXCEPT ![e] = end]
       /\ qpc' = [qpc EXCEPT ![e] = IF end THEN "close" ELSE "write"]
  /\ UNCHANGED <<phase, control, t2qVars, tcpVars, up, histVars>>

readQuicSendTCP_read(e) ==
  /\ qpc[e] = "read" /\ up[e]
  /\ \E k \in 0..BufSize, end \in BOOLEAN :
       /\ StreamRead(e, k, end)
       /\ qbuf' = [qbuf EXCEPT ![e] = SubSeq(stream[Peer(e)].data, 1, k)]
       /\ qend' = [qend EXCEPT ![e] = end]
       /\ qpc' = [qpc EXCEPT ![e] = IF k > 0 THEN "write" ELSE "close"]
  /\ UNCHANGED <<phase, control, t2qVars, tcpVars, up, histVars>>

\* Variant for mutation: any error but io.EOF is tried again.
readQuicSendTCP_readFails_again(e) ==
  /\ qpc[e] = "read" /\ ~up[e]
  /\ UNCHANGED vars

readQuicSendTCP_readFails(e) ==
  /\ qpc[e] = "read" /\ ~up[e]
  /\ qpc' = [qpc EXCEPT ![e] = "close"]
  /\ UNCHANGED <<phase, control, t2qVars, qbuf, qend, tcpVars, stream, up, histVars>>

\* Variant for mutation: the buffer is written again after a part of it has been.
readQuicSendTCP_write_again(e) ==
  /\ qpc[e] = "write" /\ conn[e] = "up"
  /\ app[e] # "closed" /\ Len(toApp[e]) < TcpBuffer
  /\ toApp' = [toApp EXCEPT ![e] = Append(@, Head(qbuf[e]))]
  /\ \/ UNCHANGED <<qbuf, qpc>>
     \/ /\ qbuf' = [qbuf EXCEPT ![e] = Tail(@)]
        /\ qpc' = [qpc EXCEPT ![e] = IF Len(qbuf[e]) > 1 THEN "write"
                                       ELSE IF qend[e] THEN "close" ELSE "read"]
  /\ UNCHANGED <<phase, control, t2qVars, qend, conn, app, toPump, stream, up, histVars>>

\* Write passes one unit to TCP.  An application that is gone answers with a
\* reset.
readQuicSendTCP_write(e) ==
  /\ qpc[e] = "write" /\ conn[e] = "up"
  /\ \/ /\ app[e] # "closed" /\ Len(toApp[e]) < TcpBuffer
        /\ toApp' = [toApp EXCEPT ![e] = Append(@, Head(qbuf[e]))]
        /\ UNCHANGED conn
     \/ /\ app[e] = "closed"
        /\ conn' = [conn EXCEPT ![e] = "reset"]
        /\ UNCHANGED toApp
  /\ qbuf' = [qbuf EXCEPT ![e] = Tail(@)]
  /\ qpc' = [qpc EXCEPT ![e] = IF Len(qbuf[e]) > 1 THEN "write"
                                 ELSE IF qend[e] THEN "close" ELSE "read"]
  /\ UNCHANGED <<phase, control, t2qVars, qend, app, toPump, stream, up, histVars>>

readQuicSendTCP_writeFails(e) ==
  /\ qpc[e] = "write" /\ conn[e] = "reset"
  /\ qbuf' = [qbuf EXCEPT ![e] = <<>>]
  /\ qpc' = [qpc EXCEPT ![e] = "close"]
  /\ UNCHANGED <<phase, control, t2qVars, qend, tcpVars, stream, up, histVars>>

readQuicSendTCP_close(e) ==
  /\ qpc[e] = "close"
  /\ CloseTCP(e)
  /\ qpc' = [qpc EXCEPT ![e] = "done"]
  /\ UNCHANGED <<phase, control, t2qVars, qbuf, qend, app, toPump, toApp, stream, up, histVars>>

readQuicSendTCP(e) ==
  \/ readQuicSendTCP_read(e)
  \/ readQuicSendTCP_readFails(e)
  \/ readQuicSendTCP_write(e)
  \/ readQuicSendTCP_writeFails(e)
  \/ readQuicSendTCP_close(e)
-----------------------------------------------------------------------------
(* The applications (external). *)

\* What is sent to a connection that has been closed is answered by a reset.
App_send(e) ==
  /\ app[e] = "open" /\ conn[e] \in {"up", "closed"}
  /\ sent[e] < MaxUnits[e] /\ Len(toPump[e]) < TcpBuffer
  /\ sent' = [sent EXCEPT ![e] = @ + 1]
  /\ IF conn[e] = "up"
     THEN /\ toPump' = [toPump EXCEPT ![e] = Append(@, sent[e] + 1)]
          /\ UNCHANGED conn
     ELSE /\ conn' = [conn EXCEPT ![e] = "reset"]
          /\ UNCHANGED toPump
  /\ UNCHANGED <<phase, control, t2qVars, q2tVars, app, toApp, stream, up, got, sawEnd>>

App_receive(e) ==
  /\ app[e] # "closed" /\ toApp[e] # <<>>
  /\ toApp' = [toApp EXCEPT ![e] = Tail(@)]
  /\ got' = [got EXCEPT ![e] = Append(@, Head(toApp[e]))]
  /\ UNCHANGED <<phase, control, t2qVars, q2tVars, conn, app, toPump, stream, up, sent, sawEnd>>

\* The application reads the orderly end of the connection.
App_end(e) ==
  /\ app[e] # "closed" /\ toApp[e] = <<>> /\ conn[e] = "closed" /\ ~sawEnd[e]
  /\ sawEnd' = [sawEnd EXCEPT ![e] = TRUE]
  /\ UNCHANGED <<phase, control, t2qVars, q2tVars, tcpVars, stream, up, sent, got>>

\* shutdown(SHUT_WR): it goes on receiving.
App_shutdown(e) ==
  /\ app[e] = "open" /\ conn[e] # "none"
  /\ app' = [app EXCEPT ![e] = "halfClosed"]
  /\ UNCHANGED <<phase, control, t2qVars, q2tVars, conn, toPump, toApp, stream, up, histVars>>

\* close(): unread data, or (under Failures) an abort, resets the connection.
App_close(e) ==
  /\ app[e] # "closed" /\ conn[e] # "none"
  /\ app' = [app EXCEPT ![e] = "closed"]
  /\ conn' \in {[conn EXCEPT ![e] = c] :
                  c \in (IF toApp[e] = <<>> THEN {conn[e]} ELSE {"reset"})
                        \cup (IF Failures THEN {"reset"} ELSE {})}
  /\ UNCHANGED <<phase, control, t2qVars, q2tVars, toPump, toApp, stream, up, histVars>>

Apps ==
  \E e \in Endpoint : \/ App_send(e)
                      \/ App_receive(e)
                      \/ App_end(e)
                      \/ App_shutdown(e)
                      \/ App_close(e)
-----------------------------------------------------------------------------
(* The QUIC session ends at an endpoint: the other may still read a prefix of
   what was on its way, and nothing of a stream whose control message is lost. *)
SessionEnds(e) ==
  /\ up[e]
  /\ up' = [up EXCEPT ![e] = FALSE]
  /\ \E k \in 0..Len(stream[e].data), c \in BOOLEAN :
       /\ stream' = [stream EXCEPT ![e].data = SubSeq(@, 1, k), ![e].cut = c]
       /\ k < Len(stream[e].data) => c
       /\ \/ UNCHANGED control
          \/ /\ e = "src" /\ phase["dst"] = "accept" /\ control = "sent" /\ k = 0 /\ c
             /\ control' = "lost"
  /\ UNCHANGED <<phase, t2qVars, q2tVars, tcpVars, histVars>>

SessionFails(e) == Failures /\ SessionEnds(e)

\* The other endpoint has ended the session.
SessionFollows(e) == ~up[Peer(e)] /\ SessionEnds(e)

Next ==
  \/ runAsSource
  \/ runAsDestination
  \/ \E e \in Endpoint : readTCPSendQUIC(e) \/ readQuicSendTCP(e)
  \/ Apps
  \/ \E e \in Endpoint : SessionFails(e) \/ SessionFollows(e)

Spec == Init /\ [][Next]_vars

\* Every goroutine that can go on does; an application reads what it is sent;
\* the end of the session is noticed (idle timeout).
FairSpec ==
  /\ Spec
  /\ WF_vars(runAsSource)
  /\ WF_vars(runAsDestination)
  /\ \A e \in Endpoint :
       /\ WF_vars(readTCPSendQUIC(e))
       /\ WF_vars(readQuicSendTCP(e))
       /\ WF_vars(App_receive(e))
       /\ WF_vars(SessionFollows(e))
-----------------------------------------------------------------------------
(* What holds of it.                                                       *)

\* The type of the variables, and what each pump's place says of its buffer: a
\* pump waits in Write exactly while it holds units it has not passed on.
TypeOK ==
  /\ phase \in [Endpoint -> {"open", "control", "accept", "dial", "pumps", "stopped"}]
  /\ control \in {"none", "sent", "lost"}
  /\ tpc \in [Endpoint -> {"off", "read", "write", "done"}]
  /\ tbuf \in [Endpoint -> Seq(Unit)]
  /\ \A e \in Endpoint : /\ Len(tbuf[e]) <= BufSize
                         /\ tpc[e] = "write" <=> tbuf[e] # <<>>
  /\ qpc \in [Endpoint -> {"off", "read", "write", "close", "done"}]
  /\ qbuf \in [Endpoint -> Seq(Unit)]
  /\ \A e \in Endpoint : /\ Len(qbuf[e]) <= BufSize
                         /\ qpc[e] = "write" <=> qbuf[e] # <<>>
  /\ qend \in [Endpoint -> BOOLEAN]
  /\ conn \in [Endpoint -> {"none", "up", "closed", "reset"}]
  /\ app \in [Endpoint -> {"open", "halfClosed", "closed"}]
  /\ toPump \in [Endpoint -> Seq(Unit)] /\ toApp \in [Endpoint -> Seq(Unit)]
  /\ stream \in [Endpoint -> [data : Seq(Unit), fin : BOOLEAN,
                              finRead : BOOLEAN, cut : BOOLEAN]]
  /\ up \in [Endpoint -> BOOLEAN]
  /\ sent \in [Endpoint -> Nat] /\ \A e \in Endpoint : sent[e] <= MaxUnits[e]
  /\ got \in [Endpoint -> Seq(Unit)]
  /\ sawEnd \in [Endpoint -> BOOLEAN]

\* Each direction is a pipe of bytes: whatever fails, what the application at
\* one end receives is what the other sent, in order and without a gap
\* (readTCPSendQUIC and readQuicSendTCP, two goroutines each way).
Forth == INSTANCE BytePipe WITH sent <- sent["src"], got <- got["dst"]
Back == INSTANCE BytePipe WITH sent <- sent["dst"], got <- got["src"]
PipesSpec == Forth!Spec /\ Back!Spec

\* An orderly end is the end: an application that has not ended its own side
\* reads the end of the connection only after everything the other sent, if
\* no session, dial or TCP connection has failed ("err == nil || n > 0" in
\* readQuicSendTCP: the data that comes with io.EOF counts).
EndIsComplete ==
  \A e \in Endpoint :
    /\ sawEnd[e] /\ app[e] = "open"
    /\ up["src"] /\ up["dst"]
    /\ phase["dst"] = "pumps" /\ conn[Peer(e)] # "reset"
    => Len(got[e]) = sent[Peer(e)]

\* The goroutines of an endpoint have ended.
Over(e) == phase[e] = "stopped" \/ (tpc[e] = "done" /\ qpc[e] = "done")

\* readTCPSendQUIC waits in Write for an endpoint that has stopped reading.
StuckInWrite(e) ==
  tpc[e] = "write" /\ Len(stream[e].data) = Window /\ Over(Peer(e))

\* The end of either application's connection ends all four goroutines (the
\* select on finish1 and finish2), but for a readTCPSendQUIC that is stuck.
CloseEndsAll ==
  \A e \in Endpoint :
    app[e] # "open" ~> \A f \in Endpoint : Over(f) \/ StuckInWrite(f)

\* The end of the session ends them, stuck or not.
SessionEndEndsAll ==
  ~up["src"] ~> \A e \in Endpoint : Over(e)
=============================================================================

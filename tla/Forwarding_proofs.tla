-------------------------- MODULE Forwarding_proofs --------------------------
(***************************************************************************)
(* Proofs about Forwarding, for every number of units and every size of    *)
(* the buffers: the types of its variables, that each direction of a       *)
(* forwarded connection implements BytePipe, and that an orderly end comes *)
(* after everything that was sent.                                         *)
(***************************************************************************)
EXTENDS Forwarding, SequenceTheorems, TLAPS

-----------------------------------------------------------------------------
(* Sequences of consecutive numbers. *)

\* s goes on after the number a.
Run(s, a) == \A i \in 1..Len(s) : s[i] = a + i

\* What Append, Tail and SubSeq return.
LEMMA Appended ==
  ASSUME NEW S, NEW s \in Seq(S), NEW x \in S
  PROVE  /\ Append(s, x) \in Seq(S)
         /\ Len(Append(s, x)) = Len(s) + 1
         /\ Append(s, x) # <<>>
         /\ \A i \in 1..Len(s) : Append(s, x)[i] = s[i]
         /\ Append(s, x)[Len(s) + 1] = x
  OBVIOUS

\* The first k of a sequence, and the rest.
LEMMA Parted ==
  ASSUME NEW S, NEW s \in Seq(S), NEW k \in 0..Len(s)
  PROVE  /\ SubSeq(s, 1, k) \in Seq(S) /\ Len(SubSeq(s, 1, k)) = k
         /\ Rest(s, k) \in Seq(S) /\ Len(Rest(s, k)) = Len(s) - k
         /\ \A i \in 1..k : SubSeq(s, 1, k)[i] = s[i]
         /\ \A i \in 1..(Len(s) - k) : Rest(s, k)[i] = s[k + i]
<1>1. Len(s) \in Nat /\ k \in Nat /\ k <= Len(s)
  OBVIOUS
<1>2. \A i \in 1..Len(s) : s[i] \in S
  OBVIOUS
<1>3. /\ SubSeq(s, 1, k) \in Seq(S) /\ Len(SubSeq(s, 1, k)) = k
      /\ \A i \in 1..k : SubSeq(s, 1, k)[i] = s[i]
  <2>1. \A i \in 1..k : s[i] \in S
    BY <1>1, <1>2
  <2>2. /\ SubSeq(s, 1, k) \in Seq(S)
        /\ Len(SubSeq(s, 1, k)) = IF 1 <= k THEN k - 1 + 1 ELSE 0
        /\ \A i \in 1..(k - 1 + 1) : SubSeq(s, 1, k)[i] = s[1 + i - 1]
    BY <1>1, <2>1, SubSeqProperties
  <2> QED
    BY <1>1, <2>2
<1>4. /\ Rest(s, k) \in Seq(S) /\ Len(Rest(s, k)) = Len(s) - k
      /\ \A i \in 1..(Len(s) - k) : Rest(s, k)[i] = s[k + i]
  <2>1. \A i \in (k + 1)..Len(s) : s[i] \in S
    BY <1>1, <1>2
  <2>2. /\ SubSeq(s, k + 1, Len(s)) \in Seq(S)
        /\ Len(SubSeq(s, k + 1, Len(s))) =
             IF k + 1 <= Len(s) THEN Len(s) - (k + 1) + 1 ELSE 0
        /\ \A i \in 1..(Len(s) - (k + 1) + 1) :
             SubSeq(s, k + 1, Len(s))[i] = s[(k + 1) + i - 1]
    BY <1>1, <2>1, SubSeqProperties
  <2> QED
    BY <1>1, <2>2 DEF Rest
<1> QED
  BY <1>3, <1>4

\* The first, and the tail.
LEMMA Headed ==
  ASSUME NEW S, NEW s \in Seq(S), s # <<>>
  PROVE  /\ Len(s) \in Nat \ {0}
         /\ Head(s) \in S /\ Head(s) = s[1]
         /\ Tail(s) \in Seq(S) /\ Len(Tail(s)) = Len(s) - 1
         /\ \A i \in 1..(Len(s) - 1) : Tail(s)[i] = s[i + 1]
         /\ Tail(s) # <<>> <=> Len(s) > 1
<1>1. Len(s) \in Nat \ {0} /\ Head(s) = s[1]
  BY EmptySeq
<1>2. /\ Head(s) \in S /\ Tail(s) \in Seq(S) /\ Len(Tail(s)) = Len(s) - 1
      /\ \A i \in 1..Len(Tail(s)) : Tail(s)[i] = s[i + 1]
  BY HeadTailProperties
<1>3. Tail(s) # <<>> <=> Len(Tail(s)) # 0
  BY <1>2, EmptySeq
<1> QED
  BY <1>1, <1>2, <1>3

\* What they do to a run.
LEMMA RunAppended ==
  ASSUME NEW S, NEW s \in Seq(S), NEW a \in Nat, NEW x \in S,
         Run(s, a), x = a + Len(s) + 1
  PROVE  Run(Append(s, x), a)
  BY Appended DEF Run

\* Both parts of a run are runs.
LEMMA RunParted ==
  ASSUME NEW S, NEW s \in Seq(S), NEW a \in Nat, NEW k \in 0..Len(s), Run(s, a)
  PROVE  Run(SubSeq(s, 1, k), a) /\ Run(Rest(s, k), a + k)
<1>1. Len(s) \in Nat /\ k \in Nat /\ k <= Len(s)
  OBVIOUS
<1>2. Run(SubSeq(s, 1, k), a)
  BY <1>1, Parted DEF Run
<1>3. Run(Rest(s, k), a + k)
  <2>1. ASSUME NEW i \in 1..(Len(s) - k) PROVE Rest(s, k)[i] = (a + k) + i
    BY <1>1, Parted DEF Run
  <2> QED
    BY <1>1, <2>1, Parted DEF Run
<1> QED
  BY <1>2, <1>3

\* A run begins with the next number.
LEMMA RunHeaded ==
  ASSUME NEW S, NEW s \in Seq(S), NEW a \in Nat, s # <<>>, Run(s, a)
  PROVE  Head(s) = a + 1 /\ Run(Tail(s), a + 1)
<1>1. Head(s) = a + 1
  BY Headed DEF Run
<1>2. ASSUME NEW i \in 1..Len(Tail(s)) PROVE Tail(s)[i] = (a + 1) + i
  BY Headed, <1>2 DEF Run
<1> QED
  BY <1>1, <1>2 DEF Run

\* No units are a run.
LEMMA RunEmpty == ASSUME NEW a \in Nat PROVE Run(<<>>, a)
  BY DEF Run
-----------------------------------------------------------------------------
\* There are two endpoints.
LEMMA TwoEnds ==
  ASSUME NEW e \in Endpoint
  PROVE  /\ Peer(e) \in Endpoint /\ Peer(e) # e /\ Peer(Peer(e)) = e
         /\ \A d \in Endpoint : d = e \/ d = Peer(e)
  BY DEF Endpoint, Peer
-----------------------------------------------------------------------------
(* The types of the variables. *)

Marks ==
  /\ phase \in [Endpoint -> {"open", "control", "accept", "dial", "pumps", "stopped"}]
  /\ control \in {"none", "sent", "lost"}
  /\ tpc \in [Endpoint -> {"off", "read", "write", "done"}]
  /\ qpc \in [Endpoint -> {"off", "read", "write", "close", "done"}]
  /\ qend \in [Endpoint -> BOOLEAN]
  /\ conn \in [Endpoint -> {"none", "up", "closed", "reset"}]
  /\ app \in [Endpoint -> {"open", "halfClosed", "closed"}]
  /\ up \in [Endpoint -> BOOLEAN]
  /\ sawEnd \in [Endpoint -> BOOLEAN]

Buffers ==
  /\ tbuf \in [Endpoint -> Seq(Unit)] /\ qbuf \in [Endpoint -> Seq(Unit)]
  /\ toPump \in [Endpoint -> Seq(Unit)] /\ toApp \in [Endpoint -> Seq(Unit)]
  /\ got \in [Endpoint -> Seq(Unit)]

StreamRecord == [data : Seq(Unit), fin : BOOLEAN, finRead : BOOLEAN, cut : BOOLEAN]
Streams == stream \in [Endpoint -> StreamRecord]

Counts == sent \in [Endpoint -> Nat] /\ \A e \in Endpoint : sent[e] <= MaxUnits[e]

\* What a pump's place says of its buffer.
Holds ==
  \A e \in Endpoint :
    /\ Len(tbuf[e]) <= BufSize /\ (tpc[e] = "write" <=> tbuf[e] # <<>>)
    /\ Len(qbuf[e]) <= BufSize /\ (qpc[e] = "write" <=> qbuf[e] # <<>>)

Types == Marks /\ Buffers /\ Streams /\ Counts /\ Holds

\* The same, written as Forwarding does.
LEMMA TypesAreTypeOK == Types => TypeOK
  BY DEF Types, Marks, Buffers, Streams, StreamRecord, Counts, Holds, TypeOK

\* The goroutine that sets the connection up: pumps run after it only, and a
\* connection has an end at each endpoint as long as it has pumps.
Phases ==
  /\ phase["src"] \in {"open", "control", "pumps", "stopped"}
  /\ phase["dst"] \in {"accept", "dial", "pumps", "stopped"}
  /\ \A e \in Endpoint : /\ tpc[e] = "off" <=> phase[e] # "pumps"
                         /\ qpc[e] = "off" <=> phase[e] # "pumps"
  /\ conn["src"] # "none"
  /\ phase["dst"] \in {"accept", "dial"} => conn["dst"] = "none"
  /\ phase["dst"] = "pumps" => conn["dst"] # "none"

\* Every step keeps the types of what is not a buffer.
LEMMA MarksNext ==
  ASSUME Marks, [Next]_vars
  PROVE  Marks'
<1>1. CASE runAsSource_open
  BY <1>1 DEF runAsSource_open, t2qVars, q2tVars, tcpVars, histVars, Marks,
       Endpoint
<1>2. CASE runAsSource_control
  BY <1>2 DEF runAsSource_control, StartPumps, tcpVars, histVars, Marks,
       Endpoint
<1>3. CASE runAsSource_fails
  BY <1>3 DEF runAsSource_fails, CloseTCP, t2qVars, q2tVars, histVars, Marks,
       Endpoint
<1>4. CASE runAsDestination_accept
  BY <1>4 DEF runAsDestination_accept, t2qVars, q2tVars, tcpVars, histVars,
       Marks, Endpoint
<1>5. CASE runAsDestination_fails
  BY <1>5 DEF runAsDestination_fails, t2qVars, q2tVars, tcpVars, histVars,
       Marks, Endpoint
<1>6. CASE runAsDestination_dial
  BY <1>6 DEF runAsDestination_dial, StartPumps, histVars, Marks, Endpoint
<1>7. CASE runAsDestination_dialFails
  BY <1>7 DEF runAsDestination_dialFails, CloseStream, t2qVars, q2tVars,
       tcpVars, histVars, Marks, Endpoint
<1>8. ASSUME NEW e \in Endpoint, readTCPSendQUIC_read(e) PROVE Marks'
  BY <1>8 DEF readTCPSendQUIC_read, q2tVars, histVars, Marks, Endpoint
<1>9. ASSUME NEW e \in Endpoint, readTCPSendQUIC_end(e) PROVE Marks'
  BY <1>9 DEF readTCPSendQUIC_end, CloseStream, q2tVars, tcpVars, histVars,
       Marks, Endpoint
<1>10. ASSUME NEW e \in Endpoint, readTCPSendQUIC_write(e) PROVE Marks'
  BY <1>10 DEF readTCPSendQUIC_write, q2tVars, tcpVars, histVars, Marks,
       Endpoint
<1>11. ASSUME NEW e \in Endpoint, readTCPSendQUIC_writeFails(e) PROVE Marks'
  BY <1>11 DEF readTCPSendQUIC_writeFails, CloseStream, q2tVars, tcpVars,
       histVars, Marks, Endpoint
<1>12. ASSUME NEW e \in Endpoint, readQuicSendTCP_read(e) PROVE Marks'
  BY <1>12 DEF readQuicSendTCP_read, StreamRead, t2qVars, tcpVars, histVars,
       Marks, Endpoint
<1>13. ASSUME NEW e \in Endpoint, readQuicSendTCP_readFails(e) PROVE Marks'
  BY <1>13 DEF readQuicSendTCP_readFails, t2qVars, tcpVars, histVars, Marks,
       Endpoint
<1>14. ASSUME NEW e \in Endpoint, readQuicSendTCP_write(e) PROVE Marks'
  BY <1>14 DEF readQuicSendTCP_write, t2qVars, histVars, Marks, Endpoint
<1>15. ASSUME NEW e \in Endpoint, readQuicSendTCP_writeFails(e) PROVE Marks'
  BY <1>15 DEF readQuicSendTCP_writeFails, t2qVars, tcpVars, histVars, Marks,
       Endpoint
<1>16. ASSUME NEW e \in Endpoint, readQuicSendTCP_close(e) PROVE Marks'
  BY <1>16 DEF readQuicSendTCP_close, CloseTCP, t2qVars, histVars, Marks,
       Endpoint
<1>17. ASSUME NEW e \in Endpoint, App_send(e) PROVE Marks'
  BY <1>17 DEF App_send, t2qVars, q2tVars, Marks, Endpoint
<1>18. ASSUME NEW e \in Endpoint, App_end(e) PROVE Marks'
  BY <1>18 DEF App_end, t2qVars, q2tVars, tcpVars, Marks, Endpoint
<1>19. ASSUME NEW e \in Endpoint, App_shutdown(e) PROVE Marks'
  BY <1>19 DEF App_shutdown, t2qVars, q2tVars, histVars, Marks, Endpoint
<1>20. ASSUME NEW e \in Endpoint, App_close(e) PROVE Marks'
  BY <1>20 DEF App_close, t2qVars, q2tVars, histVars, Marks, Endpoint
<1>21. ASSUME NEW e \in Endpoint, SessionEnds(e) PROVE Marks'
  BY <1>21 DEF SessionEnds, t2qVars, q2tVars, tcpVars, histVars, Marks,
       Endpoint
<1>22. CASE UNCHANGED <<phase, control, tpc, qpc, qend, conn, app, up, sawEnd>>
  BY <1>22 DEF Marks, Endpoint
<1> QED
  BY <1>1, <1>2, <1>3, <1>4, <1>5, <1>6, <1>7, <1>8, <1>9, <1>10, <1>11, <1>12,
       <1>13, <1>14, <1>15, <1>16, <1>17, <1>18, <1>19, <1>20, <1>21, <1>22 DEF
       Next, runAsSource, runAsDestination, readTCPSendQUIC, readQuicSendTCP,
       Apps, SessionFails, SessionFollows, vars, App_receive, t2qVars, q2tVars,
       tcpVars, histVars

\* Pumps are started once, by the goroutine that has a connection for them.
LEMMA PhasesNext ==
  ASSUME Marks, Phases, [Next]_vars
  PROVE  Phases'
<1>1. CASE runAsSource_open
  BY <1>1 DEF runAsSource_open, t2qVars, q2tVars, tcpVars, Marks, Phases,
       Endpoint
<1>2. CASE runAsSource_control
  BY <1>2 DEF runAsSource_control, StartPumps, tcpVars, Marks, Phases, Endpoint
<1>3. CASE runAsSource_fails
  BY <1>3 DEF runAsSource_fails, CloseTCP, t2qVars, q2tVars, Marks, Phases,
       Endpoint
<1>4. CASE runAsDestination_accept
  BY <1>4 DEF runAsDestination_accept, t2qVars, q2tVars, tcpVars, Marks,
       Phases, Endpoint
<1>5. CASE runAsDestination_fails
  BY <1>5 DEF runAsDestination_fails, t2qVars, q2tVars, tcpVars, Marks, Phases,
       Endpoint
<1>6. CASE runAsDestination_dial
  BY <1>6 DEF runAsDestination_dial, StartPumps, Marks, Phases, Endpoint
<1>7. CASE runAsDestination_dialFails
  BY <1>7 DEF runAsDestination_dialFails, CloseStream, t2qVars, q2tVars,
       tcpVars, Marks, Phases, Endpoint
<1>8. ASSUME NEW e \in Endpoint, readTCPSendQUIC_read(e) PROVE Phases'
  BY <1>8 DEF readTCPSendQUIC_read, q2tVars, Marks, Phases, Endpoint
<1>9. ASSUME NEW e \in Endpoint, readTCPSendQUIC_end(e) PROVE Phases'
  BY <1>9 DEF readTCPSendQUIC_end, CloseStream, q2tVars, tcpVars, Marks,
       Phases, Endpoint
<1>10. ASSUME NEW e \in Endpoint, readTCPSendQUIC_write(e) PROVE Phases'
  BY <1>10 DEF readTCPSendQUIC_write, q2tVars, tcpVars, Marks, Phases, Endpoint
<1>11. ASSUME NEW e \in Endpoint, readTCPSendQUIC_writeFails(e) PROVE Phases'
  BY <1>11 DEF readTCPSendQUIC_writeFails, CloseStream, q2tVars, tcpVars,
       Marks, Phases, Endpoint
<1>12. ASSUME NEW e \in Endpoint, readQuicSendTCP_read(e) PROVE Phases'
  BY <1>12 DEF readQuicSendTCP_read, StreamRead, t2qVars, tcpVars, Marks,
       Phases, Endpoint
<1>13. ASSUME NEW e \in Endpoint, readQuicSendTCP_readFails(e) PROVE Phases'
  BY <1>13 DEF readQuicSendTCP_readFails, t2qVars, tcpVars, Marks, Phases,
       Endpoint
<1>14. ASSUME NEW e \in Endpoint, readQuicSendTCP_write(e) PROVE Phases'
  BY <1>14 DEF readQuicSendTCP_write, t2qVars, Marks, Phases, Endpoint
<1>15. ASSUME NEW e \in Endpoint, readQuicSendTCP_writeFails(e) PROVE Phases'
  BY <1>15 DEF readQuicSendTCP_writeFails, t2qVars, tcpVars, Marks, Phases,
       Endpoint
<1>16. ASSUME NEW e \in Endpoint, readQuicSendTCP_close(e) PROVE Phases'
  BY <1>16 DEF readQuicSendTCP_close, CloseTCP, t2qVars, Marks, Phases,
       Endpoint
<1>17. ASSUME NEW e \in Endpoint, App_send(e) PROVE Phases'
  BY <1>17 DEF App_send, t2qVars, q2tVars, Marks, Phases, Endpoint
<1>18. ASSUME NEW e \in Endpoint, App_close(e) PROVE Phases'
  BY <1>18 DEF App_close, t2qVars, q2tVars, Marks, Phases, Endpoint
<1>19. CASE UNCHANGED <<phase, tpc, qpc, conn>>
  BY <1>19 DEF Marks, Phases, Endpoint
<1> QED
  BY <1>1, <1>2, <1>3, <1>4, <1>5, <1>6, <1>7, <1>8, <1>9, <1>10, <1>11, <1>12,
       <1>13, <1>14, <1>15, <1>16, <1>17, <1>18, <1>19 DEF Next, runAsSource,
       runAsDestination, readTCPSendQUIC, readQuicSendTCP, Apps, SessionFails,
       SessionFollows, vars, App_receive, App_end, App_shutdown, SessionEnds,
       t2qVars, q2tVars, tcpVars, histVars

\* The fields of a stream after an assignment to some of them.
LEMMA DataAssigned ==
  ASSUME NEW r \in StreamRecord, NEW a \in Seq(Unit)
  PROVE  /\ [r EXCEPT !.data = a] \in StreamRecord
         /\ [r EXCEPT !.data = a].data = a
         /\ [r EXCEPT !.data = a].fin = r.fin
  BY DEF StreamRecord

\* What Read assigns.
LEMMA DataAndEnd ==
  ASSUME NEW r \in StreamRecord, NEW a \in Seq(Unit), NEW b \in BOOLEAN
  PROVE  /\ [r EXCEPT !.data = a, !.finRead = b] \in StreamRecord
         /\ [r EXCEPT !.data = a, !.finRead = b].data = a
         /\ [r EXCEPT !.data = a, !.finRead = b].fin = r.fin
  BY DEF StreamRecord

\* What the end of the session assigns.
LEMMA DataAndCut ==
  ASSUME NEW r \in StreamRecord, NEW a \in Seq(Unit), NEW b \in BOOLEAN
  PROVE  /\ [r EXCEPT !.data = a, !.cut = b] \in StreamRecord
         /\ [r EXCEPT !.data = a, !.cut = b].data = a
         /\ [r EXCEPT !.data = a, !.cut = b].fin = r.fin
  BY DEF StreamRecord

\* What Close assigns.
LEMMA FinAssigned ==
  ASSUME NEW r \in StreamRecord, NEW b \in BOOLEAN
  PROVE  /\ [r EXCEPT !.fin = b] \in StreamRecord
         /\ [r EXCEPT !.fin = b].data = r.data
         /\ [r EXCEPT !.fin = b].fin = b
  BY DEF StreamRecord

\* What the steps that take some units from a buffer do.
LEMMA TCPRead ==
  ASSUME Buffers, NEW e \in Endpoint, readTCPSendQUIC_read(e)
  PROVE  \E k \in 1..Len(toPump[e]) :
           /\ k <= BufSize /\ k \in 0..Len(toPump[e])
           /\ tbuf' = [tbuf EXCEPT ![e] = SubSeq(toPump[e], 1, k)]
           /\ toPump' = [toPump EXCEPT ![e] = Rest(toPump[e], k)]
<1>1. PICK k \in 1..Least(BufSize, Len(toPump[e])) :
        /\ tbuf' = [tbuf EXCEPT ![e] = SubSeq(toPump[e], 1, k)]
        /\ toPump' = [toPump EXCEPT ![e] = Rest(toPump[e], k)]
  BY DEF readTCPSendQUIC_read
<1>2. Len(toPump[e]) \in Nat
  BY DEF Buffers
<1>3. k \in 1..Len(toPump[e]) /\ k <= BufSize /\ k \in 0..Len(toPump[e])
  BY <1>2, ForwardingAssumption DEF Least
<1> QED
  BY <1>1, <1>3

\* Read of the stream takes k units, and io.EOF with the last.
LEMMA QUICRead ==
  ASSUME Streams, NEW e \in Endpoint, readQuicSendTCP_read(e)
  PROVE  \E k \in 0..Len(stream[Peer(e)].data), end \in BOOLEAN :
           /\ k <= BufSize
           /\ end => k = Len(stream[Peer(e)].data) /\ stream[Peer(e)].fin
           /\ k > 0 \/ end
           /\ Streams'
           /\ stream'[Peer(e)].data = Rest(stream[Peer(e)].data, k)
           /\ stream'[Peer(e)].fin = stream[Peer(e)].fin
           /\ stream'[e] = stream[e]
           /\ qbuf' = [qbuf EXCEPT ![e] = SubSeq(stream[Peer(e)].data, 1, k)]
           /\ qend' = [qend EXCEPT ![e] = end]
           /\ qpc' = [qpc EXCEPT ![e] = IF k > 0 THEN "write" ELSE "close"]
<1> DEFINE s == Peer(e)
<1>1. PICK k \in 0..BufSize, end \in BOOLEAN :
        /\ StreamRead(e, k, end)
        /\ qbuf' = [qbuf EXCEPT ![e] = SubSeq(stream[Peer(e)].data, 1, k)]
        /\ qend' = [qend EXCEPT ![e] = end]
        /\ qpc' = [qpc EXCEPT ![e] = IF k > 0 THEN "write" ELSE "close"]
  BY DEF readQuicSendTCP_read
<1>2. s \in Endpoint /\ e # s /\ stream[s] \in StreamRecord
  BY TwoEnds DEF Streams
<1>3. stream[s].data \in Seq(Unit) /\ stream[s].finRead \in BOOLEAN
  BY <1>2 DEF StreamRecord
<1>4. k \in 0..Len(stream[s].data) /\ k <= BufSize
  BY <1>1, <1>3, ForwardingAssumption DEF StreamRead, Least
<1>5. Rest(stream[s].data, k) \in Seq(Unit) /\ (stream[s].finRead \/ end) \in BOOLEAN
  BY <1>3, <1>4, Parted
<1> DEFINE new == [stream[s] EXCEPT !.data = Rest(stream[s].data, k),
                                    !.finRead = stream[s].finRead \/ end]
<1>6. /\ new \in StreamRecord
      /\ new.data = Rest(stream[s].data, k) /\ new.fin = stream[s].fin
  <2>1. PICK b \in BOOLEAN : b = (stream[s].finRead \/ end)
    BY <1>5
  <2>2. new = [stream[s] EXCEPT !.data = Rest(stream[s].data, k), !.finRead = b]
    BY <2>1
  <2>3. PICK a \in Seq(Unit) : a = Rest(stream[s].data, k)
    BY <1>5
  <2>4. PICK r \in StreamRecord : r = stream[s]
    BY <1>2
  <2>5. new = [r EXCEPT !.data = a, !.finRead = b]
    BY <2>2, <2>3, <2>4
  <2>6. /\ [r EXCEPT !.data = a, !.finRead = b] \in StreamRecord
        /\ [r EXCEPT !.data = a, !.finRead = b].data = a
        /\ [r EXCEPT !.data = a, !.finRead = b].fin = r.fin
    BY DataAndEnd
  <2> HIDE DEF new, s
  <2> QED
    BY <2>3, <2>4, <2>5, <2>6
<1>7. stream' = [stream EXCEPT ![s] = new]
  BY <1>1 DEF StreamRead
<1>8. Streams' /\ stream'[s] = new /\ stream'[e] = stream[e]
  <2> HIDE DEF new, s
  <2> QED
    BY <1>2, <1>6, <1>7 DEF Streams
<1>9. /\ end => k = Len(stream[s].data) /\ stream[s].fin
      /\ k > 0 \/ end
  BY <1>1 DEF StreamRead
<1> HIDE DEF new
<1> QED
  BY <1>1, <1>4, <1>6, <1>8, <1>9

\* The end of the session leaves a prefix of what an endpoint has written.
LEMMA StreamCut ==
  ASSUME Streams, NEW e \in Endpoint, SessionEnds(e)
  PROVE  \E k \in 0..Len(stream[e].data) :
           /\ Streams'
           /\ stream'[e].data = SubSeq(stream[e].data, 1, k)
           /\ stream'[e].fin = stream[e].fin
           /\ stream'[Peer(e)] = stream[Peer(e)]
<1>1. PICK k \in 0..Len(stream[e].data), c \in BOOLEAN :
        stream' = [stream EXCEPT ![e].data = SubSeq(stream[e].data, 1, k),
                                 ![e].cut = c]
  BY DEF SessionEnds
<1>2. stream[e] \in StreamRecord /\ Peer(e) \in Endpoint /\ Peer(e) # e
  BY TwoEnds DEF Streams
<1>3. SubSeq(stream[e].data, 1, k) \in Seq(Unit)
  BY <1>2, Parted DEF StreamRecord
<1> DEFINE new == [stream[e] EXCEPT !.data = SubSeq(stream[e].data, 1, k), !.cut = c]
<1>4. /\ new \in StreamRecord
      /\ new.data = SubSeq(stream[e].data, 1, k) /\ new.fin = stream[e].fin
  BY <1>2, <1>3, DataAndCut
<1>5. stream' = [stream EXCEPT ![e] = new]
  BY <1>1
<1> HIDE DEF new
<1>6. Streams' /\ stream'[e] = new /\ stream'[Peer(e)] = stream[Peer(e)]
  BY <1>2, <1>4, <1>5 DEF Streams
<1> QED
  BY <1>4, <1>6

\* What the Write and the Close of a stream do.
LEMMA StreamWritten ==
  ASSUME Buffers, Streams, Holds, NEW e \in Endpoint, readTCPSendQUIC_write(e)
  PROVE  /\ Streams'
         /\ stream'[e].data = Append(stream[e].data, Head(tbuf[e]))
         /\ stream'[e].fin = stream[e].fin
         /\ stream'[Peer(e)] = stream[Peer(e)]
<1>1. stream[e] \in StreamRecord /\ Peer(e) \in Endpoint /\ Peer(e) # e
  BY TwoEnds DEF Streams
<1>2. tbuf[e] \in Seq(Unit) /\ tbuf[e] # <<>>
  BY DEF readTCPSendQUIC_write, Buffers, Holds
<1>3. Append(stream[e].data, Head(tbuf[e])) \in Seq(Unit)
  BY <1>1, <1>2, Headed, Appended DEF StreamRecord
<1> DEFINE new == [stream[e] EXCEPT !.data = Append(stream[e].data, Head(tbuf[e]))]
<1>4. /\ new \in StreamRecord /\ new.fin = stream[e].fin
      /\ new.data = Append(stream[e].data, Head(tbuf[e]))
  BY <1>1, <1>3, DataAssigned
<1>5. stream' = [stream EXCEPT ![e] = new]
  BY DEF readTCPSendQUIC_write
<1> HIDE DEF new
<1>6. Streams' /\ stream'[e] = new /\ stream'[Peer(e)] = stream[Peer(e)]
  BY <1>1, <1>4, <1>5 DEF Streams
<1> QED
  BY <1>4, <1>6

\* Close leaves the data, and the other direction.
LEMMA StreamClosed ==
  ASSUME Streams, Marks, NEW e \in Endpoint, CloseStream(e)
  PROVE  /\ Streams'
         /\ stream'[e].data = stream[e].data
         /\ stream'[e].fin => stream[e].fin \/ up[e]
         /\ stream[e].fin => stream'[e].fin
         /\ stream'[Peer(e)] = stream[Peer(e)]
<1>1. stream[e] \in StreamRecord /\ Peer(e) \in Endpoint /\ Peer(e) # e
  BY TwoEnds DEF Streams
<1>2. PICK b \in BOOLEAN : b = (stream[e].fin \/ up[e])
  BY <1>1 DEF StreamRecord, Marks
<1> DEFINE new == [stream[e] EXCEPT !.fin = b]
<1>3. /\ new \in StreamRecord /\ new.fin = b /\ new.data = stream[e].data
  BY <1>1, FinAssigned
<1>4. stream' = [stream EXCEPT ![e] = new]
  BY <1>2 DEF CloseStream
<1> HIDE DEF new
<1>5. Streams' /\ stream'[e] = new /\ stream'[Peer(e)] = stream[Peer(e)]
  BY <1>1, <1>3, <1>4 DEF Streams
<1> QED
  BY <1>2, <1>3, <1>5

\* Every step keeps the types of the buffers.
LEMMA BuffersNext ==
  ASSUME Buffers, Streams, Counts, Holds, [Next]_vars
  PROVE  Buffers'
<1>1. ASSUME NEW e \in Endpoint, readTCPSendQUIC_read(e) PROVE Buffers'
  <2>1. PICK k \in 1..Len(toPump[e]) :
          /\ k \in 0..Len(toPump[e])
          /\ tbuf' = [tbuf EXCEPT ![e] = SubSeq(toPump[e], 1, k)]
          /\ toPump' = [toPump EXCEPT ![e] = Rest(toPump[e], k)]
    BY <1>1, TCPRead
  <2>2. SubSeq(toPump[e], 1, k) \in Seq(Unit) /\ Rest(toPump[e], k) \in Seq(Unit)
    BY <2>1, Parted DEF Buffers
  <2> QED
    BY <1>1, <2>1, <2>2 DEF readTCPSendQUIC_read, q2tVars, histVars, Buffers
<1>2. ASSUME NEW e \in Endpoint, readTCPSendQUIC_write(e) PROVE Buffers'
  <2>1. tbuf[e] \in Seq(Unit) /\ tbuf[e] # <<>>
    BY <1>2 DEF readTCPSendQUIC_write, Buffers, Holds
  <2>2. Tail(tbuf[e]) \in Seq(Unit)
    BY <2>1, Headed
  <2> QED
    BY <1>2, <2>2 DEF readTCPSendQUIC_write, q2tVars, tcpVars, histVars, Buffers
<1>3. ASSUME NEW e \in Endpoint, readTCPSendQUIC_writeFails(e) PROVE Buffers'
  BY <1>3 DEF readTCPSendQUIC_writeFails, CloseStream, q2tVars, tcpVars,
       histVars, Buffers
<1>4. ASSUME NEW e \in Endpoint, readQuicSendTCP_read(e) PROVE Buffers'
  <2>1. PICK k \in 0..Len(stream[Peer(e)].data) :
          qbuf' = [qbuf EXCEPT ![e] = SubSeq(stream[Peer(e)].data, 1, k)]
    BY <1>4, QUICRead
  <2>2. SubSeq(stream[Peer(e)].data, 1, k) \in Seq(Unit)
    BY TwoEnds, Parted DEF Streams, StreamRecord
  <2> QED
    BY <1>4, <2>1, <2>2
       DEF readQuicSendTCP_read, t2qVars, tcpVars, histVars, Buffers
<1>5. ASSUME NEW e \in Endpoint, readQuicSendTCP_write(e) PROVE Buffers'
  <2>1. qbuf[e] \in Seq(Unit) /\ qbuf[e] # <<>> /\ toApp[e] \in Seq(Unit)
    BY <1>5 DEF readQuicSendTCP_write, Buffers, Holds
  <2>2. Tail(qbuf[e]) \in Seq(Unit) /\ Append(toApp[e], Head(qbuf[e])) \in Seq(Unit)
    BY <2>1, Headed, Appended
  <2> QED
    BY <1>5, <2>2 DEF readQuicSendTCP_write, t2qVars, histVars, Buffers
<1>6. ASSUME NEW e \in Endpoint, readQuicSendTCP_writeFails(e) PROVE Buffers'
  BY <1>6 DEF readQuicSendTCP_writeFails, t2qVars, tcpVars, histVars, Buffers
<1>7. ASSUME NEW e \in Endpoint, App_send(e) PROVE Buffers'
  <2>1. sent[e] + 1 \in Unit
    BY <1>7, ForwardingAssumption DEF App_send, Counts, Unit, Endpoint
  <2>2. Append(toPump[e], sent[e] + 1) \in Seq(Unit)
    BY <2>1, Appended DEF Buffers
  <2> QED
    BY <1>7, <2>2 DEF App_send, t2qVars, q2tVars, Buffers
<1>8. ASSUME NEW e \in Endpoint, App_receive(e) PROVE Buffers'
  <2>1. toApp[e] \in Seq(Unit) /\ toApp[e] # <<>> /\ got[e] \in Seq(Unit)
    BY <1>8 DEF App_receive, Buffers
  <2>2. Tail(toApp[e]) \in Seq(Unit) /\ Append(got[e], Head(toApp[e])) \in Seq(Unit)
    BY <2>1, Headed, Appended
  <2> QED
    BY <1>8, <2>2 DEF App_receive, t2qVars, q2tVars, Buffers
<1>9. CASE UNCHANGED <<tbuf, qbuf, toPump, toApp, got>>
  BY <1>9 DEF Buffers
<1> QED
  BY <1>1, <1>2, <1>3, <1>4, <1>5, <1>6, <1>7, <1>8, <1>9 DEF Next,
       runAsSource, runAsDestination, readTCPSendQUIC, readQuicSendTCP, Apps,
       SessionFails, SessionFollows, vars, runAsSource_open,
       runAsSource_control, runAsSource_fails, runAsDestination_accept,
       runAsDestination_fails, runAsDestination_dial,
       runAsDestination_dialFails, readTCPSendQUIC_end,
       readQuicSendTCP_readFails, readQuicSendTCP_close, App_end, App_shutdown,
       App_close, SessionEnds, t2qVars, q2tVars, tcpVars, histVars

\* Every step keeps the type of the stream.
LEMMA StreamsNext ==
  ASSUME Buffers, Streams, Holds, Marks, [Next]_vars
  PROVE  Streams'
<1>1. CASE runAsDestination_dialFails
  <2>1. "dst" \in Endpoint /\ CloseStream("dst")
    BY <1>1 DEF runAsDestination_dialFails, Endpoint
  <2> QED
    BY <2>1, StreamClosed
<1>2. ASSUME NEW e \in Endpoint, readTCPSendQUIC_end(e) PROVE Streams'
  BY <1>2, StreamClosed DEF readTCPSendQUIC_end
<1>3. ASSUME NEW e \in Endpoint, readTCPSendQUIC_write(e) PROVE Streams'
  BY <1>3, StreamWritten
<1>4. ASSUME NEW e \in Endpoint, readTCPSendQUIC_writeFails(e) PROVE Streams'
  BY <1>4, StreamClosed DEF readTCPSendQUIC_writeFails
<1>5. ASSUME NEW e \in Endpoint, readQuicSendTCP_read(e) PROVE Streams'
  BY <1>5, QUICRead
<1>6. ASSUME NEW e \in Endpoint, SessionEnds(e) PROVE Streams'
  BY <1>6, StreamCut
<1>7. CASE UNCHANGED <<stream>>
  BY <1>7 DEF Streams
<1> QED
  BY <1>1, <1>2, <1>3, <1>4, <1>5, <1>6, <1>7 DEF Next, runAsSource,
       runAsDestination, readTCPSendQUIC, readQuicSendTCP, Apps, SessionFails,
       SessionFollows, vars, runAsSource_open, runAsSource_control,
       runAsSource_fails, runAsDestination_accept, runAsDestination_fails,
       runAsDestination_dial, readTCPSendQUIC_read, readQuicSendTCP_readFails,
       readQuicSendTCP_write, readQuicSendTCP_writeFails,
       readQuicSendTCP_close, App_send, App_receive, App_end, App_shutdown,
       App_close, t2qVars, q2tVars, tcpVars, histVars

\* No application sends more than the bound.
LEMMA CountsNext ==
  ASSUME Counts, [Next]_vars
  PROVE  Counts'
<1>1. ASSUME NEW e \in Endpoint, App_send(e) PROVE Counts'
  <2>1. sent' = [sent EXCEPT ![e] = sent[e] + 1] /\ sent[e] < MaxUnits[e]
    BY <1>1 DEF App_send
  <2>2. \A d \in Endpoint : MaxUnits[d] \in Nat /\ sent[d] \in Nat
    BY ForwardingAssumption DEF Counts
  <2> QED
    BY <2>1, <2>2 DEF Counts
<1>2. CASE UNCHANGED <<sent>>
  BY <1>2 DEF Counts
<1> QED
  BY <1>1, <1>2 DEF Next, runAsSource, runAsDestination, readTCPSendQUIC,
       readQuicSendTCP, Apps, SessionFails, SessionFollows, vars,
       runAsSource_open, runAsSource_control, runAsSource_fails,
       runAsDestination_accept, runAsDestination_fails, runAsDestination_dial,
       runAsDestination_dialFails, readTCPSendQUIC_read, readTCPSendQUIC_end,
       readTCPSendQUIC_write, readTCPSendQUIC_writeFails, readQuicSendTCP_read,
       readQuicSendTCP_readFails, readQuicSendTCP_write,
       readQuicSendTCP_writeFails, readQuicSendTCP_close, App_receive, App_end,
       App_shutdown, App_close, SessionEnds, t2qVars, q2tVars, tcpVars,
       histVars

\* A pump goes to Write with units, and leaves it without.
LEMMA HoldsNext ==
  ASSUME Marks, Buffers, Streams, Holds, Phases, [Next]_vars
  PROVE  Holds'
<1>1. CASE runAsSource_control
  BY <1>1 DEF runAsSource_control, StartPumps, Holds, Marks, Buffers, Phases,
       Endpoint
<1>2. CASE runAsDestination_dial
  BY <1>2 DEF runAsDestination_dial, StartPumps, Holds, Marks, Buffers, Phases,
       Endpoint
<1>3. ASSUME NEW e \in Endpoint, readTCPSendQUIC_read(e) PROVE Holds'
  <2>1. PICK k \in 1..Len(toPump[e]) :
          /\ k <= BufSize /\ k \in 0..Len(toPump[e])
          /\ tbuf' = [tbuf EXCEPT ![e] = SubSeq(toPump[e], 1, k)]
    BY <1>3, TCPRead
  <2>2. /\ Len(SubSeq(toPump[e], 1, k)) = k
        /\ SubSeq(toPump[e], 1, k) # <<>>
    BY <2>1, Parted, EmptySeq DEF Buffers
  <2> QED
    BY <1>3, <2>1, <2>2
       DEF readTCPSendQUIC_read, q2tVars, Holds, Marks, Buffers
<1>4. ASSUME NEW e \in Endpoint, readTCPSendQUIC_end(e) PROVE Holds'
  BY <1>4 DEF readTCPSendQUIC_end, CloseStream, q2tVars, Holds, Marks, Buffers
<1>5. ASSUME NEW e \in Endpoint, readTCPSendQUIC_write(e) PROVE Holds'
  <2>1. tbuf[e] \in Seq(Unit) /\ tbuf[e] # <<>>
    BY <1>5 DEF readTCPSendQUIC_write, Buffers, Holds
  <2>2. /\ Len(tbuf[e]) \in Nat \ {0} /\ Len(Tail(tbuf[e])) = Len(tbuf[e]) - 1
        /\ Tail(tbuf[e]) # <<>> <=> Len(tbuf[e]) > 1
    BY <2>1, Headed
  <2>3. tbuf' = [tbuf EXCEPT ![e] = Tail(tbuf[e])] /\ UNCHANGED <<qbuf, qpc>>
    BY <1>5 DEF readTCPSendQUIC_write, q2tVars
  <2>4. Len(Tail(tbuf[e])) <= BufSize
    BY <2>2, ForwardingAssumption DEF Holds
  <2>5. tpc'[e] = "write" <=> Tail(tbuf[e]) # <<>>
    <3>1. tpc'[e] = IF Len(tbuf[e]) = 1 THEN "read" ELSE "write"
      BY <1>5 DEF readTCPSendQUIC_write, Marks
    <3>2. tbuf[e] \in Seq(Unit) /\ Len(tbuf[e]) \in Nat \ {0}
      BY <2>1, <2>2
    <3>3. tpc'[e] = "write" <=> Len(tbuf[e]) > 1
      <4>1. PICK n \in Nat \ {0} : n = Len(tbuf[e])
        BY <3>2
      <4>2. tpc'[e] = IF n = 1 THEN "read" ELSE "write"
        BY <3>1, <4>1
      <4>3. tpc'[e] = "write" <=> n > 1
        BY <4>2
      <4> QED
        BY <4>1, <4>3
    <3> QED
      BY <2>2, <3>3
  <2>6. \A d \in Endpoint \ {e} : tpc'[d] = tpc[d]
    BY <1>5 DEF readTCPSendQUIC_write, Marks
  <2>7. ASSUME NEW d \in Endpoint
        PROVE  Len(tbuf'[d]) <= BufSize /\ (tpc'[d] = "write" <=> tbuf'[d] # <<>>)
    <3>1. CASE d = e
      BY <2>3, <2>4, <2>5, <3>1 DEF Buffers
    <3>2. CASE d # e
      BY <2>3, <2>6, <3>2 DEF Holds, Buffers
    <3> QED
      BY <3>1, <3>2
  <2> QED
    BY <2>3, <2>7 DEF Holds
<1>6. ASSUME NEW e \in Endpoint, readTCPSendQUIC_writeFails(e) PROVE Holds'
  BY <1>6, ForwardingAssumption, EmptySeq DEF readTCPSendQUIC_writeFails,
       CloseStream, q2tVars, Holds, Marks, Buffers
<1>7. ASSUME NEW e \in Endpoint, readQuicSendTCP_read(e) PROVE Holds'
  <2>1. PICK k \in 0..Len(stream[Peer(e)].data) :
          /\ k <= BufSize
          /\ qbuf' = [qbuf EXCEPT ![e] = SubSeq(stream[Peer(e)].data, 1, k)]
          /\ qpc' = [qpc EXCEPT ![e] = IF k > 0 THEN "write" ELSE "close"]
    BY <1>7, QUICRead
  <2>2. /\ SubSeq(stream[Peer(e)].data, 1, k) \in Seq(Unit)
        /\ Len(SubSeq(stream[Peer(e)].data, 1, k)) = k
    BY <2>1, TwoEnds, Parted DEF Streams, StreamRecord
  <2>3. SubSeq(stream[Peer(e)].data, 1, k) # <<>> <=> k > 0
    BY <2>2, EmptySeq
  <2> QED
    BY <1>7, <2>1, <2>2, <2>3 DEF readQuicSendTCP_read, t2qVars, Holds, Marks,
       Buffers
<1>8. ASSUME NEW e \in Endpoint, readQuicSendTCP_readFails(e) PROVE Holds'
  BY <1>8 DEF readQuicSendTCP_readFails, t2qVars, Holds, Marks, Buffers
<1>9. ASSUME NEW e \in Endpoint, readQuicSendTCP_write(e) PROVE Holds'
  <2>1. qbuf[e] \in Seq(Unit) /\ qbuf[e] # <<>>
    BY <1>9 DEF readQuicSendTCP_write, Buffers, Holds
  <2>2. /\ Len(qbuf[e]) \in Nat \ {0} /\ Len(Tail(qbuf[e])) = Len(qbuf[e]) - 1
        /\ Tail(qbuf[e]) # <<>> <=> Len(qbuf[e]) > 1
    BY <2>1, Headed
  <2>3. qbuf' = [qbuf EXCEPT ![e] = Tail(qbuf[e])] /\ UNCHANGED <<tbuf, tpc>>
    BY <1>9 DEF readQuicSendTCP_write, t2qVars
  <2>4. Len(Tail(qbuf[e])) <= BufSize
    BY <2>2, ForwardingAssumption DEF Holds
  <2>5. qpc'[e] = "write" <=> Tail(qbuf[e]) # <<>>
    <3>1. qpc'[e] = IF Len(qbuf[e]) > 1 THEN "write"
                  ELSE IF qend[e] THEN "close" ELSE "read"
      BY <1>9 DEF readQuicSendTCP_write, Marks
    <3>2. qend[e] \in BOOLEAN
      BY DEF Marks
    <3>3. qbuf[e] \in Seq(Unit) /\ Len(qbuf[e]) \in Nat \ {0}
      BY <2>1, <2>2
    <3>4. qpc'[e] = "write" <=> Len(qbuf[e]) > 1
      <4>1. PICK n \in Nat \ {0} : n = Len(qbuf[e])
        BY <3>3
      <4>2. qpc'[e] = IF n > 1 THEN "write" ELSE IF qend[e] THEN "close" ELSE "read"
        BY <3>1, <4>1
      <4>3. qpc'[e] = "write" <=> n > 1
        BY <3>2, <4>2
      <4> QED
        BY <4>1, <4>3
    <3> QED
      BY <2>2, <3>4
  <2>6. \A d \in Endpoint \ {e} : qpc'[d] = qpc[d]
    BY <1>9 DEF readQuicSendTCP_write, Marks
  <2>7. ASSUME NEW d \in Endpoint
        PROVE  Len(qbuf'[d]) <= BufSize /\ (qpc'[d] = "write" <=> qbuf'[d] # <<>>)
    <3>1. CASE d = e
      BY <2>3, <2>4, <2>5, <3>1 DEF Buffers
    <3>2. CASE d # e
      BY <2>3, <2>6, <3>2 DEF Holds, Buffers
    <3> QED
      BY <3>1, <3>2
  <2> QED
    BY <2>3, <2>7 DEF Holds
<1>10. ASSUME NEW e \in Endpoint, readQuicSendTCP_writeFails(e) PROVE Holds'
  BY <1>10, ForwardingAssumption, EmptySeq DEF readQuicSendTCP_writeFails,
       t2qVars, Holds, Marks, Buffers
<1>11. ASSUME NEW e \in Endpoint, readQuicSendTCP_close(e) PROVE Holds'
  BY <1>11 DEF readQuicSendTCP_close, CloseTCP, t2qVars, Holds, Marks, Buffers
<1>12. CASE UNCHANGED <<tpc, tbuf, qpc, qbuf>>
  BY <1>12 DEF Holds, Marks, Buffers
<1> QED
  BY <1>1, <1>2, <1>3, <1>4, <1>5, <1>6, <1>7, <1>8, <1>9, <1>10, <1>11, <1>12
       DEF Next, runAsSource, runAsDestination, readTCPSendQUIC,
       readQuicSendTCP, Apps, SessionFails, SessionFollows, vars,
       runAsSource_open, runAsSource_fails, runAsDestination_accept,
       runAsDestination_fails, runAsDestination_dialFails, App_send,
       App_receive, App_end, App_shutdown, App_close, SessionEnds, t2qVars,
       q2tVars, tcpVars, histVars
-----------------------------------------------------------------------------
(* The ends of a connection. *)

\* A connection that has been closed has nothing left to read; else the Close
\* was a reset.
NothingBehindClose == \A e \in Endpoint : conn[e] = "closed" => toPump[e] = <<>>

\* What came before the end of a stream is in the stream, if the TCP connection
\* it came from has not been reset and both sides had one.
NothingBehindFin ==
  \A e \in Endpoint : stream[e].fin /\ ~(e = "dst" /\ phase[e] = "stopped") =>
    /\ tpc[e] = "done"
    /\ conn[e] # "reset" => toPump[e] = <<>> /\ (app[e] # "open" \/ conn[e] = "closed")

\* readQuicSendTCP closes the connection after the end of the stream, an error
\* of the connection, or the end of the session; and only a connection that has
\* been closed ends for the application.
EndRead ==
  \A e \in Endpoint :
    /\ qend[e] => stream[Peer(e)].fin /\ stream[Peer(e)].data = <<>>
    /\ qpc[e] \in {"close", "done"} => qend[e] \/ conn[e] = "reset" \/ ~up[e]
    /\ conn[e] = "closed" => qpc[e] = "done" \/ (e = "src" /\ qpc[e] = "off" /\ ~up[e])
    /\ sawEnd[e] => /\ toApp[e] = <<>> /\ conn[e] \in {"closed", "reset"}
                    /\ \/ qpc[e] = "done" /\ (qend[e] \/ ~up[e])
                       \/ e = "src" /\ qpc[e] = "off" /\ ~up[e]

\* A Close with unread data is a reset.
LEMMA NothingBehindCloseNext ==
  ASSUME Marks, Buffers, NothingBehindClose, Phases, [Next]_vars
  PROVE  NothingBehindClose'
<1>1. CASE runAsSource_fails
  BY <1>1 DEF runAsSource_fails, CloseTCP, NothingBehindClose, Marks, Buffers
<1>2. CASE runAsDestination_dial
  BY <1>2 DEF runAsDestination_dial, StartPumps, NothingBehindClose, Marks,
       Buffers, Endpoint, Phases
<1>3. ASSUME NEW e \in Endpoint, readTCPSendQUIC_read(e) PROVE NothingBehindClose'
  <2>1. toPump[e] # <<>>
    <3>1. PICK k \in 1..Len(toPump[e]) : TRUE
      BY <1>3, TCPRead
    <3> QED
      BY <3>1, EmptySeq
  <2>2. \A d \in Endpoint \ {e} : toPump'[d] = toPump[d]
    BY <1>3 DEF readTCPSendQUIC_read, Buffers
  <2> QED
    BY <1>3, <2>1, <2>2 DEF readTCPSendQUIC_read, NothingBehindClose
<1>4. ASSUME NEW e \in Endpoint, readQuicSendTCP_write(e) PROVE NothingBehindClose'
  BY <1>4 DEF readQuicSendTCP_write, NothingBehindClose, Marks, Buffers
<1>5. ASSUME NEW e \in Endpoint, readQuicSendTCP_close(e) PROVE NothingBehindClose'
  BY <1>5 DEF readQuicSendTCP_close, CloseTCP, NothingBehindClose, Marks,
       Buffers
<1>6. ASSUME NEW e \in Endpoint, App_send(e) PROVE NothingBehindClose'
  BY <1>6 DEF App_send, NothingBehindClose, Marks, Buffers
<1>7. ASSUME NEW e \in Endpoint, App_close(e) PROVE NothingBehindClose'
  BY <1>7 DEF App_close, NothingBehindClose, Marks, Buffers
<1>8. CASE UNCHANGED <<conn, toPump>>
  BY <1>8 DEF NothingBehindClose, Marks, Buffers
<1> QED
  BY <1>1, <1>2, <1>3, <1>4, <1>5, <1>6, <1>7, <1>8 DEF Next, runAsSource,
       runAsDestination, readTCPSendQUIC, readQuicSendTCP, Apps, SessionFails,
       SessionFollows, vars, runAsSource_open, runAsSource_control,
       runAsDestination_accept, runAsDestination_fails,
       runAsDestination_dialFails, readTCPSendQUIC_end, readTCPSendQUIC_write,
       readTCPSendQUIC_writeFails, readQuicSendTCP_read,
       readQuicSendTCP_readFails, readQuicSendTCP_writeFails, App_receive,
       App_end, App_shutdown, SessionEnds, t2qVars, q2tVars, tcpVars, histVars

\* Only readTCPSendQUIC, at its end, closes the stream.
LEMMA NothingBehindFinNext ==
  ASSUME Marks, Buffers, Streams, Holds, Phases, NothingBehindClose, NothingBehindFin, [Next]_vars
  PROVE  NothingBehindFin'
<1>1. CASE runAsSource_open
  BY <1>1 DEF runAsSource_open, t2qVars, tcpVars, NothingBehindFin, Marks,
       Buffers, Endpoint
<1>2. CASE runAsSource_control
  BY <1>2 DEF runAsSource_control, StartPumps, tcpVars, NothingBehindFin,
       Marks, Buffers, Phases, Endpoint
<1>3. CASE runAsSource_fails
  BY <1>3 DEF runAsSource_fails, CloseTCP, t2qVars, NothingBehindFin, Marks,
       Buffers, Endpoint
<1>4. CASE runAsDestination_accept
  BY <1>4 DEF runAsDestination_accept, t2qVars, tcpVars, NothingBehindFin,
       Marks, Buffers, Endpoint
<1>5. CASE runAsDestination_fails
  BY <1>5 DEF runAsDestination_fails, t2qVars, tcpVars, NothingBehindFin,
       Marks, Buffers, Endpoint
<1>6. CASE runAsDestination_dial
  BY <1>6 DEF runAsDestination_dial, StartPumps, NothingBehindFin, Marks,
       Buffers, Phases, Endpoint
<1>7. CASE runAsDestination_dialFails
  <2>1. "dst" \in Endpoint /\ CloseStream("dst") /\ Peer("dst") = "src"
    BY <1>7 DEF runAsDestination_dialFails, Endpoint, Peer
  <2>2. stream'["src"] = stream["src"]
    BY <2>1, StreamClosed
  <2> QED
    BY <1>7, <2>2 DEF runAsDestination_dialFails, tcpVars, t2qVars,
       NothingBehindFin, Endpoint, Marks
<1>8. ASSUME NEW e \in Endpoint, readTCPSendQUIC_read(e) PROVE NothingBehindFin'
  <2>1. tpc[e] = "read" /\ \A d \in Endpoint \ {e} : toPump'[d] = toPump[d] /\ tpc'[d] = tpc[d]
    BY <1>8 DEF readTCPSendQUIC_read, Buffers, Marks
  <2> QED
    BY <1>8, <2>1 DEF readTCPSendQUIC_read, NothingBehindFin
<1>9. ASSUME NEW e \in Endpoint, readTCPSendQUIC_end(e) PROVE NothingBehindFin'
  <2>1. CloseStream(e)
    BY <1>9 DEF readTCPSendQUIC_end
  <2>2. stream'[Peer(e)] = stream[Peer(e)]
    BY <2>1, StreamClosed
  <2>3. conn[e] # "none" /\ ~(e = "dst" /\ phase[e] = "stopped")
    BY <1>9 DEF readTCPSendQUIC_end, Phases, Endpoint
  <2>4. conn[e] # "reset" => toPump[e] = <<>> /\ (app[e] # "open" \/ conn[e] = "closed")
    BY <1>9, <2>3 DEF readTCPSendQUIC_end, NothingBehindClose, Marks
  <2>5. /\ tpc'[e] = "done" /\ tpc'[Peer(e)] = tpc[Peer(e)]
        /\ UNCHANGED <<conn, app, toPump, phase>>
    BY <1>9, TwoEnds DEF readTCPSendQUIC_end, tcpVars, Marks
  <2>6. \A d \in Endpoint : d = e \/ d = Peer(e)
    BY TwoEnds
  <2> QED
    BY <2>2, <2>4, <2>5, <2>6 DEF NothingBehindFin
<1>10. ASSUME NEW e \in Endpoint, readTCPSendQUIC_write(e) PROVE NothingBehindFin'
  <2>1. /\ stream'[e].fin = stream[e].fin
        /\ stream'[Peer(e)] = stream[Peer(e)]
    BY <1>10, StreamWritten
  <2>2. tpc[e] = "write" /\ tpc'[Peer(e)] = tpc[Peer(e)] /\ UNCHANGED <<conn, app, toPump, phase>>
    BY <1>10, TwoEnds DEF readTCPSendQUIC_write, tcpVars, Marks
  <2>3. \A d \in Endpoint : d = e \/ d = Peer(e)
    BY TwoEnds
  <2> QED
    BY <2>1, <2>2, <2>3 DEF NothingBehindFin
<1>11. ASSUME NEW e \in Endpoint, readTCPSendQUIC_writeFails(e) PROVE NothingBehindFin'
  <2>1. CloseStream(e) /\ ~up[e] /\ tpc[e] = "write"
    BY <1>11 DEF readTCPSendQUIC_writeFails
  <2>2. stream'[Peer(e)] = stream[Peer(e)] /\ (stream'[e].fin => stream[e].fin)
    BY <2>1, StreamClosed
  <2>3. tpc'[Peer(e)] = tpc[Peer(e)] /\ UNCHANGED <<conn, app, toPump, phase>>
    BY <1>11, TwoEnds DEF readTCPSendQUIC_writeFails, tcpVars, Marks
  <2>4. \A d \in Endpoint : d = e \/ d = Peer(e)
    BY TwoEnds
  <2> QED
    BY <2>1, <2>2, <2>3, <2>4 DEF NothingBehindFin
<1>12. ASSUME NEW e \in Endpoint, readQuicSendTCP_read(e) PROVE NothingBehindFin'
  <2>1. /\ stream'[Peer(e)].fin = stream[Peer(e)].fin
        /\ stream'[e] = stream[e]
    BY <1>12, QUICRead
  <2>2. UNCHANGED <<conn, app, toPump, phase, tpc>>
    BY <1>12 DEF readQuicSendTCP_read, tcpVars, t2qVars
  <2>3. \A d \in Endpoint : d = e \/ d = Peer(e)
    BY TwoEnds
  <2> QED
    BY <2>1, <2>2, <2>3 DEF NothingBehindFin
<1>13. ASSUME NEW e \in Endpoint, readQuicSendTCP_write(e) PROVE NothingBehindFin'
  BY <1>13 DEF readQuicSendTCP_write, t2qVars, NothingBehindFin, Marks, Buffers
<1>14. ASSUME NEW e \in Endpoint, readQuicSendTCP_close(e) PROVE NothingBehindFin'
  BY <1>14 DEF readQuicSendTCP_close, CloseTCP, t2qVars, NothingBehindFin,
       Marks, Buffers
<1>15. ASSUME NEW e \in Endpoint, App_send(e) PROVE NothingBehindFin'
  BY <1>15 DEF App_send, t2qVars, NothingBehindFin, Marks, Buffers
<1>16. ASSUME NEW e \in Endpoint, App_shutdown(e) PROVE NothingBehindFin'
  BY <1>16 DEF App_shutdown, t2qVars, NothingBehindFin, Marks, Buffers
<1>17. ASSUME NEW e \in Endpoint, App_close(e) PROVE NothingBehindFin'
  BY <1>17 DEF App_close, t2qVars, NothingBehindFin, Marks, Buffers
<1>18. ASSUME NEW e \in Endpoint, SessionEnds(e) PROVE NothingBehindFin'
  <2>1. /\ stream'[e].fin = stream[e].fin
        /\ stream'[Peer(e)] = stream[Peer(e)]
    BY <1>18, StreamCut
  <2>2. UNCHANGED <<conn, app, toPump, phase, tpc>>
    BY <1>18 DEF SessionEnds, tcpVars, t2qVars
  <2>3. \A d \in Endpoint : d = e \/ d = Peer(e)
    BY TwoEnds
  <2> QED
    BY <2>1, <2>2, <2>3 DEF NothingBehindFin
<1>19. CASE UNCHANGED <<phase, tpc, conn, app, toPump, stream>>
  BY <1>19 DEF NothingBehindFin, Marks, Buffers
<1> QED
  BY <1>1, <1>2, <1>3, <1>4, <1>5, <1>6, <1>7, <1>8, <1>9, <1>10, <1>11, <1>12,
       <1>13, <1>14, <1>15, <1>16, <1>17, <1>18, <1>19 DEF Next, runAsSource,
       runAsDestination, readTCPSendQUIC, readQuicSendTCP, Apps, SessionFails,
       SessionFollows, vars, readQuicSendTCP_readFails,
       readQuicSendTCP_writeFails, App_receive, App_end, t2qVars, q2tVars,
       tcpVars, histVars

\* readQuicSendTCP closes the connection only at the end of the stream or after
\* an error.
LEMMA EndReadNext ==
  ASSUME Marks, Buffers, Streams, Holds, Phases, NothingBehindFin, EndRead, [Next]_vars
  PROVE  EndRead'
<1>1. CASE runAsSource_control
  BY <1>1 DEF runAsSource_control, StartPumps, tcpVars, histVars, EndRead,
       Marks, Phases, Endpoint
<1>2. CASE runAsSource_fails
  BY <1>2 DEF runAsSource_fails, CloseTCP, q2tVars, histVars, EndRead, Marks,
       Phases, Endpoint
<1>3. CASE runAsDestination_dial
  BY <1>3 DEF runAsDestination_dial, StartPumps, histVars, EndRead, Marks,
       Phases, Endpoint
<1>4. CASE runAsDestination_dialFails
  <2>1. "dst" \in Endpoint /\ CloseStream("dst")
    BY <1>4 DEF runAsDestination_dialFails, Endpoint
  <2>2. \A d \in Endpoint : stream'[d].data = stream[d].data /\ (stream[d].fin => stream'[d].fin)
    BY <2>1, StreamClosed, TwoEnds
  <2>3. \A d \in Endpoint : Peer(d) \in Endpoint
    BY TwoEnds
  <2> QED
    BY <1>4, <2>2, <2>3 DEF runAsDestination_dialFails, q2tVars, tcpVars,
       histVars, EndRead
<1>5. ASSUME NEW e \in Endpoint, readTCPSendQUIC_end(e) PROVE EndRead'
  <2>1. \A d \in Endpoint : stream'[d].data = stream[d].data /\ (stream[d].fin => stream'[d].fin)
    BY <1>5, StreamClosed, TwoEnds DEF readTCPSendQUIC_end
  <2>2. \A d \in Endpoint : Peer(d) \in Endpoint
    BY TwoEnds
  <2> QED
    BY <1>5, <2>1, <2>2 DEF readTCPSendQUIC_end, q2tVars, tcpVars, histVars,
       EndRead
<1>6. ASSUME NEW e \in Endpoint, readTCPSendQUIC_write(e) PROVE EndRead'
  <2>1. tpc[e] = "write" /\ ~(e = "dst" /\ phase[e] = "stopped")
    BY <1>6 DEF readTCPSendQUIC_write, Phases
  <2>2. ~stream[e].fin /\ ~qend[Peer(e)]
    BY <2>1, TwoEnds DEF NothingBehindFin, EndRead
  <2>3. stream'[Peer(e)] = stream[Peer(e)]
    BY <1>6, StreamWritten
  <2>4. \A d \in Endpoint : d = e \/ d = Peer(e)
    BY TwoEnds
  <2> QED
    BY <1>6, <2>2, <2>3, <2>4, TwoEnds
       DEF readTCPSendQUIC_write, q2tVars, tcpVars, histVars, EndRead
<1>7. ASSUME NEW e \in Endpoint, readTCPSendQUIC_writeFails(e) PROVE EndRead'
  <2>1. \A d \in Endpoint : stream'[d].data = stream[d].data /\ (stream[d].fin => stream'[d].fin)
    BY <1>7, StreamClosed, TwoEnds DEF readTCPSendQUIC_writeFails
  <2>2. \A d \in Endpoint : Peer(d) \in Endpoint
    BY TwoEnds
  <2> QED
    BY <1>7, <2>1, <2>2 DEF readTCPSendQUIC_writeFails, q2tVars, tcpVars,
       histVars, EndRead
<1>8. ASSUME NEW e \in Endpoint, readQuicSendTCP_read(e) PROVE EndRead'
  <2>1. PICK k \in 0..Len(stream[Peer(e)].data), end \in BOOLEAN :
          /\ end => k = Len(stream[Peer(e)].data) /\ stream[Peer(e)].fin
          /\ k > 0 \/ end
          /\ Streams'
          /\ stream'[Peer(e)].data = Rest(stream[Peer(e)].data, k)
          /\ stream'[Peer(e)].fin = stream[Peer(e)].fin
          /\ stream'[e] = stream[e]
          /\ qend' = [qend EXCEPT ![e] = end]
          /\ qpc' = [qpc EXCEPT ![e] = IF k > 0 THEN "write" ELSE "close"]
    BY <1>8, QUICRead
  <2>2. end => stream'[Peer(e)].data = <<>>
    <3>1. stream[Peer(e)].data \in Seq(Unit)
      BY TwoEnds DEF Streams, StreamRecord
    <3>2. /\ Rest(stream[Peer(e)].data, k) \in Seq(Unit)
          /\ Len(Rest(stream[Peer(e)].data, k)) = Len(stream[Peer(e)].data) - k
      BY <3>1, Parted
    <3> QED
      BY <2>1, <3>1, <3>2, EmptySeq
  <2>3. /\ qpc[e] = "read" /\ conn[e] # "closed" /\ ~sawEnd[e]
        /\ UNCHANGED <<conn, up, toApp, sawEnd>>
    BY <1>8 DEF readQuicSendTCP_read, tcpVars, histVars, EndRead
  <2>4. /\ Peer(e) \in Endpoint /\ Peer(Peer(e)) = e
        /\ \A d \in Endpoint : d = e \/ d = Peer(e)
    BY TwoEnds
  <2>5. /\ qend'[e] = end /\ qend'[Peer(e)] = qend[Peer(e)]
        /\ qpc'[Peer(e)] = qpc[Peer(e)]
        /\ qpc'[e] = IF k > 0 THEN "write" ELSE "close"
    BY <2>1, TwoEnds DEF Marks
  <2>6. qpc'[e] \in {"close", "done"} => end
    BY <2>1, <2>5
  <2>7. qpc'[e] # "done" /\ qpc'[e] # "off"
    BY <2>5
  <2> QED
    BY <2>1, <2>2, <2>3, <2>4, <2>5, <2>6, <2>7 DEF EndRead
<1>9. ASSUME NEW e \in Endpoint, readQuicSendTCP_readFails(e) PROVE EndRead'
  BY <1>9 DEF readQuicSendTCP_readFails, tcpVars, histVars, EndRead, Marks
<1>10. ASSUME NEW e \in Endpoint, readQuicSendTCP_write(e) PROVE EndRead'
  <2>1. /\ qpc[e] = "write" /\ conn[e] = "up" /\ ~sawEnd[e]
        /\ UNCHANGED <<qend, stream, up, sawEnd>>
    BY <1>10 DEF readQuicSendTCP_write, histVars, EndRead
  <2>2. qpc'[e] \in {"write", "close", "read"} /\ (qpc'[e] = "close" => qend[e])
    BY <1>10 DEF readQuicSendTCP_write, Marks
  <2>3. conn'[e] \in {"up", "reset"}
    BY <1>10, <2>1 DEF readQuicSendTCP_write, Marks
  <2>4. \A d \in Endpoint \ {e} : qpc'[d] = qpc[d] /\ conn'[d] = conn[d] /\ toApp'[d] = toApp[d]
    BY <1>10 DEF readQuicSendTCP_write, Marks, Buffers
  <2> QED
    BY <2>1, <2>2, <2>3, <2>4 DEF EndRead
<1>11. ASSUME NEW e \in Endpoint, readQuicSendTCP_writeFails(e) PROVE EndRead'
  BY <1>11 DEF readQuicSendTCP_writeFails, tcpVars, histVars, EndRead, Marks
<1>12. ASSUME NEW e \in Endpoint, readQuicSendTCP_close(e) PROVE EndRead'
  BY <1>12 DEF readQuicSendTCP_close, CloseTCP, histVars, EndRead, Marks
<1>13. ASSUME NEW e \in Endpoint, App_send(e) PROVE EndRead'
  BY <1>13 DEF App_send, q2tVars, EndRead, Marks
<1>14. ASSUME NEW e \in Endpoint, App_receive(e) PROVE EndRead'
  BY <1>14 DEF App_receive, q2tVars, EndRead, Marks
<1>15. ASSUME NEW e \in Endpoint, App_end(e) PROVE EndRead'
  BY <1>15 DEF App_end, q2tVars, tcpVars, EndRead, Marks
<1>16. ASSUME NEW e \in Endpoint, App_close(e) PROVE EndRead'
  BY <1>16 DEF App_close, q2tVars, histVars, EndRead, Marks
<1>17. ASSUME NEW e \in Endpoint, SessionEnds(e) PROVE EndRead'
  <2>1. PICK k \in 0..Len(stream[e].data) :
          /\ stream'[e].data = SubSeq(stream[e].data, 1, k)
          /\ stream'[e].fin = stream[e].fin
          /\ stream'[Peer(e)] = stream[Peer(e)]
    BY <1>17, StreamCut
  <2>2. stream[e].data = <<>> => stream'[e].data = <<>>
    <3>1. stream[e].data \in Seq(Unit)
      BY DEF Streams, StreamRecord
    <3>2. /\ SubSeq(stream[e].data, 1, k) \in Seq(Unit)
          /\ Len(SubSeq(stream[e].data, 1, k)) = k
      BY <3>1, Parted
    <3> QED
      BY <2>1, <3>1, <3>2, EmptySeq
  <2>3. /\ up' = [up EXCEPT ![e] = FALSE]
        /\ UNCHANGED <<qend, qpc, conn, toApp, sawEnd>>
    BY <1>17 DEF SessionEnds, q2tVars, tcpVars, histVars
  <2>4. /\ Peer(e) \in Endpoint /\ Peer(Peer(e)) = e
        /\ \A d \in Endpoint : d = e \/ d = Peer(e)
    BY TwoEnds
  <2> QED
    BY <2>1, <2>2, <2>3, <2>4 DEF EndRead, Marks
<1>18. CASE UNCHANGED <<qpc, qend, conn, toApp, stream, up, sawEnd>>
  BY <1>18 DEF EndRead, Marks
<1> QED
  BY <1>1, <1>2, <1>3, <1>4, <1>5, <1>6, <1>7, <1>8, <1>9, <1>10, <1>11, <1>12,
       <1>13, <1>14, <1>15, <1>16, <1>17, <1>18 DEF Next, runAsSource,
       runAsDestination, readTCPSendQUIC, readQuicSendTCP, Apps, SessionFails,
       SessionFollows, vars, runAsSource_open, runAsDestination_accept,
       runAsDestination_fails, readTCPSendQUIC_read, App_shutdown, t2qVars,
       q2tVars, tcpVars, histVars
-----------------------------------------------------------------------------
(* The chain of buffers.  Of one direction of the connection, these are, from  *)
(* the receiver's end: g what the application has got, t the TCP connection to *)
(* it, q the buffer of readQuicSendTCP, x the stream, b the buffer of          *)
(* readTCPSendQUIC and p the TCP connection from the other application.        *)

Near(g, t) == Run(g, 0) /\ Run(t, Len(g))
Middle(g, t, q, x) == /\ Run(q, Len(g) + Len(t))
                      /\ Run(x, Len(g) + Len(t) + Len(q))
Total(g, t, q, x) == Len(g) + Len(t) + Len(q) + Len(x)
Far(m, b, p) == Run(b, m) /\ Run(p, m + Len(b))
Whole(m, b, p, n) == m + Len(b) + Len(p) = n

\* What moving units along the chain leaves as it was.
LEMMA MoveReceive ==
  ASSUME NEW S, NEW g \in Seq(S), NEW t \in Seq(S), t # <<>>, Near(g, t),
         NEW q \in Seq(S), NEW x \in Seq(S)
  PROVE  /\ Near(Append(g, Head(t)), Tail(t))
         /\ Middle(g, t, q, x) => Middle(Append(g, Head(t)), Tail(t), q, x)
         /\ Total(Append(g, Head(t)), Tail(t), q, x) = Total(g, t, q, x)
<1>1. /\ Run(g, 0) /\ Run(t, Len(g)) /\ Len(g) \in Nat
  BY DEF Near
<1>2. Head(t) = Len(g) + 1 /\ Run(Tail(t), Len(g) + 1)
  BY <1>1, RunHeaded
<1>3. Head(t) \in S /\ Tail(t) \in Seq(S) /\ Len(Tail(t)) = Len(t) - 1
  BY Headed
<1>4. /\ Append(g, Head(t)) \in Seq(S)
      /\ Len(Append(g, Head(t))) = Len(g) + 1
  BY <1>3, Appended
<1>5. Run(Append(g, Head(t)), 0)
  <2>1. Head(t) = 0 + Len(g) + 1
    BY <1>1, <1>2
  <2> QED
    BY <1>1, <1>3, <2>1, RunAppended
<1>6. Len(Append(g, Head(t))) + Len(Tail(t)) = Len(g) + Len(t)
  BY <1>1, <1>3, <1>4
<1> QED
  BY <1>2, <1>4, <1>5, <1>6 DEF Near, Middle, Total

\* Write to TCP: from q to t.
LEMMA MoveWriteTCP ==
  ASSUME NEW S, NEW g \in Seq(S), NEW t \in Seq(S), NEW q \in Seq(S), q # <<>>,
         NEW x \in Seq(S), Near(g, t), Middle(g, t, q, x)
  PROVE  /\ Near(g, Append(t, Head(q)))
         /\ Middle(g, Append(t, Head(q)), Tail(q), x)
         /\ Total(g, Append(t, Head(q)), Tail(q), x) = Total(g, t, q, x)
<1>1. /\ Run(g, 0) /\ Run(t, Len(g)) /\ Len(g) \in Nat /\ Len(t) \in Nat
      /\ Run(q, Len(g) + Len(t)) /\ Run(x, Len(g) + Len(t) + Len(q))
  BY DEF Near, Middle
<1>2. Head(q) = Len(g) + Len(t) + 1 /\ Run(Tail(q), Len(g) + Len(t) + 1)
  BY <1>1, RunHeaded
<1>3. Head(q) \in S /\ Tail(q) \in Seq(S) /\ Len(Tail(q)) = Len(q) - 1
  BY Headed
<1>4. /\ Append(t, Head(q)) \in Seq(S)
      /\ Len(Append(t, Head(q))) = Len(t) + 1
  BY <1>3, Appended
<1>5. Run(Append(t, Head(q)), Len(g))
  BY <1>1, <1>2, <1>3, RunAppended
<1>6. /\ Len(g) + Len(Append(t, Head(q))) = Len(g) + Len(t) + 1
      /\ Len(g) + Len(Append(t, Head(q))) + Len(Tail(q)) = Len(g) + Len(t) + Len(q)
  BY <1>1, <1>3, <1>4
<1> QED
  BY <1>1, <1>2, <1>5, <1>6 DEF Near, Middle, Total

\* Read from the stream: from x to q.
LEMMA MoveReadQUIC ==
  ASSUME NEW S, NEW g \in Seq(S), NEW t \in Seq(S), NEW q \in Seq(S), q = <<>>,
         NEW x \in Seq(S), Middle(g, t, q, x), NEW k \in 0..Len(x)
  PROVE  /\ Middle(g, t, SubSeq(x, 1, k), Rest(x, k))
         /\ Total(g, t, SubSeq(x, 1, k), Rest(x, k)) = Total(g, t, q, x)
<1>1. /\ Len(g) \in Nat /\ Len(t) \in Nat /\ Len(q) = 0 /\ Len(x) \in Nat
      /\ Len(g) + Len(t) + Len(q) = Len(g) + Len(t)
  OBVIOUS
<1>2. Run(x, Len(g) + Len(t))
  BY <1>1 DEF Middle
<1>3. Run(SubSeq(x, 1, k), Len(g) + Len(t)) /\ Run(Rest(x, k), Len(g) + Len(t) + k)
  BY <1>1, <1>2, RunParted
<1>4. /\ Len(SubSeq(x, 1, k)) = k /\ Len(Rest(x, k)) = Len(x) - k
      /\ k \in Nat
  <2>1. k \in Nat
    BY <1>1
  <2> QED
    BY <2>1, Parted
<1>5. Middle(g, t, SubSeq(x, 1, k), Rest(x, k))
  BY <1>3, <1>4 DEF Middle
<1>6. Total(g, t, SubSeq(x, 1, k), Rest(x, k)) = Len(g) + Len(t) + k + (Len(x) - k)
  BY <1>4 DEF Total
<1>7. Total(g, t, q, x) = Len(g) + Len(t) + Len(x)
  BY <1>1 DEF Total
<1> QED
  BY <1>1, <1>4, <1>5, <1>6, <1>7

\* Write to the stream: from b to x.
LEMMA MoveWriteQUIC ==
  ASSUME NEW S, NEW g \in Seq(S), NEW t \in Seq(S), NEW q \in Seq(S), NEW x \in Seq(S),
         NEW b \in Seq(S), b # <<>>, NEW p \in Seq(S),
         Middle(g, t, q, x), Far(Total(g, t, q, x), b, p)
  PROVE  /\ Middle(g, t, q, Append(x, Head(b)))
         /\ Far(Total(g, t, q, Append(x, Head(b))), Tail(b), p)
         /\ \A n \in Nat : Whole(Total(g, t, q, x), b, p, n)
              => Whole(Total(g, t, q, Append(x, Head(b))), Tail(b), p, n)
<1> DEFINE m == Len(g) + Len(t) + Len(q) + Len(x)
<1>1. /\ Len(g) \in Nat /\ Len(t) \in Nat /\ Len(q) \in Nat /\ Len(x) \in Nat
      /\ m \in Nat /\ Total(g, t, q, x) = m
      /\ Run(q, Len(g) + Len(t)) /\ Run(x, Len(g) + Len(t) + Len(q))
  BY DEF Middle, Total
<1>2. Run(b, m) /\ Run(p, m + Len(b))
  BY <1>1 DEF Far
<1>3. Head(b) = m + 1 /\ Run(Tail(b), m + 1)
  BY <1>1, <1>2, RunHeaded
<1>4. Head(b) \in S /\ Tail(b) \in Seq(S) /\ Len(Tail(b)) = Len(b) - 1 /\ Len(b) \in Nat
  BY Headed
<1>5. Len(Append(x, Head(b))) = Len(x) + 1
  BY <1>4, Appended
<1>6. Run(Append(x, Head(b)), Len(g) + Len(t) + Len(q))
  <2>1. Head(b) = Len(g) + Len(t) + Len(q) + Len(x) + 1
    BY <1>3
  <2> QED
    BY <1>1, <1>4, <2>1, RunAppended
<1>7. /\ Total(g, t, q, Append(x, Head(b))) = m + 1
      /\ m + 1 + Len(Tail(b)) = m + Len(b)
  BY <1>1, <1>4, <1>5 DEF Total
<1> HIDE DEF m
<1> QED
  BY <1>1, <1>2, <1>3, <1>6, <1>7 DEF Middle, Far, Whole

\* Read from TCP: from p to b.
LEMMA MoveReadTCP ==
  ASSUME NEW S, NEW m \in Nat, NEW b \in Seq(S), b = <<>>, NEW p \in Seq(S),
         Far(m, b, p), NEW k \in 0..Len(p)
  PROVE  /\ Far(m, SubSeq(p, 1, k), Rest(p, k))
         /\ \A n \in Nat : Whole(m, b, p, n) => Whole(m, SubSeq(p, 1, k), Rest(p, k), n)
<1>1. Len(b) = 0 /\ m + Len(b) = m /\ Len(p) \in Nat
  OBVIOUS
<1>2. Run(p, m)
  BY <1>1 DEF Far
<1>3. Run(SubSeq(p, 1, k), m) /\ Run(Rest(p, k), m + k)
  BY <1>2, RunParted
<1>4. Len(SubSeq(p, 1, k)) = k /\ Len(Rest(p, k)) = Len(p) - k
  BY Parted
<1> QED
  BY <1>1, <1>3, <1>4 DEF Far, Whole

\* The application sends: one more in p.
LEMMA MoveSend ==
  ASSUME NEW S, NEW m \in Nat, NEW b \in Seq(S), NEW p \in Seq(S),
         NEW n \in Nat, n + 1 \in S, Far(m, b, p), Whole(m, b, p, n)
  PROVE  Far(m, b, Append(p, n + 1)) /\ Whole(m, b, Append(p, n + 1), n + 1)
<1>1. Len(b) \in Nat /\ Len(p) \in Nat /\ m + Len(b) \in Nat
  OBVIOUS
<1>2. Run(b, m) /\ Run(p, m + Len(b)) /\ n + 1 = m + Len(b) + Len(p) + 1
  BY DEF Far, Whole
<1>3. Run(Append(p, n + 1), m + Len(b))
  BY <1>1, <1>2, RunAppended
<1>4. Len(Append(p, n + 1)) = Len(p) + 1
  BY Appended
<1> QED
  BY <1>1, <1>2, <1>3, <1>4 DEF Far, Whole

\* The end of the session: the chain is cut in x.
LEMMA MoveCut ==
  ASSUME NEW S, NEW g \in Seq(S), NEW t \in Seq(S), NEW q \in Seq(S), NEW x \in Seq(S),
         Middle(g, t, q, x), NEW k \in 0..Len(x)
  PROVE  Middle(g, t, q, SubSeq(x, 1, k))
<1>1. Len(g) + Len(t) + Len(q) \in Nat
  OBVIOUS
<1> QED
  BY <1>1, RunParted DEF Middle

\* A total of lengths is a number.
LEMMA TotalIsNat ==
  ASSUME NEW S, NEW g \in Seq(S), NEW t \in Seq(S), NEW q \in Seq(S), NEW x \in Seq(S)
  PROVE  Total(g, t, q, x) \in Nat
  BY DEF Total

-----------------------------------------------------------------------------
\* What e has been given can still be passed on to its application.
Linked(e) ==
  app[e] # "closed" /\ (qpc[e] \in {"off", "read", "write"} \/ conn[e] # "reset" \/ sawEnd[e])

\* How many units on their way to e have left its peer.
Arrived(e) == Total(got[e], toApp[e], qbuf[e], stream[Peer(e)].data)

\* The chain towards e is whole while the connections at both ends and the
\* session are there, else as much of it as can still come to e.
ChainTo(e) ==
  /\ Near(got[e], toApp[e])
  /\ Linked(e) => Middle(got[e], toApp[e], qbuf[e], stream[Peer(e)].data)
  /\ Linked(e) /\ up[Peer(e)] => Far(Arrived(e), tbuf[Peer(e)], toPump[Peer(e)])
  /\ Linked(e) /\ up[Peer(e)] /\ conn[Peer(e)] # "reset" =>
       Whole(Arrived(e), tbuf[Peer(e)], toPump[Peer(e)], sent[Peer(e)])

Chain == \A e \in Endpoint : ChainTo(e)

\* The buffers that make the chain towards d.
LEMMA Sequences ==
  ASSUME Buffers, Streams, Counts, NEW d \in Endpoint
  PROVE  /\ Peer(d) \in Endpoint
         /\ got[d] \in Seq(Unit) /\ toApp[d] \in Seq(Unit) /\ qbuf[d] \in Seq(Unit)
         /\ stream[Peer(d)].data \in Seq(Unit) /\ tbuf[Peer(d)] \in Seq(Unit)
         /\ toPump[Peer(d)] \in Seq(Unit) /\ sent[Peer(d)] \in Nat
         /\ Arrived(d) \in Nat
<1>1. Peer(d) \in Endpoint
  BY TwoEnds
<1>2. /\ got[d] \in Seq(Unit) /\ toApp[d] \in Seq(Unit) /\ qbuf[d] \in Seq(Unit)
      /\ stream[Peer(d)].data \in Seq(Unit) /\ tbuf[Peer(d)] \in Seq(Unit)
      /\ toPump[Peer(d)] \in Seq(Unit) /\ sent[Peer(d)] \in Nat
  BY <1>1 DEF Buffers, Streams, StreamRecord, Counts
<1>3. Arrived(d) \in Nat
  BY <1>2, TotalIsNat DEF Arrived
<1> QED
  BY <1>1, <1>2, <1>3

\* A step that moves nothing towards d, though it may break the chain.
LEMMA ChainStays ==
  ASSUME NEW d \in Endpoint, ChainTo(d), Linked(d)' => Linked(d),
         got'[d] = got[d], toApp'[d] = toApp[d], qbuf'[d] = qbuf[d],
         stream'[Peer(d)].data = stream[Peer(d)].data,
         up'[Peer(d)] => /\ up[Peer(d)] /\ tbuf'[Peer(d)] = tbuf[Peer(d)]
                         /\ toPump'[Peer(d)] = toPump[Peer(d)]
                         /\ conn'[Peer(d)] # "reset" =>
                              conn[Peer(d)] # "reset" /\ sent'[Peer(d)] = sent[Peer(d)]
  PROVE  ChainTo(d)'
  BY DEF ChainTo, Arrived

\* The same with what is dropped where it can no longer pass.
LEMMA ChainBreaks ==
  ASSUME NEW d \in Endpoint, ChainTo(d), ~Linked(d)',
         got'[d] = got[d], toApp'[d] = toApp[d]
  PROVE  ChainTo(d)'
  BY DEF ChainTo

\* The same moves as steps of the program: the application at d receives.
LEMMA ChainReceive ==
  ASSUME Buffers, Streams, Counts, NEW d \in Endpoint, ChainTo(d), App_receive(d)
  PROVE  ChainTo(d)'
<1>1. /\ toApp[d] # <<>> /\ toApp'[d] = Tail(toApp[d])
      /\ got'[d] = Append(got[d], Head(toApp[d]))
      /\ UNCHANGED <<qbuf, stream, tbuf, toPump, sent, up, conn>>
      /\ Linked(d)' <=> Linked(d)
  BY DEF App_receive, t2qVars, q2tVars, Buffers, Linked
<1>2. /\ Near(got'[d], toApp'[d])
      /\ Middle(got[d], toApp[d], qbuf[d], stream[Peer(d)].data) =>
           Middle(got'[d], toApp'[d], qbuf[d], stream[Peer(d)].data)
      /\ Arrived(d)' = Arrived(d)
  BY <1>1, Sequences, MoveReceive DEF ChainTo, Arrived
<1> QED
  BY <1>1, <1>2 DEF ChainTo

\* readQuicSendTCP at d writes.
LEMMA ChainWriteTCP ==
  ASSUME Marks, Buffers, Streams, Counts, Holds, NEW d \in Endpoint, ChainTo(d),
         readQuicSendTCP_write(d)
  PROVE  ChainTo(d)'
<1>1. /\ qbuf[d] # <<>> /\ qbuf'[d] = Tail(qbuf[d])
      /\ UNCHANGED <<got, stream, tbuf, toPump, sent, up>>
      /\ conn'[Peer(d)] = conn[Peer(d)]
  BY TwoEnds DEF readQuicSendTCP_write, t2qVars, histVars, Buffers, Holds, Marks
<1>2. CASE app[d] = "closed"
  <2>1. toApp' = toApp /\ ~Linked(d)'
    BY <1>2 DEF readQuicSendTCP_write, Linked
  <2> QED
    BY <1>1, <2>1, ChainBreaks
<1>3. CASE app[d] # "closed"
  <2>1. toApp'[d] = Append(toApp[d], Head(qbuf[d])) /\ Linked(d)
    BY <1>3 DEF readQuicSendTCP_write, Buffers, Linked
  <2>2. /\ Near(got'[d], toApp'[d])
        /\ Middle(got'[d], toApp'[d], qbuf'[d], stream'[Peer(d)].data)
        /\ Arrived(d)' = Arrived(d)
    BY <1>1, <2>1, Sequences, MoveWriteTCP DEF ChainTo, Arrived
  <2> QED
    BY <1>1, <2>1, <2>2 DEF ChainTo
<1> QED
  BY <1>2, <1>3

\* readQuicSendTCP at d reads.
LEMMA ChainReadQUIC ==
  ASSUME Marks, Buffers, Streams, Counts, Holds, NEW d \in Endpoint, ChainTo(d),
         readQuicSendTCP_read(d)
  PROVE  ChainTo(d)'
<1> DEFINE x == stream[Peer(d)].data
<1>1. PICK k \in 0..Len(x) :
        /\ stream'[Peer(d)].data = Rest(x, k)
        /\ qbuf' = [qbuf EXCEPT ![d] = SubSeq(x, 1, k)]
  BY QUICRead
<1>2. /\ qbuf[d] = <<>> /\ qbuf'[d] = SubSeq(x, 1, k) /\ (Linked(d)' => Linked(d))
      /\ UNCHANGED <<got, toApp, tbuf, toPump, sent, up, conn>>
  BY <1>1 DEF readQuicSendTCP_read, t2qVars, tcpVars, histVars, Buffers, Holds,
     Linked
<1>3. Linked(d) =>
        /\ Middle(got[d], toApp[d], SubSeq(x, 1, k), Rest(x, k))
        /\ Total(got[d], toApp[d], SubSeq(x, 1, k), Rest(x, k)) = Arrived(d)
  BY <1>2, Sequences, MoveReadQUIC DEF ChainTo, Arrived
<1> HIDE DEF x
<1>4. Arrived(d)' = Total(got[d], toApp[d], SubSeq(x, 1, k), Rest(x, k))
  BY <1>1, <1>2 DEF Arrived
<1> QED
  BY <1>1, <1>2, <1>3, <1>4 DEF ChainTo

\* readTCPSendQUIC at the other endpoint writes.
LEMMA ChainWriteQUIC ==
  ASSUME Marks, Buffers, Streams, Counts, Holds, NEW d \in Endpoint, ChainTo(d),
         readTCPSendQUIC_write(Peer(d))
  PROVE  ChainTo(d)'
<1> DEFINE s == Peer(d)
<1>1. /\ s \in Endpoint /\ stream'[s].data = Append(stream[s].data, Head(tbuf[s]))
  BY TwoEnds, StreamWritten
<1>2. /\ tbuf[s] # <<>> /\ tbuf'[s] = Tail(tbuf[s]) /\ up[s]
      /\ UNCHANGED <<got, toApp, qbuf, toPump, sent, up, conn>>
      /\ Linked(d)' <=> Linked(d)
  BY <1>1 DEF readTCPSendQUIC_write, q2tVars, tcpVars, histVars, Buffers,
     Holds, Linked
<1>3. Linked(d) =>
        /\ Middle(got[d], toApp[d], qbuf[d], stream'[s].data)
        /\ Far(Arrived(d)', tbuf'[s], toPump[s])
        /\ Whole(Arrived(d), tbuf[s], toPump[s], sent[s])
             => Whole(Arrived(d)', tbuf'[s], toPump[s], sent[s])
  <2> SUFFICES ASSUME Linked(d)
               PROVE  /\ Middle(got[d], toApp[d], qbuf[d], stream'[s].data)
                      /\ Far(Arrived(d)', tbuf'[s], toPump[s])
                      /\ Whole(Arrived(d), tbuf[s], toPump[s], sent[s])
                           => Whole(Arrived(d)', tbuf'[s], toPump[s], sent[s])
    OBVIOUS
  <2>1. /\ Middle(got[d], toApp[d], qbuf[d], stream[s].data)
        /\ Far(Total(got[d], toApp[d], qbuf[d], stream[s].data), tbuf[s], toPump[s])
    BY <1>2 DEF ChainTo, Arrived
  <2>2. Arrived(d)' = Total(got[d], toApp[d], qbuf[d], Append(stream[s].data, Head(tbuf[s])))
    BY <1>1, <1>2 DEF Arrived
  <2>3. /\ got[d] \in Seq(Unit) /\ toApp[d] \in Seq(Unit) /\ qbuf[d] \in Seq(Unit)
        /\ stream[s].data \in Seq(Unit) /\ tbuf[s] \in Seq(Unit)
        /\ toPump[s] \in Seq(Unit) /\ sent[s] \in Nat
    BY Sequences
  <2>4. tbuf[s] # <<>>
    BY <1>2
  <2> HIDE DEF s
  <2>5. LET x == Append(stream[s].data, Head(tbuf[s])) IN
        /\ Middle(got[d], toApp[d], qbuf[d], x)
        /\ Far(Total(got[d], toApp[d], qbuf[d], x), Tail(tbuf[s]), toPump[s])
        /\ \A n \in Nat :
             Whole(Total(got[d], toApp[d], qbuf[d], stream[s].data), tbuf[s], toPump[s], n)
               => Whole(Total(got[d], toApp[d], qbuf[d], x), Tail(tbuf[s]), toPump[s], n)
    BY <2>1, <2>3, <2>4, MoveWriteQUIC
  <2>6. /\ Middle(got[d], toApp[d], qbuf[d], Append(stream[s].data, Head(tbuf[s])))
        /\ Far(Arrived(d)', Tail(tbuf[s]), toPump[s])
        /\ Whole(Total(got[d], toApp[d], qbuf[d], stream[s].data), tbuf[s], toPump[s], sent[s])
             => Whole(Arrived(d)', Tail(tbuf[s]), toPump[s], sent[s])
    BY <2>2, <2>3, <2>5
  <2> USE DEF s
  <2> QED
    BY <1>1, <1>2, <2>6 DEF Arrived
<1> QED
  BY <1>2, <1>3 DEF ChainTo

\* readTCPSendQUIC at the other endpoint reads.
LEMMA ChainReadTCP ==
  ASSUME Marks, Buffers, Streams, Counts, Holds, NEW d \in Endpoint, ChainTo(d),
         readTCPSendQUIC_read(Peer(d))
  PROVE  ChainTo(d)'
<1> DEFINE s == Peer(d)
<1>1. PICK k \in 0..Len(toPump[s]) :
        /\ tbuf' = [tbuf EXCEPT ![s] = SubSeq(toPump[s], 1, k)]
        /\ toPump' = [toPump EXCEPT ![s] = Rest(toPump[s], k)]
  BY TwoEnds, TCPRead
<1>2. /\ tbuf[s] = <<>> /\ tbuf'[s] = SubSeq(toPump[s], 1, k)
      /\ toPump'[s] = Rest(toPump[s], k)
      /\ UNCHANGED <<got, toApp, qbuf, stream, sent, up, conn>>
      /\ Linked(d)' <=> Linked(d)
  BY <1>1, TwoEnds DEF readTCPSendQUIC_read, q2tVars, histVars, Buffers, Holds,
     Linked
<1>3. Arrived(d)' = Arrived(d)
  BY <1>2 DEF Arrived
<1>4. Linked(d) /\ up[s] =>
        /\ Far(Arrived(d), tbuf'[s], toPump'[s])
        /\ Whole(Arrived(d), tbuf[s], toPump[s], sent[s])
             => Whole(Arrived(d), tbuf'[s], toPump'[s], sent[s])
  BY <1>2, Sequences, MoveReadTCP DEF ChainTo
<1> QED
  BY <1>2, <1>3, <1>4 DEF ChainTo

\* The application at the other endpoint sends.
LEMMA ChainSend ==
  ASSUME Marks, Buffers, Streams, Counts, Holds, NEW d \in Endpoint, ChainTo(d),
         App_send(Peer(d))
  PROVE  ChainTo(d)'
<1> DEFINE s == Peer(d)
<1>1. /\ s \in Endpoint /\ d # s /\ sent'[s] = sent[s] + 1 /\ sent[s] + 1 \in Unit
      /\ UNCHANGED <<got, toApp, qbuf, stream, tbuf, up>>
  <2>1. s \in Endpoint /\ d # s
    BY TwoEnds
  <2>2. sent'[s] = sent[s] + 1 /\ UNCHANGED <<got, toApp, qbuf, stream, tbuf, up>>
    BY <2>1 DEF App_send, t2qVars, q2tVars, Counts
  <2>3. sent[s] + 1 \in Unit
    BY <2>1, ForwardingAssumption DEF App_send, Counts, Unit, Endpoint
  <2> QED
    BY <2>1, <2>2, <2>3
<1>2. Linked(d)' <=> Linked(d)
  BY <1>1 DEF App_send, q2tVars, Linked, Marks
<1>3. Arrived(d)' = Arrived(d)
  BY <1>1 DEF Arrived
<1>4. CASE conn[s] = "up"
  <2>1. toPump'[s] = Append(toPump[s], sent[s] + 1) /\ conn' = conn
    BY <1>1, <1>4 DEF App_send, Buffers
  <2>2. Linked(d) /\ up[s] =>
          /\ Far(Arrived(d), tbuf[s], toPump'[s])
          /\ Whole(Arrived(d), tbuf[s], toPump'[s], sent'[s])
    BY <1>1, <1>4, <2>1, Sequences, MoveSend DEF ChainTo
  <2> QED
    BY <1>1, <1>2, <1>3, <2>1, <2>2 DEF ChainTo
<1>5. CASE conn[s] # "up"
  <2>1. toPump' = toPump /\ conn'[s] = "reset"
    BY <1>1, <1>5 DEF App_send, Marks
  <2> QED
    BY <1>1, <1>2, <2>1, ChainStays
<1> QED
  BY <1>4, <1>5

\* The session ends at the other endpoint.
LEMMA ChainCut ==
  ASSUME Marks, Buffers, Streams, Counts, NEW d \in Endpoint, ChainTo(d),
         SessionEnds(Peer(d))
  PROVE  ChainTo(d)'
<1> DEFINE s == Peer(d)
<1>1. s \in Endpoint
  BY TwoEnds
<1>2. PICK k \in 0..Len(stream[s].data) : stream'[s].data = SubSeq(stream[s].data, 1, k)
  BY <1>1, StreamCut
<1>3. /\ ~up'[s] /\ UNCHANGED <<got, toApp, qbuf>>
      /\ Linked(d)' <=> Linked(d)
  BY <1>1 DEF SessionEnds, q2tVars, tcpVars, histVars, Marks, Linked
<1>4. Linked(d) => Middle(got[d], toApp[d], qbuf[d], stream'[s].data)
  BY <1>2, Sequences, MoveCut DEF ChainTo
<1> QED
  BY <1>3, <1>4 DEF ChainTo

\* A step that moves nothing in either direction.
LEMMA NothingMoves ==
  ASSUME Chain, UNCHANGED <<got, toApp, qbuf, tbuf, toPump, sent>>,
         \A d \in Endpoint : stream'[d].data = stream[d].data,
         \A d \in Endpoint : Linked(d)' => Linked(d),
         \A d \in Endpoint : /\ up'[d] => up[d]
                             /\ conn'[d] # "reset" => conn[d] # "reset"
  PROVE  Chain'
<1> SUFFICES ASSUME NEW d \in Endpoint PROVE ChainTo(d)'
  BY DEF Chain
<1>1. Peer(d) \in Endpoint
  BY TwoEnds
<1> QED
  BY <1>1, ChainStays DEF Chain

\* Every step keeps the chains of both directions.
LEMMA ChainNext ==
  ASSUME Marks, Buffers, Streams, Counts, Holds, Phases,
         NothingBehindFin, EndRead, Chain, [Next]_vars
  PROVE  Chain'
<1>1. CASE runAsSource_control
  <2>1. UNCHANGED <<got, toApp, qbuf, stream, tbuf, toPump, sent, up, conn>>
    BY <1>1 DEF runAsSource_control, StartPumps, tcpVars, histVars
  <2>2. qpc["src"] = "off"
    BY <1>1 DEF runAsSource_control, Phases, Endpoint
  <2>3. \A d \in Endpoint : Linked(d)' => Linked(d)
    BY <1>1, <2>2 DEF runAsSource_control, StartPumps, tcpVars, histVars,
       Linked, Marks, Endpoint
  <2> QED
    BY <2>1, <2>3, NothingMoves
<1>2. CASE runAsSource_fails
  <2>1. UNCHANGED <<got, toApp, qbuf, stream, tbuf, toPump, sent, up>>
    BY <1>2 DEF runAsSource_fails, t2qVars, q2tVars, histVars
  <2>2. qpc["src"] = "off"
    BY <1>2 DEF runAsSource_fails, Phases, Endpoint
  <2>3. \A d \in Endpoint : Linked(d)' => Linked(d)
    BY <1>2, <2>2 DEF runAsSource_fails, CloseTCP, q2tVars, histVars, Linked,
       Marks, Endpoint
  <2>4. \A d \in Endpoint : conn'[d] # "reset" => conn[d] # "reset"
    BY <1>2 DEF runAsSource_fails, CloseTCP, Marks, Endpoint
  <2> QED
    BY <2>1, <2>3, <2>4, NothingMoves
<1>3. CASE runAsDestination_dial
  <2>1. UNCHANGED <<got, toApp, qbuf, stream, tbuf, toPump, sent, up>>
    BY <1>3 DEF runAsDestination_dial, histVars
  <2>2. qpc["dst"] = "off" /\ conn["dst"] = "none"
    BY <1>3 DEF runAsDestination_dial, Phases, Endpoint
  <2>3. \A d \in Endpoint : Linked(d)' => Linked(d)
    BY <1>3, <2>2 DEF runAsDestination_dial, StartPumps, histVars, Linked,
       Marks, Endpoint
  <2>4. \A d \in Endpoint : conn'[d] # "reset" => conn[d] # "reset"
    BY <1>3, <2>2 DEF runAsDestination_dial, Marks, Endpoint
  <2> QED
    BY <2>1, <2>3, <2>4, NothingMoves
<1>4. CASE runAsDestination_dialFails
  <2>1. \A d \in Endpoint : stream'[d].data = stream[d].data
    BY <1>4, StreamClosed, TwoEnds DEF runAsDestination_dialFails, Endpoint
  <2>2. UNCHANGED <<got, toApp, qbuf, tbuf, toPump, sent, up, conn>>
    BY <1>4 DEF runAsDestination_dialFails, t2qVars, q2tVars, tcpVars, histVars
  <2>3. \A d \in Endpoint : Linked(d)' => Linked(d)
    BY <1>4 DEF runAsDestination_dialFails, q2tVars, tcpVars, histVars, Linked
  <2> QED
    BY <2>1, <2>2, <2>3, NothingMoves
<1>5. ASSUME NEW e \in Endpoint, readTCPSendQUIC_read(e) PROVE Chain'
  <2>1. Peer(e) \in Endpoint /\ Peer(Peer(e)) = e /\ Peer(e) # e
    BY TwoEnds
  <2>2. ChainTo(Peer(e))'
    BY <1>5, <2>1, ChainReadTCP DEF Chain
  <2>3. ChainTo(e)'
    <3>1. /\ got'[e] = got[e] /\ toApp'[e] = toApp[e] /\ qbuf'[e] = qbuf[e]
          /\ up'[Peer(e)] = up[Peer(e)] /\ tbuf'[Peer(e)] = tbuf[Peer(e)]
          /\ toPump'[Peer(e)] = toPump[Peer(e)] /\ sent'[Peer(e)] = sent[Peer(e)]
          /\ conn'[Peer(e)] # "reset" => conn[Peer(e)] # "reset"
      BY <1>5, <2>1 DEF readTCPSendQUIC_read, q2tVars, histVars, Buffers,
         Counts, Marks
    <3>2. stream'[Peer(e)].data = stream[Peer(e)].data
      BY <1>5, <2>1 DEF readTCPSendQUIC_read
    <3>3. Linked(e)' => Linked(e)
      BY <1>5, <2>1 DEF readTCPSendQUIC_read, q2tVars, histVars, Linked, Marks
    <3> QED
      BY <2>1, <3>1, <3>2, <3>3, ChainStays DEF Chain
  <2> QED
    BY <2>2, <2>3, TwoEnds DEF Chain
<1>6. ASSUME NEW e \in Endpoint, readTCPSendQUIC_end(e) PROVE Chain'
  <2>1. \A d \in Endpoint : stream'[d].data = stream[d].data
    BY <1>6, StreamClosed, TwoEnds DEF readTCPSendQUIC_end
  <2>2. UNCHANGED <<got, toApp, qbuf, tbuf, toPump, sent, up, conn>>
    BY <1>6 DEF readTCPSendQUIC_end, t2qVars, q2tVars, tcpVars, histVars
  <2>3. \A d \in Endpoint : Linked(d)' => Linked(d)
    BY <1>6 DEF readTCPSendQUIC_end, q2tVars, tcpVars, histVars, Linked
  <2> QED
    BY <2>1, <2>2, <2>3, NothingMoves
<1>7. ASSUME NEW e \in Endpoint, readTCPSendQUIC_write(e) PROVE Chain'
  <2>1. Peer(e) \in Endpoint /\ Peer(Peer(e)) = e /\ Peer(e) # e
    BY TwoEnds
  <2>2. ChainTo(Peer(e))'
    BY <1>7, <2>1, ChainWriteQUIC DEF Chain
  <2>3. ChainTo(e)'
    <3>1. /\ got'[e] = got[e] /\ toApp'[e] = toApp[e] /\ qbuf'[e] = qbuf[e]
          /\ up'[Peer(e)] = up[Peer(e)] /\ tbuf'[Peer(e)] = tbuf[Peer(e)]
          /\ toPump'[Peer(e)] = toPump[Peer(e)] /\ sent'[Peer(e)] = sent[Peer(e)]
          /\ conn'[Peer(e)] # "reset" => conn[Peer(e)] # "reset"
      BY <1>7, <2>1 DEF readTCPSendQUIC_write, q2tVars, tcpVars, histVars,
         Buffers, Counts, Marks
    <3>2. stream'[Peer(e)].data = stream[Peer(e)].data
      BY <1>7, StreamWritten
    <3>3. Linked(e)' => Linked(e)
      BY <1>7, <2>1 DEF readTCPSendQUIC_write, q2tVars, tcpVars, histVars,
         Linked, Marks
    <3> QED
      BY <2>1, <3>1, <3>2, <3>3, ChainStays DEF Chain
  <2> QED
    BY <2>2, <2>3, TwoEnds DEF Chain
<1>8. ASSUME NEW e \in Endpoint, readTCPSendQUIC_writeFails(e) PROVE Chain'
  <2>1. \A d \in Endpoint : stream'[d].data = stream[d].data
    BY <1>8, StreamClosed, TwoEnds DEF readTCPSendQUIC_writeFails
  <2>2. ~up[e] /\ UNCHANGED <<got, toApp, qbuf, toPump, sent, up, conn>>
    BY <1>8 DEF readTCPSendQUIC_writeFails, q2tVars, tcpVars, histVars
  <2>3. \A d \in Endpoint : Linked(d)' => Linked(d)
    BY <1>8 DEF readTCPSendQUIC_writeFails, q2tVars, tcpVars, histVars, Linked
  <2>4. \A d \in Endpoint \ {e} : tbuf'[d] = tbuf[d]
    BY <1>8 DEF readTCPSendQUIC_writeFails, Buffers
  <2>5. ASSUME NEW d \in Endpoint PROVE ChainTo(d)'
    <3>1. Peer(d) \in Endpoint
      BY TwoEnds
    <3> QED
      BY <2>1, <2>2, <2>3, <2>4, <3>1, ChainStays DEF Chain
  <2> QED
    BY <2>5 DEF Chain
<1>9. ASSUME NEW e \in Endpoint, readQuicSendTCP_read(e) PROVE Chain'
  <2>1. Peer(e) \in Endpoint /\ Peer(Peer(e)) = e /\ Peer(e) # e
    BY TwoEnds
  <2>2. ChainTo(e)'
    BY <1>9, <2>1, ChainReadQUIC DEF Chain
  <2>3. ChainTo(Peer(e))'
    <3>1. /\ got'[Peer(e)] = got[Peer(e)] /\ toApp'[Peer(e)] = toApp[Peer(e)] /\ qbuf'[Peer(e)] = qbuf[Peer(e)]
          /\ up'[e] = up[e] /\ tbuf'[e] = tbuf[e]
          /\ toPump'[e] = toPump[e] /\ sent'[e] = sent[e]
          /\ conn'[e] # "reset" => conn[e] # "reset"
      BY <1>9, <2>1 DEF readQuicSendTCP_read, t2qVars, tcpVars, histVars,
         Buffers, Counts, Marks
    <3>2. stream'[e].data = stream[e].data
      BY <1>9, QUICRead
    <3>3. Linked(Peer(e))' => Linked(Peer(e))
      BY <1>9, <2>1 DEF readQuicSendTCP_read, t2qVars, tcpVars, histVars,
         Linked, Marks
    <3> QED
      BY <2>1, <3>1, <3>2, <3>3, ChainStays DEF Chain
  <2> QED
    BY <2>2, <2>3, TwoEnds DEF Chain
<1>10. ASSUME NEW e \in Endpoint, readQuicSendTCP_readFails(e) PROVE Chain'
  <2>1. UNCHANGED <<got, toApp, qbuf, stream, tbuf, toPump, sent, up>>
    BY <1>10 DEF readQuicSendTCP_readFails, t2qVars, q2tVars, tcpVars, histVars
  <2>2. \A d \in Endpoint : Linked(d)' => Linked(d)
    BY <1>10 DEF readQuicSendTCP_readFails, tcpVars, histVars, Linked, Marks
  <2>3. \A d \in Endpoint : conn'[d] # "reset" => conn[d] # "reset"
    BY <1>10 DEF readQuicSendTCP_readFails, tcpVars, histVars, Linked, Marks
  <2> QED
    BY <2>1, <2>2, <2>3, NothingMoves
<1>11. ASSUME NEW e \in Endpoint, readQuicSendTCP_write(e) PROVE Chain'
  <2>1. Peer(e) \in Endpoint /\ Peer(Peer(e)) = e /\ Peer(e) # e
    BY TwoEnds
  <2>2. ChainTo(e)'
    BY <1>11, <2>1, ChainWriteTCP DEF Chain
  <2>3. ChainTo(Peer(e))'
    <3>1. /\ got'[Peer(e)] = got[Peer(e)] /\ toApp'[Peer(e)] = toApp[Peer(e)] /\ qbuf'[Peer(e)] = qbuf[Peer(e)]
          /\ up'[e] = up[e] /\ tbuf'[e] = tbuf[e]
          /\ toPump'[e] = toPump[e] /\ sent'[e] = sent[e]
          /\ conn'[e] # "reset" => conn[e] # "reset"
      BY <1>11, <2>1 DEF readQuicSendTCP_write, t2qVars, histVars, Buffers,
         Counts, Marks
    <3>2. stream'[e].data = stream[e].data
      BY <1>11, <2>1 DEF readQuicSendTCP_write
    <3>3. Linked(Peer(e))' => Linked(Peer(e))
      BY <1>11, <2>1 DEF readQuicSendTCP_write, t2qVars, histVars, Linked, Marks
    <3> QED
      BY <2>1, <3>1, <3>2, <3>3, ChainStays DEF Chain
  <2> QED
    BY <2>2, <2>3, TwoEnds DEF Chain
<1>12. ASSUME NEW e \in Endpoint, readQuicSendTCP_writeFails(e) PROVE Chain'
  <2>1. UNCHANGED <<got, toApp, stream, tbuf, toPump, sent, up, conn>>
    BY <1>12 DEF readQuicSendTCP_writeFails, t2qVars, tcpVars, histVars
  <2>2. ~Linked(e)'
    BY <1>12 DEF readQuicSendTCP_writeFails, tcpVars, histVars, EndRead,
       Linked, Marks
  <2>3. \A d \in Endpoint \ {e} : qbuf'[d] = qbuf[d] /\ (Linked(d)' => Linked(d))
    BY <1>12 DEF readQuicSendTCP_writeFails, tcpVars, histVars, Buffers,
       Linked, Marks
  <2>4. ASSUME NEW d \in Endpoint PROVE ChainTo(d)'
    <3>1. CASE d = e
      BY <2>1, <2>2, <3>1, ChainBreaks DEF Chain
    <3>2. CASE d # e
      BY <2>1, <2>3, <3>2, ChainStays DEF Chain
    <3> QED
      BY <3>1, <3>2
  <2> QED
    BY <2>4 DEF Chain
<1>13. ASSUME NEW e \in Endpoint, readQuicSendTCP_close(e) PROVE Chain'
  <2>1. UNCHANGED <<got, toApp, qbuf, stream, tbuf, toPump, sent, up>>
    BY <1>13 DEF readQuicSendTCP_close, t2qVars, histVars
  <2>2. \A d \in Endpoint : conn'[d] # "reset" => conn[d] # "reset"
    BY <1>13 DEF readQuicSendTCP_close, CloseTCP, Marks
  <2>3. \A d \in Endpoint : Linked(d)' => Linked(d)
    BY <1>13, <2>2 DEF readQuicSendTCP_close, histVars, Linked, Marks
  <2> QED
    BY <2>1, <2>2, <2>3, NothingMoves
<1>14. ASSUME NEW e \in Endpoint, App_send(e) PROVE Chain'
  <2>1. Peer(e) \in Endpoint /\ Peer(Peer(e)) = e /\ Peer(e) # e
    BY TwoEnds
  <2>2. ChainTo(Peer(e))'
    BY <1>14, <2>1, ChainSend DEF Chain
  <2>3. ChainTo(e)'
    <3>1. /\ got'[e] = got[e] /\ toApp'[e] = toApp[e] /\ qbuf'[e] = qbuf[e]
          /\ up'[Peer(e)] = up[Peer(e)] /\ tbuf'[Peer(e)] = tbuf[Peer(e)]
          /\ toPump'[Peer(e)] = toPump[Peer(e)] /\ sent'[Peer(e)] = sent[Peer(e)]
          /\ conn'[Peer(e)] # "reset" => conn[Peer(e)] # "reset"
      BY <1>14, <2>1 DEF App_send, t2qVars, q2tVars, Buffers, Counts, Marks
    <3>2. stream'[Peer(e)].data = stream[Peer(e)].data
      BY <1>14, <2>1 DEF App_send
    <3>3. Linked(e)' => Linked(e)
      BY <1>14, <2>1 DEF App_send, t2qVars, q2tVars, Linked, Marks
    <3> QED
      BY <2>1, <3>1, <3>2, <3>3, ChainStays DEF Chain
  <2> QED
    BY <2>2, <2>3, TwoEnds DEF Chain
<1>15. ASSUME NEW e \in Endpoint, App_receive(e) PROVE Chain'
  <2>1. Peer(e) \in Endpoint /\ Peer(Peer(e)) = e /\ Peer(e) # e
    BY TwoEnds
  <2>2. ChainTo(e)'
    BY <1>15, <2>1, ChainReceive DEF Chain
  <2>3. ChainTo(Peer(e))'
    <3>1. /\ got'[Peer(e)] = got[Peer(e)] /\ toApp'[Peer(e)] = toApp[Peer(e)] /\ qbuf'[Peer(e)] = qbuf[Peer(e)]
          /\ up'[e] = up[e] /\ tbuf'[e] = tbuf[e]
          /\ toPump'[e] = toPump[e] /\ sent'[e] = sent[e]
          /\ conn'[e] # "reset" => conn[e] # "reset"
      BY <1>15, <2>1 DEF App_receive, t2qVars, q2tVars, Buffers, Counts, Marks
    <3>2. stream'[e].data = stream[e].data
      BY <1>15, <2>1 DEF App_receive
    <3>3. Linked(Peer(e))' => Linked(Peer(e))
      BY <1>15, <2>1 DEF App_receive, t2qVars, q2tVars, Linked, Marks
    <3> QED
      BY <2>1, <3>1, <3>2, <3>3, ChainStays DEF Chain
  <2> QED
    BY <2>2, <2>3, TwoEnds DEF Chain
<1>16. ASSUME NEW e \in Endpoint, App_end(e) PROVE Chain'
  <2>1. UNCHANGED <<got, toApp, qbuf, stream, tbuf, toPump, sent, up, conn>>
    BY <1>16 DEF App_end, t2qVars, q2tVars, tcpVars
  <2>2. \A d \in Endpoint : Linked(d)' => Linked(d)
    BY <1>16 DEF App_end, q2tVars, tcpVars, Linked, Marks
  <2> QED
    BY <2>1, <2>2, NothingMoves
<1>17. ASSUME NEW e \in Endpoint, App_shutdown(e) PROVE Chain'
  <2>1. UNCHANGED <<got, toApp, qbuf, stream, tbuf, toPump, sent, up, conn>>
    BY <1>17 DEF App_shutdown, t2qVars, q2tVars, histVars
  <2>2. \A d \in Endpoint : Linked(d)' => Linked(d)
    BY <1>17 DEF App_shutdown, q2tVars, histVars, Linked, Marks
  <2> QED
    BY <2>1, <2>2, NothingMoves
<1>18. ASSUME NEW e \in Endpoint, App_close(e) PROVE Chain'
  <2>1. UNCHANGED <<got, toApp, qbuf, stream, tbuf, toPump, sent, up>>
    BY <1>18 DEF App_close, t2qVars, q2tVars, histVars
  <2>2. \A d \in Endpoint : conn'[d] # "reset" => conn[d] # "reset"
    BY <1>18 DEF App_close, Marks
  <2>3. \A d \in Endpoint : Linked(d)' => Linked(d)
    BY <1>18, <2>2 DEF App_close, q2tVars, histVars, Linked, Marks
  <2> QED
    BY <2>1, <2>2, <2>3, NothingMoves
<1>19. ASSUME NEW e \in Endpoint, SessionEnds(e) PROVE Chain'
  <2>1. Peer(e) \in Endpoint /\ Peer(Peer(e)) = e /\ Peer(e) # e
    BY TwoEnds
  <2>2. ChainTo(Peer(e))'
    BY <1>19, <2>1, ChainCut DEF Chain
  <2>3. ChainTo(e)'
    <3>1. /\ got'[e] = got[e] /\ toApp'[e] = toApp[e] /\ qbuf'[e] = qbuf[e]
          /\ up'[Peer(e)] = up[Peer(e)] /\ tbuf'[Peer(e)] = tbuf[Peer(e)]
          /\ toPump'[Peer(e)] = toPump[Peer(e)] /\ sent'[Peer(e)] = sent[Peer(e)]
          /\ conn'[Peer(e)] # "reset" => conn[Peer(e)] # "reset"
      BY <1>19, <2>1 DEF SessionEnds, t2qVars, q2tVars, tcpVars, histVars,
         Buffers, Counts, Marks
    <3>2. stream'[Peer(e)].data = stream[Peer(e)].data
      BY <1>19, StreamCut
    <3>3. Linked(e)' => Linked(e)
      BY <1>19, <2>1 DEF SessionEnds, t2qVars, q2tVars, tcpVars, histVars,
         Linked, Marks
    <3> QED
      BY <2>1, <3>1, <3>2, <3>3, ChainStays DEF Chain
  <2> QED
    BY <2>2, <2>3, TwoEnds DEF Chain
<1>20. CASE UNCHANGED <<tbuf, qpc, qbuf, conn, app, toPump, toApp, stream, up, sent, got, sawEnd>>
  BY <1>20 DEF Chain, ChainTo, Arrived, Linked
<1> QED
  BY <1>1, <1>2, <1>3, <1>4, <1>5, <1>6, <1>7, <1>8, <1>9, <1>10, <1>11, <1>12,
       <1>13, <1>14, <1>15, <1>16, <1>17, <1>18, <1>19, <1>20 DEF Next,
       runAsSource, runAsDestination, readTCPSendQUIC, readQuicSendTCP, Apps,
       SessionFails, SessionFollows, vars, runAsSource_open,
       runAsDestination_accept, runAsDestination_fails, t2qVars, q2tVars,
       tcpVars, histVars
-----------------------------------------------------------------------------
\* What is on its way to an application has been sent by the other.
OnlySent ==
  \A e \in Endpoint :
    /\ toPump[e] \in Seq(1..sent[e]) /\ tbuf[e] \in Seq(1..sent[e])
    /\ stream[e].data \in Seq(1..sent[e])
    /\ qbuf[e] \in Seq(1..sent[Peer(e)]) /\ toApp[e] \in Seq(1..sent[Peer(e)])
    /\ got[e] \in Seq(1..sent[Peer(e)])

\* Every step keeps it: units are moved and dropped, never made up.
LEMMA OnlySentNext ==
  ASSUME Marks, Buffers, Streams, Counts, Holds, OnlySent, [Next]_vars
  PROVE  OnlySent'
<1>1. CASE runAsDestination_dialFails
  <2>1. \A d \in Endpoint : stream'[d].data = stream[d].data
    BY <1>1, StreamClosed, TwoEnds DEF runAsDestination_dialFails, Endpoint
  <2> QED
    BY <1>1, <2>1 DEF runAsDestination_dialFails, t2qVars, q2tVars, tcpVars,
       histVars,
         OnlySent
<1>2. ASSUME NEW e \in Endpoint, readTCPSendQUIC_read(e) PROVE OnlySent'
  <2>1. PICK k \in 0..Len(toPump[e]) :
          /\ tbuf' = [tbuf EXCEPT ![e] = SubSeq(toPump[e], 1, k)]
          /\ toPump' = [toPump EXCEPT ![e] = Rest(toPump[e], k)]
    BY <1>2, TCPRead
  <2>2. toPump[e] \in Seq(1..sent[e])
    BY DEF OnlySent
  <2>3. /\ SubSeq(toPump[e], 1, k) \in Seq(1..sent[e])
        /\ Rest(toPump[e], k) \in Seq(1..sent[e])
    BY <2>2, Parted
  <2>4. \A d \in Endpoint : tbuf'[d] \in Seq(1..sent[d]) /\ toPump'[d] \in Seq(1..sent[d])
    BY <2>1, <2>3 DEF OnlySent, Buffers
  <2> QED
    BY <1>2, <2>4 DEF readTCPSendQUIC_read, q2tVars, histVars, OnlySent
<1>3. ASSUME NEW e \in Endpoint, readTCPSendQUIC_end(e) PROVE OnlySent'
  <2>1. \A d \in Endpoint : stream'[d].data = stream[d].data
    BY <1>3, StreamClosed, TwoEnds DEF readTCPSendQUIC_end
  <2> QED
    BY <1>3, <2>1 DEF readTCPSendQUIC_end, q2tVars, tcpVars, histVars, OnlySent
<1>4. ASSUME NEW e \in Endpoint, readTCPSendQUIC_write(e) PROVE OnlySent'
  <2>1. tbuf[e] \in Seq(1..sent[e]) /\ tbuf[e] # <<>> /\ stream[e].data \in Seq(1..sent[e])
    BY <1>4 DEF readTCPSendQUIC_write, Holds, OnlySent
  <2>2. Head(tbuf[e]) \in 1..sent[e] /\ Tail(tbuf[e]) \in Seq(1..sent[e])
    BY <2>1, Headed
  <2>3. Append(stream[e].data, Head(tbuf[e])) \in Seq(1..sent[e])
    BY <2>1, <2>2, Appended
  <2>4. /\ stream'[e].data = Append(stream[e].data, Head(tbuf[e]))
        /\ stream'[Peer(e)] = stream[Peer(e)]
    BY <1>4, StreamWritten
  <2>5. \A d \in Endpoint : stream'[d].data \in Seq(1..sent[d])
    BY <2>3, <2>4, TwoEnds DEF OnlySent
  <2>6. \A d \in Endpoint : tbuf'[d] \in Seq(1..sent[d])
    BY <1>4, <2>2 DEF readTCPSendQUIC_write, OnlySent, Buffers
  <2> QED
    BY <1>4, <2>5, <2>6 DEF readTCPSendQUIC_write, q2tVars, tcpVars, histVars,
       OnlySent
<1>5. ASSUME NEW e \in Endpoint, readTCPSendQUIC_writeFails(e) PROVE OnlySent'
  <2>1. \A d \in Endpoint : stream'[d].data = stream[d].data
    BY <1>5, StreamClosed, TwoEnds DEF readTCPSendQUIC_writeFails
  <2>2. \A d \in Endpoint : tbuf'[d] \in Seq(1..sent[d])
    BY <1>5, EmptySeq DEF readTCPSendQUIC_writeFails, OnlySent, Buffers
  <2> QED
    BY <1>5, <2>1, <2>2 DEF readTCPSendQUIC_writeFails, q2tVars, tcpVars,
       histVars, OnlySent
<1>6. ASSUME NEW e \in Endpoint, readQuicSendTCP_read(e) PROVE OnlySent'
  <2>1. Peer(e) \in Endpoint /\ stream[Peer(e)].data \in Seq(1..sent[Peer(e)])
    BY TwoEnds DEF OnlySent
  <2>2. PICK k \in 0..Len(stream[Peer(e)].data) :
          /\ stream'[Peer(e)].data = Rest(stream[Peer(e)].data, k)
          /\ stream'[e] = stream[e]
          /\ qbuf' = [qbuf EXCEPT ![e] = SubSeq(stream[Peer(e)].data, 1, k)]
    BY <1>6, QUICRead
  <2>3. /\ SubSeq(stream[Peer(e)].data, 1, k) \in Seq(1..sent[Peer(e)])
        /\ Rest(stream[Peer(e)].data, k) \in Seq(1..sent[Peer(e)])
    BY <2>1, Parted
  <2>4. \A d \in Endpoint : stream'[d].data \in Seq(1..sent[d])
    BY <2>2, <2>3, TwoEnds DEF OnlySent
  <2>5. \A d \in Endpoint : qbuf'[d] \in Seq(1..sent[Peer(d)])
    BY <2>2, <2>3 DEF OnlySent, Buffers
  <2> QED
    BY <1>6, <2>4, <2>5 DEF readQuicSendTCP_read, t2qVars, tcpVars, histVars,
       OnlySent
<1>7. ASSUME NEW e \in Endpoint, readQuicSendTCP_write(e) PROVE OnlySent'
  <2>1. /\ qbuf[e] \in Seq(1..sent[Peer(e)]) /\ qbuf[e] # <<>>
        /\ toApp[e] \in Seq(1..sent[Peer(e)])
    BY <1>7 DEF readQuicSendTCP_write, Holds, OnlySent
  <2>2. Head(qbuf[e]) \in 1..sent[Peer(e)] /\ Tail(qbuf[e]) \in Seq(1..sent[Peer(e)])
    BY <2>1, Headed
  <2>3. Append(toApp[e], Head(qbuf[e])) \in Seq(1..sent[Peer(e)])
    BY <2>1, <2>2, Appended
  <2>4. \A d \in Endpoint : toApp'[d] \in Seq(1..sent[Peer(d)])
    BY <1>7, <2>3 DEF readQuicSendTCP_write, OnlySent, Buffers
  <2>5. \A d \in Endpoint : qbuf'[d] \in Seq(1..sent[Peer(d)])
    BY <1>7, <2>2 DEF readQuicSendTCP_write, OnlySent, Buffers
  <2> QED
    BY <1>7, <2>4, <2>5 DEF readQuicSendTCP_write, t2qVars, histVars, OnlySent
<1>8. ASSUME NEW e \in Endpoint, readQuicSendTCP_writeFails(e) PROVE OnlySent'
  <2>1. \A d \in Endpoint : qbuf'[d] \in Seq(1..sent[Peer(d)])
    BY <1>8, EmptySeq DEF readQuicSendTCP_writeFails, OnlySent, Buffers
  <2> QED
    BY <1>8, <2>1 DEF readQuicSendTCP_writeFails, t2qVars, tcpVars, histVars,
       OnlySent
<1>9. ASSUME NEW e \in Endpoint, App_send(e) PROVE OnlySent'
  <2>1. /\ sent' = [sent EXCEPT ![e] = sent[e] + 1] /\ sent[e] \in Nat
        /\ \A d \in Endpoint : sent[d] \in Nat
    BY <1>9 DEF App_send, Counts
  <2>2. \A d \in Endpoint : 1..sent[d] \subseteq 1..sent'[d]
    BY <2>1 DEF Counts
  <2>3. \A d \in Endpoint : \A s \in Seq(1..sent[d]) : s \in Seq(1..sent'[d])
    BY <2>2, SeqMonotonic
  <2>4. Append(toPump[e], sent[e] + 1) \in Seq(1..sent'[e])
    <3>1. toPump[e] \in Seq(1..sent'[e])
      BY <2>3 DEF OnlySent
    <3>2. sent[e] + 1 \in 1..sent'[e]
      BY <2>1 DEF Counts
    <3> QED
      BY <3>1, <3>2, Appended
  <2>5. \A d \in Endpoint : toPump'[d] \in Seq(1..sent'[d])
    BY <1>9, <2>3, <2>4 DEF App_send, OnlySent, Buffers
  <2> QED
    BY <1>9, <2>3, <2>5, TwoEnds DEF App_send, t2qVars, q2tVars, OnlySent
<1>10. ASSUME NEW e \in Endpoint, App_receive(e) PROVE OnlySent'
  <2>1. /\ toApp[e] \in Seq(1..sent[Peer(e)]) /\ toApp[e] # <<>>
        /\ got[e] \in Seq(1..sent[Peer(e)])
    BY <1>10 DEF App_receive, OnlySent
  <2>2. Head(toApp[e]) \in 1..sent[Peer(e)] /\ Tail(toApp[e]) \in Seq(1..sent[Peer(e)])
    BY <2>1, Headed
  <2>3. Append(got[e], Head(toApp[e])) \in Seq(1..sent[Peer(e)])
    BY <2>1, <2>2, Appended
  <2>4. \A d \in Endpoint : got'[d] \in Seq(1..sent[Peer(d)])
    BY <1>10, <2>3 DEF App_receive, OnlySent, Buffers
  <2>5. \A d \in Endpoint : toApp'[d] \in Seq(1..sent[Peer(d)])
    BY <1>10, <2>2 DEF App_receive, OnlySent, Buffers
  <2> QED
    BY <1>10, <2>4, <2>5 DEF App_receive, t2qVars, q2tVars, OnlySent
<1>11. ASSUME NEW e \in Endpoint, SessionEnds(e) PROVE OnlySent'
  <2>1. PICK k \in 0..Len(stream[e].data) :
          /\ stream'[e].data = SubSeq(stream[e].data, 1, k)
          /\ stream'[Peer(e)] = stream[Peer(e)]
    BY <1>11, StreamCut
  <2>2. stream[e].data \in Seq(1..sent[e])
    BY DEF OnlySent
  <2>3. SubSeq(stream[e].data, 1, k) \in Seq(1..sent[e])
    BY <2>2, Parted
  <2>4. \A d \in Endpoint : stream'[d].data \in Seq(1..sent[d])
    BY <2>1, <2>3, TwoEnds DEF OnlySent
  <2> QED
    BY <1>11, <2>4 DEF SessionEnds, t2qVars, q2tVars, tcpVars, histVars,
       OnlySent
<1>12. CASE UNCHANGED <<tbuf, qbuf, toPump, toApp, stream, sent, got>>
  BY <1>12 DEF OnlySent
<1> QED
  BY <1>1, <1>2, <1>3, <1>4, <1>5, <1>6, <1>7, <1>8, <1>9, <1>10, <1>11, <1>12
       DEF Next, runAsSource, runAsDestination, readTCPSendQUIC,
       readQuicSendTCP, Apps, SessionFails, SessionFollows, vars,
       runAsSource_open, runAsSource_control, runAsSource_fails,
       runAsDestination_accept, runAsDestination_fails, runAsDestination_dial,
       readQuicSendTCP_readFails, readQuicSendTCP_close, App_end, App_shutdown,
       App_close, t2qVars, q2tVars, tcpVars, histVars
-----------------------------------------------------------------------------
(* The invariant, and what follows from it. *)

FInv == /\ Types /\ Phases
        /\ NothingBehindClose /\ NothingBehindFin /\ EndRead
        /\ Chain /\ OnlySent

\* It holds at the start.
LEMMA FInvInit == Init => FInv
<1> SUFFICES ASSUME Init PROVE FInv
  OBVIOUS
<1>1. \A e \in Endpoint : /\ tbuf[e] = <<>> /\ qbuf[e] = <<>> /\ toPump[e] = <<>>
                          /\ toApp[e] = <<>> /\ got[e] = <<>> /\ sent[e] = 0
                          /\ stream[e].data = <<>>
  BY DEF Init
<1>2. \A S : <<>> \in Seq(S)
  BY EmptySeq
<1>3. Marks
  BY DEF Init, Marks, Endpoint
<1>4. Buffers
  BY <1>2 DEF Init, Buffers
<1>5. Streams
  BY <1>2 DEF Init, Streams, StreamRecord
<1>6. Counts
  BY <1>1, ForwardingAssumption DEF Init, Counts
<1>7. Holds
  BY <1>1, ForwardingAssumption DEF Init, Holds
<1>8. Phases
  BY DEF Init, Phases, Endpoint
<1>9. NothingBehindClose /\ NothingBehindFin /\ EndRead
  BY DEF Init, NothingBehindClose, NothingBehindFin, EndRead, Endpoint
<1>10. Chain
  <2>1. Len(<<>>) = 0 /\ Run(<<>>, 0)
    BY RunEmpty
  <2>2. /\ Near(<<>>, <<>>) /\ Middle(<<>>, <<>>, <<>>, <<>>)
        /\ Total(<<>>, <<>>, <<>>, <<>>) = 0
        /\ Far(0, <<>>, <<>>) /\ Whole(0, <<>>, <<>>, 0)
    BY <2>1 DEF Near, Middle, Total, Far, Whole
  <2> QED
    BY <1>1, <2>2, TwoEnds DEF Chain, ChainTo, Arrived
<1>11. OnlySent
  BY <1>1, <1>2, TwoEnds DEF OnlySent
<1> QED
  BY <1>3, <1>4, <1>5, <1>6, <1>7, <1>8, <1>9, <1>10, <1>11 DEF FInv, Types

\* Every step keeps it.
LEMMA FInvNext == FInv /\ [Next]_vars => FInv'
  BY MarksNext, BuffersNext, StreamsNext, CountsNext, HoldsNext, PhasesNext,
     NothingBehindCloseNext, NothingBehindFinNext, EndReadNext, ChainNext,
     OnlySentNext DEF FInv, Types

\* It holds always.
LEMMA Invariance == Spec => []FInv
  BY FInvInit, FInvNext, PTL DEF Spec

\* The types of the variables; and a pump waits in Write exactly while it holds
\* units that it has not passed on.
THEOREM ForwardingTypeCorrect == Spec => []TypeOK
<1>1. FInv => TypeOK
  BY TypesAreTypeOK DEF FInv
<1> QED
  BY <1>1, Invariance, PTL

\* An application that reads the orderly end of its connection, with the session
\* and the other application's connection unharmed, has received everything that
\* the other sent (readQuicSendTCP writes the data that comes with io.EOF, and
\* closes after it).
THEOREM OrderlyEndIsComplete == Spec => []EndIsComplete
<1>1. FInv => EndIsComplete
  <2> SUFFICES ASSUME FInv, NEW e \in Endpoint,
                      sawEnd[e], app[e] = "open", up["src"], up["dst"],
                      phase["dst"] = "pumps", conn[Peer(e)] # "reset"
               PROVE  Len(got[e]) = sent[Peer(e)]
    BY DEF EndIsComplete
  <2> DEFINE s == Peer(e)
  <2>1. s \in Endpoint /\ up[e] /\ up[s]
    BY TwoEnds DEF Endpoint
  <2>2. qend[e] /\ qpc[e] = "done" /\ toApp[e] = <<>>
    BY <2>1 DEF FInv, EndRead
  <2>3. stream[s].fin /\ stream[s].data = <<>>
    BY <2>2 DEF FInv, EndRead
  <2>4. tpc[s] = "done" /\ toPump[s] = <<>>
    BY <2>1, <2>3 DEF FInv, NothingBehindFin
  <2>5. tbuf[s] = <<>> /\ qbuf[e] = <<>>
    BY <2>1, <2>2, <2>4 DEF FInv, Types, Holds
  <2>6. Whole(Arrived(e), tbuf[s], toPump[s], sent[s])
    BY <2>1 DEF FInv, Chain, ChainTo, Linked
  <2>7. PICK n \in Nat : n = Len(got[e])
    BY DEF FInv, Types, Buffers
  <2>8. Len(<<>>) = 0
    OBVIOUS
  <2>9. Arrived(e) = n
    BY <2>2, <2>3, <2>5, <2>7, <2>8 DEF Arrived, Total
  <2> QED
    BY <2>4, <2>5, <2>6, <2>7, <2>8, <2>9 DEF Whole
<1> QED
  BY <1>1, Invariance, PTL

\* What has been received in order, and of what was sent only.
LEMMA InOrder ==
  ASSUME NEW n \in Nat, NEW g \in Seq(1..n), Run(g, 0)
  PROVE  g = [i \in 1..Len(g) |-> i] /\ Len(g) <= n
<1>1. PICK m \in Nat : m = Len(g) /\ DOMAIN g = 1..m
  OBVIOUS
<1>2. \A i \in 1..m : g[i] = i /\ g[i] \in 1..n
  BY <1>1 DEF Run
<1>3. m <= n
  BY <1>2
<1> QED
  BY <1>1, <1>2, <1>3

\* What a step does to the ends of one direction of the connection.
LEMMA PipeStep ==
  ASSUME FInv, [Next]_vars, NEW d \in Endpoint
  PROVE  \/ sent'[Peer(d)] > sent[Peer(d)] /\ got'[d] = got[d]
         \/ /\ Len(got'[d]) > Len(got[d]) /\ Len(got'[d]) <= sent[Peer(d)]
            /\ got'[d] = [i \in 1..Len(got'[d]) |-> i]
            /\ sent'[Peer(d)] = sent[Peer(d)]
         \/ sent'[Peer(d)] = sent[Peer(d)] /\ got'[d] = got[d]
<1> USE DEF FInv, Types
<1>1. Peer(d) \in Endpoint /\ Peer(d) # d
  BY TwoEnds
<1>2. ASSUME NEW e \in Endpoint, App_send(e)
      PROVE  /\ got'[d] = got[d]
             /\ sent'[Peer(d)] > sent[Peer(d)] \/ sent'[Peer(d)] = sent[Peer(d)]
  BY <1>1, <1>2 DEF App_send, Counts
<1>3. ASSUME App_receive(d)
      PROVE  /\ Len(got'[d]) > Len(got[d]) /\ Len(got'[d]) <= sent[Peer(d)]
             /\ got'[d] = [i \in 1..Len(got'[d]) |-> i]
             /\ sent' = sent
  <2>1. sent' = sent /\ toApp[d] # <<>> /\ got'[d] = Append(got[d], Head(toApp[d]))
    BY <1>3 DEF App_receive, Buffers
  <2>2. got'[d] \in Seq(1..sent[Peer(d)]) /\ sent[Peer(d)] \in Nat
    BY <1>1, <2>1, OnlySentNext DEF OnlySent, Counts
  <2>3. Run(got'[d], 0)
    BY <1>1, ChainNext DEF Chain, ChainTo, Near
  <2>4. Len(got'[d]) > Len(got[d])
    <3>1. got[d] \in Seq(Unit) /\ Head(toApp[d]) \in Unit
      BY <2>1, Headed DEF Buffers
    <3>2. Len(got'[d]) = Len(got[d]) + 1 /\ Len(got[d]) \in Nat
      BY <2>1, <3>1, Appended
    <3> QED
      BY <3>2
  <2> QED
    BY <2>1, <2>2, <2>3, <2>4, InOrder
<1>4. ASSUME App_receive(Peer(d)) PROVE sent' = sent /\ got'[d] = got[d]
  BY <1>1, <1>4 DEF App_receive, Buffers
<1>5. CASE UNCHANGED <<sent, got>>
  BY <1>5
<1> QED
  BY <1>1, <1>2, <1>3, <1>4, <1>5, TwoEnds DEF Next, runAsSource,
     runAsDestination,
     runAsSource_open, runAsSource_control, runAsSource_fails,
     runAsDestination_accept, runAsDestination_fails, runAsDestination_dial,
     runAsDestination_dialFails, readTCPSendQUIC, readTCPSendQUIC_read,
     readTCPSendQUIC_end, readTCPSendQUIC_write, readTCPSendQUIC_writeFails,
     readQuicSendTCP, readQuicSendTCP_read, readQuicSendTCP_readFails,
     readQuicSendTCP_write, readQuicSendTCP_writeFails, readQuicSendTCP_close,
     Apps, App_end, App_shutdown, App_close, SessionFails, SessionFollows,
     SessionEnds, vars, histVars

\* Each direction of a forwarded connection implements a pipe of bytes: whatever
\* fails, an application receives what the other has sent, in order and without
\* a gap (readTCPSendQUIC at one endpoint and readQuicSendTCP at the other).
THEOREM ConnectionIsTwoPipes == Spec => PipesSpec
<1>1. Init => Forth!Init /\ Back!Init
  BY DEF Init, Forth!Init, Back!Init, Endpoint
<1>2. FInv /\ [Next]_vars =>
        /\ [Forth!Next]_<<sent["src"], got["dst"]>>
        /\ [Back!Next]_<<sent["dst"], got["src"]>>
  <2> SUFFICES ASSUME FInv, [Next]_vars
               PROVE  /\ [Forth!Next]_<<sent["src"], got["dst"]>>
                      /\ [Back!Next]_<<sent["dst"], got["src"]>>
    OBVIOUS
  <2>1. Peer("dst") = "src" /\ Peer("src") = "dst" /\ {"src", "dst"} = Endpoint
    BY DEF Peer, Endpoint
  <2>2. [Forth!Next]_<<sent["src"], got["dst"]>>
    BY <2>1, PipeStep DEF Forth!Next, Forth!Put, Forth!Get
  <2>3. [Back!Next]_<<sent["dst"], got["src"]>>
    BY <2>1, PipeStep DEF Back!Next, Back!Put, Back!Get
  <2> QED
    BY <2>2, <2>3
<1> QED
  BY <1>1, <1>2, Invariance, PTL DEF Spec, PipesSpec, Forth!Spec, Back!Spec
=============================================================================

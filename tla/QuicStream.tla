----------------------------- MODULE QuicStream -----------------------------
(***************************************************************************)
(* One direction of the streams of a quic-go session, over a network that  *)
(* loses, delays, duplicates and reorders packets: sendStream and the      *)
(* framer at one endpoint, receiveStream and streamFrameSorter at the      *)
(* other, and the flow control between them, of each stream and of the     *)
(* session.                                                                *)
(*                                                                         *)
(* The bytes of a stream are the numbers 1, 2, 3...; byte n has the offset *)
(* n - 1.  What has been sent is sent again until it is acknowledged, so a *)
(* frame in net arrives some time, and may arrive again; PackRetransmission*)
(* may send it again in two pieces, and then the frame itself may still be *)
(* on its way (late).  Locks are left out (SessionLocks), and so are the   *)
(* growth of the windows and the alarms and keep-alives of the session.    *)
(***************************************************************************)
EXTENDS Naturals, Sequences, FiniteSetsExt

CONSTANTS Stream,
          MaxBytes,       \* bound of the model: bytes written on each stream
          StreamWindow,   \* receiveWindowSize of a stream
          SessionWindow,  \* and of the connectionFlowController
          Abandonable,    \* streams whose reader may stop before the end
          MaxSplits       \* bound of the model: frames sent again in two pieces

ASSUME QuicStreamAssumption ==
  /\ IsFiniteSet(Stream) /\ MaxBytes \in [Stream -> Nat]
  /\ StreamWindow \in Nat \ {0} /\ SessionWindow \in Nat \ {0}
  /\ Abandonable \subseteq Stream /\ MaxSplits \in Nat

VARIABLES out,        \* the sendStream of each stream, with its send window
          outWindow,  \* sendWindow of the connectionFlowController
          active,     \* activeStreams of the framer
          net, late,  \* STREAM frames on their way
          in,         \* the receiveStream of each stream, with its windows
          inWindow,   \* receiveWindow of the connectionFlowController
          updates,    \* queue of windowUpdateQueue
          scheduled,  \* whether the receiver's run loop has an event
          granted,    \* the offsets of the MAX_STREAM_DATA frames sent
          grantedAll, \* and of the MAX_DATA frames
          error       \* the error that closes the session

outVars == <<out, outWindow, active>>
inVars == <<in, inWindow, updates, scheduled>>
grants == <<granted, grantedAll>>
vars == <<outVars, net, late, inVars, grants, error>>

Frame(s, offset, len, fin) == [stream |-> s, offset |-> offset, len |-> len, fin |-> fin]
Bytes(from, len) == [i \in 1..len |-> from + i]
Total(count) == Cardinality(UNION {{s} \X (1..count[s]) : s \in Stream})
Sent == Total([s \in Stream |-> out[s].sent])
ReadBytes(s) == Len(in[s].got)
Received == Total([s \in Stream |-> in[s].highest])
ReadAll == Total([s \in Stream |-> ReadBytes(s)])

\* hasWindowUpdate: a quarter of the window has been consumed.
hasWindowUpdate(window, read, size) == 4 * (window - read) <= 3 * size
-----------------------------------------------------------------------------
Init ==
  /\ out = [s \in Stream |-> [written |-> 0, data |-> 0, sent |-> 0, finished |-> FALSE,
                              finSent |-> FALSE, window |-> StreamWindow]]
  /\ outWindow = SessionWindow
  /\ active = {}
  /\ net = {} /\ late = {}
  /\ in = [s \in Stream |-> [received |-> {}, queue |-> <<>>, highest |-> 0, final |-> FALSE,
                             window |-> StreamWindow, got |-> <<>>, eof |-> FALSE,
                             left |-> FALSE]]
  /\ inWindow = SessionWindow
  /\ updates = {} /\ scheduled = FALSE
  /\ granted = [s \in Stream |-> {}] /\ grantedAll = {}
  /\ error = "none"
-----------------------------------------------------------------------------
(* The sender.                                                             *)

Write(s) ==
  /\ ~out[s].finished /\ out[s].data = 0
  /\ \E n \in 1..(MaxBytes[s] - out[s].written) :
       out' = [out EXCEPT ![s].written = @ + n, ![s].data = n]
  /\ active' = active \cup {s}
  /\ UNCHANGED <<outWindow, net, late, inVars, grants, error>>

\* By the writer, or by another goroutine while a Write waits.
Close(s) ==
  /\ ~out[s].finished
  /\ out' = [out EXCEPT ![s].finished = TRUE]
  /\ active' = active \cup {s}
  /\ UNCHANGED <<outWindow, net, late, inVars, grants, error>>

\* Mutant: the window of the session is not asked.
SendWindowSize_streamOnly(s) == out[s].window - out[s].sent

SendWindowSize(s) == Min({out[s].window - out[s].sent, outWindow - Sent})

\* Mutant: the end of the stream goes with the first frame after Close.
popStreamFrame_data_finEarly(s) ==
  /\ s \in active /\ out[s].data > 0
  /\ \E n \in 1..Min({out[s].data, SendWindowSize(s)}) :
       LET fin == out[s].finished
           blocked == out[s].window = out[s].sent + n
       IN
       /\ out' = [out EXCEPT ![s].data = @ - n, ![s].sent = @ + n, ![s].finSent = fin]
       /\ net' = net \cup {Frame(s, out[s].sent, n, fin)}
       /\ active' = IF n = out[s].data \/ blocked THEN active \ {s} ELSE active
  /\ UNCHANGED <<outWindow, late, inVars, grants, error>>

\* A stream of the queue has its turn, and as much data goes as there is room
\* for in the packet and in the windows.
popStreamFrame_data(s) ==
  /\ s \in active /\ out[s].data > 0
  /\ \E n \in 1..Min({out[s].data, SendWindowSize(s)}) :
       LET fin == out[s].finished /\ n = out[s].data
           blocked == out[s].window = out[s].sent + n
       IN
       /\ out' = [out EXCEPT ![s].data = @ - n, ![s].sent = @ + n, ![s].finSent = fin]
       /\ net' = net \cup {Frame(s, out[s].sent, n, fin)}
       /\ active' = IF n = out[s].data \/ blocked THEN active \ {s} ELSE active
  /\ UNCHANGED <<outWindow, late, inVars, grants, error>>

\* Blocked by its own window, the stream leaves the queue until there is a
\* larger one; blocked by that of the session, it stays.
popStreamFrame_blocked(s) ==
  /\ s \in active /\ out[s].data > 0 /\ out[s].window = out[s].sent
  /\ active' = active \ {s}
  /\ UNCHANGED <<out, outWindow, net, late, inVars, grants, error>>

\* No data is left: the end of the stream goes, once.
popStreamFrame_fin(s) ==
  /\ s \in active /\ out[s].data = 0
  /\ IF out[s].finished /\ ~out[s].finSent
     THEN /\ out' = [out EXCEPT ![s].finSent = TRUE]
          /\ net' = net \cup {Frame(s, out[s].sent, 0, TRUE)}
     ELSE UNCHANGED <<out, net>>
  /\ active' = active \ {s}
  /\ UNCHANGED <<outWindow, late, inVars, grants, error>>

popStreamFrame(s) ==
  popStreamFrame_data(s) \/ popStreamFrame_blocked(s) \/ popStreamFrame_fin(s)

\* Mutant: the framer is not told that the stream has data again.
handleMaxStreamDataFrame_inactive(s) ==
  /\ \E w \in granted[s] : out' = [out EXCEPT ![s].window = Max({@, w})]
  /\ active' = active
  /\ UNCHANGED <<outWindow, net, late, inVars, grants, error>>

handleMaxStreamDataFrame(s) ==
  /\ \E w \in granted[s] : out' = [out EXCEPT ![s].window = Max({@, w})]
  /\ active' = IF out[s].data > 0 THEN active \cup {s} ELSE active
  /\ UNCHANGED <<outWindow, net, late, inVars, grants, error>>

handleMaxDataFrame ==
  /\ \E w \in grantedAll : outWindow' = Max({outWindow, w})
  /\ UNCHANGED <<out, active, net, late, inVars, grants, error>>

\* A frame that did not fit into the packet of the retransmission.
MaybeSplitOffFrame(f) ==
  /\ f \in net /\ Cardinality(late) < MaxSplits
  /\ \E n \in 1..(f.len - 1) :
       net' = (net \ {f}) \cup {Frame(f.stream, f.offset, n, FALSE),
                                Frame(f.stream, f.offset + n, f.len - n, f.fin)}
  /\ late' = late \cup {f}
  /\ UNCHANGED <<outVars, inVars, grants, error>>
-----------------------------------------------------------------------------
(* The receiver.                                                           *)

\* What UpdateHighestReceived objects to.
ReceivedError(f) ==
  LET s == f.stream
      end == f.offset + f.len
      more == end > in[s].highest IN
  IF \/ in[s].final /\ (more \/ (f.fin /\ end # in[s].highest))
     \/ f.fin /\ end < in[s].highest
  THEN "StreamDataAfterTermination"
  ELSE IF more /\ \/ end > in[s].window
                  \/ Received + end - in[s].highest > inWindow
  THEN "FlowControlReceivedTooMuchData"
  ELSE "none"

\* Push of streamFrameSorter.  The part of the frame from the first byte that
\* is missing to the last is queued; it takes the place of what is queued
\* after the gaps that it fills.  The queue is keyed by offset.
Put(r, first, len, fin) ==
  LET replaced == {o \in (first + 1)..(first + len - 1) :
                     o \in r.received /\ (o - 1) \notin r.received} IN
  [r EXCEPT !.received = @ \cup first..(first + len - 1),
            !.queue = [o \in (DOMAIN @ \ replaced) \cup {first} |->
                         IF o = first THEN [first |-> first, len |-> len, fin |-> fin] ELSE @[o]]]

\* Mutant: the offset of a frame is moved and its data is not cut.
Push_keepsData(r, f) ==
  LET missing == (f.offset..(f.offset + f.len - 1)) \ r.received IN
  CASE f.len = 0 -> Put(r, f.offset, 0, TRUE)
    [] f.len > 0 /\ missing = {} -> r
    [] OTHER -> Put(r, Min(missing), f.len, f.fin)

\* What is missing and comes is queued.  The limit of gaps (1000) is left out: it
\* takes a thousand frames under way with as many others late between them.
Push(r, f) ==
  LET missing == (f.offset..(f.offset + f.len - 1)) \ r.received IN
  CASE f.len = 0 -> Put(r, f.offset, 0, TRUE)
    [] f.len > 0 /\ missing = {} -> r
    [] OTHER -> Put(r, Min(missing), Max(missing) + 1 - Min(missing), f.fin)

handleStreamFrame(f) ==
  LET s == f.stream
      highest == Max({in[s].highest, f.offset + f.len}) IN
  /\ f \in net \cup late
  /\ scheduled' = TRUE
  /\ \/ /\ in[s].eof  \* the stream may be deleted
        /\ UNCHANGED <<in, error>>
     \/ /\ error' = ReceivedError(f)
        /\ in' = IF error' # "none" THEN in
                 ELSE [in EXCEPT ![s] = Push([in[s] EXCEPT !.highest = highest,
                                                           !.final = @ \/ f.fin], f)]
  /\ UNCHANGED <<outVars, net, late, inWindow, updates, grants>>

\* One frame of the queue.
Read(s) ==
  LET r == in[s]
      f == r.queue[ReadBytes(s)] IN
  /\ ~r.eof /\ ~r.left /\ ReadBytes(s) \in DOMAIN r.queue
  /\ in' = [in EXCEPT ![s].got = @ \o Bytes(f.first, f.len), ![s].eof = f.fin,
                      ![s].queue = [o \in DOMAIN r.queue \ {ReadBytes(s)} |-> r.queue[o]]]
  /\ IF ~r.final /\ hasWindowUpdate(r.window, Len(in'[s].got), StreamWindow)
     THEN updates' = updates \cup {s} /\ scheduled' = TRUE
     ELSE UNCHANGED <<updates, scheduled>>
  /\ UNCHANGED <<outVars, net, late, inWindow, grants, error>>

\* The reader stops, as readQuicSendTCP does when its connection is broken.
Read_stops(s) ==
  /\ s \in Abandonable /\ ~in[s].eof /\ ~in[s].left
  /\ in' = [in EXCEPT ![s].left = TRUE]
  /\ UNCHANGED <<outVars, net, late, inWindow, updates, scheduled, grants, error>>

\* sendPacket, which the run loop calls after an event: the window of the
\* session, and QueueAll.
sendPacket ==
  LET all == hasWindowUpdate(inWindow, ReadAll, SessionWindow)
      due == {s \in updates : /\ ~in[s].final
                              /\ hasWindowUpdate(in[s].window, ReadBytes(s), StreamWindow)}
      offset(s) == ReadBytes(s) + StreamWindow
  IN
  /\ scheduled /\ scheduled' = FALSE
  /\ inWindow' = IF all THEN ReadAll + SessionWindow ELSE inWindow
  /\ grantedAll' = IF all THEN grantedAll \cup {inWindow'} ELSE grantedAll
  /\ in' = [s \in Stream |-> IF s \in due THEN [in[s] EXCEPT !.window = offset(s)] ELSE in[s]]
  /\ granted' = [s \in Stream |-> IF s \in due THEN granted[s] \cup {offset(s)} ELSE granted[s]]
  /\ updates' = updates \ due
  /\ UNCHANGED <<outVars, net, late, error>>

Next ==
  /\ error = "none"
  /\ \/ \E s \in Stream : \/ Write(s) \/ Close(s) \/ popStreamFrame(s)
                          \/ handleMaxStreamDataFrame(s) \/ Read(s) \/ Read_stops(s)
     \/ handleMaxDataFrame \/ sendPacket
     \/ \E f \in net \cup late : handleStreamFrame(f) \/ MaybeSplitOffFrame(f)

Spec == Init /\ [][Next]_vars

\* Both run loops and the readers go on, and whatever is sent arrives some time
\* in the last form it was sent in.
FairSpec ==
  /\ Spec
  /\ WF_vars(\E f \in net : handleStreamFrame(f) /\ in' # in)
  /\ WF_vars(handleMaxDataFrame) /\ WF_vars(sendPacket)
  /\ \A s \in Stream : /\ WF_vars(popStreamFrame(s)) /\ WF_vars(Read(s))
                       /\ WF_vars(handleMaxStreamDataFrame(s))
-----------------------------------------------------------------------------
(* What holds of it.                                                       *)

\* A stream is a pipe of bytes: whatever frames are lost, doubled, split, late
\* or out of order, what is read is what was written, in order and without a
\* gap (Push cuts the frames, and the queue is keyed by their offsets).
Pipe(s) == INSTANCE BytePipe WITH sent <- out[s].written, got <- in[s].got
StreamsSpec == /\ \A s \in Stream : Pipe(s)!Init
               /\ [][\A s \in Stream : Pipe(s)!Next]_<<out, in>>

\* A Read returns io.EOF only after the last byte, unless a retransmission has
\* split the frame with the end of the stream and the frame itself came late:
\* Push cuts it at its end and leaves its FinBit.
EofIsEnd ==
  \A s \in Stream :
    in[s].eof => \/ out[s].finished /\ ReadBytes(s) = out[s].written
                 \/ \E f \in late : f.stream = s /\ f.fin

\* A sender that keeps to the windows it has been given is never taken for one
\* that does not, and its end is never taken for a wrong one: the two endpoints
\* count alike (UpdateHighestReceived against SendWindowSize).
NoSessionError == error = "none"

\* Nobody will read some of what has been sent.
Starved ==
  \E unread \in {[s \in Stream |-> IF in[s].eof \/ in[s].left
                                  THEN out[s].sent - ReadBytes(s) ELSE 0]} :
    4 * Total(unread) > 3 * SessionWindow

\* The window of the session has grown, and the run loop has no reason to say
\* so: only updates of a stream are announced (onHasWindowUpdate).
Unannounced == ~scheduled /\ hasWindowUpdate(inWindow, ReadAll, SessionWindow)

\* A stream that is closed is read to its end, if its reader goes on: no credit
\* is lost between the windows, the framer and the queue of updates.  But what
\* is sent to readers that have stopped may fill the window of the session, and
\* a window that reads have opened waits for the next event.
EndArrives ==
  \A s \in Stream :
    <>[](out[s].finished => in[s].eof \/ in[s].left \/ Starved \/ Unannounced)
=============================================================================

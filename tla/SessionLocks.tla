---------------------------- MODULE SessionLocks ----------------------------
(***************************************************************************)
(* The locks of one endpoint of a quic-go session: who holds which mutex,  *)
(* and who waits for it, between the run loop of the session and the       *)
(* goroutines that call Read, Write and Close on its streams               *)
(* (session.go, streams_map_legacy.go, stream.go, send_stream.go,          *)
(* receive_stream.go, stream_framer.go, window_update_queue.go).           *)
(*                                                                         *)
(* A step is a goroutine's work from one Lock to the next.  A mutex that   *)
(* is locked and released within a step must be free for the step; one     *)
(* that is kept is in holder until it is released.  The bytes, their order *)
(* and the network are left out (module QuicStream), and so are the crypto *)
(* stream, deadlines, CancelRead and CancelWrite, which the programs of    *)
(* the repository do not use.                                              *)
(***************************************************************************)
EXTENDS Naturals, Sequences, Functions

CONSTANTS Stream,         \* the open streams of the session
          ClosedByOther,  \* those a goroutine closes while another may write
          Ended,          \* those whose end has been sent before
          MaxWrites,      \* bound of the model: calls of Write on a stream
          MaxFrames       \* bound of the model: frames of the peer on a
                          \* stream, the last with the FIN bit

ASSUME SessionLocksAssumption ==
  /\ ClosedByOther \subseteq Stream /\ Ended \subseteq Stream \ ClosedByOther
  /\ MaxWrites \in [Stream -> Nat] /\ MaxFrames \in [Stream -> Nat \ {0}]

VARIABLES holder,     \* who holds each mutex
          pc,         \* where each goroutine is
          cur,        \* the stream the run loop works on
          todo,       \* the streams it has still to visit
          queue,      \* streamQueue of the framer; activeStreams is its range
          updates,    \* queue of windowUpdateQueue
          streams,    \* the streams in the map
          out,        \* the sendStream of each stream
          in,         \* the receiveStream of each stream
          completed,  \* the completed halves of each stream
          session     \* closing: closeChan; over: ctx.Done(); scheduled:
                      \* sendingScheduled

vars == <<holder, pc, cur, todo, queue, updates, streams, out, in, completed, session>>

Loop == <<"loop", "session">>
Writer(s) == <<"writer", s>>
Closer(s) == <<"closer", s>>
Reader(s) == <<"reader", s>>
Goroutine == {Loop} \cup ({"writer", "reader"} \X Stream) \cup ({"closer"} \X ClosedByOther)
Nobody == <<"nobody", "">>

\* streamsMapLegacy.mutex, streamQueueMutex and windowUpdateQueue.mutex, and
\* of each stream sendStream.mutex, receiveStream.mutex and completedMutex.
Map == <<"map", "session">>
Queue == <<"queue", "session">>
Windows == <<"windows", "session">>
Send(s) == <<"send", s>>
Receive(s) == <<"receive", s>>
Done(s) == <<"done", s>>
Mutex == {Map, Queue, Windows} \cup ({"send", "receive", "done"} \X Stream)

Free(l) == holder[l] = Nobody
Lock(p, l) == Free(l) /\ holder' = [holder EXCEPT ![l] = p]
Release(L) == holder' = [l \in Mutex |-> IF l \in L THEN Nobody ELSE holder[l]]
Goto(p, place) == pc' = [pc EXCEPT ![p] = place]

\* The data of a Write is two chunks.  The peer's window admits one Write,
\* until it has sent MAX_STREAM_DATA.
Blocked(s) == out[s].data > 0 /\ ~out[s].granted /\ out[s].written > 1
-----------------------------------------------------------------------------
Init ==
  /\ holder = [l \in Mutex |-> Nobody]
  /\ pc = [p \in Goroutine |-> CASE p[1] = "loop" -> "idle"
                                 [] p[1] = "writer" -> IF p[2] \in Ended THEN "end" ELSE "write"
                                 [] p[1] = "closer" -> "close"
                                 [] p[1] = "reader" -> "read"]
  /\ cur \in Stream /\ todo = {}
  /\ queue = <<>> /\ updates = {}
  /\ streams = Stream
  /\ out = [s \in Stream |-> [written |-> 0, data |-> 0, granted |-> MaxWrites[s] < 2,
                             finished |-> s \in Ended, finSent |-> s \in Ended, shut |-> FALSE, signal |-> FALSE]]
  /\ in = [s \in Stream |-> [arrived |-> 0, read |-> 0, shut |-> FALSE, signal |-> FALSE]]
  /\ completed = [s \in Stream |-> IF s \in Ended THEN {"send"} ELSE {}]
  /\ session = [closing |-> FALSE, over |-> FALSE, scheduled |-> FALSE]

\* AddActiveStream and scheduleSending.
onHasStreamData(s) ==
  /\ queue' = IF s \in Range(queue) THEN queue ELSE Append(queue, s)
  /\ session' = [session EXCEPT !.scheduled = TRUE]

\* Mutant: the first half to complete deletes the stream.
onStreamCompleted_either(p, s, half, Held, next) ==
  /\ Free(Done(s))
  /\ completed' = [completed EXCEPT ![s] = @ \cup {half}]
  /\ IF completed'[s] # {}
     THEN Lock(p, Done(s)) /\ Goto(p, "delete")
     ELSE Release(Held) /\ Goto(p, next)

\* onStreamCompletedImpl of newStream, holding Half(s); the second half to
\* complete goes on to DeleteStream.
onStreamCompleted(p, s, half, Held, next) ==
  /\ Free(Done(s))
  /\ completed' = [completed EXCEPT ![s] = @ \cup {half}]
  /\ IF completed'[s] = {"send", "receive"}
     THEN Lock(p, Done(s)) /\ Goto(p, "delete")
     ELSE Release(Held) /\ Goto(p, next)

DeleteStream(p, s, Held, next) ==
  /\ Free(Map)
  /\ streams' = streams \ {s}
  /\ Release(Held \cup {Done(s)}) /\ Goto(p, next)
-----------------------------------------------------------------------------
(* Write and Close.                                                        *)

\* The Write is refused, or its data is there for the packer.
Write(s) ==
  LET p == Writer(s) IN
  /\ pc[p] = "write" /\ out[s].written < MaxWrites[s]
  /\ IF out[s].finished \/ out[s].shut
     THEN Free(Send(s)) /\ Goto(p, "failed") /\ UNCHANGED <<holder, out>>
     ELSE /\ Lock(p, Send(s)) /\ Goto(p, "activate")
          /\ out' = [out EXCEPT ![s].written = @ + 1, ![s].data = 2]
  /\ UNCHANGED <<cur, todo, queue, updates, streams, in, completed, session>>

Write_activate(s) ==
  LET p == Writer(s) IN
  /\ pc[p] = "activate" /\ Free(Queue)
  /\ onHasStreamData(s)
  /\ Release({Send(s)}) /\ Goto(p, "sleep")
  /\ UNCHANGED <<cur, todo, updates, streams, out, in, completed>>

\* <-s.writeChan, and the lock again: the Write returns, or waits on.
Write_wakes(s) ==
  LET p == Writer(s) IN
  /\ pc[p] = "sleep" /\ out[s].signal /\ Free(Send(s))
  /\ out' = [out EXCEPT ![s].signal = FALSE]
  /\ Goto(p, CASE out[s].shut -> "failed"
               [] ~out[s].shut /\ out[s].data > 0 -> "sleep"
               [] OTHER -> "write")
  /\ UNCHANGED <<holder, cur, todo, queue, updates, streams, in, completed, session>>

\* A writer that is done, or failed, closes its stream, unless another does.
Write_ends(s) ==
  LET p == Writer(s) IN
  /\ pc[p] \in {"write", "failed"}
  /\ Goto(p, IF s \in ClosedByOther THEN "end" ELSE "close")
  /\ UNCHANGED <<holder, cur, todo, queue, updates, streams, out, in, completed, session>>

Close(p, s) ==
  /\ pc[p] = "close" /\ Lock(p, Send(s))
  /\ out' = [out EXCEPT ![s].finished = TRUE] /\ Goto(p, "closing")
  /\ UNCHANGED <<cur, todo, queue, updates, streams, in, completed, session>>

Close_activate(p, s) ==
  /\ pc[p] = "closing" /\ Free(Queue)
  /\ onHasStreamData(s)
  /\ Release({Send(s)}) /\ Goto(p, "end")
  /\ UNCHANGED <<cur, todo, updates, streams, out, in, completed>>

WriterStep(s) ==
  \/ Write(s) \/ Write_activate(s) \/ Write_wakes(s) \/ Write_ends(s)
  \/ Close(Writer(s), s) \/ Close_activate(Writer(s), s)
CloserStep(s) == Close(Closer(s), s) \/ Close_activate(Closer(s), s)
-----------------------------------------------------------------------------
(* Read, again and again until it fails or returns io.EOF.                 *)

Read(s) ==
  LET p == Reader(s)
      there == in[s].read < in[s].arrived IN
  /\ Free(Receive(s))
  /\ \/ pc[p] = "read" /\ UNCHANGED in
     \/ /\ pc[p] = "sleep" /\ in[s].signal    \* <-s.readChan
        /\ in' = [in EXCEPT ![s].signal = FALSE]
  /\ Goto(p, CASE in[s].shut -> "failed"
               [] ~in[s].shut /\ there -> "copy"
               [] OTHER -> "sleep")
  /\ UNCHANGED <<holder, cur, todo, queue, updates, streams, out, completed, session>>

\* The lock is taken again after the copy.  There may be a window update to
\* send, if the final offset is not known yet.
Read_copied(s) ==
  LET p == Reader(s)
      keep(place) == Lock(p, Receive(s)) /\ Goto(p, place)
  IN
  /\ pc[p] = "copy" /\ Free(Receive(s))
  /\ in' = [in EXCEPT ![s].read = @ + 1]
  /\ \/ in[s].arrived < MaxFrames[s] /\ keep("update")
     \/ in'[s].read < MaxFrames[s] /\ Goto(p, "read") /\ UNCHANGED holder
     \/ in'[s].read = MaxFrames[s] /\ keep("complete")
  /\ UNCHANGED <<cur, todo, queue, updates, streams, out, completed, session>>

\* onHasWindowUpdate
Read_update(s) ==
  LET p == Reader(s) IN
  /\ pc[p] = "update" /\ Free(Windows)
  /\ updates' = updates \cup {s} /\ session' = [session EXCEPT !.scheduled = TRUE]
  /\ Release({Receive(s)}) /\ Goto(p, "read")
  /\ UNCHANGED <<cur, todo, queue, streams, out, in, completed>>

Read_complete(s) ==
  /\ pc[Reader(s)] = "complete"
  /\ onStreamCompleted(Reader(s), s, "receive", {Receive(s)}, "eof")
  /\ UNCHANGED <<cur, todo, queue, updates, streams, out, in, session>>

Read_delete(s) ==
  /\ pc[Reader(s)] = "delete"
  /\ DeleteStream(Reader(s), s, {Receive(s)}, "eof")
  /\ UNCHANGED <<cur, todo, queue, updates, out, in, completed, session>>

ReaderStep(s) ==
  \/ Read(s) \/ Read_copied(s)
  \/ Read_update(s) \/ Read_complete(s) \/ Read_delete(s)
-----------------------------------------------------------------------------
(* The run loop: sendPacket.                                               *)

\* There may be no room for another frame after one of n chunks.
AfterFrame(n) == IF n > 0 THEN {"next", "full"} ELSE {"next"}

Running == pc[Loop] = "idle" /\ ~session.closing

sendPacket ==
  /\ Running /\ (session.scheduled \/ queue # <<>>)
  /\ session' = [session EXCEPT !.scheduled = FALSE]
  /\ Lock(Loop, Windows) /\ Goto(Loop, "updates")
  /\ UNCHANGED <<cur, todo, queue, updates, streams, out, in, completed>>

\* An update for a stream that is gone, or whose final offset is known, stays.
QueueAll ==
  /\ pc[Loop] = "updates" /\ Free(Map)
  /\ updates' = {s \in updates : s \notin streams \/ in[s].arrived = MaxFrames[s]}
  /\ Release({Windows}) /\ Goto(Loop, "pop")
  /\ UNCHANGED <<cur, todo, queue, streams, out, in, completed, session>>

PopStreamFrames ==
  /\ pc[Loop] = "pop" /\ Lock(Loop, Queue)
  /\ todo' = Range(queue) /\ Goto(Loop, "next")
  /\ UNCHANGED <<cur, queue, updates, streams, out, in, completed, session>>

\* The head of the queue, if it is one of those there were at the start.
PopStreamFrames_next ==
  /\ pc[Loop] = "next" /\ todo # {} /\ Free(Map)
  /\ cur' = Head(queue) /\ queue' = Tail(queue) /\ todo' = todo \ {cur'}
  /\ Goto(Loop, IF cur' \in streams THEN "frame" ELSE "next")
  /\ UNCHANGED <<holder, updates, streams, out, in, completed, session>>

\* Mutant: the stream stays in the queue with nothing left to send.
popStreamFrame_stays ==
  LET s == cur IN
  /\ pc[Loop] = "frame" /\ Free(Send(s))
  /\ \E n \in IF Blocked(s) THEN {0} ELSE (IF out[s].data > 0 THEN 1 ELSE 0)..out[s].data :
       LET data == out[s].data - n
           fin == out[s].finished /\ data = 0 /\ ~out[s].finSent
       IN
       /\ out' = [out EXCEPT ![s].data = data,
                             ![s].signal = @ \/ (n > 0 /\ data = 0),
                             ![s].finSent = @ \/ fin]
       /\ queue' = IF ~Blocked(s) THEN Append(queue, s) ELSE queue
       /\ IF fin THEN Lock(Loop, Send(s)) /\ Goto(Loop, "complete")
          ELSE /\ \E place \in AfterFrame(n) : Goto(Loop, place)
               /\ UNCHANGED holder
  /\ UNCHANGED <<cur, todo, updates, streams, in, completed, session>>

\* popStreamFrame.  All the data goes, or as much as there is room for.  With
\* more to send, and not blocked, the stream is queued again.
popStreamFrame ==
  LET s == cur IN
  /\ pc[Loop] = "frame" /\ Free(Send(s))
  /\ \E n \in IF Blocked(s) THEN {0} ELSE (IF out[s].data > 0 THEN 1 ELSE 0)..out[s].data :
       LET data == out[s].data - n
           fin == out[s].finished /\ data = 0 /\ ~out[s].finSent
       IN
       /\ out' = [out EXCEPT ![s].data = data,
                             ![s].signal = @ \/ (n > 0 /\ data = 0),
                             ![s].finSent = @ \/ fin]
       /\ queue' = IF data > 0 /\ ~Blocked(s) THEN Append(queue, s) ELSE queue
       /\ IF fin THEN Lock(Loop, Send(s)) /\ Goto(Loop, "complete")
          ELSE /\ \E place \in AfterFrame(n) : Goto(Loop, place)
               /\ UNCHANGED holder
  /\ UNCHANGED <<cur, todo, updates, streams, in, completed, session>>

popStreamFrame_complete ==
  /\ pc[Loop] = "complete"
  /\ \E place \in AfterFrame(1) : onStreamCompleted(Loop, cur, "send", {Send(cur)}, place)
  /\ UNCHANGED <<cur, todo, queue, updates, streams, out, in, session>>

popStreamFrame_delete ==
  /\ pc[Loop] = "delete"
  /\ DeleteStream(Loop, cur, {Send(cur)}, "next")
  /\ UNCHANGED <<cur, todo, queue, updates, out, in, completed, session>>

\* No stream is left, or no room in the packet.
PopStreamFrames_end ==
  /\ (pc[Loop] = "next" /\ todo = {}) \/ pc[Loop] = "full"
  /\ todo' = {} /\ Release({Queue}) /\ Goto(Loop, "idle")
  /\ UNCHANGED <<cur, queue, updates, streams, out, in, completed, session>>
-----------------------------------------------------------------------------
(* The run loop: frames of the peer, and the end.                          *)

\* A frame of a stream that is gone is ignored.
handleStreamFrame(s) ==
  /\ Running /\ s \in streams /\ in[s].arrived < MaxFrames[s] /\ Free(Map)
  /\ cur' = s /\ Goto(Loop, "push")
  /\ UNCHANGED <<holder, todo, queue, updates, streams, out, in, completed, session>>

handleStreamFrame_push ==
  /\ pc[Loop] = "push" /\ Free(Receive(cur))
  /\ in' = [in EXCEPT ![cur].arrived = @ + 1, ![cur].signal = TRUE]
  /\ Goto(Loop, "idle")
  /\ UNCHANGED <<holder, cur, todo, queue, updates, streams, out, completed, session>>

handleMaxStreamDataFrame(s) ==
  /\ Running /\ s \in streams /\ ~out[s].granted /\ Free(Map)
  /\ cur' = s /\ out' = [out EXCEPT ![s].granted = TRUE] /\ Goto(Loop, "grant")
  /\ UNCHANGED <<holder, todo, queue, updates, streams, in, completed, session>>

\* Mutant: the stream is not queued again.
handleMaxStreamDataFrame_activate_not ==
  /\ pc[Loop] = "grant" /\ Free(Send(cur)) /\ Free(Queue)
  /\ UNCHANGED <<queue, session>>
  /\ Goto(Loop, "idle")
  /\ UNCHANGED <<holder, cur, todo, updates, streams, out, in, completed>>

handleMaxStreamDataFrame_activate ==
  /\ pc[Loop] = "grant" /\ Free(Send(cur)) /\ Free(Queue)
  /\ IF out[cur].data > 0 THEN onHasStreamData(cur) ELSE UNCHANGED <<queue, session>>
  /\ Goto(Loop, "idle")
  /\ UNCHANGED <<holder, cur, todo, updates, streams, out, in, completed>>

\* closeLocal or closeRemote: Close, an error, a timeout, or the peer.
Session_ends ==
  /\ ~session.closing
  /\ session' = [session EXCEPT !.closing = TRUE]
  /\ UNCHANGED <<holder, pc, cur, todo, queue, updates, streams, out, in, completed>>

CloseWithError ==
  /\ pc[Loop] = "idle" /\ session.closing /\ ~session.over
  /\ Lock(Loop, Map) /\ todo' = streams /\ Goto(Loop, "shut")
  /\ UNCHANGED <<cur, queue, updates, streams, out, in, completed, session>>

\* closeForShutdown of the next stream, in any order.
CloseWithError_send ==
  /\ pc[Loop] = "shut"
  /\ \E s \in todo : /\ cur' = s /\ todo' = todo \ {s}
  /\ Goto(Loop, "shutSend")
  /\ UNCHANGED <<holder, queue, updates, streams, out, in, completed, session>>

closeForShutdown_send ==
  /\ pc[Loop] = "shutSend" /\ Free(Send(cur))
  /\ out' = [out EXCEPT ![cur].shut = TRUE, ![cur].signal = TRUE]
  /\ Goto(Loop, "shutReceive")
  /\ UNCHANGED <<holder, cur, todo, queue, updates, streams, in, completed, session>>

\* Mutant: the Read is not woken.
closeForShutdown_receive_silent ==
  /\ pc[Loop] = "shutReceive" /\ Free(Receive(cur))
  /\ in' = [in EXCEPT ![cur].shut = TRUE]
  /\ Goto(Loop, "shut")
  /\ UNCHANGED <<holder, cur, todo, queue, updates, streams, out, completed, session>>

closeForShutdown_receive ==
  /\ pc[Loop] = "shutReceive" /\ Free(Receive(cur))
  /\ in' = [in EXCEPT ![cur].shut = TRUE, ![cur].signal = TRUE]
  /\ Goto(Loop, "shut")
  /\ UNCHANGED <<holder, cur, todo, queue, updates, streams, out, completed, session>>

\* The run loop returns, and with it every Close of the session.
run_returns ==
  /\ pc[Loop] = "shut" /\ todo = {}
  /\ session' = [session EXCEPT !.over = TRUE]
  /\ Release({Map}) /\ Goto(Loop, "end")
  /\ UNCHANGED <<cur, todo, queue, updates, streams, out, in, completed>>

\* What the run loop does of itself, once it has begun something.
LoopStep ==
  \/ sendPacket \/ QueueAll \/ PopStreamFrames \/ PopStreamFrames_next
  \/ popStreamFrame \/ popStreamFrame_complete \/ popStreamFrame_delete
  \/ PopStreamFrames_end
  \/ handleStreamFrame_push \/ handleMaxStreamDataFrame_activate
  \/ CloseWithError \/ CloseWithError_send \/ closeForShutdown_send
  \/ closeForShutdown_receive \/ run_returns

LocksNext ==
  \/ LoopStep \/ Session_ends
  \/ \E s \in Stream : \/ WriterStep(s) \/ ReaderStep(s)
                       \/ handleStreamFrame(s) \/ handleMaxStreamDataFrame(s)
  \/ \E s \in ClosedByOther : CloserStep(s)

LocksSpec == Init /\ [][LocksNext]_vars

\* The Go scheduler runs every goroutine that can go on, and the peer sends the
\* window a writer is waiting for.  A goroutine takes a mutex finitely often
\* here, so weak fairness is enough for the mutexes.
LocksFairness ==
  /\ WF_vars(LoopStep)
  /\ \A s \in Stream : /\ WF_vars(WriterStep(s)) /\ WF_vars(ReaderStep(s))
                       /\ WF_vars(handleMaxStreamDataFrame(s))
  /\ \A s \in ClosedByOther : WF_vars(CloserStep(s))

LocksFairSpec == LocksSpec /\ LocksFairness
-----------------------------------------------------------------------------
(* What holds of it.                                                       *)

\* Where the goroutines can be.
Shutting == {"shut", "shutSend", "shutReceive"}

LoopPlace == {"idle", "updates", "pop", "next", "frame", "complete", "delete", "full",
              "push", "grant", "end"} \cup Shutting
WriterPlace == {"write", "activate", "sleep", "failed", "close", "closing", "end"}
CloserPlace == {"close", "closing", "end"}
ReaderPlace == {"read", "sleep", "copy", "update", "complete", "delete", "failed", "eof"}
Place == LoopPlace \cup WriterPlace \cup CloserPlace \cup ReaderPlace

OutType == [written : Nat, data : 0..2, granted : BOOLEAN, finished : BOOLEAN,
            finSent : BOOLEAN, shut : BOOLEAN, signal : BOOLEAN]
InType == [arrived : Nat, read : Nat, shut : BOOLEAN, signal : BOOLEAN]

\* The type of the variables; no frame is read before it has come, and the peer
\* sends none behind the end (Read, handleStreamFrame).
TypeOK ==
  /\ holder \in [Mutex -> Goroutine \cup {Nobody}] /\ pc \in [Goroutine -> Place]
  /\ cur \in Stream /\ todo \subseteq Stream /\ queue \in Seq(Stream)
  /\ updates \subseteq Stream /\ streams \subseteq Stream
  /\ out \in [Stream -> OutType] /\ in \in [Stream -> InType]
  /\ completed \in [Stream -> SUBSET {"send", "receive"}]
  /\ session \in [closing : BOOLEAN, over : BOOLEAN, scheduled : BOOLEAN]
  /\ \A s \in Stream : /\ out[s].written <= MaxWrites[s]
                       /\ in[s].read <= in[s].arrived /\ in[s].arrived <= MaxFrames[s]

\* The mutex a goroutine that is at a Lock waits for.
Wanted(p) ==
  LET s == IF p = Loop THEN cur ELSE p[2]
      at == pc[p] IN
  CASE at \in {"write", "close", "frame", "grant", "shutSend"} -> Send(s)
    [] at \in {"read", "copy", "push", "shutReceive"} -> Receive(s)
    [] at = "complete" -> Done(s)
    [] at \in {"activate", "closing", "pop"} -> Queue
    [] at \in {"delete", "updates", "next"} -> Map
    [] at = "update" -> Windows
    [] OTHER -> Nobody

WaitsFor(p) == IF Wanted(p) = Nobody THEN Nobody ELSE holder[Wanted(p)]

\* The goroutines of P wait for each other in a circle.
Waiting == {p \in Goroutine : WaitsFor(p) # Nobody}
Circle(P) == P # {} /\ {WaitsFor(p) : p \in P} = P
Wedged == \E P \in SUBSET Waiting : Circle(P)

\* A Read that has met the end of a stream deletes the stream while it holds
\* its lock; CloseWithError shuts the streams down while it holds the map.
ReadMeetsEnd(P) ==
  \E s \in Stream : /\ P = {Loop, Reader(s)}
                   /\ pc[Loop] = "shutReceive" /\ pc[Reader(s)] = "delete"

\* A Close that overlaps a Write waits for the queue while it holds the lock of
\* the stream; PopStreamFrames has the queue, and the stream was in it.
CloseMeetsWrite(P) ==
  \E s \in ClosedByOther : /\ P = {Loop, Closer(s)}
                          /\ pc[Loop] = "frame" /\ pc[Closer(s)] = "closing"
                          /\ out[s].data > 0

\* The mutexes are taken in an order without a circle, but for these two races.
KnownCircles == \A P \in SUBSET Waiting : Circle(P) => ReadMeetsEnd(P) \/ CloseMeetsWrite(P)

\* A stream is deleted once, by the goroutine that completes its second half:
\* DeleteStream never fails, on which onStreamCompleted would close the session
\* and wait for itself.
DeletedOnce ==
  /\ \A s \in Stream :
       /\ s \notin streams => completed[s] = {"send", "receive"}
       /\ pc[Reader(s)] = "delete" => s \in streams /\ ~(pc[Loop] = "delete" /\ cur = s)
  /\ pc[Loop] = "delete" => cur \in streams

\* Every Write returns and the end of every stream is sent, while the session
\* lasts, unless two goroutines are wedged: no stream with something to send is
\* forgotten by the queue of the framer.
Sent == \A s \in Stream : pc[Writer(s)] = "end" /\ out[s].finSent
AllIsSent == <>(session.closing \/ Wedged \/ Sent)

\* The end of the session is over some time, with no goroutine left in a Read
\* or a Write, unless two are wedged.
Over == /\ session.over
        /\ \A s \in Stream : pc[Reader(s)] \in {"failed", "eof"} /\ pc[Writer(s)] = "end"
EndCompletes == session.closing ~> Over \/ Wedged

\* "closes a stream abruptly. It makes Read and Write unblock (and return the
\* error) immediately." (stream.go, lines 153 and 154)
AbruptClose ==
  \A s \in Stream : pc[Loop] = "shutReceive" /\ cur = s ~> pc[Reader(s)] \in {"failed", "eof"}
=============================================================================

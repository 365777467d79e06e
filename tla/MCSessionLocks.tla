--------------------------- MODULE MCSessionLocks ---------------------------
(***************************************************************************)
(* SessionLocks for TLC, with two streams, of which the second is read     *)
(* only, from two states a session comes to: the second stream is over, or *)
(* the first has done all but one of its writes and reads.                 *)
(***************************************************************************)
EXTENDS SessionLocks

\* Room for an update of the window of either side.
MCWrites == [s1 |-> 2, s2 |-> 0]
MCFrames == [s1 |-> 2, s2 |-> 1]

\* A session with one stream.
OneWrites == [s1 |-> 2]
OneFrames == [s1 |-> 2]

\* No goroutine has begun anything.
AllIdle ==
  /\ holder = [l \in Mutex |-> Nobody]
  /\ todo = {} /\ queue = <<>> /\ updates = {}
  /\ session = [closing |-> FALSE, over |-> FALSE, scheduled |-> FALSE]

\* Where the reader and the writer of each stream and the closer of s1 are.
At(reader, writer) ==
  pc = [p \in Goroutine |-> CASE p[1] = "loop" -> "idle"
                              [] p[1] = "writer" -> writer[p[2]]
                              [] p[1] = "closer" -> "close"
                              [] p[1] = "reader" -> reader[p[2]]]
Untouched == [written |-> 0, data |-> 0, granted |-> FALSE, finished |-> FALSE,
              finSent |-> FALSE, shut |-> FALSE, signal |-> FALSE]
Half == [Untouched EXCEPT !.written = 1, !.granted = TRUE]
HasEnded == [Untouched EXCEPT !.granted = TRUE, !.finished = TRUE, !.finSent = TRUE]
HasRead(k) == [arrived |-> k, read |-> k, shut |-> FALSE, signal |-> FALSE]

\* s1 has not begun; s2 has been read and deleted.
OneLeft ==
  /\ AllIdle /\ cur = "s2"
  /\ At([s1 |-> "read", s2 |-> "eof"], [s1 |-> "write", s2 |-> "end"])
  /\ streams = {"s1"}
  /\ out = [s1 |-> Untouched, s2 |-> HasEnded]
  /\ in = [s1 |-> HasRead(0), s2 |-> HasRead(1)]
  /\ completed = [s1 |-> {}, s2 |-> {"send", "receive"}]

\* s1 has been written once and read once; s2 is about to be read.
TwoLeft ==
  /\ AllIdle /\ cur = "s1"
  /\ At([s1 |-> "read", s2 |-> "read"], [s1 |-> "write", s2 |-> "end"])
  /\ streams = {"s1", "s2"}
  /\ out = [s1 |-> Half, s2 |-> HasEnded]
  /\ in = [s1 |-> HasRead(1), s2 |-> HasRead(0)]
  /\ completed = [s1 |-> {}, s2 |-> {"send"}]

MCFairSpec == (OneLeft \/ TwoLeft) /\ [][LocksNext]_vars /\ LocksFairness
=============================================================================

------------------------- MODULE SessionLocks_proofs -------------------------
(***************************************************************************)
(* Proofs about SessionLocks, for every number of streams, of writes and   *)
(* of frames: but for the two known races no goroutines of a session ever  *)
(* wait for each other in a circle, which then is for ever, and a stream   *)
(* is deleted once.                                                        *)
(*                                                                         *)
(* HolderInv says which mutexes a goroutine has at each of its places.     *)
(* Every goroutine but the run loop that has one wants one that only the   *)
(* run loop can have, so that a circle is the run loop and one other.      *)
(* Which others there can be depends on the streams the framer has in its  *)
(* queue (QueueInv).                                                       *)
(***************************************************************************)
EXTENDS SessionLocks, SequenceTheorems, TLAPS

\* The goroutine p has the mutex l when it is at the given place, and the run
\* loop works on the stream c.
Has(p, l, at, c) ==
  \/ /\ p = Loop
     /\ \/ l = Windows /\ at = "updates"
        \/ l = Queue /\ at \in {"next", "frame", "full", "complete", "delete"}
        \/ l = Send(c) /\ at \in {"complete", "delete"}
        \/ l = Done(c) /\ at = "delete"
        \/ l = Map /\ at \in Shutting
  \/ \E s \in Stream : /\ p \in {Writer(s), Closer(s)}
                       /\ l = Send(s) /\ at \in {"activate", "closing"}
  \/ \E s \in Stream : /\ p = Reader(s)
                       /\ \/ l = Receive(s) /\ at \in {"update", "complete", "delete"}
                          \/ l = Done(s) /\ at = "delete"

\* h: holder; at: pc; c: cur.
Holding(h, at, c) == \A l \in Mutex, p \in Goroutine : h[l] = p <=> Has(p, l, at[p], c)

HolderInv == Holding(holder, pc, cur)

PlaceInv ==
  /\ pc[Loop] \in LoopPlace
  /\ \A s \in Stream :
       /\ pc[Writer(s)] \in WriterPlace /\ pc[Reader(s)] \in ReaderPlace
       /\ s \in ClosedByOther => /\ pc[Closer(s)] \in CloserPlace
                                 /\ pc[Writer(s)] \notin {"close", "closing"}

Types ==
  /\ holder \in [Mutex -> Goroutine \cup {Nobody}]
  /\ pc \in [Goroutine -> Place]
  /\ cur \in Stream /\ todo \subseteq Stream /\ queue \in Seq(Stream)
  /\ streams \subseteq Stream
  /\ out \in [Stream -> OutType]
  /\ completed \in [Stream -> SUBSET {"send", "receive"}]
  /\ pc[Loop] \in {"next", "frame", "complete", "delete"} => todo \subseteq Range(queue)

BaseInv == Types /\ PlaceInv /\ HolderInv

(* The names of goroutines and mutexes.                                    *)

\* Goroutines of two kinds, or of two streams, are different.
LEMMA Goroutines ==
  /\ Loop \in Goroutine /\ Nobody \notin Goroutine
  /\ \A s \in Stream :
       /\ Writer(s) \in Goroutine /\ Reader(s) \in Goroutine
       /\ s \in ClosedByOther => Closer(s) \in Goroutine
       /\ Writer(s) # Loop /\ Reader(s) # Loop /\ Closer(s) # Loop
       /\ \A t \in Stream : /\ Writer(s) # Reader(t) /\ Writer(s) # Closer(t)
                            /\ Reader(s) # Closer(t)
                            /\ Writer(s) = Writer(t) => s = t
                            /\ Reader(s) = Reader(t) => s = t
                            /\ Closer(s) = Closer(t) => s = t
BY DEF Goroutine, Loop, Writer, Reader, Closer, Nobody

\* A goroutine is the run loop, a writer, a reader or a closer.
LEMMA Kinds ==
  ASSUME NEW p \in Goroutine
  PROVE  \/ p = Loop
         \/ \E s \in Stream : p = Writer(s)
         \/ \E s \in Stream : p = Reader(s)
         \/ \E s \in ClosedByOther : p = Closer(s)
BY DEF Goroutine, Loop, Writer, Reader, Closer

\* Mutexes of two kinds, or of two streams, are different.
LEMMA Mutexes ==
  /\ Map \in Mutex /\ Queue \in Mutex /\ Windows \in Mutex
  /\ Map # Queue /\ Map # Windows /\ Queue # Windows
  /\ Nobody \notin Mutex
  /\ \A s \in Stream :
       /\ Send(s) \in Mutex /\ Receive(s) \in Mutex /\ Done(s) \in Mutex
       /\ Send(s) \notin {Map, Queue, Windows}
       /\ Receive(s) \notin {Map, Queue, Windows}
       /\ Done(s) \notin {Map, Queue, Windows}
       /\ \A t \in Stream : /\ Send(s) # Receive(t) /\ Send(s) # Done(t)
                            /\ Receive(s) # Done(t)
                            /\ Send(s) = Send(t) => s = t
                            /\ Receive(s) = Receive(t) => s = t
                            /\ Done(s) = Done(t) => s = t
BY DEF Mutex, Map, Queue, Windows, Send, Receive, Done, Nobody

\* What each kind of goroutine has at its places.
LEMMA HasLoop ==
  ASSUME NEW l, NEW at, NEW c
  PROVE  Has(Loop, l, at, c) <=>
           \/ l = Windows /\ at = "updates"
           \/ l = Queue /\ at \in {"next", "frame", "full", "complete", "delete"}
           \/ l = Send(c) /\ at \in {"complete", "delete"}
           \/ l = Done(c) /\ at = "delete"
           \/ l = Map /\ at \in Shutting
BY Goroutines DEF Has

\* A writer has the lock of its stream while it tells the framer.
LEMMA HasWriter ==
  ASSUME NEW s \in Stream, NEW l, NEW at, NEW c
  PROVE  Has(Writer(s), l, at, c) <=> l = Send(s) /\ at \in {"activate", "closing"}
BY Goroutines DEF Has

\* So has one that closes it.
LEMMA HasCloser ==
  ASSUME NEW s \in Stream, NEW l, NEW at, NEW c
  PROVE  Has(Closer(s), l, at, c) <=> l = Send(s) /\ at \in {"activate", "closing"}
BY Goroutines DEF Has

\* A reader has the lock of its half after a copy.
LEMMA HasReader ==
  ASSUME NEW s \in Stream, NEW l, NEW at, NEW c
  PROVE  Has(Reader(s), l, at, c) <=>
           \/ l = Receive(s) /\ at \in {"update", "complete", "delete"}
           \/ l = Done(s) /\ at = "delete"
BY Goroutines DEF Has

(* How a step changes who has what.                                        *)

\* A step of p takes mutexes that are free, and gives back its own.
LEMMA HolderStep ==
  ASSUME NEW h, NEW h2, NEW at \in [Goroutine -> Place], NEW c, NEW c2,
         NEW p \in Goroutine, NEW place,
         Holding(h, at, c), c2 = c \/ p = Loop,
         \A l \in Mutex :
           \/ h2[l] = h[l] /\ (h[l] = p <=> Has(p, l, place, c2))
           \/ h[l] = Nobody /\ h2[l] = p /\ Has(p, l, place, c2)
           \/ h[l] = p /\ h2[l] = Nobody /\ ~Has(p, l, place, c2)
  PROVE  Holding(h2, [at EXCEPT ![p] = place], c2)
<1> SUFFICES ASSUME NEW l \in Mutex, NEW q \in Goroutine
             PROVE  h2[l] = q <=> Has(q, l, [at EXCEPT ![p] = place][q], c2)
  BY DEF Holding
<1>1. h[l] = q <=> Has(q, l, at[q], c)
  BY DEF Holding
<1>2. Nobody # q /\ Nobody # p
  BY Goroutines
<1>3. CASE q = p
  BY <1>1, <1>2, <1>3
<1>4. CASE q # p
  <2>1. [at EXCEPT ![p] = place][q] = at[q]
    BY <1>4
  <2>2. Has(q, l, at[q], c) <=> Has(q, l, at[q], c2)
    BY <1>4 DEF Has
  <2> QED BY <1>1, <1>2, <1>4, <2>1, <2>2
<1> QED BY <1>3, <1>4

\* A step that neither locks nor unlocks.
LEMMA HolderKeeps ==
  ASSUME NEW h, NEW at \in [Goroutine -> Place], NEW c, NEW c2,
         NEW p \in Goroutine, NEW place,
         Holding(h, at, c), c2 = c \/ p = Loop,
         \A l \in Mutex : Has(p, l, place, c2) <=> Has(p, l, at[p], c)
  PROVE  Holding(h, [at EXCEPT ![p] = place], c2)
<1>1. \A l \in Mutex : h[l] = p <=> Has(p, l, place, c2)
  BY DEF Holding
<1> QED BY <1>1, HolderStep

\* Lock.
LEMMA HolderTakes ==
  ASSUME NEW h \in [Mutex -> Goroutine \cup {Nobody}], NEW at \in [Goroutine -> Place],
         NEW c, NEW p \in Goroutine, NEW place, NEW k \in Mutex,
         Holding(h, at, c), h[k] = Nobody,
         \A l \in Mutex : Has(p, l, place, c) <=> Has(p, l, at[p], c) \/ l = k
  PROVE  Holding([h EXCEPT ![k] = p], [at EXCEPT ![p] = place], c)
<1>1. \A l \in Mutex : h[l] = p <=> Has(p, l, at[p], c)
  BY DEF Holding
<1>2. PICK h2 : h2 = [h EXCEPT ![k] = p]
  OBVIOUS
<1>3. ASSUME NEW l \in Mutex
      PROVE  \/ h2[l] = h[l] /\ (h[l] = p <=> Has(p, l, place, c))
             \/ h[l] = Nobody /\ h2[l] = p /\ Has(p, l, place, c)
  BY <1>1, <1>2
<1> QED BY <1>2, <1>3, HolderStep

\* Unlock.
Unlocked(h, L) == [l \in Mutex |-> IF l \in L THEN Nobody ELSE h[l]]

\* A goroutine unlocks what it has.
LEMMA HolderReleases ==
  ASSUME NEW h \in [Mutex -> Goroutine \cup {Nobody}], NEW at \in [Goroutine -> Place],
         NEW c, NEW p \in Goroutine, NEW place, NEW L,
         Holding(h, at, c), \A l \in L : Has(p, l, at[p], c),
         \A l \in Mutex : Has(p, l, place, c) <=> Has(p, l, at[p], c) /\ l \notin L
  PROVE  Holding(Unlocked(h, L), [at EXCEPT ![p] = place], c)
<1>1. \A l \in Mutex : h[l] = p <=> Has(p, l, at[p], c)
  BY DEF Holding
<1>2. PICK h2 : h2 = Unlocked(h, L)
  OBVIOUS
<1>3. ASSUME NEW l \in Mutex
      PROVE  \/ h2[l] = h[l] /\ (h[l] = p <=> Has(p, l, place, c))
             \/ h[l] = p /\ h2[l] = Nobody /\ ~Has(p, l, place, c)
  BY <1>1, <1>2 DEF Unlocked
<1> QED BY <1>2, <1>3, HolderStep

(* Types and places.                                                       *)

\* A goroutine that moves to a place of its kind leaves the others where they
\* are.
LEMMA Moves ==
  ASSUME Types, PlaceInv, NEW p \in Goroutine, NEW place, pc' = [pc EXCEPT ![p] = place],
         \/ p = Loop /\ place \in LoopPlace
         \/ \E s \in Stream : /\ p = Writer(s) /\ place \in WriterPlace
                              /\ s \in ClosedByOther => place \notin {"close", "closing"}
         \/ \E s \in Stream : p = Reader(s) /\ place \in ReaderPlace
         \/ \E s \in ClosedByOther : p = Closer(s) /\ place \in CloserPlace
  PROVE  /\ PlaceInv' /\ pc' \in [Goroutine -> Place]
         /\ pc'[p] = place /\ \A q \in Goroutine : q # p => pc'[q] = pc[q]
<1>1. /\ place \in Place /\ pc \in [Goroutine -> Place]
      /\ \A t \in ClosedByOther : t \in Stream
  BY SessionLocksAssumption DEF Place, Types
<1>2. /\ pc' \in [Goroutine -> Place] /\ pc'[p] = place
      /\ \A q \in Goroutine : q # p => pc'[q] = pc[q]
  BY <1>1
<1>3. PlaceInv'
  BY <1>1, <1>2, Goroutines DEF PlaceInv
<1> QED BY <1>2, <1>3

\* Lock and Release keep the type of holder.
LEMMA HolderType ==
  ASSUME NEW h \in [Mutex -> Goroutine \cup {Nobody}], NEW p \in Goroutine, NEW k, NEW L
  PROVE  /\ [h EXCEPT ![k] = p] \in [Mutex -> Goroutine \cup {Nobody}]
         /\ Unlocked(h, L) \in [Mutex -> Goroutine \cup {Nobody}]
BY DEF Unlocked

\* What a channel of streams holds after a send.
LEMMA AppendRange ==
  ASSUME NEW q \in Seq(Stream), NEW s \in Stream
  PROVE  Append(q, s) \in Seq(Stream) /\ Range(Append(q, s)) = Range(q) \cup {s}
<1>1. PICK r : r = Append(q, s)
  OBVIOUS
<1>2. /\ r \in Seq(Stream) /\ Len(r) = Len(q) + 1 /\ Len(q) \in Nat
      /\ DOMAIN r = 1..Len(r) /\ DOMAIN q = 1..Len(q)
      /\ \A i \in 1..Len(q) : r[i] = q[i]
      /\ r[Len(q) + 1] = s
  BY <1>1, AppendProperties, LenProperties
<1>3. \A i \in 1..Len(r) : i \in 1..Len(q) \/ i = Len(q) + 1
  BY <1>2
<1>4. Len(q) + 1 \in 1..Len(r) /\ \A i \in 1..Len(q) : i \in 1..Len(r)
  BY <1>2
<1> QED BY <1>1, <1>2, <1>3, <1>4 DEF Range

\* And after a receive.
LEMMA TailRange ==
  ASSUME NEW q \in Seq(Stream), q # <<>>
  PROVE  /\ Head(q) \in Range(q) /\ Head(q) \in Stream /\ Tail(q) \in Seq(Stream)
         /\ Range(Tail(q)) \subseteq Range(q)
         /\ Range(q) \subseteq Range(Tail(q)) \cup {Head(q)}
<1>1. PICK r : r = Tail(q)
  OBVIOUS
<1>2. /\ r \in Seq(Stream) /\ Len(q) \in Nat /\ Len(q) > 0 /\ Len(r) = Len(q) - 1
      /\ DOMAIN r = 1..Len(r) /\ DOMAIN q = 1..Len(q)
      /\ \A i \in 1..Len(r) : r[i] = q[i + 1]
      /\ Head(q) = q[1] /\ Head(q) \in Stream
  BY <1>1, HeadTailProperties, LenProperties, EmptySeq
<1>3. \A i \in 1..Len(r) : i + 1 \in 1..Len(q)
  BY <1>2
<1>4. \A i \in 1..Len(q) : i = 1 \/ (i - 1 \in 1..Len(r) /\ r[i - 1] = q[i])
  <2> SUFFICES ASSUME NEW i \in 1..Len(q), i # 1
               PROVE  i - 1 \in 1..Len(r) /\ r[i - 1] = q[i]
    OBVIOUS
  <2>1. PICK k \in 1..Len(r) : k = i - 1
    BY <1>2
  <2> QED BY <1>2, <2>1
<1>5. 1 \in 1..Len(q)
  BY <1>2
<1>6. Head(q) \in Range(q)
  BY <1>2, <1>5 DEF Range
<1>7. Range(r) \subseteq Range(q)
  BY <1>2, <1>3 DEF Range
<1>8. ASSUME NEW x \in Range(q) PROVE x \in Range(r) \cup {Head(q)}
  <2>1. PICK i \in 1..Len(q) : x = q[i]
    BY <1>2 DEF Range
  <2>2. CASE i = 1
    BY <1>2, <2>1, <2>2
  <2>3. CASE i # 1
    BY <1>2, <1>4, <2>1, <2>3 DEF Range
  <2> QED BY <2>2, <2>3
<1> QED BY <1>1, <1>2, <1>6, <1>7, <1>8

\* The streams in a queue are streams.
LEMMA RangeType == \A q \in Seq(Stream) : Range(q) \subseteq Stream /\ Range(<<>>) = {}
<1>1. ASSUME NEW q \in Seq(Stream) PROVE Range(q) \subseteq Stream
  BY LenProperties DEF Range
<1>2. Range(<<>>) = {}
  BY EmptySeq DEF Range
<1> QED BY <1>1, <1>2

(* BaseInv is inductive.                                                   *)

\* The steps of a goroutine in Write or Close.
LEMMA WriterBase ==
  ASSUME BaseInv, NEW s \in Stream, WriterStep(s)
  PROVE  BaseInv'
<1>0. /\ Types /\ PlaceInv /\ Holding(holder, pc, cur)
      /\ Writer(s) \in Goroutine /\ pc \in [Goroutine -> Place]
      /\ holder \in [Mutex -> Goroutine \cup {Nobody}]
      /\ s \in Stream /\ cur' = cur /\ todo' = todo /\ streams' = streams
      /\ completed' = completed
      /\ Send(s) \in Mutex /\ pc[Loop] \in LoopPlace
  BY Goroutines, Mutexes DEF BaseInv, HolderInv, Types, PlaceInv, WriterStep, Write, Write_activate, Write_wakes,
     Write_ends, Close, Close_activate
<1>1. out' \in [Stream -> OutType]
  <2>1. out \in [Stream -> OutType] /\ out[s] \in OutType
    BY <1>0 DEF Types
  <2>2. CASE Write(s)
    BY <2>1, <2>2 DEF Write, OutType
  <2>3. CASE Write_wakes(s)
    BY <2>1, <2>3 DEF Write_wakes, OutType
  <2>4. CASE Close(Writer(s), s)
    BY <2>1, <2>4 DEF Close, OutType
  <2>5. CASE out' = out
    BY <2>1, <2>5
  <2> QED BY <2>2, <2>3, <2>4, <2>5
      DEF WriterStep, Write_activate, Write_ends, Close_activate
<1>2. /\ queue' \in Seq(Stream) /\ Range(queue) \subseteq Range(queue')
  <2>1. queue' = queue \/ queue' = Append(queue, s)
    BY DEF WriterStep, Write, Write_activate, Write_wakes, Write_ends, Close,
       Close_activate, onHasStreamData
  <2>2. queue \in Seq(Stream)
    BY <1>0 DEF Types
  <2> QED BY <2>1, <2>2, AppendRange
<1>3. ASSUME NEW place \in WriterPlace, pc' = [pc EXCEPT ![Writer(s)] = place],
             s \in ClosedByOther => place \notin {"close", "closing"},
             holder' \in [Mutex -> Goroutine \cup {Nobody}], HolderInv'
      PROVE  BaseInv'
  <2>1. PlaceInv' /\ pc' \in [Goroutine -> Place] /\ pc'[Loop] = pc[Loop]
    BY <1>0, <1>3, Moves, Goroutines
  <2> QED BY <1>0, <1>1, <1>2, <1>3, <2>1 DEF BaseInv, Types
<1>4. ASSUME NEW place \in WriterPlace, pc' = [pc EXCEPT ![Writer(s)] = place],
             holder' = holder,
             s \in ClosedByOther => place \notin {"close", "closing"},
             place \notin {"activate", "closing"}, pc[Writer(s)] \notin {"activate", "closing"}
      PROVE  BaseInv'
  <2>1. Holding(holder, pc', cur)
    BY <1>0, <1>4, HasWriter, HolderKeeps
  <2> QED BY <1>0, <1>3, <1>4, <2>1 DEF HolderInv
<1>5. ASSUME NEW place \in {"activate", "closing"}, pc' = [pc EXCEPT ![Writer(s)] = place],
             s \in ClosedByOther => place \notin {"close", "closing"},
             Lock(Writer(s), Send(s)), pc[Writer(s)] \notin {"activate", "closing"}
      PROVE  BaseInv'
  <2>1. Holding([holder EXCEPT ![Send(s)] = Writer(s)], pc', cur)
    BY <1>0, <1>5, HasWriter, HolderTakes DEF Lock, Free
  <2> QED BY <1>0, <1>3, <1>5, <2>1, HolderType DEF HolderInv, Lock, WriterPlace
<1>6. ASSUME NEW place \in {"sleep", "end"}, pc' = [pc EXCEPT ![Writer(s)] = place],
             Release({Send(s)}), pc[Writer(s)] \in {"activate", "closing"}
      PROVE  BaseInv'
  <2>1. Holding(Unlocked(holder, {Send(s)}), pc', cur)
    <3>1. \A l \in {Send(s)} : Has(Writer(s), l, pc[Writer(s)], cur)
      BY <1>6, HasWriter
    <3>2. ASSUME NEW l \in Mutex, Has(Writer(s), l, pc[Writer(s)], cur) PROVE l = Send(s)
      BY <3>2, HasWriter
    <3>3. \A l \in Mutex : ~Has(Writer(s), l, place, cur)
      BY <1>6, HasWriter
    <3>4. PICK L : L = {Send(s)}
      OBVIOUS
    <3>5. Holding(Unlocked(holder, L), [pc EXCEPT ![Writer(s)] = place], cur)
      BY <1>0, <3>1, <3>2, <3>3, <3>4, HolderReleases
    <3> QED BY <1>6, <3>4, <3>5
  <2>2. holder' = Unlocked(holder, {Send(s)})
    BY <1>6 DEF Release, Unlocked
  <2> QED BY <1>0, <1>3, <1>6, <2>1, <2>2, HolderType DEF HolderInv, WriterPlace
<1>7. CASE Write(s)
  BY <1>4, <1>5, <1>7 DEF Write, Goto, WriterPlace
<1>8. CASE Write_activate(s)
  BY <1>6, <1>8 DEF Write_activate, Goto
<1>9. CASE Write_wakes(s)
  BY <1>4, <1>9 DEF Write_wakes, Goto, WriterPlace
<1>10. CASE Write_ends(s)
  BY <1>4, <1>10 DEF Write_ends, Goto, WriterPlace
<1>11. CASE Close(Writer(s), s)
  BY <1>0, <1>5, <1>11 DEF Close, Goto, PlaceInv
<1>12. CASE Close_activate(Writer(s), s)
  BY <1>6, <1>12 DEF Close_activate, Goto
<1> QED BY <1>7, <1>8, <1>9, <1>10, <1>11, <1>12 DEF WriterStep

\* The steps of a goroutine that closes a stream another may write to.
LEMMA CloserBase ==
  ASSUME BaseInv, NEW s \in ClosedByOther, CloserStep(s)
  PROVE  BaseInv'
<1>0. /\ Types /\ PlaceInv /\ Holding(holder, pc, cur)
      /\ s \in Stream /\ Closer(s) \in Goroutine /\ Closer(s) # Loop
      /\ pc \in [Goroutine -> Place] /\ holder \in [Mutex -> Goroutine \cup {Nobody}]
      /\ cur' = cur /\ todo' = todo /\ streams' = streams /\ completed' = completed
      /\ Send(s) \in Mutex
  BY SessionLocksAssumption, Goroutines, Mutexes
  DEF BaseInv, HolderInv, Types, CloserStep, Close, Close_activate
<1>1. /\ out \in [Stream -> OutType] /\ out[s] \in OutType /\ queue \in Seq(Stream)
      /\ Loop \in Goroutine
  BY <1>0, Goroutines DEF Types
<1>2. ASSUME NEW place \in CloserPlace, pc' = [pc EXCEPT ![Closer(s)] = place],
             holder' \in [Mutex -> Goroutine \cup {Nobody}], HolderInv',
             out' \in [Stream -> OutType],
             queue' \in Seq(Stream), Range(queue) \subseteq Range(queue')
      PROVE  BaseInv'
  <2>1. PlaceInv' /\ pc' \in [Goroutine -> Place] /\ pc'[Loop] = pc[Loop]
    BY <1>0, <1>1, <1>2, Moves
  <2> QED BY <1>0, <1>2, <2>1 DEF BaseInv, Types
<1>3. CASE Close(Closer(s), s)
  <2>1. /\ pc' = [pc EXCEPT ![Closer(s)] = "closing"] /\ pc[Closer(s)] = "close"
        /\ holder[Send(s)] = Nobody /\ holder' = [holder EXCEPT ![Send(s)] = Closer(s)]
        /\ queue' = queue
    BY <1>3 DEF Close, Lock, Free, Goto
  <2>2. Holding([holder EXCEPT ![Send(s)] = Closer(s)], pc', cur)
    BY <1>0, <2>1, HasCloser, HolderTakes
  <2>3. out' \in [Stream -> OutType]
    BY <1>1, <1>3 DEF Close, OutType
  <2> QED BY <1>0, <1>1, <1>2, <2>1, <2>2, <2>3, HolderType DEF HolderInv, CloserPlace
<1>4. CASE Close_activate(Closer(s), s)
  <2>1. /\ pc' = [pc EXCEPT ![Closer(s)] = "end"] /\ pc[Closer(s)] = "closing"
        /\ holder' = Unlocked(holder, {Send(s)}) /\ out' = out
        /\ queue' = queue \/ queue' = Append(queue, s)
    BY <1>4 DEF Close_activate, Release, Unlocked, Goto, onHasStreamData
  <2>2. \A l \in {Send(s)} : Has(Closer(s), l, pc[Closer(s)], cur)
    BY <1>0, <2>1, HasCloser
  <2>3. ASSUME NEW l \in Mutex, Has(Closer(s), l, pc[Closer(s)], cur) PROVE l = Send(s)
    BY <1>0, <2>3, HasCloser
  <2>4. ASSUME NEW l \in Mutex, NEW at, at = "end" PROVE ~Has(Closer(s), l, at, cur)
    BY <1>0, <2>4, HasCloser
  <2>5. PICK L : L = {Send(s)}
    OBVIOUS
  <2>6. Holding(Unlocked(holder, L), [pc EXCEPT ![Closer(s)] = "end"], cur)
    BY <1>0, <2>2, <2>3, <2>4, <2>5, HolderReleases
  <2>7. queue' \in Seq(Stream) /\ Range(queue) \subseteq Range(queue')
    BY <1>0, <1>1, <2>1, AppendRange
  <2> QED BY <1>0, <1>1, <1>2, <2>1, <2>5, <2>6, <2>7, HolderType
      DEF HolderInv, CloserPlace
<1> QED BY <1>3, <1>4 DEF CloserStep

\* The steps of a goroutine in Read.
LEMMA ReaderBase ==
  ASSUME BaseInv, NEW s \in Stream, ReaderStep(s)
  PROVE  BaseInv'
<1>0. /\ Types /\ PlaceInv /\ Holding(holder, pc, cur)
      /\ Reader(s) \in Goroutine /\ Reader(s) # Loop /\ Loop \in Goroutine
      /\ pc \in [Goroutine -> Place] /\ holder \in [Mutex -> Goroutine \cup {Nobody}]
      /\ cur' = cur /\ todo' = todo /\ queue' = queue /\ out' = out
      /\ Receive(s) \in Mutex /\ Done(s) \in Mutex /\ Receive(s) # Done(s)
  BY Goroutines, Mutexes
  DEF BaseInv, HolderInv, Types, ReaderStep, Read, Read_copied, Read_update,
      Read_complete, Read_delete
<1>1. /\ completed \in [Stream -> SUBSET {"send", "receive"}] /\ streams \subseteq Stream
  BY <1>0 DEF Types
<1>2. completed' \in [Stream -> SUBSET {"send", "receive"}] /\ streams' \subseteq Stream
  BY <1>1 DEF ReaderStep, Read, Read_copied, Read_update, Read_complete, Read_delete,
     onStreamCompleted, DeleteStream
<1>3. ASSUME NEW place \in ReaderPlace, pc' = [pc EXCEPT ![Reader(s)] = place],
             holder' \in [Mutex -> Goroutine \cup {Nobody}], HolderInv'
      PROVE  BaseInv'
  <2>1. PlaceInv' /\ pc' \in [Goroutine -> Place] /\ pc'[Loop] = pc[Loop]
    BY <1>0, <1>3, Moves
  <2> QED BY <1>0, <1>2, <1>3, <2>1 DEF BaseInv, Types
<1>4. ASSUME NEW place \in {"read", "sleep", "copy", "failed", "eof"},
             pc' = [pc EXCEPT ![Reader(s)] = place], holder' = holder,
             pc[Reader(s)] \notin {"update", "complete", "delete"}
      PROVE  BaseInv'
  <2>1. Holding(holder, pc', cur)
    BY <1>0, <1>4, HasReader, HolderKeeps
  <2> QED BY <1>0, <1>3, <1>4, <2>1 DEF HolderInv, ReaderPlace
<1>5. ASSUME NEW place \in {"update", "complete"}, pc' = [pc EXCEPT ![Reader(s)] = place],
             Lock(Reader(s), Receive(s)), pc[Reader(s)] \notin {"update", "complete", "delete"}
      PROVE  BaseInv'
  <2>1. Holding([holder EXCEPT ![Receive(s)] = Reader(s)], pc', cur)
    BY <1>0, <1>5, HasReader, HolderTakes DEF Lock, Free
  <2> QED BY <1>0, <1>3, <1>5, <2>1, HolderType DEF HolderInv, Lock, ReaderPlace
<1>6. ASSUME pc' = [pc EXCEPT ![Reader(s)] = "delete"],
             Lock(Reader(s), Done(s)), pc[Reader(s)] = "complete"
      PROVE  BaseInv'
  <2>1. Holding([holder EXCEPT ![Done(s)] = Reader(s)], pc', cur)
    <3>1. ASSUME NEW l \in Mutex, NEW a, a = "delete", NEW b, b = "complete"
          PROVE  Has(Reader(s), l, a, cur) <=> Has(Reader(s), l, b, cur) \/ l = Done(s)
      <4>1. Has(Reader(s), l, a, cur) <=> l = Receive(s) \/ l = Done(s)
        BY <3>1, HasReader
      <4>2. Has(Reader(s), l, b, cur) <=> l = Receive(s)
        BY <3>1, HasReader
      <4> QED BY <4>1, <4>2
    <3> QED BY <1>0, <1>6, <3>1, HolderTakes DEF Lock, Free
  <2> QED BY <1>0, <1>3, <1>6, <2>1, HolderType DEF HolderInv, Lock, ReaderPlace
<1>7. ASSUME NEW place \in {"read", "eof"}, pc' = [pc EXCEPT ![Reader(s)] = place],
             NEW L, holder' = Unlocked(holder, L),
             pc[Reader(s)] \in {"update", "complete", "delete"},
             Receive(s) \in L, pc[Reader(s)] = "delete" => Done(s) \in L,
             \A l \in L : l = Receive(s) \/ (l = Done(s) /\ pc[Reader(s)] = "delete")
      PROVE  BaseInv'
  <2>1. ASSUME NEW l \in L PROVE Has(Reader(s), l, pc[Reader(s)], cur)
    BY <1>7, <2>1, HasReader
  <2>2. ASSUME NEW l \in Mutex, Has(Reader(s), l, pc[Reader(s)], cur) PROVE l \in L
    <3>1. l = Receive(s) \/ (l = Done(s) /\ pc[Reader(s)] = "delete")
      BY <2>2, HasReader
    <3> QED BY <1>7, <3>1
  <2>3. ASSUME NEW l \in Mutex PROVE ~Has(Reader(s), l, place, cur)
    BY <1>7, HasReader
  <2>4. Holding(Unlocked(holder, L), [pc EXCEPT ![Reader(s)] = place], cur)
    BY <1>0, <2>1, <2>2, <2>3, HolderReleases
  <2> QED BY <1>0, <1>3, <1>7, <2>4, HolderType DEF HolderInv, ReaderPlace
<1>8. CASE Read(s)
  BY <1>4, <1>8 DEF Read, Goto
<1>9. CASE Read_copied(s)
  BY <1>4, <1>5, <1>9 DEF Read_copied, Goto
<1>10. CASE Read_update(s)
  <2>1. PICK L : L = {Receive(s)}
    OBVIOUS
  <2>2. /\ pc' = [pc EXCEPT ![Reader(s)] = "read"] /\ pc[Reader(s)] = "update"
        /\ holder' = Unlocked(holder, L)
    BY <1>10, <2>1 DEF Read_update, Release, Unlocked, Goto
  <2> QED BY <1>7, <2>1, <2>2
<1>11. CASE Read_complete(s)
  <2>1. PICK L : L = {Receive(s)}
    OBVIOUS
  <2>2. /\ pc[Reader(s)] = "complete"
        /\ \/ pc' = [pc EXCEPT ![Reader(s)] = "delete"] /\ Lock(Reader(s), Done(s))
           \/ pc' = [pc EXCEPT ![Reader(s)] = "eof"] /\ holder' = Unlocked(holder, L)
    BY <1>11, <2>1 DEF Read_complete, onStreamCompleted, Release, Unlocked, Goto
  <2> QED BY <1>6, <1>7, <2>1, <2>2
<1>12. CASE Read_delete(s)
  <2>1. PICK L : L = {Receive(s)} \cup {Done(s)}
    OBVIOUS
  <2>2. /\ pc' = [pc EXCEPT ![Reader(s)] = "eof"] /\ pc[Reader(s)] = "delete"
        /\ holder' = Unlocked(holder, L)
    BY <1>12, <2>1 DEF Read_delete, DeleteStream, Release, Unlocked, Goto
  <2> QED BY <1>7, <2>1, <2>2
<1> QED BY <1>8, <1>9, <1>10, <1>11, <1>12 DEF ReaderStep

\* What the steps of the run loop need not show again.
LEMMA LoopMoves ==
  ASSUME BaseInv, NEW place \in LoopPlace, pc' = [pc EXCEPT ![Loop] = place],
         holder' \in [Mutex -> Goroutine \cup {Nobody}], Holding(holder', pc', cur'),
         cur' \in Stream, todo' \subseteq Stream, queue' \in Seq(Stream),
         streams' \subseteq Stream, out' \in [Stream -> OutType],
         completed' \in [Stream -> SUBSET {"send", "receive"}],
         place \in {"next", "frame", "complete", "delete"} => todo' \subseteq Range(queue')
  PROVE  BaseInv'
<1>1. Types /\ PlaceInv /\ Loop \in Goroutine
  BY Goroutines DEF BaseInv
<1>2. PlaceInv' /\ pc' \in [Goroutine -> Place] /\ pc'[Loop] = place
  BY <1>1, Moves
<1> QED BY <1>2 DEF BaseInv, Types, HolderInv

\* The places at which the run loop has the same mutexes.
SamePlaces(a, b) ==
  \/ a \in {"idle", "pop", "push", "grant", "end"} /\ b \in {"idle", "pop", "push", "grant", "end"}
  \/ a \in {"next", "frame", "full"} /\ b \in {"next", "frame", "full"}
  \/ a \in Shutting /\ b \in Shutting

\* A step of the run loop that neither locks nor unlocks.
LEMMA LoopKeeps ==
  ASSUME BaseInv, NEW place, pc' = [pc EXCEPT ![Loop] = place], holder' = holder,
         SamePlaces(pc[Loop], place)
  PROVE  /\ Holding(holder', pc', cur')
         /\ holder' \in [Mutex -> Goroutine \cup {Nobody}] /\ place \in LoopPlace
<1>1. /\ Holding(holder, pc, cur) /\ pc \in [Goroutine -> Place] /\ Loop \in Goroutine
      /\ holder \in [Mutex -> Goroutine \cup {Nobody}]
  BY Goroutines DEF BaseInv, HolderInv, Types
<1>2. ASSUME NEW l \in Mutex
      PROVE  Has(Loop, l, place, cur') <=> Has(Loop, l, pc[Loop], cur)
  <2>1. PICK c2 : c2 = cur'
    OBVIOUS
  <2>2. Has(Loop, l, place, c2) <=> Has(Loop, l, pc[Loop], cur)
    BY HasLoop DEF SamePlaces, Shutting
  <2> QED BY <2>1, <2>2
<1>3. Holding(holder, pc', cur')
  BY <1>1, <1>2, HolderKeeps
<1> QED BY <1>1, <1>3 DEF LoopPlace, SamePlaces, Shutting

\* A Lock of the run loop.
LEMMA LoopTakes ==
  ASSUME BaseInv, NEW place, pc' = [pc EXCEPT ![Loop] = place], NEW k \in Mutex,
         holder[k] = Nobody, holder' = [holder EXCEPT ![k] = Loop], cur' = cur,
         \/ pc[Loop] = "idle" /\ place = "updates" /\ k = Windows
         \/ pc[Loop] = "pop" /\ place = "next" /\ k = Queue
         \/ pc[Loop] = "frame" /\ place = "complete" /\ k = Send(cur)
         \/ pc[Loop] = "complete" /\ place = "delete" /\ k = Done(cur)
         \/ pc[Loop] = "idle" /\ place = "shut" /\ k = Map
  PROVE  /\ Holding(holder', pc', cur')
         /\ holder' \in [Mutex -> Goroutine \cup {Nobody}] /\ place \in LoopPlace
<1>1. /\ Holding(holder, pc, cur) /\ pc \in [Goroutine -> Place] /\ Loop \in Goroutine
      /\ holder \in [Mutex -> Goroutine \cup {Nobody}]
  BY Goroutines DEF BaseInv, HolderInv, Types
<1>2. ASSUME NEW l \in Mutex
      PROVE  Has(Loop, l, place, cur) <=> Has(Loop, l, pc[Loop], cur) \/ l = k
  BY HasLoop DEF Shutting
<1>3. Holding([holder EXCEPT ![k] = Loop], pc', cur)
  BY <1>1, <1>2, HolderTakes
<1> QED BY <1>1, <1>3, HolderType DEF LoopPlace, Shutting

\* An Unlock of the run loop.
LEMMA LoopReleases ==
  ASSUME BaseInv, NEW place, pc' = [pc EXCEPT ![Loop] = place], NEW L,
         holder' = Unlocked(holder, L), cur' = cur,
         \/ pc[Loop] = "updates" /\ place = "pop" /\ L = {Windows}
         \/ pc[Loop] = "complete" /\ place \in {"next", "full"} /\ L = {Send(cur)}
         \/ pc[Loop] = "delete" /\ place = "next" /\ L = {Send(cur), Done(cur)}
         \/ pc[Loop] \in {"next", "full"} /\ place = "idle" /\ L = {Queue}
         \/ pc[Loop] = "shut" /\ place = "end" /\ L = {Map}
  PROVE  /\ Holding(holder', pc', cur')
         /\ holder' \in [Mutex -> Goroutine \cup {Nobody}] /\ place \in LoopPlace
<1>1. /\ Holding(holder, pc, cur) /\ pc \in [Goroutine -> Place] /\ Loop \in Goroutine
      /\ holder \in [Mutex -> Goroutine \cup {Nobody}] /\ cur \in Stream
  BY Goroutines DEF BaseInv, HolderInv, Types
<1>2. ASSUME NEW l \in L
      PROVE  Has(Loop, l, pc[Loop], cur)
  BY HasLoop DEF Shutting
<1>3. ASSUME NEW l \in Mutex
      PROVE  Has(Loop, l, place, cur) <=> Has(Loop, l, pc[Loop], cur) /\ l \notin L
  BY <1>1, HasLoop, Mutexes DEF Shutting
<1>4. Holding(Unlocked(holder, L), pc', cur)
  BY <1>1, <1>2, <1>3, HolderReleases
<1> QED BY <1>1, <1>4, HolderType DEF LoopPlace, Shutting

\* The run loop sends: window updates, then the frames of the queue.
LEMMA SendingBase ==
  ASSUME BaseInv,
         \/ sendPacket \/ QueueAll \/ PopStreamFrames \/ PopStreamFrames_next
         \/ popStreamFrame \/ popStreamFrame_complete \/ popStreamFrame_delete
         \/ PopStreamFrames_end
  PROVE  BaseInv'
<1>0. /\ cur \in Stream /\ todo \subseteq Stream /\ queue \in Seq(Stream)
      /\ streams \subseteq Stream /\ out \in [Stream -> OutType] /\ out[cur] \in OutType
      /\ completed \in [Stream -> SUBSET {"send", "receive"}]
      /\ pc[Loop] \in {"next", "frame", "complete", "delete"} => todo \subseteq Range(queue)
      /\ Range(queue) \subseteq Stream
  BY RangeType DEF BaseInv, Types
<1>0a. /\ Windows \in Mutex /\ Queue \in Mutex /\ Send(cur) \in Mutex /\ Done(cur) \in Mutex
  BY <1>0, Mutexes
<1>1. CASE sendPacket
  <2>1. PICK place, k : place = "updates" /\ k = Windows
    OBVIOUS
  <2>2. /\ pc' = [pc EXCEPT ![Loop] = place] /\ pc[Loop] = "idle"
        /\ holder[k] = Nobody /\ holder' = [holder EXCEPT ![k] = Loop]
        /\ UNCHANGED <<cur, todo, queue, streams, out, completed>>
    BY <1>1, <2>1 DEF sendPacket, Running, Lock, Free, Goto
  <2> QED BY <1>0, <1>0a, <2>1, <2>2, LoopTakes, LoopMoves
<1>2. CASE QueueAll
  <2>1. PICK place, L : place = "pop" /\ L = {Windows}
    OBVIOUS
  <2>2. /\ pc' = [pc EXCEPT ![Loop] = place] /\ pc[Loop] = "updates"
        /\ holder' = Unlocked(holder, L)
        /\ UNCHANGED <<cur, todo, queue, streams, out, completed>>
    BY <1>2, <2>1 DEF QueueAll, Release, Unlocked, Goto
  <2> QED BY <1>0, <2>1, <2>2, LoopReleases, LoopMoves
<1>3. CASE PopStreamFrames
  <2>1. PICK place, k : place = "next" /\ k = Queue
    OBVIOUS
  <2>2. /\ pc' = [pc EXCEPT ![Loop] = place] /\ pc[Loop] = "pop"
        /\ holder[k] = Nobody /\ holder' = [holder EXCEPT ![k] = Loop]
        /\ todo' = Range(queue) /\ UNCHANGED <<cur, queue, streams, out, completed>>
    BY <1>3, <2>1 DEF PopStreamFrames, Lock, Free, Goto
  <2> QED BY <1>0, <1>0a, <2>1, <2>2, LoopTakes, LoopMoves
<1>4. CASE PopStreamFrames_next
  <2>1. PICK place \in {"next", "frame"} : pc' = [pc EXCEPT ![Loop] = place]
    BY <1>4 DEF PopStreamFrames_next, Goto
  <2>2. /\ pc[Loop] = "next" /\ holder' = holder
        /\ todo # {} /\ cur' = Head(queue) /\ queue' = Tail(queue) /\ todo' = todo \ {cur'}
        /\ UNCHANGED <<streams, out, completed>>
    BY <1>4 DEF PopStreamFrames_next
  <2>3. queue # <<>>
    BY <1>0, <2>2, RangeType
  <2>4. /\ cur' \in Stream /\ queue' \in Seq(Stream) /\ todo' \subseteq Range(queue')
        /\ todo' \subseteq Stream
    BY <1>0, <2>2, <2>3, TailRange
  <2>5. SamePlaces(pc[Loop], place)
    BY <2>1, <2>2 DEF SamePlaces
  <2> QED BY <1>0, <2>1, <2>2, <2>4, <2>5, LoopKeeps, LoopMoves
<1>5. CASE popStreamFrame
  <2>1. /\ queue' = queue \/ queue' = Append(queue, cur)
        /\ pc[Loop] = "frame" /\ UNCHANGED <<cur, todo, streams, completed>>
    BY <1>5 DEF popStreamFrame
  <2>2. queue' \in Seq(Stream) /\ todo \subseteq Range(queue')
    BY <1>0, <2>1, AppendRange
  <2>3. out' \in [Stream -> OutType]
    <3>1. PICK n \in IF Blocked(cur) THEN {0} ELSE (IF out[cur].data > 0 THEN 1 ELSE 0)..out[cur].data :
             LET data == out[cur].data - n
                 fin == out[cur].finished /\ data = 0 /\ ~out[cur].finSent
             IN out' = [out EXCEPT ![cur].data = data,
                                   ![cur].signal = @ \/ (n > 0 /\ data = 0),
                                   ![cur].finSent = @ \/ fin]
      BY <1>5 DEF popStreamFrame
    <3>2. out[cur].data \in 0..2 /\ n \in 0..out[cur].data
      BY <1>0, <3>1 DEF OutType
    <3>3. PICK d \in 0..2, a \in BOOLEAN, b \in BOOLEAN :
            out' = [out EXCEPT ![cur].data = d, ![cur].signal = a, ![cur].finSent = b]
      <4>1. PICK d \in 0..2 : d = out[cur].data - n
        BY <3>2
      <4>2. PICK a \in BOOLEAN : a = (out[cur].signal \/ (n > 0 /\ d = 0))
        OBVIOUS
      <4>3. PICK b \in BOOLEAN :
              b = (out[cur].finSent \/ (out[cur].finished /\ d = 0 /\ ~out[cur].finSent))
        OBVIOUS
      <4> QED BY <1>0, <3>1, <4>1, <4>2, <4>3
    <3> QED BY <1>0, <3>3 DEF OutType
  <2>4. CASE Lock(Loop, Send(cur)) /\ Goto(Loop, "complete")
    <3>1. PICK place, k : place = "complete" /\ k = Send(cur)
      OBVIOUS
    <3>2. /\ pc' = [pc EXCEPT ![Loop] = place]
          /\ holder[k] = Nobody /\ holder' = [holder EXCEPT ![k] = Loop]
      BY <2>4, <3>1 DEF Lock, Free, Goto
    <3> QED BY <1>0, <1>0a, <2>1, <2>2, <2>3, <3>1, <3>2, LoopTakes, LoopMoves
  <2>5. CASE \E place \in {"next", "full"} : Goto(Loop, place) /\ holder' = holder
    <3>1. PICK place \in {"next", "full"} : pc' = [pc EXCEPT ![Loop] = place]
      BY <2>5 DEF Goto
    <3>2. SamePlaces(pc[Loop], place)
      BY <2>1, <3>1 DEF SamePlaces
    <3> QED BY <1>0, <2>1, <2>2, <2>3, <2>5, <3>1, <3>2, LoopKeeps, LoopMoves
  <2> QED BY <1>5, <2>4, <2>5 DEF popStreamFrame, AfterFrame
<1>6. CASE popStreamFrame_complete
  <2>1. /\ pc[Loop] = "complete" /\ UNCHANGED <<cur, todo, queue, streams, out>>
        /\ completed' \in [Stream -> SUBSET {"send", "receive"}]
    BY <1>0, <1>6 DEF popStreamFrame_complete, onStreamCompleted
  <2>2. CASE Lock(Loop, Done(cur)) /\ Goto(Loop, "delete")
    <3>1. PICK place, k : place = "delete" /\ k = Done(cur)
      OBVIOUS
    <3>2. /\ pc' = [pc EXCEPT ![Loop] = place]
          /\ holder[k] = Nobody /\ holder' = [holder EXCEPT ![k] = Loop]
      BY <2>2, <3>1 DEF Lock, Free, Goto
    <3> QED BY <1>0, <1>0a, <2>1, <3>1, <3>2, LoopTakes, LoopMoves
  <2>3. CASE \E place \in {"next", "full"} : Goto(Loop, place) /\ Release({Send(cur)})
    <3>1. PICK place \in {"next", "full"} : pc' = [pc EXCEPT ![Loop] = place]
      BY <2>3 DEF Goto
    <3>2. PICK L : L = {Send(cur)}
      OBVIOUS
    <3>3. holder' = Unlocked(holder, L)
      BY <2>3, <3>2 DEF Release, Unlocked
    <3> QED BY <1>0, <2>1, <3>1, <3>2, <3>3, LoopReleases, LoopMoves
  <2> QED BY <1>6, <2>2, <2>3 DEF popStreamFrame_complete, onStreamCompleted, AfterFrame
<1>7. CASE popStreamFrame_delete
  <2>1. PICK place, L : place = "next" /\ L = {Send(cur), Done(cur)}
    OBVIOUS
  <2>2. /\ pc' = [pc EXCEPT ![Loop] = place] /\ pc[Loop] = "delete"
        /\ holder' = Unlocked(holder, {Send(cur)} \cup {Done(cur)})
        /\ streams' = streams \ {cur}
        /\ UNCHANGED <<cur, todo, queue, out, completed>>
    BY <1>7, <2>1 DEF popStreamFrame_delete, DeleteStream, Release, Unlocked, Goto
  <2>3. {Send(cur)} \cup {Done(cur)} = L
    BY <2>1
  <2> QED BY <1>0, <2>1, <2>2, <2>3, LoopReleases, LoopMoves
<1>8. CASE PopStreamFrames_end
  <2>1. PICK place, L : place = "idle" /\ L = {Queue}
    OBVIOUS
  <2>2. /\ pc' = [pc EXCEPT ![Loop] = place] /\ pc[Loop] \in {"next", "full"}
        /\ holder' = Unlocked(holder, L) /\ todo' = {}
        /\ UNCHANGED <<cur, queue, streams, out, completed>>
    BY <1>8, <2>1 DEF PopStreamFrames_end, Release, Unlocked, Goto
  <2> QED BY <1>0, <2>1, <2>2, LoopReleases, LoopMoves
<1> QED BY <1>1, <1>2, <1>3, <1>4, <1>5, <1>6, <1>7, <1>8

\* The run loop handles frames of the peer, and ends the session.
LEMMA HandlingBase ==
  ASSUME BaseInv,
         \/ \E s \in Stream : handleStreamFrame(s) \/ handleMaxStreamDataFrame(s)
         \/ handleStreamFrame_push \/ handleMaxStreamDataFrame_activate
         \/ CloseWithError \/ CloseWithError_send \/ closeForShutdown_send
         \/ closeForShutdown_receive \/ run_returns
  PROVE  BaseInv'
<1>0. /\ cur \in Stream /\ todo \subseteq Stream /\ queue \in Seq(Stream)
      /\ streams \subseteq Stream /\ out \in [Stream -> OutType]
      /\ completed \in [Stream -> SUBSET {"send", "receive"}]
      /\ Map \in Mutex
  BY Mutexes DEF BaseInv, Types
<1>1. ASSUME NEW place \in {"idle", "push", "grant", "shut", "shutSend", "shutReceive"},
             pc' = [pc EXCEPT ![Loop] = place], holder' = holder,
             SamePlaces(pc[Loop], place),
             cur' \in Stream, todo' \subseteq Stream, queue' \in Seq(Stream),
             streams' = streams, out' \in [Stream -> OutType], completed' = completed
      PROVE  BaseInv'
  BY <1>0, <1>1, LoopKeeps, LoopMoves
<1>2. ASSUME NEW s \in Stream, handleStreamFrame(s)
      PROVE  BaseInv'
  <2>1. SamePlaces(pc[Loop], "push")
    BY <1>2 DEF handleStreamFrame, Running, SamePlaces
  <2> QED BY <1>0, <1>1, <1>2, <2>1 DEF handleStreamFrame, Goto
<1>3. ASSUME NEW s \in Stream, handleMaxStreamDataFrame(s)
      PROVE  BaseInv'
  <2>1. SamePlaces(pc[Loop], "grant")
    BY <1>3 DEF handleMaxStreamDataFrame, Running, SamePlaces
  <2>2. out' \in [Stream -> OutType]
    BY <1>0, <1>3 DEF handleMaxStreamDataFrame, OutType
  <2> QED BY <1>0, <1>1, <1>3, <2>1, <2>2 DEF handleMaxStreamDataFrame, Goto
<1>4. CASE handleStreamFrame_push
  <2>1. SamePlaces(pc[Loop], "idle")
    BY <1>4 DEF handleStreamFrame_push, SamePlaces
  <2> QED BY <1>0, <1>1, <1>4, <2>1 DEF handleStreamFrame_push, Goto
<1>5. CASE handleMaxStreamDataFrame_activate
  <2>1. SamePlaces(pc[Loop], "idle")
    BY <1>5 DEF handleMaxStreamDataFrame_activate, SamePlaces
  <2>2. queue' \in Seq(Stream)
    BY <1>0, <1>5, AppendRange DEF handleMaxStreamDataFrame_activate, onHasStreamData
  <2> QED BY <1>0, <1>1, <1>5, <2>1, <2>2 DEF handleMaxStreamDataFrame_activate, Goto
<1>6. CASE CloseWithError
  <2>1. PICK place, k : place = "shut" /\ k = Map
    OBVIOUS
  <2>2. /\ pc' = [pc EXCEPT ![Loop] = place] /\ pc[Loop] = "idle"
        /\ holder[k] = Nobody /\ holder' = [holder EXCEPT ![k] = Loop]
        /\ todo' = streams /\ UNCHANGED <<cur, queue, streams, out, completed>>
    BY <1>6, <2>1 DEF CloseWithError, Lock, Free, Goto
  <2> QED BY <1>0, <2>1, <2>2, LoopTakes, LoopMoves
<1>7. CASE CloseWithError_send
  <2>1. SamePlaces(pc[Loop], "shutSend")
    BY <1>7 DEF CloseWithError_send, SamePlaces, Shutting
  <2>2. cur' \in Stream /\ todo' \subseteq Stream
    BY <1>0, <1>7 DEF CloseWithError_send
  <2> QED BY <1>0, <1>1, <1>7, <2>1, <2>2 DEF CloseWithError_send, Goto
<1>8. CASE closeForShutdown_send
  <2>1. SamePlaces(pc[Loop], "shutReceive")
    BY <1>8 DEF closeForShutdown_send, SamePlaces, Shutting
  <2>2. out' \in [Stream -> OutType]
    <3>1. out[cur] \in OutType
      BY <1>0
    <3> QED BY <1>0, <1>8, <3>1 DEF closeForShutdown_send, OutType
  <2> QED BY <1>0, <1>1, <1>8, <2>1, <2>2 DEF closeForShutdown_send, Goto
<1>9. CASE closeForShutdown_receive
  <2>1. SamePlaces(pc[Loop], "shut")
    BY <1>9 DEF closeForShutdown_receive, SamePlaces, Shutting
  <2> QED BY <1>0, <1>1, <1>9, <2>1 DEF closeForShutdown_receive, Goto
<1>10. CASE run_returns
  <2>1. PICK place, L : place = "end" /\ L = {Map}
    OBVIOUS
  <2>2. /\ pc' = [pc EXCEPT ![Loop] = place] /\ pc[Loop] = "shut"
        /\ holder' = Unlocked(holder, L)
        /\ UNCHANGED <<cur, todo, queue, streams, out, completed>>
    BY <1>10, <2>1 DEF run_returns, Release, Unlocked, Goto
  <2> QED BY <1>0, <2>1, <2>2, LoopReleases, LoopMoves
<1> QED BY <1>2, <1>3, <1>4, <1>5, <1>6, <1>7, <1>8, <1>9, <1>10

\* Where a goroutine starts.
Start(p) == CASE p[1] = "loop" -> "idle"
              [] p[1] = "writer" -> IF p[2] \in Ended THEN "end" ELSE "write"
              [] p[1] = "closer" -> "close"
              [] p[1] = "reader" -> "read"

\* At the start no mutex is locked.
LEMMA InitBase == Init => BaseInv
<1> SUFFICES ASSUME Init PROVE BaseInv
  OBVIOUS
<1>1. \A p \in Goroutine : pc[p] \in {"idle", "end", "write", "close", "read"}
  BY Kinds DEF Init, Loop, Writer, Reader, Closer
<1>2. pc[Loop] = "idle"
  BY Goroutines DEF Init, Loop
<1>3. \A s \in Stream : pc[Writer(s)] \in {"write", "end"} /\ pc[Reader(s)] = "read"
  BY Goroutines DEF Init, Writer, Reader
<1>4. \A s \in ClosedByOther : pc[Closer(s)] = "close"
  BY Goroutines, SessionLocksAssumption DEF Init, Closer
<1>5. PlaceInv
  BY <1>2, <1>3, <1>4
  DEF PlaceInv, LoopPlace, WriterPlace, ReaderPlace, CloserPlace
<1>6. HolderInv
  <2> SUFFICES ASSUME NEW l \in Mutex, NEW p \in Goroutine
               PROVE  holder[l] # p /\ ~Has(p, l, pc[p], cur)
    BY DEF HolderInv, Holding
  <2>1. holder[l] # p
    BY Goroutines DEF Init
  <2>2. ~Has(p, l, pc[p], cur)
    BY <1>2, <1>1 DEF Has, Shutting
  <2> QED BY <2>1, <2>2
<1>7. Types
  <2>1. pc \in [Goroutine -> Place]
    <3>1. pc = [p \in Goroutine |-> Start(p)]
      BY DEF Init, Start
    <3>2. \A p \in Goroutine : pc[p] \in Place
      BY <1>1 DEF Place, LoopPlace, WriterPlace, CloserPlace, ReaderPlace
    <3> QED BY <3>1, <3>2
  <2>2. out \in [Stream -> OutType]
    BY SessionLocksAssumption DEF Init, OutType
  <2>3. completed \in [Stream -> SUBSET {"send", "receive"}]
    BY DEF Init
  <2> QED BY <1>2, <2>1, <2>2, <2>3, EmptySeq DEF Init, Types
<1> QED BY <1>5, <1>6, <1>7 DEF BaseInv

\* Every step keeps BaseInv.
LEMMA NextBase == BaseInv /\ [LocksNext]_vars => BaseInv'
<1> SUFFICES ASSUME BaseInv, [LocksNext]_vars PROVE BaseInv'
  OBVIOUS
<1>1. CASE LoopStep
  BY <1>1, SendingBase, HandlingBase DEF LoopStep
<1>2. CASE Session_ends
  BY <1>2 DEF Session_ends, BaseInv, Types, PlaceInv, HolderInv
<1>3. ASSUME NEW s \in Stream,
             WriterStep(s) \/ ReaderStep(s) \/ handleStreamFrame(s) \/ handleMaxStreamDataFrame(s)
      PROVE  BaseInv'
  BY <1>3, WriterBase, ReaderBase, HandlingBase
<1>4. ASSUME NEW s \in ClosedByOther, CloserStep(s)
      PROVE  BaseInv'
  BY <1>4, CloserBase
<1>5. CASE UNCHANGED vars
  BY <1>5 DEF vars, BaseInv, Types, PlaceInv, HolderInv
<1> QED BY <1>1, <1>2, <1>3, <1>4, <1>5 DEF LocksNext

(* The queue of the framer.                                                *)

\* The framer has s in its queue, or is about to make a frame of it.
Busy(s) == \/ s \in Range(queue)
           \/ pc[Loop] = "frame" /\ cur = s

\* The goroutine that closes s.
Ending(s) == IF s \in ClosedByOther THEN Closer(s) ELSE Writer(s)

\* No stream is in the queue twice (activeStreams), nor while the framer makes a
\* frame of it.
Distinct(q) == \A i, j \in 1..Len(q) : q[i] = q[j] => i = j

OnceQueued == /\ Distinct(queue)
              /\ pc[Loop] = "frame" => cur \notin Range(queue)

\* A stream that is not in the queue can be added.
LEMMA AppendDistinct ==
  ASSUME NEW q \in Seq(Stream), Distinct(q), NEW s \in Stream, s \notin Range(q)
  PROVE  Distinct(Append(q, s))
<1>1. PICK r : r = Append(q, s)
  OBVIOUS
<1>2. /\ r \in Seq(Stream) /\ Len(r) = Len(q) + 1 /\ Len(q) \in Nat
      /\ DOMAIN q = 1..Len(q)
      /\ \A i \in 1..Len(q) : r[i] = q[i]
      /\ r[Len(q) + 1] = s
  BY <1>1, AppendProperties, LenProperties
<1>3. \A i \in 1..Len(r) : i \in 1..Len(q) \/ i = Len(q) + 1
  BY <1>2
<1>4. \A i \in 1..Len(q) : q[i] # s
  BY <1>2 DEF Range
<1>5. Distinct(r)
  BY <1>2, <1>3, <1>4 DEF Distinct
<1> QED BY <1>1, <1>5

\* The stream taken out is not among the others.
LEMMA TailDistinct ==
  ASSUME NEW q \in Seq(Stream), Distinct(q), q # <<>>
  PROVE  Distinct(Tail(q)) /\ Head(q) \notin Range(Tail(q))
<1>1. PICK r : r = Tail(q)
  OBVIOUS
<1>2. /\ r \in Seq(Stream) /\ Len(q) \in Nat /\ Len(q) > 0 /\ Len(r) = Len(q) - 1
      /\ DOMAIN r = 1..Len(r)
      /\ \A i \in 1..Len(r) : r[i] = q[i + 1]
      /\ Head(q) = q[1]
  BY <1>1, HeadTailProperties, LenProperties, EmptySeq
<1>3. \A i \in 1..Len(r) : i + 1 \in 1..Len(q) /\ i + 1 # 1
  BY <1>2
<1>4. 1 \in 1..Len(q)
  BY <1>2
<1>5. Distinct(r)
  <2> SUFFICES ASSUME NEW i \in 1..Len(r), NEW j \in 1..Len(r), r[i] = r[j] PROVE i = j
    BY DEF Distinct
  <2>1. i + 1 = j + 1
    BY <1>2, <1>3 DEF Distinct
  <2> QED BY <2>1
<1>6. Head(q) \notin Range(r)
  <2> SUFFICES ASSUME NEW i \in 1..Len(r), r[i] = q[1] PROVE FALSE
    BY <1>2 DEF Range
  <2>1. i + 1 = 1
    BY <1>2, <1>3, <1>4 DEF Distinct
  <2> QED BY <1>3, <2>1
<1> QED BY <1>1, <1>5, <1>6

\* While PopStreamFrames runs, nobody else gets at the queue.
LEMMA QueueHeld ==
  ASSUME BaseInv, Free(Queue)
  PROVE  pc[Loop] \notin {"next", "frame", "full", "complete", "delete"}
<1>1. Queue \in Mutex /\ holder[Queue] = Nobody /\ Nobody \notin Goroutine /\ Loop \in Goroutine
  BY Goroutines, Mutexes DEF Free
<1>2. ~Has(Loop, Queue, pc[Loop], cur)
  BY <1>1 DEF BaseInv, HolderInv, Holding
<1> QED BY <1>2, HasLoop

\* Nobody puts a stream in the queue that is there.
LEMMA OnceStep ==
  ASSUME BaseInv, OnceQueued, LocksNext
  PROVE  OnceQueued'
<1>0. /\ cur \in Stream /\ queue \in Seq(Stream) /\ pc \in [Goroutine -> Place]
      /\ Loop \in Goroutine
      /\ pc[Loop] = "next" => todo \subseteq Range(queue)
  BY Goroutines DEF BaseInv, Types
<1>1. ASSUME queue' = queue, cur' = cur \/ pc'[Loop] # "frame",
             pc'[Loop] = "frame" => pc[Loop] = "frame"
      PROVE  OnceQueued'
  BY <1>1 DEF OnceQueued
<1>2. ASSUME NEW s \in Stream, queue' = IF s \in Range(queue) THEN queue ELSE Append(queue, s),
             pc'[Loop] # "frame"
      PROVE  OnceQueued'
  BY <1>0, <1>2, AppendDistinct DEF OnceQueued
<1>3. ASSUME NEW s \in Stream, WriterStep(s)
      PROVE  OnceQueued'
  <2>1. PICK place : pc' = [pc EXCEPT ![Writer(s)] = place]
    BY <1>3 DEF WriterStep, Write, Write_activate, Write_wakes, Write_ends, Close,
       Close_activate, Goto
  <2>2. pc'[Loop] = pc[Loop] /\ cur' = cur
    BY <1>0, <1>3, <2>1, Goroutines
    DEF WriterStep, Write, Write_activate, Write_wakes, Write_ends, Close, Close_activate
  <2>3. CASE queue' = queue
    BY <1>1, <2>2, <2>3
  <2>4. CASE Free(Queue) /\ onHasStreamData(s)
    BY <1>2, <2>2, <2>4, QueueHeld DEF onHasStreamData
  <2> QED BY <1>3, <2>3, <2>4
      DEF WriterStep, Write, Write_activate, Write_wakes, Write_ends, Close, Close_activate
<1>4. ASSUME NEW s \in ClosedByOther, CloserStep(s)
      PROVE  OnceQueued'
  <2>0. s \in Stream
    BY SessionLocksAssumption
  <2>1. PICK place : pc' = [pc EXCEPT ![Closer(s)] = place]
    BY <1>4 DEF CloserStep, Close, Close_activate, Goto
  <2>2. pc'[Loop] = pc[Loop] /\ cur' = cur
    BY <1>0, <1>4, <2>0, <2>1, Goroutines DEF CloserStep, Close, Close_activate
  <2>3. CASE queue' = queue
    BY <1>1, <2>2, <2>3
  <2>4. CASE Free(Queue) /\ onHasStreamData(s)
    BY <1>2, <2>0, <2>2, <2>4, QueueHeld DEF onHasStreamData
  <2> QED BY <1>4, <2>3, <2>4 DEF CloserStep, Close, Close_activate
<1>5. ASSUME NEW s \in Stream, ReaderStep(s)
      PROVE  OnceQueued'
  <2>1. PICK place : pc' = [pc EXCEPT ![Reader(s)] = place]
    BY <1>5 DEF ReaderStep, Read, Read_copied, Read_update, Read_complete, Read_delete,
       onStreamCompleted, DeleteStream, Goto
  <2>2. pc'[Loop] = pc[Loop]
    BY <1>0, <2>1, Goroutines
  <2> QED BY <1>1, <1>5, <2>2
      DEF ReaderStep, Read, Read_copied, Read_update, Read_complete, Read_delete
<1>6. ASSUME NEW place, pc' = [pc EXCEPT ![Loop] = place], place # "frame", queue' = queue
      PROVE  OnceQueued'
  <2>1. pc'[Loop] = place
    BY <1>0, <1>6
  <2> QED BY <1>1, <1>6, <2>1
<1>7. CASE sendPacket \/ QueueAll \/ PopStreamFrames
  <2>1. PICK place \in {"updates", "pop", "next"} : pc' = [pc EXCEPT ![Loop] = place]
    BY <1>7 DEF sendPacket, QueueAll, PopStreamFrames, Goto
  <2>2. queue' = queue
    BY <1>7 DEF sendPacket, QueueAll, PopStreamFrames
  <2> QED BY <1>6, <2>1, <2>2
<1>8. CASE popStreamFrame_complete \/ popStreamFrame_delete \/ PopStreamFrames_end
  <2>1. PICK place \in {"next", "full", "delete", "idle"} : pc' = [pc EXCEPT ![Loop] = place]
    BY <1>8 DEF popStreamFrame_complete, popStreamFrame_delete, PopStreamFrames_end,
       onStreamCompleted, DeleteStream, AfterFrame, Goto
  <2>2. queue' = queue
    BY <1>8 DEF popStreamFrame_complete, popStreamFrame_delete, PopStreamFrames_end
  <2> QED BY <1>6, <2>1, <2>2
<1>9. CASE \/ handleStreamFrame_push
           \/ \E s \in Stream : handleStreamFrame(s) \/ handleMaxStreamDataFrame(s)
  <2>1. PICK place \in {"idle", "push", "grant"} : pc' = [pc EXCEPT ![Loop] = place]
    BY <1>9 DEF handleStreamFrame_push, handleStreamFrame, handleMaxStreamDataFrame, Goto
  <2>2. queue' = queue
    BY <1>9 DEF handleStreamFrame_push, handleStreamFrame, handleMaxStreamDataFrame
  <2> QED BY <1>6, <2>1, <2>2
<1>10. CASE \/ CloseWithError \/ CloseWithError_send \/ closeForShutdown_send
            \/ closeForShutdown_receive \/ run_returns
  <2>1. PICK place \in {"shut", "shutSend", "shutReceive", "end"} :
          pc' = [pc EXCEPT ![Loop] = place]
    BY <1>10 DEF CloseWithError, CloseWithError_send, closeForShutdown_send,
       closeForShutdown_receive, run_returns, Goto
  <2>2. queue' = queue
    BY <1>10 DEF CloseWithError, CloseWithError_send, closeForShutdown_send,
       closeForShutdown_receive, run_returns
  <2> QED BY <1>6, <2>1, <2>2
<1>11. CASE PopStreamFrames_next
  <2>1. /\ pc[Loop] = "next" /\ todo # {} /\ cur' = Head(queue) /\ queue' = Tail(queue)
    BY <1>11 DEF PopStreamFrames_next
  <2>2. queue # <<>>
    BY <1>0, <2>1, RangeType
  <2> QED BY <1>0, <2>1, <2>2, TailDistinct DEF OnceQueued
<1>12. CASE popStreamFrame
  <2>1. PICK place \in {"next", "full", "complete"} : pc' = [pc EXCEPT ![Loop] = place]
    BY <1>12 DEF popStreamFrame, Goto, AfterFrame
  <2>2. pc'[Loop] # "frame"
    BY <1>0, <2>1
  <2>3. pc[Loop] = "frame" /\ (queue' = queue \/ queue' = Append(queue, cur))
    BY <1>12 DEF popStreamFrame
  <2> QED BY <1>0, <2>2, <2>3, AppendDistinct DEF OnceQueued
<1>13. CASE handleMaxStreamDataFrame_activate
  <2>1. pc'[Loop] = "idle"
    BY <1>0, <1>13 DEF handleMaxStreamDataFrame_activate, Goto
  <2> QED BY <1>0, <1>1, <1>2, <1>13, <2>1
      DEF handleMaxStreamDataFrame_activate, onHasStreamData
<1>14. CASE Session_ends
  BY <1>1, <1>14 DEF Session_ends
<1> QED BY <1>3, <1>4, <1>5, <1>7, <1>8, <1>9, <1>10, <1>11, <1>12, <1>13, <1>14
    DEF LocksNext, LoopStep

\* A stream is in the queue for its data, or for its end after a Close.  While
\* a Write tells the framer of its stream it is not in the queue.
QueueParts(s) ==
  /\ Busy(s) => out[s].data > 0 \/ pc[Ending(s)] = "end"
  /\ pc[Writer(s)] = "write" => out[s].data = 0
  /\ pc[Writer(s)] = "activate" => out[s].data > 0 /\ ~Busy(s)
  /\ pc[Ending(s)] \in {"closing", "end"} => out[s].finished
  /\ s \notin ClosedByOther =>
       /\ pc[Writer(s)] \notin {"closing", "end"} => ~out[s].finished
       /\ pc[Writer(s)] = "failed" => out[s].shut
       /\ pc[Writer(s)] \in {"close", "closing"} => out[s].data = 0 \/ out[s].shut
  /\ out[s].shut => pc[Loop] \in Shutting \cup {"end"}

QueueInv == BaseInv /\ OnceQueued /\ \A s \in Stream : QueueParts(s)

\* A step that leaves the stream t alone, and does not put it in the queue.
LEMMA SameStream ==
  ASSUME NEW t, QueueParts(t), out'[t] = out[t],
         pc'[Writer(t)] = pc[Writer(t)], pc'[Ending(t)] = pc[Ending(t)],
         Busy(t)' => Busy(t),
         pc[Loop] \in Shutting \cup {"end"} => pc'[Loop] \in Shutting \cup {"end"}
  PROVE  QueueParts(t)'
BY DEF QueueParts, Ending

\* A goroutine that moves leaves the others where they are.
LEMMA Goes ==
  ASSUME BaseInv, NEW p \in Goroutine, NEW place, pc' = [pc EXCEPT ![p] = place]
  PROVE  pc'[p] = place /\ \A q \in Goroutine : q # p => pc'[q] = pc[q]
<1>1. pc \in [Goroutine -> Place]
  BY DEF BaseInv, Types
<1> QED BY <1>1

\* Who has the lock of a stream's sending half.
LEMMA SendHeld ==
  ASSUME BaseInv, NEW s \in Stream, Free(Send(s))
  PROVE  /\ pc[Writer(s)] \notin {"activate", "closing"}
         /\ s \in ClosedByOther => pc[Closer(s)] # "closing"
         /\ cur = s => pc[Loop] \notin {"complete", "delete"}
<1>1. /\ Send(s) \in Mutex /\ holder[Send(s)] = Nobody /\ Nobody \notin Goroutine
      /\ Writer(s) \in Goroutine /\ Loop \in Goroutine
      /\ s \in ClosedByOther => Closer(s) \in Goroutine
  BY Goroutines, Mutexes DEF Free
<1>2. \A p \in Goroutine : ~Has(p, Send(s), pc[p], cur)
  BY <1>1 DEF BaseInv, HolderInv, Holding
<1>3. pc[Writer(s)] \notin {"activate", "closing"}
  BY <1>1, <1>2, HasWriter
<1>4. s \in ClosedByOther => pc[Closer(s)] # "closing"
  BY <1>1, <1>2, HasCloser
<1>5. cur = s => pc[Loop] \notin {"complete", "delete"}
  BY <1>1, <1>2, HasLoop
<1> QED BY <1>3, <1>4, <1>5

\* Only one of a writer and a closer has it.
LEMMA OneSender ==
  ASSUME BaseInv, NEW s \in ClosedByOther, pc[Closer(s)] = "closing"
  PROVE  pc[Writer(s)] \notin {"activate", "closing"}
<1>1. /\ s \in Stream /\ Send(s) \in Mutex
      /\ Writer(s) \in Goroutine /\ Closer(s) \in Goroutine /\ Writer(s) # Closer(s)
  BY SessionLocksAssumption, Goroutines, Mutexes
<1>2. Has(Closer(s), Send(s), pc[Closer(s)], cur)
  BY <1>1, HasCloser
<1>3. ~Has(Writer(s), Send(s), pc[Writer(s)], cur)
  BY <1>1, <1>2 DEF BaseInv, HolderInv, Holding
<1> QED BY <1>1, <1>3, HasWriter

\* What Write and Close do to the queue.
LEMMA WriterQueue ==
  ASSUME QueueInv, NEW s \in Stream, WriterStep(s)
  PROVE  \A t \in Stream : QueueParts(t)'
<1>0. /\ BaseInv /\ Types /\ PlaceInv /\ QueueParts(s) /\ out[s] \in OutType
      /\ out \in [Stream -> OutType] /\ queue \in Seq(Stream)
      /\ Writer(s) \in Goroutine /\ Loop \in Goroutine /\ Loop # Writer(s) /\ cur' = cur
  BY Goroutines DEF QueueInv, BaseInv, Types, WriterStep, Write, Write_activate,
     Write_wakes, Write_ends, Close, Close_activate
<1>1. PICK place : pc' = [pc EXCEPT ![Writer(s)] = place]
  BY DEF WriterStep, Write, Write_activate, Write_wakes, Write_ends, Close,
     Close_activate, Goto
<1>2. pc'[Writer(s)] = place /\ \A q \in Goroutine : q # Writer(s) => pc'[q] = pc[q]
  BY <1>0, <1>1, Goes
<1>3. pc'[Loop] = pc[Loop]
  BY <1>0, <1>2
<1>4. \/ queue' = queue
      \/ queue' \in Seq(Stream) /\ Range(queue') = Range(queue) \cup {s}
  BY <1>0, AppendRange DEF WriterStep, Write, Write_activate, Write_wakes, Write_ends,
     Close, Close_activate, onHasStreamData
<1>5. ASSUME NEW t \in Stream, t # s PROVE QueueParts(t)'
  <2>1. /\ Ending(t) \in Goroutine /\ Ending(t) # Writer(s)
        /\ Writer(t) \in Goroutine /\ Writer(t) # Writer(s)
    BY <1>5, Goroutines DEF Ending
  <2>2. out'[t] = out[t]
    BY <1>0, <1>5 DEF WriterStep, Write, Write_activate, Write_wakes, Write_ends,
       Close, Close_activate
  <2>3. Busy(t)' => Busy(t)
    BY <1>0, <1>3, <1>4, <1>5 DEF Busy
  <2>4. QueueParts(t)
    BY DEF QueueInv
  <2> QED BY <1>2, <1>3, <2>1, <2>2, <2>3, <2>4, SameStream
<1>6. QueueParts(s)'
  <2>1. /\ s \in ClosedByOther => pc'[Ending(s)] = pc[Ending(s)]
        /\ s \notin ClosedByOther => pc'[Ending(s)] = pc'[Writer(s)] /\ pc[Ending(s)] = pc[Writer(s)]
    BY <1>2, Goroutines DEF Ending
  <2>2. queue' = queue => (Busy(s)' <=> Busy(s))
    BY <1>0, <1>3 DEF Busy
  <2>3. Ending(s)' = Ending(s)
    BY DEF Ending
  <2>4. CASE Write(s)
    <3>1. CASE out[s].finished \/ out[s].shut
      <4>1. /\ out' = out /\ queue' = queue /\ pc[Writer(s)] = "write"
            /\ pc'[Writer(s)] = "failed"
        BY <1>0, <2>4, <3>1 DEF Write, Goto, Types
      <4> QED BY <1>0, <1>3, <2>1, <2>2, <2>3, <3>1, <4>1 DEF QueueParts
    <3>2. CASE ~out[s].finished /\ ~out[s].shut
      <4>1. /\ queue' = queue /\ pc[Writer(s)] = "write" /\ pc'[Writer(s)] = "activate"
            /\ out'[s].data = 2 /\ out'[s].finished = out[s].finished
            /\ out'[s].shut = out[s].shut
        BY <1>0, <2>4, <3>2 DEF Write, Goto, Types, OutType
      <4> QED BY <1>0, <1>3, <2>1, <2>2, <2>3, <3>2, <4>1 DEF QueueParts
    <3> QED BY <3>1, <3>2
  <2>5. CASE Write_activate(s)
    <3>1. out' = out /\ pc[Writer(s)] = "activate" /\ pc'[Writer(s)] = "sleep"
      BY <1>0, <2>5 DEF Write_activate, Goto, Types
    <3> QED BY <1>0, <1>3, <2>1, <2>3, <3>1 DEF QueueParts
  <2>6. CASE Write_wakes(s)
    <3>1. /\ queue' = queue /\ pc[Writer(s)] = "sleep"
          /\ pc'[Writer(s)] = CASE out[s].shut -> "failed"
                                [] ~out[s].shut /\ out[s].data > 0 -> "sleep"
                                [] OTHER -> "write"
          /\ out'[s].data = out[s].data /\ out'[s].finished = out[s].finished
          /\ out'[s].shut = out[s].shut /\ out[s].data \in 0..2
      BY <1>0, <2>6 DEF Write_wakes, Goto, Types, OutType
    <3> QED BY <1>0, <1>3, <2>1, <2>2, <2>3, <3>1 DEF QueueParts
  <2>7. CASE Write_ends(s)
    <3>1. /\ out' = out /\ queue' = queue /\ pc[Writer(s)] \in {"write", "failed"}
          /\ pc'[Writer(s)] = IF s \in ClosedByOther THEN "end" ELSE "close"
      BY <1>0, <2>7 DEF Write_ends, Goto, Types
    <3> QED BY <1>0, <1>3, <2>1, <2>2, <2>3, <3>1 DEF QueueParts
  <2>8. CASE Close(Writer(s), s)
    <3>1. /\ queue' = queue /\ pc[Writer(s)] = "close" /\ pc'[Writer(s)] = "closing"
          /\ out'[s].data = out[s].data /\ out'[s].finished
          /\ out'[s].shut = out[s].shut
      BY <1>0, <2>8 DEF Close, Goto, Types, OutType
    <3> QED BY <1>0, <1>3, <2>1, <2>2, <2>3, <3>1 DEF QueueParts, PlaceInv
  <2>9. CASE Close_activate(Writer(s), s)
    <3>1. out' = out /\ pc[Writer(s)] = "closing" /\ pc'[Writer(s)] = "end"
      BY <1>0, <2>9 DEF Close_activate, Goto, Types
    <3>2. out[s].finished
      BY <1>0, <2>1, <3>1 DEF QueueParts, PlaceInv
    <3> QED BY <1>0, <1>3, <2>1, <2>3, <3>1, <3>2 DEF QueueParts, PlaceInv
  <2> QED BY <2>4, <2>5, <2>6, <2>7, <2>8, <2>9 DEF WriterStep
<1> QED BY <1>5, <1>6

\* What a Close that overlaps does.
LEMMA CloserQueue ==
  ASSUME QueueInv, NEW s \in ClosedByOther, CloserStep(s)
  PROVE  \A t \in Stream : QueueParts(t)'
<1>0. /\ s \in Stream /\ Ending(s) = Closer(s) /\ Ending(s)' = Ending(s)
      /\ Closer(s) \in Goroutine /\ Loop \in Goroutine
      /\ Writer(s) \in Goroutine /\ Writer(s) # Closer(s) /\ Loop # Closer(s)
  BY SessionLocksAssumption, Goroutines DEF Ending
<1>1. /\ BaseInv /\ Types /\ PlaceInv /\ QueueParts(s) /\ out[s] \in OutType
      /\ out \in [Stream -> OutType] /\ queue \in Seq(Stream) /\ cur' = cur
  BY <1>0 DEF QueueInv, BaseInv, Types, CloserStep, Close, Close_activate
<1>2. PICK place : pc' = [pc EXCEPT ![Closer(s)] = place]
  BY DEF CloserStep, Close, Close_activate, Goto
<1>3. pc'[Closer(s)] = place /\ \A q \in Goroutine : q # Closer(s) => pc'[q] = pc[q]
  BY <1>0, <1>1, <1>2, Goes
<1>4. pc'[Loop] = pc[Loop] /\ pc'[Writer(s)] = pc[Writer(s)]
  BY <1>0, <1>3
<1>5. \/ queue' = queue
      \/ queue' \in Seq(Stream) /\ Range(queue') = Range(queue) \cup {s}
  BY <1>0, <1>1, AppendRange DEF CloserStep, Close, Close_activate, onHasStreamData
<1>6. ASSUME NEW t \in Stream, t # s PROVE QueueParts(t)'
  <2>1. /\ Ending(t) \in Goroutine /\ Ending(t) # Closer(s)
        /\ Writer(t) \in Goroutine /\ Writer(t) # Closer(s)
    BY <1>0, <1>6, Goroutines DEF Ending
  <2>2. out'[t] = out[t]
    BY <1>1, <1>6 DEF CloserStep, Close, Close_activate
  <2>3. Busy(t)' => Busy(t)
    BY <1>1, <1>4, <1>5, <1>6 DEF Busy
  <2>4. QueueParts(t)
    BY DEF QueueInv
  <2> QED BY <1>3, <1>4, <2>1, <2>2, <2>3, <2>4, SameStream
<1>7. QueueParts(s)'
  <2>1. CASE Close(Closer(s), s)
    <3>1. /\ queue' = queue /\ pc[Closer(s)] = "close" /\ pc'[Closer(s)] = "closing"
          /\ out'[s].data = out[s].data /\ out'[s].finished
          /\ out'[s].shut = out[s].shut
      BY <1>0, <1>1, <1>3, <2>1 DEF Close, Goto, Types, OutType
    <3>2. Busy(s)' <=> Busy(s)
      BY <1>1, <1>4, <3>1 DEF Busy
    <3> QED BY <1>0, <1>1, <1>4, <3>1, <3>2 DEF QueueParts
  <2>2. CASE Close_activate(Closer(s), s)
    <3>1. out' = out /\ pc[Closer(s)] = "closing" /\ pc'[Closer(s)] = "end"
      BY <1>0, <1>1, <1>3, <2>2 DEF Close_activate, Goto, Types
    <3>2. pc[Writer(s)] # "activate"
      BY <1>1, <3>1, OneSender
    <3> QED BY <1>0, <1>1, <1>4, <3>1, <3>2 DEF QueueParts
  <2> QED BY <2>1, <2>2 DEF CloserStep
<1> QED BY <1>6, <1>7

\* Read has nothing to do with it.
LEMMA ReaderQueue ==
  ASSUME QueueInv, NEW s \in Stream, ReaderStep(s)
  PROVE  \A t \in Stream : QueueParts(t)'
<1>1. PICK place : pc' = [pc EXCEPT ![Reader(s)] = place]
  BY DEF ReaderStep, Read, Read_copied, Read_update, Read_complete, Read_delete,
     onStreamCompleted, DeleteStream, Goto
<1>2. Reader(s) \in Goroutine /\ Loop \in Goroutine /\ Loop # Reader(s) /\ BaseInv
  BY Goroutines DEF QueueInv
<1>3. \A q \in Goroutine : q # Reader(s) => pc'[q] = pc[q]
  BY <1>1, <1>2, Goes
<1>4. out' = out /\ queue' = queue /\ cur' = cur
  BY DEF ReaderStep, Read, Read_copied, Read_update, Read_complete, Read_delete
<1>5. SUFFICES ASSUME NEW t \in Stream PROVE QueueParts(t)'
  OBVIOUS
<1>6. /\ Ending(t) \in Goroutine /\ Ending(t) # Reader(s)
      /\ Writer(t) \in Goroutine /\ Writer(t) # Reader(s)
  BY Goroutines DEF Ending
<1>7. Busy(t)' => Busy(t)
  BY <1>2, <1>3, <1>4 DEF Busy
<1>8. QueueParts(t)
  BY DEF QueueInv
<1> QED BY <1>2, <1>3, <1>4, <1>6, <1>7, <1>8, SameStream

\* Nor have the steps of the run loop that leave queue and streams alone, for a
\* stream t it does not put in the queue.
LEMMA LoopSame ==
  ASSUME QueueInv, NEW place, pc' = [pc EXCEPT ![Loop] = place],
         NEW t \in Stream, out'[t] = out[t], Busy(t)' => Busy(t),
         pc[Loop] \in Shutting \cup {"end"} => place \in Shutting \cup {"end"}
  PROVE  QueueParts(t)'
<1>1. BaseInv /\ QueueParts(t) /\ Loop \in Goroutine
  BY Goroutines DEF QueueInv
<1>2. pc'[Loop] = place /\ \A q \in Goroutine : q # Loop => pc'[q] = pc[q]
  BY <1>1, Goes
<1>3. /\ Ending(t) \in Goroutine /\ Ending(t) # Loop
      /\ Writer(t) \in Goroutine /\ Writer(t) # Loop
  BY Goroutines DEF Ending
<1> QED BY <1>1, <1>2, <1>3, SameStream

\* The run loop takes a stream out of the queue, and puts it back while it has
\* data to send.
LEMMA LoopQueue ==
  ASSUME QueueInv,
         \/ LoopStep
         \/ \E s \in Stream : handleStreamFrame(s) \/ handleMaxStreamDataFrame(s)
  PROVE  \A t \in Stream : QueueParts(t)'
<1>0. /\ BaseInv /\ cur \in Stream /\ queue \in Seq(Stream) /\ out \in [Stream -> OutType]
      /\ Loop \in Goroutine /\ pc \in [Goroutine -> Place] /\ todo \subseteq Stream
      /\ pc[Loop] = "next" => todo \subseteq Range(queue)
  BY Goroutines DEF QueueInv, BaseInv, Types
<1> SUFFICES ASSUME NEW t \in Stream PROVE QueueParts(t)'
  OBVIOUS
<1>1. ASSUME NEW place, pc' = [pc EXCEPT ![Loop] = place], place # "frame",
             queue' = queue, out' = out,
             pc[Loop] \in Shutting => place \in Shutting \cup {"end"}, pc[Loop] # "end"
      PROVE  QueueParts(t)'
  <2>1. pc'[Loop] = place
    BY <1>0, <1>1
  <2>2. Busy(t)' => Busy(t)
    BY <1>1, <2>1 DEF Busy
  <2> QED BY <1>1, <2>2, LoopSame
<1>2. CASE sendPacket \/ QueueAll \/ PopStreamFrames
  BY <1>1, <1>2 DEF sendPacket, QueueAll, PopStreamFrames, Running, Goto, Shutting
<1>3. CASE popStreamFrame_complete \/ popStreamFrame_delete \/ PopStreamFrames_end
  BY <1>1, <1>3 DEF popStreamFrame_complete, popStreamFrame_delete, PopStreamFrames_end,
     onStreamCompleted, DeleteStream, AfterFrame, Goto, Shutting
<1>4. CASE handleStreamFrame_push \/ \E s \in Stream : handleStreamFrame(s)
  BY <1>1, <1>4 DEF handleStreamFrame_push, handleStreamFrame, Running, Goto, Shutting
<1>5. CASE CloseWithError \/ CloseWithError_send \/ closeForShutdown_receive \/ run_returns
  BY <1>1, <1>5 DEF CloseWithError, CloseWithError_send, closeForShutdown_receive,
     run_returns, Goto, Shutting
<1>6. CASE PopStreamFrames_next
  <2>1. PICK place \in {"next", "frame"} : pc' = [pc EXCEPT ![Loop] = place]
    BY <1>6 DEF PopStreamFrames_next, Goto
  <2>2. /\ pc[Loop] = "next" /\ todo # {} /\ cur' = Head(queue) /\ queue' = Tail(queue)
        /\ out' = out
    BY <1>6 DEF PopStreamFrames_next
  <2>3. queue # <<>>
    BY <1>0, <2>2, RangeType
  <2>4. Busy(t)' => Busy(t)
    BY <1>0, <2>2, <2>3, TailRange DEF Busy
  <2> QED BY <2>1, <2>2, <2>4, LoopSame DEF Shutting
<1>7. CASE popStreamFrame
  <2>1. PICK place \in {"next", "full", "complete"} : pc' = [pc EXCEPT ![Loop] = place]
    BY <1>7 DEF popStreamFrame, Goto, AfterFrame
  <2>2. PICK n \in IF Blocked(cur) THEN {0} ELSE (IF out[cur].data > 0 THEN 1 ELSE 0)..out[cur].data :
          LET data == out[cur].data - n
              fin == out[cur].finished /\ data = 0 /\ ~out[cur].finSent
          IN /\ out' = [out EXCEPT ![cur].data = data,
                                   ![cur].signal = @ \/ (n > 0 /\ data = 0),
                                   ![cur].finSent = @ \/ fin]
             /\ queue' = IF data > 0 /\ ~Blocked(cur) THEN Append(queue, cur) ELSE queue
    BY <1>7 DEF popStreamFrame
  <2>3. /\ pc[Loop] = "frame" /\ Free(Send(cur)) /\ pc'[Loop] = place /\ cur' = cur
    BY <1>0, <1>7, <2>1 DEF popStreamFrame
  <2>4. out[cur].data \in 0..2 /\ n \in 0..out[cur].data
    BY <1>0, <2>2 DEF OutType
  <2>5. PICK d \in 0..2 : d = out[cur].data - n
    BY <2>4
  <2>6. /\ queue' = queue \/ (queue' = Append(queue, cur) /\ d > 0)
        /\ Range(Append(queue, cur)) = Range(queue) \cup {cur}
    BY <1>0, <2>2, <2>5, AppendRange
  <2>7. CASE t # cur
    <3>1. out'[t] = out[t]
      BY <1>0, <2>2, <2>7
    <3>2. Busy(t)' => Busy(t)
      BY <2>3, <2>6, <2>7, <2>1 DEF Busy
    <3> QED BY <2>1, <2>3, <3>1, <3>2, LoopSame DEF Shutting
  <2>8. CASE t = cur
    <3>1. /\ out'[t].data = d /\ out'[t].finished = out[t].finished
          /\ out'[t].shut = out[t].shut
      BY <1>0, <2>2, <2>5, <2>8 DEF OutType
    <3>2. /\ Writer(t) \in Goroutine /\ Writer(t) # Loop
          /\ Ending(t) \in Goroutine /\ Ending(t) # Loop /\ Ending(t)' = Ending(t)
      BY Goroutines DEF Ending
    <3>3. pc'[Writer(t)] = pc[Writer(t)] /\ pc'[Ending(t)] = pc[Ending(t)]
      BY <1>0, <2>1, <3>2
    <3>4. pc[Writer(t)] # "activate"
      BY <1>0, <2>3, <2>8, SendHeld
    <3>5. Busy(t) /\ QueueParts(t)
      BY <2>3, <2>8 DEF Busy, QueueInv
    <3>6. d > 0 => out[t].data > 0
      BY <2>4, <2>5, <2>8
    <3>7. out[t].data = 0 => d = 0
      BY <2>4, <2>5, <2>8
    <3>8. CASE d > 0
      BY <2>3, <3>1, <3>2, <3>3, <3>4, <3>5, <3>6, <3>7, <3>8 DEF QueueParts, Shutting
    <3>9. CASE ~(d > 0)
      <4>1. queue' = queue
        BY <2>6, <3>9
      <4>2. CASE pc[Ending(t)] = "end"
        BY <2>3, <3>1, <3>2, <3>3, <3>4, <3>5, <3>7, <4>2 DEF QueueParts, Shutting
      <4>3. CASE pc[Ending(t)] # "end"
        <5>1. t \notin Range(queue)
          BY <2>3, <2>8 DEF QueueInv, OnceQueued
        <5>2. ~Busy(t)'
          BY <1>0, <2>1, <4>1, <5>1 DEF Busy
        <5> QED BY <2>3, <3>1, <3>2, <3>3, <3>4, <3>5, <3>7, <4>3, <5>2
                DEF QueueParts, Shutting
      <4> QED BY <4>2, <4>3
    <3> QED BY <3>8, <3>9
  <2> QED BY <2>7, <2>8
<1>8. ASSUME NEW s \in Stream, handleMaxStreamDataFrame(s)
      PROVE  QueueParts(t)'
  <2>1. /\ pc' = [pc EXCEPT ![Loop] = "grant"] /\ pc[Loop] = "idle" /\ queue' = queue
        /\ out' = [out EXCEPT ![s].granted = TRUE]
    BY <1>8 DEF handleMaxStreamDataFrame, Running, Goto
  <2>2. /\ Writer(t) \in Goroutine /\ Writer(t) # Loop
        /\ Ending(t) \in Goroutine /\ Ending(t) # Loop /\ Ending(t)' = Ending(t)
    BY Goroutines DEF Ending
  <2>3. /\ pc'[Writer(t)] = pc[Writer(t)] /\ pc'[Ending(t)] = pc[Ending(t)]
        /\ pc'[Loop] = "grant"
    BY <1>0, <2>1, <2>2
  <2>4. /\ out'[t].data = out[t].data /\ out'[t].finished = out[t].finished
        /\ out'[t].shut = out[t].shut
    BY <1>0, <2>1 DEF OutType
  <2>5. Busy(t)' => Busy(t)
    BY <2>1, <2>3 DEF Busy
  <2> QED BY <2>1, <2>2, <2>3, <2>4, <2>5 DEF QueueInv, QueueParts, Shutting
<1>9. CASE handleMaxStreamDataFrame_activate
  <2>1. /\ pc' = [pc EXCEPT ![Loop] = "idle"] /\ pc[Loop] = "grant" /\ out' = out
        /\ cur' = cur /\ Free(Send(cur))
        /\ \/ queue' = queue
           \/ out[cur].data > 0 /\ queue' = Append(queue, cur)
    BY <1>9 DEF handleMaxStreamDataFrame_activate, onHasStreamData, Goto
  <2>2. /\ Writer(t) \in Goroutine /\ Writer(t) # Loop
        /\ Ending(t) \in Goroutine /\ Ending(t) # Loop /\ Ending(t)' = Ending(t)
    BY Goroutines DEF Ending
  <2>3. /\ pc'[Writer(t)] = pc[Writer(t)] /\ pc'[Ending(t)] = pc[Ending(t)]
        /\ pc'[Loop] = "idle"
    BY <1>0, <2>1, <2>2
  <2>4. Range(Append(queue, cur)) = Range(queue) \cup {cur}
    BY <1>0, AppendRange
  <2>5. Busy(t)' => Busy(t) \/ (t = cur /\ out[t].data > 0)
    BY <2>1, <2>3, <2>4 DEF Busy
  <2>6. t = cur => pc[Writer(t)] # "activate"
    BY <1>0, <2>1, SendHeld
  <2> QED BY <2>1, <2>2, <2>3, <2>5, <2>6 DEF QueueInv, QueueParts, Shutting
<1>10. CASE closeForShutdown_send
  <2>1. /\ pc' = [pc EXCEPT ![Loop] = "shutReceive"] /\ pc[Loop] = "shutSend"
        /\ queue' = queue /\ out' = [out EXCEPT ![cur].shut = TRUE, ![cur].signal = TRUE]
    BY <1>10 DEF closeForShutdown_send, Goto
  <2>2. /\ Writer(t) \in Goroutine /\ Writer(t) # Loop
        /\ Ending(t) \in Goroutine /\ Ending(t) # Loop /\ Ending(t)' = Ending(t)
    BY Goroutines DEF Ending
  <2>3. /\ pc'[Writer(t)] = pc[Writer(t)] /\ pc'[Ending(t)] = pc[Ending(t)]
        /\ pc'[Loop] = "shutReceive"
    BY <1>0, <2>1, <2>2
  <2>4. /\ out'[t].data = out[t].data /\ out'[t].finished = out[t].finished
        /\ out[t].shut => out'[t].shut
    BY <1>0, <2>1 DEF OutType
  <2>5. Busy(t)' => Busy(t)
    BY <2>1, <2>3 DEF Busy
  <2> QED BY <2>1, <2>2, <2>3, <2>4, <2>5 DEF QueueInv, QueueParts, Shutting
<1> QED BY <1>2, <1>3, <1>4, <1>5, <1>6, <1>7, <1>8, <1>9, <1>10 DEF LoopStep

\* No stream has anything to send at the start.
LEMMA InitQueue == Init => QueueInv
<1> SUFFICES ASSUME Init PROVE QueueInv
  OBVIOUS
<1>1. BaseInv
  BY InitBase
<1>2. /\ pc[Loop] = "idle" /\ queue = <<>> /\ Range(queue) = {}
  BY Goroutines, RangeType, EmptySeq DEF Init, Loop
<1>3. OnceQueued
  BY <1>2, EmptySeq DEF OnceQueued, Distinct
<1>4. ASSUME NEW s \in Stream PROVE QueueParts(s)
  <2>1. pc[Writer(s)] = IF s \in Ended THEN "end" ELSE "write"
    BY Goroutines DEF Init, Writer
  <2>2. s \in ClosedByOther => pc[Closer(s)] = "close"
    BY Goroutines DEF Init, Closer
  <2>3. /\ out[s].data = 0 /\ out[s].shut = FALSE
        /\ out[s].finished <=> s \in Ended
    BY DEF Init
  <2>4. ~Busy(s)
    BY <1>2 DEF Busy
  <2> QED BY <2>1, <2>2, <2>3, <2>4, SessionLocksAssumption DEF QueueParts, Ending
<1> QED BY <1>1, <1>3, <1>4 DEF QueueInv

\* Every step keeps QueueInv.
LEMMA NextQueue == QueueInv /\ [LocksNext]_vars => QueueInv'
<1> SUFFICES ASSUME QueueInv, [LocksNext]_vars PROVE QueueInv'
  OBVIOUS
<1>1. BaseInv'
  BY NextBase DEF QueueInv
<1>2. OnceQueued'
  <2>1. CASE LocksNext
    BY <2>1, OnceStep DEF QueueInv
  <2>2. CASE UNCHANGED vars
    BY <2>2 DEF vars, QueueInv, OnceQueued
  <2> QED BY <2>1, <2>2
<1>3. \A t \in Stream : QueueParts(t)'
  <2>1. ASSUME \/ LoopStep
               \/ \E s \in Stream : handleStreamFrame(s) \/ handleMaxStreamDataFrame(s)
        PROVE  \A t \in Stream : QueueParts(t)'
    BY <2>1, LoopQueue
  <2>2. ASSUME NEW s \in Stream, WriterStep(s) \/ ReaderStep(s)
        PROVE  \A t \in Stream : QueueParts(t)'
    BY <2>2, WriterQueue, ReaderQueue
  <2>3. ASSUME NEW s \in ClosedByOther, CloserStep(s)
        PROVE  \A t \in Stream : QueueParts(t)'
    BY <2>3, CloserQueue
  <2>4. ASSUME Session_ends \/ UNCHANGED vars, NEW t \in Stream PROVE QueueParts(t)'
    <3>1. /\ pc' = pc /\ cur' = cur /\ queue' = queue /\ out' = out
      BY <2>4 DEF Session_ends, vars
    <3>2. QueueParts(t)
      BY DEF QueueInv
    <3> QED BY <3>1, <3>2, SameStream DEF Busy, Ending
  <2> QED BY <2>1, <2>2, <2>3, <2>4 DEF LocksNext
<1> QED BY <1>1, <1>2, <1>3 DEF QueueInv

(* No circle but for the two races.                                        *)

\* A goroutine is where it holds what it holds.
LEMMA Holders ==
  ASSUME BaseInv, NEW l \in Mutex, NEW p \in Goroutine
  PROVE  holder[l] = p <=> Has(p, l, pc[p], cur)
BY DEF BaseInv, HolderInv, Holding

\* The mutex a goroutine waits for is one.
LEMMA WantedMutex ==
  ASSUME BaseInv, NEW p \in Goroutine, WaitsFor(p) # Nobody
  PROVE  Wanted(p) \in Mutex /\ WaitsFor(p) = holder[Wanted(p)] /\ WaitsFor(p) \in Goroutine
<1>1. p # Loop => p[2] \in Stream
  BY SessionLocksAssumption, Kinds DEF Writer, Reader, Closer
<1>2. (IF p = Loop THEN cur ELSE p[2]) \in Stream
  BY <1>1 DEF BaseInv, Types
<1>3. Wanted(p) \in Mutex \cup {Nobody}
  BY <1>2, Mutexes DEF Wanted
<1>4. Wanted(p) # Nobody /\ WaitsFor(p) = holder[Wanted(p)]
  BY DEF WaitsFor
<1> QED BY <1>3, <1>4 DEF BaseInv, Types

\* The mutexes of the session as a whole are the run loop's while they are kept.
LEMMA OnlyLoop ==
  ASSUME BaseInv, NEW l \in {Map, Queue, Windows}, NEW p \in Goroutine, holder[l] = p
  PROVE  p = Loop
<1>1. l \in Mutex /\ \A s \in Stream : l \notin {Send(s), Receive(s), Done(s)}
  BY Mutexes
<1>2. Has(p, l, pc[p], cur)
  BY <1>1, Holders
<1> QED BY <1>1, <1>2 DEF Has

\* A goroutine that has a mutex, and waits for another, waits for the run loop.
LEMMA WaitsForLoop ==
  ASSUME BaseInv, NEW p \in Goroutine, p # Loop, NEW l \in Mutex, holder[l] = p,
         WaitsFor(p) # Nobody
  PROVE  WaitsFor(p) = Loop
<1>1. /\ Has(p, l, pc[p], cur) /\ PlaceInv
      /\ Wanted(p) \in Mutex /\ WaitsFor(p) = holder[Wanted(p)] /\ WaitsFor(p) \in Goroutine
  BY Holders, WantedMutex DEF BaseInv
<1>2. Wanted(p) \in {Map, Queue, Windows} => WaitsFor(p) = Loop
  BY <1>1, OnlyLoop
<1>3. ASSUME NEW s \in Stream, p = Writer(s) \/ (s \in ClosedByOther /\ p = Closer(s))
      PROVE  Wanted(p) = Queue
  <2>1. pc[p] \in {"activate", "closing"}
    BY <1>1, <1>3, HasWriter, HasCloser
  <2> QED BY <2>1 DEF Wanted
<1>4. ASSUME NEW s \in Stream, p = Reader(s)
      PROVE  WaitsFor(p) = Loop
  <2>1. pc[p] \in {"update", "complete", "delete"}
    BY <1>1, <1>4, HasReader
  <2>2. CASE pc[p] = "update"
    BY <1>2, <2>2 DEF Wanted
  <2>3. CASE pc[p] = "delete"
    BY <1>2, <2>3 DEF Wanted
  <2>4. CASE pc[p] = "complete"
    <3>1. Wanted(p) = Done(s)
      BY <1>4, <2>4, Goroutines DEF Wanted, Reader
    <3>2. Has(WaitsFor(p), Done(s), pc[WaitsFor(p)], cur)
      BY <1>1, <3>1, Holders
    <3>3. WaitsFor(p) = Loop \/ (WaitsFor(p) = Reader(s) /\ pc[WaitsFor(p)] = "delete")
      BY <3>2, Mutexes DEF Has
    <3> QED BY <1>4, <2>4, <3>3
  <2> QED BY <2>1, <2>2, <2>3, <2>4
<1> QED BY <1>2, <1>3, <1>4, Kinds, SessionLocksAssumption

\* The run loop has no mutex that another waits for, but at these places.
LEMMA LoopHas ==
  ASSUME BaseInv, NEW p \in Goroutine, p # Loop, NEW l \in Mutex, holder[l] = p,
         WaitsFor(p) = Loop
  PROVE  /\ Has(Loop, Wanted(p), pc[Loop], cur)
         /\ \/ pc[p] \in {"activate", "closing"} /\ Wanted(p) = Queue
            \/ pc[p] = "update" /\ Wanted(p) = Windows
            \/ pc[p] = "delete" /\ Wanted(p) = Map
            \/ /\ pc[p] = "complete"
               /\ \E s \in Stream : p = Reader(s) /\ Wanted(p) = Done(s)
<1>1. /\ Has(p, l, pc[p], cur) /\ Loop # Nobody /\ Loop \in Goroutine
      /\ \A s \in Stream : Reader(s)[2] = s
  BY Holders, Goroutines DEF Reader
<1>2. Wanted(p) \in Mutex /\ holder[Wanted(p)] = Loop
  BY <1>1, WantedMutex
<1>3. Has(Loop, Wanted(p), pc[Loop], cur)
  BY <1>1, <1>2, Holders
<1>4. \/ pc[p] \in {"activate", "closing"}
      \/ \E s \in Stream : p = Reader(s) /\ pc[p] \in {"update", "complete", "delete"}
  BY <1>1 DEF Has
<1>5. CASE pc[p] \in {"activate", "closing"}
  BY <1>3, <1>5 DEF Wanted
<1>6. ASSUME NEW s \in Stream, p = Reader(s), pc[p] \in {"update", "complete", "delete"}
      PROVE  \/ pc[p] = "update" /\ Wanted(p) = Windows
             \/ pc[p] = "delete" /\ Wanted(p) = Map
             \/ pc[p] = "complete" /\ Wanted(p) = Done(s)
  BY <1>1, <1>6, Goroutines DEF Wanted
<1> QED BY <1>3, <1>4, <1>5, <1>6

\* What the run loop and another wait for, when they wait for each other.
LEMMA TwoWait ==
  ASSUME QueueInv, NEW r \in Goroutine, r # Loop, r = WaitsFor(Loop), WaitsFor(r) = Loop
  PROVE  \/ \E s \in Stream : /\ r = Reader(s)
                              /\ pc[Loop] = "shutReceive" /\ pc[r] = "delete"
         \/ \E s \in ClosedByOther : /\ r = Closer(s)
                                     /\ pc[Loop] = "frame" /\ pc[r] = "closing"
                                     /\ out[s].data > 0
<1>0. /\ BaseInv /\ PlaceInv /\ Types /\ cur \in Stream /\ Loop \in Goroutine
      /\ Nobody \notin Goroutine /\ pc[Loop] \in LoopPlace
  BY Goroutines DEF QueueInv, BaseInv, Types, PlaceInv
<1>1. /\ Wanted(Loop) \in Mutex /\ holder[Wanted(Loop)] = r
  BY <1>0, WantedMutex
<1>2. Has(r, Wanted(Loop), pc[r], cur)
  BY <1>0, <1>1, Holders
<1>3. Wanted(Loop) \notin {Map, Queue, Windows}
  BY <1>0, <1>1, OnlyLoop
<1>4. /\ Has(Loop, Wanted(r), pc[Loop], cur)
      /\ \/ pc[r] \in {"activate", "closing"} /\ Wanted(r) = Queue
         \/ pc[r] = "update" /\ Wanted(r) = Windows
         \/ pc[r] = "delete" /\ Wanted(r) = Map
         \/ /\ pc[r] = "complete"
            /\ \E s \in Stream : r = Reader(s) /\ Wanted(r) = Done(s)
  BY <1>0, <1>1, LoopHas
<1>5. /\ Wanted(r) = Queue => pc[Loop] \in {"next", "frame", "full", "complete", "delete"}
      /\ Wanted(r) = Windows => pc[Loop] = "updates"
      /\ Wanted(r) = Map => pc[Loop] \in Shutting
      /\ \A s \in Stream : Wanted(r) = Done(s) => pc[Loop] = "delete"
  BY <1>0, <1>4, HasLoop, Mutexes
<1>6. pc[Loop] \in {"frame", "shutSend", "shutReceive", "complete", "push", "grant"}
  BY <1>0, <1>1, <1>3, Mutexes DEF Wanted, LoopPlace, Shutting
<1>7. \/ pc[Loop] = "frame" /\ pc[r] \in {"activate", "closing"}
      \/ pc[Loop] = "complete" /\ pc[r] \in {"activate", "closing"}
      \/ pc[Loop] \in {"shutSend", "shutReceive"} /\ pc[r] = "delete"
  BY <1>4, <1>5, <1>6 DEF Shutting
<1>8. CASE pc[Loop] = "frame"
  <2>1. Wanted(Loop) = Send(cur) /\ pc[r] \in {"activate", "closing"}
    BY <1>7, <1>8 DEF Wanted
  <2>2. r = Writer(cur) \/ r = Closer(cur)
    BY <1>0, <1>2, <2>1, Mutexes DEF Has
  <2>3. QueueParts(cur) /\ Busy(cur)
    BY <1>0, <1>8 DEF QueueInv, Busy
  <2>4. out[cur].shut = FALSE
    <3>1. ~out[cur].shut /\ out[cur] \in OutType
      BY <1>0, <1>8, <2>3 DEF QueueParts, Shutting, Types
    <3> QED BY <3>1 DEF OutType
  <2>5. CASE r = Writer(cur)
    <3>1. pc[r] = "closing" /\ cur \notin ClosedByOther /\ Ending(cur) = Writer(cur)
      BY <1>0, <2>1, <2>3, <2>5 DEF QueueParts, PlaceInv, Ending
    <3>2. out[cur].data > 0 /\ out[cur].data = 0
      BY <2>3, <2>4, <2>5, <3>1 DEF QueueParts
    <3> QED BY <3>2
  <2>6. CASE r = Closer(cur)
    <3>1. cur \in ClosedByOther
      BY <1>0, <2>6 DEF Goroutine, Closer, Loop
    <3>2. pc[r] = "closing"
      <4>1. r \in Goroutine /\ pc[Closer(cur)] \in CloserPlace
        BY <1>0, <3>1 DEF PlaceInv
      <4> QED BY <2>1, <2>6, <4>1 DEF CloserPlace
    <3>3. out[cur].data > 0
      BY <2>3, <2>6, <3>1, <3>2 DEF QueueParts, Ending
    <3> QED BY <1>8, <2>6, <3>1, <3>2, <3>3
  <2> QED BY <2>2, <2>5, <2>6
<1>9. CASE pc[Loop] = "complete"
  <2>1. Wanted(Loop) = Done(cur) /\ pc[r] \in {"activate", "closing"}
    BY <1>7, <1>9 DEF Wanted
  <2>2. pc[r] = "delete"
    BY <1>0, <1>2, <2>1, Mutexes DEF Has
  <2> QED BY <2>1, <2>2
<1>10. CASE pc[Loop] = "shutSend"
  <2>1. Wanted(Loop) = Send(cur) /\ pc[r] = "delete"
    BY <1>7, <1>10 DEF Wanted
  <2>2. pc[r] \in {"activate", "closing"}
    BY <1>0, <1>2, <2>1, Mutexes DEF Has
  <2> QED BY <2>1, <2>2
<1>11. CASE pc[Loop] = "shutReceive"
  <2>1. Wanted(Loop) = Receive(cur) /\ pc[r] = "delete"
    BY <1>7, <1>11 DEF Wanted
  <2>2. r = Reader(cur)
    BY <1>0, <1>2, <2>1, Mutexes DEF Has
  <2> QED BY <1>0, <1>11, <2>1, <2>2
<1> QED BY <1>7, <1>8, <1>9, <1>10, <1>11

\* The run loop does not wait for itself.
LEMMA LoopNotAlone == BaseInv => WaitsFor(Loop) # Loop
<1> SUFFICES ASSUME BaseInv, WaitsFor(Loop) = Loop PROVE FALSE
  OBVIOUS
<1>0. /\ cur \in Stream /\ Loop \in Goroutine /\ Loop # Nobody /\ pc[Loop] \in LoopPlace
  BY Goroutines DEF BaseInv, Types, PlaceInv
<1>1. Wanted(Loop) \in Mutex /\ holder[Wanted(Loop)] = Loop
  BY <1>0, WantedMutex
<1>2. Has(Loop, Wanted(Loop), pc[Loop], cur)
  BY <1>0, <1>1, Holders
<1>3. \/ Wanted(Loop) = Windows /\ pc[Loop] = "updates"
      \/ Wanted(Loop) = Queue /\ pc[Loop] \in {"next", "frame", "full", "complete", "delete"}
      \/ Wanted(Loop) = Send(cur) /\ pc[Loop] \in {"complete", "delete"}
      \/ Wanted(Loop) = Done(cur) /\ pc[Loop] = "delete"
      \/ Wanted(Loop) = Map /\ pc[Loop] \in Shutting
  BY <1>2, HasLoop
<1> QED BY <1>0, <1>1, <1>3, Mutexes DEF Wanted, Shutting, LoopPlace

\* A circle is the run loop and the goroutine it waits for.
LEMMA CircleOfTwo ==
  ASSUME BaseInv, NEW P \in SUBSET Waiting, Circle(P)
  PROVE  /\ P = {Loop, WaitsFor(Loop)}
         /\ WaitsFor(Loop) \in Goroutine /\ WaitsFor(Loop) # Loop
         /\ WaitsFor(WaitsFor(Loop)) = Loop
<1>1. /\ P # {}
      /\ \A p \in P : /\ p \in Goroutine /\ WaitsFor(p) # Nobody /\ WaitsFor(p) \in P
                      /\ \E q \in P : p = WaitsFor(q)
  BY DEF Waiting, Circle
<1>2. ASSUME NEW p \in P, p # Loop PROVE WaitsFor(p) = Loop
  <2>1. PICK q \in P : p = WaitsFor(q)
    BY <1>1
  <2>2. Wanted(q) \in Mutex /\ holder[Wanted(q)] = p
    BY <1>1, <2>1, WantedMutex
  <2> QED BY <1>1, <1>2, <2>2, WaitsForLoop
<1>3. Loop \in P
  <2>1. PICK p \in P : TRUE
    BY <1>1
  <2>2. CASE p = Loop
    BY <2>2
  <2>3. CASE p # Loop
    BY <1>1, <1>2, <2>3
  <2> QED BY <2>2, <2>3
<1>4. WaitsFor(Loop) \in P /\ WaitsFor(Loop) # Loop
  BY <1>1, <1>3, LoopNotAlone
<1>5. ASSUME NEW p \in P, p # Loop PROVE p = WaitsFor(Loop)
  <2>1. PICK q \in P : p = WaitsFor(q)
    BY <1>1
  <2> QED BY <1>2, <1>5, <2>1
<1>6. P = {Loop, WaitsFor(Loop)}
  BY <1>3, <1>4, <1>5
<1> QED BY <1>1, <1>2, <1>4, <1>6

\* The goroutines that call Read, Write and Close on the streams of a session,
\* and its run loop, never wait for each other's mutexes in a circle, but for
\* the Read that deletes its stream when the session shuts it down, and the
\* Close that overlaps a Write whose stream the framer has taken up.
THEOREM OnlyKnownCircles == LocksSpec => []KnownCircles
<1>1. Init => QueueInv
  BY InitQueue
<1>2. QueueInv /\ [LocksNext]_vars => QueueInv'
  BY NextQueue
<1>3. QueueInv => KnownCircles
  <2> SUFFICES ASSUME QueueInv, NEW P \in SUBSET Waiting, Circle(P)
               PROVE  ReadMeetsEnd(P) \/ CloseMeetsWrite(P)
    BY DEF KnownCircles
  <2>1. PICK r : r = WaitsFor(Loop)
    OBVIOUS
  <2>2. P = {Loop, r} /\ r \in Goroutine /\ r # Loop /\ WaitsFor(r) = Loop
    BY <2>1, CircleOfTwo DEF QueueInv
  <2>3. \/ \E s \in Stream : /\ r = Reader(s)
                             /\ pc[Loop] = "shutReceive" /\ pc[r] = "delete"
        \/ \E s \in ClosedByOther : /\ r = Closer(s)
                                    /\ pc[Loop] = "frame" /\ pc[r] = "closing"
                                    /\ out[s].data > 0
    BY <2>1, <2>2, TwoWait
  <2> QED BY <2>2, <2>3 DEF ReadMeetsEnd, CloseMeetsWrite
<1> QED BY <1>1, <1>2, <1>3, PTL DEF LocksSpec

\* A step moves one goroutine, and another stream is taken up by the run loop only.
LEMMA OneMoves ==
  ASSUME BaseInv, LocksNext
  PROVE  \E p \in Goroutine :
           /\ \A q \in Goroutine : q # p => pc'[q] = pc[q]
           /\ p # Loop => cur' = cur
           /\ \/ p = Loop /\ (LoopStep \/ \E s \in Stream : handleStreamFrame(s) \/ handleMaxStreamDataFrame(s))
              \/ p = Loop /\ Session_ends
              \/ \E s \in Stream : p = Writer(s) /\ WriterStep(s)
              \/ \E s \in Stream : p = Reader(s) /\ ReaderStep(s)
              \/ \E s \in ClosedByOther : p = Closer(s) /\ CloserStep(s)
<1>1. pc \in [Goroutine -> Place] /\ ClosedByOther \subseteq Stream
  BY SessionLocksAssumption DEF BaseInv, Types
<1>2. CASE LoopStep \/ \E s \in Stream : handleStreamFrame(s) \/ handleMaxStreamDataFrame(s)
  <2>1. \E place : pc' = [pc EXCEPT ![Loop] = place]
    <3>1. CASE \/ sendPacket \/ QueueAll \/ PopStreamFrames \/ PopStreamFrames_next
               \/ popStreamFrame_delete \/ PopStreamFrames_end
      BY <3>1 DEF sendPacket, QueueAll, PopStreamFrames, PopStreamFrames_next,
         popStreamFrame_delete, PopStreamFrames_end, DeleteStream, Goto
    <3>2. CASE popStreamFrame
      BY <3>2 DEF popStreamFrame, Goto
    <3>3. CASE popStreamFrame_complete
      BY <3>3 DEF popStreamFrame_complete, onStreamCompleted, Goto
    <3>4. CASE \/ handleStreamFrame_push \/ handleMaxStreamDataFrame_activate
               \/ CloseWithError \/ CloseWithError_send \/ closeForShutdown_send
               \/ closeForShutdown_receive \/ run_returns
      BY <3>4 DEF handleStreamFrame_push, handleMaxStreamDataFrame_activate, CloseWithError,
         CloseWithError_send, closeForShutdown_send, closeForShutdown_receive, run_returns, Goto
    <3>5. CASE \E s \in Stream : handleStreamFrame(s) \/ handleMaxStreamDataFrame(s)
      BY <3>5 DEF handleStreamFrame, handleMaxStreamDataFrame, Goto
    <3> QED BY <1>2, <3>1, <3>2, <3>3, <3>4, <3>5 DEF LoopStep
  <2> QED BY <1>1, <1>2, <2>1, Goroutines
<1>3. CASE Session_ends
  BY <1>3, Goroutines DEF Session_ends
<1>4. ASSUME NEW s \in Stream, WriterStep(s)
      PROVE  cur' = cur /\ \E place : pc' = [pc EXCEPT ![Writer(s)] = place]
  BY <1>4 DEF WriterStep, Write, Write_activate, Write_wakes, Write_ends, Close,
     Close_activate, Goto
<1>5. ASSUME NEW s \in Stream, ReaderStep(s)
      PROVE  cur' = cur /\ \E place : pc' = [pc EXCEPT ![Reader(s)] = place]
  BY <1>5 DEF ReaderStep, Read, Read_copied, Read_update, Read_complete, Read_delete,
     onStreamCompleted, DeleteStream, Goto
<1>6. ASSUME NEW s \in ClosedByOther, CloserStep(s)
      PROVE  cur' = cur /\ \E place : pc' = [pc EXCEPT ![Closer(s)] = place]
  BY <1>6 DEF CloserStep, Close, Close_activate, Goto
<1>7. CASE \E s \in Stream : WriterStep(s)
  <2>1. PICK s \in Stream : WriterStep(s)
    BY <1>7
  <2> QED BY <1>1, <1>4, <2>1, Goroutines
<1>8. CASE \E s \in Stream : ReaderStep(s)
  <2>1. PICK s \in Stream : ReaderStep(s)
    BY <1>8
  <2> QED BY <1>1, <1>5, <2>1, Goroutines
<1>9. CASE \E s \in ClosedByOther : CloserStep(s)
  <2>1. PICK s \in ClosedByOther : CloserStep(s)
    BY <1>9
  <2> QED BY <1>1, <1>6, <2>1, Goroutines
<1> QED BY <1>2, <1>3, <1>7, <1>8, <1>9 DEF LocksNext

\* No step of the run loop, when it waits at one of the two places where a circle
\* can be.
LEMMA LoopWaits ==
  ASSUME LoopStep \/ \E s \in Stream : handleStreamFrame(s) \/ handleMaxStreamDataFrame(s),
         \/ pc[Loop] = "shutReceive" /\ ~Free(Receive(cur))
         \/ pc[Loop] = "frame" /\ ~Free(Send(cur))
  PROVE  FALSE
<1>1. popStreamFrame => pc[Loop] = "frame" /\ Free(Send(cur))
  BY DEF popStreamFrame
<1>2. popStreamFrame_complete => pc[Loop] = "complete"
  BY DEF popStreamFrame_complete
<1>3. closeForShutdown_receive => pc[Loop] = "shutReceive" /\ Free(Receive(cur))
  BY DEF closeForShutdown_receive
<1>4. \/ sendPacket \/ PopStreamFrames \/ QueueAll \/ PopStreamFrames_next
      \/ popStreamFrame_delete \/ PopStreamFrames_end
      => pc[Loop] \in {"idle", "updates", "pop", "next", "delete", "full"}
  BY DEF sendPacket, PopStreamFrames, QueueAll, PopStreamFrames_next,
     popStreamFrame_delete, PopStreamFrames_end, Running
<1>5. \/ handleStreamFrame_push \/ handleMaxStreamDataFrame_activate \/ CloseWithError
      \/ CloseWithError_send \/ closeForShutdown_send \/ run_returns
      => pc[Loop] \in {"push", "grant", "idle", "shut", "shutSend"}
  BY DEF handleStreamFrame_push, handleMaxStreamDataFrame_activate, CloseWithError,
     CloseWithError_send, closeForShutdown_send, run_returns
<1>6. (\E s \in Stream : handleStreamFrame(s) \/ handleMaxStreamDataFrame(s))
        => pc[Loop] = "idle"
  BY DEF handleStreamFrame, handleMaxStreamDataFrame, Running
<1> QED BY <1>1, <1>2, <1>3, <1>4, <1>5, <1>6 DEF LoopStep

\* Nor of the other goroutine of the circle.
LEMMA ReaderWaits ==
  ASSUME NEW s \in Stream, ReaderStep(s), pc[Reader(s)] = "delete", ~Free(Map)
  PROVE  FALSE
BY DEF ReaderStep, Read, Read_copied, Read_update, Read_complete, Read_delete, DeleteStream

LEMMA CloserWaits ==
  ASSUME NEW s \in ClosedByOther, CloserStep(s), pc[Closer(s)] = "closing", ~Free(Queue)
  PROVE  FALSE
BY DEF CloserStep, Close, Close_activate

\* What a goroutine waits for depends on where it is and what is held.
LEMMA WaitsSame ==
  ASSUME BaseInv, BaseInv', NEW p \in Goroutine, pc'[p] = pc[p], p = Loop => cur' = cur,
         WaitsFor(p) # Nobody, pc'[WaitsFor(p)] = pc[WaitsFor(p)],
         WaitsFor(p) = Loop => cur' = cur
  PROVE  WaitsFor(p)' = WaitsFor(p)
<1>1. PICK r : r = WaitsFor(p)
  OBVIOUS
<1>2. PICK l : l = Wanted(p)
  OBVIOUS
<1>3. l \in Mutex /\ holder[l] = r /\ r \in Goroutine /\ r # Nobody /\ l # Nobody
  BY <1>1, <1>2, WantedMutex, Mutexes
<1>4. Wanted(p)' = l
  BY <1>2 DEF Wanted
<1>5. Has(r, l, pc[r], cur)
  BY <1>3, Holders
<1>6. Has(r, l, pc'[r], cur')
  BY <1>1, <1>5 DEF Has
<1>7. holder'[l] = r
  BY <1>3, <1>6 DEF BaseInv, HolderInv, Holding
<1> QED BY <1>1, <1>3, <1>4, <1>7 DEF WaitsFor

\* A circle is for ever: none of its goroutines ever goes on, neither the end of
\* the session nor any other goroutine frees a mutex of it.  So the exception of
\* AllIsSent and EndCompletes is a session that has stopped for good.
THEOREM CirclesStay ==
  LocksSpec => [][\A P \in SUBSET Waiting : Circle(P) => P \subseteq Waiting' /\ Circle(P)']_vars
<1>1. Init => QueueInv
  BY InitQueue
<1>2. QueueInv /\ [LocksNext]_vars => QueueInv'
  BY NextQueue
<1>3. ASSUME QueueInv, QueueInv', [LocksNext]_vars
      PROVE  [\A P \in SUBSET Waiting : Circle(P) => P \subseteq Waiting' /\ Circle(P)']_vars
  <2> SUFFICES ASSUME LocksNext, NEW P \in SUBSET Waiting, Circle(P)
               PROVE  P \subseteq Waiting' /\ Circle(P)'
    BY <1>3
  <2>1. PICK r : r = WaitsFor(Loop)
    OBVIOUS
  <2>2. /\ P = {Loop, r} /\ r \in Goroutine /\ r # Loop /\ WaitsFor(r) = Loop
        /\ BaseInv /\ BaseInv' /\ Loop \in Goroutine /\ Nobody \notin Goroutine
    BY <1>3, <2>1, CircleOfTwo, Goroutines DEF QueueInv
  <2>3. \/ \E s \in Stream : /\ r = Reader(s)
                             /\ pc[Loop] = "shutReceive" /\ pc[r] = "delete"
        \/ \E s \in ClosedByOther : /\ r = Closer(s)
                                    /\ pc[Loop] = "frame" /\ pc[r] = "closing"
                                    /\ out[s].data > 0
    BY <1>3, <2>1, <2>2, TwoWait
  <2>4. /\ pc[Loop] = "shutReceive" => ~Free(Receive(cur))
        /\ pc[Loop] = "frame" => ~Free(Send(cur))
        /\ pc[r] = "delete" => ~Free(Map)
        /\ pc[r] = "closing" => ~Free(Queue)
    <3>1. /\ holder[Wanted(Loop)] = r /\ r # Nobody
          /\ holder[Wanted(r)] = Loop /\ Loop # Nobody
      BY <2>1, <2>2, WantedMutex
    <3>2. /\ pc[Loop] = "shutReceive" => Wanted(Loop) = Receive(cur)
          /\ pc[Loop] = "frame" => Wanted(Loop) = Send(cur)
          /\ pc[r] = "delete" => Wanted(r) = Map
          /\ pc[r] = "closing" => Wanted(r) = Queue
      BY DEF Wanted
    <3> QED BY <3>1, <3>2 DEF Free
  <2>5. PICK p \in Goroutine :
          /\ \A q \in Goroutine : q # p => pc'[q] = pc[q]
          /\ p # Loop => cur' = cur
          /\ \/ p = Loop /\ (LoopStep \/ \E s \in Stream : handleStreamFrame(s) \/ handleMaxStreamDataFrame(s))
             \/ p = Loop /\ Session_ends
             \/ \E s \in Stream : p = Writer(s) /\ WriterStep(s)
             \/ \E s \in Stream : p = Reader(s) /\ ReaderStep(s)
             \/ \E s \in ClosedByOther : p = Closer(s) /\ CloserStep(s)
    BY <2>2, OneMoves
  <2>6. ~(LoopStep \/ \E s \in Stream : handleStreamFrame(s) \/ handleMaxStreamDataFrame(s))
    BY <2>3, <2>4, LoopWaits
  <2>7. p # r
    <3>1. ASSUME NEW s \in Stream, r = Reader(s), p = r, pc[r] = "delete" PROVE FALSE
      <4>1. ReaderStep(s)
        BY <2>2, <2>5, <3>1, Goroutines, SessionLocksAssumption
      <4> QED BY <2>4, <3>1, <4>1, ReaderWaits
    <3>2. ASSUME NEW s \in ClosedByOther, r = Closer(s), p = r, pc[r] = "closing" PROVE FALSE
      <4>1. CloserStep(s)
        BY <2>2, <2>5, <3>2, Goroutines, SessionLocksAssumption
      <4> QED BY <2>4, <3>2, <4>1, CloserWaits
    <3> QED BY <2>3, <3>1, <3>2
  <2>8. pc'[Loop] = pc[Loop] /\ cur' = cur /\ pc'[r] = pc[r]
    <3>1. CASE p = Loop
      BY <2>2, <2>5, <2>6, <3>1, Goroutines, SessionLocksAssumption DEF Session_ends
    <3>2. CASE p # Loop
      BY <2>2, <2>5, <2>7, <3>2
    <3> QED BY <3>1, <3>2
  <2>9. WaitsFor(Loop)' = r /\ WaitsFor(r)' = Loop
    BY <2>1, <2>2, <2>8, WaitsSame
  <2>10. P \subseteq Waiting'
    BY <2>2, <2>9 DEF Waiting
  <2>11. Circle(P)'
    BY <2>2, <2>9 DEF Circle
  <2> QED BY <2>10, <2>11
<1> QED BY <1>1, <1>2, <1>3, PTL DEF LocksSpec

(* A stream is deleted once.                                               *)

Both == {"send", "receive"}

\* A half completes once: the sending one after the run loop has sent the end of
\* the stream, the receiving one when the Read that met the end completes it.
\* Whoever completes the second half deletes the stream next.
DeleteParts(s) ==
  /\ s \notin streams => completed[s] = Both
  /\ "send" \in completed[s] => out[s].finSent /\ ~(pc[Loop] = "complete" /\ cur = s)
  /\ pc[Loop] = "complete" /\ cur = s => out[s].finSent
  /\ "receive" \in completed[s] => pc[Reader(s)] \in {"delete", "eof"}
  /\ pc[Reader(s)] = "delete" => s \in streams /\ completed[s] = Both
  /\ pc[Loop] = "delete" /\ cur = s => s \in streams /\ completed[s] = Both

DeleteInv == BaseInv /\ \A s \in Stream : DeleteParts(s)

\* A step that neither completes nor deletes the stream t.
LEMMA SameDelete ==
  ASSUME NEW t, DeleteParts(t), t \in streams <=> t \in streams',
         completed'[t] = completed[t], out[t].finSent => out'[t].finSent,
         \/ pc'[Reader(t)] = pc[Reader(t)]
         \/ pc[Reader(t)] \notin {"delete", "eof"} /\ pc'[Reader(t)] # "delete",
         \/ pc'[Loop] \notin {"complete", "delete"}
         \/ pc'[Loop] = pc[Loop] /\ cur' = cur
  PROVE  DeleteParts(t)'
BY DEF DeleteParts

\* Every end is that of an open stream, at the start.
LEMMA InitDelete == Init => DeleteInv
<1> SUFFICES ASSUME Init PROVE DeleteInv
  OBVIOUS
<1>1. pc[Loop] = "idle" /\ streams = Stream
  BY Goroutines DEF Init, Loop
<1>2. ASSUME NEW s \in Stream PROVE DeleteParts(s)
  <2>1. pc[Reader(s)] = "read"
    BY Goroutines DEF Init, Reader
  <2>2. /\ completed[s] = IF s \in Ended THEN {"send"} ELSE {}
        /\ out[s].finSent <=> s \in Ended
    BY DEF Init
  <2> QED BY <1>1, <2>1, <2>2 DEF DeleteParts
<1> QED BY <1>2, InitBase DEF DeleteInv

\* Write and Close complete nothing.
LEMMA SendersDelete ==
  ASSUME DeleteInv, NEW s \in Stream,
         WriterStep(s) \/ (s \in ClosedByOther /\ CloserStep(s))
  PROVE  \A t \in Stream : DeleteParts(t)'
<1>0. /\ BaseInv /\ out \in [Stream -> OutType] /\ Loop \in Goroutine
      /\ Writer(s) \in Goroutine /\ Writer(s) # Loop /\ Closer(s) # Loop
      /\ s \in ClosedByOther => Closer(s) \in Goroutine
  BY Goroutines DEF DeleteInv, BaseInv, Types
<1> SUFFICES ASSUME NEW t \in Stream PROVE DeleteParts(t)'
  OBVIOUS
<1>1a. \E p \in Goroutine : \E place :
         /\ p = Writer(s) \/ p = Closer(s)
         /\ pc' = [pc EXCEPT ![p] = place]
  BY <1>0 DEF WriterStep, CloserStep, Write, Write_activate, Write_wakes, Write_ends,
     Close, Close_activate, Goto
<1>1b. PICK p \in Goroutine : \E place : /\ p = Writer(s) \/ p = Closer(s)
                                        /\ pc' = [pc EXCEPT ![p] = place]
  BY <1>1a
<1>1. PICK place : /\ p = Writer(s) \/ p = Closer(s)
                   /\ pc' = [pc EXCEPT ![p] = place]
  BY <1>1b
<1>2. /\ streams' = streams /\ completed' = completed /\ cur' = cur
      /\ \/ out' = out
         \/ out' = [out EXCEPT ![s].written = @ + 1, ![s].data = 2]
         \/ out' = [out EXCEPT ![s].signal = FALSE]
         \/ out' = [out EXCEPT ![s].finished = TRUE]
  BY DEF WriterStep, CloserStep, Write, Write_activate, Write_wakes, Write_ends,
     Close, Close_activate
<1>3. out'[t].finSent = out[t].finSent
  BY <1>0, <1>2 DEF OutType
<1>4. Reader(t) \in Goroutine /\ Reader(t) # p
  BY <1>1, Goroutines
<1>5. pc'[Reader(t)] = pc[Reader(t)] /\ pc'[Loop] = pc[Loop]
  BY <1>0, <1>1, <1>4, Goes
<1>6. DeleteParts(t)
  BY DEF DeleteInv
<1> QED BY <1>2, <1>3, <1>5, <1>6, SameDelete

\* The Read that has met the end of its stream.
LEMMA ReaderDelete ==
  ASSUME DeleteInv, NEW s \in Stream, ReaderStep(s)
  PROVE  \A t \in Stream : DeleteParts(t)'
<1>0. /\ BaseInv /\ completed \in [Stream -> SUBSET Both] /\ Loop \in Goroutine
      /\ Reader(s) \in Goroutine /\ Reader(s) # Loop
  BY Goroutines DEF DeleteInv, BaseInv, Types, Both
<1> SUFFICES ASSUME NEW t \in Stream PROVE DeleteParts(t)'
  OBVIOUS
<1>1. PICK place : pc' = [pc EXCEPT ![Reader(s)] = place]
  BY DEF ReaderStep, Read, Read_copied, Read_update, Read_complete, Read_delete,
     onStreamCompleted, DeleteStream, Goto
<1>2. pc'[Reader(s)] = place /\ \A q \in Goroutine : q # Reader(s) => pc'[q] = pc[q]
  BY <1>0, <1>1, Goes
<1>3. pc'[Loop] = pc[Loop] /\ cur' = cur /\ out' = out /\ DeleteParts(t) /\ DeleteParts(s)
  BY <1>0, <1>2 DEF DeleteInv, ReaderStep, Read, Read_copied, Read_update,
     Read_complete, Read_delete
<1>4. CASE t # s
  <2>1. pc'[Reader(t)] = pc[Reader(t)]
    BY <1>2, <1>4, Goroutines
  <2>2. completed'[t] = completed[t]
    BY <1>0, <1>4 DEF ReaderStep, Read, Read_copied, Read_update, Read_complete,
       Read_delete, onStreamCompleted
  <2>3. t \in streams' <=> t \in streams
    BY <1>4 DEF ReaderStep, Read, Read_copied, Read_update, Read_complete,
       Read_delete, DeleteStream
  <2> QED BY <1>3, <2>1, <2>2, <2>3, SameDelete
<1>5. CASE t = s
  <2>1. CASE Read(s) \/ Read_copied(s) \/ Read_update(s)
    <3>1. pc[Reader(s)] \in {"read", "sleep", "copy", "update"}
      BY <2>1 DEF Read, Read_copied, Read_update
    <3>2. pc'[Reader(s)] # "delete"
      <4>1. CASE Read(s)
        <5>1. pc'[Reader(s)] \in {"failed", "copy", "sleep"}
          BY <1>0, <4>1 DEF Read, Goto, BaseInv, Types
        <5> QED BY <5>1
      <4>2. CASE Read_copied(s)
        <5>1. pc'[Reader(s)] \in {"update", "read", "complete"}
          BY <1>0, <4>2 DEF Read_copied, Goto, BaseInv, Types
        <5> QED BY <5>1
      <4>3. CASE Read_update(s)
        <5>1. pc'[Reader(s)] = "read"
          BY <1>0, <4>3 DEF Read_update, Goto, BaseInv, Types
        <5> QED BY <5>1
      <4> QED BY <2>1, <4>1, <4>2, <4>3
    <3>3. completed' = completed /\ streams' = streams
      BY <2>1 DEF Read, Read_copied, Read_update
    <3> QED BY <1>3, <1>5, <3>1, <3>2, <3>3, SameDelete
  <2>2. CASE Read_complete(s)
    <3>1. /\ pc[Reader(s)] = "complete" /\ streams' = streams
          /\ completed' = [completed EXCEPT ![s] = @ \cup {"receive"}]
          /\ IF completed'[s] = Both THEN Goto(Reader(s), "delete")
             ELSE Goto(Reader(s), "eof")
      BY <2>2 DEF Read_complete, onStreamCompleted, Both
    <3>2. completed'[s] = completed[s] \cup {"receive"}
      BY <1>0, <3>1
    <3>3. pc'[Reader(s)] = IF completed'[s] = Both THEN "delete" ELSE "eof"
      BY <1>0, <3>1 DEF Goto, BaseInv, Types
    <3>4. "receive" \notin completed[s] /\ s \in streams
      BY <1>3, <3>1 DEF DeleteParts, Both
    <3>5. pc[Loop] = "delete" /\ cur = s => FALSE
      BY <1>3, <3>4 DEF DeleteParts, Both
    <3> QED BY <1>3, <1>5, <3>1, <3>2, <3>3, <3>4, <3>5 DEF DeleteParts
  <2>3. CASE Read_delete(s)
    <3>1. /\ pc[Reader(s)] = "delete" /\ streams' = streams \ {s} /\ completed' = completed
          /\ Goto(Reader(s), "eof")
      BY <2>3 DEF Read_delete, DeleteStream
    <3>2. pc'[Reader(s)] = "eof"
      BY <1>0, <3>1 DEF Goto, BaseInv, Types
    <3>3. ~(pc[Loop] = "delete" /\ cur = s)
      <4>1. Has(Reader(s), Done(s), pc[Reader(s)], cur)
        BY <3>1, HasReader
      <4>2. holder[Done(s)] = Reader(s)
        BY <1>0, <4>1, Holders, Mutexes
      <4>3. ~Has(Loop, Done(s), pc[Loop], cur)
        BY <1>0, <4>2, Holders, Mutexes
      <4> QED BY <4>3, HasLoop
    <3> QED BY <1>3, <1>5, <3>1, <3>2, <3>3 DEF DeleteParts
  <2> QED BY <2>1, <2>2, <2>3 DEF ReaderStep
<1> QED BY <1>4, <1>5

\* The run loop, where it neither completes nor deletes.
LEMMA LoopNoDelete ==
  ASSUME DeleteInv, NEW place, place \notin {"complete", "delete"},
         pc' = [pc EXCEPT ![Loop] = place], streams' = streams, completed' = completed,
         NEW t \in Stream, out[t].finSent => out'[t].finSent
  PROVE  DeleteParts(t)'
<1>1. pc'[Loop] = place /\ pc'[Reader(t)] = pc[Reader(t)]
  BY Goroutines, Goes DEF DeleteInv
<1>2. DeleteParts(t)
  BY DEF DeleteInv
<1> QED BY <1>1, <1>2, SameDelete

\* The run loop, which sends the end of a stream and then completes its half.
LEMMA LoopDelete ==
  ASSUME DeleteInv,
         LoopStep \/ \E s \in Stream : handleStreamFrame(s) \/ handleMaxStreamDataFrame(s)
  PROVE  \A t \in Stream : DeleteParts(t)'
<1>0. /\ BaseInv /\ completed \in [Stream -> SUBSET Both] /\ Loop \in Goroutine
      /\ out \in [Stream -> OutType] /\ cur \in Stream /\ DeleteParts(cur)
  BY Goroutines DEF DeleteInv, BaseInv, Types, Both
<1> SUFFICES ASSUME NEW t \in Stream PROVE DeleteParts(t)'
  OBVIOUS
<1>1. /\ Reader(t) \in Goroutine /\ Reader(t) # Loop /\ DeleteParts(t) /\ out[t] \in OutType
  BY <1>0, Goroutines DEF DeleteInv
<1>2. CASE sendPacket \/ QueueAll \/ PopStreamFrames \/ PopStreamFrames_next \/ PopStreamFrames_end
  <2>1. PICK place \in {"updates", "pop", "next", "frame", "idle"} :
          pc' = [pc EXCEPT ![Loop] = place]
    BY <1>2 DEF sendPacket, QueueAll, PopStreamFrames, PopStreamFrames_next,
       PopStreamFrames_end, Goto
  <2>2. streams' = streams /\ completed' = completed /\ out' = out
    BY <1>2 DEF sendPacket, QueueAll, PopStreamFrames, PopStreamFrames_next,
       PopStreamFrames_end
  <2> QED BY <2>1, <2>2, LoopNoDelete
<1>3. CASE \/ handleStreamFrame_push \/ handleMaxStreamDataFrame_activate
           \/ \E s \in Stream : handleStreamFrame(s)
  <2>1. PICK place \in {"idle", "push"} : pc' = [pc EXCEPT ![Loop] = place]
    BY <1>3 DEF handleStreamFrame_push, handleMaxStreamDataFrame_activate,
       handleStreamFrame, Goto
  <2>2. streams' = streams /\ completed' = completed /\ out' = out
    BY <1>3 DEF handleStreamFrame_push, handleMaxStreamDataFrame_activate,
       handleStreamFrame
  <2> QED BY <2>1, <2>2, LoopNoDelete
<1>4. ASSUME NEW s \in Stream, handleMaxStreamDataFrame(s)
      PROVE  DeleteParts(t)'
  <2>1. PICK place : place = "grant"
    OBVIOUS
  <2>2. /\ pc' = [pc EXCEPT ![Loop] = place] /\ streams' = streams
        /\ completed' = completed /\ out' = [out EXCEPT ![s].granted = TRUE]
    BY <1>4, <2>1 DEF handleMaxStreamDataFrame, Goto
  <2>3. out'[t].finSent = out[t].finSent
    BY <1>0, <1>1, <2>2 DEF OutType
  <2> QED BY <2>1, <2>2, <2>3, LoopNoDelete
<1>5. CASE CloseWithError \/ CloseWithError_send \/ closeForShutdown_receive \/ run_returns
  <2>1. PICK place \in {"shut", "shutSend", "end"} : pc' = [pc EXCEPT ![Loop] = place]
    BY <1>5 DEF CloseWithError, CloseWithError_send, closeForShutdown_receive,
       run_returns, Goto
  <2>2. streams' = streams /\ completed' = completed /\ out' = out
    BY <1>5 DEF CloseWithError, CloseWithError_send, closeForShutdown_receive, run_returns
  <2> QED BY <2>1, <2>2, LoopNoDelete
<1>6. CASE closeForShutdown_send
  <2>1. PICK place : place = "shutReceive"
    OBVIOUS
  <2>2. /\ pc' = [pc EXCEPT ![Loop] = place] /\ streams' = streams
        /\ completed' = completed
        /\ out' = [out EXCEPT ![cur].shut = TRUE, ![cur].signal = TRUE]
    BY <1>6, <2>1 DEF closeForShutdown_send, Goto
  <2>3. out'[t].finSent = out[t].finSent
    BY <1>0, <1>1, <2>2 DEF OutType
  <2> QED BY <2>1, <2>2, <2>3, LoopNoDelete
<1>7. CASE popStreamFrame
  <2>1. PICK n, d, fin, signal :
          /\ fin = (out[cur].finished /\ d = 0 /\ ~out[cur].finSent)
          /\ out' = [out EXCEPT ![cur].data = d, ![cur].signal = signal,
                                ![cur].finSent = @ \/ fin]
          /\ IF fin THEN Goto(Loop, "complete")
             ELSE \E place \in AfterFrame(n) : Goto(Loop, place)
    <3>1. PICK n \in IF Blocked(cur) THEN {0} ELSE (IF out[cur].data > 0 THEN 1 ELSE 0)..out[cur].data :
            LET data == out[cur].data - n
                fin == out[cur].finished /\ data = 0 /\ ~out[cur].finSent
            IN /\ out' = [out EXCEPT ![cur].data = data,
                                     ![cur].signal = @ \/ (n > 0 /\ data = 0),
                                     ![cur].finSent = @ \/ fin]
               /\ IF fin THEN Goto(Loop, "complete")
                  ELSE \E place \in AfterFrame(n) : Goto(Loop, place)
      BY <1>7 DEF popStreamFrame
    <3>2. PICK d : d = out[cur].data - n
      OBVIOUS
    <3>3. PICK fin : fin = (out[cur].finished /\ d = 0 /\ ~out[cur].finSent)
      OBVIOUS
    <3>4. PICK signal : signal = (out[cur].signal \/ (n > 0 /\ d = 0))
      OBVIOUS
    <3> QED BY <1>0, <3>1, <3>2, <3>3, <3>4 DEF OutType
  <2>2. streams' = streams /\ completed' = completed /\ cur' = cur /\ pc[Loop] = "frame"
    BY <1>7 DEF popStreamFrame
  <2>3. out[t].finSent => out'[t].finSent
    BY <1>0, <1>1, <2>1 DEF OutType
  <2>4. CASE ~fin
    <3>1. PICK place \in {"next", "full"} : pc' = [pc EXCEPT ![Loop] = place]
      BY <2>1, <2>4 DEF AfterFrame, Goto
    <3> QED BY <2>2, <2>3, <3>1, LoopNoDelete
  <2>5. CASE fin
    <3>1. PICK place : place = "complete" /\ pc' = [pc EXCEPT ![Loop] = place]
      BY <2>1, <2>5 DEF Goto
    <3>2. pc'[Loop] = "complete" /\ pc'[Reader(t)] = pc[Reader(t)]
      BY <1>0, <1>1, <3>1, Goes
    <3>3. "send" \notin completed[cur]
      BY <1>0, <2>1, <2>5 DEF DeleteParts
    <3>4. out'[cur].finSent
      BY <1>0, <2>1, <2>5 DEF OutType
    <3> QED BY <1>1, <2>2, <2>3, <3>2, <3>3, <3>4 DEF DeleteParts
  <2> QED BY <2>4, <2>5
<1>8. CASE popStreamFrame_complete
  <2>1. /\ pc[Loop] = "complete" /\ streams' = streams /\ cur' = cur /\ out' = out
        /\ completed' = [completed EXCEPT ![cur] = @ \cup {"send"}]
        /\ \/ completed'[cur] = Both /\ Goto(Loop, "delete")
           \/ completed'[cur] # Both /\ \E place \in {"next", "full"} : Goto(Loop, place)
    BY <1>8 DEF popStreamFrame_complete, onStreamCompleted, AfterFrame, Both
  <2>2. completed'[cur] = completed[cur] \cup {"send"} /\ (t # cur => completed'[t] = completed[t])
    BY <1>0, <2>1
  <2>3. PICK place \in {"delete", "next", "full"} :
          /\ pc' = [pc EXCEPT ![Loop] = place]
          /\ place = "delete" <=> completed'[cur] = Both
    BY <2>1 DEF Goto
  <2>4. pc'[Loop] = place /\ pc'[Reader(t)] = pc[Reader(t)]
    BY <1>0, <1>1, <2>3, Goes
  <2>5. "send" \notin completed[cur] /\ cur \in streams /\ out[cur].finSent
    BY <1>0, <2>1 DEF DeleteParts, Both
  <2>6. CASE t = cur
    <3>1. pc[Reader(t)] # "delete"
      BY <1>1, <2>5, <2>6 DEF DeleteParts, Both
    <3> QED BY <1>1, <2>1, <2>2, <2>3, <2>4, <2>5, <2>6, <3>1 DEF DeleteParts
  <2>7. CASE t # cur
    BY <1>1, <2>1, <2>2, <2>3, <2>4, <2>7 DEF DeleteParts
  <2> QED BY <2>6, <2>7
<1>9. CASE popStreamFrame_delete
  <2>1. /\ pc[Loop] = "delete" /\ streams' = streams \ {cur} /\ completed' = completed
        /\ cur' = cur /\ out' = out /\ Goto(Loop, "next")
    BY <1>9 DEF popStreamFrame_delete, DeleteStream
  <2>2. PICK place : place = "next" /\ pc' = [pc EXCEPT ![Loop] = place]
    BY <2>1 DEF Goto
  <2>3. pc'[Loop] = "next" /\ pc'[Reader(t)] = pc[Reader(t)]
    BY <1>0, <1>1, <2>2, Goes
  <2>4. pc[Reader(cur)] # "delete"
    <3>1. Has(Loop, Done(cur), pc[Loop], cur) /\ Reader(cur) \in Goroutine /\ Reader(cur) # Loop
      BY <1>0, <2>1, HasLoop, Goroutines
    <3>2. holder[Done(cur)] = Loop
      BY <1>0, <3>1, Holders, Mutexes
    <3>3. ~Has(Reader(cur), Done(cur), pc[Reader(cur)], cur)
      BY <1>0, <3>1, <3>2, Holders, Mutexes
    <3> QED BY <1>0, <3>3, HasReader
  <2> QED BY <1>0, <1>1, <2>1, <2>3, <2>4 DEF DeleteParts
<1> QED BY <1>2, <1>3, <1>4, <1>5, <1>6, <1>7, <1>8, <1>9 DEF LoopStep

\* Every step keeps DeleteInv.
LEMMA NextDelete == DeleteInv /\ [LocksNext]_vars => DeleteInv'
<1> SUFFICES ASSUME DeleteInv, [LocksNext]_vars PROVE DeleteInv'
  OBVIOUS
<1>1. BaseInv'
  BY NextBase DEF DeleteInv
<1>2. \A t \in Stream : DeleteParts(t)'
  <2>1. ASSUME \/ LoopStep
               \/ \E s \in Stream : handleStreamFrame(s) \/ handleMaxStreamDataFrame(s)
        PROVE  \A t \in Stream : DeleteParts(t)'
    BY <2>1, LoopDelete
  <2>2. ASSUME NEW s \in Stream, WriterStep(s) \/ ReaderStep(s)
        PROVE  \A t \in Stream : DeleteParts(t)'
    BY <2>2, SendersDelete, ReaderDelete
  <2>3. ASSUME NEW s \in ClosedByOther, CloserStep(s)
        PROVE  \A t \in Stream : DeleteParts(t)'
    BY <2>3, SendersDelete, SessionLocksAssumption
  <2>4. ASSUME Session_ends \/ UNCHANGED vars, NEW t \in Stream PROVE DeleteParts(t)'
    <3>1. /\ pc' = pc /\ cur' = cur /\ out' = out /\ streams' = streams
          /\ completed' = completed
      BY <2>4 DEF Session_ends, vars
    <3> QED BY <3>1 DEF DeleteInv, DeleteParts
  <2> QED BY <2>1, <2>2, <2>3, <2>4 DEF LocksNext
<1> QED BY <1>1, <1>2 DEF DeleteInv

\* DeleteStream is called once for a stream, when both its halves are complete,
\* whoever is the second: onStreamCompleted never closes the session over it.
THEOREM DeletesOnce == LocksSpec => []DeletedOnce
<1>1. DeleteInv => DeletedOnce
  <2> SUFFICES ASSUME DeleteInv PROVE DeletedOnce
    OBVIOUS
  <2>1. ASSUME NEW s \in Stream, pc[Reader(s)] = "delete"
        PROVE  ~(pc[Loop] = "delete" /\ cur = s)
    <3>1. Reader(s) \in Goroutine /\ Reader(s) # Loop /\ Done(s) \in Mutex /\ BaseInv
      BY Goroutines, Mutexes DEF DeleteInv
    <3>2. Has(Reader(s), Done(s), pc[Reader(s)], cur)
      BY <2>1, HasReader
    <3>3. ~Has(Loop, Done(s), pc[Loop], cur)
      BY <3>1, <3>2, Holders, Goroutines
    <3> QED BY <3>3, HasLoop
  <2>2. cur \in Stream
    BY DEF DeleteInv, BaseInv, Types
  <2> QED BY <2>1, <2>2 DEF DeleteInv, DeleteParts, DeletedOnce, Both
<1> QED BY <1>1, InitDelete, NextDelete, PTL DEF LocksSpec

(* The types of what is left, and what is read and written.                *)

\* A frame that is copied has come, and one that comes is not behind the end.
CountParts(s) ==
  /\ out[s].written <= MaxWrites[s]
  /\ in[s].read <= in[s].arrived /\ in[s].arrived <= MaxFrames[s]
  /\ pc[Reader(s)] = "copy" => in[s].read < in[s].arrived
  /\ pc[Loop] = "push" /\ cur = s => in[s].arrived < MaxFrames[s]

SessionType == [closing : BOOLEAN, over : BOOLEAN, scheduled : BOOLEAN]
RestType == updates \subseteq Stream /\ in \in [Stream -> InType] /\ session \in SessionType

CountInv == BaseInv /\ RestType /\ \A s \in Stream : CountParts(s)

\* The counters are numbers.
LEMMA CountTypes ==
  ASSUME CountInv, NEW s \in Stream
  PROVE  /\ out \in [Stream -> OutType] /\ out[s] \in OutType /\ in[s] \in InType
         /\ out[s].written \in Nat /\ in[s].read \in Nat /\ in[s].arrived \in Nat
         /\ MaxWrites[s] \in Nat /\ MaxFrames[s] \in Nat
<1>1. out[s] \in OutType /\ in[s] \in InType /\ out \in [Stream -> OutType]
  BY DEF CountInv, BaseInv, Types, RestType
<1> QED BY <1>1, SessionLocksAssumption DEF OutType, InType

\* A step that changes no counter of the stream t, nor has a copy or a frame of it
\* on the way that there was not before.
LEMMA SameCounts ==
  ASSUME NEW t, CountParts(t), out'[t].written = out[t].written,
         in'[t].read = in[t].read, in'[t].arrived = in[t].arrived,
         pc'[Reader(t)] = "copy" => pc[Reader(t)] = "copy",
         pc'[Loop] = "push" /\ cur' = t => pc[Loop] = "push" /\ cur = t
  PROVE  CountParts(t)'
BY DEF CountParts

\* The writers count their writes.
LEMMA WriterCounts ==
  ASSUME CountInv, NEW s \in Stream,
         WriterStep(s) \/ (s \in ClosedByOther /\ CloserStep(s))
  PROVE  RestType' /\ \A t \in Stream : CountParts(t)'
<1>1. /\ in' = in /\ updates' = updates /\ cur' = cur
      /\ session' = session \/ session' = [session EXCEPT !.scheduled = TRUE]
  BY DEF WriterStep, CloserStep, Write, Write_activate, Write_wakes, Write_ends, Close,
     Close_activate, onHasStreamData
<1>2. RestType'
  BY <1>1 DEF CountInv, RestType, SessionType
<1>3. \A t \in Stream : pc'[Reader(t)] = pc[Reader(t)] /\ pc'[Loop] = pc[Loop]
  <2>1. \E p \in {Writer(s), Closer(s)} : \E place : pc' = [pc EXCEPT ![p] = place]
    BY DEF WriterStep, CloserStep, Write, Write_activate, Write_wakes, Write_ends, Close,
       Close_activate, Goto
  <2> QED BY <2>1, Goroutines DEF CountInv, BaseInv, Types
<1>4. ASSUME NEW t \in Stream PROVE CountParts(t)'
  <2>1. /\ CountParts(t) /\ out \in [Stream -> OutType] /\ out[t] \in OutType
        /\ out[t].written \in Nat /\ MaxWrites[t] \in Nat
    BY CountTypes DEF CountInv
  <2>2. CASE Write(s) /\ t = s /\ out' # out
    <3>1. out'[t].written <= MaxWrites[t]
      <4>1. out' = [out EXCEPT ![s].written = @ + 1, ![s].data = 2]
        BY <2>2 DEF Write
      <4>2. out'[t].written = out[t].written + 1 /\ out[t].written < MaxWrites[t]
        BY <2>1, <2>2, <4>1 DEF Write, OutType
      <4> QED BY <2>1, <4>2
    <3> QED BY <1>1, <1>3, <2>1, <3>1 DEF CountParts
  <2>3. CASE ~(Write(s) /\ t = s /\ out' # out)
    <3>1. out'[t].written = out[t].written
      BY <2>1, <2>3 DEF WriterStep, CloserStep, Write, Write_activate, Write_wakes,
         Write_ends, Close, Close_activate, OutType
    <3> QED BY <1>1, <1>3, <2>1, <3>1, SameCounts
  <2> QED BY <2>2, <2>3
<1> QED BY <1>2, <1>4

\* What the steps do to a receiveStream.
LEMMA InUpdates ==
  ASSUME in \in [Stream -> InType], NEW s \in Stream
  PROVE  /\ [in EXCEPT ![s].signal = FALSE] \in [Stream -> InType]
         /\ [in EXCEPT ![s].read = @ + 1] \in [Stream -> InType]
         /\ [in EXCEPT ![s].arrived = @ + 1, ![s].signal = TRUE] \in [Stream -> InType]
         /\ [in EXCEPT ![s].shut = TRUE, ![s].signal = TRUE] \in [Stream -> InType]
<1>1. in[s] \in InType
  OBVIOUS
<1>2. [in EXCEPT ![s].signal = FALSE] \in [Stream -> InType]
  BY <1>1 DEF InType
<1>3. [in EXCEPT ![s].read = @ + 1] \in [Stream -> InType]
  BY <1>1 DEF InType
<1>4. [in EXCEPT ![s].arrived = @ + 1, ![s].signal = TRUE] \in [Stream -> InType]
  <2>1. PICK n \in Nat : n = in[s].arrived + 1
    BY <1>1 DEF InType
  <2>2. [in EXCEPT ![s].arrived = n, ![s].signal = TRUE] \in [Stream -> InType]
    BY <1>1 DEF InType
  <2> QED BY <2>1, <2>2
<1>5. [in EXCEPT ![s].shut = TRUE, ![s].signal = TRUE] \in [Stream -> InType]
  BY <1>1 DEF InType
<1> QED BY <1>2, <1>3, <1>4, <1>5

\* A reader copies what has come.
LEMMA ReaderCounts ==
  ASSUME CountInv, NEW s \in Stream, ReaderStep(s)
  PROVE  RestType' /\ \A t \in Stream : CountParts(t)'
<1>1. /\ out' = out /\ cur' = cur
      /\ updates' = updates \/ updates' = updates \cup {s}
      /\ session' = session \/ session' = [session EXCEPT !.scheduled = TRUE]
      /\ \/ in' = in
         \/ in' = [in EXCEPT ![s].signal = FALSE]
         \/ in' = [in EXCEPT ![s].read = @ + 1] /\ pc[Reader(s)] = "copy"
  BY DEF ReaderStep, Read, Read_copied, Read_update, Read_complete, Read_delete
<1>2. in \in [Stream -> InType] /\ in[s] \in InType /\ in[s].read \in Nat /\ in[s].arrived \in Nat
  BY CountTypes DEF CountInv, RestType
<1>3. RestType'
  <2>1. RestType
    BY DEF CountInv
  <2>2. updates' \subseteq Stream
    BY <1>1, <2>1 DEF RestType
  <2>3. session' \in SessionType
    BY <1>1, <2>1 DEF RestType, SessionType
  <2>4. /\ [in EXCEPT ![s].signal = FALSE] \in [Stream -> InType]
        /\ [in EXCEPT ![s].read = @ + 1] \in [Stream -> InType]
    BY <1>2, InUpdates
  <2>5. in' \in [Stream -> InType]
    BY <1>1, <1>2, <2>4
  <2> QED BY <2>2, <2>3, <2>5 DEF RestType
<1>4. PICK place : pc' = [pc EXCEPT ![Reader(s)] = place]
  BY DEF ReaderStep, Read, Read_copied, Read_update, Read_complete, Read_delete,
     onStreamCompleted, DeleteStream, Goto
<1>5. /\ pc'[Loop] = pc[Loop] /\ pc'[Reader(s)] = place
      /\ \A t \in Stream : t # s => pc'[Reader(t)] = pc[Reader(t)]
  BY <1>4, Goroutines DEF CountInv, BaseInv, Types
<1>6. place = "copy" => in[s].read < in[s].arrived /\ pc[Reader(s)] # "copy"
  <2>1. CASE Read(s)
    BY <1>2, <1>5, <2>1, Goroutines DEF Read, Goto, CountInv, BaseInv, Types
  <2>2. CASE Read_copied(s) \/ Read_update(s) \/ Read_complete(s) \/ Read_delete(s)
    <3>1. pc' = [pc EXCEPT ![Reader(s)] = pc'[Reader(s)]] /\ pc'[Reader(s)] # "copy"
      BY <1>4, <1>5, <2>2, Goroutines
      DEF Read_copied, Read_update, Read_complete, Read_delete, onStreamCompleted,
          DeleteStream, Goto, CountInv, BaseInv, Types
    <3> QED BY <1>5, <3>1
  <2> QED BY <2>1, <2>2 DEF ReaderStep
<1>7. ASSUME NEW t \in Stream PROVE CountParts(t)'
  <2>1. CountParts(t)
    BY DEF CountInv
  <2>2. CASE t # s
    <3>1. in'[t] = in[t]
      BY <1>1, <1>2, <2>2
    <3> QED BY <1>1, <1>5, <2>1, <2>2, <3>1, SameCounts
  <2>3. CASE t = s
    <3>1. /\ in'[s].arrived = in[s].arrived
          /\ \/ in'[s].read = in[s].read
             \/ in'[s].read = in[s].read + 1 /\ pc[Reader(s)] = "copy"
      BY <1>1, <1>2 DEF InType
    <3>2. in[s].read < in[s].arrived => in[s].read + 1 <= in[s].arrived
      BY <1>2
    <3>3. in'[s].read = in[s].read + 1 => place # "copy" \/ pc[Reader(s)] # "copy"
      BY <1>6
    <3>4. pc'[Reader(s)] = "copy" => pc[Reader(s)] # "copy" /\ in[s].read < in[s].arrived
      BY <1>5, <1>6
    <3>5. in'[s].read <= in'[s].arrived
      BY <1>2, <2>1, <2>3, <3>1, <3>2 DEF CountParts
    <3>6. pc'[Reader(s)] = "copy" => in'[s].read < in'[s].arrived
      BY <1>2, <3>1, <3>4
    <3> QED BY <1>1, <1>5, <2>1, <2>3, <3>1, <3>5, <3>6 DEF CountParts
  <2> QED BY <2>2, <2>3
<1> QED BY <1>3, <1>7

\* The run loop takes in frames up to the end of a stream.
LEMMA LoopCounts ==
  ASSUME CountInv,
         LoopStep \/ \E s \in Stream : handleStreamFrame(s) \/ handleMaxStreamDataFrame(s)
  PROVE  RestType' /\ \A t \in Stream : CountParts(t)'
<1>0. /\ in \in [Stream -> InType] /\ in[cur] \in InType /\ cur \in Stream
      /\ out \in [Stream -> OutType] /\ session \in SessionType /\ updates \subseteq Stream
      /\ pc \in [Goroutine -> Place] /\ Loop \in Goroutine
      /\ \A t \in Stream : Reader(t) \in Goroutine /\ Reader(t) # Loop
  BY Goroutines DEF CountInv, RestType, BaseInv, Types
<1>1. ASSUME NEW place, pc' = [pc EXCEPT ![Loop] = place]
      PROVE  pc'[Loop] = place /\ \A t \in Stream : pc'[Reader(t)] = pc[Reader(t)]
  BY <1>0, <1>1
<1>2. ASSUME NEW place, pc' = [pc EXCEPT ![Loop] = place], place # "push", in' = in,
             \A t \in Stream : out'[t].written = out[t].written
      PROVE  \A t \in Stream : CountParts(t)'
  <2> SUFFICES ASSUME NEW t \in Stream PROVE CountParts(t)'
    OBVIOUS
  <2>1. pc'[Loop] # "push" /\ pc'[Reader(t)] = pc[Reader(t)]
    BY <1>1, <1>2
  <2>2. CountParts(t) /\ out'[t].written = out[t].written /\ in' = in
    BY <1>2 DEF CountInv
  <2> QED BY <2>1, <2>2 DEF CountParts
<1>3. CASE \/ sendPacket \/ QueueAll \/ PopStreamFrames \/ PopStreamFrames_next
           \/ popStreamFrame_delete \/ PopStreamFrames_end \/ CloseWithError
           \/ CloseWithError_send \/ run_returns
  <2> USE DEF sendPacket, QueueAll, PopStreamFrames, PopStreamFrames_next,
       popStreamFrame_delete, PopStreamFrames_end, CloseWithError, CloseWithError_send,
       run_returns
  <2>1. in' = in /\ out' = out
    BY <1>3
  <2>2. updates' \subseteq Stream
    BY <1>0, <1>3
  <2>3. session' \in SessionType
    BY <1>0, <1>3 DEF SessionType
  <2>4. \E place : pc' = [pc EXCEPT ![Loop] = place] /\ place # "push"
    BY <1>3 DEF DeleteStream, Goto
  <2> QED BY <1>0, <1>2, <2>1, <2>2, <2>3, <2>4 DEF RestType
<1>4. CASE popStreamFrame
  <2>1. /\ in' = in /\ updates' = updates /\ session' = session
        /\ \E place : pc' = [pc EXCEPT ![Loop] = place] /\ place # "push"
    BY <1>4 DEF popStreamFrame, AfterFrame, Goto
  <2>2. PICK data, signal, finSent :
          out' = [out EXCEPT ![cur].data = data, ![cur].signal = signal, ![cur].finSent = finSent]
    BY <1>4 DEF popStreamFrame
  <2>3. \A t \in Stream : out'[t].written = out[t].written
    BY <1>0, <2>2 DEF OutType
  <2> QED BY <1>0, <1>2, <2>1, <2>3 DEF RestType
<1>5. CASE popStreamFrame_complete
  <2>1. /\ in' = in /\ out' = out /\ updates' = updates /\ session' = session
        /\ \E place : pc' = [pc EXCEPT ![Loop] = place] /\ place # "push"
    BY <1>5 DEF popStreamFrame_complete, onStreamCompleted, AfterFrame, Goto
  <2> QED BY <1>0, <1>2, <2>1 DEF RestType
<1>6. CASE handleStreamFrame_push
  <2>1. /\ in' = [in EXCEPT ![cur].arrived = @ + 1, ![cur].signal = TRUE]
        /\ out' = out /\ updates' = updates /\ session' = session /\ cur' = cur
        /\ pc' = [pc EXCEPT ![Loop] = "idle"] /\ pc[Loop] = "push"
    BY <1>6 DEF handleStreamFrame_push, Goto
  <2>2. RestType'
    BY <1>0, <2>1, InUpdates DEF RestType
  <2>3. ASSUME NEW t \in Stream PROVE CountParts(t)'
    <3>1. CountParts(t) /\ in[t].read \in Nat /\ in[t].arrived \in Nat /\ MaxFrames[t] \in Nat
      BY CountTypes DEF CountInv
    <3>2. in'[t].read = in[t].read
      BY <1>0, <2>1 DEF InType
    <3>3. in'[t].arrived = IF t = cur THEN in[t].arrived + 1 ELSE in[t].arrived
      BY <1>0, <2>1 DEF InType
    <3>4. pc'[Loop] = "idle" /\ pc'[Reader(t)] = pc[Reader(t)]
      BY <1>1, <2>1
    <3>5. t = cur => in[t].arrived < MaxFrames[t]
      BY <2>1, <3>1 DEF CountParts
    <3> QED BY <2>1, <3>1, <3>2, <3>3, <3>4, <3>5 DEF CountParts
  <2> QED BY <2>2, <2>3
<1>7. CASE handleMaxStreamDataFrame_activate
  <2>1. /\ in' = in /\ out' = out /\ updates' = updates /\ session' \in SessionType
        /\ pc' = [pc EXCEPT ![Loop] = "idle"]
    BY <1>0, <1>7 DEF handleMaxStreamDataFrame_activate, onHasStreamData, Goto, SessionType
  <2> QED BY <1>0, <1>2, <2>1 DEF RestType
<1>8. CASE closeForShutdown_send
  <2>1. /\ in' = in /\ out' = [out EXCEPT ![cur].shut = TRUE, ![cur].signal = TRUE]
        /\ updates' = updates /\ session' = session
        /\ pc' = [pc EXCEPT ![Loop] = "shutReceive"]
    BY <1>8 DEF closeForShutdown_send, Goto
  <2>2. \A t \in Stream : out'[t].written = out[t].written
    BY <1>0, <2>1 DEF OutType
  <2> QED BY <1>0, <1>2, <2>1, <2>2 DEF RestType
<1>9. CASE closeForShutdown_receive
  <2>1. /\ in' = [in EXCEPT ![cur].shut = TRUE, ![cur].signal = TRUE]
        /\ out' = out /\ updates' = updates /\ session' = session
        /\ pc' = [pc EXCEPT ![Loop] = "shut"]
    BY <1>9 DEF closeForShutdown_receive, Goto
  <2>2. RestType' /\ \A t \in Stream : in'[t].read = in[t].read /\ in'[t].arrived = in[t].arrived
    <3>1. RestType'
      BY <1>0, <2>1, InUpdates DEF RestType
    <3>2. \A t \in Stream : in'[t].read = in[t].read /\ in'[t].arrived = in[t].arrived
      BY <1>0, <2>1 DEF InType
    <3> QED BY <3>1, <3>2
  <2>3. pc'[Loop] = "shut" /\ \A t \in Stream : pc'[Reader(t)] = pc[Reader(t)]
    BY <1>1, <2>1
  <2> QED BY <2>1, <2>2, <2>3, SameCounts DEF CountInv
<1>10. ASSUME NEW s \in Stream, handleStreamFrame(s)
       PROVE  RestType' /\ \A t \in Stream : CountParts(t)'
  <2>1. /\ in' = in /\ out' = out /\ updates' = updates /\ session' = session
        /\ cur' = s /\ in[s].arrived < MaxFrames[s] /\ pc' = [pc EXCEPT ![Loop] = "push"]
    BY <1>10 DEF handleStreamFrame, Goto
  <2>2. \A t \in Stream : pc'[Reader(t)] = pc[Reader(t)]
    BY <1>1, <2>1
  <2> QED BY <1>0, <2>1, <2>2 DEF RestType, CountInv, CountParts
<1>11. ASSUME NEW s \in Stream, handleMaxStreamDataFrame(s)
       PROVE  RestType' /\ \A t \in Stream : CountParts(t)'
  <2>1. /\ in' = in /\ out' = [out EXCEPT ![s].granted = TRUE]
        /\ updates' = updates /\ session' = session
        /\ pc' = [pc EXCEPT ![Loop] = "grant"]
    BY <1>11 DEF handleMaxStreamDataFrame, Goto
  <2>2. \A t \in Stream : out'[t].written = out[t].written
    BY <1>0, <2>1 DEF OutType
  <2> QED BY <1>0, <1>2, <2>1, <2>2 DEF RestType
<1> QED BY <1>3, <1>4, <1>5, <1>6, <1>7, <1>8, <1>9, <1>10, <1>11 DEF LoopStep

\* The types of the variables of SessionLocks; a Read copies no frame that has not
\* come, although it lets go of the mutex for the copy.
THEOREM LocksTypeCorrect == LocksSpec => []TypeOK
<1>1. CountInv => TypeOK
  BY DEF CountInv, BaseInv, Types, RestType, SessionType, CountParts, TypeOK
<1>2. Init => CountInv
  <2> SUFFICES ASSUME Init PROVE CountInv
    OBVIOUS
  <2>1. BaseInv /\ RestType
    BY InitBase DEF Init, RestType, InType, SessionType
  <2>2. pc[Loop] = "idle" /\ \A s \in Stream : pc[Reader(s)] = "read"
    BY Goroutines DEF Init, Loop, Reader
  <2>3. \A s \in Stream : /\ out[s].written = 0 /\ in[s].read = 0 /\ in[s].arrived = 0
                          /\ MaxWrites[s] \in Nat /\ MaxFrames[s] \in Nat
    BY SessionLocksAssumption DEF Init
  <2> QED BY <2>1, <2>2, <2>3 DEF CountInv, CountParts
<1>3. CountInv /\ [LocksNext]_vars => CountInv'
  <2> SUFFICES ASSUME CountInv, [LocksNext]_vars PROVE CountInv'
    OBVIOUS
  <2>1. BaseInv'
    BY NextBase DEF CountInv
  <2>2. RestType' /\ \A t \in Stream : CountParts(t)'
    <3>1. CASE LoopStep \/ \E s \in Stream : handleStreamFrame(s) \/ handleMaxStreamDataFrame(s)
      BY <3>1, LoopCounts
    <3>2. ASSUME NEW s \in Stream, WriterStep(s) \/ ReaderStep(s)
          PROVE  RestType' /\ \A t \in Stream : CountParts(t)'
      BY <3>2, WriterCounts, ReaderCounts
    <3>3. ASSUME NEW s \in ClosedByOther, CloserStep(s)
          PROVE  RestType' /\ \A t \in Stream : CountParts(t)'
      BY <3>3, WriterCounts, SessionLocksAssumption
    <3>4. CASE Session_ends \/ UNCHANGED vars
      <4>1. /\ pc' = pc /\ cur' = cur /\ out' = out /\ in' = in /\ updates' = updates
            /\ session' = session \/ session' = [session EXCEPT !.closing = TRUE]
        BY <3>4 DEF Session_ends, vars
      <4> QED BY <4>1 DEF CountInv, CountParts, RestType, SessionType
    <3> QED BY <3>1, <3>2, <3>3, <3>4 DEF LocksNext
  <2> QED BY <2>1, <2>2 DEF CountInv
<1> QED BY <1>1, <1>2, <1>3, PTL DEF LocksSpec
=============================================================================

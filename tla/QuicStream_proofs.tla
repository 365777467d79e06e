-------------------------- MODULE QuicStream_proofs --------------------------
(***************************************************************************)
(* Proofs about QuicStream, for every set of streams and every pair of     *)
(* windows: that the two endpoints count alike, so that no frame closes    *)
(* the session, that each stream is a pipe of bytes, and where it ends.    *)
(***************************************************************************)
EXTENDS QuicStream, FiniteSetTheorems, NaturalsInduction,
        SequenceTheorems, TLAPS

\* The types of the variables, without the bounds of the model.
OutRecord == [written : Nat, data : Nat, sent : Nat, finished : BOOLEAN,
              finSent : BOOLEAN, window : Nat]
FrameRecord == [stream : Stream, offset : Nat, len : Nat, fin : BOOLEAN]
Queued == [first : Nat, len : Nat, fin : BOOLEAN]
Queue == UNION {[D -> Queued] : D \in SUBSET Nat}
InRecord == [received : SUBSET Nat, queue : Queue, highest : Nat, final : BOOLEAN,
             window : Nat, got : Seq(Nat), eof : BOOLEAN, left : BOOLEAN]
OutType == out \in [Stream -> OutRecord] /\ outWindow \in Nat
NetType == net \subseteq FrameRecord /\ late \subseteq FrameRecord
InType == in \in [Stream -> InRecord] /\ inWindow \in Nat
GrantType == granted \in [Stream -> SUBSET Nat] /\ grantedAll \subseteq Nat

\* What the sender counts: the data it has written and sent, the end of the
\* stream, and the windows it has been given.
SenderInv ==
  /\ \A s \in Stream : /\ out[s].written = out[s].sent + out[s].data
                       /\ out[s].finSent => out[s].finished /\ out[s].data = 0
                       /\ out[s].sent <= out[s].window
  /\ Sent <= outWindow

\* No window of the sender is ahead of the receiver's.
WindowInv ==
  /\ outWindow <= inWindow /\ \A w \in grantedAll : w <= inWindow
  /\ \A s \in Stream : /\ out[s].window <= in[s].window
                       /\ \A w \in granted[s] : w <= in[s].window

\* A frame on its way has been sent, and has the end if it says so.
FrameOK(f) ==
  /\ f.offset + f.len <= out[f.stream].sent
  /\ f.len = 0 => f.fin
  /\ f.fin => out[f.stream].finSent /\ f.offset + f.len = out[f.stream].sent
FrameInv == \A f \in net \cup late : FrameOK(f)

\* What the receiver has was sent; a frame of the queue is where it belongs, and
\* what has been read is the beginning of the stream.
QueueOK(r, n) == \A o \in DOMAIN r.queue : r.queue[o].first = o /\ o + r.queue[o].len <= n
ReceiverInv ==
  \A s \in Stream :
    /\ in[s].highest <= out[s].sent
    /\ in[s].final => out[s].finSent /\ in[s].highest = out[s].sent
    /\ \A b \in in[s].received : b < out[s].sent
    /\ QueueOK(in[s], out[s].sent)
    /\ in[s].got = Bytes(0, ReadBytes(s)) /\ ReadBytes(s) <= out[s].sent

\* The frame with the end of a stream came late, after it was sent in two pieces.
LateFin(s) == \E f \in late : f.stream = s /\ f.fin

\* Of the frames with the last byte of a stream all have its end, and all but
\* one are late.
LastFrames ==
  /\ \A f, g \in net \cup late :
       f.stream = g.stream /\ f.fin /\ f.len > 0 /\ g.len > 0
       /\ f.offset + f.len = g.offset + g.len => g.fin
  /\ \A f, g \in net : f.stream = g.stream /\ f.fin /\ g.fin => f = g

\* When none is late, the last byte comes with that frame, whole; a frame of the
\* queue with the end has the last byte, and so has what has been read to it.
EndInv ==
  \A s \in Stream : ~LateFin(s) =>
    /\ \A f \in net : f.stream = s /\ f.fin /\ f.len > 0
                      /\ (f.offset + f.len - 1) \in in[s].received
                      => f.offset..(f.offset + f.len - 1) \subseteq in[s].received
    /\ \A o \in DOMAIN in[s].queue : in[s].queue[o].fin =>
         out[s].finSent /\ o + in[s].queue[o].len = out[s].sent
    /\ in[s].eof => out[s].finished /\ ReadBytes(s) = out[s].written

\* The inductive invariant.
StreamInv ==
  /\ OutType /\ NetType /\ InType /\ GrantType
  /\ SenderInv /\ WindowInv /\ FrameInv /\ ReceiverInv
  /\ LastFrames /\ EndInv
  /\ NoSessionError
-----------------------------------------------------------------------------
(* Lemmas about the operators.                                             *)

\* A set of numbers has a least one.
LEMMA HasMin == ASSUME NEW T \in SUBSET Nat, T # {} PROVE \E x \in T : \A y \in T : x <= y
<1>1. IsWellFoundedOn(OpToRel(<, Nat), Nat)
  BY NatLessThanWellFounded
<1>2. PICK x \in T : \A y \in T : ~ (<<y, x>> \in OpToRel(<, Nat))
  BY <1>1, WFMin
<1>3. \A y \in T : ~ (y < x)
  BY <1>2 DEF OpToRel
<1> QED BY <1>3

\* Min and Max of a set of numbers between two others are in it.
LEMMA MinMax == 
  ASSUME NEW a \in Nat, NEW b \in Nat, NEW T \in SUBSET (a..b), T # {}
  PROVE /\ Min(T) \in T /\ \A y \in T : Min(T) <= y
        /\ Max(T) \in T /\ \A y \in T : y <= Max(T)
<1>1. \E x \in T : \A y \in T : x <= y
  BY HasMin
<1>2. \E x \in T : \A y \in T : y <= x
  <2> DEFINE U == {n \in 0..b : (b - n) \in T}
  <2>1. U \in SUBSET Nat /\ \A y \in T : b - y \in U /\ y \in Nat
    <3>1. ASSUME NEW y \in T PROVE b - y \in 0..b /\ b - (b - y) = y /\ y \in Nat
      OBVIOUS
    <3> QED
      BY <3>1
  <2> HIDE DEF U
  <2>2. U # {}
    BY <2>1
  <2>3. PICK u \in U : \A v \in U : u <= v
    BY <2>1, <2>2, HasMin
  <2>4. b - u \in T /\ u \in Nat
    BY <2>3 DEF U
  <2>5. ASSUME NEW y \in T PROVE y <= b - u
    BY <2>1, <2>3, <2>4
  <2> QED
    BY <2>4, <2>5
<1>3. Min(T) \in T /\ \A y \in T : Min(T) <= y
  BY <1>1 DEF Min
<1>4. Max(T) \in T /\ \A y \in T : Max(T) >= y
  BY <1>2 DEF Max
<1> QED BY <1>3, <1>4

\* Min and Max of two numbers.
LEMMA MinTwo == ASSUME NEW a \in Int, NEW b \in Int PROVE Min({a,b}) = IF a <= b THEN a ELSE b
  BY DEF Min
\* The greater of two numbers.
LEMMA MaxTwo == ASSUME NEW a \in Int, NEW b \in Int PROVE Max({a,b}) = IF a <= b THEN b ELSE a
  BY DEF Max

\* The bytes that Total counts.
Pairs(count) == UNION {{s} \X (1..count[s]) : s \in Stream}

\* A byte is counted when it lies before the offset of its stream.
LEMMA PairsIn == ASSUME NEW a \in [Stream -> Nat], NEW p
  PROVE p \in Pairs(a) <=> \E s \in Stream : \E i \in 1..a[s] : p = <<s, i>>
  BY DEF Pairs

\* The bytes counted are finitely many, as the streams are.
LEMMA PairsFinite == ASSUME NEW a \in [Stream -> Nat]
  PROVE IsFiniteSet(Pairs(a))
<1> DEFINE C == {{s} \X (1..a[s]) : s \in Stream}
<1>1. IsFiniteSet(C)
  <2> DEFINE f == [s \in Stream |-> {s} \X (1..a[s])]
  <2>1. f \in Surjection(Stream, C)
    BY DEF Surjection
  <2> QED
    BY <2>1, QuicStreamAssumption, FS_Surjection
<1>2. \A T \in C : IsFiniteSet(T)
  <2> SUFFICES ASSUME NEW s \in Stream PROVE IsFiniteSet({s} \X (1..a[s]))
    OBVIOUS
  <2>1. IsFiniteSet({s})
    BY FS_Singleton
  <2>2. a[s] \in Int /\ 1 \in Int
    OBVIOUS
  <2>3. IsFiniteSet(1..a[s])
    BY <2>2, FS_Interval
  <2> QED
    BY <2>1, <2>3, FS_Product
<1> QED
  BY <1>1, <1>2, FS_UNION DEF Pairs

\* Total grows with the counts of the streams ...
LEMMA TotalMono == ASSUME NEW a \in [Stream -> Nat], NEW b \in [Stream -> Nat], \A s \in Stream : a[s] <= b[s]
  PROVE Total(a) \in Nat /\ Total(b) \in Nat /\ Total(a) <= Total(b)
<1>1. IsFiniteSet(Pairs(a)) /\ IsFiniteSet(Pairs(b))
  BY PairsFinite
<1>2. ASSUME NEW p \in Pairs(a) PROVE p \in Pairs(b)
  <2>1. PICK s \in Stream : \E i \in 1..a[s] : p = <<s, i>>
    BY PairsIn
  <2>2. PICK i \in 1..b[s] : p = <<s, i>>
    BY <2>1
  <2> QED
    BY <2>2, PairsIn
<1> QED
  BY <1>1, <1>2, FS_CardinalityType, FS_Subset DEF Total, Pairs

\* ... and by as much as one of them, if the others stay.
LEMMA TotalAdd == ASSUME NEW a \in [Stream -> Nat], NEW b \in [Stream -> Nat], NEW s \in Stream, 
   \A t \in Stream \ {s} : a[t] = b[t], a[s] <= b[s]
  PROVE Total(b) = Total(a) + (b[s] - a[s])
<1> DEFINE D == {s} \X ((a[s] + 1)..b[s])
<1>1. IsFiniteSet(Pairs(a)) /\ Total(a) = Cardinality(Pairs(a)) /\ Total(b) = Cardinality(Pairs(b))
  BY PairsFinite DEF Total, Pairs
<1>2. Pairs(b) = Pairs(a) \cup D
  <2>1. ASSUME NEW p \in Pairs(b) PROVE p \in Pairs(a) \cup D
    <3>1. PICK t \in Stream : \E i \in 1..b[t] : p = <<t, i>>
      BY PairsIn
    <3>2. PICK i \in 1..b[t] : p = <<t, i>>
      BY <3>1
    <3>3. CASE i \in 1..a[t]
      BY <3>2, <3>3, PairsIn
    <3>4. CASE t = s /\ i \in (a[s] + 1)..b[s]
      BY <3>2, <3>4
    <3> QED
      BY <3>3, <3>4
  <2>2. ASSUME NEW p \in Pairs(a) PROVE p \in Pairs(b)
    <3>1. PICK t \in Stream : \E i \in 1..a[t] : p = <<t, i>>
      BY PairsIn
    <3>2. PICK i \in 1..b[t] : p = <<t, i>>
      BY <3>1
    <3> QED
      BY <3>2, PairsIn
  <2>3. ASSUME NEW p \in D PROVE p \in Pairs(b)
    <3>1. PICK i \in (a[s] + 1)..b[s] : p = <<s, i>>
      OBVIOUS
    <3>2. i \in 1..b[s]
      OBVIOUS
    <3> QED
      BY <3>1, <3>2, PairsIn
  <2> QED
    BY <2>1, <2>2, <2>3
<1>3. Pairs(a) \cap D = {}
  <2> SUFFICES ASSUME NEW p \in Pairs(a), p \in D PROVE FALSE
    OBVIOUS
  <2>1. PICK t \in Stream : \E i \in 1..a[t] : p = <<t, i>>
    BY PairsIn
  <2>2. PICK i \in 1..a[t] : p = <<t, i>>
    BY <2>1
  <2> QED
    BY <2>2
<1>4. IsFiniteSet(D) /\ Cardinality(D) = b[s] - a[s]
  <2>1. IsFiniteSet({s}) /\ Cardinality({s}) = 1
    BY FS_Singleton
  <2>2. a[s] + 1 \in Int /\ b[s] \in Int /\ b[s] - a[s] \in Int
        /\ (a[s] + 1 > b[s] => b[s] - a[s] = 0) /\ b[s] - (a[s] + 1) + 1 = b[s] - a[s]
    OBVIOUS
  <2>3. /\ IsFiniteSet((a[s] + 1)..b[s])
        /\ Cardinality((a[s] + 1)..b[s]) = IF a[s] + 1 > b[s] THEN 0 ELSE b[s] - (a[s] + 1) + 1
    BY <2>2, FS_Interval
  <2>4. IsFiniteSet(D) /\ Cardinality(D) = 1 * Cardinality((a[s] + 1)..b[s])
    BY <2>1, <2>3, FS_Product
  <2> QED
    BY <2>2, <2>3, <2>4
<1>5. Total(a) \in Nat
  BY <1>1, FS_CardinalityType
<1> HIDE DEF D
<1>6. Cardinality(Pairs(a) \cup D) = Cardinality(Pairs(a)) + Cardinality(D) - Cardinality({})
  BY <1>1, <1>3, <1>4, FS_Union
<1> QED
  BY <1>1, <1>2, <1>4, <1>5, <1>6, FS_EmptySet

\* Bytes(from, len) are len numbers, and continue those before from.
LEMMA BytesProperties ==
  ASSUME NEW m \in Nat, NEW n \in Nat
  PROVE  /\ Bytes(m, n) \in Seq(Nat) /\ Len(Bytes(m, n)) = n
         /\ Bytes(0, m) \o Bytes(m, n) = Bytes(0, m + n)
<1>1. \A a, k \in Nat : Bytes(a, k) \in Seq(Nat) /\ Len(Bytes(a, k)) = k
  BY DEF Bytes
<1>2. \A i \in 1..(m + n) : (Bytes(0, m) \o Bytes(m, n))[i] = Bytes(0, m + n)[i]
  BY <1>1, m + n \in Nat DEF Bytes
<1>3. /\ Bytes(0, m) \o Bytes(m, n) \in Seq(Nat)
      /\ Len(Bytes(0, m) \o Bytes(m, n)) = m + n
  BY <1>1
<1>4. Bytes(0, m + n) \in Seq(Nat) /\ Len(Bytes(0, m + n)) = m + n
  BY <1>1, m + n \in Nat
<1> HIDE DEF Bytes
<1>5. Bytes(0, m) \o Bytes(m, n) = Bytes(0, m + n)
  BY <1>2, <1>3, <1>4, SeqEqual
<1> QED
  BY <1>1, <1>5

\* What Put does: the bytes are received, and of the queue something may go and
\* one frame comes.
LEMMA PutProperties ==
  ASSUME NEW r \in InRecord, NEW first \in Nat, NEW len \in Nat, NEW fin \in BOOLEAN,
         NEW q, q = Put(r, first, len, fin)
  PROVE  /\ q \in InRecord
         /\ q.highest = r.highest /\ q.final = r.final /\ q.window = r.window
         /\ q.got = r.got /\ q.eof = r.eof /\ q.left = r.left
         /\ q.received = r.received \cup first..(first + len - 1)
         /\ first \in DOMAIN q.queue
         /\ q.queue[first] = [first |-> first, len |-> len, fin |-> fin]
         /\ \A o \in DOMAIN q.queue \ {first} :
              o \in DOMAIN r.queue /\ q.queue[o] = r.queue[o]
<1> DEFINE new == [first |-> first, len |-> len, fin |-> fin]
           replaced == {o \in (first + 1)..(first + len - 1) :
                          o \in r.received /\ (o - 1) \notin r.received}
           D == (DOMAIN r.queue \ replaced) \cup {first}
           queue == [o \in D |-> IF o = first THEN new ELSE r.queue[o]]
           received == r.received \cup first..(first + len - 1)
<1>1. q = [r EXCEPT !.received = received, !.queue = queue]
  BY DEF Put, InRecord
<1>2. r.queue \in Queue /\ r.received \subseteq Nat
  BY DEF InRecord
<1>3. PICK E \in SUBSET Nat : r.queue \in [E -> Queued]
  BY <1>2 DEF Queue
<1>4. new \in Queued
  BY DEF Queued
<1>5. queue \in [D -> Queued] /\ D \subseteq Nat
  BY <1>3, <1>4
<1>6. queue \in Queue
  BY <1>5 DEF Queue
<1>7. received \subseteq Nat
  BY <1>2
<1> HIDE DEF queue, received
<1>8. q \in InRecord
  BY <1>1, <1>6, <1>7 DEF InRecord
<1>9. /\ q.highest = r.highest /\ q.final = r.final /\ q.window = r.window
      /\ q.got = r.got /\ q.eof = r.eof /\ q.left = r.left
      /\ q.received = received /\ q.queue = queue
  BY <1>1 DEF InRecord
<1>10. /\ first \in DOMAIN queue /\ queue[first] = new
       /\ \A o \in DOMAIN queue \ {first} : o \in DOMAIN r.queue /\ queue[o] = r.queue[o]
  BY DEF queue
<1>11. received = r.received \cup first..(first + len - 1)
  BY DEF received
<1> QED
  BY <1>8, <1>9, <1>10, <1>11

\* The bytes of a frame that are missing; the three cases of Push.
Missing(r, f) == (f.offset..(f.offset + f.len - 1)) \ r.received

\* What Push of streamFrameSorter does with a frame.
LEMMA PushCases ==
  ASSUME NEW r, NEW f, f.len \in Nat
  PROVE  /\ f.len = 0 => Push(r, f) = Put(r, f.offset, 0, TRUE)
         /\ f.len > 0 /\ Missing(r, f) = {} => Push(r, f) = r
         /\ f.len > 0 /\ Missing(r, f) # {} =>
              Push(r, f) = Put(r, Min(Missing(r, f)),
                               Max(Missing(r, f)) + 1 - Min(Missing(r, f)), f.fin)
<1>1. CASE f.len = 0
  BY <1>1 DEF Push
<1>2. CASE f.len > 0 /\ f.len # 0 /\ Missing(r, f) = {}
  BY <1>2, Zenon DEF Push, Missing
<1>3. CASE f.len > 0 /\ f.len # 0 /\ Missing(r, f) # {}
  BY <1>3, Zenon DEF Push, Missing
<1> QED
  BY <1>1, <1>2, <1>3

\* What Push does with a frame: its bytes are received, and the frame it queues,
\* if any, is a part of it, which has the last byte if that was missing.
QueuedFrom(r, f, x, o) ==
  /\ x.first = o /\ x.fin = f.fin
  /\ o + x.len <= f.offset + f.len
  /\ f.len = 0 => o + x.len = f.offset
  /\ f.len > 0 => Missing(r, f) # {}
  /\ f.len > 0 /\ (f.offset + f.len - 1) \notin r.received => o + x.len = f.offset + f.len

\* Push adds the bytes of the frame and nothing else; what it queues is a part
\* of the frame.
LEMMA PushProperties ==
  ASSUME NEW r \in InRecord, NEW f \in FrameRecord, f.len = 0 => f.fin, NEW q, q = Push(r, f)
  PROVE  /\ q \in InRecord
         /\ q.highest = r.highest /\ q.final = r.final /\ q.window = r.window
         /\ q.got = r.got /\ q.eof = r.eof /\ q.left = r.left
         /\ q.received = r.received \cup f.offset..(f.offset + f.len - 1)
         /\ \A o \in DOMAIN q.queue :
              \/ o \in DOMAIN r.queue /\ q.queue[o] = r.queue[o]
              \/ QueuedFrom(r, f, q.queue[o], o)
<1> DEFINE range == f.offset..(f.offset + f.len - 1)
<1>1. f.offset \in Nat /\ f.len \in Nat /\ f.fin \in BOOLEAN
  BY DEF FrameRecord
<1>2. CASE f.len = 0
  <2>1. q = Put(r, f.offset, f.len, f.fin)
    <3>1. f.fin = TRUE
      BY <1>1, <1>2
    <3>2. q = Put(r, f.offset, 0, TRUE)
      BY <1>1, <1>2, PushCases
    <3> QED
      BY <1>2, <3>1, <3>2, Zenon
  <2>2. /\ q \in InRecord
        /\ q.highest = r.highest /\ q.final = r.final /\ q.window = r.window
        /\ q.got = r.got /\ q.eof = r.eof /\ q.left = r.left
        /\ q.received = r.received \cup range
        /\ q.queue[f.offset] = [first |-> f.offset, len |-> f.len, fin |-> f.fin]
        /\ \A o \in DOMAIN q.queue \ {f.offset} :
             o \in DOMAIN r.queue /\ q.queue[o] = r.queue[o]
    BY <1>1, <2>1, PutProperties
  <2> DEFINE x == q.queue[f.offset]
  <2>3. x.first = f.offset /\ x.len = f.len /\ x.fin = f.fin
    BY <2>2
  <2> HIDE DEF x
  <2>4. QueuedFrom(r, f, x, f.offset)
    BY <1>1, <1>2, <2>3 DEF QueuedFrom
  <2> QED
    BY <2>2, <2>4 DEF x
<1>3. CASE f.len > 0 /\ Missing(r, f) = {}
  <2>1. q = r
    BY <1>1, <1>3, PushCases
  <2>2. r.received = r.received \cup range
    BY <1>3 DEF Missing
  <2> QED
    BY <2>1, <2>2
<1>4. CASE f.len > 0 /\ Missing(r, f) # {}
  <2> DEFINE missing == Missing(r, f)
             first == Min(missing)
             last == Max(missing)
             len == last + 1 - first
  <2>1. q = Put(r, first, len, f.fin)
    BY <1>1, <1>4, PushCases
  <2>2. /\ first \in missing /\ \A y \in missing : first <= y
        /\ last \in missing /\ \A y \in missing : y <= last
    <3>1. missing \in SUBSET (f.offset..(f.offset + f.len - 1)) /\ missing # {}
          /\ f.offset + f.len - 1 \in Nat
      BY <1>1, <1>4 DEF Missing
    <3> HIDE DEF missing
    <3> QED
      BY <3>1, <1>1, MinMax
  <2>3. missing \subseteq range /\ r.received \cup range = r.received \cup missing
    BY DEF Missing
  <2> HIDE DEF missing, first, last
  <2>4. /\ first \in Nat /\ last \in Nat /\ f.offset <= first /\ first <= last
        /\ last < f.offset + f.len
    BY <1>1, <2>2, <2>3
  <2>5. len \in Nat /\ first + len = last + 1 /\ first + len <= f.offset + f.len
    BY <1>1, <2>4
  <2>6. first..(first + len - 1) \subseteq range /\ missing \subseteq first..(first + len - 1)
    BY <1>1, <2>2, <2>3, <2>4, <2>5
  <2>7. (f.offset + f.len - 1) \notin r.received => first + len = f.offset + f.len
    <3> SUFFICES ASSUME (f.offset + f.len - 1) \notin r.received
                 PROVE  first + len = f.offset + f.len
      OBVIOUS
    <3>1. f.offset + f.len - 1 \in range
      BY <1>1, <1>4
    <3>2. f.offset + f.len - 1 \in missing
      BY <3>1 DEF missing, Missing
    <3>3. f.offset + f.len - 1 <= last
      BY <2>2, <3>2
    <3> QED
      BY <1>1, <2>4, <2>5, <3>3
  <2>8. r.received \cup first..(first + len - 1) = r.received \cup range
    BY <2>3, <2>6
  <2> HIDE DEF len
  <2>9. /\ q \in InRecord
        /\ q.highest = r.highest /\ q.final = r.final /\ q.window = r.window
        /\ q.got = r.got /\ q.eof = r.eof /\ q.left = r.left
        /\ q.received = r.received \cup first..(first + len - 1)
        /\ q.queue[first] = [first |-> first, len |-> len, fin |-> f.fin]
        /\ \A o \in DOMAIN q.queue \ {first} :
             o \in DOMAIN r.queue /\ q.queue[o] = r.queue[o]
    BY <1>1, <2>1, <2>4, <2>5, PutProperties
  <2>10. QueuedFrom(r, f, q.queue[first], first)
    BY <1>4, <2>5, <2>7, <2>9 DEF QueuedFrom
  <2> QED
    BY <2>8, <2>9, <2>10
<1> QED
  BY <1>1, <1>2, <1>3, <1>4
-----------------------------------------------------------------------------
(* The invariant holds initially.                                          *)

\* Of nothing there is nothing in all.
LEMMA TotalZero == Total([s \in Stream |-> 0]) = 0
<1>1. Pairs([s \in Stream |-> 0]) = {}
  <2> SUFFICES ASSUME NEW p \in Pairs([s \in Stream |-> 0]) PROVE FALSE
    OBVIOUS
  <2>1. [s \in Stream |-> 0] \in [Stream -> Nat]
    OBVIOUS
  <2>2. PICK s \in Stream : \E i \in 1..[t \in Stream |-> 0][s] : p = <<s, i>>
    BY <2>1, PairsIn
  <2> QED
    BY <2>2
<1> QED
  BY <1>1, FS_EmptySet DEF Total, Pairs

\* Nothing is sent at the start.
LEMMA InitInv == Init => StreamInv
<1> SUFFICES ASSUME Init PROVE StreamInv
  OBVIOUS
<1>1. OutType
  BY QuicStreamAssumption DEF Init, OutType, OutRecord
<1>2. NetType
  BY DEF Init, NetType
<1>3. InType
  <2>1. <<>> \in Queue
    <3>1. <<>> \in [{} -> Queued] /\ {} \in SUBSET Nat
      OBVIOUS
    <3> QED
      BY <3>1 DEF Queue
  <2>2. <<>> \in Seq(Nat)
    OBVIOUS
  <2> QED
    BY <2>1, <2>2, QuicStreamAssumption DEF Init, InType, InRecord
<1>4. GrantType
  BY DEF Init, GrantType
<1>5. SenderInv
  <2>1. [s \in Stream |-> out[s].sent] = [s \in Stream |-> 0]
    BY DEF Init
  <2>2. Sent = 0
    BY <2>1, TotalZero DEF Sent
  <2> QED
    BY <2>2, QuicStreamAssumption DEF Init, SenderInv
<1>6. WindowInv
  BY QuicStreamAssumption DEF Init, WindowInv
<1>7. FrameInv /\ LastFrames
  BY DEF Init, FrameInv, LastFrames
<1>8. ReceiverInv
  <2>1. Bytes(0, 0) = <<>>
    BY DEF Bytes
  <2>2. \A s \in Stream : DOMAIN in[s].queue = {} /\ in[s].got = <<>>
    BY DEF Init
  <2> QED
    BY <2>1, <2>2 DEF Init, ReceiverInv, QueueOK, ReadBytes
<1>9. EndInv
  <2>1. \A s \in Stream : DOMAIN in[s].queue = {}
    BY DEF Init
  <2> QED
    BY <2>1 DEF Init, EndInv
<1>10. NoSessionError
  BY DEF Init, NoSessionError
<1> QED
  BY <1>1, <1>2, <1>3, <1>4, <1>5, <1>6, <1>7, <1>8, <1>9, <1>10 DEF StreamInv
-----------------------------------------------------------------------------
(* The steps of the sender keep the invariant.                             *)

\* The fields of a sendStream and of a receiveStream.
LEMMA OutFields ==
  ASSUME OutType
  PROVE  /\ outWindow \in Nat /\ DOMAIN out = Stream
         /\ \A s \in Stream :
              /\ out[s].written \in Nat /\ out[s].data \in Nat /\ out[s].sent \in Nat
              /\ out[s].window \in Nat
              /\ out[s].finished \in BOOLEAN /\ out[s].finSent \in BOOLEAN
  BY DEF OutType, OutRecord

\* The types of what a receiveStream keeps.
LEMMA InFields ==
  ASSUME InType
  PROVE  /\ inWindow \in Nat /\ DOMAIN in = Stream
         /\ \A s \in Stream :
              /\ in[s] \in InRecord
              /\ in[s].received \subseteq Nat /\ in[s].highest \in Nat
              /\ in[s].window \in Nat /\ in[s].got \in Seq(Nat) /\ ReadBytes(s) \in Nat
              /\ in[s].final \in BOOLEAN /\ in[s].eof \in BOOLEAN /\ in[s].left \in BOOLEAN
  BY DEF InType, InRecord, ReadBytes

\* The types of what the sorter has in its queue.
LEMMA QueueFields ==
  ASSUME NEW r \in InRecord
  PROVE  \A o \in DOMAIN r.queue : /\ o \in Nat /\ r.queue[o] \in Queued
                                   /\ r.queue[o].first \in Nat /\ r.queue[o].len \in Nat
                                   /\ r.queue[o].fin \in BOOLEAN
<1>1. r.queue \in Queue
  BY DEF InRecord
<1>2. PICK E \in SUBSET Nat : r.queue \in [E -> Queued]
  BY <1>1 DEF Queue
<1> QED
  BY <1>2 DEF Queued

\* The types of the frames on their way.
LEMMA FrameFields ==
  ASSUME NetType
  PROVE  \A f \in net \cup late : /\ f.stream \in Stream /\ f.offset \in Nat
                                  /\ f.len \in Nat /\ f.fin \in BOOLEAN
  BY DEF NetType, FrameRecord

\* What a step of the sendStream of s may do: it counts on, keeps to the window,
\* does not go on after the end, and sends at most one frame, beyond those sent.
LEMMA OutStep ==
  ASSUME StreamInv, NEW s \in Stream, NEW new \in OutRecord, out' = [out EXCEPT ![s] = new],
         NEW F \in SUBSET FrameRecord, net' = net \cup F, \A f, g \in F : f = g,
         UNCHANGED <<outWindow, late, in, inWindow, granted, grantedAll, error>>,
         new.written = new.sent + new.data, new.finSent => new.finished /\ new.data = 0,
         new.sent <= new.window, new.window <= in[s].window, Sent' <= outWindow,
         out[s].sent <= new.sent, out[s].finSent => new.finSent /\ new.sent = out[s].sent,
         out[s].finished => new.finished /\ new.written = out[s].written,
         \A f \in F : /\ f.stream = s
                      /\ f.fin => ~out[s].finSent
                      /\ f.len > 0 => out[s].sent < f.offset + f.len
                      /\ f.offset + f.len <= new.sent /\ (f.len = 0 => f.fin)
                      /\ f.fin => new.finSent /\ f.offset + f.len = new.sent
  PROVE  StreamInv'
<1>1. /\ out' \in [Stream -> OutRecord] /\ out'[s] = new
      /\ \A t \in Stream : t # s => out'[t] = out[t]
  BY DEF StreamInv, OutType
<1>2. OutType' /\ NetType' /\ InType' /\ GrantType' /\ NoSessionError'
  BY <1>1 DEF StreamInv, OutType, NetType, InType, GrantType, NoSessionError
<1>3. SenderInv'
  BY <1>1 DEF StreamInv, SenderInv
<1>4. WindowInv'
  BY <1>1 DEF StreamInv, WindowInv
<1>5. \A t \in Stream :
        /\ out[t].sent \in Nat /\ out'[t].sent \in Nat /\ out[t].sent <= out'[t].sent
        /\ out[t].finSent => out'[t].finSent /\ out'[t].sent = out[t].sent
        /\ out[t].finished => out'[t].finished /\ out'[t].written = out[t].written
  BY <1>1, <1>2, OutFields DEF StreamInv, OutType, OutRecord
<1>6. FrameInv'
  <2>1. ASSUME NEW f \in net \cup late PROVE FrameOK(f)'
    BY <1>5, FrameFields DEF StreamInv, FrameInv, FrameOK
  <2>2. ASSUME NEW f \in F PROVE FrameOK(f)'
    BY <1>1 DEF FrameOK
  <2> QED
    BY <2>1, <2>2 DEF FrameInv
<1>7. ReceiverInv'
  <2> SUFFICES ASSUME NEW t \in Stream
               PROVE  /\ in[t].highest <= out'[t].sent
                      /\ in[t].final => out'[t].finSent /\ in[t].highest = out'[t].sent
                      /\ \A b \in in[t].received : b < out'[t].sent
                      /\ QueueOK(in[t], out'[t].sent)
                      /\ in[t].got = Bytes(0, ReadBytes(t)) /\ ReadBytes(t) <= out'[t].sent
    BY DEF ReceiverInv, QueueOK, ReadBytes
  <2>1. /\ in[t].highest <= out'[t].sent /\ ReadBytes(t) <= out'[t].sent
        /\ in[t].final => out'[t].finSent /\ in[t].highest = out'[t].sent
        /\ \A b \in in[t].received : b < out'[t].sent
        /\ in[t].got = Bytes(0, ReadBytes(t))
    BY <1>5, InFields DEF StreamInv, ReceiverInv
  <2>2. ASSUME NEW o \in DOMAIN in[t].queue
        PROVE  in[t].queue[o].first = o /\ o + in[t].queue[o].len <= out'[t].sent
    <3>1. o \in Nat /\ in[t].queue[o].len \in Nat
      BY InFields, QueueFields DEF StreamInv
    <3> QED
      BY <1>5, <3>1 DEF StreamInv, ReceiverInv, QueueOK
  <2> QED
    BY <2>1, <2>2 DEF QueueOK
<1>8. \A f \in F : f.stream = s /\ f.offset \in Nat /\ f.len \in Nat /\ f \in net'
  BY DEF FrameRecord
<1>9. LastFrames'
  <2>1. ASSUME NEW f \in net' \cup late', NEW g \in net' \cup late',
               f.stream = g.stream /\ f.fin /\ f.len > 0 /\ g.len > 0
               /\ f.offset + f.len = g.offset + g.len
        PROVE  g.fin
    <3>1. CASE f \in F /\ g \in F
      BY <2>1, <3>1
    <3>2. CASE f \in F /\ g \in net \cup late
      BY <1>8, <2>1, <3>2, OutFields, FrameFields DEF StreamInv, FrameInv, FrameOK
    <3>3. CASE f \in net \cup late /\ g \in F
      BY <1>8, <2>1, <3>3, OutFields, FrameFields DEF StreamInv, FrameInv, FrameOK
    <3>4. CASE f \in net \cup late /\ g \in net \cup late
      BY <2>1, <3>4 DEF StreamInv, LastFrames
    <3> QED
      BY <3>1, <3>2, <3>3, <3>4
  <2>2. ASSUME NEW f \in net', NEW g \in net', f.stream = g.stream /\ f.fin /\ g.fin
        PROVE  f = g
    <3>1. ASSUME NEW h \in net, h.stream = s, h.fin PROVE out[s].finSent
      BY <3>1 DEF StreamInv, FrameInv, FrameOK
    <3>2. CASE f \in net /\ g \in net
      BY <2>2, <3>2 DEF StreamInv, LastFrames
    <3> QED
      BY <1>8, <2>2, <3>1, <3>2
  <2> QED
    BY <2>1, <2>2 DEF LastFrames
<1>10. EndInv'
  <2> SUFFICES ASSUME NEW t \in Stream, ~LateFin(t)'
               PROVE  /\ \A f \in net' : f.stream = t /\ f.fin /\ f.len > 0
                            /\ (f.offset + f.len - 1) \in in[t].received
                            => f.offset..(f.offset + f.len - 1) \subseteq in[t].received
                      /\ \A o \in DOMAIN in[t].queue : in[t].queue[o].fin =>
                           out'[t].finSent /\ o + in[t].queue[o].len = out'[t].sent
                      /\ in[t].eof => out'[t].finished /\ ReadBytes(t)' = out'[t].written
    BY DEF EndInv
  <2>1. ~LateFin(t) /\ ReadBytes(t)' = ReadBytes(t)
    BY DEF LateFin, ReadBytes
  <2>2. ASSUME NEW f \in net', f.stream = t /\ f.fin /\ f.len > 0,
               (f.offset + f.len - 1) \in in[t].received
        PROVE  f.offset..(f.offset + f.len - 1) \subseteq in[t].received
    <3>1. CASE f \in net
      BY <2>1, <2>2, <3>1 DEF StreamInv, EndInv
    <3>2. CASE f \in F
      <4>1. f.offset + f.len - 1 < out[s].sent
        BY <1>8, <2>2, <3>2 DEF StreamInv, ReceiverInv
      <4> QED
        BY <1>5, <1>8, <2>2, <3>2, <4>1
    <3> QED
      BY <3>1, <3>2
  <2>3. ASSUME NEW o \in DOMAIN in[t].queue, in[t].queue[o].fin
        PROVE  out'[t].finSent /\ o + in[t].queue[o].len = out'[t].sent
    BY <1>5, <2>1, <2>3 DEF StreamInv, EndInv
  <2>4. in[t].eof => out'[t].finished /\ ReadBytes(t)' = out'[t].written
    BY <1>5, <2>1 DEF StreamInv, EndInv
  <2> QED
    BY <2>2, <2>3, <2>4
<1> QED
  BY <1>2, <1>3, <1>4, <1>6, <1>7, <1>9, <1>10 DEF StreamInv

\* What the sender has sent in all is a number.
LEMMA SentType == ASSUME OutType PROVE Sent \in Nat
<1> DEFINE a == [t \in Stream |-> out[t].sent]
<1>1. a \in [Stream -> Nat] /\ \A t \in Stream : a[t] <= a[t]
  BY OutFields
<1>2. Total(a) \in Nat
  BY <1>1, TotalMono
<1> QED
  BY <1>2 DEF Sent

\* What the sender has sent in all grows by what one stream sends.
LEMMA SentGrows ==
  ASSUME OutType, NEW s \in Stream, NEW new \in OutRecord, out' = [out EXCEPT ![s] = new],
         out[s].sent <= new.sent
  PROVE  Sent \in Nat /\ Sent' = Sent + (new.sent - out[s].sent)
<1> DEFINE a == [t \in Stream |-> out[t].sent]
           b == [t \in Stream |-> out'[t].sent]
<1>1. /\ out' \in [Stream -> OutRecord] /\ out'[s] = new
      /\ \A t \in Stream \ {s} : out'[t] = out[t]
  BY DEF OutType
<1>2. a \in [Stream -> Nat]
  BY OutFields
<1>3. b \in [Stream -> Nat]
  BY <1>1 DEF OutRecord
<1>4. (\A t \in Stream \ {s} : a[t] = b[t]) /\ a[s] = out[s].sent /\ b[s] = new.sent
  BY <1>1
<1>5. Sent = Total(a) /\ Sent' = Total(b)
  BY DEF Sent, Total
<1> HIDE DEF a, b
<1>6. a[s] <= b[s]
  BY <1>4
<1>7. Total(b) = Total(a) + (b[s] - a[s])
  BY <1>2, <1>3, <1>4, <1>6, TotalAdd
<1>8. \A t \in Stream : a[t] <= a[t]
  BY <1>2
<1>9. Total(a) \in Nat
  BY <1>2, <1>8, TotalMono
<1> QED
  BY <1>4, <1>5, <1>7, <1>9

\* A step that sends nothing.
LEMMA OutOnlyStep ==
  ASSUME StreamInv, NEW s \in Stream, NEW new \in OutRecord, out' = [out EXCEPT ![s] = new],
         UNCHANGED <<outWindow, net, late, in, inWindow, granted, grantedAll, error>>,
         new.sent = out[s].sent, new.finSent = out[s].finSent,
         new.written = new.sent + new.data, new.finSent => new.finished /\ new.data = 0,
         out[s].finished => new.finished /\ new.written = out[s].written,
         out[s].window <= new.window, new.window <= in[s].window
  PROVE  StreamInv'
<1>1. OutType /\ outWindow \in Nat /\ out[s].sent \in Nat /\ out[s].window \in Nat
      /\ new.window \in Nat
  BY OutFields DEF StreamInv, OutRecord
<1>2. out[s].sent <= out[s].window /\ Sent <= outWindow
  BY DEF StreamInv, SenderInv
<1>3. out[s].sent <= new.sent /\ new.sent <= new.window
  BY <1>1, <1>2
<1>4. Sent \in Nat /\ Sent' = Sent + (new.sent - out[s].sent)
  BY <1>1, <1>3, SentGrows
<1>5. Sent' <= outWindow
  BY <1>1, <1>2, <1>4
<1> DEFINE F == {}
<1>6. F \in SUBSET FrameRecord /\ net' = net \cup F /\ \A f \in F : FALSE
  OBVIOUS
<1> HIDE DEF F
<1> QED
  BY <1>3, <1>5, <1>6, OutStep

\* Data that is written is not yet sent.
LEMMA WriteInv == ASSUME StreamInv, NEW s \in Stream, Write(s) PROVE StreamInv'
<1>1. PICK n \in 1..(MaxBytes[s] - out[s].written) :
        out' = [out EXCEPT ![s].written = @ + n, ![s].data = n]
  BY DEF Write
<1>2. /\ UNCHANGED <<outWindow, net, late, in, inWindow, granted, grantedAll, error>>
      /\ ~out[s].finished /\ out[s].data = 0
  BY DEF Write, inVars, grants
<1>3. OutType /\ out[s] \in OutRecord
  BY DEF StreamInv, OutType
<1>4. n \in Nat /\ out[s].written + n \in Nat
  BY <1>3, QuicStreamAssumption DEF OutRecord
<1> DEFINE new == [out[s] EXCEPT !.written = @ + n, !.data = n]
<1>5. new \in OutRecord
  BY <1>3, <1>4 DEF OutRecord
<1>6. out' = [out EXCEPT ![s] = new]
  BY <1>1, <1>3 DEF OutType
<1>7. /\ new.sent = out[s].sent /\ new.window = out[s].window /\ new.finished = out[s].finished
      /\ new.finSent = out[s].finSent /\ new.data = n /\ new.written = out[s].written + n
  BY <1>3 DEF OutRecord
<1> HIDE DEF new
<1>8. /\ out[s].written = out[s].sent + out[s].data /\ ~out[s].finSent
      /\ out[s].window <= in[s].window
  BY <1>2 DEF StreamInv, SenderInv, WindowInv
<1>9. new.written = new.sent + new.data
  BY <1>2, <1>3, <1>4, <1>7, <1>8 DEF OutRecord
<1>10. out[s].window <= new.window
  BY <1>3, <1>7 DEF OutRecord
<1> QED
  BY <1>2, <1>5, <1>6, <1>7, <1>8, <1>9, <1>10, OutOnlyStep

\* The end of a stream may be announced before its last data is sent.
LEMMA CloseInv == ASSUME StreamInv, NEW s \in Stream, Close(s) PROVE StreamInv'
<1>1. /\ out' = [out EXCEPT ![s].finished = TRUE] /\ ~out[s].finished
      /\ UNCHANGED <<outWindow, net, late, in, inWindow, granted, grantedAll, error>>
  BY DEF Close, inVars, grants
<1>2. OutType /\ out[s] \in OutRecord
  BY DEF StreamInv, OutType
<1> DEFINE new == [out[s] EXCEPT !.finished = TRUE]
<1>3. new \in OutRecord
  BY <1>2 DEF OutRecord
<1>4. out' = [out EXCEPT ![s] = new]
  BY <1>1, <1>2 DEF OutType
<1>5. /\ new.sent = out[s].sent /\ new.window = out[s].window /\ new.finished
      /\ new.finSent = out[s].finSent /\ new.data = out[s].data /\ new.written = out[s].written
  BY <1>2 DEF OutRecord
<1> HIDE DEF new
<1>6. /\ out[s].written = out[s].sent + out[s].data /\ ~out[s].finSent
      /\ out[s].window <= in[s].window
  BY <1>1 DEF StreamInv, SenderInv, WindowInv
<1>7. out[s].window <= new.window
  BY <1>2, <1>5 DEF OutRecord
<1>8. /\ new.written = new.sent + new.data /\ (new.finSent => new.finished /\ new.data = 0)
      /\ out[s].finished => new.finished /\ new.written = out[s].written
  BY <1>5, <1>6
<1>9. new.window <= in[s].window
  BY <1>5, <1>6
<1> QED
  BY <1>1, <1>3, <1>4, <1>5, <1>7, <1>8, <1>9, OutOnlyStep

\* A larger window has been granted by the receiver.
LEMMA StreamWindowInv ==
  ASSUME StreamInv, NEW s \in Stream, handleMaxStreamDataFrame(s) PROVE StreamInv'
<1>1. PICK w \in granted[s] : out' = [out EXCEPT ![s].window = Max({@, w})]
  BY DEF handleMaxStreamDataFrame
<1>2. UNCHANGED <<outWindow, net, late, in, inWindow, granted, grantedAll, error>>
  BY DEF handleMaxStreamDataFrame, inVars, grants
<1>3. OutType /\ out[s] \in OutRecord /\ w \in Nat
  BY DEF StreamInv, OutType, GrantType
<1> DEFINE m == Max({out[s].window, w})
           new == [out[s] EXCEPT !.window = m]
<1>4. m = IF out[s].window <= w THEN w ELSE out[s].window
  <2>1. out[s].window \in Int /\ w \in Int
    BY <1>3 DEF OutRecord
  <2> QED
    BY <2>1, MaxTwo
<1>5. /\ out[s].written = out[s].sent + out[s].data
      /\ out[s].finSent => out[s].finished /\ out[s].data = 0
      /\ out[s].window <= in[s].window /\ w <= in[s].window
  BY DEF StreamInv, SenderInv, WindowInv
<1> HIDE DEF m
<1>6. m \in Nat /\ out[s].window <= m /\ m <= in[s].window
  BY <1>3, <1>4, <1>5 DEF OutRecord
<1>7. new \in OutRecord
  BY <1>3, <1>6 DEF OutRecord
<1>8. out' = [out EXCEPT ![s] = new]
  BY <1>1, <1>3 DEF OutType, m
<1>9. /\ new.sent = out[s].sent /\ new.window = m /\ new.finished = out[s].finished
      /\ new.finSent = out[s].finSent /\ new.data = out[s].data /\ new.written = out[s].written
  BY <1>3 DEF OutRecord
<1> HIDE DEF new
<1> QED
  BY <1>2, <1>5, <1>6, <1>7, <1>8, <1>9, OutOnlyStep

\* A frame has data that is not yet sent and fits into both windows; with the
\* last of it goes the end of the stream.
LEMMA DataInv == ASSUME StreamInv, NEW s \in Stream, popStreamFrame_data(s) PROVE StreamInv'
<1>1. PICK n \in 1..Min({out[s].data, SendWindowSize(s)}) :
        LET fin == out[s].finished /\ n = out[s].data IN
        /\ out' = [out EXCEPT ![s].data = @ - n, ![s].sent = @ + n, ![s].finSent = fin]
        /\ net' = net \cup {Frame(s, out[s].sent, n, fin)}
  BY DEF popStreamFrame_data
<1> DEFINE fin == out[s].finished /\ n = out[s].data
           new == [out[s] EXCEPT !.data = @ - n, !.sent = @ + n, !.finSent = fin]
           frame == Frame(s, out[s].sent, n, fin)
           F == {frame}
<1>2. /\ UNCHANGED <<outWindow, late, in, inWindow, granted, grantedAll, error>>
      /\ out[s].data > 0
  BY DEF popStreamFrame_data, inVars, grants
<1>3. OutType /\ out[s] \in OutRecord /\ outWindow \in Nat
  BY DEF StreamInv, OutType
<1>4. Sent \in Nat
  BY <1>3, SentType
<1>5. n \in Nat /\ 0 < n /\ n <= out[s].data
      /\ n <= out[s].window - out[s].sent /\ n <= outWindow - Sent
  <2> DEFINE own == out[s].window - out[s].sent
             all == outWindow - Sent
             size == SendWindowSize(s)
  <2>1. own \in Int /\ all \in Int /\ out[s].data \in Int
    BY <1>3, <1>4 DEF OutRecord
  <2>2. size = IF own <= all THEN own ELSE all
    BY <2>1, MinTwo DEF SendWindowSize
  <2>3. size \in Int
    BY <2>1, <2>2
  <2> HIDE DEF size
  <2>4. Min({out[s].data, size}) = IF out[s].data <= size THEN out[s].data ELSE size
    BY <2>1, <2>3, MinTwo
  <2>5. n \in 1..Min({out[s].data, size})
    BY <1>1 DEF size
  <2> QED
    BY <2>1, <2>2, <2>3, <2>4, <2>5
<1>6. /\ out[s].written = out[s].sent + out[s].data /\ ~out[s].finSent
      /\ out[s].window <= in[s].window /\ Sent <= outWindow
  BY <1>2, <1>3 DEF StreamInv, SenderInv, WindowInv, OutRecord
<1>7. fin \in BOOLEAN
  OBVIOUS
<1> HIDE DEF fin
<1>8. new \in OutRecord
  <2>1. out[s].data - n \in Nat /\ out[s].sent + n \in Nat
    BY <1>3, <1>5 DEF OutRecord
  <2> QED
    BY <1>3, <1>7, <2>1 DEF OutRecord
<1>9. out' = [out EXCEPT ![s] = new]
  BY <1>1, <1>3 DEF OutType, fin
<1>10. net' = net \cup F
  BY <1>1 DEF fin
<1>11. /\ new.sent = out[s].sent + n /\ new.window = out[s].window
       /\ new.finished = out[s].finished /\ new.finSent = fin /\ new.data = out[s].data - n
       /\ new.written = out[s].written
  BY <1>3 DEF OutRecord
<1>12. /\ frame.stream = s /\ frame.offset = out[s].sent /\ frame.len = n /\ frame.fin = fin
       /\ frame \in FrameRecord
  BY <1>3, <1>5, <1>7 DEF OutRecord, Frame, FrameRecord
<1> HIDE DEF new, frame
<1>13. /\ out[s].sent \in Nat /\ out[s].data \in Nat /\ out[s].window \in Nat
       /\ out[s].written \in Nat
  BY <1>3 DEF OutRecord
<1>14. out[s].sent <= new.sent
  BY <1>5, <1>11, <1>13
<1>15. Sent' <= outWindow
  <2>1. Sent' = Sent + (new.sent - out[s].sent)
    BY <1>3, <1>8, <1>9, <1>14, SentGrows
  <2> QED
    BY <1>3, <1>4, <1>5, <1>11, <1>13, <2>1
<1>16. /\ new.written = new.sent + new.data /\ new.sent <= new.window
       /\ new.window <= in[s].window /\ (new.finSent => new.finished /\ new.data = 0)
       /\ out[s].finSent => new.finSent /\ new.sent = out[s].sent
       /\ out[s].finished => new.finished /\ new.written = out[s].written
  <2>1. new.written = new.sent + new.data
    BY <1>5, <1>6, <1>11, <1>13
  <2>2. new.sent <= new.window /\ new.window <= in[s].window
    BY <1>5, <1>6, <1>11, <1>13
  <2>3. ASSUME new.finSent PROVE new.finished /\ new.data = 0
    <3>1. fin
      BY <1>11, <2>3
    <3>2. out[s].finished /\ n = out[s].data
      BY <3>1 DEF fin
    <3> QED
      BY <1>5, <1>11, <1>13, <3>2
  <2> QED
    BY <1>6, <1>11, <2>1, <2>2, <2>3
<1>17. F \in SUBSET FrameRecord /\ \A f, g \in F : f = g
  BY <1>12
<1>18. ASSUME NEW f \in F
       PROVE  /\ f.stream = s
              /\ f.fin => ~out[s].finSent
              /\ f.len > 0 => out[s].sent < f.offset + f.len
              /\ f.offset + f.len <= new.sent /\ (f.len = 0 => f.fin)
              /\ f.fin => new.finSent /\ f.offset + f.len = new.sent
  <2>1. f = frame
    OBVIOUS
  <2> QED
    BY <1>5, <1>6, <1>11, <1>12, <1>13, <2>1
<1> HIDE DEF F
<1> QED
  BY <1>2, <1>8, <1>9, <1>10, <1>14, <1>15, <1>16, <1>17, <1>18, OutStep

\* The end of a stream without data is sent once, after the last data.
LEMMA FinInv == ASSUME StreamInv, NEW s \in Stream, popStreamFrame_fin(s) PROVE StreamInv'
<1>1. /\ UNCHANGED <<outWindow, late, in, inWindow, granted, grantedAll, error>>
      /\ out[s].data = 0
  BY DEF popStreamFrame_fin, inVars, grants
<1>2. OutType /\ out[s] \in OutRecord /\ outWindow \in Nat
  BY DEF StreamInv, OutType
<1>3. /\ out[s].sent \in Nat /\ out[s].data \in Nat /\ out[s].window \in Nat
      /\ out[s].written \in Nat
  BY <1>2 DEF OutRecord
<1>4. /\ out[s].written = out[s].sent + out[s].data
      /\ out[s].finSent => out[s].finished /\ out[s].data = 0
      /\ out[s].sent <= out[s].window /\ out[s].window <= in[s].window
  BY DEF StreamInv, SenderInv, WindowInv
<1>5. CASE out[s].finished /\ ~out[s].finSent
  <2> DEFINE new == [out[s] EXCEPT !.finSent = TRUE]
             frame == Frame(s, out[s].sent, 0, TRUE)
             F == {frame}
  <2>1. new \in OutRecord /\ out' = [out EXCEPT ![s] = new] /\ net' = net \cup F
    BY <1>2, <1>5 DEF popStreamFrame_fin, OutType, OutRecord
  <2>2. /\ new.sent = out[s].sent /\ new.window = out[s].window
        /\ new.finished = out[s].finished /\ new.finSent /\ new.data = out[s].data
        /\ new.written = out[s].written
    BY <1>2 DEF OutRecord
  <2>3. /\ frame.stream = s /\ frame.offset = out[s].sent /\ frame.len = 0 /\ frame.fin
        /\ frame \in FrameRecord
    BY <1>3 DEF Frame, FrameRecord
  <2> HIDE DEF new, frame
  <2>4. out[s].sent <= new.sent
    BY <1>3, <2>2
  <2>5. Sent' <= outWindow
    <3>1. Sent \in Nat /\ Sent' = Sent + (new.sent - out[s].sent)
      BY <1>2, <2>1, <2>4, SentGrows
    <3>2. Sent <= outWindow
      BY DEF StreamInv, SenderInv
    <3> QED
      BY <1>2, <1>3, <2>2, <3>1, <3>2
  <2>6. /\ new.written = new.sent + new.data /\ new.sent <= new.window
        /\ new.window <= in[s].window /\ (new.finSent => new.finished /\ new.data = 0)
        /\ out[s].finSent => new.finSent /\ new.sent = out[s].sent
        /\ out[s].finished => new.finished /\ new.written = out[s].written
    BY <1>1, <1>4, <1>5, <2>2
  <2>7. F \in SUBSET FrameRecord /\ \A f, g \in F : f = g
    BY <2>3
  <2>8. ASSUME NEW f \in F
        PROVE  /\ f.stream = s
               /\ f.fin => ~out[s].finSent
               /\ f.len > 0 => out[s].sent < f.offset + f.len
               /\ f.offset + f.len <= new.sent /\ (f.len = 0 => f.fin)
               /\ f.fin => new.finSent /\ f.offset + f.len = new.sent
    <3>1. f = frame
      OBVIOUS
    <3> QED
      BY <1>3, <1>5, <2>2, <2>3, <3>1
  <2> HIDE DEF F
  <2> QED
    BY <1>1, <2>1, <2>4, <2>5, <2>6, <2>7, <2>8, OutStep
<1>6. CASE ~(out[s].finished /\ ~out[s].finSent)
  <2>1. out' = [out EXCEPT ![s] = out[s]] /\ net' = net
    BY <1>2, <1>6 DEF popStreamFrame_fin, OutType
  <2>2. out[s].window <= out[s].window
    BY <1>3
  <2> QED
    BY <1>1, <1>2, <1>4, <2>1, <2>2, OutOnlyStep
<1> QED
  BY <1>5, <1>6

\* Nothing that the invariant is about changes.
LEMMA NothingInv ==
  ASSUME StreamInv,
         UNCHANGED <<out, outWindow, net, late, in, inWindow, granted, grantedAll, error>>
  PROVE  StreamInv'
<1>1. /\ Sent' = Sent /\ \A s \in Stream : ReadBytes(s)' = ReadBytes(s)
      /\ \A s \in Stream : LateFin(s)' <=> LateFin(s)
  BY DEF Sent, ReadBytes, LateFin
<1>2. /\ OutType' /\ NetType' /\ InType' /\ GrantType'
      /\ WindowInv' /\ LastFrames' /\ NoSessionError'
  BY DEF StreamInv, OutType, NetType, InType, GrantType, WindowInv, LastFrames, NoSessionError
<1>3. SenderInv' /\ FrameInv'
  BY <1>1 DEF StreamInv, SenderInv, FrameInv, FrameOK
<1>4. ReceiverInv'
  BY <1>1 DEF StreamInv, ReceiverInv, QueueOK
<1>5. EndInv'
  BY <1>1 DEF StreamInv, EndInv
<1> QED
  BY <1>2, <1>3, <1>4, <1>5 DEF StreamInv

\* A sender that is blocked by a window sends nothing.
LEMMA BlockedInv == ASSUME StreamInv, NEW s \in Stream, popStreamFrame_blocked(s) PROVE StreamInv'
  BY NothingInv DEF popStreamFrame_blocked, inVars, grants

\* A larger window of the session has been granted by the receiver.
LEMMA SessionWindowInv == ASSUME StreamInv, handleMaxDataFrame PROVE StreamInv'
<1>1. PICK w \in grantedAll : outWindow' = Max({outWindow, w})
  BY DEF handleMaxDataFrame
<1>2. UNCHANGED <<out, net, late, in, inWindow, granted, grantedAll, error>>
  BY DEF handleMaxDataFrame, inVars, grants
<1>3. outWindow \in Nat /\ w \in Nat /\ inWindow \in Nat
  BY DEF StreamInv, OutType, GrantType, InType
<1>4. outWindow \in Int /\ w \in Int
  BY <1>3
<1>5. outWindow' = IF outWindow <= w THEN w ELSE outWindow
  BY <1>1, <1>4, MaxTwo
<1>6. outWindow' \in Nat /\ outWindow <= outWindow' /\ outWindow' <= inWindow
  BY <1>3, <1>5 DEF StreamInv, WindowInv
<1>7. /\ Sent' = Sent /\ \A s \in Stream : ReadBytes(s)' = ReadBytes(s)
      /\ \A s \in Stream : LateFin(s)' <=> LateFin(s)
  BY <1>2 DEF Sent, ReadBytes, LateFin
<1>8. Sent \in Nat
  BY SentType DEF StreamInv
<1>9. OutType' /\ NetType' /\ InType' /\ GrantType' /\ LastFrames' /\ NoSessionError'
  BY <1>2, <1>6 DEF StreamInv, OutType, NetType, InType, GrantType, LastFrames, NoSessionError
<1>10. SenderInv'
  <2>1. Sent' <= outWindow'
    BY <1>3, <1>6, <1>7, <1>8 DEF StreamInv, SenderInv
  <2> QED
    BY <1>2, <2>1 DEF StreamInv, SenderInv
<1>11. WindowInv'
  BY <1>2, <1>6 DEF StreamInv, WindowInv
<1>12. FrameInv'
  BY <1>2 DEF StreamInv, FrameInv, FrameOK
<1>13. ReceiverInv'
  BY <1>2, <1>7 DEF StreamInv, ReceiverInv, QueueOK
<1>14. EndInv'
  BY <1>2, <1>7 DEF StreamInv, EndInv
<1> QED
  BY <1>9, <1>10, <1>11, <1>12, <1>13, <1>14 DEF StreamInv

\* A frame is sent again in two pieces: of the two the second has the last byte,
\* and the end; the frame itself is late.
LEMMA SplitInv == ASSUME StreamInv, NEW f \in net, MaybeSplitOffFrame(f) PROVE StreamInv'
<1>1. PICK n \in 1..(f.len - 1) :
        net' = (net \ {f}) \cup {Frame(f.stream, f.offset, n, FALSE),
                                 Frame(f.stream, f.offset + n, f.len - n, f.fin)}
  BY DEF MaybeSplitOffFrame
<1>2. /\ UNCHANGED <<out, outWindow, in, inWindow, granted, grantedAll, error>>
      /\ late' = late \cup {f}
  BY DEF MaybeSplitOffFrame, outVars, inVars, grants
<1> DEFINE s == f.stream
           head == Frame(s, f.offset, n, FALSE)
           tail == Frame(s, f.offset + n, f.len - n, f.fin)
<1>3. s \in Stream /\ f.offset \in Nat /\ f.len \in Nat /\ f.fin \in BOOLEAN
  BY FrameFields DEF StreamInv
<1>4. n \in Nat /\ 0 < n /\ n < f.len /\ f.len - n \in Nat /\ f.offset + n \in Nat
  BY <1>3
<1>5. /\ head.stream = s /\ head.offset = f.offset /\ head.len = n /\ ~head.fin
      /\ head \in FrameRecord
  BY <1>3, <1>4 DEF Frame, FrameRecord
<1>6. /\ tail.stream = s /\ tail.offset = f.offset + n /\ tail.len = f.len - n
      /\ tail.fin = f.fin /\ tail \in FrameRecord
  BY <1>3, <1>4 DEF Frame, FrameRecord
<1>7. net' = (net \ {f}) \cup {head, tail}
  BY <1>1
<1> HIDE DEF s, head, tail
<1>8. net' \cup late' = net \cup late \cup {head, tail}
  BY <1>2, <1>7
<1>9. /\ FrameOK(f) /\ out[s].sent \in Nat
  BY <1>3, OutFields DEF StreamInv, FrameInv
<1>10. FrameOK(head) /\ FrameOK(tail)
  <2>1. f.offset + f.len <= out[s].sent /\ (f.fin => out[s].finSent /\ f.offset + f.len = out[s].sent)
    BY <1>9 DEF FrameOK, s
  <2> QED
    BY <1>3, <1>4, <1>5, <1>6, <1>9, <2>1 DEF FrameOK
<1>11. OutType' /\ NetType' /\ InType' /\ GrantType' /\ NoSessionError'
  BY <1>2, <1>5, <1>6, <1>7
     DEF StreamInv, OutType, NetType, InType, GrantType, NoSessionError
<1>12. SenderInv' /\ WindowInv'
  <2>1. Sent' = Sent
    BY <1>2 DEF Sent
  <2> QED
    BY <1>2, <2>1 DEF StreamInv, SenderInv, WindowInv
<1>13. FrameInv'
  BY <1>2, <1>8, <1>10 DEF StreamInv, FrameInv, FrameOK
<1>14. ReceiverInv'
  BY <1>2 DEF StreamInv, ReceiverInv, QueueOK, ReadBytes
<1>15. LastFrames'
  <2>1. ASSUME NEW g \in net' \cup late', NEW h \in net' \cup late',
               g.stream = h.stream /\ g.fin /\ g.len > 0 /\ h.len > 0
               /\ g.offset + g.len = h.offset + h.len
        PROVE  h.fin
    <3>1. CASE h \in net \cup late
      <4>1. CASE g \in net \cup late
        BY <2>1, <3>1, <4>1 DEF StreamInv, LastFrames
      <4>2. CASE g = tail
        <5>1. /\ f.stream = h.stream /\ f.fin /\ f.len > 0
              /\ f.offset + f.len = h.offset + h.len
          BY <1>3, <1>4, <1>6, <2>1, <4>2 DEF s
        <5> QED
          BY <2>1, <3>1, <5>1 DEF StreamInv, LastFrames
      <4> QED
        BY <1>5, <1>8, <2>1, <4>1, <4>2
    <3>2. CASE h = tail
      <4>1. CASE g \in net \cup late
        <5>1. /\ f.stream = g.stream /\ f.len > 0 /\ f.offset + f.len = g.offset + g.len
          BY <1>3, <1>4, <1>6, <2>1, <3>2 DEF s
        <5>2. f.fin
          BY <2>1, <4>1, <5>1 DEF StreamInv, LastFrames
        <5> QED
          BY <1>6, <3>2, <5>2
      <4> QED
        BY <1>5, <1>8, <2>1, <3>2, <4>1
    <3>3. CASE h = head
      <4>1. g.offset + g.len < out[s].sent
        <5>1. f.offset + f.len <= out[s].sent
          BY <1>9 DEF FrameOK, s
        <5> QED
          BY <1>3, <1>4, <1>5, <1>9, <2>1, <3>3, <5>1
      <4>2. FrameOK(g)
        BY <1>8, <1>10, <2>1 DEF StreamInv, FrameInv
      <4>3. g.stream = s
        BY <1>5, <2>1, <3>3
      <4>4. g.offset + g.len = out[s].sent
        BY <2>1, <4>2, <4>3 DEF FrameOK
      <4> QED
        BY <1>9, <4>1, <4>4
    <3> QED
      BY <1>8, <3>1, <3>2, <3>3
  <2>2. ASSUME NEW g \in net', NEW h \in net', g.stream = h.stream /\ g.fin /\ h.fin
        PROVE  g = h
    <3>1. ASSUME NEW k \in net \ {f}, k.stream = s, k.fin PROVE ~f.fin
      BY <3>1 DEF StreamInv, LastFrames, s
    <3>2. CASE g \in net \ {f} /\ h \in net \ {f}
      BY <2>2, <3>2 DEF StreamInv, LastFrames
    <3> QED
      BY <1>5, <1>6, <1>7, <2>2, <3>1, <3>2
  <2> QED
    BY <2>1, <2>2 DEF LastFrames
<1>16. EndInv'
  <2> SUFFICES ASSUME NEW t \in Stream, ~LateFin(t)'
               PROVE  /\ \A g \in net' : g.stream = t /\ g.fin /\ g.len > 0
                            /\ (g.offset + g.len - 1) \in in[t].received
                            => g.offset..(g.offset + g.len - 1) \subseteq in[t].received
                      /\ \A o \in DOMAIN in[t].queue : in[t].queue[o].fin =>
                           out[t].finSent /\ o + in[t].queue[o].len = out[t].sent
                      /\ in[t].eof => out[t].finished /\ ReadBytes(t) = out[t].written
    BY <1>2 DEF EndInv, ReadBytes
  <2>1. ~LateFin(t) /\ (t = s => ~f.fin)
    BY <1>2 DEF LateFin, s
  <2>2. ASSUME NEW g \in net', g.stream = t /\ g.fin /\ g.len > 0,
               (g.offset + g.len - 1) \in in[t].received
        PROVE  g.offset..(g.offset + g.len - 1) \subseteq in[t].received
    <3>1. g \in net
      BY <1>5, <1>6, <1>7, <2>1, <2>2
    <3> QED
      BY <2>1, <2>2, <3>1 DEF StreamInv, EndInv
  <2>3. /\ \A o \in DOMAIN in[t].queue : in[t].queue[o].fin =>
                           out[t].finSent /\ o + in[t].queue[o].len = out[t].sent
        /\ in[t].eof => out[t].finished /\ ReadBytes(t) = out[t].written
    BY <2>1 DEF StreamInv, EndInv
  <2> QED
    BY <2>2, <2>3
<1> QED
  BY <1>11, <1>12, <1>13, <1>14, <1>15, <1>16 DEF StreamInv
-----------------------------------------------------------------------------
(* The steps of the receiver keep the invariant.                           *)

\* No frame is objected to: what is received has been sent, within the windows.
LEMMA NoReceivedError ==
  ASSUME StreamInv, NEW f \in net \cup late PROVE ReceivedError(f) = "none"
<1> DEFINE s == f.stream
           end == f.offset + f.len
           highest == in[s].highest
<1>1. s \in Stream /\ end \in Nat /\ f.fin \in BOOLEAN
  BY FrameFields DEF StreamInv
<1>2. /\ highest \in Nat /\ out[s].sent \in Nat /\ inWindow \in Nat /\ outWindow \in Nat
      /\ in[s].window \in Nat /\ out[s].window \in Nat
  BY <1>1, InFields, OutFields DEF StreamInv
<1>3. end <= out[s].sent /\ (f.fin => end = out[s].sent)
  BY DEF StreamInv, FrameInv, FrameOK
<1>4. highest <= out[s].sent /\ (in[s].final => highest = out[s].sent)
  BY <1>1 DEF StreamInv, ReceiverInv
<1>5. out[s].sent <= in[s].window
  <2>1. out[s].sent <= out[s].window /\ out[s].window <= in[s].window
    BY <1>1 DEF StreamInv, SenderInv, WindowInv
  <2> QED
    BY <1>2, <2>1
<1>6. ASSUME end > highest PROVE Received + end - highest <= inWindow
  <2> DEFINE a == [t \in Stream |-> in[t].highest]
             b == [a EXCEPT ![s] = end]
             c == [t \in Stream |-> out[t].sent]
  <2>1. a \in [Stream -> Nat] /\ c \in [Stream -> Nat]
    BY InFields, OutFields DEF StreamInv
  <2>2. b \in [Stream -> Nat] /\ a[s] = highest /\ b[s] = end
        /\ \A t \in Stream \ {s} : a[t] = b[t]
    BY <1>1, <2>1
  <2>3. \A t \in Stream : b[t] <= c[t]
    <3>1. \A t \in Stream \ {s} : a[t] <= c[t]
      BY DEF StreamInv, ReceiverInv
    <3> QED
      BY <1>3, <2>2, <3>1
  <2>4. Received = Total(a) /\ Sent = Total(c)
    BY DEF Received, Sent
  <2> HIDE DEF a, b, c
  <2>5. a[s] <= b[s]
    BY <1>1, <1>2, <1>6, <2>2
  <2>6. Total(b) = Total(a) + (b[s] - a[s])
    BY <1>1, <2>1, <2>2, <2>5, TotalAdd
  <2>7. Total(b) <= Total(c) /\ Total(c) \in Nat
    BY <2>1, <2>2, <2>3, TotalMono
  <2>8. Total(a) \in Nat
    <3>1. \A t \in Stream : a[t] <= a[t]
      BY <2>1
    <3> QED
      BY <2>1, <3>1, TotalMono
  <2>9. Sent <= outWindow /\ outWindow <= inWindow
    BY DEF StreamInv, SenderInv, WindowInv
  <2> QED
    BY <1>1, <1>2, <2>2, <2>4, <2>6, <2>7, <2>8, <2>9
<1> DEFINE more == end > highest
           second == f.fin /\ end < highest
           first == in[s].final /\ (more \/ (f.fin /\ end # highest))
           third == more /\ (end > in[s].window \/ Received + end - highest > inWindow)
<1>7. ~first
  BY <1>1, <1>2, <1>3, <1>4
<1>8. ~second
  BY <1>1, <1>2, <1>3, <1>4
<1>9. ~third
  <2> SUFFICES ASSUME third PROVE FALSE
    OBVIOUS
  <2>1. more
    OBVIOUS
  <2>2. ~(end > in[s].window)
    BY <1>1, <1>2, <1>3, <1>5
  <2>3. Received \in Nat
    <3> DEFINE a == [t \in Stream |-> in[t].highest]
    <3>1. a \in [Stream -> Nat] /\ \A t \in Stream : a[t] <= a[t]
      BY InFields DEF StreamInv
    <3>2. Total(a) \in Nat
      BY <3>1, TotalMono
    <3> QED
      BY <3>2 DEF Received
  <2>4. Received + end - highest <= inWindow
    BY <1>6, <2>1
  <2>5. Received + end - highest > inWindow
    BY <2>2
  <2> HIDE DEF end, highest, third, more
  <2> QED
    BY <1>1, <1>2, <2>3, <2>4, <2>5
<1>10. ReceivedError(f) = IF first \/ second THEN "StreamDataAfterTermination"
                        ELSE IF third THEN "FlowControlReceivedTooMuchData"
                        ELSE "none"
  BY Zenon DEF ReceivedError
<1> HIDE DEF first, second, third
<1> QED
  BY <1>7, <1>8, <1>9, <1>10

\* What a step of the receiveStream of s may do: keep within what has been sent,
\* and take the end only with the last byte, or from a late frame.
LEMMA InStep ==
  ASSUME StreamInv, NEW s \in Stream, NEW new \in InRecord, in' = [in EXCEPT ![s] = new],
         UNCHANGED <<out, outWindow, net, late, inWindow, granted, grantedAll, error>>,
         new.window = in[s].window, new.highest <= out[s].sent,
         new.final => out[s].finSent /\ new.highest = out[s].sent,
         \A b \in new.received : b < out[s].sent,
         QueueOK(new, out[s].sent),
         new.got = Bytes(0, Len(new.got)), Len(new.got) <= out[s].sent,
         ~LateFin(s) =>
           /\ \A f \in net : f.stream = s /\ f.fin /\ f.len > 0
                             /\ (f.offset + f.len - 1) \in new.received
                             => f.offset..(f.offset + f.len - 1) \subseteq new.received
           /\ \A o \in DOMAIN new.queue : new.queue[o].fin =>
                out[s].finSent /\ o + new.queue[o].len = out[s].sent
           /\ new.eof => out[s].finished /\ Len(new.got) = out[s].written
  PROVE  StreamInv'
<1>1. /\ in' \in [Stream -> InRecord] /\ in'[s] = new
      /\ \A t \in Stream : t # s => in'[t] = in[t]
  BY DEF StreamInv, InType
<1>2. /\ Sent' = Sent /\ \A t \in Stream : ReadBytes(t)' = Len(in'[t].got)
      /\ \A t \in Stream : LateFin(t)' <=> LateFin(t)
  BY DEF Sent, ReadBytes, LateFin
<1>3. OutType' /\ NetType' /\ InType' /\ GrantType' /\ LastFrames' /\ NoSessionError'
  BY <1>1 DEF StreamInv, OutType, NetType, InType, GrantType, LastFrames, NoSessionError
<1>4. SenderInv' /\ FrameInv'
  BY <1>2 DEF StreamInv, SenderInv, FrameInv, FrameOK
<1>5. WindowInv'
  BY <1>1 DEF StreamInv, WindowInv
<1>6. ReceiverInv'
  <2>1. ASSUME NEW t \in Stream
        PROVE  /\ in'[t].highest <= out[t].sent
               /\ in'[t].final => out[t].finSent /\ in'[t].highest = out[t].sent
               /\ \A b \in in'[t].received : b < out[t].sent
               /\ QueueOK(in'[t], out[t].sent)
               /\ in'[t].got = Bytes(0, Len(in'[t].got)) /\ Len(in'[t].got) <= out[t].sent
    <3>1. CASE t = s
      BY <1>1, <3>1
    <3>2. CASE t # s
      BY <1>1, <3>2 DEF StreamInv, ReceiverInv, ReadBytes
    <3> QED
      BY <3>1, <3>2
  <2> QED
    BY <1>2, <2>1 DEF ReceiverInv, QueueOK
<1>7. EndInv'
  <2>1. ASSUME NEW t \in Stream, ~LateFin(t)
        PROVE  /\ \A f \in net : f.stream = t /\ f.fin /\ f.len > 0
                    /\ (f.offset + f.len - 1) \in in'[t].received
                    => f.offset..(f.offset + f.len - 1) \subseteq in'[t].received
               /\ \A o \in DOMAIN in'[t].queue : in'[t].queue[o].fin =>
                    out[t].finSent /\ o + in'[t].queue[o].len = out[t].sent
               /\ in'[t].eof => out[t].finished /\ Len(in'[t].got) = out[t].written
    <3>1. CASE t = s
      BY <1>1, <2>1, <3>1
    <3>2. CASE t # s
      BY <1>1, <2>1, <3>2 DEF StreamInv, EndInv, ReadBytes
    <3> QED
      BY <3>1, <3>2
  <2> QED
    BY <1>2, <2>1 DEF EndInv
<1> QED
  BY <1>3, <1>4, <1>5, <1>6, <1>7 DEF StreamInv

\* A frame arrives.  If the end of its stream came with no late frame, either the
\* last byte is missing, and what is queued goes to the end, or nothing is queued.
LEMMA ReceiveInv ==
  ASSUME StreamInv, NEW f \in net \cup late, handleStreamFrame(f) PROVE StreamInv'
<1> DEFINE s == f.stream
           end == f.offset + f.len
           highest == Max({in[s].highest, end})
           r == [in[s] EXCEPT !.highest = highest, !.final = @ \/ f.fin]
           new == Push(r, f)
<1>1. UNCHANGED <<out, outWindow, net, late, inWindow, granted, grantedAll>>
  BY DEF handleStreamFrame, outVars, grants
<1>2. CASE UNCHANGED <<in, error>>
  BY <1>1, <1>2, NothingInv
<1>3. CASE ~UNCHANGED <<in, error>>
  <2>1. /\ error' = ReceivedError(f)
        /\ in' = IF error' # "none" THEN in ELSE [in EXCEPT ![s] = new]
    BY <1>3 DEF handleStreamFrame
  <2>2. error' = error /\ in' = [in EXCEPT ![s] = new]
    BY <2>1, NoReceivedError DEF StreamInv, NoSessionError
  <2>3. s \in Stream /\ f \in FrameRecord
    BY DEF StreamInv, NetType, FrameRecord
  <2>4. f.offset \in Nat /\ f.len \in Nat /\ f.fin \in BOOLEAN /\ end \in Nat
    BY <2>3 DEF FrameRecord
  <2>5. /\ in[s] \in InRecord /\ in[s].highest \in Nat /\ in[s].final \in BOOLEAN
        /\ in[s].received \subseteq Nat /\ out[s].sent \in Nat
    BY <2>3, InFields, OutFields DEF StreamInv
  <2>6. /\ end <= out[s].sent /\ (f.len = 0 => f.fin)
        /\ f.fin => out[s].finSent /\ end = out[s].sent
    BY DEF StreamInv, FrameInv, FrameOK
  <2>7. /\ in[s].highest <= out[s].sent
        /\ in[s].final => out[s].finSent /\ in[s].highest = out[s].sent
        /\ \A b \in in[s].received : b < out[s].sent
        /\ QueueOK(in[s], out[s].sent)
        /\ in[s].got = Bytes(0, Len(in[s].got)) /\ Len(in[s].got) <= out[s].sent
    BY <2>3 DEF StreamInv, ReceiverInv, ReadBytes
  <2> HIDE DEF s, end, new
  <2>8. highest = IF in[s].highest <= end THEN end ELSE in[s].highest
    BY <2>4, <2>5, MaxTwo
  <2> HIDE DEF highest
  <2>9. highest \in Nat /\ highest <= out[s].sent /\ in[s].highest <= highest /\ end <= highest
    BY <2>4, <2>5, <2>6, <2>7, <2>8
  <2>10. r \in InRecord
    <3>1. (in[s].final \/ f.fin) \in BOOLEAN
      BY <2>4, <2>5
    <3> QED
      BY <2>5, <2>9, <3>1 DEF InRecord
  <2>11. /\ r.highest = highest /\ (r.final <=> in[s].final \/ f.fin)
         /\ r.window = in[s].window /\ r.got = in[s].got /\ r.eof = in[s].eof
         /\ r.received = in[s].received /\ r.queue = in[s].queue
    BY <2>5 DEF InRecord
  <2> HIDE DEF r
  <2>12. /\ new \in InRecord
         /\ new.highest = r.highest /\ new.final = r.final /\ new.window = r.window
         /\ new.got = r.got /\ new.eof = r.eof
         /\ new.received = r.received \cup f.offset..(f.offset + f.len - 1)
         /\ \A o \in DOMAIN new.queue :
              \/ o \in DOMAIN r.queue /\ new.queue[o] = r.queue[o]
              \/ QueuedFrom(r, f, new.queue[o], o)
    BY <2>3, <2>6, <2>10, PushProperties DEF new
  <2>13. new.highest <= out[s].sent /\ (new.final => out[s].finSent /\ new.highest = out[s].sent)
    BY <2>4, <2>5, <2>6, <2>7, <2>9, <2>11, <2>12
  <2>14. \A b \in new.received : b < out[s].sent
    <3>1. \A b \in f.offset..(f.offset + f.len - 1) : b < out[s].sent
      BY <2>4, <2>5, <2>6 DEF end
    <3> QED
      BY <2>7, <2>11, <2>12, <3>1
  <2>15. QueueOK(new, out[s].sent)
    <3> SUFFICES ASSUME NEW o \in DOMAIN new.queue
                 PROVE  new.queue[o].first = o /\ o + new.queue[o].len <= out[s].sent
      BY DEF QueueOK
    <3>1. CASE o \in DOMAIN r.queue /\ new.queue[o] = r.queue[o]
      BY <2>7, <2>11, <3>1 DEF QueueOK
    <3>2. CASE QueuedFrom(r, f, new.queue[o], o)
      <4>1. o \in Nat /\ new.queue[o].len \in Nat
        BY <2>12, QueueFields
      <4>2. new.queue[o].first = o /\ o + new.queue[o].len <= end
        BY <3>2 DEF QueuedFrom, end
      <4> QED
        BY <2>4, <2>5, <2>6, <4>1, <4>2
    <3> QED
      BY <2>12, <3>1, <3>2
  <2>16. new.got = Bytes(0, Len(new.got)) /\ Len(new.got) <= out[s].sent
    BY <2>7, <2>11, <2>12
  <2>17. ASSUME ~LateFin(s)
         PROVE  /\ \A g \in net : g.stream = s /\ g.fin /\ g.len > 0
                                  /\ (g.offset + g.len - 1) \in new.received
                                  => g.offset..(g.offset + g.len - 1) \subseteq new.received
                /\ \A o \in DOMAIN new.queue : new.queue[o].fin =>
                     out[s].finSent /\ o + new.queue[o].len = out[s].sent
                /\ new.eof => out[s].finished /\ Len(new.got) = out[s].written
    <3>1. /\ \A g \in net : g.stream = s /\ g.fin /\ g.len > 0
                            /\ (g.offset + g.len - 1) \in in[s].received
                            => g.offset..(g.offset + g.len - 1) \subseteq in[s].received
          /\ \A o \in DOMAIN in[s].queue : in[s].queue[o].fin =>
               out[s].finSent /\ o + in[s].queue[o].len = out[s].sent
          /\ in[s].eof => out[s].finished /\ Len(in[s].got) = out[s].written
      BY <2>3, <2>17 DEF StreamInv, EndInv, ReadBytes
    <3>2. f.fin => f \in net
      BY <2>17 DEF LateFin, s
    <3>3. ASSUME NEW g \in net, g.stream = s /\ g.fin /\ g.len > 0,
                 (g.offset + g.len - 1) \in new.received
          PROVE  g.offset..(g.offset + g.len - 1) \subseteq new.received
      <4>1. CASE (g.offset + g.len - 1) \in in[s].received
        BY <2>11, <2>12, <3>1, <3>3, <4>1
      <4>2. CASE (g.offset + g.len - 1) \in f.offset..(f.offset + f.len - 1)
        <5>1. g.offset \in Nat /\ g.len \in Nat /\ g.offset + g.len = out[s].sent
          BY <3>3, FrameFields DEF StreamInv, FrameInv, FrameOK
        <5>2. f.len > 0 /\ f.offset + f.len = g.offset + g.len
          BY <2>4, <2>5, <2>6, <4>2, <5>1 DEF end
        <5>3. f.stream = g.stream
          BY <3>3 DEF s
        <5>4. f.fin
          BY <3>3, <5>2, <5>3 DEF StreamInv, LastFrames
        <5>5. f = g
          BY <3>2, <3>3, <5>3, <5>4 DEF StreamInv, LastFrames
        <5> QED
          BY <2>12, <5>5
      <4> QED
        BY <2>11, <2>12, <3>3, <4>1, <4>2
    <3>4. ASSUME NEW o \in DOMAIN new.queue, new.queue[o].fin
          PROVE  out[s].finSent /\ o + new.queue[o].len = out[s].sent
      <4>1. CASE o \in DOMAIN r.queue /\ new.queue[o] = r.queue[o]
        BY <2>11, <3>1, <3>4, <4>1
      <4>2. CASE QueuedFrom(r, f, new.queue[o], o)
        <5>1. f.fin /\ out[s].finSent /\ end = out[s].sent
          BY <2>6, <3>4, <4>2 DEF QueuedFrom
        <5>2. CASE f.len = 0
          BY <2>4, <4>2, <5>1, <5>2 DEF QueuedFrom, end
        <5>3. CASE f.len > 0
          <6>1. Missing(r, f) # {}
            BY <4>2, <5>3 DEF QueuedFrom
          <6>2. (f.offset + f.len - 1) \notin r.received
            <7>1. f \in net /\ f.stream = s
              BY <3>2, <5>1 DEF s
            <7> QED
              BY <2>11, <3>1, <5>1, <5>3, <6>1, <7>1 DEF Missing
          <6> QED
            BY <4>2, <5>1, <5>3, <6>2 DEF QueuedFrom, end
        <5> QED
          BY <2>4, <5>2, <5>3
      <4> QED
        BY <2>12, <4>1, <4>2
    <3> QED
      BY <2>11, <2>12, <3>1, <3>3, <3>4
  <2>18. new.window = in[s].window
    BY <2>11, <2>12
  <2>19. new \in InRecord
    BY <2>12
  <2>20. UNCHANGED <<out, outWindow, net, late, inWindow, granted, grantedAll, error>>
    BY <1>1, <2>2
  <2> QED
    BY <2>2, <2>3, <2>13, <2>14, <2>15, <2>16, <2>17, <2>18, <2>19, <2>20, InStep
<1> QED
  BY <1>2, <1>3

\* A Read takes the next frame of the queue, and what is read goes on from what
\* was read before.
ReadStep(s, new, x) ==
  /\ in' = [in EXCEPT ![s] = new]
  /\ x = in[s].queue[ReadBytes(s)] /\ ReadBytes(s) \in DOMAIN in[s].queue
  /\ new.got = Bytes(0, ReadBytes(s) + x.len)
  /\ Len(new.got) = ReadBytes(s) + x.len /\ Len(new.got) <= out[s].sent
  /\ new.eof = x.fin /\ new.highest = in[s].highest /\ new.final = in[s].final
  /\ new.window = in[s].window /\ new.received = in[s].received
  /\ \A o \in DOMAIN new.queue :
       o \in DOMAIN in[s].queue /\ new.queue[o] = in[s].queue[o]

\* A Read takes the frame at its offset out of the queue.
LEMMA ReadGoesOn ==
  ASSUME StreamInv, NEW s \in Stream, Read(s)
  PROVE  \E new \in InRecord : \E x \in Queued : ReadStep(s, new, x)
<1> DEFINE n == ReadBytes(s)
           x == in[s].queue[n]
           got == in[s].got \o Bytes(x.first, x.len)
           queue == [o \in DOMAIN in[s].queue \ {n} |-> in[s].queue[o]]
           new == [in[s] EXCEPT !.got = got, !.eof = x.fin, !.queue = queue]
<1>1. /\ n \in DOMAIN in[s].queue
      /\ in' = [in EXCEPT ![s].got = got, ![s].eof = x.fin, ![s].queue = queue]
  BY DEF Read
<1>2. in[s] \in InRecord /\ n \in Nat /\ out[s].sent \in Nat
  BY InFields, OutFields DEF StreamInv
<1>3. x \in Queued /\ x.first \in Nat /\ x.len \in Nat /\ x.fin \in BOOLEAN
  BY <1>1, <1>2, QueueFields
<1>4. x.first = n /\ n + x.len <= out[s].sent /\ in[s].got = Bytes(0, n)
  BY <1>1 DEF StreamInv, ReceiverInv, QueueOK
<1>5. got = Bytes(0, n + x.len) /\ got \in Seq(Nat) /\ Len(got) = n + x.len
  <2>1. Bytes(0, n) \o Bytes(n, x.len) = Bytes(0, n + x.len)
    BY <1>2, <1>3, BytesProperties
  <2>2. n + x.len \in Nat
    BY <1>2, <1>3
  <2>3. Bytes(0, n + x.len) \in Seq(Nat) /\ Len(Bytes(0, n + x.len)) = n + x.len
    BY <2>2, BytesProperties
  <2> QED
    BY <1>4, <2>1, <2>3
<1>6. queue \in Queue
  <2>1. in[s].queue \in Queue
    BY <1>2 DEF InRecord
  <2>2. PICK D \in SUBSET Nat : in[s].queue \in [D -> Queued]
    BY <2>1 DEF Queue
  <2>3. queue \in [D \ {n} -> Queued] /\ D \ {n} \in SUBSET Nat
    BY <2>2
  <2> QED
    BY <2>3 DEF Queue
<1>7. \A o \in DOMAIN queue : o \in DOMAIN in[s].queue /\ queue[o] = in[s].queue[o]
  OBVIOUS
<1> HIDE DEF n, x, got, queue
<1>8. new \in InRecord
  BY <1>2, <1>3, <1>5, <1>6 DEF InRecord
<1>9. in' = [in EXCEPT ![s] = new]
  BY <1>1 DEF StreamInv, InType
<1>10. /\ new.got = got /\ new.eof = x.fin /\ new.queue = queue
       /\ new.highest = in[s].highest /\ new.final = in[s].final
       /\ new.window = in[s].window /\ new.received = in[s].received
  BY <1>2 DEF InRecord
<1>11. Len(new.got) <= out[s].sent
  BY <1>4, <1>5, <1>10
<1>12. \A o \in DOMAIN new.queue : o \in DOMAIN in[s].queue /\ new.queue[o] = in[s].queue[o]
  BY <1>7, <1>10
<1>13. new.got = Bytes(0, n + x.len) /\ Len(new.got) = n + x.len
  BY <1>5, <1>10
<1> HIDE DEF new
<1>14. ReadStep(s, new, x)
  BY <1>1, <1>9, <1>10, <1>11, <1>12, <1>13 DEF ReadStep, n, x
<1> QED
  BY <1>3, <1>8, <1>14

\* Read keeps the invariant.
LEMMA ReadInv == ASSUME StreamInv, NEW s \in Stream, Read(s) PROVE StreamInv'
<1>1. PICK new \in InRecord : \E x \in Queued : ReadStep(s, new, x)
  BY ReadGoesOn
<1>2. PICK x \in Queued : ReadStep(s, new, x)
  BY <1>1
<1>3. UNCHANGED <<out, outWindow, net, late, inWindow, granted, grantedAll, error>>
  BY DEF Read, outVars, grants
<1>4. /\ new.highest <= out[s].sent
      /\ new.final => out[s].finSent /\ new.highest = out[s].sent
      /\ \A b \in new.received : b < out[s].sent
      /\ QueueOK(new, out[s].sent)
  BY <1>2 DEF ReadStep, StreamInv, ReceiverInv, QueueOK
<1>5. new.got = Bytes(0, Len(new.got))
  BY <1>2 DEF ReadStep
<1>6. ASSUME ~LateFin(s)
      PROVE  /\ \A f \in net : f.stream = s /\ f.fin /\ f.len > 0
                               /\ (f.offset + f.len - 1) \in new.received
                               => f.offset..(f.offset + f.len - 1) \subseteq new.received
             /\ \A o \in DOMAIN new.queue : new.queue[o].fin =>
                  out[s].finSent /\ o + new.queue[o].len = out[s].sent
             /\ new.eof => out[s].finished /\ Len(new.got) = out[s].written
  <2>1. /\ \A f \in net : f.stream = s /\ f.fin /\ f.len > 0
                          /\ (f.offset + f.len - 1) \in in[s].received
                          => f.offset..(f.offset + f.len - 1) \subseteq in[s].received
        /\ \A o \in DOMAIN in[s].queue : in[s].queue[o].fin =>
             out[s].finSent /\ o + in[s].queue[o].len = out[s].sent
    BY <1>6 DEF StreamInv, EndInv
  <2>2. ASSUME new.eof PROVE out[s].finished /\ Len(new.got) = out[s].written
    <3>1. out[s].finSent /\ Len(new.got) = out[s].sent
      BY <1>2, <2>1, <2>2 DEF ReadStep
    <3>2. out[s].finished /\ out[s].data = 0 /\ out[s].written = out[s].sent + out[s].data
      BY <3>1 DEF StreamInv, SenderInv
    <3>3. out[s].sent \in Nat
      BY OutFields DEF StreamInv
    <3> QED
      BY <3>1, <3>2, <3>3
  <2> QED
    BY <1>2, <2>1, <2>2 DEF ReadStep
<1>7. in' = [in EXCEPT ![s] = new] /\ new.window = in[s].window /\ Len(new.got) <= out[s].sent
  BY <1>2 DEF ReadStep
<1> QED
  BY <1>3, <1>4, <1>5, <1>6, <1>7, InStep

\* A reader that stops takes nothing away.
LEMMA StopInv == ASSUME StreamInv, NEW s \in Stream, Read_stops(s) PROVE StreamInv'
<1> DEFINE new == [in[s] EXCEPT !.left = TRUE]
<1>1. in[s] \in InRecord
  BY InFields DEF StreamInv
<1>2. new \in InRecord
  BY <1>1 DEF InRecord
<1>3. in' = [in EXCEPT ![s] = new]
  BY DEF Read_stops, StreamInv, InType
<1>4. /\ new.got = in[s].got /\ new.eof = in[s].eof /\ new.queue = in[s].queue
      /\ new.highest = in[s].highest /\ new.final = in[s].final
      /\ new.window = in[s].window /\ new.received = in[s].received
  BY <1>1 DEF InRecord
<1> HIDE DEF new
<1>5. UNCHANGED <<out, outWindow, net, late, inWindow, granted, grantedAll, error>>
  BY DEF Read_stops, outVars, grants
<1>6. /\ new.highest <= out[s].sent
      /\ new.final => out[s].finSent /\ new.highest = out[s].sent
      /\ \A b \in new.received : b < out[s].sent
      /\ QueueOK(new, out[s].sent)
      /\ new.got = Bytes(0, Len(new.got)) /\ Len(new.got) <= out[s].sent
  BY <1>4 DEF StreamInv, ReceiverInv, QueueOK, ReadBytes
<1>7. ~LateFin(s) =>
         /\ \A f \in net : f.stream = s /\ f.fin /\ f.len > 0
                           /\ (f.offset + f.len - 1) \in new.received
                           => f.offset..(f.offset + f.len - 1) \subseteq new.received
         /\ \A o \in DOMAIN new.queue : new.queue[o].fin =>
              out[s].finSent /\ o + new.queue[o].len = out[s].sent
         /\ new.eof => out[s].finished /\ Len(new.got) = out[s].written
  BY <1>4 DEF StreamInv, EndInv, ReadBytes
<1> QED
  BY <1>2, <1>3, <1>4, <1>5, <1>6, <1>7, InStep

\* Windows are only announced that are larger than those before.
LEMMA AnnounceInv == ASSUME StreamInv, sendPacket PROVE StreamInv'
<1> DEFINE all == hasWindowUpdate(inWindow, ReadAll, SessionWindow)
           due == {s \in updates : /\ ~in[s].final
                              /\ hasWindowUpdate(in[s].window, ReadBytes(s), StreamWindow)}
           offset(s) == ReadBytes(s) + StreamWindow
<1>1. /\ UNCHANGED <<out, outWindow, net, late, error>>
      /\ inWindow' = IF all THEN ReadAll + SessionWindow ELSE inWindow
      /\ grantedAll' = IF all THEN grantedAll \cup {inWindow'} ELSE grantedAll
      /\ in' = [s \in Stream |-> IF s \in due THEN [in[s] EXCEPT !.window = offset(s)] ELSE in[s]]
      /\ granted' = [s \in Stream |-> IF s \in due THEN granted[s] \cup {offset(s)} ELSE granted[s]]
  BY DEF sendPacket, outVars
<1>2. inWindow' \in Nat /\ inWindow <= inWindow' /\ (~all => inWindow' = inWindow)
  <2>1. ReadAll \in Nat
    <3> DEFINE a == [t \in Stream |-> ReadBytes(t)]
    <3>1. a \in [Stream -> Nat] /\ \A t \in Stream : a[t] <= a[t]
      BY InFields DEF StreamInv
    <3>2. Total(a) \in Nat
      BY <3>1, TotalMono
    <3> QED
      BY <3>2 DEF ReadAll
  <2>2. inWindow \in Nat /\ SessionWindow \in Nat
    BY QuicStreamAssumption DEF StreamInv, InType
  <2>3. all => 4 * (inWindow - ReadAll) <= 3 * SessionWindow
    BY DEF hasWindowUpdate
  <2>4. inWindow' = IF all THEN ReadAll + SessionWindow ELSE inWindow
    BY <1>1
  <2> HIDE DEF all
  <2> QED
    BY <2>1, <2>2, <2>3, <2>4
<1>3. ASSUME NEW s \in Stream
      PROVE  /\ in'[s] \in InRecord /\ in[s].window <= in'[s].window
             /\ in'[s].got = in[s].got /\ in'[s].eof = in[s].eof /\ in'[s].queue = in[s].queue
             /\ in'[s].highest = in[s].highest /\ in'[s].final = in[s].final
             /\ in'[s].received = in[s].received
             /\ granted'[s] \subseteq granted[s] \cup {in'[s].window}
  <2>1. in[s] \in InRecord /\ in[s].window \in Nat /\ ReadBytes(s) \in Nat /\ StreamWindow \in Nat
    BY QuicStreamAssumption, InFields DEF StreamInv
  <2>2. CASE s \in due
    <3>1. in'[s] = [in[s] EXCEPT !.window = offset(s)] /\ granted'[s] = granted[s] \cup {offset(s)}
      BY <1>1, <2>2
    <3>2. 4 * (in[s].window - ReadBytes(s)) <= 3 * StreamWindow
      BY <2>2 DEF hasWindowUpdate
    <3>3. offset(s) \in Nat /\ in[s].window <= offset(s)
      BY <2>1, <3>2
    <3> HIDE DEF offset
    <3>4. in'[s] \in InRecord
      BY <2>1, <3>1, <3>3 DEF InRecord
    <3>5. /\ in'[s].window = offset(s)
          /\ in'[s].got = in[s].got /\ in'[s].eof = in[s].eof /\ in'[s].queue = in[s].queue
          /\ in'[s].highest = in[s].highest /\ in'[s].final = in[s].final
          /\ in'[s].received = in[s].received
      BY <2>1, <3>1 DEF InRecord
    <3> QED
      BY <3>1, <3>3, <3>4, <3>5
  <2>3. CASE s \notin due
    <3>1. in'[s] = in[s] /\ granted'[s] = granted[s]
      BY <1>1, <2>3
    <3> QED
      BY <2>1, <3>1
  <2> QED
    BY <2>2, <2>3
<1>4. \A w \in grantedAll' : w \in grantedAll \/ w = inWindow'
  BY <1>1
<1>5. DOMAIN in' = Stream /\ DOMAIN granted' = Stream
      /\ in' = [s \in Stream |-> in'[s]] /\ granted' = [s \in Stream |-> granted'[s]]
  BY <1>1
<1> HIDE DEF all, due, offset
<1>6. /\ Sent' = Sent /\ \A s \in Stream : ReadBytes(s)' = ReadBytes(s)
      /\ \A s \in Stream : LateFin(s)' <=> LateFin(s)
  BY <1>1, <1>3 DEF Sent, ReadBytes, LateFin
<1>7. InType'
  <2>1. in' \in [Stream -> InRecord]
    BY <1>3, <1>5
  <2> QED
    BY <1>2, <2>1 DEF InType
<1>8. GrantType'
  <2>1. \A s \in Stream : granted'[s] \subseteq Nat
    BY <1>3 DEF StreamInv, GrantType, InRecord
  <2>2. granted' \in [Stream -> SUBSET Nat]
    BY <1>5, <2>1
  <2>3. grantedAll' \subseteq Nat
    BY <1>2, <1>4 DEF StreamInv, GrantType
  <2> QED
    BY <2>2, <2>3 DEF GrantType
<1>9. OutType' /\ NetType' /\ LastFrames' /\ NoSessionError'
  BY <1>1 DEF StreamInv, OutType, NetType, LastFrames, NoSessionError
<1>10. SenderInv' /\ FrameInv'
  BY <1>1, <1>6 DEF StreamInv, SenderInv, FrameInv, FrameOK
<1>11. WindowInv'
  <2>1. inWindow \in Nat /\ outWindow \in Nat /\ grantedAll \subseteq Nat
    BY DEF StreamInv, InType, OutType, GrantType
  <2>2. outWindow <= inWindow' /\ \A w \in grantedAll' : w <= inWindow'
    <3>1. outWindow <= inWindow /\ \A w \in grantedAll : w <= inWindow
      BY DEF StreamInv, WindowInv
    <3>2. \A w \in grantedAll : w <= inWindow'
      BY <1>2, <2>1, <3>1
    <3>3. outWindow <= inWindow' /\ inWindow' <= inWindow'
      BY <1>2, <2>1, <3>1
    <3> QED
      BY <1>4, <3>2, <3>3
  <2>3. ASSUME NEW s \in Stream
        PROVE  out[s].window <= in'[s].window /\ \A w \in granted'[s] : w <= in'[s].window
    <3>1. /\ in[s].window \in Nat /\ out[s].window \in Nat /\ granted[s] \subseteq Nat
          /\ in'[s].window \in Nat
      BY <1>3, InFields, OutFields DEF StreamInv, GrantType, InRecord
    <3>2. out[s].window <= in[s].window /\ \A w \in granted[s] : w <= in[s].window
      BY DEF StreamInv, WindowInv
    <3> QED
      BY <1>3, <3>1, <3>2
  <2> QED
    BY <1>1, <2>2, <2>3 DEF WindowInv
<1>12. ReceiverInv'
  BY <1>1, <1>3, <1>6 DEF StreamInv, ReceiverInv, QueueOK
<1>13. EndInv'
  BY <1>1, <1>3, <1>6 DEF StreamInv, EndInv
<1> QED
  BY <1>7, <1>8, <1>9, <1>10, <1>11, <1>12, <1>13 DEF StreamInv
-----------------------------------------------------------------------------
(* Theorems.                                                               *)

\* Every step keeps the invariant.
LEMMA NextInv == StreamInv /\ [Next]_vars => StreamInv'
<1> SUFFICES ASSUME StreamInv, [Next]_vars PROVE StreamInv'
  OBVIOUS
<1>1. ASSUME NEW s \in Stream, Write(s) PROVE StreamInv'
  BY <1>1, WriteInv
<1>2. ASSUME NEW s \in Stream, Close(s) PROVE StreamInv'
  BY <1>2, CloseInv
<1>3. ASSUME NEW s \in Stream, popStreamFrame(s) PROVE StreamInv'
  BY <1>3, DataInv, BlockedInv, FinInv DEF popStreamFrame
<1>4. ASSUME NEW s \in Stream, handleMaxStreamDataFrame(s) PROVE StreamInv'
  BY <1>4, StreamWindowInv
<1>5. ASSUME NEW s \in Stream, Read(s) PROVE StreamInv'
  BY <1>5, ReadInv
<1>6. ASSUME NEW s \in Stream, Read_stops(s) PROVE StreamInv'
  BY <1>6, StopInv
<1>7. CASE handleMaxDataFrame
  BY <1>7, SessionWindowInv
<1>8. CASE sendPacket
  BY <1>8, AnnounceInv
<1>9. ASSUME NEW f \in net \cup late, handleStreamFrame(f) PROVE StreamInv'
  BY <1>9, ReceiveInv
<1>10. ASSUME NEW f \in net \cup late, MaybeSplitOffFrame(f) PROVE StreamInv'
  <2>1. f \in net
    BY <1>10 DEF MaybeSplitOffFrame
  <2> QED
    BY <1>10, <2>1, SplitInv
<1>11. CASE UNCHANGED vars
  BY <1>11, NothingInv DEF vars, outVars, inVars, grants
<1> QED
  BY <1>1, <1>2, <1>3, <1>4, <1>5, <1>6, <1>7, <1>8, <1>9, <1>10, <1>11 DEF Next

\* The invariant holds of every state.
LEMMA Inductive == Spec => []StreamInv
  BY InitInv, NextInv, PTL DEF Spec

\* A sender that keeps to its windows is never taken for one that does not, nor
\* its end for a wrong one, whatever arrives late, twice or in two pieces
\* (UpdateHighestReceived).
THEOREM NeverAnError == Spec => []NoSessionError
<1>1. StreamInv => NoSessionError
  BY DEF StreamInv
<1> QED
  BY <1>1, Inductive, PTL

\* A Read returns io.EOF only after the last byte, unless the frame with the end
\* came late, after it was sent in two pieces (Push of streamFrameSorter).
THEOREM EndOnlyAtTheEnd == Spec => []EofIsEnd
<1>1. StreamInv => EofIsEnd
  BY DEF StreamInv, EndInv, LateFin, EofIsEnd
<1> QED
  BY <1>1, Inductive, PTL

\* The credit between the endpoints: at each of the two levels, stream and session,
\* what has been sent is within the window the sender knows, and that within the
\* one the receiver keeps to (SendWindowSize, GetWindowUpdate), however many
\* MAX_DATA and MAX_STREAM_DATA frames are lost, late or out of order.
THEOREM CreditIsKept ==
  Spec => [](/\ Sent <= outWindow /\ outWindow <= inWindow
             /\ \A s \in Stream : /\ out[s].sent <= out[s].window
                                  /\ out[s].window <= in[s].window)
<1>1. StreamInv => /\ Sent <= outWindow /\ outWindow <= inWindow
                   /\ \A s \in Stream : /\ out[s].sent <= out[s].window
                                        /\ out[s].window <= in[s].window
  BY DEF StreamInv, SenderInv, WindowInv
<1> QED
  BY <1>1, Inductive, PTL

\* The rest of the types: the queues of streams hold streams, and no stream has
\* more written on it than is given to it.
RestType ==
  /\ active \subseteq Stream /\ updates \subseteq Stream /\ scheduled \in BOOLEAN
  /\ \A s \in Stream : out[s].written <= MaxBytes[s]

\* The types of the variables of QuicStream.
TypeOK == OutType /\ NetType /\ InType /\ GrantType /\ RestType /\ error = "none"

\* A Write is within the bytes there are to write.
LEMMA RestStep == StreamInv /\ RestType /\ [Next]_vars => RestType'
<1> SUFFICES ASSUME StreamInv, RestType, [Next]_vars PROVE RestType'
  OBVIOUS
<1>0. /\ OutType /\ NetType /\ \A s \in Stream : MaxBytes[s] \in Nat /\ out[s] \in OutRecord
      /\ \A f \in net \cup late : f.stream \in Stream
  BY QuicStreamAssumption DEF StreamInv, OutType, NetType, FrameRecord
<1>1. active' \subseteq Stream
  <2>1. ASSUME NEW s \in Stream, Write(s) \/ Close(s) \/ popStreamFrame(s)
               \/ handleMaxStreamDataFrame(s) \/ Read(s) \/ Read_stops(s)
        PROVE  active' \subseteq active \cup {s}
    BY <2>1, Zenon DEF Write, Close, popStreamFrame, popStreamFrame_data, popStreamFrame_blocked,
       popStreamFrame_fin, handleMaxStreamDataFrame, Read, Read_stops, outVars
  <2>2. CASE \/ handleMaxDataFrame \/ sendPacket \/ UNCHANGED vars
             \/ \E f \in net \cup late : handleStreamFrame(f) \/ MaybeSplitOffFrame(f)
    BY <2>2 DEF RestType, handleMaxDataFrame, sendPacket, handleStreamFrame,
       MaybeSplitOffFrame, vars, outVars
  <2> QED BY <2>1, <2>2 DEF Next, RestType
<1>2. updates' \subseteq Stream /\ scheduled' \in BOOLEAN
  <2>1. ASSUME NEW s \in Stream, Write(s) \/ Close(s) \/ popStreamFrame(s)
               \/ handleMaxStreamDataFrame(s) \/ Read(s) \/ Read_stops(s)
        PROVE  updates' \subseteq updates \cup {s} /\ (scheduled' = scheduled \/ scheduled' = TRUE)
    BY <2>1 DEF Write, Close, popStreamFrame, popStreamFrame_data, popStreamFrame_blocked,
       popStreamFrame_fin, handleMaxStreamDataFrame, Read, Read_stops, inVars
  <2>2. CASE \/ handleMaxDataFrame \/ sendPacket \/ UNCHANGED vars
             \/ \E f \in net \cup late : handleStreamFrame(f) \/ MaybeSplitOffFrame(f)
    BY <2>2 DEF RestType, handleMaxDataFrame, sendPacket, handleStreamFrame,
       MaybeSplitOffFrame, vars, inVars
  <2> QED BY <2>1, <2>2 DEF Next, RestType
<1>3. ASSUME NEW t \in Stream PROVE out'[t].written <= MaxBytes[t]
  <2>1. /\ out \in [Stream -> OutRecord] /\ out[t].written \in Nat
        /\ out[t].written <= MaxBytes[t] /\ MaxBytes[t] \in Nat
    BY <1>0 DEF OutType, OutRecord, RestType
  <2>2. ASSUME NEW s \in Stream, Write(s) PROVE out'[t].written <= MaxBytes[t]
    <3>1. PICK n \in 1..(MaxBytes[s] - out[s].written) :
            out' = [out EXCEPT ![s].written = @ + n, ![s].data = n]
      BY <2>2 DEF Write
    <3>2. out'[t].written = IF t = s THEN out[t].written + n ELSE out[t].written
      BY <1>0, <2>1, <3>1 DEF OutRecord
    <3> QED BY <2>1, <3>1, <3>2
  <2>3. CASE \E s \in Stream : Close(s)
    BY <1>0, <2>1, <2>3 DEF Close, OutRecord
  <2>4. CASE \E s \in Stream : popStreamFrame(s)
    <3>1. PICK s \in Stream : popStreamFrame(s)
      BY <2>4
    <3>2. CASE popStreamFrame_data(s)
      <4>1. \E x, y, z :
              out' = [out EXCEPT ![s].data = x, ![s].sent = y, ![s].finSent = z]
        BY <3>2, Zenon DEF popStreamFrame_data
      <4> QED BY <2>1, <4>1 DEF OutRecord
    <3>3. CASE popStreamFrame_blocked(s) \/ popStreamFrame_fin(s)
      <4>1. out' = out \/ out' = [out EXCEPT ![s].finSent = TRUE]
        BY <3>3 DEF popStreamFrame_blocked, popStreamFrame_fin
      <4> QED BY <2>1, <4>1 DEF OutRecord
    <3> QED BY <3>1, <3>2, <3>3 DEF popStreamFrame
  <2>5. CASE \E s \in Stream : handleMaxStreamDataFrame(s)
    <3>1. PICK s \in Stream : \E x : out' = [out EXCEPT ![s].window = x]
      BY <2>5, Zenon DEF handleMaxStreamDataFrame
    <3> QED BY <2>1, <3>1 DEF OutRecord
  <2>6. CASE \/ \E s \in Stream : Read(s) \/ Read_stops(s)
             \/ handleMaxDataFrame \/ sendPacket \/ UNCHANGED vars
             \/ \E f \in net \cup late : handleStreamFrame(f) \/ MaybeSplitOffFrame(f)
    <3>1. out' = out
      BY <2>6 DEF Read, Read_stops, handleMaxDataFrame, sendPacket, handleStreamFrame,
         MaybeSplitOffFrame, vars, outVars
    <3> QED BY <2>1, <3>1
  <2> QED BY <2>2, <2>3, <2>4, <2>5, <2>6 DEF Next
<1> QED BY <1>1, <1>2, <1>3 DEF RestType

\* All variables of QuicStream keep their types, whatever the network does.
THEOREM QuicTypeCorrect == Spec => []TypeOK
<1>1. Init => RestType
  <2> SUFFICES ASSUME Init PROVE RestType
    OBVIOUS
  <2>1. \A s \in Stream : out[s].written = 0 /\ MaxBytes[s] \in Nat
    BY QuicStreamAssumption DEF Init
  <2>2. \A s \in Stream : out[s].written <= MaxBytes[s]
    BY <2>1
  <2> QED BY <2>2 DEF Init, RestType
<1>2. StreamInv /\ RestType => TypeOK
  BY DEF StreamInv, NoSessionError, TypeOK
<1> QED
  BY <1>1, <1>2, RestStep, Inductive, PTL DEF Spec

\* Push takes nothing from what has been read.
LEMMA PushKeepsGot ==
  ASSUME NEW r, "got" \in DOMAIN r, NEW f, f.len \in Nat PROVE Push(r, f).got = r.got
<1>1. \A first, len, fin : Put(r, first, len, fin).got = r.got
  BY DEF Put
<1>2. CASE f.len = 0
  <2>1. Push(r, f) = Put(r, f.offset, 0, TRUE)
    BY <1>2, PushCases
  <2> QED
    BY <1>1, <2>1, Zenon
<1>3. CASE f.len > 0 /\ Missing(r, f) = {}
  <2>1. Push(r, f) = r
    BY <1>3, PushCases
  <2> QED
    BY <2>1
<1>4. CASE f.len > 0 /\ Missing(r, f) # {}
  <2>1. Push(r, f) = Put(r, Min(Missing(r, f)),
                         Max(Missing(r, f)) + 1 - Min(Missing(r, f)), f.fin)
    BY <1>4, PushCases
  <2> QED
    BY <1>1, <2>1, Zenon
<1> QED
  BY <1>2, <1>3, <1>4

\* A step that neither writes nor reads.
LEMMA PipesRest ==
  ASSUME StreamInv, NEW s \in Stream,
         \/ \E t \in Stream : \/ Close(t) \/ popStreamFrame(t) \/ handleMaxStreamDataFrame(t)
                              \/ Read_stops(t)
         \/ handleMaxDataFrame \/ sendPacket
         \/ \E f \in net \cup late : handleStreamFrame(f) \/ MaybeSplitOffFrame(f)
  PROVE  out'[s].written = out[s].written /\ in'[s].got = in[s].got
<1>1. out \in [Stream -> OutRecord] /\ in \in [Stream -> InRecord]
  BY DEF StreamInv, OutType, InType
<1>2. ASSUME NEW t \in Stream, Close(t) PROVE out'[s].written = out[s].written /\ in' = in
  BY <1>1, <1>2 DEF Close, inVars, OutRecord
<1>3. ASSUME NEW t \in Stream, popStreamFrame(t)
      PROVE  out'[s].written = out[s].written /\ in' = in
  <2>1. CASE popStreamFrame_data(t)
    <3>1. PICK n, fin : out' = [out EXCEPT ![t].data = @ - n, ![t].sent = @ + n, ![t].finSent = fin]
      BY <2>1 DEF popStreamFrame_data
    <3> QED
      BY <1>1, <2>1, <3>1 DEF popStreamFrame_data, inVars, OutRecord
  <2>2. CASE popStreamFrame_blocked(t)
    BY <2>2 DEF popStreamFrame_blocked, inVars
  <2>3. CASE popStreamFrame_fin(t)
    <3>1. out' = out \/ out' = [out EXCEPT ![t].finSent = TRUE]
      BY <2>3 DEF popStreamFrame_fin
    <3> QED
      BY <1>1, <2>3, <3>1 DEF popStreamFrame_fin, inVars, OutRecord
  <2> QED
    BY <1>3, <2>1, <2>2, <2>3 DEF popStreamFrame
<1>4. ASSUME NEW t \in Stream, handleMaxStreamDataFrame(t)
      PROVE  out'[s].written = out[s].written /\ in' = in
  BY <1>1, <1>4 DEF handleMaxStreamDataFrame, inVars, OutRecord
<1>5. ASSUME NEW t \in Stream, Read_stops(t)
      PROVE  out' = out /\ in'[s].got = in[s].got
  BY <1>1, <1>5 DEF Read_stops, outVars, InRecord
<1>6. ASSUME handleMaxDataFrame PROVE out' = out /\ in' = in
  BY <1>6 DEF handleMaxDataFrame, inVars
<1>7. ASSUME sendPacket PROVE out' = out /\ in'[s].got = in[s].got
  BY <1>1, <1>7 DEF sendPacket, outVars, InRecord
<1>8. ASSUME NEW f \in net \cup late, handleStreamFrame(f)
      PROVE  out' = out /\ in'[s].got = in[s].got
  <2> DEFINE t == f.stream
             highest == Max({in[t].highest, f.offset + f.len})
             r == [in[t] EXCEPT !.highest = highest, !.final = @ \/ f.fin]
  <2>1. out' = out /\ (in' = in \/ in' = [in EXCEPT ![t] = Push(r, f)])
    BY <1>8 DEF handleStreamFrame, outVars
  <2>2. t \in Stream /\ f.len \in Nat
    BY FrameFields DEF StreamInv
  <2>3. "got" \in DOMAIN r /\ r.got = in[t].got
    BY <1>1, <2>2 DEF InRecord
  <2> HIDE DEF r
  <2>4. Push(r, f).got = in[t].got
    BY <2>2, <2>3, PushKeepsGot
  <2> QED
    BY <1>1, <2>1, <2>2, <2>4
<1>9. ASSUME NEW f \in net \cup late, MaybeSplitOffFrame(f) PROVE out' = out /\ in' = in
  BY <1>9 DEF MaybeSplitOffFrame, outVars, inVars
<1> QED
  BY <1>2, <1>3, <1>4, <1>5, <1>6, <1>7, <1>8, <1>9

\* Every step of the streams is a step of their pipes.
LEMMA PipesNext ==
  ASSUME StreamInv, Next PROVE \A s \in Stream : Pipe(s)!Next
<1> SUFFICES ASSUME NEW s \in Stream PROVE Pipe(s)!Next
  OBVIOUS
<1>1. out \in [Stream -> OutRecord] /\ in \in [Stream -> InRecord]
  BY DEF StreamInv, OutType, InType
<1>2. ASSUME NEW t \in Stream, Write(t) PROVE Pipe(s)!Next
  <2>1. PICK n \in 1..(MaxBytes[t] - out[t].written) :
          out' = [out EXCEPT ![t].written = @ + n, ![t].data = n]
    BY <1>2 DEF Write
  <2>2. in' = in
    BY <1>2 DEF Write, inVars
  <2>3. CASE t = s
    <3>1. out[s].written \in Nat /\ MaxBytes[s] \in Nat
      BY QuicStreamAssumption, OutFields DEF StreamInv
    <3>2. out'[s].written > out[s].written
      BY <1>1, <2>1, <2>3, <3>1 DEF OutRecord
    <3> QED
      BY <2>2, <3>2 DEF Pipe!Next, Pipe!Put
  <2>4. CASE t # s
    BY <1>1, <2>1, <2>2, <2>4 DEF Pipe!Next
  <2> QED
    BY <2>3, <2>4
<1>3. ASSUME NEW t \in Stream, Read(t) PROVE Pipe(s)!Next
  <2>1. out' = out
    BY <1>3 DEF Read, outVars
  <2>2. PICK new \in InRecord : \E x \in Queued : ReadStep(t, new, x)
    BY <1>3, ReadGoesOn
  <2>3. PICK x \in Queued : ReadStep(t, new, x)
    BY <2>2
  <2>4. CASE t = s
    <3>1. /\ in'[s].got = Bytes(0, Len(in'[s].got)) /\ Len(in'[s].got) = ReadBytes(s) + x.len
          /\ Len(in'[s].got) <= out[s].sent
      BY <1>1, <2>3, <2>4 DEF ReadStep
    <3>2. in[s].got = Bytes(0, ReadBytes(s)) /\ ReadBytes(s) \in Nat /\ x.len \in Nat
      BY InFields DEF StreamInv, ReceiverInv, Queued
    <3>3. CASE x.len = 0
      <4>1. in'[s].got = in[s].got
        BY <3>1, <3>2, <3>3
      <4> QED
        BY <2>1, <4>1 DEF Pipe!Next
    <3>4. CASE x.len > 0
      <4>1. Len(in'[s].got) > Len(in[s].got)
        BY <3>1, <3>2, <3>4 DEF ReadBytes
      <4>2. Len(in'[s].got) <= out[s].written
        <5>1. /\ out[s].sent \in Nat /\ out[s].data \in Nat
              /\ out[s].written = out[s].sent + out[s].data
          BY OutFields DEF StreamInv, SenderInv
        <5> QED
          BY <3>1, <3>2, <5>1
      <4>3. in'[s].got = [i \in 1..Len(in'[s].got) |-> i]
        <5> DEFINE k == Len(in'[s].got)
        <5>1. k \in Nat
          BY <3>1, <3>2
        <5> HIDE DEF k
        <5>2. Bytes(0, k) = [i \in 1..k |-> i]
          BY <5>1 DEF Bytes
        <5> QED
          BY <3>1, <5>2 DEF k
      <4> QED
        BY <2>1, <4>1, <4>2, <4>3 DEF Pipe!Next, Pipe!Get
    <3> QED
      BY <3>2, <3>3, <3>4
  <2>5. CASE t # s
    <3>1. in'[s] = in[s]
      BY <1>1, <2>3, <2>5 DEF ReadStep
    <3> QED
      BY <2>1, <3>1 DEF Pipe!Next
  <2> QED
    BY <2>4, <2>5
<1>4. ASSUME out'[s].written = out[s].written /\ in'[s].got = in[s].got PROVE Pipe(s)!Next
  BY <1>4 DEF Pipe!Next
<1> QED
  BY <1>2, <1>3, <1>4, PipesRest DEF Next

\* What is read from a stream is what was written to it, in order and without a
\* gap, whatever the network does to the frames: each stream implements BytePipe.
THEOREM StreamsArePipes == Spec => StreamsSpec
<1>1. Init => \A s \in Stream : Pipe(s)!Init
  BY DEF Init, Pipe!Init
<1>2. StreamInv /\ [Next]_vars => [\A s \in Stream : Pipe(s)!Next]_<<out, in>>
  BY PipesNext DEF vars, outVars, inVars
<1> QED
  BY <1>1, <1>2, Inductive, PTL DEF Spec, StreamsSpec
=============================================================================

------------------------ MODULE PacketScheduler_proofs ------------------------
(***************************************************************************)
(* Proofs about PacketScheduler, for every number of packets, capacity and *)
(* set of flows: the type of its variables, that its drain loop never      *)
(* waits, that no packet is lost or duplicated, that it implements the     *)
(* lossless pool, and in what order packets may leave: a packet overtakes  *)
(* one of its flow, or one of higher priority, only in the cases named.    *)
(***************************************************************************)
EXTENDS PacketScheduler, SequenceTheorems, FiniteSetTheorems, TLAPS

(* What Append, Head/Tail and a rearrangement do to the ids of a sequence. *)

\* The empty channel and slice hold no packet.
LEMMA IdsOfEmpty == Ids(<<>>) = {} /\ NoIdTwice(<<>>)
BY DEF Ids, NoIdTwice

\* What a channel send does: the packet is added at the end and the rest stays.
LEMMA AppendFacts ==
  ASSUME NEW s \in Seq(Packet), NEW e \in Packet
  PROVE  /\ Append(s, e) \in Seq(Packet)
         /\ Len(Append(s, e)) = Len(s) + 1
         /\ \A i \in 1..Len(s) : Append(s, e)[i] = s[i]
         /\ Ids(Append(s, e)) = Ids(s) \cup {e.id}
         /\ NoIdTwice(s) /\ e.id \notin Ids(s) => NoIdTwice(Append(s, e))
<1> DEFINE t == Append(s, e)
<1>1. /\ t \in Seq(Packet)
      /\ Len(t) = Len(s) + 1
      /\ \A i \in 1..Len(s) : t[i] = s[i]
      /\ t[Len(s) + 1] = e
  BY AppendProperties
<1>2. DOMAIN s = 1..Len(s) /\ DOMAIN t = 1..Len(t) /\ Len(s) \in Nat
  BY <1>1, LenProperties
<1> HIDE DEF t
<1>3. Ids(t) = Ids(s) \cup {e.id}
  <2>1. \A i \in DOMAIN t : t[i].id \in Ids(s) \cup {e.id}
    <3> SUFFICES ASSUME NEW i \in DOMAIN t, i # Len(s) + 1
                 PROVE  t[i].id \in Ids(s)
      BY <1>1
    <3>1. i \in DOMAIN s /\ t[i] = s[i]
      BY <1>1, <1>2
    <3> QED BY <3>1 DEF Ids
  <2>2. \A i \in DOMAIN s : s[i].id \in Ids(t)
    <3> SUFFICES ASSUME NEW i \in DOMAIN s PROVE s[i].id \in Ids(t)
      OBVIOUS
    <3>1. i \in DOMAIN t /\ t[i] = s[i]
      BY <1>1, <1>2
    <3> QED BY <3>1 DEF Ids
  <2>3. e.id \in Ids(t)
    <3>1. Len(s) + 1 \in DOMAIN t
      BY <1>1, <1>2
    <3> QED BY <1>1, <3>1 DEF Ids
  <2> QED BY <2>1, <2>2, <2>3 DEF Ids
<1>4. NoIdTwice(s) /\ e.id \notin Ids(s) => NoIdTwice(t)
  BY <1>1, <1>2 DEF NoIdTwice, Ids
<1> QED BY <1>1, <1>3, <1>4 DEF t

\* What a channel receive does: the first packet goes and the rest moves up.
LEMMA TailFacts ==
  ASSUME NEW s \in Seq(Packet), Len(s) >= 1
  PROVE  /\ Head(s) \in Packet
         /\ Tail(s) \in Seq(Packet)
         /\ Len(Tail(s)) = Len(s) - 1
         /\ Len(s) = 1 => Tail(s) = <<>>
         /\ Ids(s) = Ids(Tail(s)) \cup {Head(s).id}
         /\ NoIdTwice(s) => NoIdTwice(Tail(s)) /\ Head(s).id \notin Ids(Tail(s))
<1> DEFINE t == Tail(s)
<1>1. s # <<>>
  BY EmptySeq
<1>2. /\ Head(s) \in Packet
      /\ t \in Seq(Packet)
      /\ Len(t) = Len(s) - 1
      /\ \A i \in 1..Len(t) : t[i] = s[i + 1]
  BY <1>1, HeadTailProperties
<1>3. DOMAIN s = 1..Len(s) /\ DOMAIN t = 1..Len(t) /\ Len(s) \in Nat
  BY <1>2, LenProperties
<1>4. Head(s) = s[1]
  BY <1>1
<1> HIDE DEF t
<1>5. Len(s) = 1 => t = <<>>
  BY <1>2, EmptySeq
<1>6. Ids(s) = Ids(t) \cup {Head(s).id}
  <2>1. Ids(t) \cup {Head(s).id} \subseteq Ids(s)
    <3>1. Head(s).id \in Ids(s)
      BY <1>3, <1>4 DEF Ids
    <3>2. ASSUME NEW i \in DOMAIN t PROVE t[i].id \in Ids(s)
      <4>1. i + 1 \in DOMAIN s /\ t[i] = s[i + 1]
        BY <1>2, <1>3
      <4> QED BY <4>1 DEF Ids
    <3> QED BY <3>1, <3>2 DEF Ids
  <2>2. \A i \in DOMAIN s : s[i].id \in Ids(t) \cup {Head(s).id}
    <3> SUFFICES ASSUME NEW i \in DOMAIN s, i # 1
                 PROVE  s[i].id \in Ids(t)
      BY <1>4
    <3>1. i - 1 \in DOMAIN t /\ t[i - 1] = s[i]
      BY <1>2, <1>3
    <3> QED BY <3>1 DEF Ids
  <2> QED BY <2>1, <2>2 DEF Ids
<1>7. NoIdTwice(s) => NoIdTwice(t) /\ Head(s).id \notin Ids(t)
  <2> SUFFICES ASSUME NoIdTwice(s)
               PROVE  NoIdTwice(t) /\ Head(s).id \notin Ids(t)
    OBVIOUS
  <2>1. \A i \in DOMAIN t : i \in Int /\ i + 1 \in DOMAIN s /\ i + 1 # 1 /\ t[i] = s[i + 1]
    BY <1>2, <1>3
  <2>2. \A i, j \in DOMAIN t : t[i].id = t[j].id => i + 1 = j + 1
    BY <2>1 DEF NoIdTwice
  <2>3. NoIdTwice(t)
    BY <2>1, <2>2 DEF NoIdTwice
  <2>4. 1 \in DOMAIN s
    BY <1>3
  <2>5. ASSUME NEW i \in DOMAIN t PROVE t[i].id # Head(s).id
    BY <1>4, <2>1, <2>4 DEF NoIdTwice
  <2> QED BY <2>3, <2>5 DEF Ids
<1> QED BY <1>2, <1>5, <1>6, <1>7 DEF t

\* What a sort does: the packets are the same, each once, in another order.
LEMMA RearrangedFacts ==
  ASSUME NEW s \in Seq(Packet), NEW pi \in Bijection(1..Len(s), 1..Len(s)),
         NEW t, t = [k \in 1..Len(s) |-> s[pi[k]]]
  PROVE  /\ t \in Seq(Packet)
         /\ Len(t) = Len(s)
         /\ Ids(t) = Ids(s)
         /\ NoIdTwice(s) => NoIdTwice(t)
<1>1. /\ pi \in [1..Len(s) -> 1..Len(s)]
      /\ \A i, j \in 1..Len(s) : pi[i] = pi[j] => i = j
      /\ \A j \in 1..Len(s) : \E i \in 1..Len(s) : pi[i] = j
  BY DEF Bijection, Injection, Surjection, IsInjective
<1>2. Len(s) \in Nat /\ DOMAIN s = 1..Len(s) /\ s \in [1..Len(s) -> Packet]
  BY LenProperties
<1>3. t \in [1..Len(s) -> Packet] /\ DOMAIN t = 1..Len(s)
  BY <1>1, <1>2
<1>4. t \in Seq(Packet)
  BY <1>2, <1>3, SeqDef
<1>5. Len(t) = Len(s)
  BY <1>2, <1>3, <1>4, LenProperties
<1>6. Ids(t) = Ids(s)
  BY <1>1, <1>2, <1>3 DEF Ids
<1>7. NoIdTwice(s) => NoIdTwice(t)
  BY <1>1, <1>2, <1>3 DEF NoIdTwice
<1> QED BY <1>4, <1>5, <1>6, <1>7

\* The ids of a sequence of packets are ids.
LEMMA IdsType ==
  ASSUME NEW s \in Seq(Packet)
  PROVE  Ids(s) \subseteq Id
<1>1. \A i \in DOMAIN s : s[i] \in Packet
  BY ElementOfSeq, LenProperties
<1> QED BY <1>1 DEF Ids, Packet
-----------------------------------------------------------------------------
(* The type of the variables.  Where SchedulePackets is says what it holds;
   with that, the types and the drain loop's never waiting are inductive. *)

PcInv ==
  /\ spc # "drain" => n = 0
  /\ spc = "pop" => workingSlice = <<>>
  /\ spc # "pop" => Len(workingSlice) >= 1
  /\ spc = "len" => Len(workingSlice) = 1

TypeInv == TypeOK /\ PcInv /\ DrainFindsPackets

\* The scheduler starts with the types right and no drain under way.
LEMMA InitTypeInv == Init => TypeInv
<1> SUFFICES ASSUME Init PROVE TypeInv
  OBVIOUS
<1>1. Len(<<>>) = 0 /\ <<>> \in Seq(Packet)
  BY EmptySeq
<1>2. atEnqueue \in [Id -> [flow : Flow, held : SUBSET Id, handed : Nat]]
  BY SchedAssumption DEF Init
<1> QED BY <1>1, <1>2, SchedAssumption DEF Init, TypeInv, TypeOK, PcInv, DrainFindsPackets

\* What SchedulePackets holds is made of packets.
LEMMA HeldType == TypeInv => Held \subseteq Id
<1> SUFFICES ASSUME TypeInv PROVE Held \subseteq Id
  OBVIOUS
<1>1. n \in Nat /\ n <= Len(toSendQueue)
  BY EmptySeq DEF TypeInv, TypeOK, PcInv, DrainFindsPackets
<1>2. {toSendQueue[i].id : i \in 1..n} \subseteq Id
  <2>1. \A i \in 1..Len(toSendQueue) : toSendQueue[i] \in Packet
    BY ElementOfSeq DEF TypeInv, TypeOK
  <2>2. Len(toSendQueue) \in Nat
    BY LenProperties DEF TypeInv, TypeOK
  <2>3. \A i \in 1..n : toSendQueue[i] \in Packet
    BY <1>1, <2>1, <2>2
  <2> QED BY <2>3 DEF Packet
<1>3. Ids(workingSlice) \subseteq Id
  BY IdsType DEF TypeInv, TypeOK
<1> QED BY <1>2, <1>3 DEF Held

\* What ListenTun enqueues is a packet.
LEMMA NewPacketType ==
  ASSUME TypeInv, NEW f \in Flow, ListenTun_enqueue(f)
  PROVE  [flow |-> f, id |-> enqueued + 1] \in Packet
BY SchedAssumption DEF TypeInv, TypeOK, ListenTun_enqueue, Packet, Id

\* An enqueue by ListenTun, at any point of the drain loop, keeps TypeInv.
LEMMA EnqueueTypeInv ==
  ASSUME TypeInv, NEW f \in Flow, ListenTun_enqueue(f)
  PROVE  TypeInv'
<1> DEFINE p == [flow |-> f, id |-> enqueued + 1]
<1>1. p \in Packet
  BY NewPacketType
<1>2. /\ toSendQueue' \in Seq(Packet)
      /\ Len(toSendQueue') = Len(toSendQueue) + 1
  BY <1>1, AppendFacts DEF ListenTun_enqueue, TypeInv, TypeOK
<1>3. enqueued' \in 0..MaxPackets
  BY SchedAssumption DEF TypeInv, TypeOK, ListenTun_enqueue
<1>4. atEnqueue' \in [Id -> [flow : Flow, held : SUBSET Id, handed : Nat]]
  <2>1. [flow |-> f, held |-> Held, handed |-> Len(handed)]
          \in [flow : Flow, held : SUBSET Id, handed : Nat]
    BY HeldType, LenProperties DEF TypeInv, TypeOK
  <2> QED BY <2>1 DEF TypeInv, TypeOK, ListenTun_enqueue
<1>5. TypeOK'
  <2>1. Len(toSendQueue') <= QueueCap
    BY <1>2, SchedAssumption, LenProperties DEF TypeInv, TypeOK, ListenTun_enqueue
  <2>2. /\ workingSlice' = workingSlice /\ n' = n /\ spc' = spc
        /\ handed' = handed
    BY DEF ListenTun_enqueue
  <2> QED BY <1>2, <1>3, <1>4, <2>1, <2>2 DEF TypeInv, TypeOK
<1>6. PcInv'
  BY DEF TypeInv, PcInv, ListenTun_enqueue
<1>7. DrainFindsPackets'
  BY <1>2 DEF DrainFindsPackets, ListenTun_enqueue, TypeInv, TypeOK
<1> QED BY <1>5, <1>6, <1>7 DEF TypeInv

\* Every step of SchedulePackets keeps TypeInv.
LEMMA SchedulerTypeInv ==
  ASSUME TypeInv, SchedulePackets
  PROVE  TypeInv'
<1> USE DEF TypeInv
<1>0. /\ toSendQueue # <<>> => Len(toSendQueue) >= 1
      /\ Len(toSendQueue) \in Nat
      /\ Len(workingSlice) \in Nat
      /\ n \in Nat
      /\ QueueCap \in Nat
  BY EmptySeq, LenProperties, SchedAssumption DEF TypeOK
<1>1. CASE SchedulePackets_pop
  <2>1. /\ Head(toSendQueue) \in Packet
        /\ toSendQueue' \in Seq(Packet)
        /\ Len(toSendQueue') = Len(toSendQueue) - 1
    BY <1>0, <1>1, TailFacts DEF SchedulePackets_pop, TypeOK
  <2>2. workingSlice' \in Seq(Packet) /\ Len(workingSlice') = 1
    BY <1>1, <2>1 DEF SchedulePackets_pop
  <2> QED BY <1>0, <1>1, <2>1, <2>2
          DEF SchedulePackets_pop, TypeOK, PcInv, DrainFindsPackets
<1>2. CASE SchedulePackets_alone
  BY <1>2 DEF SchedulePackets_alone, TypeOK, PcInv, DrainFindsPackets
<1>3. CASE SchedulePackets_len
  <2>1. TypeOK'
    <3>1. /\ n' = Len(toSendQueue) /\ spc' = "drain"
          /\ workingSlice' = workingSlice /\ Len(workingSlice) = 1
      BY <1>3 DEF SchedulePackets_len, PcInv
    <3>2. n' \in 0..QueueCap /\ Len(workingSlice') + n' <= QueueCap + 1
      BY <1>0, <3>1 DEF TypeOK
    <3> QED BY <1>3, <3>1, <3>2 DEF SchedulePackets_len, TypeOK
  <2>2. PcInv' /\ DrainFindsPackets'
    BY <1>0, <1>3 DEF SchedulePackets_len, PcInv, DrainFindsPackets
  <2> QED BY <2>1, <2>2
<1>4. CASE SchedulePackets_drain
  <2>1. /\ Head(toSendQueue) \in Packet
        /\ toSendQueue' \in Seq(Packet)
        /\ Len(toSendQueue') = Len(toSendQueue) - 1
    BY <1>0, <1>4, TailFacts DEF SchedulePackets_drain, TypeOK
  <2>2. /\ workingSlice' \in Seq(Packet)
        /\ Len(workingSlice') = Len(workingSlice) + 1
    BY <1>4, <2>1, AppendFacts DEF SchedulePackets_drain, TypeOK
  <2> QED BY <1>0, <1>4, <2>1, <2>2
          DEF SchedulePackets_drain, TypeOK, PcInv, DrainFindsPackets
<1>5. CASE SchedulePackets_sort
  <2>1. PICK pi \in Bijection(1..Len(workingSlice), 1..Len(workingSlice)) :
          workingSlice' = [k \in 1..Len(workingSlice) |-> workingSlice[pi[k]]]
    BY <1>5 DEF SchedulePackets_sort
  <2>2. workingSlice' \in Seq(Packet) /\ Len(workingSlice') = Len(workingSlice)
    <3>1. workingSlice \in Seq(Packet)
      BY DEF TypeOK
    <3> QED BY <2>1, <3>1, RearrangedFacts
  <2> QED BY <1>5, <2>2 DEF SchedulePackets_sort, TypeOK, PcInv, DrainFindsPackets
<1>6. CASE SchedulePackets_sent
  <2>1. /\ Head(workingSlice) \in Packet
        /\ workingSlice' \in Seq(Packet)
        /\ Len(workingSlice') = Len(workingSlice) - 1
        /\ Len(workingSlice) = 1 => workingSlice' = <<>>
    BY <1>6, TailFacts DEF SchedulePackets_sent, TypeOK, PcInv
  <2>2. handed' \in Seq(Packet)
    BY <1>6, <2>1, AppendFacts DEF SchedulePackets_sent, TypeOK
  <2>3. TypeOK'
    BY <1>0, <1>6, <2>1, <2>2 DEF SchedulePackets_sent, TypeOK
  <2>4. PcInv' /\ DrainFindsPackets'
    <3>1. spc' = IF Len(workingSlice) = 1 THEN "pop" ELSE "requeue"
      BY <1>6 DEF SchedulePackets_sent
    <3>2. n' = 0
      BY <1>6 DEF SchedulePackets_sent, PcInv
    <3>3. Len(workingSlice) >= 1
      BY <1>6 DEF SchedulePackets_sent, PcInv
    <3> QED BY <1>0, <2>1, <3>1, <3>2, <3>3 DEF PcInv, DrainFindsPackets
  <2> QED BY <2>3, <2>4
<1>7. CASE SchedulePackets_requeue
  <2>1. /\ Head(workingSlice) \in Packet
        /\ workingSlice' \in Seq(Packet)
        /\ Len(workingSlice') = Len(workingSlice) - 1
        /\ Len(workingSlice) = 1 => workingSlice' = <<>>
    BY <1>7, TailFacts DEF SchedulePackets_requeue, TypeOK, PcInv
  <2>2. /\ toSendQueue' \in Seq(Packet)
        /\ Len(toSendQueue') = Len(toSendQueue) + 1
    BY <1>7, <2>1, AppendFacts DEF SchedulePackets_requeue, TypeOK
  <2>3. TypeOK'
    BY <1>0, <1>7, <2>1, <2>2 DEF SchedulePackets_requeue, TypeOK
  <2>4. PcInv' /\ DrainFindsPackets'
    <3>1. spc' = IF Len(workingSlice) = 1 THEN "pop" ELSE "requeue"
      BY <1>7 DEF SchedulePackets_requeue
    <3>2. n' = 0
      BY <1>7 DEF SchedulePackets_requeue, PcInv
    <3>3. Len(workingSlice) >= 1
      BY <1>7 DEF SchedulePackets_requeue, PcInv
    <3> QED BY <1>0, <2>1, <3>1, <3>2, <3>3 DEF PcInv, DrainFindsPackets
  <2> QED BY <2>3, <2>4
<1> QED BY <1>1, <1>2, <1>3, <1>4, <1>5, <1>6, <1>7 DEF SchedulePackets

\* TypeInv is inductive.
LEMMA NextTypeInv == TypeInv /\ [Next]_schedVars => TypeInv'
<1> SUFFICES ASSUME TypeInv, [Next]_schedVars PROVE TypeInv'
  OBVIOUS
<1>1. CASE \E f \in Flow : ListenTun_enqueue(f)
  BY <1>1, EnqueueTypeInv
<1>2. CASE SchedulePackets
  BY <1>2, SchedulerTypeInv
<1>3. CASE UNCHANGED schedVars
  BY <1>3 DEF schedVars, TypeInv, TypeOK, PcInv, DrainFindsPackets
<1> QED BY <1>1, <1>2, <1>3 DEF Next

\* The variables have their types: in particular SchedulePackets never holds
\* more than the channel and one packet (the size of its workingSlice).
THEOREM TypeCorrect == Spec => []TypeOK
<1>1. TypeInv => TypeOK
  BY DEF TypeInv
<1> QED BY InitTypeInv, NextTypeInv, <1>1, PTL DEF Spec

\* The receive of the drain loop of SchedulePackets never waits, although
\* len() was read before and ListenTun goes on enqueueing.
THEOREM DrainNeverWaits == Spec => []DrainFindsPackets
<1>1. TypeInv => DrainFindsPackets
  BY DEF TypeInv
<1> QED BY InitTypeInv, NextTypeInv, <1>1, PTL DEF Spec
-----------------------------------------------------------------------------
(* Every packet is in one place, once. *)

OnceInv == TypeInv /\ EachPacketOnce

\* At the start no packet is anywhere.
LEMMA InitOnceInv == Init => OnceInv
<1> SUFFICES ASSUME Init PROVE EachPacketOnce
  BY InitTypeInv DEF OnceInv
<1>1. enqueued = 0 /\ 1..0 = {}
  BY DEF Init
<1> QED BY <1>1, IdsOfEmpty DEF Init, EachPacketOnce

\* The packet ListenTun enqueues is new, so it is in one place only.
LEMMA EnqueueOnceInv ==
  ASSUME OnceInv, NEW f \in Flow, ListenTun_enqueue(f)
  PROVE  EachPacketOnce'
<1> DEFINE p == [flow |-> f, id |-> enqueued + 1]
<1>1. p \in Packet /\ p.id = enqueued + 1
  BY NewPacketType DEF OnceInv
<1>2. enqueued \in Nat /\ enqueued' = enqueued + 1 /\ 1..enqueued' = (1..enqueued) \cup {p.id}
  BY <1>1, SchedAssumption DEF OnceInv, TypeInv, TypeOK, ListenTun_enqueue
<1>3. p.id \notin 1..enqueued
  BY <1>1, <1>2
<1>4. toSendQueue \in Seq(Packet) /\ toSendQueue' = Append(toSendQueue, p)
  BY DEF OnceInv, TypeInv, TypeOK, ListenTun_enqueue
<1>5. workingSlice' = workingSlice /\ handed' = handed
  BY DEF ListenTun_enqueue
<1>6. p.id \notin Ids(toSendQueue) \cup Ids(workingSlice) \cup Ids(handed)
  BY <1>3 DEF OnceInv, EachPacketOnce
<1> HIDE DEF p
<1>7. Ids(toSendQueue') = Ids(toSendQueue) \cup {p.id} /\ NoIdTwice(toSendQueue')
  BY <1>1, <1>4, <1>6, AppendFacts DEF OnceInv, EachPacketOnce
<1> QED BY <1>2, <1>5, <1>6, <1>7 DEF OnceInv, EachPacketOnce

\* One packet moves from the front of one sequence to the end of another.
LEMMA MoveFacts ==
  ASSUME NEW s \in Seq(Packet), Len(s) >= 1, NEW t \in Seq(Packet),
         NoIdTwice(s), NoIdTwice(t), Ids(s) \cap Ids(t) = {}
  PROVE  /\ NoIdTwice(Tail(s)) /\ NoIdTwice(Append(t, Head(s)))
         /\ Ids(Tail(s)) \cap Ids(Append(t, Head(s))) = {}
         /\ Ids(Tail(s)) \cup Ids(Append(t, Head(s))) = Ids(s) \cup Ids(t)
         /\ Ids(Tail(s)) \subseteq Ids(s)
         /\ Ids(Append(t, Head(s))) \subseteq Ids(s) \cup Ids(t)
<1>1. /\ Head(s) \in Packet
      /\ Ids(s) = Ids(Tail(s)) \cup {Head(s).id}
      /\ NoIdTwice(Tail(s)) /\ Head(s).id \notin Ids(Tail(s))
  BY TailFacts
<1>2. Head(s).id \notin Ids(t)
  BY <1>1
<1>3. /\ Ids(Append(t, Head(s))) = Ids(t) \cup {Head(s).id}
      /\ NoIdTwice(Append(t, Head(s)))
  BY <1>1, <1>2, AppendFacts
<1> QED BY <1>1, <1>2, <1>3

\* Every step of SchedulePackets moves one packet, or rearranges the slice.
LEMMA SchedulerOnceInv ==
  ASSUME OnceInv, SchedulePackets
  PROVE  EachPacketOnce'
<1>0. /\ toSendQueue \in Seq(Packet) /\ workingSlice \in Seq(Packet)
      /\ handed \in Seq(Packet)
      /\ toSendQueue # <<>> => Len(toSendQueue) >= 1
  BY EmptySeq DEF OnceInv, TypeInv, TypeOK
<1>1. CASE SchedulePackets_pop
  <2>1. workingSlice = <<>>
    BY <1>1 DEF SchedulePackets_pop, OnceInv, TypeInv, PcInv
  <2>2. workingSlice' = Append(workingSlice, Head(toSendQueue))
    BY <1>1, <2>1 DEF SchedulePackets_pop
  <2>3. /\ toSendQueue' = Tail(toSendQueue) /\ Len(toSendQueue) >= 1
        /\ handed' = handed /\ enqueued' = enqueued
    BY <1>0, <1>1 DEF SchedulePackets_pop
  <2> QED BY <1>0, <2>2, <2>3, MoveFacts DEF OnceInv, EachPacketOnce
<1>2. CASE SchedulePackets_alone
  BY <1>2 DEF SchedulePackets_alone, OnceInv, EachPacketOnce
<1>3. CASE SchedulePackets_len
  BY <1>3 DEF SchedulePackets_len, OnceInv, EachPacketOnce
<1>4. CASE SchedulePackets_drain
  <2>1. /\ toSendQueue' = Tail(toSendQueue) /\ Len(toSendQueue) >= 1
        /\ workingSlice' = Append(workingSlice, Head(toSendQueue))
        /\ handed' = handed /\ enqueued' = enqueued
    BY <1>0, <1>4 DEF SchedulePackets_drain
  <2> QED BY <1>0, <2>1, MoveFacts DEF OnceInv, EachPacketOnce
<1>5. CASE SchedulePackets_sort
  <2>1. PICK pi \in Bijection(1..Len(workingSlice), 1..Len(workingSlice)) :
          workingSlice' = [k \in 1..Len(workingSlice) |-> workingSlice[pi[k]]]
    BY <1>5 DEF SchedulePackets_sort
  <2>2. /\ Ids(workingSlice') = Ids(workingSlice)
        /\ NoIdTwice(workingSlice) => NoIdTwice(workingSlice')
    BY <1>0, <2>1, RearrangedFacts
  <2>3. toSendQueue' = toSendQueue /\ handed' = handed /\ enqueued' = enqueued
    BY <1>5 DEF SchedulePackets_sort
  <2> QED BY <2>2, <2>3 DEF OnceInv, EachPacketOnce
<1>6. CASE SchedulePackets_sent
  <2>1. Len(workingSlice) >= 1
    BY <1>6 DEF SchedulePackets_sent, OnceInv, TypeInv, PcInv
  <2>2. /\ workingSlice' = Tail(workingSlice)
        /\ handed' = Append(handed, Head(workingSlice))
        /\ toSendQueue' = toSendQueue /\ enqueued' = enqueued
    BY <1>6 DEF SchedulePackets_sent
  <2> QED BY <1>0, <2>1, <2>2, MoveFacts DEF OnceInv, EachPacketOnce
<1>7. CASE SchedulePackets_requeue
  <2>1. Len(workingSlice) >= 1
    BY <1>7 DEF SchedulePackets_requeue, OnceInv, TypeInv, PcInv
  <2>2. /\ workingSlice' = Tail(workingSlice)
        /\ toSendQueue' = Append(toSendQueue, Head(workingSlice))
        /\ handed' = handed /\ enqueued' = enqueued
    BY <1>7 DEF SchedulePackets_requeue
  <2> QED BY <1>0, <2>1, <2>2, MoveFacts DEF OnceInv, EachPacketOnce
<1> QED BY <1>1, <1>2, <1>3, <1>4, <1>5, <1>6, <1>7 DEF SchedulePackets

\* OnceInv is inductive.
LEMMA NextOnceInv == OnceInv /\ [Next]_schedVars => OnceInv'
<1> SUFFICES ASSUME OnceInv, [Next]_schedVars PROVE OnceInv'
  OBVIOUS
<1>1. TypeInv'
  BY NextTypeInv DEF OnceInv
<1>2. CASE \E f \in Flow : ListenTun_enqueue(f)
  BY <1>1, <1>2, EnqueueOnceInv DEF OnceInv
<1>3. CASE SchedulePackets
  BY <1>1, <1>3, SchedulerOnceInv DEF OnceInv
<1>4. CASE UNCHANGED schedVars
  BY <1>1, <1>4 DEF schedVars, OnceInv, EachPacketOnce
<1> QED BY <1>2, <1>3, <1>4 DEF Next

\* SchedulePackets neither loses nor duplicates a packet: every packet
\* ListenTun has enqueued is in the channel, in workingSlice or handed to
\* sendPacket, and in one of them only, once.
THEOREM NothingLostOrDuplicated == Spec => []EachPacketOnce
<1>1. OnceInv => EachPacketOnce
  BY DEF OnceInv
<1> QED BY InitOnceInv, NextOnceInv, <1>1, PTL DEF Spec
-----------------------------------------------------------------------------
(* SchedulePackets implements the lossless pool: enqueueing a packet puts it
   in, handing it to sendPacket takes it out, every other step stutters. *)

HandedIds(s) == [i \in DOMAIN s |-> s[i].id]

\* The ids handed out grow by the id of the packet handed.
LEMMA HandedIdsAppend ==
  ASSUME NEW s \in Seq(Packet), NEW e \in Packet
  PROVE  HandedIds(Append(s, e)) = Append(HandedIds(s), e.id)
<1> DEFINE h == HandedIds(s)
           t == Append(s, e)
<1>1. s \in [1..Len(s) -> Packet] /\ DOMAIN s = 1..Len(s) /\ Len(s) \in Nat
  BY LenProperties
<1>2. e.id \in Id /\ \A i \in 1..Len(s) : s[i].id \in Id
  BY <1>1 DEF Packet
<1>3. h \in [1..Len(s) -> Id] /\ \A i \in 1..Len(s) : h[i] = s[i].id
  BY <1>1, <1>2 DEF HandedIds
<1>4. h \in Seq(Id) /\ Len(h) = Len(s)
  <2>1. h \in Seq(Id)
    BY <1>1, <1>3, SeqDef
  <2> QED BY <1>1, <1>3, <2>1, LenProperties
<1>5. /\ t \in Seq(Packet) /\ Len(t) = Len(s) + 1 /\ DOMAIN t = 1..Len(s) + 1
      /\ \A i \in 1..Len(s) : t[i] = s[i]
      /\ t[Len(s) + 1] = e
  BY <1>1, AppendProperties, LenProperties
<1>6. /\ Append(h, e.id) \in Seq(Id) /\ Len(Append(h, e.id)) = Len(s) + 1
      /\ \A i \in 1..Len(s) : Append(h, e.id)[i] = h[i]
      /\ Append(h, e.id)[Len(s) + 1] = e.id
  BY <1>2, <1>4, AppendProperties
<1> HIDE DEF h, t
<1>7. /\ HandedIds(t) \in [1..Len(s) + 1 -> Id]
      /\ \A i \in 1..Len(s) + 1 : HandedIds(t)[i] = t[i].id
  <2>1. \A i \in 1..Len(s) + 1 : t[i].id \in Id
    BY <1>1, <1>2, <1>5
  <2> QED BY <1>5, <2>1 DEF HandedIds
<1>8. HandedIds(t) \in Seq(Id) /\ Len(HandedIds(t)) = Len(s) + 1
  <2>1. Len(s) + 1 \in Nat
    BY <1>1
  <2>2. HandedIds(t) \in Seq(Id)
    BY <1>7, <2>1, SeqDef
  <2> QED BY <1>7, <2>1, <2>2, LenProperties
<1>9. \A i \in 1..Len(s) + 1 : HandedIds(t)[i] = Append(h, e.id)[i]
  BY <1>1, <1>3, <1>5, <1>6, <1>7
<1> QED BY <1>6, <1>8, <1>9, SeqEqual DEF h, t

\* The initial queue is the empty pool.
LEMMA InitPool == Init => Pool!Init
BY IdsOfEmpty DEF Init, Pool!Init

\* The enqueue of ListenTun is the Put of the pool.
LEMMA EnqueuePool ==
  ASSUME OnceInv, OnceInv', NEW f \in Flow, ListenTun_enqueue(f)
  PROVE  Pool!Put(enqueued + 1)
<1> DEFINE p == [flow |-> f, id |-> enqueued + 1]
<1>1. p \in Packet
  BY NewPacketType DEF OnceInv
<1>2. toSendQueue \in Seq(Packet) /\ toSendQueue' = Append(toSendQueue, p)
  BY DEF OnceInv, TypeInv, TypeOK, ListenTun_enqueue
<1>3. workingSlice' = workingSlice /\ handed' = handed
  BY DEF ListenTun_enqueue
<1>4. Ids(toSendQueue') = Ids(toSendQueue) \cup {enqueued + 1}
  BY <1>1, <1>2, AppendFacts
<1>5. enqueued + 1 \notin 1..enqueued
  BY SchedAssumption DEF OnceInv, TypeInv, TypeOK
<1>6. enqueued + 1 \notin Ids(toSendQueue) \cup Ids(workingSlice) \cup Ids(handed)
  BY <1>5 DEF OnceInv, EachPacketOnce
<1>7. \A i \in DOMAIN handed : handed[i].id # enqueued + 1
  BY <1>6 DEF Ids
<1> QED BY <1>3, <1>4, <1>6, <1>7 DEF Pool!Put

\* The return of sendPacket is the Take of the pool.
LEMMA SentPool ==
  ASSUME OnceInv, SchedulePackets_sent, NEW id, id = Head(workingSlice).id
  PROVE  Pool!Take(id) /\ id \in Id
<1> DEFINE p == Head(workingSlice)
<1>1. /\ workingSlice \in Seq(Packet) /\ Len(workingSlice) >= 1
      /\ handed \in Seq(Packet)
  BY DEF SchedulePackets_sent, OnceInv, TypeInv, TypeOK, PcInv
<1>2. /\ p \in Packet
      /\ Ids(workingSlice) = Ids(Tail(workingSlice)) \cup {id}
      /\ id \notin Ids(Tail(workingSlice))
  BY <1>1, TailFacts DEF OnceInv, EachPacketOnce
<1>3. id \notin Ids(toSendQueue)
  BY <1>2 DEF OnceInv, EachPacketOnce
<1>4. /\ workingSlice' = Tail(workingSlice) /\ toSendQueue' = toSendQueue
      /\ handed' = Append(handed, p)
  BY DEF SchedulePackets_sent
<1>5. HandedIds(handed') = Append(HandedIds(handed), id)
  BY <1>1, <1>2, <1>4, HandedIdsAppend
<1>6. id \in Id
  BY <1>2 DEF Packet
<1> HIDE DEF p
<1>7. Pool!Take(id)
  BY <1>2, <1>3, <1>4, <1>5 DEF Pool!Take, HandedIds
<1> QED BY <1>6, <1>7

\* Every other step of SchedulePackets leaves the pool as it is: the packets only
\* move between the channel and the slice.
LEMMA StutterPool ==
  ASSUME OnceInv, SchedulePackets, ~SchedulePackets_sent
  PROVE  UNCHANGED Pool!poolVars
<1>0. /\ toSendQueue \in Seq(Packet) /\ workingSlice \in Seq(Packet)
      /\ toSendQueue # <<>> => Len(toSendQueue) >= 1
      /\ NoIdTwice(toSendQueue) /\ NoIdTwice(workingSlice)
      /\ Ids(toSendQueue) \cap Ids(workingSlice) = {}
  BY EmptySeq DEF OnceInv, TypeInv, TypeOK, EachPacketOnce
<1> SUFFICES /\ Ids(toSendQueue') \cup Ids(workingSlice') = Ids(toSendQueue) \cup Ids(workingSlice)
             /\ handed' = handed
  BY DEF Pool!poolVars
<1>1. CASE SchedulePackets_pop
  <2>1. workingSlice' = Append(workingSlice, Head(toSendQueue))
    BY <1>1 DEF SchedulePackets_pop, OnceInv, TypeInv, PcInv
  <2>2. toSendQueue' = Tail(toSendQueue) /\ Len(toSendQueue) >= 1 /\ handed' = handed
    BY <1>0, <1>1 DEF SchedulePackets_pop
  <2> QED BY <1>0, <2>1, <2>2, MoveFacts
<1>2. CASE SchedulePackets_alone
  BY <1>2 DEF SchedulePackets_alone
<1>3. CASE SchedulePackets_len
  BY <1>3 DEF SchedulePackets_len
<1>4. CASE SchedulePackets_drain
  <2>1. /\ toSendQueue' = Tail(toSendQueue) /\ Len(toSendQueue) >= 1
        /\ workingSlice' = Append(workingSlice, Head(toSendQueue))
        /\ handed' = handed
    BY <1>0, <1>4 DEF SchedulePackets_drain
  <2> QED BY <1>0, <2>1, MoveFacts
<1>5. CASE SchedulePackets_sort
  <2>1. PICK pi \in Bijection(1..Len(workingSlice), 1..Len(workingSlice)) :
          workingSlice' = [k \in 1..Len(workingSlice) |-> workingSlice[pi[k]]]
    BY <1>5 DEF SchedulePackets_sort
  <2>2. Ids(workingSlice') = Ids(workingSlice)
    BY <1>0, <2>1, RearrangedFacts
  <2> QED BY <1>5, <2>2 DEF SchedulePackets_sort
<1>6. CASE SchedulePackets_requeue
  <2>1. Len(workingSlice) >= 1
    BY <1>6 DEF SchedulePackets_requeue, OnceInv, TypeInv, PcInv
  <2>2. /\ workingSlice' = Tail(workingSlice)
        /\ toSendQueue' = Append(toSendQueue, Head(workingSlice))
        /\ handed' = handed
    BY <1>6 DEF SchedulePackets_requeue
  <2> QED BY <1>0, <2>1, <2>2, MoveFacts
<1> QED BY <1>1, <1>2, <1>3, <1>4, <1>5, <1>6 DEF SchedulePackets

\* Every step of the scheduler is a step of the pool or a stutter.
LEMMA NextPool ==
  OnceInv /\ OnceInv' /\ [Next]_schedVars => [Pool!LosslessNext]_(Pool!poolVars)
<1> SUFFICES ASSUME OnceInv, OnceInv', [Next]_schedVars
             PROVE  [Pool!LosslessNext]_(Pool!poolVars)
  OBVIOUS
<1>1. CASE \E f \in Flow : ListenTun_enqueue(f)
  <2>1. PICK f \in Flow : ListenTun_enqueue(f)
    BY <1>1
  <2>2. enqueued + 1 \in Id
    BY <2>1, SchedAssumption DEF ListenTun_enqueue, OnceInv, TypeInv, TypeOK, Id
  <2>3. Pool!Put(enqueued + 1)
    BY <2>1, EnqueuePool
  <2> QED BY <2>2, <2>3 DEF Pool!LosslessNext
<1>2. CASE SchedulePackets_sent
  <2>1. PICK id : id = Head(workingSlice).id
    OBVIOUS
  <2>2. id \in Id /\ Pool!Take(id)
    BY <1>2, <2>1, SentPool
  <2> QED BY <2>2 DEF Pool!LosslessNext
<1>3. CASE SchedulePackets /\ ~SchedulePackets_sent
  BY <1>3, StutterPool
<1>4. CASE UNCHANGED schedVars
  BY <1>4 DEF schedVars, Pool!poolVars
<1> QED BY <1>1, <1>2, <1>3, <1>4 DEF Next

\* The send path implements the lossless pool of packets: what goes in comes
\* out once at most and nothing else does, however the goroutines interleave.
THEOREM ImplementsPool == Spec => PoolSpec
BY InitOnceInv, NextOnceInv, InitPool, NextPool, PTL DEF Spec, PoolSpec, Pool!LosslessSpec
-----------------------------------------------------------------------------
(* The order in which packets of one flow leave.  at is a value of           *)
(* atEnqueue, m one of enqueued.                                             *)

\* Packet a may leave before packet b: it came first, or it came while b was
\* held.
Justified(a, b, at) == a.flow = b.flow /\ a.id > b.id => b.id \in at[a.id].held

InOrder(s, at) == \A i, j \in 1..Len(s) : i < j => Justified(s[i], s[j], at)

Before(s, t, at) == \A i \in 1..Len(s), j \in 1..Len(t) : Justified(s[i], t[j], at)

\* at knows the packets of s.
Labelled(s, at, m) ==
  \A i \in 1..Len(s) : s[i].id \in 1..m /\ at[s[i].id].flow = s[i].flow

\* No packet of s has a smaller endpoint than its first.
LeastFirst(s) == \A i \in 1..Len(s) : Key(s[1].flow) <= Key(s[i].flow)

\* What ListenTun has enqueued since len() will be held behind: q[1..k] is what
\* is left to drain, ws the slice.
LateOnesHold(q, k, ws, at) ==
  \A i \in k + 1..Len(q) :
    \A x \in Ids(ws) \cup {q[l].id : l \in 1..k} : x \in at[q[i].id].held

\* The packets leave in the order of workingSlice followed by the channel; once
\* one has been sent the channel goes first.
OrderParts ==
  /\ Labelled(toSendQueue, atEnqueue, enqueued)
  /\ Labelled(workingSlice, atEnqueue, enqueued)
  /\ Labelled(handed, atEnqueue, enqueued)
  /\ InOrder(toSendQueue, atEnqueue) /\ InOrder(workingSlice, atEnqueue)
  /\ spc = "requeue" => Before(toSendQueue, workingSlice, atEnqueue)
  /\ spc # "requeue" => Before(workingSlice, toSendQueue, atEnqueue)
  /\ spc \in {"drain", "sort", "send"} =>
       LateOnesHold(toSendQueue, n, workingSlice, atEnqueue)

OrderInv == OnceInv /\ OrderParts /\ OvertakenOnlyWhenHeld

\* The elements of a sequence without its first, and with one more.
LEMMA TailElements ==
  ASSUME NEW s \in Seq(Packet), Len(s) >= 1
  PROVE  /\ Tail(s) \in Seq(Packet) /\ Head(s) \in Packet /\ Head(s) = s[1]
         /\ Len(s) \in Nat /\ Len(Tail(s)) = Len(s) - 1
         /\ \A i \in 1..Len(Tail(s)) : i + 1 \in 1..Len(s) /\ Tail(s)[i] = s[i + 1]
<1>1. /\ Tail(s) \in Seq(Packet) /\ Head(s) \in Packet
      /\ Len(s) \in Nat /\ Len(Tail(s)) = Len(s) - 1
  BY TailFacts, LenProperties
<1>2. \A i \in 1..Len(s) - 1 : Tail(s)[i] = s[i + 1]
  BY EmptySeq, HeadTailProperties
<1>3. Head(s) = s[1]
  OBVIOUS
<1> QED BY <1>1, <1>2, <1>3

\* The elements of a queue with one packet more.
LEMMA AppendElements ==
  ASSUME NEW s \in Seq(Packet), NEW e \in Packet
  PROVE  /\ Append(s, e) \in Seq(Packet) /\ Len(s) \in Nat
         /\ Len(Append(s, e)) = Len(s) + 1
         /\ \A i \in 1..Len(Append(s, e)) :
              \/ i \in 1..Len(s) /\ Append(s, e)[i] = s[i]
              \/ i = Len(s) + 1 /\ Append(s, e)[i] = e
<1>1. /\ Append(s, e) \in Seq(Packet) /\ Len(s) \in Nat
      /\ Len(Append(s, e)) = Len(s) + 1
      /\ \A i \in 1..Len(s) : Append(s, e)[i] = s[i]
      /\ Append(s, e)[Len(s) + 1] = e
  BY AppendProperties, LenProperties
<1> QED BY <1>1

\* Without its first packet a sequence is in order as it was.
LEMMA TailOrder ==
  ASSUME NEW s \in Seq(Packet), Len(s) >= 1, NEW at, NEW m,
         InOrder(s, at), Labelled(s, at, m)
  PROVE  InOrder(Tail(s), at) /\ Labelled(Tail(s), at, m)
<1>1. PICK u \in Seq(Packet) : u = Tail(s)
  BY TailElements
<1>2. \A i \in 1..Len(u) : i + 1 \in 1..Len(s) /\ u[i] = s[i + 1]
  BY <1>1, TailElements
<1>3. \A i, j \in 1..Len(u) : i < j => i + 1 < j + 1
  OBVIOUS
<1>4. InOrder(u, at) /\ Labelled(u, at, m)
  BY <1>2, <1>3 DEF InOrder, Labelled
<1> QED BY <1>1, <1>4

\* A packet moved from the front of what leaves later to the end of what leaves
\* first keeps its place.
LEMMA MoveOrder ==
  ASSUME NEW s \in Seq(Packet), Len(s) >= 1, NEW t \in Seq(Packet), NEW at, NEW m,
         InOrder(s, at), InOrder(t, at), Before(t, s, at),
         Labelled(s, at, m), Labelled(t, at, m)
  PROVE  /\ InOrder(Tail(s), at) /\ InOrder(Append(t, Head(s)), at)
         /\ Before(Append(t, Head(s)), Tail(s), at)
         /\ Labelled(Tail(s), at, m) /\ Labelled(Append(t, Head(s)), at, m)
<1>1. PICK h \in Packet, u \in Seq(Packet), v \in Seq(Packet) :
        h = Head(s) /\ u = Tail(s) /\ v = Append(t, Head(s))
  BY TailElements, AppendElements
<1>2. /\ h = s[1] /\ Len(s) \in Nat /\ Len(u) = Len(s) - 1
      /\ \A i \in 1..Len(u) : i + 1 \in 1..Len(s) /\ u[i] = s[i + 1]
  BY <1>1, TailElements
<1>3. /\ Len(t) \in Nat /\ Len(v) = Len(t) + 1
      /\ \A i \in 1..Len(v) : \/ i \in 1..Len(t) /\ v[i] = t[i]
                              \/ i = Len(t) + 1 /\ v[i] = h
  BY <1>1, AppendElements
<1>4. PICK one \in 1..Len(s) : one = 1
  BY <1>2
<1>5. h = s[one] /\ \A i \in 1..Len(u) : one < i + 1
  BY <1>2, <1>4
<1>6. InOrder(u, at) /\ Labelled(u, at, m)
  BY <1>1, TailOrder
<1>7. InOrder(v, at) /\ Labelled(v, at, m)
  <2>1. Labelled(v, at, m)
    BY <1>3, <1>5 DEF Labelled
  <2>2. ASSUME NEW i \in 1..Len(v), NEW j \in 1..Len(v), i < j
        PROVE  Justified(v[i], v[j], at)
    <3>1. i \in 1..Len(t) /\ v[i] = t[i]
      BY <1>3, <2>2
    <3> QED BY <1>3, <1>5, <2>2, <3>1 DEF InOrder, Before
  <2> QED BY <2>1, <2>2 DEF InOrder
<1>8. Before(v, u, at)
  <2>1. ASSUME NEW i \in 1..Len(v), NEW j \in 1..Len(u)
        PROVE  Justified(v[i], u[j], at)
    <3>1. j + 1 \in 1..Len(s) /\ u[j] = s[j + 1] /\ one < j + 1
      BY <1>2, <1>5
    <3>2. CASE i \in 1..Len(t) /\ v[i] = t[i]
      BY <3>1, <3>2 DEF Before
    <3>3. CASE v[i] = h
      BY <1>5, <3>1, <3>3 DEF InOrder
    <3> QED BY <1>3, <3>2, <3>3
  <2> QED BY <2>1 DEF Before
<1> QED BY <1>1, <1>6, <1>7, <1>8

\* The stable sort keeps the packets of one flow in their order, and puts one
\* with the smallest endpoint first.
LEMMA SortOrder ==
  ASSUME NEW s \in Seq(Packet), NEW pi \in Bijection(1..Len(s), 1..Len(s)),
         IsStableSort(s, pi), NEW t, t = [k \in 1..Len(s) |-> s[pi[k]]],
         NEW at, NEW m, NEW q, InOrder(s, at), Before(s, q, at), Labelled(s, at, m)
  PROVE  /\ InOrder(t, at) /\ Before(t, q, at) /\ Labelled(t, at, m) /\ LeastFirst(t)
<1>1. /\ pi \in [1..Len(s) -> 1..Len(s)]
      /\ t \in Seq(Packet) /\ Len(t) = Len(s) /\ Len(s) \in Nat
  BY RearrangedFacts, LenProperties DEF Bijection, Injection
<1>2. \A i \in 1..Len(s) : pi[i] \in 1..Len(s) /\ t[i] = s[pi[i]] /\ s[pi[i]] \in Packet
  <2>1. \A i \in 1..Len(s) : s[i] \in Packet
    BY LenProperties
  <2> QED BY <1>1, <2>1
<1>3. \A f \in Flow : Key(f) \in Nat
  BY SchedAssumption DEF Key
<1>4. \A i, j \in 1..Len(s) : i < j => Key(t[i].flow) <= Key(t[j].flow)
  <2> SUFFICES ASSUME NEW i \in 1..Len(s), NEW j \in 1..Len(s), i < j
               PROVE  Key(t[i].flow) <= Key(t[j].flow)
    OBVIOUS
  <2>1. t[i].flow \in Flow /\ t[j].flow \in Flow
    BY <1>2 DEF Packet
  <2>2. PICK a \in Nat, b \in Nat : a = Key(t[i].flow) /\ b = Key(t[j].flow)
    BY <1>3, <2>1
  <2>3. a < b \/ a = b
    BY <1>2, <2>2 DEF IsStableSort
  <2> QED BY <2>2, <2>3
<1>5. InOrder(t, at)
  <2>1. ASSUME NEW i \in 1..Len(s), NEW j \in 1..Len(s), i < j, t[i].flow = t[j].flow
        PROVE  pi[i] < pi[j]
    <3>1. Key(t[i].flow) = Key(t[j].flow) /\ Key(t[i].flow) \in Nat
      BY <1>2, <1>3, <2>1 DEF Packet
    <3> QED BY <1>2, <2>1, <3>1 DEF IsStableSort
  <2> QED BY <1>1, <1>2, <2>1 DEF InOrder, Justified
<1>6. Before(t, q, at) /\ Labelled(t, at, m)
  BY <1>1, <1>2 DEF Before, Labelled
<1>7. LeastFirst(t)
  <2> SUFFICES ASSUME NEW i \in 1..Len(s) PROVE Key(t[1].flow) <= Key(t[i].flow)
    BY <1>1 DEF LeastFirst
  <2>1. PICK one \in 1..Len(s) : one = 1
    BY <1>1
  <2>2. Key(t[i].flow) \in Nat
    BY <1>2, <1>3 DEF Packet
  <2>3. CASE i = one
    BY <2>1, <2>2, <2>3
  <2>4. CASE i # one
    BY <1>4, <2>1, <2>4
  <2> QED BY <2>3, <2>4
<1> QED BY <1>5, <1>6, <1>7

\* A new packet goes behind all others, and leaves them where they are.
LEMMA NewPacketOrder ==
  ASSUME NEW m \in Nat, NEW at, NEW at1, \A x \in 1..m : at1[x] = at[x],
         NEW e \in Packet, e.id = m + 1, at1[e.id].flow = e.flow,
         NEW q \in Seq(Packet), InOrder(q, at), Labelled(q, at, m)
  PROVE  /\ InOrder(Append(q, e), at1) /\ Labelled(Append(q, e), at1, m + 1)
         /\ \A t \in Seq(Packet) :
              Before(t, q, at) /\ Labelled(t, at, m) => Before(t, Append(q, e), at1)
         /\ \A t \in Seq(Packet) :
              /\ Before(q, t, at) /\ Labelled(t, at, m) /\ Ids(t) \subseteq at1[e.id].held
              => Before(Append(q, e), t, at1)
<1>1. PICK v \in Seq(Packet) : v = Append(q, e)
  BY AppendElements
<1>2. /\ Len(q) \in Nat /\ Len(v) = Len(q) + 1
      /\ \A i \in 1..Len(v) : \/ i \in 1..Len(q) /\ v[i] = q[i]
                              \/ i = Len(q) + 1 /\ v[i] = e
  BY <1>1, AppendElements
<1>3. \A s \in Seq(Packet) : Labelled(s, at, m) =>
        \A i \in 1..Len(s) : s[i].id \in 1..m /\ s[i].id < e.id /\ ~(s[i].id > e.id)
                             /\ at1[s[i].id] = at[s[i].id]
  BY DEF Labelled
<1>4. Labelled(v, at1, m + 1)
  <2> SUFFICES ASSUME NEW i \in 1..Len(v)
               PROVE  v[i].id \in 1..m + 1 /\ at1[v[i].id].flow = v[i].flow
    BY DEF Labelled
  <2>1. CASE i \in 1..Len(q) /\ v[i] = q[i]
    <3>1. q[i].id \in 1..m /\ at1[q[i].id] = at[q[i].id] /\ at[q[i].id].flow = q[i].flow
      BY <1>3, <2>1 DEF Labelled
    <3> QED BY <2>1, <3>1
  <2>2. CASE v[i] = e
    BY <2>2
  <2> QED BY <1>2, <2>1, <2>2
<1>5. InOrder(v, at1)
  <2> SUFFICES ASSUME NEW i \in 1..Len(v), NEW j \in 1..Len(v), i < j
               PROVE  Justified(v[i], v[j], at1)
    BY DEF InOrder
  <2>1. i \in 1..Len(q) /\ v[i] = q[i]
    BY <1>2
  <2>2. CASE j \in 1..Len(q) /\ v[j] = q[j]
    BY <1>3, <2>1, <2>2 DEF InOrder, Justified
  <2>3. CASE v[j] = e
    BY <1>3, <2>1, <2>3 DEF Justified
  <2> QED BY <1>2, <2>2, <2>3
<1>6. ASSUME NEW t \in Seq(Packet), Before(t, q, at), Labelled(t, at, m)
      PROVE  Before(t, v, at1)
  <2> SUFFICES ASSUME NEW i \in 1..Len(t), NEW j \in 1..Len(v)
               PROVE  Justified(t[i], v[j], at1)
    BY DEF Before
  <2>1. CASE j \in 1..Len(q) /\ v[j] = q[j]
    BY <1>3, <1>6, <2>1 DEF Before, Justified
  <2>2. CASE v[j] = e
    BY <1>3, <1>6, <2>2 DEF Justified
  <2> QED BY <1>2, <2>1, <2>2
<1>7. ASSUME NEW t \in Seq(Packet), Before(q, t, at), Labelled(t, at, m),
             Ids(t) \subseteq at1[e.id].held
      PROVE  Before(v, t, at1)
  <2> SUFFICES ASSUME NEW i \in 1..Len(v), NEW j \in 1..Len(t)
               PROVE  Justified(v[i], t[j], at1)
    BY DEF Before
  <2>1. CASE i \in 1..Len(q) /\ v[i] = q[i]
    BY <1>3, <1>7, <2>1 DEF Before, Justified
  <2>2. CASE v[i] = e
    <3>1. t[j].id \in Ids(t)
      BY LenProperties DEF Ids
    <3> QED BY <1>7, <2>2, <3>1 DEF Justified
  <2> QED BY <1>2, <2>1, <2>2
<1> QED BY <1>1, <1>4, <1>5, <1>6, <1>7

\* OrderParts when nothing has been enqueued yet.
LEMMA InitOrderInv == Init => OrderInv
<1> SUFFICES ASSUME Init PROVE OrderInv
  OBVIOUS
<1>1. OnceInv
  BY InitOnceInv
<1>2. Len(<<>>) = 0 /\ 1..0 = {} /\ DOMAIN <<>> = {}
  BY EmptySeq
<1>3. OrderParts
  BY <1>2 DEF Init, OrderParts, Labelled, InOrder, Before
<1>4. OvertakenOnlyWhenHeld
  BY <1>2 DEF Init, OvertakenOnlyWhenHeld
<1> QED BY <1>1, <1>3, <1>4 DEF OrderInv

\* An enqueue records what is held and how many packets have left, and changes no
\* earlier record.
LEMMA EnqueueHistory ==
  ASSUME OnceInv, NEW f \in Flow, ListenTun_enqueue(f)
  PROVE  /\ \A x \in 1..enqueued : atEnqueue'[x] = atEnqueue[x]
         /\ atEnqueue'[enqueued + 1] = [flow |-> f, held |-> Held, handed |-> Len(handed)]
<1>1. PICK id \in Id : id = enqueued + 1
  BY SchedAssumption DEF ListenTun_enqueue, OnceInv, TypeInv, TypeOK, Id
<1>2. PICK r : r = [flow |-> f, held |-> Held, handed |-> Len(handed)]
  OBVIOUS
<1>3. atEnqueue \in [Id -> [flow : Flow, held : SUBSET Id, handed : Nat]]
  BY DEF OnceInv, TypeInv, TypeOK
<1>4. atEnqueue' = [atEnqueue EXCEPT ![id] = r]
  BY <1>1, <1>2 DEF ListenTun_enqueue
<1>5. \A x \in 1..enqueued : x # id
  BY <1>1, SchedAssumption DEF OnceInv, TypeInv, TypeOK
<1> QED BY <1>1, <1>2, <1>3, <1>4, <1>5

\* The enqueue of ListenTun: what is held stays in front or will be held behind.
LEMMA EnqueueOrder ==
  ASSUME OrderInv, NEW f \in Flow, ListenTun_enqueue(f)
  PROVE  OrderParts' /\ OvertakenOnlyWhenHeld'
<1>1. PICK e \in Packet : e = [flow |-> f, id |-> enqueued + 1]
  BY NewPacketType DEF OrderInv, OnceInv
<1>2. /\ e.id = enqueued + 1 /\ e.flow = f
      /\ toSendQueue \in Seq(Packet) /\ workingSlice \in Seq(Packet)
      /\ handed \in Seq(Packet) /\ enqueued \in Nat /\ n \in Nat
      /\ n <= Len(toSendQueue)
      /\ enqueued' = enqueued + 1 /\ toSendQueue' = Append(toSendQueue, e)
      /\ workingSlice' = workingSlice /\ handed' = handed /\ n' = n /\ spc' = spc
      /\ spc # "drain" => n = 0
  BY <1>1, LenProperties, SchedAssumption
  DEF OrderInv, OnceInv, TypeInv, TypeOK, PcInv, DrainFindsPackets, ListenTun_enqueue
<1>3. PICK at1 : at1 = atEnqueue'
  OBVIOUS
<1>4. /\ \A x \in 1..enqueued : at1[x] = atEnqueue[x]
      /\ at1[e.id].flow = e.flow /\ at1[e.id].held = Held
  <2>1. /\ \A x \in 1..enqueued : atEnqueue'[x] = atEnqueue[x]
        /\ atEnqueue'[enqueued + 1] = [flow |-> f, held |-> Held, handed |-> Len(handed)]
    BY EnqueueHistory DEF OrderInv
  <2>2. at1[e.id] = [flow |-> f, held |-> Held, handed |-> Len(handed)]
    BY <1>2, <1>3, <2>1
  <2> QED BY <1>2, <1>3, <2>1, <2>2
<1>5. /\ Labelled(toSendQueue, atEnqueue, enqueued)
      /\ Labelled(workingSlice, atEnqueue, enqueued)
      /\ Labelled(handed, atEnqueue, enqueued)
      /\ InOrder(toSendQueue, atEnqueue) /\ InOrder(workingSlice, atEnqueue)
  BY DEF OrderInv, OrderParts
<1>6. \A s \in Seq(Packet) : Labelled(s, atEnqueue, enqueued) =>
        /\ \A i \in 1..Len(s) : /\ s[i].id \in 1..enqueued
                                /\ at1[s[i].id] = atEnqueue[s[i].id]
        /\ Labelled(s, at1, enqueued + 1)
  <2> SUFFICES ASSUME NEW s \in Seq(Packet), Labelled(s, atEnqueue, enqueued),
                      NEW i \in 1..Len(s)
               PROVE  /\ s[i].id \in 1..enqueued /\ at1[s[i].id] = atEnqueue[s[i].id]
                      /\ s[i].id \in 1..enqueued + 1 /\ at1[s[i].id].flow = s[i].flow
    BY DEF Labelled
  <2>1. s[i].id \in 1..enqueued /\ atEnqueue[s[i].id].flow = s[i].flow
    BY DEF Labelled
  <2> QED BY <1>2, <1>4, <2>1
<1>7. /\ InOrder(Append(toSendQueue, e), at1)
      /\ Labelled(Append(toSendQueue, e), at1, enqueued + 1)
      /\ \A t \in Seq(Packet) :
           Before(t, toSendQueue, atEnqueue) /\ Labelled(t, atEnqueue, enqueued) =>
             Before(t, Append(toSendQueue, e), at1)
      /\ \A t \in Seq(Packet) :
           /\ Before(toSendQueue, t, atEnqueue) /\ Labelled(t, atEnqueue, enqueued)
           /\ Ids(t) \subseteq at1[e.id].held
           => Before(Append(toSendQueue, e), t, at1)
  BY <1>2, <1>4, <1>5, NewPacketOrder
<1>8. InOrder(workingSlice, at1)
  BY <1>2, <1>5, <1>6 DEF InOrder, Justified
<1>9. spc # "requeue" => Before(workingSlice, Append(toSendQueue, e), at1)
  BY <1>2, <1>5, <1>7 DEF OrderInv, OrderParts
<1>10. spc = "requeue" => Before(Append(toSendQueue, e), workingSlice, at1)
  <2>1. spc = "requeue" => Ids(workingSlice) \subseteq at1[e.id].held
    BY <1>4 DEF Held
  <2> QED BY <1>2, <1>5, <1>7, <2>1 DEF OrderInv, OrderParts
<1>11. ASSUME spc \in {"drain", "sort", "send"}
       PROVE  LateOnesHold(Append(toSendQueue, e), n, workingSlice, at1)
  <2>1. PICK v \in Seq(Packet) : v = Append(toSendQueue, e)
    BY <1>2, AppendElements
  <2>2. /\ Len(toSendQueue) \in Nat /\ Len(v) = Len(toSendQueue) + 1
        /\ \A i \in 1..Len(toSendQueue) : v[i] = toSendQueue[i]
        /\ \A i \in 1..Len(v) : \/ i \in 1..Len(toSendQueue) /\ v[i] = toSendQueue[i]
                                \/ i = Len(toSendQueue) + 1 /\ v[i] = e
    BY <1>2, <2>1, AppendElements, AppendFacts
  <2>3. \A l \in 1..n : v[l] = toSendQueue[l]
    BY <1>2, <2>2
  <2>4. {v[l].id : l \in 1..n} = {toSendQueue[l].id : l \in 1..n}
    BY <2>3
  <2>5. Held = Ids(workingSlice) \cup {toSendQueue[l].id : l \in 1..n}
    BY <1>11 DEF Held
  <2>6. LateOnesHold(toSendQueue, n, workingSlice, atEnqueue)
    BY <1>11 DEF OrderInv, OrderParts
  <2> SUFFICES ASSUME NEW i \in n + 1..Len(v), NEW x \in Held
               PROVE  x \in at1[v[i].id].held
    BY <2>1, <2>4, <2>5 DEF LateOnesHold
  <2>7. CASE i \in n + 1..Len(toSendQueue)
    <3>1. i \in 1..Len(toSendQueue)
      BY <1>2, <2>7
    <3>2. v[i] = toSendQueue[i] /\ at1[v[i].id] = atEnqueue[toSendQueue[i].id]
      BY <1>2, <1>5, <1>6, <2>2, <3>1
    <3> QED BY <2>5, <2>6, <2>7, <3>2 DEF LateOnesHold
  <2>8. CASE i = Len(toSendQueue) + 1
    <3>1. v[i] = e
      BY <1>2, <2>2, <2>8
    <3> QED BY <1>4, <3>1
  <2> QED BY <1>2, <2>2, <2>7, <2>8
<1>12. OrderParts'
  BY <1>2, <1>3, <1>5, <1>6, <1>7, <1>8, <1>9, <1>10, <1>11 DEF OrderParts
<1>13. OvertakenOnlyWhenHeld'
  <2>1. DOMAIN handed = 1..Len(handed)
    BY <1>2, LenProperties
  <2> SUFFICES ASSUME NEW j \in DOMAIN handed, NEW p \in 1..(handed[j].id - 1),
                      at1[p].flow = handed[j].flow,
                      p \notin {handed[i].id : i \in 1..j}
               PROVE  p \in at1[handed[j].id].held
    BY <1>2, <1>3 DEF OvertakenOnlyWhenHeld
  <2>2. handed[j].id \in 1..enqueued /\ at1[handed[j].id] = atEnqueue[handed[j].id]
    BY <1>2, <1>5, <1>6, <2>1
  <2>3. p \in 1..enqueued
    BY <1>2, <2>2
  <2> QED BY <1>4, <2>2, <2>3 DEF OrderInv, OvertakenOnlyWhenHeld
<1> QED BY <1>12, <1>13

\* One receive of the drain loop: the packets that came after len() are still
\* behind all that is held or left to drain.
LEMMA DrainLate ==
  ASSUME NEW q \in Seq(Packet), Len(q) >= 1, NEW ws \in Seq(Packet),
         NEW k \in Nat, k >= 1, k <= Len(q), NEW at, LateOnesHold(q, k, ws, at)
  PROVE  LateOnesHold(Tail(q), k - 1, Append(ws, Head(q)), at)
<1>1. PICK h \in Packet, u \in Seq(Packet), v \in Seq(Packet) :
        h = Head(q) /\ u = Tail(q) /\ v = Append(ws, Head(q))
  BY TailElements, AppendElements
<1>2. /\ h = q[1] /\ Len(q) \in Nat /\ Len(u) = Len(q) - 1
      /\ \A i \in 1..Len(u) : u[i] = q[i + 1]
  BY <1>1, TailElements
<1>3. Ids(v) = Ids(ws) \cup {h.id}
  BY <1>1, AppendFacts
<1>4. PICK one \in 1..k : one = 1
  OBVIOUS
<1>5. ASSUME NEW i \in (k - 1) + 1..Len(u), NEW x \in Ids(v) \cup {u[l].id : l \in 1..k - 1}
      PROVE  x \in at[u[i].id].held
  <2>1. i + 1 \in k + 1..Len(q) /\ u[i] = q[i + 1]
    BY <1>2
  <2>2. x \in Ids(ws) \cup {q[l].id : l \in 1..k}
    <3>1. CASE x \in Ids(ws)
      BY <3>1
    <3>2. CASE x = h.id
      <4>1. x = q[one].id
        BY <1>2, <1>4, <3>2
      <4> QED BY <4>1
    <3>3. CASE x \in {u[l].id : l \in 1..k - 1}
      <4>1. PICK l \in 1..k - 1 : x = u[l].id
        BY <3>3
      <4>2. l + 1 \in 1..k /\ u[l] = q[l + 1]
        BY <1>2
      <4> QED BY <4>1, <4>2
    <3> QED BY <1>3, <3>1, <3>2, <3>3
  <2> QED BY <2>1, <2>2 DEF LateOnesHold
<1> QED BY <1>1, <1>5 DEF LateOnesHold

\* Every step of SchedulePackets but the return of sendPacket.
LEMMA SchedulerOrder ==
  ASSUME OrderInv, SchedulePackets, ~SchedulePackets_sent
  PROVE  OrderParts' /\ OvertakenOnlyWhenHeld'
<1>0. /\ toSendQueue \in Seq(Packet) /\ workingSlice \in Seq(Packet)
      /\ toSendQueue # <<>> => Len(toSendQueue) >= 1
      /\ Len(toSendQueue) \in Nat /\ n \in Nat
      /\ spc # "drain" => n = 0
      /\ spc = "drain" => n \in 1..Len(toSendQueue)
      /\ spc = "pop" => workingSlice = <<>>
      /\ spc # "pop" => Len(workingSlice) >= 1
  BY EmptySeq, LenProperties, SchedAssumption
  DEF OrderInv, OnceInv, TypeInv, TypeOK, PcInv, DrainFindsPackets
<1>1. /\ Labelled(toSendQueue, atEnqueue, enqueued)
      /\ Labelled(workingSlice, atEnqueue, enqueued)
      /\ Labelled(handed, atEnqueue, enqueued)
      /\ InOrder(toSendQueue, atEnqueue) /\ InOrder(workingSlice, atEnqueue)
      /\ spc = "requeue" => Before(toSendQueue, workingSlice, atEnqueue)
      /\ spc # "requeue" => Before(workingSlice, toSendQueue, atEnqueue)
      /\ spc \in {"drain", "sort", "send"} =>
           LateOnesHold(toSendQueue, n, workingSlice, atEnqueue)
  BY DEF OrderInv, OrderParts
<1>2. /\ handed' = handed /\ atEnqueue' = atEnqueue /\ enqueued' = enqueued
  BY DEF SchedulePackets, SchedulePackets_pop, SchedulePackets_alone, SchedulePackets_len,
     SchedulePackets_drain, SchedulePackets_sort, SchedulePackets_requeue
<1>3. OvertakenOnlyWhenHeld'
  BY <1>2 DEF OrderInv, OvertakenOnlyWhenHeld
<1>4. CASE SchedulePackets_pop
  <2>1. /\ workingSlice' = Append(workingSlice, Head(toSendQueue))
        /\ toSendQueue' = Tail(toSendQueue) /\ Len(toSendQueue) >= 1
        /\ spc = "pop" /\ spc' = "len"
    BY <1>0, <1>4 DEF SchedulePackets_pop
  <2>2. /\ InOrder(toSendQueue', atEnqueue) /\ InOrder(workingSlice', atEnqueue)
        /\ Before(workingSlice', toSendQueue', atEnqueue)
        /\ Labelled(toSendQueue', atEnqueue, enqueued)
        /\ Labelled(workingSlice', atEnqueue, enqueued)
    BY <1>0, <1>1, <2>1, MoveOrder
  <2> QED BY <1>1, <1>2, <1>3, <2>1, <2>2 DEF OrderParts
<1>5. CASE SchedulePackets_alone \/ SchedulePackets_len
  <2>1. /\ workingSlice' = workingSlice /\ toSendQueue' = toSendQueue
        /\ spc = "len" /\ spc' # "requeue" /\ n' = Len(toSendQueue)
    BY <1>0, <1>5, EmptySeq DEF SchedulePackets_alone, SchedulePackets_len
  <2>2. Len(toSendQueue) + 1..Len(toSendQueue) = {}
    BY <1>0
  <2>3. LateOnesHold(toSendQueue', n', workingSlice', atEnqueue')
    BY <2>1, <2>2 DEF LateOnesHold
  <2> QED BY <1>1, <1>2, <1>3, <2>1, <2>3 DEF OrderParts
<1>6. CASE SchedulePackets_drain
  <2>1. /\ workingSlice' = Append(workingSlice, Head(toSendQueue))
        /\ toSendQueue' = Tail(toSendQueue) /\ Len(toSendQueue) >= 1
        /\ spc = "drain" /\ spc' \in {"drain", "sort"} /\ n' = n - 1
    BY <1>0, <1>6 DEF SchedulePackets_drain
  <2>2. /\ InOrder(toSendQueue', atEnqueue) /\ InOrder(workingSlice', atEnqueue)
        /\ Before(workingSlice', toSendQueue', atEnqueue)
        /\ Labelled(toSendQueue', atEnqueue, enqueued)
        /\ Labelled(workingSlice', atEnqueue, enqueued)
    BY <1>0, <1>1, <2>1, MoveOrder
  <2>3. LateOnesHold(toSendQueue', n', workingSlice', atEnqueue)
    BY <1>0, <1>1, <2>1, DrainLate
  <2> QED BY <1>1, <1>2, <1>3, <2>1, <2>2, <2>3 DEF OrderParts
<1>7. CASE SchedulePackets_sort
  <2>1. PICK pi \in Bijection(1..Len(workingSlice), 1..Len(workingSlice)) :
          /\ IsStableSort(workingSlice, pi)
          /\ workingSlice' = [k \in 1..Len(workingSlice) |-> workingSlice[pi[k]]]
    BY <1>7 DEF SchedulePackets_sort
  <2>2. spc = "sort" /\ spc' = "send" /\ toSendQueue' = toSendQueue /\ n' = n
    BY <1>7 DEF SchedulePackets_sort
  <2>3. /\ InOrder(workingSlice', atEnqueue)
        /\ Before(workingSlice', toSendQueue, atEnqueue)
        /\ Labelled(workingSlice', atEnqueue, enqueued)
    BY <1>0, <1>1, <2>1, <2>2, SortOrder
  <2>4. Ids(workingSlice') = Ids(workingSlice)
    BY <1>0, <2>1, RearrangedFacts
  <2>5. LateOnesHold(toSendQueue, n, workingSlice', atEnqueue)
    BY <1>1, <2>2, <2>4 DEF LateOnesHold
  <2> QED BY <1>1, <1>2, <1>3, <2>2, <2>3, <2>5 DEF OrderParts
<1>8. CASE SchedulePackets_requeue
  <2>1. /\ toSendQueue' = Append(toSendQueue, Head(workingSlice))
        /\ workingSlice' = Tail(workingSlice) /\ Len(workingSlice) >= 1
        /\ spc = "requeue"
        /\ spc' = IF Len(workingSlice) = 1 THEN "pop" ELSE "requeue"
    BY <1>0, <1>8 DEF SchedulePackets_requeue
  <2>2. /\ InOrder(toSendQueue', atEnqueue) /\ InOrder(workingSlice', atEnqueue)
        /\ Before(toSendQueue', workingSlice', atEnqueue)
        /\ Labelled(toSendQueue', atEnqueue, enqueued)
        /\ Labelled(workingSlice', atEnqueue, enqueued)
    BY <1>0, <1>1, <2>1, MoveOrder
  <2>3. spc' # "requeue" => Before(workingSlice', toSendQueue', atEnqueue)
    <3>1. Len(workingSlice) = 1 => Len(workingSlice') = 0
      BY <1>0, <2>1, TailElements
    <3> QED BY <2>1, <3>1 DEF Before
  <2> QED BY <1>1, <1>2, <1>3, <2>1, <2>2, <2>3 DEF OrderParts
<1> QED BY <1>4, <1>5, <1>6, <1>7, <1>8 DEF SchedulePackets

\* A packet that has not left yet is in the channel or in the slice.
LEMMA NotHanded ==
  ASSUME OnceInv, NEW p \in 1..enqueued, p \notin Ids(handed)
  PROVE  \/ \E i \in 1..Len(workingSlice) : workingSlice[i].id = p
         \/ \E i \in 1..Len(toSendQueue) : toSendQueue[i].id = p
<1>1. /\ DOMAIN workingSlice = 1..Len(workingSlice)
      /\ DOMAIN toSendQueue = 1..Len(toSendQueue)
  BY LenProperties DEF OnceInv, TypeInv, TypeOK
<1>2. p \in Ids(workingSlice) \cup Ids(toSendQueue)
  BY DEF OnceInv, EachPacketOnce
<1> QED BY <1>1, <1>2 DEF Ids

\* The return of sendPacket: the rest of the slice goes behind the channel.
LEMMA SentOrder ==
  ASSUME OrderInv, SchedulePackets_sent
  PROVE  OrderParts' /\ OvertakenOnlyWhenHeld'
<1>0. /\ toSendQueue \in Seq(Packet) /\ workingSlice \in Seq(Packet)
      /\ handed \in Seq(Packet) /\ enqueued \in Nat
      /\ Len(workingSlice) >= 1 /\ Len(workingSlice) \in Nat
      /\ n = 0 /\ spc = "send"
  BY LenProperties, SchedAssumption
  DEF OrderInv, OnceInv, TypeInv, TypeOK, PcInv, SchedulePackets_sent
<1>1. /\ Labelled(toSendQueue, atEnqueue, enqueued)
      /\ Labelled(workingSlice, atEnqueue, enqueued)
      /\ Labelled(handed, atEnqueue, enqueued)
      /\ InOrder(toSendQueue, atEnqueue) /\ InOrder(workingSlice, atEnqueue)
      /\ Before(workingSlice, toSendQueue, atEnqueue)
      /\ LateOnesHold(toSendQueue, 0, workingSlice, atEnqueue)
  BY <1>0 DEF OrderInv, OrderParts
<1>2. PICK h \in Packet, u \in Seq(Packet), g \in Seq(Packet) :
        /\ h = Head(workingSlice) /\ u = Tail(workingSlice) /\ g = Append(handed, h)
  BY <1>0, TailElements, AppendElements
<1>3. /\ handed' = g /\ workingSlice' = u /\ toSendQueue' = toSendQueue
      /\ n' = 0 /\ atEnqueue' = atEnqueue /\ enqueued' = enqueued
      /\ spc' = IF Len(workingSlice) = 1 THEN "pop" ELSE "requeue"
  BY <1>0, <1>2 DEF SchedulePackets_sent
<1>4. /\ h = workingSlice[1] /\ Len(u) = Len(workingSlice) - 1
      /\ \A i \in 1..Len(u) : i + 1 \in 1..Len(workingSlice) /\ u[i] = workingSlice[i + 1]
  BY <1>0, <1>2, TailElements
<1>5. PICK one \in 1..Len(workingSlice) : one = 1
  BY <1>0
<1>6. h = workingSlice[one]
  BY <1>4, <1>5
<1>7. InOrder(u, atEnqueue) /\ Labelled(u, atEnqueue, enqueued)
  BY <1>0, <1>1, <1>2, TailOrder
<1>8. /\ Len(g) = Len(handed) + 1 /\ Len(handed) \in Nat
      /\ \A i \in 1..Len(g) : \/ i \in 1..Len(handed) /\ g[i] = handed[i]
                              \/ i = Len(handed) + 1 /\ g[i] = h
  BY <1>0, <1>2, AppendElements
<1>9. Labelled(g, atEnqueue, enqueued)
  BY <1>1, <1>6, <1>8 DEF Labelled
<1>10. spc' = "requeue" => Before(toSendQueue, u, atEnqueue)
  <2> SUFFICES ASSUME NEW i \in 1..Len(toSendQueue), NEW j \in 1..Len(u)
               PROVE  Justified(toSendQueue[i], u[j], atEnqueue)
    BY DEF Before
  <2>1. i \in 0 + 1..Len(toSendQueue)
    OBVIOUS
  <2>2. u[j].id \in Ids(workingSlice)
    <3>1. DOMAIN workingSlice = 1..Len(workingSlice)
      BY <1>0, LenProperties
    <3> QED BY <1>4, <3>1 DEF Ids
  <2>3. u[j].id \in atEnqueue[toSendQueue[i].id].held
    BY <1>1, <2>1, <2>2 DEF LateOnesHold
  <2> QED BY <2>3 DEF Justified
<1>11. spc' # "requeue" => Before(u, toSendQueue, atEnqueue)
  <2>1. Len(workingSlice) = 1 => Len(u) = 0
    BY <1>4
  <2> QED BY <1>3, <2>1 DEF Before
<1>12. OrderParts'
  BY <1>1, <1>3, <1>7, <1>9, <1>10, <1>11 DEF OrderParts
<1>13. ASSUME NEW p \in 1..(h.id - 1), atEnqueue[p].flow = h.flow, p \notin Ids(handed)
       PROVE  p \in atEnqueue[h.id].held
  <2>1. h.id \in 1..enqueued /\ p \in 1..enqueued /\ h.id > p /\ p # h.id
    BY <1>0, <1>1, <1>6 DEF Labelled
  <2>2. CASE \E i \in 1..Len(workingSlice) : workingSlice[i].id = p
    <3>1. PICK i \in 1..Len(workingSlice) : workingSlice[i].id = p
      BY <2>2
    <3>2. one < i
      BY <1>5, <1>6, <2>1, <3>1
    <3>3. Justified(h, workingSlice[i], atEnqueue) /\ workingSlice[i].flow = h.flow
      BY <1>1, <1>6, <1>13, <3>1, <3>2 DEF InOrder, Labelled
    <3> QED BY <2>1, <3>1, <3>3 DEF Justified
  <2>3. CASE \E i \in 1..Len(toSendQueue) : toSendQueue[i].id = p
    <3>1. PICK i \in 1..Len(toSendQueue) : toSendQueue[i].id = p
      BY <2>3
    <3>2. Justified(h, toSendQueue[i], atEnqueue) /\ toSendQueue[i].flow = h.flow
      BY <1>1, <1>6, <1>13, <3>1 DEF Before, Labelled
    <3> QED BY <2>1, <3>1, <3>2 DEF Justified
  <2> QED BY <1>13, <2>1, <2>2, <2>3, NotHanded DEF OrderInv
<1>14. OvertakenOnlyWhenHeld'
  <2>1. DOMAIN handed = 1..Len(handed) /\ DOMAIN g = 1..Len(g)
    BY <1>0, <1>2, LenProperties
  <2> SUFFICES ASSUME NEW j \in 1..Len(g), NEW p \in 1..(g[j].id - 1),
                      atEnqueue[p].flow = g[j].flow, p \notin {g[i].id : i \in 1..j}
               PROVE  p \in atEnqueue[g[j].id].held
    BY <1>3, <2>1 DEF OvertakenOnlyWhenHeld
  <2>2. \A i \in 1..Len(handed) : g[i] = handed[i]
    BY <1>8
  <2>3. CASE j \in 1..Len(handed) /\ g[j] = handed[j]
    <3>1. \A i \in 1..j : i \in 1..Len(handed)
      BY <1>8, <2>3
    <3>2. {g[i].id : i \in 1..j} = {handed[i].id : i \in 1..j}
      BY <2>2, <3>1
    <3> QED BY <2>1, <2>3, <3>2 DEF OrderInv, OvertakenOnlyWhenHeld
  <2>4. CASE j = Len(handed) + 1 /\ g[j] = h
    <3>1. \A i \in 1..Len(handed) : i \in 1..j /\ g[i] = handed[i]
      BY <1>8, <2>2, <2>4
    <3>2. p \notin Ids(handed)
      BY <2>1, <3>1 DEF Ids
    <3> QED BY <1>13, <2>4, <3>2
  <2> QED BY <1>8, <2>3, <2>4
<1> QED BY <1>12, <1>14

\* Every step keeps OrderInv.
LEMMA NextOrderInv == OrderInv /\ [Next]_schedVars => OrderInv'
<1> SUFFICES ASSUME OrderInv, [Next]_schedVars PROVE OrderInv'
  OBVIOUS
<1>1. OnceInv'
  BY NextOnceInv DEF OrderInv
<1>2. CASE \E f \in Flow : ListenTun_enqueue(f)
  BY <1>1, <1>2, EnqueueOrder DEF OrderInv
<1>3. CASE SchedulePackets_sent
  BY <1>1, <1>3, SentOrder DEF OrderInv
<1>4. CASE SchedulePackets /\ ~SchedulePackets_sent
  BY <1>1, <1>4, SchedulerOrder DEF OrderInv
<1>5. CASE UNCHANGED schedVars
  BY <1>1, <1>5 DEF schedVars, OrderInv, OrderParts, OvertakenOnlyWhenHeld
<1> QED BY <1>2, <1>3, <1>4, <1>5 DEF Next

\* The only way a packet leaves before an earlier one of its flow: it came while
\* SchedulePackets held the earlier one, which then went back behind it.
THEOREM OvertakingNeedsHolding == Spec => []OvertakenOnlyWhenHeld
<1>1. OrderInv => OvertakenOnlyWhenHeld
  BY DEF OrderInv
<1> QED BY InitOrderInv, NextOrderInv, <1>1, PTL DEF Spec
-----------------------------------------------------------------------------
(* How many packets of a flow with a larger endpoint leave before a packet   *)
(* that is in the channel.                                                   *)

\* The positions in h, what has left, of the packets p had to let pass.
Inversions(p, h, at) ==
  {j \in 1..Len(h) : /\ j > at[p].handed
                     /\ p \notin {h[i].id : i \in 1..j}
                     /\ Key(h[j].flow) > Key(at[p].flow)}

\* A packet that ListenTun has enqueued since len() has let none pass: only the
\* first packet of the sorted slice will still go before it.
InversionParts ==
  /\ \A p \in 1..enqueued : \A i, j \in Inversions(p, handed, atEnqueue) : i = j
  /\ spc \in {"drain", "sort", "send"} =>
       \A i \in n + 1..Len(toSendQueue) :
         Inversions(toSendQueue[i].id, handed, atEnqueue) = {}
  /\ spc = "send" => LeastFirst(workingSlice)

InversionInv == OrderInv /\ InversionParts

\* Keys are numbers.
LEMMA KeyType == \A f \in Flow : Key(f) \in Nat
BY SchedAssumption DEF Key

\* The packet e that leaves is one p lets pass only if it has a larger endpoint
\* and p has not left.
LEMMA InversionsGrow ==
  ASSUME NEW h \in Seq(Packet), NEW e \in Packet, NEW at, NEW p
  PROVE  /\ Inversions(p, Append(h, e), at) \subseteq Inversions(p, h, at) \cup {Len(h) + 1}
         /\ p \in Ids(h) \/ p = e.id \/ ~(Key(e.flow) > Key(at[p].flow)) =>
              Inversions(p, Append(h, e), at) \subseteq Inversions(p, h, at)
<1>1. PICK g \in Seq(Packet) : g = Append(h, e)
  BY AppendElements
<1>2. /\ Len(g) = Len(h) + 1 /\ Len(h) \in Nat
      /\ \A i \in 1..Len(g) : \/ i \in 1..Len(h) /\ g[i] = h[i]
                              \/ i = Len(h) + 1 /\ g[i] = e
      /\ \A i \in 1..Len(h) : g[i] = h[i]
      /\ g[Len(h) + 1] = e
      /\ DOMAIN h = 1..Len(h)
  BY <1>1, AppendElements, AppendProperties, LenProperties
<1>3. ASSUME NEW j \in 1..Len(g), j \in Inversions(p, g, at)
      PROVE  \/ j \in Inversions(p, h, at)
             \/ j = Len(h) + 1 /\ p \notin Ids(h) /\ p # e.id /\ Key(e.flow) > Key(at[p].flow)
  <2>1. /\ j > at[p].handed /\ p \notin {g[i].id : i \in 1..j}
        /\ Key(g[j].flow) > Key(at[p].flow)
    BY <1>3 DEF Inversions
  <2>2. CASE j \in 1..Len(h) /\ g[j] = h[j]
    <3>1. \A i \in 1..j : g[i] = h[i]
      BY <1>2, <2>2
    <3>2. {g[i].id : i \in 1..j} = {h[i].id : i \in 1..j}
      BY <3>1
    <3> QED BY <2>1, <2>2, <3>2 DEF Inversions
  <2>3. CASE j = Len(h) + 1 /\ g[j] = e
    <3>1. \A i \in 1..Len(h) : i \in 1..j
      BY <1>2, <2>3
    <3>2. p \notin Ids(h)
      BY <1>2, <2>1, <3>1 DEF Ids
    <3>3. j \in 1..j
      BY <1>2, <2>3
    <3>4. p # e.id
      BY <2>1, <2>3, <3>3
    <3> QED BY <2>1, <2>3, <3>2, <3>4
  <2> QED BY <1>2, <2>2, <2>3
<1>4. \A j \in Inversions(p, g, at) : j \in 1..Len(g)
  BY DEF Inversions
<1>5. Inversions(p, g, at) \subseteq Inversions(p, h, at) \cup {Len(h) + 1}
  BY <1>3, <1>4
<1>6. p \in Ids(h) \/ p = e.id \/ ~(Key(e.flow) > Key(at[p].flow)) =>
        Inversions(p, g, at) \subseteq Inversions(p, h, at)
  BY <1>3, <1>4
<1> QED BY <1>1, <1>5, <1>6

\* Nothing has been handed out at the start.
LEMMA InitInversionInv == Init => InversionInv
<1> SUFFICES ASSUME Init PROVE InversionParts
  BY InitOrderInv DEF InversionInv
<1>1. 1..0 = {} /\ enqueued = 0 /\ spc = "pop"
  BY DEF Init
<1> QED BY <1>1 DEF InversionParts

\* A packet just enqueued has let none pass; those before it stay as they are.
LEMMA EnqueueInversions ==
  ASSUME InversionInv, NEW f \in Flow, ListenTun_enqueue(f)
  PROVE  InversionParts'
<1>1. PICK e \in Packet : e = [flow |-> f, id |-> enqueued + 1]
  BY NewPacketType DEF InversionInv, OrderInv, OnceInv
<1>2. PICK at : at = atEnqueue'
  OBVIOUS
<1>3. /\ e.id = enqueued + 1 /\ toSendQueue \in Seq(Packet) /\ handed \in Seq(Packet)
      /\ Len(handed) \in Nat /\ enqueued \in Nat /\ n \in Nat /\ n <= Len(toSendQueue)
      /\ enqueued' = enqueued + 1 /\ toSendQueue' = Append(toSendQueue, e)
      /\ workingSlice' = workingSlice /\ handed' = handed /\ n' = n /\ spc' = spc
  BY <1>1, LenProperties, SchedAssumption
  DEF InversionInv, OrderInv, OnceInv, TypeInv, TypeOK, PcInv, DrainFindsPackets,
      ListenTun_enqueue
<1>4. /\ \A x \in 1..enqueued : at[x] = atEnqueue[x]
      /\ at[e.id].handed = Len(handed)
  <2>1. /\ \A x \in 1..enqueued : atEnqueue'[x] = atEnqueue[x]
        /\ atEnqueue'[enqueued + 1] = [flow |-> f, held |-> Held, handed |-> Len(handed)]
    BY EnqueueHistory DEF InversionInv, OrderInv
  <2>2. at[e.id] = [flow |-> f, held |-> Held, handed |-> Len(handed)]
    BY <1>2, <1>3, <2>1
  <2> QED BY <1>2, <1>3, <2>1, <2>2
<1>5. \A x \in 1..enqueued : Inversions(x, handed, at) = Inversions(x, handed, atEnqueue)
  BY <1>4 DEF Inversions
<1>6. Inversions(e.id, handed, at) = {}
  BY <1>3, <1>4 DEF Inversions
<1>7. \A x \in 1..enqueued + 1 : x \in 1..enqueued \/ x = e.id
  BY <1>3
<1>8. \A p \in 1..enqueued + 1 : \A i, j \in Inversions(p, handed, at) : i = j
  BY <1>5, <1>6, <1>7 DEF InversionInv, InversionParts
<1>9. ASSUME spc \in {"drain", "sort", "send"}, NEW i \in n + 1..Len(toSendQueue')
      PROVE  Inversions(toSendQueue'[i].id, handed, at) = {}
  <2>1. /\ Len(toSendQueue) \in Nat /\ Len(toSendQueue') = Len(toSendQueue) + 1
        /\ \A k \in 1..Len(toSendQueue') :
             \/ k \in 1..Len(toSendQueue) /\ toSendQueue'[k] = toSendQueue[k]
             \/ k = Len(toSendQueue) + 1 /\ toSendQueue'[k] = e
    BY <1>3, AppendElements
  <2>2. i \in 1..Len(toSendQueue')
    BY <1>3, <2>1
  <2>3. CASE i \in 1..Len(toSendQueue) /\ toSendQueue'[i] = toSendQueue[i]
    <3>1. i \in n + 1..Len(toSendQueue)
      BY <1>3, <2>1, <2>3
    <3>2. toSendQueue[i].id \in 1..enqueued
      BY <2>3 DEF InversionInv, OrderInv, OrderParts, Labelled
    <3> QED BY <1>5, <1>9, <2>3, <3>1, <3>2 DEF InversionInv, InversionParts
  <2>4. CASE toSendQueue'[i] = e
    BY <1>6, <2>4
  <2> QED BY <2>1, <2>2, <2>3, <2>4
<1> QED BY <1>2, <1>3, <1>8, <1>9 DEF InversionInv, InversionParts

\* Every step of SchedulePackets but the return of sendPacket.
LEMMA SchedulerInversions ==
  ASSUME InversionInv, SchedulePackets, ~SchedulePackets_sent
  PROVE  InversionParts'
<1>0. /\ toSendQueue \in Seq(Packet) /\ workingSlice \in Seq(Packet)
      /\ toSendQueue # <<>> => Len(toSendQueue) >= 1
      /\ Len(toSendQueue) \in Nat /\ n \in Nat
      /\ spc # "drain" => n = 0
      /\ spc = "drain" => n \in 1..Len(toSendQueue)
      /\ spc = "len" => Len(workingSlice) = 1
  BY EmptySeq, LenProperties, SchedAssumption
  DEF InversionInv, OrderInv, OnceInv, TypeInv, TypeOK, PcInv, DrainFindsPackets
<1>1. /\ handed' = handed /\ atEnqueue' = atEnqueue /\ enqueued' = enqueued
  BY DEF SchedulePackets, SchedulePackets_pop, SchedulePackets_alone, SchedulePackets_len,
     SchedulePackets_drain, SchedulePackets_sort, SchedulePackets_requeue
<1>2. /\ \A p \in 1..enqueued : \A i, j \in Inversions(p, handed, atEnqueue) : i = j
      /\ spc \in {"drain", "sort", "send"} =>
           \A i \in n + 1..Len(toSendQueue) :
             Inversions(toSendQueue[i].id, handed, atEnqueue) = {}
  BY DEF InversionInv, InversionParts
<1>3. CASE SchedulePackets_pop \/ SchedulePackets_requeue
  <2>1. spc' \notin {"drain", "sort", "send"}
    BY <1>3 DEF SchedulePackets_pop, SchedulePackets_requeue
  <2> QED BY <1>1, <1>2, <2>1 DEF InversionParts
<1>4. CASE SchedulePackets_alone \/ SchedulePackets_len
  <2>1. /\ workingSlice' = workingSlice /\ toSendQueue' = toSendQueue
        /\ spc = "len" /\ n' = Len(toSendQueue)
    BY <1>0, <1>4, EmptySeq DEF SchedulePackets_alone, SchedulePackets_len
  <2>2. Len(toSendQueue) + 1..Len(toSendQueue) = {}
    BY <1>0
  <2>3. LeastFirst(workingSlice)
    <3>1. PICK one \in 1..Len(workingSlice) : one = 1
      BY <1>0, <2>1
    <3>2. Key(workingSlice[one].flow) \in Nat
      <4>1. workingSlice[one] \in Packet
        BY <1>0, LenProperties
      <4> QED BY <4>1, KeyType DEF Packet
    <3>3. \A i \in 1..Len(workingSlice) : i = one
      <4>1. Len(workingSlice) = 1
        BY <1>0, <2>1
      <4> QED BY <3>1, <4>1
    <3> QED BY <3>1, <3>2, <3>3 DEF LeastFirst
  <2> QED BY <1>1, <1>2, <2>1, <2>2, <2>3 DEF InversionParts
<1>5. CASE SchedulePackets_drain
  <2>1. /\ toSendQueue' = Tail(toSendQueue) /\ Len(toSendQueue) >= 1
        /\ spc = "drain" /\ spc' \in {"drain", "sort"} /\ n' = n - 1
    BY <1>0, <1>5 DEF SchedulePackets_drain
  <2>2. ASSUME NEW i \in n' + 1..Len(toSendQueue')
        PROVE  Inversions(toSendQueue'[i].id, handed, atEnqueue) = {}
    <3>1. /\ Len(toSendQueue') = Len(toSendQueue) - 1
          /\ \A k \in 1..Len(toSendQueue') : toSendQueue'[k] = toSendQueue[k + 1]
      BY <1>0, <2>1, TailElements
    <3>2. i \in 1..Len(toSendQueue') /\ i + 1 \in n + 1..Len(toSendQueue)
      BY <1>0, <2>1, <3>1
    <3> QED BY <1>2, <2>1, <3>1, <3>2
  <2> QED BY <1>1, <1>2, <2>1, <2>2 DEF InversionParts
<1>6. CASE SchedulePackets_sort
  <2>1. PICK pi \in Bijection(1..Len(workingSlice), 1..Len(workingSlice)) :
          /\ IsStableSort(workingSlice, pi)
          /\ workingSlice' = [k \in 1..Len(workingSlice) |-> workingSlice[pi[k]]]
    BY <1>6 DEF SchedulePackets_sort
  <2>2. spc = "sort" /\ spc' = "send" /\ toSendQueue' = toSendQueue /\ n' = n
    BY <1>6 DEF SchedulePackets_sort
  <2>3. /\ InOrder(workingSlice, atEnqueue)
        /\ Before(workingSlice, toSendQueue, atEnqueue)
        /\ Labelled(workingSlice, atEnqueue, enqueued)
    BY <2>2 DEF InversionInv, OrderInv, OrderParts
  <2>4. LeastFirst(workingSlice')
    BY <1>0, <2>1, <2>3, SortOrder
  <2> QED BY <1>1, <1>2, <2>2, <2>4 DEF InversionParts
<1> QED BY <1>3, <1>4, <1>5, <1>6 DEF SchedulePackets

\* The return of sendPacket.  No packet of the slice had a smaller endpoint, and
\* no packet of the channel has let any pass before.
LEMMA SentInversions ==
  ASSUME InversionInv, SchedulePackets_sent
  PROVE  InversionParts'
<1>0. /\ toSendQueue \in Seq(Packet) /\ workingSlice \in Seq(Packet)
      /\ handed \in Seq(Packet) /\ Len(handed) \in Nat
      /\ Len(workingSlice) >= 1 /\ n = 0 /\ spc = "send"
  BY LenProperties
  DEF InversionInv, OrderInv, OnceInv, TypeInv, TypeOK, PcInv, SchedulePackets_sent
<1>1. PICK h \in Packet : h = Head(workingSlice)
  BY <1>0, TailElements
<1>2. /\ handed' = Append(handed, h) /\ atEnqueue' = atEnqueue /\ enqueued' = enqueued
      /\ spc' \notin {"drain", "sort", "send"}
  BY <1>1 DEF SchedulePackets_sent
<1>3. h = workingSlice[1]
  BY <1>0, <1>1, TailElements
<1>4. ASSUME NEW p \in 1..enqueued
      PROVE  \A i, j \in Inversions(p, Append(handed, h), atEnqueue) : i = j
  <2>1. \A i, j \in Inversions(p, handed, atEnqueue) : i = j
    BY DEF InversionInv, InversionParts
  <2>2. CASE p \in Ids(handed)
    BY <1>0, <2>1, <2>2, InversionsGrow
  <2>3. CASE \E i \in 1..Len(workingSlice) : workingSlice[i].id = p
    <3>1. PICK i \in 1..Len(workingSlice) : workingSlice[i].id = p
      BY <2>3
    <3>2. atEnqueue[p].flow = workingSlice[i].flow
      BY <3>1 DEF InversionInv, OrderInv, OrderParts, Labelled
    <3>3. Key(h.flow) <= Key(workingSlice[i].flow)
      BY <1>0, <1>3, <3>1 DEF InversionInv, InversionParts, LeastFirst
    <3>4. h.flow \in Flow /\ workingSlice[i].flow \in Flow
      <4>1. workingSlice[i] \in Packet
        BY <1>0, LenProperties
      <4> QED BY <4>1 DEF Packet
    <3>5. ~(Key(h.flow) > Key(atEnqueue[p].flow))
      BY <3>2, <3>3, <3>4, KeyType
    <3> QED BY <1>0, <2>1, <3>5, InversionsGrow
  <2>4. CASE \E i \in 1..Len(toSendQueue) : toSendQueue[i].id = p
    <3>1. PICK i \in 1..Len(toSendQueue) : toSendQueue[i].id = p
      BY <2>4
    <3>2. i \in n + 1..Len(toSendQueue)
      BY <1>0
    <3>3. Inversions(p, handed, atEnqueue) = {}
      BY <1>0, <3>1, <3>2 DEF InversionInv, InversionParts
    <3> QED BY <1>0, <3>3, InversionsGrow
  <2> QED BY <2>2, <2>3, <2>4, NotHanded DEF InversionInv, OrderInv
<1> QED BY <1>2, <1>4 DEF InversionParts

\* Every step keeps InversionInv.
LEMMA NextInversionInv == InversionInv /\ [Next]_schedVars => InversionInv'
<1> SUFFICES ASSUME InversionInv, [Next]_schedVars PROVE InversionInv'
  OBVIOUS
<1>1. OrderInv'
  BY NextOrderInv DEF InversionInv
<1>2. CASE \E f \in Flow : ListenTun_enqueue(f)
  BY <1>1, <1>2, EnqueueInversions DEF InversionInv
<1>3. CASE SchedulePackets_sent
  BY <1>1, <1>3, SentInversions DEF InversionInv
<1>4. CASE SchedulePackets /\ ~SchedulePackets_sent
  BY <1>1, <1>4, SchedulerInversions DEF InversionInv
<1>5. CASE UNCHANGED schedVars
  BY <1>1, <1>5 DEF schedVars, InversionInv, InversionParts
<1> QED BY <1>2, <1>3, <1>4, <1>5 DEF Next

\* From the moment a packet is in the channel at most one packet of a flow with a
\* larger endpoint is sent before it, however many packets arrive: the sort makes
\* a priority of the endpoints.
THEOREM PriorityWithOneException == Spec => []InversionBounded
<1>1. InversionInv => InversionBounded
  <2> SUFFICES ASSUME InversionInv, NEW p \in 1..enqueued
               PROVE  Cardinality({j \in DOMAIN handed :
                        /\ j > atEnqueue[p].handed
                        /\ p \notin {handed[i].id : i \in 1..j}
                        /\ Key(handed[j].flow) > Key(atEnqueue[p].flow)}) <= 1
    BY DEF InversionBounded
  <2>1. DOMAIN handed = 1..Len(handed)
    BY LenProperties DEF InversionInv, OrderInv, OnceInv, TypeInv, TypeOK
  <2>2. PICK J : J = Inversions(p, handed, atEnqueue)
    OBVIOUS
  <2>3. \A i, j \in J : i = j
    BY <2>2 DEF InversionInv, InversionParts
  <2>4. Cardinality(J) <= 1
    <3>1. CASE J = {}
      BY <3>1, FS_EmptySet
    <3>2. CASE J # {}
      <4>1. PICK x : x \in J
        BY <3>2
      <4>2. J = {x}
        BY <2>3, <4>1
      <4>3. Cardinality({x}) = 1
        BY FS_Singleton
      <4> QED BY <4>2, <4>3
    <3> QED BY <3>1, <3>2
  <2> QED BY <2>1, <2>2, <2>4 DEF Inversions
<1> QED BY InitInversionInv, NextInversionInv, <1>1, PTL DEF Spec
===============================================================================

----------------------------- MODULE MCVpnLive -----------------------------
(***************************************************************************)
(* The VPN under fairness, for TLC, in one state space: the send queue by  *)
(* itself (PacketScheduler, which this module extends) and, around it, two *)
(* instances of Transmitter.  The invariants of PacketScheduler hold of    *)
(* the queue of a transmitter too.  And the send queue once more, with     *)
(* packets that never stop arriving.                                       *)
(***************************************************************************)
EXTENDS PacketScheduler

CONSTANT StreamLimit, Window

\* "queue": three flows and room for two packets, sendPacket never waits;
\* "endless": the same with two flows, and no last packet;
\* "up": a tunnel with two flows, whose session stays up;
\* "ends": a tunnel with one packet, and all may fail.
VARIABLES config, tpc, tflow, tstream, cpc, cflow, ppc, pstream,
          mapInteraction, mapQuicStream, nopen, streams, npc, naccepted,
          hpc, hpacket, up, waiting, alive, delivered, lost,
          eQueue, eSlice, eN, eSpc, eHanded, watched

tunnelVars == <<tpc, tflow, tstream, cpc, cflow, ppc, pstream,
                mapInteraction, mapQuicStream, nopen, streams, npc, naccepted,
                hpc, hpacket, up, waiting, alive, delivered, lost>>
endlessVars == <<eQueue, eSlice, eN, eSpc, eHanded, watched>>
mcVars == <<config, schedVars, tunnelVars, endlessVars>>

\* Two flows of different hosts, the second with the smaller source and the
\* larger destination, and a third that shares the first one's source.
MCFlow == {"f1", "f2", "f3"}
MCSrc == [f1 |-> 2, f2 |-> 1, f3 |-> 2]
MCDst == [f1 |-> 1, f2 |-> 2, f3 |-> 3]

Up == INSTANCE Transmitter WITH
        Flow <- {"f1", "f2"}, ZeroFlow <- "f1", Multi_streams <- TRUE,
        Failures <- FALSE, MaxPackets <- 2
Ends == INSTANCE Transmitter WITH
          Flow <- {"f1", "f2"}, ZeroFlow <- "f1", Multi_streams <- TRUE,
          Failures <- TRUE, MaxPackets <- 1, StreamLimit <- 1, QueueCap <- 1

\* Only the initial state of this one is used.
Idle == INSTANCE Transmitter WITH
          ZeroFlow <- "f1", Multi_streams <- TRUE, Failures <- FALSE

\* A send queue of two flows with packets that go on arriving.  One of them is
\* watched, which comes once.
Endless == INSTANCE PacketScheduler WITH
             Flow <- {"f1", "f2"}, MaxPackets <- 3,
             toSendQueue <- eQueue, workingSlice <- eSlice, n <- eN, spc <- eSpc,
             handed <- eHanded, enqueued <- 0, atEnqueue <- <<>>

\* The ids: that of the watched packet, and those of all the others, by whether
\* SchedulePackets held the watched one when they came.
TheWatched == 1
Plain == 2
CameWhileHeld == 3

EndlessInit == /\ eQueue = <<>> /\ eSlice = <<>> /\ eN = 0 /\ eSpc = "pop"
               /\ eHanded = <<>> /\ watched = "none"

\* The send of ListenTun on the channel, as in ListenTun_enqueue.
Endless_enqueue(f) ==
  /\ Len(eQueue) < QueueCap
  /\ \/ /\ watched = "none" /\ watched' = f
        /\ eQueue' = Append(eQueue, [flow |-> f, id |-> TheWatched])
     \/ /\ UNCHANGED watched
        /\ eQueue' = Append(eQueue,
             [flow |-> f, id |-> IF TheWatched \in Endless!Held THEN CameWhileHeld ELSE Plain])
  /\ UNCHANGED <<eSlice, eN, eSpc, eHanded>>

\* A step of SchedulePackets; of the packets handed out the last is kept, for one
\* step.
Endless_schedule ==
  \/ eHanded = <<>> /\ Endless!SchedulePackets /\ UNCHANGED watched
  \/ eHanded # <<>> /\ eHanded' = <<>> /\ UNCHANGED <<eQueue, eSlice, eN, eSpc, watched>>

MCInit == /\ EndlessInit
          /\ \/ config = "queue" /\ Idle!Init
             \/ config = "endless" /\ Idle!Init
             \/ config = "up" /\ Up!Init
             \/ config = "ends" /\ Ends!Init

InQueue == config = "queue" /\ UNCHANGED <<config, tunnelVars, endlessVars>>
InEndless == config = "endless" /\ UNCHANGED <<config, schedVars, tunnelVars>>
InUp == config = "up" /\ UNCHANGED <<config, endlessVars>>
InEnds == config = "ends" /\ UNCHANGED <<config, endlessVars>>

MCNext == \/ InQueue /\ Next
          \/ InEndless /\ (Endless_schedule \/ \E f \in {"f1", "f2"} : Endless_enqueue(f))
          \/ InUp /\ Up!Next
          \/ InEnds /\ Ends!Next

\* The fairness of PacketScheduler and of Transmitter.
MCFairSpec ==
  /\ MCInit /\ [][MCNext]_mcVars
  /\ WF_mcVars(\/ InUp /\ tpc # "read" /\ Up!ListenTun
               \/ InEnds /\ tpc # "read" /\ Ends!ListenTun)
  /\ WF_mcVars(\/ InQueue /\ SchedulePackets
               \/ InEndless /\ Endless_schedule
               \/ InUp /\ Up!SchedulePackets
               \/ InEnds /\ Ends!SchedulePackets)
  /\ WF_mcVars((InUp /\ Up!CollectUnused) \/ (InEnds /\ Ends!CollectUnused))
  /\ WF_mcVars((InUp /\ Up!ListenNet_accept) \/ (InEnds /\ Ends!ListenNet_accept))
  /\ \A e \in {"snd", "rcv"} :
       /\ WF_mcVars((InUp /\ Up!ListenNet_fails(e)) \/ (InEnds /\ Ends!ListenNet_fails(e)))
       /\ WF_mcVars((InUp /\ Up!SessionFollows(e)) \/ (InEnds /\ Ends!SessionFollows(e)))
  /\ \A s \in Up!Stream :
       WF_mcVars((InUp /\ Up!HandleStream(s)) \/ (InEnds /\ s = 1 /\ Ends!HandleStream(s)))
  /\ WF_mcVars((InUp /\ Up!WaitOutput) \/ (InEnds /\ Ends!WaitOutput))
-----------------------------------------------------------------------------
(* The liveness properties, each in the configurations it is about.        *)

\* A packet sent in place of the watched one: of a smaller endpoint, or of the same
\* and put in the channel while SchedulePackets held the watched one.
Overtakes(q) ==
  \/ Key(q.flow) < Key(watched)
  \/ Key(q.flow) = Key(watched) /\ q.id = CameWhileHeld
Overtaken == eHanded # <<>> /\ watched # "none" /\ Overtakes(eHanded[1])

\* While packets go on arriving, one in the channel is handed to sendPacket in the
\* end, unless ListenTun refills the channel while SchedulePackets holds packets,
\* which stops it for good, or the packet starves: the sort of every batch
\* (transmitter.go:72) sends a smaller endpoint first, again and again, and the
\* requeue (line 84) sends others of the same endpoint before it.  Nothing else
\* starves one: a packet of a larger endpoint never does.
HandedUnlessOvertaken ==
  \/ TheWatched \in Ids(eQueue) \cup Ids(eSlice) ~>
       TheWatched \in Ids(eHanded) \/ Endless!Wedged
  \/ []<>Overtaken

\* IdleFlowCollected of CollectUnused.
IdleFlowCollected == Up!IdleFlowCollected

\* HandedIsDelivered of the streams sendPacket writes.
HandedIsDelivered == config \in {"up", "ends"} => Up!HandedIsDelivered

\* SessionEndReturns of WaitOutput.
SessionEndReturns == Up!SessionEndReturns
=============================================================================

------------------------------ MODULE MCTunnel ------------------------------
(***************************************************************************)
(* Three instances of Transmitter for TLC in one state space, and a packet *)
(* that is marked by sendPacket: the variable config says which, and never *)
(* changes.  The constants of the cfg are those of T, the configuration    *)
(* "multi".                                                                *)
(***************************************************************************)
EXTENDS TunnelState, Sequences

\* "multi": two flows over a session that stays up; "failing": one flow of a
\* server, everything may fail; "single": no Multi_streams, all may fail;
\* "mark": the header of one packet.
VARIABLES config, header, marked

MCFlow == {"zero", "f1"}
MCSrc == [zero |-> 0, f1 |-> 1]
MCDst == [zero |-> 0, f1 |-> 1]

T == INSTANCE Transmitter
Failing == INSTANCE Transmitter WITH
             Flow <- {"zero"}, Src <- [zero |-> 0], Dst <- [zero |-> 0],
             Mode <- "server", StreamLimit <- 1, Failures <- TRUE,
             MaxPackets <- 2
Single == INSTANCE Transmitter WITH
            Mode <- "server", Multi_streams <- FALSE, StreamLimit <- 1,
            Window <- 2, Failures <- TRUE, MaxPackets <- 2

Ip == INSTANCE IpPacket WITH WordSize <- 8, HeaderWords <- 4, MaxOptions <- 1

NoHeader == header = <<>> /\ marked = FALSE

tunnelVars == <<toSendQueue, workingSlice, n, spc, enqueued, handed, atEnqueue,
                tpc, tflow, tstream, cpc, cflow, ppc, pstream,
                mapInteraction, mapQuicStream, nopen, streams, npc, naccepted,
                hpc, hpacket, up, waiting, alive, delivered, lost>>

mcVars == <<tunnelVars, config, header, marked>>

MCInit == \/ config = "multi" /\ T!Init /\ NoHeader
          \/ config = "failing" /\ Failing!Init /\ NoHeader
          \/ config = "single" /\ Single!Init /\ NoHeader
          \/ config = "mark" /\ T!Init /\ Ip!HeaderInit

MCNext == /\ UNCHANGED config
          /\ \/ config = "multi" /\ T!Next /\ UNCHANGED <<header, marked>>
             \/ config = "failing" /\ Failing!Next /\ UNCHANGED <<header, marked>>
             \/ config = "single" /\ Single!Next /\ UNCHANGED <<header, marked>>
             \/ config = "mark" /\ Ip!MarkECN /\ UNCHANGED tunnelVars

MCSpec == MCInit /\ [][MCNext]_mcVars
-----------------------------------------------------------------------------
(* The properties of Transmitter, each in the configuration it is about.   *)

\* MapIsExact of the map of streams that ListenTun and CollectUnused share.
MultiMapIsExact == config = "multi" => T!MapIsExact

\* StreamLimitSuffices: with as many flows as streams OpenStream is never refused.
MultiStreamLimitSuffices == config = "multi" => T!StreamLimitSuffices

\* SingleStreamReliable: a tunnel without Multi_streams drops no packet while
\* the session is up.
OneStreamReliable == config = "single" => Single!SingleStreamReliable

\* TunnelSpec, whose packets and places are in every configuration some of
\* those of T: each packet comes out at most once.
CarriesPackets == T!TunnelSpec

\* MarkedIsValid of the headers MarkECN changes.
HeaderStaysValid == config = "mark" => Ip!MarkedIsValid
=============================================================================

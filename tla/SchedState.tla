----------------------------- MODULE SchedState -----------------------------
(***************************************************************************)
(* The parameters and variables of the send queue of a VPN endpoint        *)
(* (PacketScheduler), which those of the tunnel (TunnelState) include.     *)
(***************************************************************************)
EXTENDS Integers, FiniteSets

CONSTANTS Flow,        \* gopacket.Flow values
          Src, Dst,    \* their endpoints, as ranks in the order of LessThan
          Mode,        \* vpnConfig.Mode
          QueueCap,    \* capacity of the channel toSendQueue (1000)
          MaxPackets   \* bound of the model: packets ListenTun reads

ASSUME SchedAssumption ==
  /\ QueueCap \in Nat \ {0}
  /\ MaxPackets \in Nat
  /\ Mode \in {"client", "server"}
  /\ Src \in [Flow -> Nat]
  /\ Dst \in [Flow -> Nat]
  /\ Flow # {}

VARIABLES toSendQueue,   \* the channel
          workingSlice,  \* packets SchedulePackets holds
          n,             \* receives left in its drain loop
          spc,           \* where SchedulePackets is
          enqueued,      \* packets ListenTun has enqueued so far
          handed,        \* history: the packets given to sendPacket, in order
          atEnqueue      \* history: what SchedulePackets held and had handed
                         \* out when packet i was enqueued
=============================================================================

----------------------------- MODULE TunnelState -----------------------------
(***************************************************************************)
(* The parameters and variables of a one-way tunnel (Transmitter).         *)
(***************************************************************************)
EXTENDS SchedState

CONSTANTS ZeroFlow,        \* gopacket.Flow{}
          Multi_streams,   \* vpnConfig.Multi_streams
          StreamLimit,     \* streams the peer allows to be open at a time
          Window,          \* datagrams a stream holds before Write blocks
          Failures         \* whether the session, the tun interface and
                           \* FindFlow may fail

\* A gopacket.Flow is made of arrays of a fixed size.
ASSUME TransmitterAssumption ==
  /\ IsFiniteSet(Flow) /\ ZeroFlow \in Flow
  /\ Multi_streams \in BOOLEAN
  /\ StreamLimit \in Nat \ {0}
  /\ Window \in Nat \ {0}
  /\ Failures \in BOOLEAN

VARIABLES tpc, tflow, tstream,            \* ListenTun
          cpc, cflow,                     \* CollectUnused
          ppc, pstream,                   \* sendPacket
          mapInteraction, mapQuicStream,  \* the two sync.Maps
          nopen, streams,                 \* the QUIC streams snd has opened
          npc, naccepted,                 \* ListenNet, at each endpoint
          hpc, hpacket,                   \* ListenNet_handleStream, per stream
          up,                             \* the session, seen from each endpoint
          waiting, alive,                 \* WaitOutput and the process
          delivered, lost                 \* history: ids written to rcv's tun,
                                          \* ids dropped on the way
=============================================================================

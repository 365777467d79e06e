----------------------------- MODULE MCExchange -----------------------------
(***************************************************************************)
(* The two users of the key exchange that quic_ssh is not, for TLC:        *)
(* quic_netcat (Netcat, which this module extends) and the VPN server      *)
(* (instance Vpn).  The variable program says which of the two runs.       *)
(***************************************************************************)
EXTENDS Netcat

CONSTANTS Host, Session, MaxPackets

\* The client has more to say.
MCMaxInput == [client |-> 2, server |-> 1]

\* One client is spoken to; the other takes its packets.
MCMaxPackets == [h1 |-> 2, h2 |-> 0]

VARIABLES program, hostOf, vpnServes, vpnAsks, client, handle, vpnUp, frames,
          tun, arrived, flow, queue, reading, collected, got, alive

Vpn == INSTANCE VpnServer WITH serves <- vpnServes, asks <- vpnAsks, up <- vpnUp

vpnVars == <<hostOf, vpnServes, vpnAsks, client, handle, vpnUp, frames,
             tun, arrived, flow, queue, reading, collected, got, alive>>
mcVars == <<program, netcatVars, vpnVars>>

InNetcat == program = "netcat" /\ UNCHANGED <<program, vpnVars>>
InVpn == program = "vpn" /\ UNCHANGED <<program, netcatVars>>

\* The program that does not run has one initial state.  The sessions are alike:
\* one of them is of the client that is spoken to.
MCInit ==
  /\ program \in {"netcat", "vpn"}
  /\ NetcatInit /\ Vpn!Init
  /\ program = "netcat" =>
       /\ vpnServes = FALSE /\ vpnAsks = FALSE
       /\ hostOf = [s \in Session |-> CHOOSE h \in Host : TRUE]
  /\ program = "vpn" =>
       /\ serves = FALSE /\ asks = FALSE
       /\ hostOf["s1"] = "h1"

MCNext == (InNetcat /\ NetcatNext) \/ (InVpn /\ Vpn!Next)

\* The fairness of Netcat and of VpnServer.  No step of either can be taken for
\* ever, so that to be fair to all the fair ones together is the same as to each
\* by itself: in the end none of them is enabled.
FairSteps ==
  \/ /\ InNetcat
     /\ \/ run["client"] = "exchange" /\ ServeClientPublicKey /\ UNCHANGED loopVars
        \/ run["server"] = "exchange" /\ AskClientPublicKey /\ UNCHANGED loopVars
        \/ runClient \/ runServer \/ Session_follows
        \/ \E e \in End : transmit(e) \/ loop(e)
  \/ /\ InVpn
     /\ \E s \in Session :
          Vpn!authenticateServer(s) \/ Vpn!Session_follows(s) \/ Vpn!Handle(s)

MCFairSpec == MCInit /\ [][MCNext]_mcVars /\ WF_mcVars(FairSteps)
-----------------------------------------------------------------------------
(* The properties of VpnServer.                                            *)

\* ExchangeOutcome of checkAuthenticity and of the two Check_key settings.
ExchangeOutcome == Vpn!ExchangeOutcome
\* SoleSessionKeepsPackets of the one tun interface.
SoleSessionKeepsPackets == Vpn!SoleSessionKeepsPackets
\* SenderIsServed, from waitControlStream to NewTransmitter.
SenderIsServed == Vpn!SenderIsServed
=============================================================================

-------------------------- MODULE MCSshForwarding --------------------------
(***************************************************************************)
(* The two models of a quic_ssh session as a whole, for TLC: the           *)
(* forwarded connections on its streams (ForwardingSession, which this     *)
(* module extends) and the goroutines of client and server that start and  *)
(* end it (instance Ssh of SshSession).  The variable model says which of  *)
(* the two goes on.                                                        *)
(***************************************************************************)
EXTENDS ForwardingSession

CONSTANTS Client, Port, MaxTyped, OtherError

\* One client, with any command line.
MCPort == [c1 |-> 1]

VARIABLES model, client, net, server, telnet, listener, serverAlive

Ssh == INSTANCE SshSession WITH alive <- serverAlive

sshVars == <<client, net, server, telnet, listener, serverAlive>>
mcVars == <<model, vars, sshVars>>

OfStreams == model = "streams" /\ UNCHANGED <<model, sshVars>>
OfSsh == model = "ssh" /\ UNCHANGED <<model, vars>>

\* The model that does not go on has one initial state.
MCInit ==
  /\ model \in {"streams", "ssh"}
  /\ Init
  /\ Ssh!Init
  /\ model = "streams" => \A c \in Client : client[c].mode = "login"

MCNext == (OfStreams /\ Next) \/ (OfSsh /\ Ssh!Next)

\* The fairness of ForwardingSession and of SshSession.  No step of either can be
\* taken for ever, so that to be fair to all the fair ones together is the same
\* as to each by itself: in the end none of them is enabled.
PeerReads(e, s) == q2t[Peer(e)][s] = "run" \/ ~Up(e)
FairSteps ==
  \/ /\ OfStreams
     /\ \/ runAsSource \/ runAsDestination \/ closeRemote("client") \/ closeRemote("server")
        \/ \E s \in Stream :
             \/ runAsSource_flow(s) \/ FirstFrame(s) \/ runAsDestination_flow(s)
             \/ \E e \in Side : readTCPSendQUIC(e, s) /\ PeerReads(e, s)
             \/ \E e \in Side : readQuicSendTCP(e, s)
  \/ /\ OfSsh
     /\ \E c \in Client :
          \/ Ssh!ClientProcess(c) \/ Ssh!Session_endSeen(c) \/ Ssh!ServerMain(c)
          \/ Ssh!RemoteLogin(c) \/ Ssh!RemoteForwarding(c)

MCFairSpec == MCInit /\ [][MCNext]_mcVars /\ WF_mcVars(FairSteps)
-----------------------------------------------------------------------------
(* The properties of SshSession.                                           *)

\* StoppedOnce of stopSessionChannel at the server.
StoppedOnce == Ssh!StoppedOnce
\* CrashNeedsForwarding of acceptNewStream, runAsDestination and stopListener.
CrashNeedsForwarding == Ssh!CrashNeedsForwarding
\* KeptNeedsRace of the listeners stopListener closes.
KeptNeedsRace == Ssh!KeptNeedsRace
\* EndIsNoticed by the main goroutine of the client's server.
EndIsNoticed == Ssh!EndIsNoticed
\* LogoutEndsClient, from lookForEndOfCommunication on.
LogoutEndsClient == Ssh!LogoutEndsClient
=============================================================================

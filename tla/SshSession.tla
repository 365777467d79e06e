----------------------------- MODULE SshSession -----------------------------
(***************************************************************************)
(* The clients of a quic_ssh server (server.go, client.go,                 *)
(* remote_login.go), from the first stream to the end of the session.      *)
(*                                                                         *)
(* For each client the server runs one main goroutine (the steps of Run)   *)
(* and, by the mode the client asks for, the goroutines of the remote      *)
(* login (receiveCommand, runTelnet, lookForEndOfCommunication and         *)
(* remoteLoginServerLoops),                                                *)
(* waitForClientStopRequest, and runAsDestination with the goroutine that  *)
(* opens a port for a client that asks for remote forwarding.  They meet   *)
(* on two unbuffered channels, errorChannel and stopSessionChannel, and in *)
(* listActiveListeners, a map that two of them use without a lock: a write *)
(* to it has a beginning and an end here.                                  *)
(*                                                                         *)
(* The exchange of keys is one step here (module ClientAuth), forwarded    *)
(* connections are left out (ForwardingSession), and so is the output of   *)
(* telnet, which sendOutputResult writes to the first stream.  telnet, the *)
(* network and the users are external.                                     *)
(***************************************************************************)
EXTENDS Naturals, FiniteSets

CONSTANTS Client,
          Port,       \* the port each client asks for, with -R
          MaxTyped,   \* bound of the model: commands a user types
          OtherError  \* whether sessions may end with an error other than
                      \* PeerGoingAway and NetworkIdleTimeout

VARIABLES client,    \* the goroutines of each client process
          net,       \* the session and its first stream
          server,    \* the goroutines of the server, for each client
          telnet,    \* the telnet process and the copy of its standard input
          listener,  \* the TCP listener of its remote forwarding
          alive      \* the server process

vars == <<client, net, server, telnet, listener, alive>>

\* What a client asks for on its command line, and whether with -R.
Mode == {"login", "forward", "both"}
Login(c) == client[c].mode \in {"login", "both"}
Forwards(c) == client[c].mode \in {"forward", "both"}

\* The sources of an end at the client: Read fails, or standard input ends
\* (remote login), or Ctrl-C (waitForExitRequest).
ClientGoroutine == {"reader", "input"}

PortTaken(p) == \E d \in Client : Port[d] = p /\ listener[d].state \in {"open", "registered"}
-----------------------------------------------------------------------------
Init ==
  /\ client \in [Client -> [mode : Mode, remote : BOOLEAN, main : {"start"},
                            loops : {"off"}, ended : {{}}]]
  /\ \A c \in Client : client[c].remote => Forwards(c)
  /\ net = [c \in Client |-> [up |-> FALSE, seen |-> "none", key |-> FALSE,
                              mode |-> FALSE, typed |-> 0, unread |-> 0,
                              request |-> FALSE]]
  /\ server = [c \in Client |-> [main |-> "accept", stop |-> "off", loops |-> "off",
                                 receive |-> "off", look |-> "off",
                                 streams |-> "off", request |-> "off"]]
  /\ telnet = [c \in Client |-> [run |-> "off", stdin |-> FALSE, said |-> FALSE]]
  /\ listener = [c \in Client |-> [state |-> "none", late |-> FALSE]]
  /\ alive = TRUE
-----------------------------------------------------------------------------
(* The client process. *)

\* openSession and OpenStreamSync; ServeClientPublicKey speaks first.
NewQuicSSHClient(c) ==
  /\ alive /\ client[c].main = "start"
  /\ client' = [client EXCEPT ![c].main = "mode"]
  /\ net' = [net EXCEPT ![c].up = TRUE, ![c].seen = "up", ![c].key = TRUE]
  /\ UNCHANGED <<server, telnet, listener, alive>>

\* launchRemoteLogin or waitForExitRequest, then Run waits on stopChannel.
Client_launch(c) ==
  client' = [client EXCEPT ![c].main = "wait",
                           ![c].loops = IF Login(c) THEN "error" ELSE "off"]

\* setServerMode, whose error is ignored.
setServerMode(c) ==
  /\ client[c].main = "mode"
  /\ IF client[c].remote THEN client' = [client EXCEPT ![c].main = "request"]
     ELSE Client_launch(c)
  /\ net' = IF net[c].up THEN [net EXCEPT ![c].mode = TRUE] ELSE net
  /\ UNCHANGED <<server, telnet, listener, alive>>

\* launchPortForwarding(false): a stream with the control message, or exit.
Client_launchPortForwarding(c) ==
  /\ client[c].main = "request"
  /\ \/ /\ net[c].up
        /\ Client_launch(c)
        /\ net' = [net EXCEPT ![c].request = TRUE]
     \/ /\ ~net[c].up
        /\ client' = [client EXCEPT ![c].main = "gone"]
        /\ UNCHANGED net
  /\ UNCHANGED <<server, telnet, listener, alive>>

\* writeMessageLoop: the user types a command.
writeMessageLoop(c) ==
  /\ Login(c) /\ client[c].main = "wait" /\ "input" \notin client[c].ended
  /\ net[c].up /\ net[c].typed < MaxTyped
  /\ net' = [net EXCEPT ![c].typed = @ + 1, ![c].unread = @ + 1]
  /\ UNCHANGED <<client, server, telnet, listener, alive>>

\* Standard input ends, or Ctrl-C without a remote login.
Client_inputEnds(c) ==
  /\ client[c].main = "wait" /\ "input" \notin client[c].ended
  /\ client' = [client EXCEPT ![c].ended = @ \cup {"input"}]
  /\ UNCHANGED <<net, server, telnet, listener, alive>>

\* receiveMessageLoop, or the first goroutine of waitForExitRequest.
receiveMessageLoop_fails(c) ==
  /\ client[c].main = "wait" /\ ~net[c].up /\ "reader" \notin client[c].ended
  /\ client' = [client EXCEPT ![c].ended = @ \cup {"reader"}]
  /\ UNCHANGED <<net, server, telnet, listener, alive>>

\* The first to end is received from errorChannel by remoteLoginClientLoops.
remoteLoginClientLoops(c) ==
  /\ client[c].main = "wait" /\ client[c].loops = "error"
  /\ client[c].ended # {}
  /\ client' = [client EXCEPT ![c].loops = "stop"]
  /\ UNCHANGED <<net, server, telnet, listener, alive>>

\* <-c.stopChannel, session.Close and the end of the process.
Client_stop(c) ==
  /\ client[c].main = "wait"
  /\ IF Login(c) THEN client[c].loops = "stop" ELSE client[c].ended # {}
  /\ client' = [client EXCEPT ![c].main = "gone"]
  /\ net' = [net EXCEPT ![c].up = FALSE]
  /\ UNCHANGED <<server, telnet, listener, alive>>

ClientProcess(c) ==
  \/ setServerMode(c) \/ Client_launchPortForwarding(c)
  \/ receiveMessageLoop_fails(c) \/ remoteLoginClientLoops(c) \/ Client_stop(c)
-----------------------------------------------------------------------------
(* The session. *)

\* It fails, as the client sees it.
Session_fails(c) ==
  /\ net[c].up
  /\ net' = [net EXCEPT ![c].up = FALSE]
  /\ UNCHANGED <<client, server, telnet, listener, alive>>

\* The server's endpoint learns of the end: the client has closed, or the idle
\* timeout; and the client's learns of the server's.
Session_endSeen(c) ==
  /\ \/ /\ net[c].seen = "up" /\ (~net[c].up \/ client[c].main = "gone")
        /\ net' = [net EXCEPT ![c].seen = "ended", ![c].up = FALSE]
     \/ /\ net[c].up /\ (net[c].seen # "up" \/ ~alive)
        /\ net' = [net EXCEPT ![c].up = FALSE]
  /\ UNCHANGED <<client, server, telnet, listener, alive>>

\* The server's endpoint closes it for another error.
Session_error(c) ==
  /\ OtherError /\ net[c].seen = "up"
  /\ net' = [net EXCEPT ![c].seen = "error"]
  /\ UNCHANGED <<client, server, telnet, listener, alive>>

Over(c) == net[c].seen \in {"ended", "error", "closed"}

\* session.Close at the server.
CloseSession(c) == net' = [net EXCEPT ![c].seen = IF @ = "up" THEN "closed" ELSE @]
-----------------------------------------------------------------------------
(* The main goroutine of the server for a client. *)

acceptNewClient(c) ==
  /\ alive /\ server[c].main = "accept" /\ net[c].seen # "none"
  /\ server' = [server EXCEPT ![c].main = "stream"]
  /\ UNCHANGED <<client, net, telnet, listener, alive>>

\* An error that is not the normal end of the session goes to Check, which
\* ends the process.
acceptNewStream(c) ==
  /\ alive /\ server[c].main = "stream"
  /\ \/ /\ net[c].key
        /\ server' = [server EXCEPT ![c].main = "allow"]
        /\ UNCHANGED <<net, alive>>
     \/ /\ net[c].seen = "ended"
        /\ server' = [server EXCEPT ![c].main = "return"]
        /\ CloseSession(c) /\ UNCHANGED alive
     \/ /\ net[c].seen = "error"
        /\ alive' = FALSE
        /\ UNCHANGED <<server, net>>
  /\ UNCHANGED <<client, telnet, listener>>

\* AskClientPublicKey and checkClientPublicKey: refused, or an error, or an
\* answer that comes in pieces, on which decodeInt panics.
allowClient(c) ==
  /\ alive /\ server[c].main = "allow"
  /\ \/ /\ ~Over(c)
        /\ server' = [server EXCEPT ![c].main = "mode"]
        /\ UNCHANGED <<net, alive>>
     \/ /\ server' = [server EXCEPT ![c].main = "return"]
        /\ CloseSession(c) /\ UNCHANGED alive
     \/ /\ server' = [server EXCEPT ![c].main = "panic"]
        /\ alive' = FALSE /\ UNCHANGED net
  /\ UNCHANGED <<client, telnet, listener>>

\* Mutant: the stop request is awaited with port forwarding in any mode.
askServerMode_stopToo(c) ==
  /\ alive /\ server[c].main = "mode"
  /\ \/ /\ net[c].mode
        /\ server' = [server EXCEPT
             ![c].main = "wait",
             ![c].streams = IF Forwards(c) THEN "accept" ELSE "off",
             ![c].loops = IF Login(c) THEN "error" ELSE "off",
             ![c].receive = IF Login(c) THEN "read" ELSE "off",
             ![c].look = IF Login(c) THEN "read" ELSE "off",
             ![c].stop = IF Forwards(c) THEN "read" ELSE "off"]
        /\ telnet' = IF Login(c) THEN [telnet EXCEPT ![c].run = "start"] ELSE telnet
        /\ UNCHANGED net
     \/ /\ Over(c)
        /\ server' = [server EXCEPT ![c].main = "return"]
        /\ CloseSession(c) /\ UNCHANGED telnet
  /\ UNCHANGED <<client, listener, alive>>

\* askServerMode, then the goroutines of the mode are started.
askServerMode(c) ==
  /\ alive /\ server[c].main = "mode"
  /\ \/ /\ net[c].mode
        /\ server' = [server EXCEPT
             ![c].main = "wait",
             ![c].streams = IF Forwards(c) THEN "accept" ELSE "off",
             ![c].loops = IF Login(c) THEN "error" ELSE "off",
             ![c].receive = IF Login(c) THEN "read" ELSE "off",
             ![c].look = IF Login(c) THEN "read" ELSE "off",
             ![c].stop = IF Login(c) THEN "off" ELSE "read"]
        /\ telnet' = IF Login(c) THEN [telnet EXCEPT ![c].run = "start"] ELSE telnet
        /\ UNCHANGED net
     \/ /\ Over(c)
        /\ server' = [server EXCEPT ![c].main = "return"]
        /\ CloseSession(c) /\ UNCHANGED telnet
  /\ UNCHANGED <<client, listener, alive>>

\* <-client.stopSessionChannel from the one or the other sender; Close.
stopSessionChannel(c) ==
  /\ alive /\ server[c].main = "wait"
  /\ \/ /\ server[c].loops = "stop"
        /\ server' = [server EXCEPT ![c].main = "stopListener", ![c].loops = "done"]
     \/ /\ server[c].stop = "stop"
        /\ server' = [server EXCEPT ![c].main = "stopListener", ![c].stop = "done"]
  /\ CloseSession(c)
  /\ UNCHANGED <<client, telnet, listener, alive>>

\* Mutant: the listeners are forgotten, not closed.
stopListener_forgets(c) ==
  /\ alive /\ server[c].main = "stopListener"
  /\ server' = [server EXCEPT ![c].main = "assign"]
  /\ UNCHANGED <<client, net, telnet, listener, alive>>

\* The listeners registered so far are read from the map and closed; the address
\* they are registered under is that of the session's first packet, and stays.
\* Then the map is written ...
stopListener(c) ==
  /\ alive /\ server[c].main = "stopListener"
  /\ server' = [server EXCEPT ![c].main = "assign"]
  /\ listener' = IF listener[c].state = "registered"
                 THEN [listener EXCEPT ![c].state = "closed"] ELSE listener
  /\ UNCHANGED <<client, net, telnet, alive>>

\* ... which ends here.
stopListener_assigned(c) ==
  /\ alive /\ server[c].main = "assign"
  /\ server' = [server EXCEPT ![c].main = "return"]
  /\ UNCHANGED <<client, net, telnet, listener, alive>>

\* One of the two accesses listActiveListeners while the other is writing to it:
\* if the Go runtime notices, that is the end of the process.
listActiveListeners_fault(c) ==
  /\ alive
  /\ \/ server[c].main = "stopListener" /\ server[c].request = "assign"
     \/ server[c].request = "register" /\ server[c].main = "assign"
  /\ alive' = FALSE
  /\ UNCHANGED <<client, net, server, telnet, listener>>

ServerMain(c) ==
  \/ acceptNewClient(c) \/ acceptNewStream(c) \/ allowClient(c) \/ askServerMode(c)
  \/ stopSessionChannel(c) \/ stopListener(c) \/ stopListener_assigned(c)
-----------------------------------------------------------------------------
(* The goroutines of the remote login. *)

\* cmd.Run starts telnet, which copies its standard input, or cannot, or telnet
\* finds no server and says so.
runTelnet(c) ==
  /\ alive /\ telnet[c].run = "start"
  /\ \E started \in BOOLEAN :
       telnet' = [telnet EXCEPT ![c].run = IF started THEN "running" ELSE "failed",
                                ![c].stdin = started]
  /\ UNCHANGED <<client, net, server, listener, alive>>

\* The shell ends, and telnet writes "Connection closed by foreign host"; or
\* telnet ends in another way.
Telnet_ends(c) ==
  /\ alive /\ telnet[c].run = "running"
  /\ \E said \in BOOLEAN :
       telnet' = [telnet EXCEPT ![c].run = IF said THEN "ended" ELSE "failed",
                                ![c].said = said]
  /\ UNCHANGED <<client, net, server, listener, alive>>

\* receiveCommand reads a command and writes it to the pipe ...
receiveCommand_read(c) ==
  /\ alive /\ server[c].receive = "read"
  /\ net[c].unread > 0
  /\ net' = [net EXCEPT ![c].unread = @ - 1]
  /\ server' = [server EXCEPT ![c].receive = "write"]
  /\ UNCHANGED <<client, telnet, listener, alive>>

\* ... whose reader stops at the first command it cannot pass to telnet.
receiveCommand_written(c) ==
  /\ alive /\ server[c].receive = "write" /\ telnet[c].stdin
  /\ server' = [server EXCEPT ![c].receive = "read"]
  /\ telnet' = [telnet EXCEPT ![c].stdin = telnet[c].run = "running"]
  /\ UNCHANGED <<client, net, listener, alive>>

\* Mutant: the goroutine returns without a report.
receiveCommand_fails_returns(c) ==
  /\ alive /\ server[c].receive = "read" /\ Over(c)
  /\ server' = [server EXCEPT ![c].receive = "off"]
  /\ UNCHANGED <<client, net, telnet, listener, alive>>

\* Read fails: the error is reported, again and again.
receiveCommand_fails(c) ==
  /\ alive /\ server[c].receive = "read" /\ Over(c)
  /\ server' = [server EXCEPT ![c].receive = "report"]
  /\ UNCHANGED <<client, net, telnet, listener, alive>>

\* Mutant: the words are read and not reported.
lookForEndOfCommunication_ignores(c) ==
  /\ alive /\ server[c].look = "read" /\ telnet[c].said
  /\ server' = [server EXCEPT ![c].look = "read"]
  /\ telnet' = [telnet EXCEPT ![c].said = FALSE]
  /\ UNCHANGED <<client, net, listener, alive>>

lookForEndOfCommunication(c) ==
  /\ alive /\ server[c].look = "read" /\ telnet[c].said
  /\ server' = [server EXCEPT ![c].look = "report"]
  /\ telnet' = [telnet EXCEPT ![c].said = FALSE]
  /\ UNCHANGED <<client, net, listener, alive>>

\* remoteLoginServerLoops receives the first error; the goroutine it comes from
\* goes on, and receiveCommand fails again.
remoteLoginServerLoops(c) ==
  /\ alive /\ server[c].loops = "error"
  /\ \/ /\ server[c].receive = "report"
        /\ server' = [server EXCEPT ![c].loops = "stop", ![c].receive = "read"]
     \/ /\ server[c].look = "report"
        /\ server' = [server EXCEPT ![c].loops = "stop", ![c].look = "read"]
  /\ UNCHANGED <<client, net, telnet, listener, alive>>

RemoteLogin(c) ==
  \/ runTelnet(c) \/ receiveCommand_read(c) \/ receiveCommand_written(c)
  \/ receiveCommand_fails(c) \/ lookForEndOfCommunication(c) \/ remoteLoginServerLoops(c)
-----------------------------------------------------------------------------
(* Port forwarding. *)

\* Mutant: what ReadFull waits for is not waited for.
waitForClientStopRequest_atOnce(c) ==
  /\ alive /\ server[c].stop = "read"
  /\ server' = [server EXCEPT ![c].stop = "stop"]
  /\ UNCHANGED <<client, net, telnet, listener, alive>>

\* The client of waitForClientStopRequest never writes: Read fails in the end.
waitForClientStopRequest(c) ==
  /\ alive /\ server[c].stop = "read" /\ Over(c)
  /\ server' = [server EXCEPT ![c].stop = "stop"]
  /\ UNCHANGED <<client, net, telnet, listener, alive>>

\* runAsDestination accepts the stream of the request, whose goroutine goes on
\* after the end of the session; an error that is not a normal end lets the
\* goroutine read from a nil stream, which ends the process.
runAsDestination(c) ==
  /\ alive /\ server[c].streams = "accept"
  /\ \/ /\ net[c].request /\ server[c].request = "off" /\ ~Over(c)
        /\ server' = [server EXCEPT ![c].request = "listen"]
        /\ UNCHANGED alive
     \/ /\ net[c].seen \in {"ended", "closed"}
        /\ server' = [server EXCEPT ![c].streams = "done"]
        /\ UNCHANGED alive
     \/ /\ net[c].seen = "error"
        /\ alive' = FALSE
        /\ UNCHANGED server
  /\ UNCHANGED <<client, net, telnet, listener>>

\* acceptLocalConnection: Listen, which fails for a port in use, by another
\* client or another program, and the client is told by writeError ...
acceptLocalConnection_listen(c) ==
  /\ alive /\ server[c].request = "listen"
  /\ \/ /\ server' = [server EXCEPT ![c].request = "done"]
        /\ UNCHANGED listener
     \/ /\ ~PortTaken(Port[c])
        /\ server' = [server EXCEPT ![c].request = "register"]
        /\ listener' = [listener EXCEPT ![c].state = "open"]
  /\ UNCHANGED <<client, net, telnet, alive>>

\* ... then the listener is registered under the address of the client: append
\* reads the map, and the write begins ...
acceptLocalConnection_append(c) ==
  /\ alive /\ server[c].request = "register"
  /\ server' = [server EXCEPT ![c].request = "assign"]
  /\ UNCHANGED <<client, net, telnet, listener, alive>>

\* ... and ends.  It is late when stopListener has read the map already.
acceptLocalConnection_register(c) ==
  /\ alive /\ server[c].request = "assign"
  /\ server' = [server EXCEPT ![c].request = "accept"]
  /\ listener' = [listener EXCEPT ![c].state = "registered",
                                  ![c].late = server[c].main \in {"assign", "return"}]
  /\ UNCHANGED <<client, net, telnet, alive>>

\* TCPListener.Accept returns an error once the listener is closed.
runAsSource_ends(c) ==
  /\ alive /\ server[c].request = "accept" /\ listener[c].state = "closed"
  /\ server' = [server EXCEPT ![c].request = "done"]
  /\ UNCHANGED <<client, net, telnet, listener, alive>>

RemoteForwarding(c) ==
  \/ waitForClientStopRequest(c) \/ runAsDestination(c)
  \/ acceptLocalConnection_listen(c) \/ acceptLocalConnection_append(c)
  \/ acceptLocalConnection_register(c) \/ runAsSource_ends(c)
-----------------------------------------------------------------------------
Next ==
  \E c \in Client :
    \/ NewQuicSSHClient(c) \/ ClientProcess(c)
    \/ writeMessageLoop(c) \/ Client_inputEnds(c)
    \/ Session_fails(c) \/ Session_endSeen(c) \/ Session_error(c)
    \/ ServerMain(c) \/ listActiveListeners_fault(c)
    \/ RemoteLogin(c) \/ Telnet_ends(c)
    \/ RemoteForwarding(c)

Spec == Init /\ [][Next]_vars

\* Every goroutine that can go on does and the end of a session is noticed;
\* users, telnet and failures are up to the environment.
FairSpec ==
  /\ Spec
  /\ \A c \in Client :
       /\ WF_vars(ClientProcess(c))
       /\ WF_vars(Session_endSeen(c))
       /\ WF_vars(ServerMain(c))
       /\ WF_vars(RemoteLogin(c))
       /\ WF_vars(RemoteForwarding(c))
-----------------------------------------------------------------------------
(* What holds of it.                                                       *)

\* The type of the variables.
TypeOK ==
  /\ client \in [Client -> [mode : Mode, remote : BOOLEAN,
                            main : {"start", "mode", "request", "wait", "gone"},
                            loops : {"off", "error", "stop"},
                            ended : SUBSET ClientGoroutine]]
  /\ net \in [Client -> [up : BOOLEAN, seen : {"none", "up", "ended", "error", "closed"},
                         key : BOOLEAN, mode : BOOLEAN, typed : 0..MaxTyped,
                         unread : 0..MaxTyped, request : BOOLEAN]]
  /\ server \in [Client -> [main : {"accept", "stream", "allow", "mode", "wait",
                                    "stopListener", "assign", "return", "panic"},
                            stop : {"off", "read", "stop", "done"},
                            loops : {"off", "error", "stop", "done"},
                            receive : {"off", "read", "write", "report"},
                            look : {"off", "read", "report"},
                            streams : {"off", "accept", "done"},
                            request : {"off", "listen", "register", "assign", "accept", "done"}]]
  /\ telnet \in [Client -> [run : {"off", "start", "running", "failed", "ended"},
                            stdin : BOOLEAN, said : BOOLEAN]]
  /\ listener \in [Client -> [state : {"none", "open", "registered", "closed"}, late : BOOLEAN]]
  /\ alive \in BOOLEAN

\* stopSessionChannel is unbuffered and received from once: of the goroutines
\* that may send on it, remoteLoginServerLoops and that of
\* waitForClientStopRequest, only one ever does, and none after the receive.
StoppedOnce ==
  \A c \in Client :
    /\ server[c].stop # "off" => server[c].loops = "off"
    /\ server[c].main # "wait" => server[c].stop # "stop" /\ server[c].loops # "stop"

\* A client that has been admitted ends the server for the others only by port
\* forwarding, one that only logs in never does: by an error of its session, or,
\* with -R, because its session ended, or telnet did, before the listener it
\* asked for was registered, so that acceptLocalConnection and stopListener met
\* in listActiveListeners.
MetInTheMap(c) ==
  /\ client[c].remote /\ listener[c].state = "open"
  /\ net[c].seen = "ended" \/ telnet[c].run = "ended"

CrashNeedsForwarding ==
  alive \/ \E c \in Client : \/ server[c].main \in {"stream", "panic"}
                             \/ Forwards(c) /\ net[c].seen = "error"
                             \/ MetInTheMap(c)

\* A port is kept after its client has been served only when its listener was
\* registered after stopListener had looked for it.
Kept(c) == listener[c].state = "registered" /\ server[c].main = "return"
KeptNeedsRace == \A c \in Client : Kept(c) => listener[c].late

\* receiveCommand waits in Write: telnet has ended, but not by the words that
\* lookForEndOfCommunication looks for, and nobody reads the pipe.
StuckInPipe(c) ==
  server[c].receive = "write" /\ ~telnet[c].stdin /\ telnet[c].run = "failed"

\* The end of a session is noticed by the main goroutine of its client, but for
\* a receiveCommand that waits in the pipe.
EndIsNoticed ==
  \A c \in Client : Over(c) ~> \/ server[c].main = "return"
                             \/ StuckInPipe(c) \/ ~alive

\* The words "Connection closed by foreign host" end the session and the client:
\* the whole way from lookForEndOfCommunication through errorChannel and
\* stopSessionChannel, the session, and the two channels of the client.
LogoutEndsClient ==
  \A c \in Client : telnet[c].run = "ended" ~> client[c].main = "gone"
=============================================================================

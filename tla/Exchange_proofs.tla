--------------------------- MODULE Exchange_proofs ---------------------------
(***************************************************************************)
(* Proofs about the two programs that use the exchange of keys and are not *)
(* quic_ssh (MCExchange).                                                  *)
(*                                                                         *)
(* About VpnServer (instance Vpn), for every set of hosts and sessions:    *)
(* the types of its variables, what the exchange of keys may do to the     *)
(* server, and which packets reach the host they are for.                  *)
(*                                                                         *)
(* About Netcat, for every size of the fields and every length of the      *)
(* input: the types, the verdict of the server on an honest client, and    *)
(* that the output at one end is the input at the other.                   *)
(*                                                                         *)
(* About both: the exchange of keys as ClientAuth has it, byte by byte,    *)
(* implements the outcomes of it that VpnServer keeps.                     *)
(***************************************************************************)
EXTENDS MCExchange, SequenceTheorems, TLAPS

\* The types of the variables, without the bound of the model.
StartType ==
  /\ hostOf \in [Session -> Host]
  /\ vpnServes \in BOOLEAN /\ vpnAsks \in BOOLEAN /\ alive \in BOOLEAN
  /\ client \in [Session -> {"dial", "serve", "run", "gone", "killed"}]
  /\ handle \in [Session -> {"none", "control", "ask", "verify", "start", "run", "gone", "garbled"}]
  /\ vpnUp \in [Session -> BOOLEAN] /\ frames \in [Session -> BOOLEAN]
TunType ==
  /\ flow \in [Session -> [Host -> Vpn!FlowState]]
  /\ queue \in [Session -> [Host -> Nat]]
  /\ reading \in [Session -> {"off", "on", "failed"}]
  /\ collected \in [Session -> SUBSET Host]
  /\ tun \in [Host -> Nat] /\ arrived \in [Host -> Nat] /\ got \in [Host -> Nat]

\* How far each end of a session is, by the two settings: the client goes on
\* when it is asked, the server when it is answered.
Exchanged ==
  \A s \in Session :
    /\ client[s] = "dial" => handle[s] = "none" /\ ~vpnUp[s]
    /\ client[s] = "serve" => vpnServes
    /\ handle[s] \in {"ask", "verify", "garbled"} => vpnAsks
    /\ handle[s] = "verify" => vpnServes
    /\ vpnAsks /\ handle[s] \in {"start", "run"} =>
         vpnServes /\ client[s] \notin {"dial", "serve"}
    /\ vpnServes /\ ~vpnAsks /\ client[s] = "run" => ~vpnUp[s]

\* Only a session whose Transmitter has been started reads packets; then the
\* server asks for no key that the client does not serve, and the client is past
\* the exchange, if the settings agree.
ReadersHaveRun ==
  \A s \in Session : reading[s] # "off" =>
    /\ handle[s] \in {"run", "gone"}
    /\ vpnAsks => vpnServes
    /\ vpnServes = vpnAsks => client[s] \notin {"dial", "serve"}

\* Before that it has no flow and no packet in its queue.  A packet in the queue
\* has an open stream until the flow is closed.
FlowsAreOpen ==
  \A s \in Session, h \in Host :
    /\ reading[s] = "off" => flow[s][h] = "none" /\ queue[s][h] = 0
    /\ h \notin collected[s] => flow[s][h] \in {"none", "open"}
    /\ h \notin collected[s] /\ queue[s][h] > 0 => flow[s][h] = "open"

\* SoleSessionKeepsPackets from the beginning of the session on, as long as its
\* client can be served while the session is up.
NoOther(s) == \A t \in Session \ {s} : handle[t] \notin {"run", "gone"}
Lasts(s) == \/ client[s] = "dial" \/ (client[s] = "serve" /\ vpnAsks)
            \/ (vpnUp[s] /\ client[s] = "run")
Intact(s) == reading[s] # "failed" /\ hostOf[s] \notin collected[s]
AllKept(s) == arrived[hostOf[s]] = tun[hostOf[s]] + queue[s][hostOf[s]] + got[hostOf[s]]
NothingLostYet ==
  \A s \in Session : Lasts(s) /\ NoOther(s) /\ Intact(s) => AllKept(s)

\* The inductive invariant.
VpnInv ==
  /\ StartType /\ TunType
  /\ Exchanged /\ Vpn!CrashNeedsLeave
  /\ ReadersHaveRun /\ FlowsAreOpen /\ NothingLostYet

\* Initially no session has begun.
LEMMA VpnInvInit == Vpn!Init => VpnInv
  BY DEF Vpn!Init, VpnInv, StartType, TunType, Vpn!FlowState, Exchanged, Vpn!CrashNeedsLeave,
         ReadersHaveRun, FlowsAreOpen, NothingLostYet, Lasts, NoOther, Intact, AllKept

\* A step of the client or of the session: what the server has counted stays.
LEMMA ClientStep ==
  ASSUME VpnInv, NEW s \in Session,
         \/ Vpn!Client_dial(s) \/ Vpn!authenticateServer(s) \/ Vpn!Client_sends(s)
         \/ Vpn!Client_ends(s) \/ Vpn!Session_ends(s)
  PROVE  VpnInv'
<1>1. UNCHANGED <<hostOf, vpnServes, vpnAsks, Vpn!tunVars, alive>>
  BY DEF Vpn!Client_dial, Vpn!authenticateServer, Vpn!Client_sends, Vpn!Client_ends,
     Vpn!Session_ends
<1>2. StartType'
  BY DEF VpnInv, StartType, Vpn!Client_dial, Vpn!authenticateServer, Vpn!Client_sends,
         Vpn!Client_ends, Vpn!Session_ends
<1>8. TunType' /\ FlowsAreOpen'
  BY <1>1 DEF VpnInv, TunType, FlowsAreOpen, Vpn!tunVars, Vpn!flowVars
<1>3. Exchanged'
  BY DEF VpnInv, StartType, Exchanged,
         Vpn!Client_dial, Vpn!authenticateServer, Vpn!Client_sends, Vpn!Client_ends,
         Vpn!Session_ends
<1>4. Vpn!CrashNeedsLeave'
  BY DEF VpnInv, StartType, Vpn!CrashNeedsLeave,
         Vpn!Client_dial, Vpn!authenticateServer, Vpn!Client_sends, Vpn!Client_ends,
         Vpn!Session_ends
<1>5. ReadersHaveRun'
  BY DEF VpnInv, StartType, TunType, Exchanged, ReadersHaveRun, Vpn!tunVars, Vpn!flowVars,
         Vpn!Client_dial, Vpn!authenticateServer, Vpn!Client_sends, Vpn!Client_ends,
         Vpn!Session_ends
<1>6. \A t \in Session : (Lasts(t)' => Lasts(t)) /\ (NoOther(t)' => NoOther(t))
  BY DEF VpnInv, StartType, Exchanged, Lasts, NoOther,
         Vpn!Client_dial, Vpn!authenticateServer, Vpn!Client_sends, Vpn!Client_ends,
         Vpn!Session_ends
<1>7. NothingLostYet'
  BY <1>1, <1>6 DEF VpnInv, NothingLostYet, Intact, AllKept, Vpn!tunVars, Vpn!flowVars
<1> QED
  BY <1>2, <1>3, <1>4, <1>5, <1>7, <1>8 DEF VpnInv

\* A step of Handle, which begins the Transmitter of its session.
LEMMA HandleStep ==
  ASSUME VpnInv, NEW s \in Session,
         Vpn!Handle(s) \/ Vpn!checkAuthenticity_garbled(s)
  PROVE  VpnInv'
<1> USE DEF Vpn!Handle, Vpn!waitControlStream, Vpn!checkAuthenticity_ask,
            Vpn!checkAuthenticity_verify,
            Vpn!checkAuthenticity_noKey, Vpn!checkAuthenticity_short,
            Vpn!checkAuthenticity_garbled, Vpn!Handle_start, Vpn!WaitOutput
<1>1. /\ UNCHANGED <<hostOf, vpnServes, vpnAsks, client, frames, tun, arrived, flow, queue,
                     collected, got>>
      /\ \/ UNCHANGED reading
         \/ handle[s] = "start" /\ reading' = [reading EXCEPT ![s] = "on"]
  BY DEF Vpn!tunVars, Vpn!flowVars, Vpn!startVars
<1>2. StartType' /\ TunType'
  BY <1>1 DEF VpnInv, StartType, TunType, Vpn!startVars
<1>3. Exchanged'
  BY DEF VpnInv, StartType, Exchanged, Vpn!startVars
<1>4. Vpn!CrashNeedsLeave'
  BY DEF VpnInv, StartType, Vpn!CrashNeedsLeave, Vpn!startVars
<1>5. ReadersHaveRun'
  <2>1. CASE UNCHANGED reading
    <3>1. \A t \in Session : handle[t] \in {"run", "gone"} => handle'[t] \in {"run", "gone"}
      BY DEF VpnInv, StartType, Vpn!startVars
    <3> QED
      BY <1>1, <2>1, <3>1 DEF VpnInv, ReadersHaveRun
  <2>2. CASE ~UNCHANGED reading
    <3>1. Vpn!Handle_start(s)
      BY <2>2 DEF Vpn!tunVars, Vpn!flowVars
    <3>2. handle' = [handle EXCEPT ![s] = "run"] /\ handle[s] = "start"
      BY <3>1
    <3> QED
      BY <1>1, <3>2 DEF VpnInv, StartType, TunType, Exchanged, ReadersHaveRun
  <2> QED
    BY <2>1, <2>2
<1>6. \A t \in Session : (Lasts(t)' => Lasts(t)) /\ (NoOther(t)' => NoOther(t))
  BY DEF VpnInv, StartType, Exchanged, Lasts, NoOther, Vpn!startVars
<1>7. FlowsAreOpen' /\ \A t \in Session : Intact(t)' => Intact(t)
  BY <1>1 DEF VpnInv, TunType, ReadersHaveRun, FlowsAreOpen, Intact
<1>8. NothingLostYet'
  BY <1>1, <1>6, <1>7 DEF VpnInv, NothingLostYet, AllKept
<1> QED
  BY <1>2, <1>3, <1>4, <1>5, <1>7, <1>8 DEF VpnInv

\* A step of the Transmitter of s takes a packet from the interface or the queue
\* of s; it loses one of its own host only as Intact says.
LEMMA TransmitterStep ==
  ASSUME VpnInv, NEW s \in Session, NEW h \in Host, Vpn!Transmitter(s, h)
  PROVE  VpnInv'
<1> USE DEF Vpn!Transmitter, Vpn!ListenTun, Vpn!ListenTun_fails, Vpn!sendPacket,
            Vpn!CollectUnused
<1>1. UNCHANGED <<Vpn!startVars, arrived, alive>>
  OBVIOUS
<1>2. StartType' /\ Exchanged' /\ Vpn!CrashNeedsLeave'
  BY <1>1 DEF VpnInv, Vpn!startVars, StartType, Exchanged, Vpn!CrashNeedsLeave
<1>3. TunType'
  <2>1. tun' \in [Host -> Nat] /\ got' \in [Host -> Nat] /\ arrived' \in [Host -> Nat]
    BY <1>1 DEF VpnInv, TunType
  <2>2. reading' \in [Session -> {"off", "on", "failed"}]
    BY DEF VpnInv, TunType
  <2>3. flow' \in [Session -> [Host -> Vpn!FlowState]]
    <3>1. flow \in [Session -> [Host -> Vpn!FlowState]]
      BY DEF VpnInv, TunType
    <3>2. flow' = flow \/ \E f \in Vpn!FlowState : flow' = [flow EXCEPT ![s][h] = f]
      BY <3>1 DEF Vpn!FlowState
    <3> QED
      BY <3>1, <3>2
  <2>4. queue' \in [Session -> [Host -> Nat]]
    <3>1. queue \in [Session -> [Host -> Nat]]
      BY DEF VpnInv, TunType
    <3>2. queue[s][h] \in Nat
      BY <3>1
    <3>3. \/ queue' = queue
          \/ queue' = [queue EXCEPT ![s][h] = queue[s][h] + 1]
          \/ queue[s][h] > 0 /\ queue' = [queue EXCEPT ![s][h] = queue[s][h] - 1]
      OBVIOUS
    <3>4. PICK n \in Nat : queue' = queue \/ queue' = [queue EXCEPT ![s][h] = n]
      BY <3>2, <3>3
    <3> QED
      BY <3>1, <3>4
  <2>5. collected' = collected \/ collected' = [collected EXCEPT ![s] = collected[s] \cup {h}]
    OBVIOUS
  <2>6. collected' \in [Session -> SUBSET Host]
    <3>1. collected \in [Session -> SUBSET Host]
      BY DEF VpnInv, TunType
    <3>2. collected[s] \cup {h} \in SUBSET Host
      BY <3>1
    <3> QED
      BY <2>5, <3>1, <3>2
  <2> QED
    BY <2>1, <2>2, <2>3, <2>4, <2>6 DEF TunType
<1>4. ReadersHaveRun'
  BY <1>1 DEF VpnInv, TunType, ReadersHaveRun, Vpn!startVars
<1>5. FlowsAreOpen'
  <2>1. CASE Vpn!ListenTun(s, h)
    BY <2>1 DEF VpnInv, TunType, FlowsAreOpen
  <2>2. CASE Vpn!ListenTun_fails(s)
    BY <2>2 DEF VpnInv, TunType, FlowsAreOpen
  <2>3. CASE Vpn!sendPacket(s, h)
    BY <2>3 DEF VpnInv, TunType, FlowsAreOpen
  <2>4. CASE Vpn!CollectUnused(s, h)
    BY <2>4 DEF VpnInv, TunType, FlowsAreOpen
  <2> QED
    BY <2>1, <2>2, <2>3, <2>4
<1>6. reading[s] # "off"
  BY DEF VpnInv, TunType, FlowsAreOpen
<1>7. ASSUME NEW t \in Session, Lasts(t), NoOther(t), Intact(t)'
      PROVE  AllKept(t)'
  <2>1. s = t
    BY <1>6, <1>7 DEF VpnInv, ReadersHaveRun, NoOther
  <2>2. vpnUp[t] /\ client[t] = "run" /\ hostOf[t] \in Host /\ hostOf' = hostOf
    BY <1>1, <1>6, <1>7, <2>1 DEF VpnInv, StartType, Exchanged, ReadersHaveRun, Lasts,
                                  Vpn!startVars
  <2>3. Intact(t)
    BY <1>7, <2>1, <2>2 DEF VpnInv, TunType, Intact
  <2>4. AllKept(t)
    BY <1>7, <2>3 DEF VpnInv, NothingLostYet
  <2>5. CASE Vpn!ListenTun(s, h)
    BY <1>1, <2>1, <2>2, <2>4, <2>5 DEF VpnInv, TunType, AllKept
  <2>6. CASE Vpn!ListenTun_fails(s)
    BY <1>7, <2>1, <2>6 DEF VpnInv, TunType, Intact
  <2>7. CASE Vpn!sendPacket(s, h)
    <3>1. h = hostOf[s] => flow[s][h] = "open"
      BY <2>1, <2>3, <2>7 DEF VpnInv, FlowsAreOpen, Intact
    <3> QED
      BY <1>1, <2>1, <2>2, <2>4, <2>7, <3>1 DEF VpnInv, TunType, AllKept
  <2>8. CASE Vpn!CollectUnused(s, h)
    BY <1>1, <2>2, <2>4, <2>8 DEF AllKept
  <2> QED
    BY <2>5, <2>6, <2>7, <2>8
<1>8. NothingLostYet'
  BY <1>1, <1>7 DEF NothingLostYet, Lasts, NoOther, Vpn!startVars
<1> QED
  BY <1>2, <1>3, <1>4, <1>5, <1>8 DEF VpnInv

\* Every step preserves the invariant.
LEMMA VpnInvStep == VpnInv /\ [Vpn!Next]_(Vpn!vars) => VpnInv'
<1> SUFFICES ASSUME VpnInv, [Vpn!Next]_(Vpn!vars) PROVE VpnInv'
  OBVIOUS
<1>1. CASE UNCHANGED Vpn!vars
  <2>1. StartType' /\ TunType' /\ Exchanged' /\ Vpn!CrashNeedsLeave'
    BY <1>1 DEF Vpn!vars, Vpn!startVars, Vpn!tunVars, Vpn!flowVars, VpnInv, StartType, TunType,
                Exchanged, Vpn!CrashNeedsLeave
  <2>2. ReadersHaveRun' /\ FlowsAreOpen' /\ NothingLostYet'
    BY <1>1 DEF Vpn!vars, Vpn!startVars, Vpn!tunVars, Vpn!flowVars, VpnInv, ReadersHaveRun,
                FlowsAreOpen, NothingLostYet, Lasts, NoOther, Intact, AllKept
  <2> QED
    BY <2>1, <2>2 DEF VpnInv
<1>2. ASSUME NEW h \in Host, Vpn!Packet_arrives(h) PROVE VpnInv'
  <2>1. UNCHANGED <<Vpn!startVars, Vpn!flowVars, got, alive>>
    BY <1>2 DEF Vpn!Packet_arrives
  <2>2. /\ tun \in [Host -> Nat] /\ arrived \in [Host -> Nat]
        /\ tun' \in [Host -> Nat] /\ arrived' \in [Host -> Nat]
        /\ \A g \in Host : arrived'[g] - tun'[g] = arrived[g] - tun[g]
    <3>1. tun \in [Host -> Nat] /\ arrived \in [Host -> Nat]
      BY DEF VpnInv, TunType
    <3>2. /\ tun' = [tun EXCEPT ![h] = tun[h] + 1]
          /\ arrived' = [arrived EXCEPT ![h] = arrived[h] + 1]
      BY <1>2 DEF Vpn!Packet_arrives
    <3> QED
      BY <3>1, <3>2
  <2>7. TunType'
    BY <2>1, <2>2 DEF VpnInv, TunType, Vpn!flowVars
  <2>3. StartType' /\ Exchanged' /\ Vpn!CrashNeedsLeave' /\ ReadersHaveRun'
    BY <2>1 DEF VpnInv, Vpn!startVars, Vpn!flowVars, StartType, Exchanged, Vpn!CrashNeedsLeave,
                ReadersHaveRun
  <2>4. FlowsAreOpen'
    BY <2>1 DEF VpnInv, Vpn!flowVars, FlowsAreOpen
  <2>5. \A t \in Session : AllKept(t) => AllKept(t)'
    <3> TAKE t \in Session
    <3>1. hostOf[t] \in Host /\ queue[t][hostOf[t]] \in Nat /\ got[hostOf[t]] \in Nat
      BY DEF VpnInv, StartType, TunType
    <3>2. UNCHANGED <<hostOf, queue, got>>
      BY <2>1 DEF Vpn!startVars, Vpn!flowVars
    <3> QED
      BY <2>2, <3>1, <3>2 DEF AllKept
  <2>6. NothingLostYet'
    BY <2>1, <2>5 DEF VpnInv, Vpn!startVars, Vpn!flowVars, NothingLostYet, Lasts, NoOther, Intact
  <2> QED
    BY <2>3, <2>4, <2>6, <2>7 DEF VpnInv
<1> QED
  BY <1>1, <1>2, ClientStep, HandleStep, TransmitterStep DEF Vpn!Next

\* The server ends only when a client has left the exchange or has answered in
\* pieces; with two different settings no session carries packets both ways.
THEOREM ExchangeIsSafe == Vpn!Spec => []ExchangeOutcome
<1>1. VpnInv => ExchangeOutcome
  BY DEF ExchangeOutcome, VpnInv, StartType, Exchanged, Vpn!ExchangeOutcome, Vpn!MismatchStalls
<1> QED
  BY <1>1, VpnInvInit, VpnInvStep, PTL DEF Vpn!Spec

\* The variables keep their types.
THEOREM VpnTypeCorrect == ASSUME MaxPackets \in [Host -> Nat] PROVE Vpn!Spec => []Vpn!TypeOK
<1> DEFINE Bounded == \A h \in Host : arrived[h] <= MaxPackets[h]
<1>1. Vpn!Init => Bounded
  BY DEF Vpn!Init
<1>2. VpnInv /\ Bounded /\ [Vpn!Next]_(Vpn!vars) => Bounded'
  <2> SUFFICES ASSUME VpnInv, Bounded, [Vpn!Next]_(Vpn!vars) PROVE Bounded'
    OBVIOUS
  <2>1. CASE \E h \in Host : Vpn!Packet_arrives(h)
    BY <2>1 DEF Vpn!Packet_arrives, VpnInv, TunType
  <2>2. CASE UNCHANGED arrived
    BY <2>2
  <2> QED
    BY <2>1, <2>2
       DEF Vpn!Next, Vpn!vars, Vpn!tunVars, Vpn!startVars, Vpn!Client_dial,
       Vpn!authenticateServer, Vpn!Client_sends,
           Vpn!Client_ends, Vpn!Session_ends, Vpn!Handle, Vpn!waitControlStream,
           Vpn!checkAuthenticity_ask,
           Vpn!checkAuthenticity_verify, Vpn!checkAuthenticity_noKey,
           Vpn!checkAuthenticity_short, Vpn!checkAuthenticity_garbled,
           Vpn!Handle_start, Vpn!WaitOutput, Vpn!Transmitter, Vpn!ListenTun,
           Vpn!ListenTun_fails, Vpn!sendPacket, Vpn!CollectUnused
<1>3. VpnInv /\ Bounded => Vpn!TypeOK
  BY DEF VpnInv, StartType, TunType, Vpn!TypeOK
<1> QED
  BY <1>1, <1>2, <1>3, VpnInvInit, VpnInvStep, PTL DEF Vpn!Spec

\* While the only session with a Transmitter lasts, every packet for its client
\* is at the interface, in its queue or sent to the client, unless ListenTun has
\* failed or the stream of the flow has been closed.
THEOREM OneReaderKeepsPackets == Vpn!Spec => []SoleSessionKeepsPackets
<1>1. VpnInv => SoleSessionKeepsPackets
  BY DEF SoleSessionKeepsPackets, VpnInv, NothingLostYet, Lasts, NoOther, Intact, AllKept,
         Vpn!SoleSessionKeepsPackets
<1> QED
  BY <1>1, VpnInvInit, VpnInvStep, PTL DEF Vpn!Spec
-----------------------------------------------------------------------------
(***************************************************************************)
(* quic_netcat: what goes over the stream of Netcat.                       *)
(*                                                                         *)
(* Each end reads the beginning of one infinite word: the client Told, the *)
(* nonce and then the input of the server, the server Asked, the dummy     *)
(* byte, the answer field by field and then the input of the client.  The  *)
(* bytes on the way are the part of the word from where the reader is to   *)
(* where the writer is.                                                    *)
(***************************************************************************)

\* The places in the words: where each field begins, and the input (Start).
Base == 1 + NonceSize + 2 * IntSize + KeySize + SignatureSize
Begin == [rb |-> 1, keySize |-> 1 + NonceSize, key |-> 1 + NonceSize + IntSize,
          signatureSize |-> 1 + NonceSize + IntSize + KeySize,
          signature |-> 1 + NonceSize + 2 * IntSize + KeySize]
Asked == [p \in Nat |->
  IF p <= 1 THEN <<"dummy", p>>
  ELSE IF p <= Begin.keySize THEN <<"rb", p - 1>>
  ELSE IF p <= Begin.key THEN <<"keySize", p - Begin.keySize>>
  ELSE IF p <= Begin.signatureSize THEN <<"key", p - Begin.key>>
  ELSE IF p <= Begin.signature THEN <<"signatureSize", p - Begin.signatureSize>>
  ELSE IF p <= Base THEN <<"signature", p - Begin.signature>>
  ELSE <<"client", p - Base>>]
Told == [p \in Nat |-> IF p <= NonceSize THEN <<"ra", p>> ELSE <<"server", p - NonceSize>>]
Word(e) == IF e = "client" THEN Told ELSE Asked
Start(e) == IF e = "client" THEN NonceSize ELSE Base

\* s is what the word w goes on with after its first p bytes.
Part(w, s, p) == \A i \in 1..Len(s) : s[i] = w[p + i]

\* The fields of the answer, and what follows each.
LEMMA Fields == AnswerField = {"rb", "keySize", "key", "signatureSize", "signature"}
  BY DEF AnswerField, SizeOf

\* What After says of each field.
LEMMA AfterFields ==
  ASSUME NEW x
  PROVE  /\ After("rb", x) = "keySize" /\ After("keySize", x) = "key"
         /\ After("key", x) = "signatureSize"
         /\ After("signatureSize", x) = "signature" /\ After("signature", x) = x
<1>1. 1..5 = {1, 2, 3, 4, 5}
  OBVIOUS
<1>2. (CHOOSE i \in 1..5 : Order[i] = "rb") = 1
  BY <1>1 DEF Order
<1>3. (CHOOSE i \in 1..5 : Order[i] = "keySize") = 2
  BY <1>1 DEF Order
<1>4. (CHOOSE i \in 1..5 : Order[i] = "key") = 3
  BY <1>1 DEF Order
<1>5. (CHOOSE i \in 1..5 : Order[i] = "signatureSize") = 4
  BY <1>1 DEF Order
<1> QED
  BY <1>2, <1>3, <1>4, <1>5 DEF After, Order

\* Where the fields are in what a client that serves its key writes, and that
\* the first byte of rb is nowhere else.
LEMMA Places ==
  /\ Base \in Nat \ {0}
  /\ \A f \in AnswerField : /\ Begin[f] \in Nat \ {0} /\ SizeOf[f] \in Nat \ {0}
                            /\ Begin[f] + SizeOf[f] <= Base
                            /\ \A i \in 1..SizeOf[f] : Asked[Begin[f] + i] = <<f, i>>
  /\ Asked[1] = <<"dummy", 1>> /\ Begin["rb"] = 1
  /\ Begin["keySize"] = Begin["rb"] + SizeOf["rb"]
  /\ Begin["key"] = Begin["keySize"] + SizeOf["keySize"]
  /\ Begin["signatureSize"] = Begin["key"] + SizeOf["key"]
  /\ Begin["signature"] = Begin["signatureSize"] + SizeOf["signatureSize"]
  /\ Base = Begin["signature"] + SizeOf["signature"]
  /\ \A p \in Nat : Asked[p] = <<"rb", 1>> => p = 2
<1> USE ClientAuthAssumption DEF Begin, Base, SizeOf
<1>1. \A f \in AnswerField : /\ Begin[f] \in Nat \ {0} /\ SizeOf[f] \in Nat \ {0}
                             /\ Begin[f] + SizeOf[f] <= Base
  BY Fields
<1>2. ASSUME NEW i \in Nat \ {0}
      PROVE  /\ i <= NonceSize => Asked[Begin["rb"] + i] = <<"rb", i>>
             /\ i <= IntSize => Asked[Begin["keySize"] + i] = <<"keySize", i>>
             /\ i <= KeySize => Asked[Begin["key"] + i] = <<"key", i>>
             /\ i <= IntSize => Asked[Begin["signatureSize"] + i] = <<"signatureSize", i>>
             /\ i <= SignatureSize => Asked[Begin["signature"] + i] = <<"signature", i>>
  <2>1. ASSUME i <= NonceSize PROVE Asked[Begin["rb"] + i] = <<"rb", i>>
    <3>1. PICK p \in Nat : p = Begin["rb"] + i /\ p - 1 = i
      OBVIOUS
    <3>2. Asked[p] = <<"rb", p - 1>>
      BY <2>1, <3>1 DEF Asked
    <3> HIDE DEF Begin
    <3> QED
      BY <3>1, <3>2
  <2>2. ASSUME i <= IntSize PROVE Asked[Begin["keySize"] + i] = <<"keySize", i>>
    <3>1. PICK p \in Nat : p = Begin["keySize"] + i /\ p - Begin.keySize = i
      OBVIOUS
    <3>2. Asked[p] = <<"keySize", p - Begin.keySize>>
      BY <2>2, <3>1 DEF Asked
    <3> HIDE DEF Begin
    <3> QED
      BY <3>1, <3>2
  <2>3. ASSUME i <= KeySize PROVE Asked[Begin["key"] + i] = <<"key", i>>
    <3>1. PICK p \in Nat : p = Begin["key"] + i /\ p - Begin.key = i
      OBVIOUS
    <3>2. Asked[p] = <<"key", p - Begin.key>>
      BY <2>3, <3>1 DEF Asked
    <3> HIDE DEF Begin
    <3> QED
      BY <3>1, <3>2
  <2>4. ASSUME i <= IntSize PROVE Asked[Begin["signatureSize"] + i] = <<"signatureSize", i>>
    <3>1. PICK p \in Nat : p = Begin["signatureSize"] + i /\ p - Begin.signatureSize = i
      OBVIOUS
    <3>2. Asked[p] = <<"signatureSize", p - Begin.signatureSize>>
      BY <2>4, <3>1 DEF Asked
    <3> HIDE DEF Begin
    <3> QED
      BY <3>1, <3>2
  <2>5. ASSUME i <= SignatureSize PROVE Asked[Begin["signature"] + i] = <<"signature", i>>
    <3>1. PICK p \in Nat : p = Begin["signature"] + i /\ p - Begin.signature = i
      OBVIOUS
    <3>2. Asked[p] = <<"signature", p - Begin.signature>>
      BY <2>5, <3>1 DEF Asked
    <3> HIDE DEF Begin
    <3> QED
      BY <3>1, <3>2
  <2> QED
    BY <2>1, <2>2, <2>3, <2>4, <2>5
<1>3. ASSUME NEW f \in AnswerField, NEW i \in 1..SizeOf[f]
      PROVE  Asked[Begin[f] + i] = <<f, i>>
  BY <1>1, <1>2, Fields
<1>4. \A p \in Nat : Asked[p] = <<"rb", 1>> => p = 2
  BY DEF Asked
<1>5. Asked[1] = <<"dummy", 1>>
  BY DEF Asked
<1>6. /\ Base \in Nat \ {0} /\ Begin["rb"] = 1
      /\ Begin["keySize"] = Begin["rb"] + SizeOf["rb"]
      /\ Begin["key"] = Begin["keySize"] + SizeOf["keySize"]
      /\ Begin["signatureSize"] = Begin["key"] + SizeOf["key"]
      /\ Begin["signature"] = Begin["signatureSize"] + SizeOf["signatureSize"]
      /\ Base = Begin["signature"] + SizeOf["signature"]
  OBVIOUS
<1> HIDE DEF Begin, Base, SizeOf
<1> QED
  BY <1>1, <1>3, <1>4, <1>5, <1>6

\* The input follows the exchange.
LEMMA InputPlaces ==
  ASSUME NEW e \in End
  PROVE  /\ Start(e) \in Nat
         /\ \A i \in Nat \ {0} : Word(e)[Start(e) + i] = <<Peer(e), i>>
         /\ \A i \in 1..NonceSize : Told[i] = <<"ra", i>>
<1>1. Base \in Nat /\ NonceSize \in Nat
  BY Places, ClientAuthAssumption
<1>2. ASSUME NEW i \in Nat \ {0}
      PROVE  /\ Told[NonceSize + i] = <<"server", i>>
             /\ i <= NonceSize => Told[i] = <<"ra", i>>
  <2>1. PICK p \in Nat : p = NonceSize + i /\ p - NonceSize = i /\ ~(p <= NonceSize)
    BY <1>1
  <2>2. Told[p] = <<"server", p - NonceSize>>
    BY <2>1 DEF Told
  <2>3. i <= NonceSize => Told[i] = <<"ra", i>>
    BY DEF Told
  <2> QED
    BY <2>1, <2>2, <2>3
<1>3. ASSUME NEW i \in Nat \ {0} PROVE Asked[Base + i] = <<"client", i>>
  <2>1. /\ Begin.keySize <= Base /\ Begin.key <= Base /\ Begin.signatureSize <= Base
        /\ Begin.signature <= Base /\ Begin.keySize \in Nat /\ Begin.key \in Nat
        /\ Begin.signatureSize \in Nat /\ Begin.signature \in Nat /\ 1 <= Base
    BY ClientAuthAssumption DEF Base, Begin
  <2>2. PICK p \in Nat : p = Base + i /\ p - Base = i /\ p > Base
    BY <1>1
  <2>3. Asked[p] = <<"client", p - Base>>
    BY <1>1, <2>1, <2>2 DEF Asked
  <2> QED
    BY <2>2, <2>3
<1>4. Start(e) \in Nat
  BY <1>1 DEF Start
<1>5. \A i \in Nat \ {0} : Word(e)[Start(e) + i] = <<Peer(e), i>>
  BY <1>2, <1>3 DEF Word, Start, Peer, End
<1>6. \A i \in 1..NonceSize : Told[i] = <<"ra", i>>
  BY <1>1, <1>2
<1> QED
  BY <1>4, <1>5, <1>6
-----------------------------------------------------------------------------
\* What goes on after a part of the word makes one part with it.
LEMMA PartJoined ==
  ASSUME NEW w, NEW S, NEW s \in Seq(S), NEW x \in Seq(S), NEW p \in Nat,
         Part(w, s, p), Part(w, x, p + Len(s))
  PROVE  /\ Part(w, s \o x, p) /\ s \o x \in Seq(S)
         /\ Len(s \o x) = Len(s) + Len(x)
<1>1. /\ s \o x \in Seq(S) /\ Len(s \o x) = Len(s) + Len(x)
      /\ Len(s) \in Nat /\ Len(x) \in Nat
      /\ \A i \in 1..(Len(s) + Len(x)) :
           (s \o x)[i] = IF i <= Len(s) THEN s[i] ELSE x[i - Len(s)]
  OBVIOUS
<1>2. ASSUME NEW i \in 1..(Len(s) + Len(x)) PROVE (s \o x)[i] = w[p + i]
  <2>1. CASE i <= Len(s)
    BY <1>1, <2>1 DEF Part
  <2>2. CASE ~(i <= Len(s))
    <3>1. PICK j \in 1..Len(x) : j = i - Len(s) /\ (p + Len(s)) + j = p + i
      BY <1>1, <2>2
    <3>2. x[j] = w[(p + Len(s)) + j]
      BY <3>1 DEF Part
    <3> QED
      BY <1>1, <2>2, <3>1, <3>2
  <2> QED
    BY <2>1, <2>2
<1> QED
  BY <1>1, <1>2 DEF Part

\* The beginning of a part of the word, and the rest, are parts of it.
LEMMA PartCut ==
  ASSUME NEW w, NEW S, NEW s \in Seq(S), NEW p \in Nat, Part(w, s, p),
         NEW k \in 0..Len(s)
  PROVE  /\ Part(w, SubSeq(s, 1, k), p) /\ Part(w, SubSeq(s, k + 1, Len(s)), p + k)
         /\ SubSeq(s, 1, k) \in Seq(S) /\ Len(SubSeq(s, 1, k)) = k
         /\ SubSeq(s, k + 1, Len(s)) \in Seq(S)
         /\ Len(SubSeq(s, k + 1, Len(s))) = Len(s) - k
<1>1. Len(s) \in Nat /\ k \in Nat /\ k <= Len(s)
  OBVIOUS
<1>2. \A i \in 1..Len(s) : s[i] \in S
  OBVIOUS
<1>3. /\ SubSeq(s, 1, k) \in Seq(S) /\ Len(SubSeq(s, 1, k)) = k
      /\ \A i \in 1..k : SubSeq(s, 1, k)[i] = s[i]
  <2>1. \A i \in 1..k : s[i] \in S
    BY <1>1, <1>2
  <2>2. /\ SubSeq(s, 1, k) \in Seq(S)
        /\ Len(SubSeq(s, 1, k)) = IF 1 <= k THEN k - 1 + 1 ELSE 0
        /\ \A i \in 1..(k - 1 + 1) : SubSeq(s, 1, k)[i] = s[1 + i - 1]
    BY <1>1, <2>1, SubSeqProperties
  <2> QED
    BY <1>1, <2>2
<1>4. /\ SubSeq(s, k + 1, Len(s)) \in Seq(S)
      /\ Len(SubSeq(s, k + 1, Len(s))) = Len(s) - k
      /\ \A i \in 1..(Len(s) - k) : SubSeq(s, k + 1, Len(s))[i] = s[k + i]
  <2>1. \A i \in (k + 1)..Len(s) : s[i] \in S
    BY <1>1, <1>2
  <2>2. /\ SubSeq(s, k + 1, Len(s)) \in Seq(S)
        /\ Len(SubSeq(s, k + 1, Len(s))) =
             IF k + 1 <= Len(s) THEN Len(s) - (k + 1) + 1 ELSE 0
        /\ \A i \in 1..(Len(s) - (k + 1) + 1) :
             SubSeq(s, k + 1, Len(s))[i] = s[(k + 1) + i - 1]
    BY <1>1, <2>1, SubSeqProperties
  <2> QED
    BY <1>1, <2>2
<1>5. Part(w, SubSeq(s, 1, k), p)
  BY <1>1, <1>3 DEF Part
<1>6. Part(w, SubSeq(s, k + 1, Len(s)), p + k)
  <2>1. ASSUME NEW i \in 1..(Len(s) - k)
        PROVE  SubSeq(s, k + 1, Len(s))[i] = w[(p + k) + i]
    <3>1. PICK j \in 1..Len(s) : j = k + i /\ p + j = (p + k) + i
      BY <1>1
    <3> QED
      BY <1>4, <3>1 DEF Part
  <2> QED
    BY <1>4, <2>1 DEF Part
<1> QED
  BY <1>3, <1>4, <1>5, <1>6

\* The part of the word at a field, of its size, is that field.
LEMMA PartIsField ==
  ASSUME NEW f \in AnswerField, NEW x \in Seq(Byte), Len(x) = SizeOf[f],
         Part(Asked, x, Begin[f])
  PROVE  x = Whole(f)
<1>1. SizeOf[f] \in Nat \ {0} /\ \A i \in 1..SizeOf[f] : Asked[Begin[f] + i] = <<f, i>>
  BY Places
<1>2. PICK n \in Nat : n = SizeOf[f] /\ Len(x) = n /\ DOMAIN x = 1..n
  BY <1>1
<1>3. ASSUME NEW i \in 1..n PROVE x[i] = <<f, i>>
  <2>1. x[i] = Asked[Begin[f] + i]
    BY <1>2 DEF Part
  <2> QED
    BY <1>1, <1>2, <2>1
<1>4. x = [i \in 1..n |-> <<f, i>>]
  <2>1. x = [i \in 1..n |-> x[i]]
    BY <1>2
  <2> QED
    BY <1>3, <2>1
<1> QED
  BY <1>2, <1>4 DEF Whole, Field

\* A whole field is the part of the word at its place.
LEMMA FieldIsPart ==
  ASSUME NEW f \in AnswerField
  PROVE  /\ Whole(f) \in Seq(Byte) /\ Len(Whole(f)) = SizeOf[f]
         /\ Part(Asked, Whole(f), Begin[f])
         /\ Whole(f) # <<>> /\ Whole(f)[1] = <<f, 1>>
<1>1. SizeOf[f] \in Nat \ {0} /\ \A i \in 1..SizeOf[f] : Asked[Begin[f] + i] = <<f, i>>
  BY Places
<1>2. PICK n \in Nat \ {0} : n = SizeOf[f]
  BY <1>1
<1>3. Whole(f) = [i \in 1..n |-> <<f, i>>]
  BY <1>2 DEF Whole, Field
<1>4. \A i \in 1..n : <<f, i>> \in Byte
  BY DEF Byte
<1>5. Whole(f) \in Seq(Byte) /\ Len(Whole(f)) = n /\ \A i \in 1..n : Whole(f)[i] = <<f, i>>
  BY <1>3, <1>4
<1>6. Whole(f) # <<>> /\ Whole(f)[1] = <<f, 1>>
  BY <1>5, EmptySeq
<1> QED
  BY <1>1, <1>2, <1>5, <1>6 DEF Part

\* The fields differ.
LEMMA FieldsDiffer ==
  ASSUME NEW f \in AnswerField, NEW g \in AnswerField, f # g
  PROVE  Whole(f) # Whole(g)
  BY FieldIsPart

\* What has been read from the input on is the input.
LEMMA PartIsInput ==
  ASSUME NEW e \in End, NEW x \in Seq(Byte), Part(Word(e), x, Start(e))
  PROVE  x = Field(Peer(e), Len(x))
<1>1. PICK n \in Nat : n = Len(x) /\ DOMAIN x = 1..n
  OBVIOUS
<1>2. ASSUME NEW i \in 1..n PROVE x[i] = <<Peer(e), i>>
  <2>1. x[i] = Word(e)[Start(e) + i] /\ i \in Nat \ {0}
    BY <1>1 DEF Part
  <2> QED
    BY <2>1, InputPlaces
<1>3. x = [i \in 1..n |-> <<Peer(e), i>>]
  <2>1. x = [i \in 1..n |-> x[i]]
    BY <1>1
  <2> QED
    BY <1>2, <2>1
<1> QED
  BY <1>1, <1>3 DEF Field

\* The part of the word at the nonce, of its size, is the nonce.
LEMMA PartIsNonce ==
  ASSUME NEW x \in Seq(Byte), Len(x) = NonceSize, Part(Told, x, 0)
  PROVE  x = Nonce
<1>1. PICK n \in Nat : n = NonceSize /\ DOMAIN x = 1..n
  BY ClientAuthAssumption
<1>2. ASSUME NEW i \in 1..n PROVE x[i] = <<"ra", i>>
  <2>1. x[i] = Told[0 + i]
    BY <1>1 DEF Part
  <2> QED
    BY <1>1, <2>1, InputPlaces DEF End
<1>3. x = [i \in 1..n |-> <<"ra", i>>]
  <2>1. x = [i \in 1..n |-> x[i]]
    BY <1>1
  <2> QED
    BY <1>2, <2>1
<1> QED
  BY <1>1, <1>3 DEF Nonce, Field

\* Each field begins where the one before ends, and the input after the last.
LEMMA NextPlace ==
  ASSUME NEW f \in AnswerField, NEW x, x \notin AnswerField
  PROVE  /\ After(f, x) \in AnswerField => Begin[After(f, x)] = Begin[f] + SizeOf[f]
         /\ After(f, x) \notin AnswerField => After(f, x) = x /\ Base = Begin[f] + SizeOf[f]
  BY Places, Fields, AfterFields
-----------------------------------------------------------------------------
(* The types of the variables. *)

ClientPlace == {"dummy", "nonce", "ready"} \cup AnswerField
ServerPlace == {"dummy", "nonce", "verify", "ready", "accepted", "badSignature",
                "noKey", "panic"} \cup AnswerField

PlaceType ==
  /\ serves \in BOOLEAN /\ asks \in BOOLEAN /\ up \in BOOLEAN
  /\ cpc \in ClientPlace /\ spc \in ServerPlace
  /\ short \subseteq End /\ size \in Nat
  /\ run \in [End -> {"exchange", "loop", "gone"}]
  /\ failed \in [End -> SUBSET {"eof", "stream"}]
  /\ input \in [End -> Nat]

ByteType ==
  /\ toServer \in Seq(Byte) /\ toClient \in Seq(Byte) /\ ra \in Seq(Byte)
  /\ answer \in [AnswerField -> Seq(Byte)]
  /\ obuf \in [End -> Seq(Byte)] /\ ibuf \in [End -> Seq(Byte)]
  /\ output \in [End -> Seq(Byte)]

\* The bytes of the exchange and of the input.
LEMMA Bytes ==
  /\ Dummy \in Seq(Byte) /\ Len(Dummy) = 1 /\ Part(Asked, Dummy, 0)
  /\ Nonce \in Seq(Byte) /\ Len(Nonce) = NonceSize /\ Part(Told, Nonce, 0)
  /\ \A e \in End, n \in Nat : <<e, n>> \in Byte
<1>1. \A f \in {"dummy", "ra"} \cup End, n \in Nat : <<f, n>> \in Byte
  BY DEF Byte
<1>2. Dummy = [i \in 1..1 |-> <<"dummy", i>>]
  BY DEF Dummy, Field
<1>3. /\ Dummy \in Seq(Byte) /\ Len(Dummy) = 1 /\ \A i \in 1..1 : Dummy[i] = <<"dummy", i>>
  BY <1>1, <1>2
<1>4. Part(Asked, Dummy, 0)
  BY <1>3, Places DEF Part
<1>5. Nonce = [i \in 1..NonceSize |-> <<"ra", i>>] /\ NonceSize \in Nat
  BY ClientAuthAssumption DEF Nonce, Field
<1>6. /\ Nonce \in Seq(Byte) /\ Len(Nonce) = NonceSize
      /\ \A i \in 1..NonceSize : Nonce[i] = <<"ra", i>>
  BY <1>1, <1>5
<1>7. Part(Told, Nonce, 0)
  <2>1. \A i \in 1..NonceSize : Told[i] = <<"ra", i>> /\ 0 + i = i
    BY InputPlaces DEF End
  <2> QED
    BY <1>6, <2>1 DEF Part
<1> QED
  BY <1>1, <1>3, <1>4, <1>6, <1>7

\* Every step keeps the types that are no sequences of bytes.
LEMMA PlaceTypeNext ==
  ASSUME PlaceType, [NetcatNext]_netcatVars
  PROVE  PlaceType'
<1> USE DEF PlaceType, ClientPlace, ServerPlace
<1>1. ASSUME ServeClientPublicKey, UNCHANGED loopVars PROVE PlaceType'
  <2>1. cpc \in AnswerField => After(cpc, "ready") \in ClientPlace
    BY AfterFields, Fields
  <2> QED
    BY <1>1, <2>1 DEF ServeClientPublicKey, ServeClientPublicKey_dummy,
         ServeClientPublicKey_nonce, ServeClientPublicKey_write,
         ServeClientPublicKey_fails, loopVars, End, AnswerField, SizeOf
<1>2. ASSUME AskClientPublicKey, UNCHANGED loopVars PROVE PlaceType'
  <2>1. CASE AskClientPublicKey_read
    <3>1. After(spc, "verify") \in ServerPlace
      BY <2>1, AfterFields, Fields DEF AskClientPublicKey_read
    <3>2. PICK k \in Nat :
            /\ short' = IF k < Wanted(spc) THEN short \cup {"server"} ELSE short
            /\ \/ spc' = After(spc, "verify") /\ UNCHANGED size
               \/ spc' = "panic" /\ UNCHANGED size
               \/ /\ size' \in Decoded(SubSeq(toServer, 1, k))
                  /\ spc' = After(spc, "verify")
      BY <2>1 DEF AskClientPublicKey_read
    <3>3. \A x : Decoded(x) \subseteq Nat
      BY ClientAuthAssumption DEF Decoded
    <3> QED
      BY <1>2, <2>1, <3>1, <3>2, <3>3 DEF AskClientPublicKey_read, loopVars, End
  <2> QED
    BY <1>2, <2>1 DEF AskClientPublicKey, AskClientPublicKey_dummy,
         AskClientPublicKey_nonce, AskClientPublicKey_fails, AskClientPublicKey_verify,
         loopVars, AnswerField, SizeOf
<1>3. ASSUME runClient \/ runServer PROVE PlaceType'
  BY <1>3 DEF runClient, runServer, vars, authVars, End
<1>4. ASSUME NEW e \in End, Stdin_read(e) \/ transmit(e) \/ loop(e) PROVE PlaceType'
  <2>1. \/ failed' = failed
        \/ \E x \in {"eof", "stream"} : failed' = [failed EXCEPT ![e] = failed[e] \cup {x}]
    BY <1>4 DEF Stdin_read, transmit, Stream_write, Stream_read, Stdout_write,
       Stream_fails, loop
  <2>2. failed' \in [End -> SUBSET {"eof", "stream"}]
    BY <2>1
  <2>3. input' = input \/ input' = [input EXCEPT ![e] = input[e] + 1]
    BY <1>4 DEF Stdin_read, transmit, Stream_write, Stream_read, Stdout_write,
       Stream_fails, loop
  <2>4. input' \in [End -> Nat]
    BY <2>3
  <2>5. up' \in BOOLEAN /\ run' \in [End -> {"exchange", "loop", "gone"}]
    BY <1>4 DEF Stdin_read, transmit, Stream_write, Stream_read, Stdout_write,
       Stream_fails, loop, vars
  <2> QED
    BY <1>4, <2>2, <2>4, <2>5 DEF Stdin_read, transmit, Stream_write, Stream_read,
       Stdout_write, Stream_fails, loop, vars, authVars
<1>5. CASE Session_ends
  BY <1>5 DEF Session_ends, authVars, loopVars
<1>6. CASE UNCHANGED netcatVars
  BY <1>6 DEF netcatVars, vars, authVars, loopVars
<1> QED
  BY <1>1, <1>2, <1>3, <1>4, <1>5, <1>6 DEF NetcatNext, Exchange

\* The two ends, and what each reads.
LEMMA TwoPeers ==
  ASSUME NEW e \in End
  PROVE  /\ Peer(e) \in End /\ Peer(Peer(e)) = e /\ Peer(e) # e
         /\ \A d \in End : d = e \/ d = Peer(e)
  BY DEF End, Peer

\* A stream is a sequence of bytes.
LEMMA ToReadType ==
  ASSUME ByteType, NEW e \in End
  PROVE  ToRead(e) \in Seq(Byte)
  BY DEF ByteType, ToRead

\* What WriteStream does to the two streams.
LEMMA StreamWritten ==
  ASSUME ByteType, NEW e \in End, NEW x \in Seq(Byte), WriteStream(e, x)
  PROVE  /\ ToRead(Peer(e))' = ToRead(Peer(e)) \o x /\ ToRead(e)' = ToRead(e)
         /\ toServer' \in Seq(Byte) /\ toClient' \in Seq(Byte)
<1>1. toServer \o x \in Seq(Byte) /\ toClient \o x \in Seq(Byte)
  BY DEF ByteType
<1>2. CASE e = "client"
  BY <1>1, <1>2 DEF ByteType, WriteStream, ToRead, Peer
<1>3. CASE e = "server"
  BY <1>1, <1>3 DEF ByteType, WriteStream, ToRead, Peer
<1> QED
  BY <1>2, <1>3 DEF End

\* What ReadStream does to them.
LEMMA StreamRead ==
  ASSUME ByteType, NEW e \in End, NEW k \in 0..Len(ToRead(e)), ReadStream(e, k)
  PROVE  /\ ToRead(e)' = SubSeq(ToRead(e), k + 1, Len(ToRead(e)))
         /\ ToRead(Peer(e))' = ToRead(Peer(e))
         /\ toServer' \in Seq(Byte) /\ toClient' \in Seq(Byte)
<1>1. ToRead(e) \in Seq(Byte)
  BY ToReadType
<1>2. Part([p \in Nat |-> ToRead(e)[p]], ToRead(e), 0)
  BY <1>1 DEF Part
<1>3. SubSeq(ToRead(e), k + 1, Len(ToRead(e))) \in Seq(Byte)
  BY <1>1, <1>2, PartCut
<1> QED
  BY <1>3 DEF ByteType, ReadStream, ToRead, Peer, End

\* The first k bytes of a stream, and the rest.
LEMMA Cut ==
  ASSUME NEW s \in Seq(Byte), NEW k \in 0..Len(s)
  PROVE  SubSeq(s, 1, k) \in Seq(Byte) /\ SubSeq(s, k + 1, Len(s)) \in Seq(Byte)
<1>1. Part([p \in Nat |-> s[p]], s, 0)
  BY DEF Part
<1> QED
  BY <1>1, PartCut

\* Two sequences of bytes are one.
LEMMA Joined ==
  ASSUME NEW s \in Seq(Byte), NEW x \in Seq(Byte)
  PROVE  s \o x \in Seq(Byte)
  OBVIOUS

\* Every step keeps the types of the sequences of bytes.
LEMMA ByteTypeNext ==
  ASSUME PlaceType, ByteType, [NetcatNext]_netcatVars
  PROVE  ByteType'
<1> USE DEF ByteType
<1>1. ASSUME ServeClientPublicKey, UNCHANGED loopVars PROVE ByteType'
  <2>1. CASE ServeClientPublicKey_dummy
    BY <1>1, <2>1, Bytes, Joined DEF ServeClientPublicKey_dummy, loopVars
  <2>2. CASE ServeClientPublicKey_nonce
    <3>1. PICK k \in 0..Len(toClient) :
            /\ ra' = SubSeq(toClient, 1, k)
            /\ toClient' = SubSeq(toClient, k + 1, Len(toClient))
      BY <2>2, ClientAuthAssumption DEF ServeClientPublicKey_nonce
    <3> QED
      BY <1>1, <2>2, <3>1, Cut DEF ServeClientPublicKey_nonce, loopVars
  <2>3. CASE ServeClientPublicKey_write
    BY <1>1, <2>3, FieldIsPart, Joined DEF ServeClientPublicKey_write, loopVars
  <2>4. CASE ServeClientPublicKey_fails
    BY <1>1, <2>4 DEF ServeClientPublicKey_fails, loopVars
  <2> QED
    BY <1>1, <2>1, <2>2, <2>3, <2>4 DEF ServeClientPublicKey
<1>2. ASSUME AskClientPublicKey, UNCHANGED loopVars PROVE ByteType'
  <2>1. CASE AskClientPublicKey_dummy
    <3>1. toServer' \in Seq(Byte)
      BY <2>1, HeadTailProperties DEF AskClientPublicKey_dummy
    <3> QED
      BY <1>2, <2>1, <3>1 DEF AskClientPublicKey_dummy, loopVars
  <2>2. CASE AskClientPublicKey_nonce
    BY <1>2, <2>2, Bytes, Joined DEF AskClientPublicKey_nonce, loopVars
  <2>3. CASE AskClientPublicKey_read
    <3>1. PICK k \in 0..Len(toServer) :
            /\ answer' = [answer EXCEPT ![spc] = SubSeq(toServer, 1, k)]
            /\ toServer' = SubSeq(toServer, k + 1, Len(toServer))
      BY <2>3 DEF AskClientPublicKey_read
    <3>2. SubSeq(toServer, 1, k) \in Seq(Byte) /\ toServer' \in Seq(Byte)
      BY <3>1, Cut
    <3> QED
      BY <1>2, <2>3, <3>1, <3>2 DEF AskClientPublicKey_read, loopVars
  <2>4. CASE AskClientPublicKey_fails \/ AskClientPublicKey_verify
    BY <1>2, <2>4 DEF AskClientPublicKey_fails, AskClientPublicKey_verify, loopVars
  <2> QED
    BY <1>2, <2>1, <2>2, <2>3, <2>4 DEF AskClientPublicKey
<1>3. ASSUME runClient \/ runServer PROVE ByteType'
  BY <1>3 DEF runClient, runServer, vars, authVars
<1>4. ASSUME NEW e \in End, Stdin_read(e) PROVE ByteType'
  <2>1. << <<e, input[e] + 1>> >> \in Seq(Byte) /\ input[e] + 1 \in Nat
    <3>1. PICK n \in Nat : n = input[e] + 1
      BY DEF PlaceType
    <3>2. <<e, n>> \in Byte
      BY Bytes
    <3> QED
      BY <3>1, <3>2
  <2> QED
    BY <1>4, <2>1 DEF Stdin_read, vars, authVars
<1>5. ASSUME NEW e \in End, Stream_write(e) PROVE ByteType'
  <2>1. toServer' \in Seq(Byte) /\ toClient' \in Seq(Byte)
    BY <1>5, StreamWritten DEF Stream_write
  <2>2. obuf' \in [End -> Seq(Byte)]
    BY <1>5, EmptySeq DEF Stream_write
  <2> QED
    BY <1>5, <2>1, <2>2 DEF Stream_write, authVars
<1>6. ASSUME NEW e \in End, Stream_read(e) PROVE ByteType'
  <2>1. PICK k \in 1..Len(ToRead(e)) :
          /\ ibuf' = [ibuf EXCEPT ![e] = SubSeq(ToRead(e), 1, k)]
          /\ ReadStream(e, k)
    BY <1>6 DEF Stream_read
  <2>4. Len(ToRead(e)) \in Nat
    BY ToReadType
  <2>5. k \in 0..Len(ToRead(e))
    BY <2>4
  <2>2. toServer' \in Seq(Byte) /\ toClient' \in Seq(Byte)
    BY <2>1, <2>5, StreamRead
  <2>3. SubSeq(ToRead(e), 1, k) \in Seq(Byte)
    BY <2>5, ToReadType, Cut
  <2> QED
    BY <1>6, <2>1, <2>2, <2>3 DEF Stream_read, authVars
<1>7. ASSUME NEW e \in End, Stdout_write(e) PROVE ByteType'
  <2>1. output[e] \o ibuf[e] \in Seq(Byte) /\ <<>> \in Seq(Byte)
    BY Joined, EmptySeq
  <2> QED
    BY <1>7, <2>1 DEF Stdout_write, vars, authVars
<1>8. ASSUME NEW e \in End, Stream_fails(e) \/ loop(e) PROVE ByteType'
  BY <1>8 DEF Stream_fails, loop, vars, authVars
<1>9. CASE Session_ends
  BY <1>9 DEF Session_ends, authVars, loopVars
<1>10. CASE UNCHANGED netcatVars
  BY <1>10 DEF netcatVars, vars, authVars, loopVars
<1> QED
  BY <1>1, <1>2, <1>3, <1>4, <1>5, <1>6, <1>7, <1>8, <1>9, <1>10
     DEF NetcatNext, Exchange, transmit
-----------------------------------------------------------------------------
(* Where the processes are. *)

\* The exchange, then the loop; the settings say whether there is an exchange.
Turns ==
  /\ ~serves => cpc = "ready"
  /\ asks <=> spc # "ready"
  /\ run["client"] # "exchange" => cpc = "ready"
  /\ run["server"] # "exchange" =>
       spc \in {"ready", "accepted", "badSignature", "noKey", "panic"}

\* transmit holds the last byte of the input at most, and nothing during the
\* exchange.
Holding ==
  \A e \in End :
    /\ run[e] = "exchange" =>
         input[e] = 0 /\ obuf[e] = <<>> /\ ibuf[e] = <<>> /\ output[e] = <<>>
    /\ obuf[e] # <<>> => obuf[e] = << <<e, input[e]>> >> /\ input[e] > 0

\* Every step keeps Holding.
LEMMA HoldingNext ==
  ASSUME PlaceType, ByteType, Holding, [NetcatNext]_netcatVars
  PROVE  Holding'
<1> USE DEF PlaceType, ByteType, Holding
<1>1. CASE UNCHANGED loopVars
  BY <1>1 DEF loopVars
<1>2. ASSUME runClient \/ runServer PROVE Holding'
  BY <1>2 DEF runClient, runServer
<1>3. ASSUME NEW e \in End, Stdin_read(e) PROVE Holding'
  <2>1. run' = run /\ ibuf' = ibuf /\ output' = output /\ run[e] = "loop"
    BY <1>3 DEF Stdin_read
  <2>2. obuf'[e] # <<>> => obuf'[e] = << <<e, input'[e]>> >> /\ input'[e] > 0
    <3>1. CASE input' = input /\ obuf' = obuf
      BY <3>1
    <3>2. CASE /\ input' = [input EXCEPT ![e] = input[e] + 1]
               /\ obuf' = [obuf EXCEPT ![e] = << <<e, input[e] + 1>> >>]
      <4>1. PICK n \in Nat : n = input[e] + 1 /\ n > 0
        OBVIOUS
      <4> QED
        BY <3>2, <4>1
    <3> QED
      BY <1>3, <3>1, <3>2 DEF Stdin_read
  <2>3. \A d \in End \ {e} : input'[d] = input[d] /\ obuf'[d] = obuf[d]
    BY <1>3 DEF Stdin_read
  <2> QED
    BY <2>1, <2>2, <2>3
<1>4. ASSUME NEW e \in End, Stream_write(e) PROVE Holding'
  BY <1>4 DEF Stream_write
<1>5. ASSUME NEW e \in End, Stream_read(e) PROVE Holding'
  BY <1>5 DEF Stream_read
<1>6. ASSUME NEW e \in End, Stdout_write(e) PROVE Holding'
  BY <1>6 DEF Stdout_write
<1>7. ASSUME NEW e \in End, Stream_fails(e) \/ loop(e) PROVE Holding'
  BY <1>7 DEF Stream_fails, loop
<1> QED
  BY <1>1, <1>2, <1>3, <1>4, <1>5, <1>6, <1>7
     DEF NetcatNext, Exchange, transmit, Session_ends, netcatVars

\* Every step keeps Turns.
LEMMA TurnsNext ==
  ASSUME PlaceType, Turns, [NetcatNext]_netcatVars
  PROVE  Turns'
<1> USE DEF PlaceType, Turns
<1>1. ASSUME ServeClientPublicKey, run["client"] = "exchange", UNCHANGED loopVars PROVE Turns'
  BY <1>1, Fields DEF ServeClientPublicKey, ServeClientPublicKey_dummy,
         ServeClientPublicKey_nonce, ServeClientPublicKey_write,
         ServeClientPublicKey_fails, loopVars
<1>2. ASSUME AskClientPublicKey, run["server"] = "exchange", UNCHANGED loopVars PROVE Turns'
  <2>1. spc \in AnswerField => After(spc, "verify") # "ready"
    BY Fields, AfterFields
  <2>2. spc' # "ready" /\ spc # "ready"
    BY <1>2, <2>1, Fields DEF AskClientPublicKey, AskClientPublicKey_dummy,
         AskClientPublicKey_nonce, AskClientPublicKey_read, AskClientPublicKey_fails,
         AskClientPublicKey_verify
  <2>3. UNCHANGED <<serves, asks, cpc>>
    BY <1>2 DEF AskClientPublicKey, AskClientPublicKey_dummy,
         AskClientPublicKey_nonce, AskClientPublicKey_read, AskClientPublicKey_fails,
         AskClientPublicKey_verify
  <2> QED
    BY <1>2, <2>2, <2>3 DEF loopVars
<1>3. ASSUME runClient \/ runServer PROVE Turns'
  BY <1>3, Fields DEF runClient, runServer, vars, authVars, End
<1>4. ASSUME NEW e \in End, Stdin_read(e) \/ transmit(e) \/ loop(e) PROVE Turns'
  <2>1. UNCHANGED <<serves, asks, cpc, spc>>
    BY <1>4 DEF Stdin_read, transmit, Stream_write, Stream_read, Stdout_write,
         Stream_fails, loop, vars, authVars
  <2>2. run[e] = "loop" /\ \A d \in End \ {e} : run'[d] = run[d]
    BY <1>4 DEF Stdin_read, transmit, Stream_write, Stream_read, Stdout_write,
         Stream_fails, loop
  <2> QED
    BY <2>1, <2>2 DEF End
<1>5. CASE Session_ends \/ UNCHANGED netcatVars
  BY <1>5 DEF Session_ends, netcatVars, vars, authVars, loopVars
<1> QED
  BY <1>1, <1>2, <1>3, <1>4, <1>5 DEF NetcatNext, Exchange
-----------------------------------------------------------------------------
(* How far an end has written, and the other has read. *)

\* The case that OutputIsInput is about.
Orderly == short = {} /\ serves = asks

\* The input that has been written to the stream, or dropped; all the output, with
\* what transmit still holds.
Sent(e) == IF obuf[e] = <<>> THEN input[e] ELSE input[e] - 1
Out(e) == output[e] \o ibuf[e]

\* The place in the word the other end reads up to which e has written, and the
\* place in its own up to which e has read, by where e is.
Written(e) ==
  IF e = "server" THEN IF spc \in {"dummy", "nonce"} THEN 0 ELSE NonceSize + Sent(e)
  ELSE IF cpc = "dummy" THEN 0 ELSE IF cpc = "nonce" THEN 1
  ELSE IF cpc \in AnswerField THEN Begin[cpc] ELSE Base + Sent(e)

Consumed(e) ==
  IF e = "client" THEN IF cpc \in {"dummy", "nonce"} THEN 0 ELSE NonceSize + Len(Out(e))
  ELSE IF spc = "dummy" THEN 0 ELSE IF spc = "nonce" THEN 1
  ELSE IF spc \in AnswerField THEN Begin[spc] ELSE Base + Len(Out(e))

\* The stream to e goes on after p bytes.
Reading(e, p) ==
  /\ Part(Word(e), ToRead(e), p)
  /\ up => p + Len(ToRead(e)) = Written(Peer(e))
  /\ Orderly /\ up => p = Consumed(e)

\* The fields the server has read.
Passed == IF spc = "keySize" THEN {"rb"} ELSE IF spc = "key" THEN {"rb", "keySize"}
  ELSE IF spc = "signatureSize" THEN {"rb", "keySize", "key"}
  ELSE IF spc = "signature" THEN AnswerField \ {"signature"}
  ELSE IF spc \in {"verify", "accepted"} THEN AnswerField ELSE {}

IsWhole(S) == \A f \in S : answer[f] = Whole(f)

\* If what it will compare is right so far, so is the rest, and the stream goes
\* on with the next field.
Answered(p) ==
  Passed # {} /\ IsWhole(Passed \ {"keySize", "signatureSize"}) =>
    /\ IsWhole(Passed)
    /\ spc = "key" => size = KeySize
    /\ spc = "signature" => size = SignatureSize
    /\ spc \in AnswerField => p = Begin[spc]
    /\ spc = "verify" => p = Base
    /\ spc = "accepted" => p >= Base

InOrder == /\ \E p \in Nat : Reading("client", p)
           /\ \E p \in Nat : Reading("server", p) /\ Answered(p)

\* If no readN came short, the fields that have been read are whole.
Untorn == Orderly /\ up => /\ serves /\ cpc \notin {"dummy", "nonce"} => ra = Nonce
                           /\ IsWhole(Passed)

Accepted == spc = "accepted" => IsWhole(AnswerField)

\* What comes out is the input of the other end.
OutIsIn == Orderly => \A e \in End : Part(Word(e), Out(e), Start(e))

\* The types of these positions; no input is under way during the exchange.
LEMMA Numbers ==
  ASSUME PlaceType, ByteType, Holding, NEW e \in End
  PROVE  /\ Sent(e) \in Nat /\ Out(e) \in Seq(Byte) /\ Len(Out(e)) \in Nat
         /\ Written(e) \in Nat /\ Consumed(e) \in Nat
         /\ ToRead(e) \in Seq(Byte) /\ Len(ToRead(e)) \in Nat
         /\ run[e] = "exchange" => Sent(e) = 0 /\ Len(Out(e)) = 0
<1>1. Sent(e) \in Nat /\ (run[e] = "exchange" => Sent(e) = 0)
  BY DEF Sent, PlaceType, Holding
<1>2. Out(e) \in Seq(Byte)
  BY Joined DEF Out, ByteType
<1>3. run[e] = "exchange" => Len(Out(e)) = 0
  <2>1. <<>> \o <<>> = <<>> /\ Len(<<>>) = 0
    OBVIOUS
  <2>2. run[e] = "exchange" => Out(e) = <<>> \o <<>>
    BY DEF Out, Holding
  <2> QED
    BY <2>1, <2>2
<1>4. Len(Out(e)) \in Nat
  BY <1>2
<1>5. Written(e) \in Nat /\ Consumed(e) \in Nat
  BY <1>1, <1>4, Places, ClientAuthAssumption DEF Written, Consumed
<1> QED
  BY <1>1, <1>2, <1>3, <1>4, <1>5, ToReadType

\* A step that leaves the stream to e alone.
LEMMA ReadingStays ==
  ASSUME NEW e \in End, NEW p \in Nat, Reading(e, p), ToRead(e)' = ToRead(e),
         up' => up /\ Written(Peer(e))' = Written(Peer(e)),
         Orderly' /\ up' => Orderly /\ Consumed(e)' = Consumed(e)
  PROVE  Reading(e, p)'
  BY DEF Reading

\* A step that writes to the stream to e what its word goes on with.
LEMMA ReadingWritten ==
  ASSUME PlaceType, ByteType, Holding,
         NEW e \in End, NEW p \in Nat, NEW x \in Seq(Byte), Reading(e, p), up,
         ToRead(e)' = ToRead(e) \o x, Part(Word(e), x, Written(Peer(e))),
         Written(Peer(e))' = Written(Peer(e)) + Len(x),
         Orderly' => Orderly /\ Consumed(e)' = Consumed(e)
  PROVE  Reading(e, p)'
<1>1. ToRead(e) \in Seq(Byte) /\ Len(ToRead(e)) \in Nat
  BY Numbers
<1>2. Part(Word(e), ToRead(e), p) /\ p + Len(ToRead(e)) = Written(Peer(e))
  BY DEF Reading
<1>3. /\ Part(Word(e), ToRead(e)', p)
      /\ Len(ToRead(e)') = Len(ToRead(e)) + Len(x)
  BY <1>1, <1>2, PartJoined
<1>4. p + (Len(ToRead(e)) + Len(x)) = Written(Peer(e)) + Len(x)
  BY <1>1, <1>2
<1> QED
  BY <1>3, <1>4 DEF Reading

\* A step that reads k bytes of it.
LEMMA ReadingRead ==
  ASSUME PlaceType, ByteType, Holding,
         NEW e \in End, NEW p \in Nat, NEW k \in 0..Len(ToRead(e)), Reading(e, p),
         ToRead(e)' = SubSeq(ToRead(e), k + 1, Len(ToRead(e))),
         up' => up /\ Written(Peer(e))' = Written(Peer(e)),
         Orderly' /\ up' => Orderly /\ Consumed(e)' = Consumed(e) + k
  PROVE  Reading(e, p + k)' /\ Part(Word(e), SubSeq(ToRead(e), 1, k), p)
<1>1. ToRead(e) \in Seq(Byte) /\ Len(ToRead(e)) \in Nat /\ k \in Nat
  BY Numbers
<1>2. Part(Word(e), ToRead(e), p)
  BY DEF Reading
<1>3. /\ Part(Word(e), ToRead(e)', p + k) /\ Part(Word(e), SubSeq(ToRead(e), 1, k), p)
      /\ Len(ToRead(e)') = Len(ToRead(e)) - k
  BY <1>1, <1>2, PartCut
<1>4. p + k + (Len(ToRead(e)) - k) = p + Len(ToRead(e))
  BY <1>1
<1>5. up' => p + k + Len(ToRead(e)') = Written(Peer(e))'
  BY <1>3, <1>4 DEF Reading
<1>6. Orderly' /\ up' => p + k = Consumed(e)'
  BY DEF Reading
<1> QED
  BY <1>3, <1>5, <1>6 DEF Reading

\* ServeClientPublicKey
LEMMA ServeStep ==
  ASSUME PlaceType, ByteType, Turns, Holding, InOrder, Untorn, Accepted, OutIsIn,
         RefusedNeedsShort,
         ServeClientPublicKey, run["client"] = "exchange", UNCHANGED loopVars
  PROVE  InOrder' /\ Untorn' /\ Accepted' /\ OutIsIn' /\ RefusedNeedsShort'
<1> USE DEF PlaceType
<1>0. /\ UNCHANGED <<serves, asks, spc, answer, size, up, run, input, obuf, ibuf, output>>
      /\ short \subseteq short' /\ (Orderly' => Orderly)
  BY DEF ServeClientPublicKey, ServeClientPublicKey_dummy,
         ServeClientPublicKey_nonce, ServeClientPublicKey_write,
         ServeClientPublicKey_fails, loopVars, Orderly
<1>1. Accepted' /\ OutIsIn' /\ RefusedNeedsShort'
  BY <1>0 DEF Accepted, IsWhole, OutIsIn, Out, Start, RefusedNeedsShort
<1>2. PICK p \in Nat : Reading("client", p)
  BY DEF InOrder
<1>3. PICK q \in Nat : Reading("server", q) /\ Answered(q)
  BY DEF InOrder
<1>4. Answered(q)'
  BY <1>0, <1>3 DEF Answered, Passed, IsWhole
<1>5. /\ "client" \in End /\ "server" \in End /\ Peer("client") = "server"
      /\ Peer("server") = "client" /\ ToRead("client") = toClient
      /\ ToRead("server") = toServer /\ ToRead("client")' = toClient'
      /\ ToRead("server")' = toServer' /\ Word("client") = Told /\ Word("server") = Asked
  BY DEF End, Peer, ToRead, Word
<1>6. Written("server")' = Written("server") /\ Consumed("server")' = Consumed("server")
  BY <1>0 DEF Written, Consumed, Sent, Out
<1>7. CASE ServeClientPublicKey_dummy
  <2>1. UNCHANGED <<ra, short, toClient>> /\ cpc = "dummy" /\ cpc' = "nonce"
    BY <1>7 DEF ServeClientPublicKey_dummy
  <2>2. Consumed("client")' = Consumed("client") /\ Reading("client", p)'
    BY <1>0, <1>2, <1>5, <1>6, <2>1, ReadingStays DEF Consumed
  <2>3. Reading("server", q)'
    <3>1. CASE up
      <4>1. toServer' = toServer \o Dummy
        BY <1>7, <3>1 DEF ServeClientPublicKey_dummy
      <4>2. Written("client") = 0 /\ Written("client")' = 1
        BY <2>1 DEF Written
      <4>3. /\ Part(Word("server"), Dummy, Written(Peer("server"))) /\ Dummy \in Seq(Byte)
            /\ Written(Peer("server"))' = Written(Peer("server")) + Len(Dummy)
        BY <1>5, <4>2, Bytes
      <4>4. ToRead("server")' = ToRead("server") \o Dummy
        BY <1>5, <4>1
      <4> QED
        BY <1>0, <1>3, <1>5, <1>6, <3>1, <4>3, <4>4, ReadingWritten
    <3>2. CASE ~up
      BY <1>0, <1>3, <1>5, <1>7, <3>2, ReadingStays DEF ServeClientPublicKey_dummy
    <3> QED
      BY <3>1, <3>2
  <2>4. Untorn'
    BY <1>0, <2>1 DEF Untorn, Passed, IsWhole
  <2> QED
    BY <1>1, <1>4, <2>2, <2>3, <2>4 DEF InOrder
<1>8. CASE ServeClientPublicKey_nonce
  <2>1. PICK k \in 1..NonceSize :
          /\ k <= Len(toClient)
          /\ ra' = SubSeq(toClient, 1, k)
          /\ toClient' = SubSeq(toClient, k + 1, Len(toClient))
          /\ short' = IF k < NonceSize THEN short \cup {"client"} ELSE short
    BY <1>8 DEF ServeClientPublicKey_nonce
  <2>2. UNCHANGED toServer /\ cpc = "nonce" /\ cpc' = "rb" /\ up
    BY <1>8 DEF ServeClientPublicKey_nonce
  <2>3. k \in 0..Len(toClient) /\ (Orderly' => k = NonceSize)
    <3>1. Len(toClient) \in Nat
      BY DEF ByteType
    <3>2. k \in 0..Len(toClient)
      BY <2>1, <3>1
    <3>3. k < NonceSize => short' # {}
      BY <2>1
    <3> QED
      BY <2>1, <3>2, <3>3, ClientAuthAssumption DEF Orderly
  <2>4. Consumed("client") = 0 /\ Consumed("client")' = NonceSize
    <3>1. Len(Out("client")) = 0 /\ Out("client")' = Out("client")
      BY <1>0, <1>5, Numbers DEF Out
    <3> QED
      BY <2>2, <3>1, ClientAuthAssumption, Fields DEF Consumed
  <2>5. Reading("client", p + k)' /\ Part(Told, SubSeq(toClient, 1, k), p)
    <3>1. /\ k \in 0..Len(ToRead("client"))
          /\ Orderly' => Consumed("client")' = Consumed("client") + k
      BY <1>5, <2>3, <2>4, ClientAuthAssumption
    <3>2. /\ ToRead("client")' = SubSeq(ToRead("client"), k + 1, Len(ToRead("client")))
          /\ Written(Peer("client"))' = Written(Peer("client"))
      BY <1>5, <1>6, <2>1
    <3>3. Reading("client", p + k)' /\ Part(Word("client"), SubSeq(ToRead("client"), 1, k), p)
      BY <1>0, <1>2, <1>5, <3>1, <3>2, ReadingRead
    <3> QED
      BY <1>5, <3>3
  <2>6. Reading("server", q)'
    <3>1. Written("client")' = Written("client")
      BY <2>2, Places, Fields DEF Written
    <3> QED
      BY <1>0, <1>3, <1>5, <1>6, <2>2, <3>1, ReadingStays
  <2>7. Orderly' => ra' = Nonce
    <3> SUFFICES ASSUME Orderly' PROVE ra' = Nonce
      OBVIOUS
    <3>1. p = 0 /\ k = NonceSize
      BY <1>0, <1>2, <2>2, <2>3, <2>4 DEF Reading
    <3>2. Part(Told, ra', 0) /\ Len(ra') = NonceSize /\ ra' \in Seq(Byte)
      BY <1>2, <1>5, <2>1, <2>3, <2>5, <3>1, PartCut, ToReadType DEF Reading
    <3> QED
      BY <3>2, PartIsNonce
  <2>8. Untorn'
    BY <1>0, <2>7 DEF Untorn, Passed, IsWhole
  <2>9. p + k \in Nat
    OBVIOUS
  <2> QED
    BY <1>1, <1>4, <2>5, <2>6, <2>8, <2>9 DEF InOrder
<1>9. CASE ServeClientPublicKey_write
  <2>1. /\ UNCHANGED <<ra, short, toClient>> /\ cpc \in AnswerField /\ up
        /\ toServer' = toServer \o Whole(cpc) /\ cpc' = After(cpc, "ready")
    BY <1>9 DEF ServeClientPublicKey_write
  <2>2. cpc \notin {"dummy", "nonce"} /\ cpc' \notin {"dummy", "nonce"} /\ serves
    BY <2>1, Fields, AfterFields DEF Turns
  <2>3. Consumed("client")' = Consumed("client") /\ Reading("client", p)'
    BY <1>0, <1>2, <1>5, <1>6, <2>1, <2>2, ReadingStays DEF Consumed, Out
  <2>4. Written("client") = Begin[cpc] /\ Written("client")' = Begin[cpc] + SizeOf[cpc]
    <3>1. Sent("client") = 0
      BY <1>0, <1>5, Numbers
    <3>2. Sent("client")' = 0
      BY <1>0, <3>1 DEF Sent
    <3>3. /\ cpc' \in AnswerField => Begin[cpc'] = Begin[cpc] + SizeOf[cpc]
          /\ cpc' \notin AnswerField => Base = Begin[cpc] + SizeOf[cpc]
      BY <2>1, NextPlace, Fields
    <3>4. Base + 0 = Base
      BY Places
    <3> QED
      BY <2>1, <2>2, <3>2, <3>3, <3>4, Fields DEF Written
  <2>5. Reading("server", q)'
    <3>1. /\ Part(Word("server"), Whole(cpc), Written(Peer("server"))) /\ Whole(cpc) \in Seq(Byte)
          /\ Written(Peer("server"))' = Written(Peer("server")) + Len(Whole(cpc))
      BY <1>5, <2>1, <2>4, FieldIsPart
    <3>2. ToRead("server")' = ToRead("server") \o Whole(cpc)
      BY <1>5, <2>1
    <3> QED
      BY <1>0, <1>3, <1>5, <1>6, <2>1, <3>1, <3>2, ReadingWritten
  <2>6. Untorn'
    BY <1>0, <2>1, <2>2 DEF Untorn, Passed, IsWhole
  <2> QED
    BY <1>1, <1>4, <2>3, <2>5, <2>6 DEF InOrder
<1>10. CASE ServeClientPublicKey_fails
  <2>1. ~up /\ UNCHANGED <<toServer, toClient>>
    BY <1>10 DEF ServeClientPublicKey_fails
  <2>2. Reading("client", p)' /\ Reading("server", q)' /\ Untorn'
    BY <1>0, <1>2, <1>3, <1>5, <2>1, ReadingStays DEF Untorn
  <2> QED
    BY <1>1, <1>4, <2>2 DEF InOrder
<1> QED
  BY <1>7, <1>8, <1>9, <1>10 DEF ServeClientPublicKey

\* AskClientPublicKey, but for nonceAnswer.read.
LEMMA AskStep ==
  ASSUME PlaceType, ByteType, Turns, Holding, InOrder, Untorn, Accepted, OutIsIn,
         RefusedNeedsShort,
         \/ AskClientPublicKey_dummy \/ AskClientPublicKey_nonce
         \/ AskClientPublicKey_fails \/ AskClientPublicKey_verify,
         run["server"] = "exchange", UNCHANGED loopVars
  PROVE  InOrder' /\ Untorn' /\ Accepted' /\ OutIsIn' /\ RefusedNeedsShort'
<1> USE DEF PlaceType
<1>0. /\ UNCHANGED <<serves, asks, cpc, ra, answer, size, short, up>>
      /\ UNCHANGED <<run, input, obuf, ibuf, output>> /\ (Orderly' <=> Orderly)
  BY DEF AskClientPublicKey_dummy, AskClientPublicKey_nonce, AskClientPublicKey_fails,
         AskClientPublicKey_verify, loopVars, Orderly
<1>1. OutIsIn'
  BY <1>0 DEF OutIsIn, Out
<1>2. PICK p \in Nat : Reading("client", p)
  BY DEF InOrder
<1>3. PICK q \in Nat : Reading("server", q) /\ Answered(q)
  BY DEF InOrder
<1>5. /\ "client" \in End /\ "server" \in End /\ Peer("client") = "server"
      /\ Peer("server") = "client" /\ ToRead("client") = toClient
      /\ ToRead("server") = toServer /\ ToRead("client")' = toClient'
      /\ ToRead("server")' = toServer' /\ Word("client") = Told /\ Word("server") = Asked
  BY DEF End, Peer, ToRead, Word
<1>6. Written("client")' = Written("client") /\ Consumed("client")' = Consumed("client")
  BY <1>0 DEF Written, Consumed, Sent, Out
<1>7. CASE AskClientPublicKey_dummy
  <2>1. spc = "dummy" /\ spc' = "nonce" /\ toClient' = toClient
    BY <1>7 DEF AskClientPublicKey_dummy
  <2>2. Answered(q + 1)' /\ Answered(q)' /\ Untorn' /\ Accepted' /\ RefusedNeedsShort'
    BY <1>0, <2>1, Fields DEF Answered, Passed, Untorn, IsWhole, Accepted, RefusedNeedsShort
  <2>3. Reading("client", p)'
    <3>1. Written("server")' = Written("server")
      BY <2>1 DEF Written
    <3> QED
      BY <1>0, <1>2, <1>5, <1>6, <2>1, <3>1, ReadingStays
  <2>4. CASE up
    <3>1. toServer # <<>> /\ toServer' = Tail(toServer) /\ toServer \in Seq(Byte)
      BY <1>7, <2>4 DEF AskClientPublicKey_dummy, ByteType
    <3>2. 1 \in 0..Len(toServer) /\ toServer' = SubSeq(toServer, 1 + 1, Len(toServer))
      BY <3>1
    <3>3. Consumed("server") = 0 /\ Consumed("server")' = 1
      BY <2>1, Fields DEF Consumed
    <3>4. /\ Consumed("server")' = Consumed("server") + 1 /\ 1 \in 0..Len(ToRead("server"))
          /\ ToRead("server")' = SubSeq(ToRead("server"), 1 + 1, Len(ToRead("server")))
          /\ Written(Peer("server"))' = Written(Peer("server"))
      BY <1>5, <1>6, <3>2, <3>3
    <3>5. Reading("server", q + 1)'
      BY <1>0, <1>3, <1>5, <3>4, ReadingRead
    <3>6. q + 1 \in Nat
      OBVIOUS
    <3> QED
      BY <1>1, <2>2, <2>3, <3>5, <3>6 DEF InOrder
  <2>5. CASE ~up
    <3>1. Reading("server", q)'
      BY <1>0, <1>3, <1>5, <1>7, <2>5, ReadingStays DEF AskClientPublicKey_dummy
    <3> QED
      BY <1>1, <2>2, <2>3, <3>1 DEF InOrder
  <2> QED
    BY <2>4, <2>5
<1>8. CASE AskClientPublicKey_nonce
  <2>1. /\ spc = "nonce" /\ spc' = "rb" /\ up /\ UNCHANGED toServer
        /\ toClient' = toClient \o Nonce
    BY <1>8 DEF AskClientPublicKey_nonce
  <2>2. Answered(q)' /\ Untorn' /\ Accepted' /\ RefusedNeedsShort'
    BY <1>0, <2>1, Fields DEF Answered, Passed, Untorn, IsWhole, Accepted, RefusedNeedsShort
  <2>3. Written("server") = 0 /\ Written("server")' = NonceSize
    <3>1. Sent("server") = 0
      BY <1>0, <1>5, Numbers
    <3>2. Sent("server")' = 0
      BY <1>0, <3>1 DEF Sent
    <3> QED
      BY <2>1, <3>2, ClientAuthAssumption DEF Written
  <2>4. Reading("client", p)'
    <3>1. /\ Part(Word("client"), Nonce, Written(Peer("client"))) /\ Nonce \in Seq(Byte)
          /\ Written(Peer("client"))' = Written(Peer("client")) + Len(Nonce)
      BY <1>5, <2>3, Bytes, ClientAuthAssumption
    <3>2. ToRead("client")' = ToRead("client") \o Nonce
      BY <1>5, <2>1
    <3> QED
      BY <1>0, <1>2, <1>5, <1>6, <2>1, <3>1, <3>2, ReadingWritten
  <2>5. Reading("server", q)'
    <3>1. Consumed("server")' = Consumed("server")
      BY <2>1, Places, Fields DEF Consumed
    <3> QED
      BY <1>0, <1>3, <1>5, <1>6, <2>1, <3>1, ReadingStays
  <2> QED
    BY <1>1, <2>2, <2>4, <2>5 DEF InOrder
<1>9. CASE AskClientPublicKey_fails
  <2>1. ~up /\ spc' = "noKey" /\ UNCHANGED <<toServer, toClient>>
    BY <1>9 DEF AskClientPublicKey_fails
  <2>2. Answered(q)' /\ Untorn' /\ Accepted' /\ RefusedNeedsShort'
    BY <1>0, <2>1, Fields DEF Answered, Passed, Untorn, Accepted, RefusedNeedsShort
  <2>3. Reading("client", p)' /\ Reading("server", q)'
    BY <1>0, <1>2, <1>3, <1>5, <2>1, ReadingStays
  <2> QED
    BY <1>1, <2>2, <2>3 DEF InOrder
<1>10. CASE AskClientPublicKey_verify
  <2>1. /\ spc = "verify" /\ UNCHANGED <<toServer, toClient>>
        /\ spc' \in {"accepted", "noKey", "badSignature"}
        /\ spc' = "accepted" => /\ answer["key"] = Whole("key") /\ answer["rb"] = Whole("rb")
                                /\ answer["signature"] = Whole("signature")
        /\ spc' # "accepted" => \/ answer["key"] # Whole("key") \/ answer["rb"] # Whole("rb")
                                \/ answer["signature"] # Whole("signature") \/ ra # Nonce
    BY <1>10 DEF AskClientPublicKey_verify
  <2>2. Reading("client", p)' /\ Reading("server", q)'
    <3>1. Written("server")' = Written("server") /\ Consumed("server")' = Consumed("server")
      BY <1>0, <2>1, Fields DEF Written, Consumed, Sent, Out
    <3> QED
      BY <1>0, <1>2, <1>3, <1>5, <1>6, <2>1, <3>1, ReadingStays
  <2>3. spc' = "accepted" => IsWhole(AnswerField) /\ q = Base
    BY <1>3, <2>1, Fields DEF Answered, Passed, IsWhole
  <2>4. Answered(q)' /\ Accepted'
    <3>1. IsWhole(AnswerField)' <=> IsWhole(AnswerField)
      BY <1>0 DEF IsWhole
    <3>2. q = Base => q >= Base
      BY Places
    <3> QED
      BY <2>1, <2>3, <3>1, <3>2, Fields DEF Answered, Passed, Accepted
  <2>5. Untorn'
    BY <1>0, <2>1, Fields DEF Untorn, Passed, IsWhole
  <2>6. RefusedNeedsShort'
    <3> SUFFICES ASSUME Orderly, up PROVE spc' = "accepted"
      BY <1>0, <2>1 DEF RefusedNeedsShort, Orderly
    <3>1. IsWhole(AnswerField)
      BY <2>1, Fields DEF Untorn, Passed
    <3>2. serves
      BY <2>1 DEF Orderly, Turns
    <3>3. cpc \notin {"dummy", "nonce"}
      <4>1. q = Base
        BY <1>3, <2>1, <3>1, Fields DEF Answered, Passed, IsWhole
      <4>2. Base <= Written("client")
        BY <1>3, <1>5, <4>1, Numbers, Places DEF Reading
      <4> QED
        BY <4>2, Places, Fields DEF Written
    <3> QED
      BY <2>1, <3>1, <3>2, <3>3, Fields DEF Untorn, IsWhole
  <2> QED
    BY <1>1, <2>2, <2>4, <2>5, <2>6 DEF InOrder
<1> QED
  BY <1>7, <1>8, <1>9, <1>10

\* nonceAnswer.read
LEMMA ReadStep ==
  ASSUME PlaceType, ByteType, Turns, Holding, InOrder, Untorn, Accepted, OutIsIn,
         RefusedNeedsShort,
         AskClientPublicKey_read, run["server"] = "exchange", UNCHANGED loopVars
  PROVE  InOrder' /\ Untorn' /\ Accepted' /\ OutIsIn' /\ RefusedNeedsShort'
<1> USE DEF PlaceType
<1>1. PICK f \in AnswerField : f = spc
  BY DEF AskClientPublicKey_read
<1>2. PICK k \in 0..Len(toServer) :
        /\ k <= Wanted(f)
        /\ answer' = [answer EXCEPT ![f] = SubSeq(toServer, 1, k)]
        /\ toServer' = SubSeq(toServer, k + 1, Len(toServer))
        /\ short' = IF k < Wanted(f) THEN short \cup {"server"} ELSE short
        /\ IF f \in {"keySize", "signatureSize"}
           THEN IF k < IntSize THEN spc' = "panic" /\ UNCHANGED size
                ELSE /\ size' \in Decoded(SubSeq(toServer, 1, k))
                     /\ spc' = After(f, "verify")
           ELSE spc' = After(f, "verify") /\ UNCHANGED size
  BY <1>1 DEF AskClientPublicKey_read
<1>3. PICK x : x = SubSeq(toServer, 1, k)
  OBVIOUS
<1>4. /\ UNCHANGED <<serves, asks, cpc, ra, toClient, up, run, input, obuf, ibuf, output>>
      /\ up
  BY DEF AskClientPublicKey_read, loopVars
<1>5. /\ "client" \in End /\ "server" \in End /\ Peer("client") = "server"
      /\ Peer("server") = "client" /\ ToRead("client") = toClient
      /\ ToRead("server") = toServer /\ ToRead("client")' = toClient'
      /\ ToRead("server")' = toServer' /\ Word("client") = Told /\ Word("server") = Asked
  BY DEF End, Peer, ToRead, Word
<1>6. k \in Nat /\ x \in Seq(Byte) /\ Len(x) = k
  <2>1. Part([p \in Nat |-> toServer[p]], toServer, 0) /\ toServer \in Seq(Byte)
    BY DEF Part, ByteType
  <2> QED
    BY <1>3, <2>1, PartCut
<1>7. PICK p \in Nat : Reading("client", p)
  BY DEF InOrder
<1>8. PICK q \in Nat : Reading("server", q) /\ Answered(q)
  BY DEF InOrder
<1>9. /\ short \subseteq short' /\ (Orderly' => Orderly)
      /\ Wanted(f) \in Nat /\ (Orderly' => k = Wanted(f))
  <2>1. Wanted(f) \in Nat
    BY Places DEF Wanted
  <2>2. k < Wanted(f) => short' # {}
    BY <1>2
  <2> QED
    BY <1>2, <1>4, <1>6, <2>1, <2>2 DEF Orderly
<1>10. OutIsIn'
  BY <1>4, <1>9 DEF OutIsIn, Out
<1>11. spc' = "panic" \/ spc' = After(f, "verify")
  BY <1>2
<1>12. /\ After(f, "verify") = "verify" \/ After(f, "verify") \in AnswerField
       /\ After(f, "verify") \in AnswerField =>
            Begin[After(f, "verify")] = Begin[f] + SizeOf[f]
       /\ After(f, "verify") \notin AnswerField => Base = Begin[f] + SizeOf[f]
  <2>1. "verify" \notin AnswerField
    BY Fields
  <2> QED
    BY <2>1, NextPlace
<1>13. Accepted'
  BY <1>11, <1>12, Fields DEF Accepted
<1>14. IsWhole(Passed) => /\ Passed # {} => q = Begin[f]
                          /\ Wanted(f) = SizeOf[f]
  <2> SUFFICES ASSUME IsWhole(Passed) PROVE /\ Passed # {} => q = Begin[f]
                                           /\ Wanted(f) = SizeOf[f]
    OBVIOUS
  <2>1. Passed # {} => /\ spc = "key" => size = KeySize
                       /\ spc = "signature" => size = SignatureSize
                       /\ q = Begin[f]
    BY <1>1, <1>8 DEF Answered, IsWhole
  <2>2. f \in {"key", "signature"} => Passed # {}
    BY <1>1, Fields DEF Passed
  <2>3. SizeOf["key"] = KeySize /\ SizeOf["signature"] = SignatureSize
    BY DEF SizeOf
  <2> QED
    BY <1>1, <2>1, <2>2, <2>3 DEF Wanted
<1>15. Orderly => q = Begin[f] /\ IsWhole(Passed)
  BY <1>1, <1>4, <1>8, Fields DEF Reading, Consumed, Untorn
<1>16. Orderly' => k = SizeOf[f] /\ q = Begin[f]
  BY <1>9, <1>14, <1>15
<1>17. Part(Asked, x, q)
  <2>1. Part(Asked, toServer, q) /\ toServer \in Seq(Byte)
    BY <1>5, <1>8 DEF Reading, ByteType
  <2> QED
    BY <1>3, <2>1, PartCut
<1>18. Orderly' => spc' = After(f, "verify") /\ x = Whole(f)
  <2>1. Orderly' => x = Whole(f)
    BY <1>6, <1>16, <1>17, PartIsField
  <2>2. f \in {"keySize", "signatureSize"} => SizeOf[f] = IntSize
    BY DEF SizeOf
  <2>3. ~(IntSize < IntSize)
    BY ClientAuthAssumption
  <2> QED
    BY <1>2, <1>16, <2>1, <2>2, <2>3
<1>19. RefusedNeedsShort'
  BY <1>4, <1>11, <1>12, <1>18, Fields DEF RefusedNeedsShort, Orderly
<1>20. Reading("client", p)'
  <2>1. Written("server")' = Written("server") /\ Consumed("client")' = Consumed("client")
    BY <1>1, <1>4, <1>11, <1>12, Fields DEF Written, Consumed, Sent, Out
  <2> QED
    BY <1>4, <1>5, <1>7, <1>9, <2>1, ReadingStays
<1>21. Reading("server", q + k)'
  <2>1. Written("client")' = Written("client")
    BY <1>4 DEF Written, Sent
  <2>2. Orderly' => Consumed("server")' = Consumed("server") + k
    <3>1. Out("server")' = Out("server") /\ Len(Out("server")) = 0
      BY <1>4, <1>5, Numbers DEF Out
    <3>2. Consumed("server") = Begin[f]
      BY <1>1, Fields DEF Consumed
    <3>3. spc' = After(f, "verify") => Consumed("server")' = Begin[f] + SizeOf[f]
      <4>1. Base + 0 = Base
        BY Places
      <4> QED
        BY <1>12, <3>1, <4>1, Fields DEF Consumed
    <3> QED
      BY <1>16, <1>18, <3>2, <3>3
  <2>3. /\ k \in 0..Len(ToRead("server"))
        /\ ToRead("server")' = SubSeq(ToRead("server"), k + 1, Len(ToRead("server")))
        /\ Written(Peer("server"))' = Written(Peer("server"))
    BY <1>2, <1>5, <2>1
  <2> QED
    BY <1>4, <1>5, <1>8, <1>9, <2>2, <2>3, ReadingRead
<1>22. /\ spc' = "panic" => Passed' = {}
       /\ spc' = After(f, "verify") => Passed' = Passed \cup {f} /\ f \notin Passed
  <2>1. spc' = "panic" => Passed' = {}
    BY DEF Passed
  <2>2. CASE f = "rb"
    BY <1>1, <2>1, <2>2, AfterFields DEF Passed
  <2>3. CASE f = "keySize"
    BY <1>1, <2>1, <2>3, AfterFields DEF Passed
  <2>4. CASE f = "key"
    BY <1>1, <2>1, <2>4, AfterFields DEF Passed
  <2>5. CASE f = "signatureSize"
    BY <1>1, <2>1, <2>5, AfterFields, Fields DEF Passed
  <2>6. CASE f = "signature"
    BY <1>1, <2>1, <2>6, AfterFields, Fields DEF Passed
  <2> QED
    BY <2>2, <2>3, <2>4, <2>5, <2>6, Fields
<1>23. answer'[f] = x /\ \A g \in AnswerField \ {f} : answer'[g] = answer[g]
  BY <1>2, <1>3 DEF ByteType
<1>24. Passed \subseteq AnswerField
  BY Fields DEF Passed
<1>25. Untorn'
  <2> SUFFICES ASSUME Orderly' PROVE (serves /\ cpc \notin {"dummy", "nonce"} => ra = Nonce)
                                     /\ IsWhole(Passed)'
    BY <1>4 DEF Untorn
  <2>1. IsWhole(Passed) /\ (serves /\ cpc \notin {"dummy", "nonce"} => ra = Nonce)
    BY <1>4, <1>9 DEF Untorn
  <2>2. \A g \in Passed : answer'[g] = Whole(g)
    BY <1>18, <1>22, <1>23, <1>24, <2>1 DEF IsWhole
  <2> QED
    BY <1>18, <1>22, <1>23, <2>1, <2>2 DEF IsWhole
<1>26. Answered(q + k)'
  <2> SUFFICES ASSUME spc' = After(f, "verify"),
                      \A g \in Passed' \ {"keySize", "signatureSize"} : answer'[g] = Whole(g)
               PROVE  /\ IsWhole(Passed)'
                      /\ spc' = "key" => size' = KeySize
                      /\ spc' = "signature" => size' = SignatureSize
                      /\ q + k = Begin[f] + SizeOf[f]
    <3>1. Passed' # {} => spc' = After(f, "verify")
      BY <1>11, <1>22
    <3> QED
      BY <1>12, <3>1, Fields DEF Answered, IsWhole
  <2>1. \A g \in Passed \ {"keySize", "signatureSize"} : answer[g] = Whole(g)
    BY <1>22, <1>23, <1>24
  <2>2. IsWhole(Passed)
    BY <1>8, <2>1 DEF Answered, IsWhole
  <2>3. Passed = {} => f = "rb"
    BY <1>1, Fields DEF Passed
  <2>4. q = Begin[f] /\ k = SizeOf[f]
    <3>1. CASE f = "rb"
      <4>1. x = Whole("rb")
        BY <1>22, <1>23, <3>1
      <4>2. k = SizeOf[f] /\ x[1] = <<"rb", 1>> /\ k \in Nat \ {0}
        BY <1>6, <3>1, <4>1, FieldIsPart, Places
      <4>3. Asked[q + 1] = <<"rb", 1>>
        BY <1>6, <1>17, <4>2 DEF Part
      <4>4. q + 1 = 2
        BY <4>3, Places
      <4> QED
        BY <3>1, <4>2, <4>4, Places
    <3>2. CASE f \in {"keySize", "signatureSize"}
      <4>1. Wanted(f) = IntSize /\ SizeOf[f] = IntSize
        BY <3>2 DEF Wanted, SizeOf
      <4>2. ~(k < IntSize)
        BY <1>2, <1>12, <3>2, Fields
      <4>3. q = Begin[f]
        BY <1>14, <2>2, <2>3, <3>2
      <4> QED
        BY <1>2, <1>6, <4>1, <4>2, <4>3, ClientAuthAssumption
    <3>3. CASE f \in {"key", "signature"}
      <4>1. x = Whole(f)
        BY <1>22, <1>23, <3>3
      <4> QED
        BY <1>6, <1>14, <2>2, <2>3, <3>3, <4>1, FieldIsPart
    <3> QED
      BY <3>1, <3>2, <3>3, Fields
  <2>5. x = Whole(f)
    BY <1>6, <1>17, <2>4, PartIsField
  <2>6. IsWhole(Passed)'
    BY <1>22, <1>23, <1>24, <2>2, <2>5 DEF IsWhole
  <2>7. spc' = "key" => size' = KeySize
    <3> SUFFICES ASSUME spc' = "key" PROVE size' = KeySize
      OBVIOUS
    <3>1. f = "keySize"
      BY AfterFields, Fields
    <3>2. ~(k < IntSize) /\ Decoded(x) = {KeySize}
      <4>1. k = IntSize
        BY <2>4, <3>1 DEF SizeOf
      <4>2. Decoded(Whole("keySize")) = {KeySize}
        BY FieldsDiffer, Fields DEF Decoded
      <4> QED
        BY <2>5, <3>1, <4>1, <4>2, ClientAuthAssumption
    <3> QED
      BY <1>2, <1>3, <3>1, <3>2
  <2>8. spc' = "signature" => size' = SignatureSize
    <3> SUFFICES ASSUME spc' = "signature" PROVE size' = SignatureSize
      OBVIOUS
    <3>1. f = "signatureSize"
      BY AfterFields, Fields
    <3>2. ~(k < IntSize) /\ Decoded(x) = {SignatureSize}
      <4>1. k = IntSize
        BY <2>4, <3>1 DEF SizeOf
      <4>2. Decoded(Whole("signatureSize")) = {SignatureSize}
        <5>1. Whole("signatureSize") # Whole("keySize")
          BY FieldsDiffer, Fields
        <5> QED
          BY <5>1 DEF Decoded
      <4> QED
        BY <2>5, <3>1, <4>1, <4>2, ClientAuthAssumption
    <3> QED
      BY <1>2, <1>3, <3>1, <3>2
  <2> QED
    BY <2>4, <2>6, <2>7, <2>8
<1>27. q + k \in Nat
  BY <1>6
<1> QED
  BY <1>10, <1>13, <1>19, <1>20, <1>21, <1>25, <1>26, <1>27 DEF InOrder
-----------------------------------------------------------------------------
(* The loop. *)

\* In the loop an end goes on where the exchange has left its two streams.
LEMMA AtInput ==
  ASSUME PlaceType, ByteType, Turns, Holding, NEW e \in End, run[e] = "loop"
  PROVE  /\ Written(e) = Start(Peer(e)) + Sent(e)
         /\ Consumed(e) = Start(e) + Len(Out(e))
         /\ e = "server" => spc \notin AnswerField \cup {"dummy", "nonce", "verify"}
<1>1. CASE e = "client"
  <2>1. cpc = "ready"
    BY <1>1 DEF Turns
  <2> QED
    BY <1>1, <2>1, Fields DEF Written, Consumed, Start, Peer
<1>2. CASE e = "server"
  <2>1. spc \in {"ready", "accepted", "badSignature", "noKey", "panic"}
    BY <1>2 DEF Turns
  <2> QED
    BY <1>2, <2>1, Fields DEF Written, Consumed, Start, Peer
<1> QED
  BY <1>1, <1>2 DEF End

\* A step that leaves the streams where they are.
LEMMA StreamsStay ==
  ASSUME InOrder, Untorn, Accepted, OutIsIn, RefusedNeedsShort,
         UNCHANGED <<authVars, toServer, toClient>>, up' => up,
         \A e \in End : Out(e)' = Out(e) /\ (up' => Sent(e)' = Sent(e))
  PROVE  InOrder' /\ Untorn' /\ Accepted' /\ OutIsIn' /\ RefusedNeedsShort'
<1>1. /\ UNCHANGED <<serves, asks, cpc, ra, spc, answer, size, short>>
      /\ Passed' = Passed /\ (Orderly' <=> Orderly)
      /\ \A S : IsWhole(S)' <=> IsWhole(S)
  BY DEF authVars, Passed, Orderly, IsWhole
<1>2. Accepted' /\ OutIsIn' /\ Untorn' /\ RefusedNeedsShort'
  BY <1>1 DEF Accepted, OutIsIn, Untorn, RefusedNeedsShort, IsWhole
<1>3. \A e \in End : /\ ToRead(e)' = ToRead(e) /\ Consumed(e)' = Consumed(e)
                     /\ up' => Written(e)' = Written(e)
  BY <1>1 DEF ToRead, Consumed, Written
<1>4. ASSUME NEW e \in End, NEW r \in Nat, Reading(e, r) PROVE Reading(e, r)'
  <2>1. up' => Written(Peer(e))' = Written(Peer(e))
    BY <1>3, TwoPeers
  <2> QED
    BY <1>1, <1>3, <1>4, <2>1, ReadingStays
<1>5. \A r \in Nat : Answered(r) => Answered(r)'
  BY <1>1 DEF Answered, IsWhole
<1> QED
  BY <1>2, <1>4, <1>5 DEF InOrder, End

\* runClient, runServer, transmit but for the stream, and the end.
LEMMA QuietStep ==
  ASSUME PlaceType, ByteType, Holding, InOrder, Untorn, Accepted, OutIsIn,
         RefusedNeedsShort,
         \/ runClient \/ runServer \/ Session_ends \/ UNCHANGED netcatVars
         \/ \E e \in End : Stdin_read(e) \/ Stdout_write(e) \/ Stream_fails(e) \/ loop(e)
  PROVE  InOrder' /\ Untorn' /\ Accepted' /\ OutIsIn' /\ RefusedNeedsShort'
<1> USE DEF PlaceType, ByteType
<1>1. CASE runClient \/ runServer \/ Session_ends \/ UNCHANGED netcatVars
  <2>1. UNCHANGED <<authVars, toServer, toClient, input, obuf, ibuf, output>> /\ (up' => up)
    BY <1>1 DEF runClient, runServer, Session_ends, netcatVars, vars, authVars, loopVars
  <2> QED
    BY <2>1, StreamsStay DEF Out, Sent
<1>2. ASSUME NEW e \in End, Stdin_read(e)
      PROVE  InOrder' /\ Untorn' /\ Accepted' /\ OutIsIn' /\ RefusedNeedsShort'
  <2>1. UNCHANGED <<authVars, toServer, toClient, ibuf, output, up>>
    BY <1>2 DEF Stdin_read, vars, authVars
  <2>2. \A d \in End : Sent(d)' = Sent(d)
    <3>1. CASE input' = input /\ obuf' = obuf
      BY <3>1 DEF Sent
    <3>2. CASE /\ input' = [input EXCEPT ![e] = input[e] + 1]
               /\ obuf' = [obuf EXCEPT ![e] = << <<e, input[e] + 1>> >>]
      <4>1. obuf[e] = <<>> /\ obuf'[e] # <<>> /\ input'[e] - 1 = input[e]
        <5>1. PICK n \in Nat : n = input[e] + 1 /\ n - 1 = input[e]
          <6>1. input[e] \in Nat
            OBVIOUS
          <6>2. \A m \in Nat : m + 1 \in Nat /\ (m + 1) - 1 = m
            OBVIOUS
          <6> QED
            BY <6>1, <6>2
        <5>2. obuf'[e] = << <<e, n>> >> /\ input'[e] = n /\ obuf[e] = <<>>
          BY <1>2, <3>2, <5>1 DEF Stdin_read
        <5>3. << <<e, n>> >> # <<>>
          OBVIOUS
        <5> QED
          BY <5>1, <5>2, <5>3
      <4>2. \A d \in End \ {e} : input'[d] = input[d] /\ obuf'[d] = obuf[d]
        BY <3>2
      <4> QED
        BY <4>1, <4>2 DEF Sent
    <3> QED
      BY <1>2, <3>1, <3>2 DEF Stdin_read
  <2> QED
    BY <2>1, <2>2, StreamsStay DEF Out
<1>3. ASSUME NEW e \in End, Stdout_write(e)
      PROVE  InOrder' /\ Untorn' /\ Accepted' /\ OutIsIn' /\ RefusedNeedsShort'
  <2>1. UNCHANGED <<authVars, toServer, toClient, input, obuf, up>>
    BY <1>3 DEF Stdout_write, vars, authVars
  <2>2. \A d \in End : Out(d)' = Out(d)
    <3>1. \A s \in Seq(Byte) : s \o <<>> = s
      OBVIOUS
    <3>2. output'[e] = output[e] \o ibuf[e] /\ ibuf'[e] = <<>>
      BY <1>3 DEF Stdout_write
    <3>3. output[e] \o ibuf[e] \in Seq(Byte)
      BY Joined
    <3>4. \A d \in End \ {e} : output'[d] = output[d] /\ ibuf'[d] = ibuf[d]
      BY <1>3 DEF Stdout_write
    <3> QED
      BY <3>1, <3>2, <3>3, <3>4 DEF Out
  <2> QED
    BY <2>1, <2>2, StreamsStay DEF Sent
<1>4. ASSUME NEW e \in End, Stream_fails(e) \/ loop(e)
      PROVE  InOrder' /\ Untorn' /\ Accepted' /\ OutIsIn' /\ RefusedNeedsShort'
  <2>1. UNCHANGED <<authVars, toServer, toClient, input, obuf, ibuf, output>> /\ (up' => up)
    BY <1>4 DEF Stream_fails, loop, vars, authVars
  <2> QED
    BY <2>1, StreamsStay DEF Out, Sent
<1> QED
  BY <1>1, <1>2, <1>3, <1>4

\* The byte of the input that is written is the next of the word.
LEMMA WriteStep ==
  ASSUME PlaceType, ByteType, Turns, Holding, InOrder, Untorn, Accepted, OutIsIn,
         RefusedNeedsShort, NEW e \in End, Stream_write(e)
  PROVE  InOrder' /\ Untorn' /\ Accepted' /\ OutIsIn' /\ RefusedNeedsShort'
<1> USE DEF PlaceType
<1>1. UNCHANGED <<serves, asks, cpc, ra, spc, answer, size, short, up, run, input, ibuf, output>>
  BY DEF Stream_write, authVars
<1>2. /\ obuf'[e] = <<>> /\ obuf[e] = << <<e, input[e]>> >> /\ input[e] > 0
      /\ \A d \in End \ {e} : obuf'[d] = obuf[d]
  BY DEF Stream_write, Holding, ByteType
<1>3. CASE ~up
  <2>1. UNCHANGED <<authVars, toServer, toClient>>
    BY <1>3 DEF Stream_write, authVars
  <2> QED
    BY <1>1, <1>3, <2>1, StreamsStay DEF Out
<1>4. CASE up
  <2>1. PICK d \in End : d = Peer(e) /\ Peer(d) = e /\ d # e
    BY TwoPeers
  <2>2. PICK x \in Seq(Byte) : x = obuf[e]
    BY DEF ByteType
  <2>3. ToRead(d)' = ToRead(d) \o x /\ ToRead(e)' = ToRead(e)
    BY <1>4, <2>1, <2>2, StreamWritten DEF Stream_write
  <2>4. /\ Sent(e)' = input[e] /\ Sent(e) = input[e] - 1 /\ Sent(d)' = Sent(d)
        /\ Len(x) = 1 /\ x[1] = <<e, input[e]>> /\ x # <<>>
    BY <1>1, <1>2, <2>1, <2>2 DEF Sent
  <2>5. /\ Written(e) = Start(d) + Sent(e) /\ Written(e)' = Start(d) + Sent(e)'
        /\ Written(d)' = Written(d)
    <3>1. Written(e) = Start(d) + Sent(e) /\ run[e] = "loop"
      BY <2>1, AtInput DEF Stream_write
    <3>2. Written(d)' = Written(d)
      BY <1>1, <2>4 DEF Written
    <3>3. Written(e)' = Start(d) + Sent(e)'
      <4>1. CASE e = "client"
        BY <1>1, <2>1, <3>1, <4>1, Fields DEF Written, Start, Turns, Peer
      <4>2. CASE e = "server"
        BY <1>1, <2>1, <3>1, <4>2, Fields DEF Written, Start, Turns, Peer
      <4> QED
        BY <4>1, <4>2 DEF End
    <3> QED
      BY <3>1, <3>2, <3>3
  <2>6. Start(d) \in Nat /\ input[e] \in Nat \ {0}
    BY <1>2, InputPlaces
  <2>7. /\ Part(Word(d), x, Written(Peer(d)))
        /\ Written(Peer(d))' = Written(Peer(d)) + Len(x)
    <3>1. PICK n \in Nat : n = Start(d) + input[e] /\ Written(e) + 1 = n
      BY <2>4, <2>5, <2>6
    <3>2. Word(d)[Start(d) + input[e]] = <<e, input[e]>>
      BY <2>1, <2>6, InputPlaces
    <3>3. x[1] = Word(d)[Written(e) + 1]
      BY <2>4, <3>1, <3>2
    <3>4. Part(Word(d), x, Written(e))
      BY <2>4, <3>3 DEF Part
    <3>5. Written(e)' = Written(e) + Len(x)
      BY <2>4, <2>5, <2>6
    <3> QED
      BY <2>1, <3>4, <3>5
  <2>8. \A c \in End : Consumed(c)' = Consumed(c) /\ Out(c)' = Out(c)
    BY <1>1 DEF Consumed, Out
  <2>9. Orderly' <=> Orderly
    BY <1>1 DEF Orderly
  <2>10. ASSUME NEW r \in Nat, Reading(d, r) PROVE Reading(d, r)'
    BY <1>1, <1>4, <2>3, <2>7, <2>8, <2>9, <2>10, ReadingWritten
  <2>11. ASSUME NEW r \in Nat, Reading(e, r) PROVE Reading(e, r)'
    <3>1. Written(Peer(e))' = Written(Peer(e))
      BY <2>1, <2>5
    <3> QED
      BY <1>1, <2>3, <2>8, <2>9, <2>11, <3>1, ReadingStays
  <2>12. \A r \in Nat : Answered(r) => Answered(r)'
    BY <1>1 DEF Answered, Passed, IsWhole
  <2>13. \A c \in End, r \in Nat : Reading(c, r) => Reading(c, r)'
    BY <2>1, <2>10, <2>11, TwoPeers
  <2>14. InOrder'
    BY <2>12, <2>13 DEF InOrder, End
  <2>15. Untorn' /\ Accepted' /\ OutIsIn' /\ RefusedNeedsShort'
    BY <1>1, <2>8, <2>9 DEF Untorn, Accepted, OutIsIn, RefusedNeedsShort, Passed, IsWhole
  <2> QED
    BY <2>14, <2>15
<1> QED
  BY <1>3, <1>4

\* What is read is the next of the word, and goes behind what is out.
LEMMA StreamReadStep ==
  ASSUME PlaceType, ByteType, Turns, Holding, InOrder, Untorn, Accepted, OutIsIn,
         RefusedNeedsShort, NEW e \in End, Stream_read(e)
  PROVE  InOrder' /\ Untorn' /\ Accepted' /\ OutIsIn' /\ RefusedNeedsShort'
<1> USE DEF PlaceType
<1>1. /\ UNCHANGED <<serves, asks, cpc, ra, spc, answer, size, short, up>>
      /\ UNCHANGED <<run, input, obuf, output>> /\ up
  BY DEF Stream_read, authVars
<1>2. PICK k \in 1..Len(ToRead(e)) :
        /\ ibuf' = [ibuf EXCEPT ![e] = SubSeq(ToRead(e), 1, k)]
        /\ ReadStream(e, k)
  BY DEF Stream_read
<1>3. PICK s \in Seq(Byte) : s = ToRead(e)
  BY ToReadType
<1>4. k \in 0..Len(s) /\ Len(s) \in Nat /\ k \in Nat
  BY <1>2, <1>3
<1>5. PICK d \in End : d = Peer(e) /\ Peer(d) = e /\ d # e /\ \A c \in End : c = d \/ c = e
  BY TwoPeers
<1>6. ToRead(e)' = SubSeq(ToRead(e), k + 1, Len(ToRead(e))) /\ ToRead(d)' = ToRead(d)
  BY <1>2, <1>3, <1>4, <1>5, StreamRead
<1>7. PICK x \in Seq(Byte) : x = SubSeq(s, 1, k) /\ Len(x) = k
  <2>1. Part([p \in Nat |-> s[p]], s, 0)
    BY DEF Part
  <2>2. SubSeq(s, 1, k) \in Seq(Byte) /\ Len(SubSeq(s, 1, k)) = k
    BY <1>4, <2>1, PartCut
  <2> QED
    BY <2>2
<1>8. Out(e) = output[e] /\ Out(e)' = output[e] \o x /\ Out(d)' = Out(d)
  <2>1. \A t \in Seq(Byte) : t \o <<>> = t
    OBVIOUS
  <2>2. ibuf[e] = <<>> /\ output[e] \in Seq(Byte)
    BY DEF Stream_read, ByteType
  <2>3. ibuf'[e] = x /\ ibuf'[d] = ibuf[d]
    BY <1>2, <1>3, <1>5, <1>7 DEF ByteType
  <2> QED
    BY <1>1, <2>1, <2>2, <2>3 DEF Out
<1>9. PICK o \in Seq(Byte) : o = Out(e) /\ Out(e)' = o \o x /\ Len(o \o x) = Len(o) + Len(x)
  <2>1. PICK o \in Seq(Byte) : o = output[e]
    BY DEF ByteType
  <2>2. Len(o \o x) = Len(o) + Len(x)
    OBVIOUS
  <2> QED
    BY <1>8, <2>1, <2>2
<1>10. Orderly' <=> Orderly
  BY <1>1 DEF Orderly
<1>11. Consumed(d)' = Consumed(d) /\ \A c \in End : Written(c)' = Written(c)
  BY <1>1, <1>8 DEF Consumed, Written, Sent
<1>12. /\ Consumed(e) = Start(e) + Len(o) /\ Consumed(e)' = Consumed(e) + k
       /\ e = "server" => spc \notin AnswerField \cup {"dummy", "nonce", "verify"}
  <2>1. run[e] = "loop"
    BY DEF Stream_read
  <2>2. /\ Consumed(e) = Start(e) + Len(o)
        /\ e = "server" => spc \notin AnswerField \cup {"dummy", "nonce", "verify"}
    BY <1>9, <2>1, AtInput
  <2>3. Consumed(e)' = Start(e) + Len(o \o x)
    <3>1. CASE e = "client"
      <4>1. cpc = "ready"
        BY <2>1, <3>1 DEF Turns
      <4> QED
        BY <1>1, <1>9, <3>1, <4>1, Fields DEF Consumed, Start
    <3>2. CASE e = "server"
      BY <1>1, <1>9, <2>2, <3>2 DEF Consumed, Start
    <3> QED
      BY <3>1, <3>2 DEF End
  <2>4. Start(e) \in Nat /\ Len(o) \in Nat
    BY InputPlaces
  <2> QED
    BY <1>4, <1>7, <1>9, <2>2, <2>3, <2>4
<1>13. ASSUME NEW r \in Nat, Reading(e, r)
       PROVE  Reading(e, r + k)' /\ Part(Word(e), x, r)
  <2>1. Written(Peer(e))' = Written(Peer(e))
    BY <1>5, <1>11
  <2>2. k \in 0..Len(ToRead(e)) /\ (Orderly' /\ up' => Orderly /\ Consumed(e)' = Consumed(e) + k)
    BY <1>3, <1>4, <1>10, <1>12
  <2>3. Reading(e, r + k)' /\ Part(Word(e), SubSeq(ToRead(e), 1, k), r)
    BY <1>1, <1>6, <1>13, <2>1, <2>2, ReadingRead
  <2> QED
    BY <1>3, <1>7, <2>3
<1>14. ASSUME NEW r \in Nat, Reading(d, r) PROVE Reading(d, r)'
  <2>1. Written(Peer(d))' = Written(Peer(d))
    BY <1>5, <1>11
  <2> QED
    BY <1>1, <1>6, <1>10, <1>11, <1>14, <2>1, ReadingStays
<1>15. ASSUME NEW r \in Nat, Answered(r)
       PROVE  Answered(r)' /\ (e = "server" => Answered(r + k)')
  <2>1. Answered(r)'
    BY <1>1, <1>15 DEF Answered, Passed, IsWhole
  <2>2. r >= Base => r + k >= Base
    BY <1>4, Places
  <2>3. e = "server" => Answered(r + k)'
    BY <1>1, <1>12, <1>15, <2>2 DEF Answered, Passed, IsWhole
  <2> QED
    BY <2>1, <2>3
<1>16. InOrder'
  <2>1. PICK p \in Nat : Reading("client", p)
    BY DEF InOrder
  <2>2. PICK q \in Nat : Reading("server", q) /\ Answered(q)
    BY DEF InOrder
  <2>3. CASE e = "client"
    <3>1. d = "server" /\ p + k \in Nat
      BY <1>4, <1>5, <2>3 DEF End
    <3> QED
      BY <1>13, <1>14, <1>15, <2>1, <2>2, <2>3, <3>1 DEF InOrder
  <2>4. CASE e = "server"
    <3>1. d = "client" /\ q + k \in Nat
      BY <1>4, <1>5, <2>4 DEF End
    <3> QED
      BY <1>13, <1>14, <1>15, <2>1, <2>2, <2>4, <3>1 DEF InOrder
  <2> QED
    BY <2>3, <2>4 DEF End
<1>17. OutIsIn'
  <2> SUFFICES ASSUME Orderly PROVE \A c \in End : Part(Word(c), Out(c)', Start(c))
    BY <1>10 DEF OutIsIn
  <2>1. \A c \in End : Part(Word(c), Out(c), Start(c))
    BY DEF OutIsIn
  <2>2. PICK r \in Nat : Reading(e, r)
    BY DEF InOrder, End
  <2>3. r = Start(e) + Len(o) /\ Start(e) \in Nat
    BY <1>1, <1>12, <2>2, InputPlaces DEF Reading
  <2>4. Part(Word(e), x, Start(e) + Len(o)) /\ Part(Word(e), o, Start(e))
    BY <1>9, <1>13, <2>1, <2>2, <2>3
  <2>5. Part(Word(e), o \o x, Start(e))
    BY <2>3, <2>4, PartJoined
  <2> QED
    BY <1>5, <1>8, <1>9, <2>1, <2>5
<1>18. Untorn' /\ Accepted' /\ RefusedNeedsShort'
  BY <1>1, <1>10 DEF Untorn, Accepted, RefusedNeedsShort, Passed, IsWhole
<1> QED
  BY <1>16, <1>17, <1>18
-----------------------------------------------------------------------------
(* The invariant. *)

Within == \A e \in End : input[e] <= MaxInput[e]

NetcatInv == /\ PlaceType /\ ByteType /\ Within /\ Turns /\ Holding
             /\ InOrder /\ Untorn /\ Accepted /\ OutIsIn /\ RefusedNeedsShort

\* Nothing is written, and nothing is read.
LEMMA NetcatInitially == NetcatInit => NetcatInv
<1> SUFFICES ASSUME NetcatInit PROVE NetcatInv
  OBVIOUS
<1> USE DEF NetcatInit, Init
<1>1. <<>> \in Seq(Byte) /\ \A w, p : Part(w, <<>>, p)
  BY EmptySeq DEF Part
<1>2. PlaceType /\ ByteType
  BY <1>1 DEF PlaceType, ByteType, ClientPlace, ServerPlace, End
<1>3. Within
  BY NetcatAssumption DEF Within
<1>4. Turns /\ Holding
  BY DEF Turns, Holding, End
<1>5. Passed = {} /\ Accepted /\ RefusedNeedsShort /\ Untorn
  <2>1. Passed = {}
    BY DEF Passed
  <2>2. serves => cpc \in {"dummy", "nonce"}
    OBVIOUS
  <2> QED
    BY <2>1, <2>2 DEF Accepted, RefusedNeedsShort, Untorn, IsWhole
<1>6. \A e \in End : Out(e) = <<>> /\ Sent(e) = 0
  <2>1. <<>> \o <<>> = <<>>
    OBVIOUS
  <2> QED
    BY <2>1 DEF Out, Sent
<1>7. OutIsIn
  BY <1>1, <1>6 DEF OutIsIn
<1>8. Len(<<>>) = 0 /\ \A n \in Nat : n + 0 = n
  OBVIOUS
<1>9. Base \in Nat /\ NonceSize \in Nat
  BY Places, ClientAuthAssumption
<1>10. \E p \in Nat : Reading("client", p)
  <2>1. Written("server") = (IF asks THEN 0 ELSE NonceSize)
    BY <1>6, <1>8, <1>9 DEF Written, End
  <2>2. Consumed("client") = (IF serves THEN 0 ELSE NonceSize)
    BY <1>6, <1>8, <1>9 DEF Consumed, End
  <2>3. Written("server") \in Nat
    BY <1>9, <2>1
  <2>4. Reading("client", Written("server"))
    BY <1>1, <1>8, <2>1, <2>2, <2>3 DEF Reading, ToRead, Peer, Orderly
  <2> QED
    BY <2>3, <2>4
<1>11. \E q \in Nat : Reading("server", q) /\ Answered(q)
  <2>1. Written("client") = (IF serves THEN 0 ELSE Base)
    BY <1>6, <1>8, <1>9, Fields DEF Written, End
  <2>2. Consumed("server") = (IF asks THEN 0 ELSE Base)
    BY <1>6, <1>8, <1>9, Fields DEF Consumed, End
  <2>3. Written("client") \in Nat
    BY <1>9, <2>1
  <2>4. Reading("server", Written("client"))
    BY <1>1, <1>8, <2>1, <2>2, <2>3 DEF Reading, ToRead, Peer, Orderly
  <2> QED
    BY <1>5, <2>3, <2>4 DEF Answered
<1> QED
  BY <1>2, <1>3, <1>4, <1>5, <1>7, <1>10, <1>11 DEF NetcatInv, InOrder

\* Every step of netcat keeps it.
LEMMA NetcatInvNext == NetcatInv /\ [NetcatNext]_netcatVars => NetcatInv'
<1> SUFFICES ASSUME NetcatInv, [NetcatNext]_netcatVars PROVE NetcatInv'
  OBVIOUS
<1> USE DEF NetcatInv
<1>1. PlaceType' /\ ByteType' /\ Turns' /\ Holding'
  BY PlaceTypeNext, ByteTypeNext, TurnsNext, HoldingNext
<1>2. Within'
  <2>1. CASE input' = input
    BY <2>1 DEF Within
  <2>2. ASSUME NEW e \in End, Stdin_read(e) PROVE Within'
    <3>1. CASE input[e] < MaxInput[e] /\ input' = [input EXCEPT ![e] = input[e] + 1]
      <4>1. \A n, m \in Nat : n < m => n + 1 <= m
        OBVIOUS
      <4>2. input[e] \in Nat /\ MaxInput[e] \in Nat
        BY NetcatAssumption DEF PlaceType
      <4>3. input'[e] <= MaxInput[e]
        BY <3>1, <4>1, <4>2 DEF PlaceType
      <4>4. \A d \in End \ {e} : input'[d] = input[d]
        BY <3>1 DEF PlaceType
      <4> QED
        BY <4>3, <4>4 DEF Within
    <3> QED
      BY <2>1, <2>2, <3>1 DEF Stdin_read
  <2> QED
    BY <2>1, <2>2 DEF NetcatNext, netcatVars, loopVars, Exchange, runClient, runServer,
       transmit, Stream_write, Stream_read, Stdout_write, Stream_fails, loop, Session_ends
<1>3. InOrder' /\ Untorn' /\ Accepted' /\ OutIsIn' /\ RefusedNeedsShort'
  <2>1. CASE Exchange
    BY <2>1, ServeStep, AskStep, ReadStep DEF Exchange, AskClientPublicKey
  <2>2. ASSUME NEW e \in End, transmit(e)
        PROVE  InOrder' /\ Untorn' /\ Accepted' /\ OutIsIn' /\ RefusedNeedsShort'
    BY <2>2, WriteStep, StreamReadStep, QuietStep DEF transmit
  <2>3. CASE \/ runClient \/ runServer \/ Session_ends \/ UNCHANGED netcatVars
             \/ \E e \in End : Stdin_read(e) \/ loop(e)
    BY <2>3, QuietStep
  <2> QED
    BY <2>1, <2>2, <2>3 DEF NetcatNext
<1> QED
  BY <1>1, <1>2, <1>3

\* NetcatInv is an invariant of the exchange and the loop.
THEOREM NetcatInvariant == NetcatSpec => []NetcatInv
<1>1. NetcatInit => NetcatInv
  BY NetcatInitially
<1>2. NetcatInv /\ [NetcatNext]_netcatVars => NetcatInv'
  BY NetcatInvNext
<1> QED
  BY <1>1, <1>2, PTL DEF NetcatSpec

\* The variables of the exchange (ServeClientPublicKey, AskClientPublicKey) and
\* of transmit keep their types, for every size of the fields.
THEOREM NetcatTypeCorrect == NetcatSpec => []TypeOK
<1>1. NetcatInv => TypeOK
  BY DEF NetcatInv, PlaceType, ByteType, Within, TypeOK, ClientPlace, ServerPlace
<1> QED
  BY <1>1, NetcatInvariant, PTL

\* An answer accepted by checkAuthenticity was read whole, field by field, and
\* what follows it on the stream is the input; an honest client is refused only
\* after a readN that came short, the end of the session, or two settings.
THEOREM VerdictHolds == NetcatSpec => []VerdictIsRight
<1>1. NetcatInv => VerdictIsRight
  <2> SUFFICES ASSUME NetcatInv, spc = "accepted"
               PROVE  /\ \A f \in AnswerField : answer[f] = Whole(f)
                      /\ \A i \in DOMAIN toServer : toServer[i][1] = "client"
    BY DEF NetcatInv, VerdictIsRight, AcceptedIsAligned
  <2>1. \A f \in AnswerField : answer[f] = Whole(f)
    BY DEF NetcatInv, Accepted, IsWhole
  <2>2. PICK q \in Nat : Reading("server", q) /\ Answered(q)
    BY DEF NetcatInv, InOrder
  <2>3. q >= Base /\ Base \in Nat
    <3>1. Passed = AnswerField /\ Passed # {}
      BY Fields DEF Passed
    <3> QED
      BY <2>1, <2>2, <3>1, Places DEF Answered, IsWhole
  <2>4. toServer \in Seq(Byte) /\ Part(Asked, toServer, q)
    BY <2>2 DEF NetcatInv, ByteType, Reading, ToRead, Word
  <2>5. ASSUME NEW i \in DOMAIN toServer PROVE toServer[i][1] = "client"
    <3>1. PICK j \in Nat \ {0} : q + i = Base + j
      <4>1. i \in Nat \ {0} /\ (q + i) - Base \in Nat \ {0}
        BY <2>3, <2>4
      <4> QED
        BY <2>3, <4>1
    <3>2. toServer[i] = Asked[q + i]
      BY <2>4 DEF Part
    <3>3. Asked[Base + j] = <<"client", j>>
      <4>1. "server" \in End /\ Start("server") = Base /\ Word("server") = Asked
        BY DEF End, Start, Word
      <4>2. Word("server")[Start("server") + j] = <<Peer("server"), j>>
        BY <4>1, InputPlaces
      <4> QED
        BY <4>1, <4>2 DEF Peer
    <3> QED
      BY <3>1, <3>2, <3>3
  <2> QED
    BY <2>1, <2>5
<1> QED
  BY <1>1, NetcatInvariant, PTL

\* What transmit writes to os.Stdout at one end is what it read from os.Stdin at
\* the other, in order and without a gap, when the exchange ran in step.
THEOREM OutputHolds == NetcatSpec => []OutputIsInput
<1>1. NetcatInv => OutputIsInput
  <2> SUFFICES ASSUME NetcatInv, serves = asks, short = {}, NEW e \in End
               PROVE  output[e] \o ibuf[e] =
                        Field(Peer(e), Len(output[e]) + Len(ibuf[e]))
    BY DEF OutputIsInput
  <2>1. PICK s \in Seq(Byte), t \in Seq(Byte) : s = output[e] /\ t = ibuf[e]
    BY DEF NetcatInv, ByteType
  <2>2. s \o t \in Seq(Byte) /\ Len(s \o t) = Len(s) + Len(t)
    OBVIOUS
  <2>3. Part(Word(e), s \o t, Start(e))
    BY <2>1 DEF NetcatInv, OutIsIn, Orderly, Out
  <2>4. s \o t = Field(Peer(e), Len(s \o t))
    BY <2>2, <2>3, PartIsInput
  <2> QED
    BY <2>1, <2>2, <2>4
<1> QED
  BY <1>1, NetcatInvariant, PTL
-----------------------------------------------------------------------------
(***************************************************************************)
(* The exchange of keys of ClientAuth is what VpnServer keeps of it.  The  *)
(* exchange alone is netcat before its loops; the instance Outcome is a    *)
(* VPN server with one client and one session, whose waitControlStream has *)
(* returned.                                                               *)
(***************************************************************************)
KeyExchange == NetcatInit /\ [][Exchange \/ Session_ends]_netcatVars

\* A readN of the server has come short.
Torn == "server" \in short

\* How many bytes the server has read before the field f.
ReadTo(f) ==
  IF f = "dummy" THEN 0
  ELSE IF f \in {"nonce", "rb"} THEN 1
  ELSE IF f = "keySize" THEN 1 + Len(answer["rb"])
  ELSE IF f = "key" THEN 1 + Len(answer["rb"]) + Len(answer["keySize"])
  ELSE IF f = "signatureSize"
  THEN 1 + Len(answer["rb"]) + Len(answer["keySize"]) + Len(answer["key"])
  ELSE 1 + Len(answer["rb"]) + Len(answer["keySize"]) + Len(answer["key"])
         + Len(answer["signatureSize"])

\* What each end has begun tells how far the other is.
Asking ==
  /\ \A e \in End : run[e] = "exchange"
  /\ ~serves => toServer = <<>>
  /\ up /\ spc \notin {"dummy", "ready"} => serves
  /\ spc \in {"dummy", "nonce", "ready"} => toClient = <<>> /\ ra = <<>>
  /\ spc \notin {"dummy", "nonce", "ready", "noKey"} => toClient # <<>> \/ ra # <<>>
  /\ cpc \in AnswerField => ra # <<>>
  /\ spc = "noKey" /\ up => Torn

\* The server has read what came, and the client is no further than that.
AllRead ==
  up /\ serves /\ spc \in AnswerField \cup {"dummy", "nonce"} =>
    Written("client") = ReadTo(spc) + Len(toServer)

\* A readN that comes short shows in the key, at the latest: no answer gets
\* back into step before it.
OutOfStep ==
  /\ spc \in {"dummy", "nonce", "rb"} => ~Torn
  /\ spc \in {"keySize", "key"} =>
       /\ Torn => Len(answer["rb"]) < NonceSize
       /\ ~Torn => Len(answer["rb"]) = NonceSize
  /\ spc = "key" => Len(answer["keySize"]) = IntSize /\ (~Torn => size = KeySize)
  /\ spc \in {"signatureSize", "signature"} =>
       /\ Torn => answer["key"] # Whole("key")
       /\ ~Torn => /\ answer["key"] = Whole("key") /\ Len(answer["rb"]) = NonceSize
                   /\ Len(answer["keySize"]) = IntSize
  /\ spc = "signature" =>
       Len(answer["signatureSize"]) = IntSize /\ (~Torn => size = SignatureSize)
  /\ spc = "verify" => /\ answer["key"] # Whole("key") => Torn
                       /\ answer["key"] = Whole("key") => cpc = "ready"
  /\ spc \in {"accepted", "badSignature"} => cpc = "ready"

KeyExchangeInv == NetcatInv /\ Asking /\ AllRead /\ OutOfStep

\* The first byte of the key is nowhere else in the answer.
LEMMA KeyPlace == \A p \in Nat : Asked[p] = <<"key", 1>> => p = Begin["key"] + 1
<1> SUFFICES ASSUME NEW p \in Nat, Asked[p] = <<"key", 1>> PROVE p = Begin["key"] + 1
  OBVIOUS
<1>1. Begin.key \in Nat
  BY Places, Fields
<1>2. p - Begin.key = 1
  BY DEF Asked
<1> QED
  BY <1>1, <1>2

\* Initially nothing has been written or read.
LEMMA KeyExchangeInit == NetcatInit => KeyExchangeInv
<1> SUFFICES ASSUME NetcatInit PROVE KeyExchangeInv
  OBVIOUS
<1>1. NetcatInv
  BY NetcatInitially
<1>2. Asking
  BY Fields DEF NetcatInit, Init, Asking
<1>3. AllRead
  <2>1. Sent("client") = 0 /\ (serves => Written("client") = 0)
    BY DEF NetcatInit, Init, Sent, Written, End
  <2>2. Len(toServer) = 0 /\ (asks => spc = "dummy" /\ ReadTo(spc) = 0)
    BY DEF NetcatInit, Init, ReadTo
  <2>3. spc \in AnswerField \cup {"dummy", "nonce"} => asks
    BY Fields DEF NetcatInit, Init
  <2> QED
    BY <2>1, <2>2, <2>3 DEF AllRead
<1>4. OutOfStep
  BY Fields DEF NetcatInit, Init, OutOfStep, Torn
<1> QED
  BY <1>1, <1>2, <1>3, <1>4 DEF KeyExchangeInv

\* What the client writes goes behind what the server has to read.
LEMMA ServeCounts ==
  ASSUME PlaceType, ByteType, Turns, Holding, ServeClientPublicKey, up,
         run["client"] = "exchange", UNCHANGED loopVars
  PROVE  \E n \in Nat : /\ Written("client")' = Written("client") + n
                       /\ Len(toServer') = Len(toServer) + n
<1> USE DEF PlaceType
<1>1. Sent("client") = 0 /\ Sent("client")' = 0
  <2>1. Sent("client") = 0
    BY Numbers DEF End
  <2> QED
    BY <2>1 DEF Sent, loopVars
<1>2. Len(toServer) \in Nat /\ Written("client") \in Nat /\ toServer \in Seq(Byte)
  BY Numbers DEF End, ByteType
<1>3. CASE ServeClientPublicKey_dummy
  <2>1. cpc = "dummy" /\ cpc' = "nonce" /\ toServer' = toServer \o Dummy
    BY <1>3 DEF ServeClientPublicKey_dummy
  <2>2. Written("client") = 0 /\ Written("client")' = 1
    BY <2>1 DEF Written
  <2>3. PICK w \in Seq(Byte) : w = Dummy /\ Len(w) = 1
    BY Bytes
  <2>4. Len(toServer') = Len(toServer) + 1
    <3>1. Len(toServer \o w) = Len(toServer) + Len(w)
      BY <1>2
    <3> QED
      BY <2>1, <2>3, <3>1
  <2> QED
    BY <2>2, <2>4
<1>4. CASE ServeClientPublicKey_nonce
  <2>1. Written("client") = 1 /\ Written("client")' = 1 /\ toServer' = toServer
    BY <1>4, Fields, Places DEF ServeClientPublicKey_nonce, Written
  <2>2. \A n \in Nat : n = n + 0
    OBVIOUS
  <2>3. Len(toServer') = Len(toServer) + 0 /\ Written("client")' = Written("client") + 0
    BY <1>2, <2>1, <2>2
  <2> QED
    BY <2>3
<1>5. CASE ServeClientPublicKey_write
  <2>1. cpc \in AnswerField /\ toServer' = toServer \o Whole(cpc) /\ cpc' = After(cpc, "ready")
    BY <1>5 DEF ServeClientPublicKey_write
  <2>2. cpc \notin {"dummy", "nonce"} /\ cpc' \notin {"dummy", "nonce"}
    BY <2>1, Fields, AfterFields
  <2>3. Written("client") = Begin[cpc] /\ Written("client")' = Begin[cpc] + SizeOf[cpc]
    <3>1. /\ cpc' \in AnswerField => Begin[cpc'] = Begin[cpc] + SizeOf[cpc]
          /\ cpc' \notin AnswerField => Base = Begin[cpc] + SizeOf[cpc]
      BY <2>1, NextPlace, Fields
    <3>2. Base + 0 = Base
      BY Places
    <3> QED
      BY <1>1, <2>1, <2>2, <3>1, <3>2, Fields DEF Written
  <2>4. PICK w \in Seq(Byte) : w = Whole(cpc) /\ Len(w) = SizeOf[cpc]
    BY <2>1, FieldIsPart
  <2>5. Len(toServer') = Len(toServer) + SizeOf[cpc] /\ SizeOf[cpc] \in Nat
    <3>1. Len(toServer \o w) = Len(toServer) + Len(w)
      BY <1>2
    <3> QED
      BY <2>1, <2>4, <3>1, Places
  <2> QED
    BY <2>2, <2>3, <2>5
<1>6. ~ServeClientPublicKey_fails
  BY DEF ServeClientPublicKey_fails
<1> QED
  BY <1>3, <1>4, <1>5, <1>6 DEF ServeClientPublicKey

\* ReadTo counts bytes.
LEMMA ReadToType == ASSUME ByteType, NEW f PROVE ReadTo(f) \in Nat
<1>1. \A g \in AnswerField : Len(answer[g]) \in Nat
  BY DEF ByteType
<1>2. PICK a \in Nat, b \in Nat, c \in Nat, d \in Nat :
        /\ a = Len(answer["rb"]) /\ b = Len(answer["keySize"]) /\ c = Len(answer["key"])
        /\ d = Len(answer["signatureSize"])
  BY <1>1, Fields
<1>3. /\ 1 + a \in Nat /\ 1 + a + b \in Nat /\ 1 + a + b + c \in Nat
      /\ 1 + a + b + c + d \in Nat
  OBVIOUS
<1> QED
  BY <1>2, <1>3, Zenon DEF ReadTo

\* The nonce is taken from what there is.
LEMMA NonceTaken ==
  ASSUME ByteType, ServeClientPublicKey_nonce
  PROVE  ra' # <<>> /\ toClient # <<>>
<1>1. PICK k \in 1..NonceSize : k <= Len(toClient) /\ ra' = SubSeq(toClient, 1, k)
  BY DEF ServeClientPublicKey_nonce
<1>2. PICK s \in Seq(Byte) : s = toClient /\ Len(s) \in Nat
  BY DEF ByteType
<1>3. k \in 0..Len(s) /\ k # 0 /\ k \in Nat
  BY <1>1, <1>2, ClientAuthAssumption
<1>4. Len(SubSeq(s, 1, k)) = k
  <2>1. Part([p \in Nat |-> s[p]], s, 0)
    BY DEF Part
  <2> QED
    BY <1>3, <2>1, PartCut
<1>5. Len(<<>>) = 0 /\ Len(s) # 0
  BY <1>2, <1>3
<1> QED
  BY <1>1, <1>2, <1>3, <1>4, <1>5

\* ServeClientPublicKey keeps the invariant.
LEMMA ServeInTurn ==
  ASSUME NetcatInv, Asking, AllRead, OutOfStep,
         ServeClientPublicKey, run["client"] = "exchange", UNCHANGED loopVars
  PROVE  Asking' /\ AllRead' /\ OutOfStep'
<1>0. up => \E n \in Nat : /\ Written("client")' = Written("client") + n
                          /\ Len(toServer') = Len(toServer) + n
  <2> SUFFICES ASSUME up
               PROVE  \E n \in Nat : /\ Written("client")' = Written("client") + n
                                    /\ Len(toServer') = Len(toServer) + n
    OBVIOUS
  <2>1. PlaceType /\ ByteType /\ Turns /\ Holding
    BY DEF NetcatInv
  <2>2. ServeClientPublicKey /\ up /\ run["client"] = "exchange" /\ UNCHANGED loopVars
    OBVIOUS
  <2> QED
    BY <2>1, <2>2, ServeCounts
<1> USE DEF NetcatInv, PlaceType
<1>1. /\ UNCHANGED <<serves, asks, spc, answer, size, up, run, input, obuf>>
      /\ Torn' <=> Torn
  BY DEF ServeClientPublicKey, ServeClientPublicKey_dummy, ServeClientPublicKey_nonce,
         ServeClientPublicKey_write, ServeClientPublicKey_fails, loopVars, Torn
<1>2. cpc # "ready"
  BY Fields DEF ServeClientPublicKey, ServeClientPublicKey_dummy,
         ServeClientPublicKey_nonce, ServeClientPublicKey_write, ServeClientPublicKey_fails
<1>3. serves
  BY <1>2 DEF Turns
<1>4. Asking'
  <2>1. /\ toClient = <<>> /\ ra = <<>> => toClient' = <<>> /\ ra' = <<>>
        /\ toClient # <<>> \/ ra # <<>> => toClient' # <<>> \/ ra' # <<>>
        /\ cpc' \in AnswerField => ra' # <<>>
    <3>1. CASE ServeClientPublicKey_nonce
      BY <3>1, NonceTaken
    <3>2. CASE ~ServeClientPublicKey_nonce
      <4>1. UNCHANGED <<ra, toClient>>
        BY <3>2 DEF ServeClientPublicKey, ServeClientPublicKey_dummy,
           ServeClientPublicKey_write, ServeClientPublicKey_fails
      <4>2. cpc' \in AnswerField => cpc \in AnswerField
        BY <3>2, Fields DEF ServeClientPublicKey, ServeClientPublicKey_dummy,
           ServeClientPublicKey_write, ServeClientPublicKey_fails
      <4> QED
        BY <4>1, <4>2 DEF Asking
    <3> QED
      BY <3>1, <3>2
  <2>2. UNCHANGED <<serves, asks, spc, up, run>> /\ (Torn' <=> Torn)
    BY <1>1
  <2> QED
    BY <1>3, <2>1, <2>2 DEF Asking
<1>5. AllRead'
  <2> SUFFICES ASSUME up, spc \in AnswerField \cup {"dummy", "nonce"}
               PROVE  Written("client")' = ReadTo(spc)' + Len(toServer')
    BY <1>1, <1>3 DEF AllRead
  <2>1. Written("client") = ReadTo(spc) + Len(toServer)
    BY <1>3 DEF AllRead
  <2>2. PICK n \in Nat : /\ Written("client")' = Written("client") + n
                         /\ Len(toServer') = Len(toServer) + n
    BY <1>0
  <2>3. PICK r : r = ReadTo(spc) /\ r = ReadTo(spc)'
    BY <1>1 DEF ReadTo
  <2>4. r \in Nat /\ Len(toServer) \in Nat
    <3>1. ByteType /\ Len(toServer) \in Nat
      BY DEF ByteType
    <3> QED
      BY <2>3, <3>1, ReadToType, Zenon
  <2>5. \A a, b, c \in Nat : a + b + c = a + (b + c)
    OBVIOUS
  <2> QED
    BY <2>1, <2>2, <2>3, <2>4, <2>5
<1>6. OutOfStep'
  BY <1>1, <1>2 DEF OutOfStep
<1> QED
  BY <1>4, <1>5, <1>6

\* So does AskClientPublicKey, but for nonceAnswer.read.
LEMMA AskInTurn ==
  ASSUME NetcatInv, Asking, AllRead, OutOfStep,
         \/ AskClientPublicKey_dummy \/ AskClientPublicKey_nonce
         \/ AskClientPublicKey_fails \/ AskClientPublicKey_verify, UNCHANGED loopVars
  PROVE  Asking' /\ AllRead' /\ OutOfStep'
<1> USE DEF NetcatInv, PlaceType
<1>1. /\ UNCHANGED <<serves, asks, cpc, ra, answer, size, up, run, input, obuf>>
      /\ (Torn' <=> Torn) /\ Written("client")' = Written("client")
  BY DEF AskClientPublicKey_dummy, AskClientPublicKey_nonce, AskClientPublicKey_fails,
         AskClientPublicKey_verify, loopVars, Torn, Written, Sent
<1>2. CASE AskClientPublicKey_dummy
  <2>1. spc = "dummy" /\ spc' = "nonce" /\ toClient' = toClient
    BY <1>2 DEF AskClientPublicKey_dummy
  <2>2. up => toServer # <<>> /\ toServer' = Tail(toServer) /\ serves
    BY <1>2 DEF AskClientPublicKey_dummy, Asking
  <2>3. ~up => toServer' = toServer
    BY <1>2 DEF AskClientPublicKey_dummy
  <2>4. Asking'
    BY <1>1, <2>1, <2>2, <2>3, Fields DEF Asking
  <2>5. AllRead'
    <3> SUFFICES ASSUME up, serves PROVE Written("client") = 1 + Len(toServer')
      BY <1>1, <2>1, Fields DEF AllRead, ReadTo
    <3>1. Written("client") = 0 + Len(toServer)
      BY <2>1 DEF AllRead, ReadTo
    <3>2. Len(toServer) = 1 + Len(toServer')
      <4>1. PICK s \in Seq(Byte) : s = toServer /\ s # <<>>
        BY <2>2 DEF ByteType
      <4>2. Len(s) = 1 + Len(Tail(s))
        BY <4>1
      <4> QED
        BY <2>2, <4>1, <4>2
    <3>3. Len(toServer) \in Nat
      BY DEF ByteType
    <3> QED
      BY <3>1, <3>2, <3>3
  <2>6. OutOfStep'
    BY <1>1, <2>1, Fields DEF OutOfStep
  <2> QED
    BY <2>4, <2>5, <2>6
<1>3. CASE AskClientPublicKey_nonce
  <2>1. spc = "nonce" /\ spc' = "rb" /\ up /\ toServer' = toServer /\ toClient' = toClient \o Nonce
    BY <1>3 DEF AskClientPublicKey_nonce
  <2>2. toClient' # <<>>
    <3>1. PICK s \in Seq(Byte), w \in Seq(Byte) : s = toClient /\ w = Nonce /\ Len(w) = NonceSize
      BY Bytes DEF ByteType
    <3>2. Len(s \o w) = Len(s) + Len(w) /\ Len(s) \in Nat
      OBVIOUS
    <3>3. Len(s \o w) # 0
      BY <3>1, <3>2, ClientAuthAssumption
    <3>4. Len(<<>>) = 0
      OBVIOUS
    <3> QED
      BY <2>1, <3>1, <3>3, <3>4
  <2>3. Asking'
    BY <1>1, <2>1, <2>2, Fields DEF Asking
  <2>4. AllRead'
    BY <1>1, <2>1, Fields DEF AllRead, ReadTo
  <2>5. OutOfStep'
    BY <1>1, <2>1, Fields DEF OutOfStep
  <2> QED
    BY <2>3, <2>4, <2>5
<1>4. CASE AskClientPublicKey_fails
  <2>1. ~up /\ spc' = "noKey" /\ UNCHANGED <<toServer, toClient>>
    BY <1>4 DEF AskClientPublicKey_fails
  <2> QED
    BY <1>1, <2>1, Fields DEF Asking, AllRead, OutOfStep
<1>5. CASE AskClientPublicKey_verify
  <2>1. /\ spc = "verify" /\ UNCHANGED <<toServer, toClient>>
        /\ spc' \in {"accepted", "noKey", "badSignature"}
        /\ spc' = "noKey" <=> answer["key"] # Whole("key")
    BY <1>5 DEF AskClientPublicKey_verify
  <2>2. Asking'
    BY <1>1, <2>1, Fields DEF Asking, OutOfStep
  <2>3. AllRead' /\ OutOfStep'
    BY <1>1, <2>1, Fields DEF AllRead, OutOfStep
  <2> QED
    BY <2>2, <2>3
<1> QED
  BY <1>2, <1>3, <1>4, <1>5

\* A step of nonceAnswer.read, and what it has read.
LEMMA ReadTakes ==
  ASSUME NetcatInv, Asking, AllRead, OutOfStep,
         AskClientPublicKey_read, UNCHANGED loopVars
  PROVE  /\ UNCHANGED <<serves, asks, cpc, ra, toClient, up, run>> /\ up /\ serves
         /\ spc \in AnswerField /\ (Torn => Torn')
         /\ \E k \in Nat, x \in Seq(Byte) :
              /\ Len(x) = k /\ k <= Wanted(spc) /\ (k = 0 => Wanted(spc) = 0)
              /\ k <= Len(toServer) /\ Len(toServer') = Len(toServer) - k
              /\ answer' = [answer EXCEPT ![spc] = x]
              /\ Torn' <=> Torn \/ k < Wanted(spc)
              /\ IF spc \in {"keySize", "signatureSize"}
                 THEN IF k < IntSize THEN spc' = "panic" /\ UNCHANGED size
                      ELSE size' \in Decoded(x) /\ spc' = After(spc, "verify")
                 ELSE spc' = After(spc, "verify") /\ UNCHANGED size
              /\ Part(Asked, x, ReadTo(spc))
<1>1. /\ UNCHANGED <<serves, asks, cpc, ra, toClient, up, run>> /\ up
      /\ spc \in AnswerField
  BY DEF AskClientPublicKey_read, loopVars
<1>2. serves
  BY <1>1, Fields DEF Asking
<1>3. PICK k \in 0..Len(toServer) :
        /\ k <= Wanted(spc) /\ (k = 0 => Wanted(spc) = 0)
        /\ answer' = [answer EXCEPT ![spc] = SubSeq(toServer, 1, k)]
        /\ toServer' = SubSeq(toServer, k + 1, Len(toServer))
        /\ short' = IF k < Wanted(spc) THEN short \cup {"server"} ELSE short
        /\ IF spc \in {"keySize", "signatureSize"}
           THEN IF k < IntSize THEN spc' = "panic" /\ UNCHANGED size
                ELSE /\ size' \in Decoded(SubSeq(toServer, 1, k))
                     /\ spc' = After(spc, "verify")
           ELSE spc' = After(spc, "verify") /\ UNCHANGED size
  BY DEF AskClientPublicKey_read
<1>4. PICK q \in Nat : Reading("server", q)
  BY DEF NetcatInv, InOrder
<1>5. toServer \in Seq(Byte) /\ Len(toServer) \in Nat
  BY DEF NetcatInv, ByteType
<1>6. q = ReadTo(spc)
  <2>1. q + Len(toServer) = Written("client") /\ Written("client") = ReadTo(spc) + Len(toServer)
    BY <1>1, <1>2, <1>4 DEF Reading, AllRead, ToRead, Peer
  <2>2. ReadTo(spc) \in Nat
    BY ReadToType DEF NetcatInv
  <2>3. \A a, b, c \in Nat : a + c = b + c => a = b
    OBVIOUS
  <2> QED
    BY <1>5, <2>1, <2>2, <2>3
<1>7. Part(Asked, toServer, q)
  BY <1>4 DEF Reading, ToRead, Word
<1>8. PICK x \in Seq(Byte) : /\ x = SubSeq(toServer, 1, k) /\ Len(x) = k
                            /\ Part(Asked, x, q) /\ Len(toServer') = Len(toServer) - k
  <2>1. /\ Part(Asked, SubSeq(toServer, 1, k), q) /\ SubSeq(toServer, 1, k) \in Seq(Byte)
        /\ Len(SubSeq(toServer, 1, k)) = k
        /\ Len(SubSeq(toServer, k + 1, Len(toServer))) = Len(toServer) - k
    BY <1>5, <1>7, PartCut
  <2> QED
    BY <1>3, <2>1
<1>9. k \in Nat /\ k <= Len(toServer)
  BY <1>5
<1>10. (Torn' <=> Torn \/ k < Wanted(spc)) /\ (Torn => Torn')
  BY <1>3 DEF Torn
<1> QED
  BY <1>1, <1>2, <1>3, <1>6, <1>8, <1>9, <1>10

\* A field read at its place, whole.
LEMMA ReadInPlace ==
  ASSUME NEW f \in AnswerField, NEW x \in Seq(Byte), NEW p, p = Begin[f],
         Len(x) = SizeOf[f], Part(Asked, x, p)
  PROVE  /\ x = Whole(f)
         /\ f = "keySize" => Decoded(x) = {KeySize}
         /\ f = "signatureSize" => Decoded(x) = {SignatureSize}
<1>1. x = Whole(f)
  BY PartIsField
<1>2. Whole("signatureSize") # Whole("keySize")
  BY FieldsDiffer, Fields
<1> QED
  BY <1>1, <1>2 DEF Decoded

\* nonceAnswer.read keeps the invariant.
LEMMA ReadInTurn ==
  ASSUME NetcatInv, Asking, AllRead, OutOfStep,
         AskClientPublicKey_read, UNCHANGED loopVars
  PROVE  Asking' /\ AllRead' /\ OutOfStep'
<1>1. /\ UNCHANGED <<serves, asks, cpc, ra, toClient, up, run>> /\ up /\ serves
      /\ spc \in AnswerField /\ (Torn => Torn')
  BY ReadTakes
<1>2. PICK k \in Nat, x \in Seq(Byte) :
        /\ Len(x) = k /\ k <= Wanted(spc) /\ (k = 0 => Wanted(spc) = 0)
        /\ k <= Len(toServer) /\ Len(toServer') = Len(toServer) - k
        /\ answer' = [answer EXCEPT ![spc] = x]
        /\ Torn' <=> Torn \/ k < Wanted(spc)
        /\ IF spc \in {"keySize", "signatureSize"}
           THEN IF k < IntSize THEN spc' = "panic" /\ UNCHANGED size
                ELSE size' \in Decoded(x) /\ spc' = After(spc, "verify")
           ELSE spc' = After(spc, "verify") /\ UNCHANGED size
        /\ Part(Asked, x, ReadTo(spc))
  BY ReadTakes
<1>3. /\ answer'[spc] = x /\ \A g \in AnswerField \ {spc} : answer'[g] = answer[g]
      /\ \A g \in AnswerField : Len(answer[g]) \in Nat
      /\ size \in Nat /\ Len(toServer) \in Nat
  BY <1>1, <1>2 DEF NetcatInv, ByteType, PlaceType
<1>4. spc' = "panic" \/ spc' = After(spc, "verify")
  BY <1>2
<1>5. Asking'
  <2>1. spc' \notin {"dummy", "nonce", "ready", "noKey"} /\ spc \notin {"dummy", "nonce", "ready", "noKey"}
    BY <1>1, <1>4, Fields, AfterFields
  <2> QED
    BY <1>1, <2>1 DEF Asking
<1>6. AllRead'
  <2> SUFFICES ASSUME spc' \in AnswerField
               PROVE  Written("client")' = ReadTo(spc)' + Len(toServer')
    <3>1. spc' \notin {"dummy", "nonce"}
      BY <1>1, <1>4, Fields, AfterFields
    <3> QED
      BY <3>1 DEF AllRead
  <2>1. Written("client")' = Written("client")
    BY <1>1 DEF Written, Sent, loopVars
  <2>2. Written("client") = ReadTo(spc) + Len(toServer)
    BY <1>1 DEF AllRead
  <2>3. ReadTo(spc)' = ReadTo(spc) + k
    <3>1. spc' = After(spc, "verify")
      BY <1>4, Fields
    <3>2. PICK a \in Nat, b \in Nat, c \in Nat, d \in Nat :
            /\ a = Len(answer["rb"]) /\ b = Len(answer["keySize"]) /\ c = Len(answer["key"])
            /\ d = Len(answer["signatureSize"])
      BY <1>3, Fields
    <3>3. CASE spc = "rb"
      BY <1>2, <1>3, <3>1, <3>3, AfterFields DEF ReadTo
    <3>4. CASE spc = "keySize"
      <4>1. /\ spc' = "key" /\ Len(answer'["rb"]) = a /\ Len(answer'["keySize"]) = k
        BY <1>2, <1>3, <3>1, <3>2, <3>4, AfterFields, Fields
      <4>2. ReadTo(spc) = 1 + a /\ ReadTo(spc)' = 1 + a + k
        BY <3>2, <3>4, <4>1, Zenon DEF ReadTo
      <4> QED
        BY <4>2
    <3>5. CASE spc = "key"
      <4>1. /\ spc' = "signatureSize" /\ Len(answer'["rb"]) = a
            /\ Len(answer'["keySize"]) = b /\ Len(answer'["key"]) = k
        BY <1>2, <1>3, <3>1, <3>2, <3>5, AfterFields, Fields
      <4>2. ReadTo(spc) = 1 + a + b /\ ReadTo(spc)' = 1 + a + b + k
        BY <3>2, <3>5, <4>1, Zenon DEF ReadTo
      <4> QED
        BY <4>2
    <3>6. CASE spc = "signatureSize"
      <4>1. /\ spc' = "signature" /\ Len(answer'["rb"]) = a /\ Len(answer'["keySize"]) = b
            /\ Len(answer'["key"]) = c /\ Len(answer'["signatureSize"]) = k
        BY <1>2, <1>3, <3>1, <3>2, <3>6, AfterFields, Fields
      <4>2. ReadTo(spc) = 1 + a + b + c /\ ReadTo(spc)' = 1 + a + b + c + k
        BY <3>2, <3>6, <4>1, Zenon DEF ReadTo
      <4> QED
        BY <4>2
    <3>7. CASE spc = "signature"
      BY <3>1, <3>7, AfterFields, Fields
    <3> QED
      BY <1>1, <3>3, <3>4, <3>5, <3>6, <3>7, Fields
  <2>4. ReadTo(spc) \in Nat
    BY ReadToType DEF NetcatInv
  <2>5. \A a, l, m \in Nat : m <= l => a + l = (a + m) + (l - m)
    OBVIOUS
  <2> QED
    BY <1>2, <1>3, <2>1, <2>2, <2>3, <2>4, <2>5
<1>7. OutOfStep'
  <2>1. CASE spc = "rb"
    <3>1. spc' = "keySize" /\ Wanted(spc) = NonceSize /\ ~Torn
      BY <1>2, <2>1, AfterFields DEF Wanted, SizeOf, OutOfStep
    <3>2. Len(answer'["rb"]) = k /\ (Torn' <=> k < NonceSize) /\ k <= NonceSize
      BY <1>2, <1>3, <2>1, <3>1
    <3> QED
      BY <3>1, <3>2, ClientAuthAssumption DEF OutOfStep
  <2>2. CASE spc = "keySize"
    <3>1. Wanted(spc) = IntSize /\ answer'["rb"] = answer["rb"]
      BY <1>3, <2>2, Fields DEF Wanted, SizeOf
    <3>2. CASE spc' = "panic"
      BY <3>2, Fields DEF OutOfStep
    <3>3. CASE spc' = "key" /\ k = IntSize /\ size' \in Decoded(x)
      <4>1. (Torn' <=> Torn) /\ Len(answer'["keySize"]) = IntSize
        BY <1>2, <1>3, <2>2, <3>1, <3>3, ClientAuthAssumption
      <4>2. ~Torn => size' = KeySize
        <5> SUFFICES ASSUME ~Torn PROVE size' = KeySize
          OBVIOUS
        <5>1. ReadTo(spc) = Begin["keySize"] /\ Len(x) = SizeOf["keySize"]
          BY <1>2, <2>2, <3>3 DEF OutOfStep, ReadTo, Begin, SizeOf
        <5>2. Part(Asked, x, ReadTo(spc))
          BY <1>2
        <5>3. Decoded(x) = {KeySize}
          BY <5>1, <5>2, ReadInPlace, Fields
        <5> QED
          BY <3>3, <5>3
      <4> QED
        BY <2>2, <3>1, <3>3, <4>1, <4>2 DEF OutOfStep
    <3> QED
      BY <1>2, <2>2, <3>1, <3>2, <3>3, AfterFields, ClientAuthAssumption
  <2>3. CASE spc = "key"
    <3>1. /\ spc' = "signatureSize" /\ Wanted(spc) = size /\ answer'["key"] = x
          /\ answer'["rb"] = answer["rb"] /\ answer'["keySize"] = answer["keySize"]
      BY <1>2, <1>3, <2>3, AfterFields, Fields DEF Wanted
    <3>2. Part(Asked, x, ReadTo(spc)) /\ ReadTo(spc) = 1 + Len(answer["rb"]) + IntSize
      BY <1>2, <2>3 DEF ReadTo, OutOfStep
    <3>3. CASE Torn
      <4>1. Torn' /\ Len(answer["rb"]) < NonceSize
        BY <1>1, <2>3, <3>3 DEF OutOfStep
      <4>2. x # Whole("key")
        <5> SUFFICES ASSUME x = Whole("key") PROVE FALSE
          OBVIOUS
        <5>1. x[1] = <<"key", 1>> /\ Len(x) >= 1
          <6>1. Len(Whole("key")) = SizeOf["key"] /\ SizeOf["key"] \in Nat \ {0} /\ Whole("key")[1] = <<"key", 1>>
            BY FieldIsPart, Places, Fields
          <6> QED
            BY <6>1
        <5>2. Asked[ReadTo(spc) + 1] = <<"key", 1>>
          BY <1>2, <3>2, <5>1 DEF Part
        <5>3. PICK a \in Nat : a = Len(answer["rb"])
          BY <1>3, Fields
        <5>4. ReadTo(spc) + 1 = Begin["key"] + 1
          BY <3>2, <5>2, <5>3, KeyPlace, ClientAuthAssumption
        <5>5. Begin["key"] = 1 + NonceSize + IntSize
          BY DEF Begin
        <5> QED
          BY <3>2, <4>1, <5>3, <5>4, <5>5, ClientAuthAssumption
      <4> QED
        BY <3>1, <4>1, <4>2 DEF OutOfStep
    <3>4. CASE ~Torn
      <4>1. Len(answer["rb"]) = NonceSize /\ Len(answer["keySize"]) = IntSize /\ size = KeySize
        BY <2>3, <3>4 DEF OutOfStep
      <4>2. Torn' <=> k < KeySize
        BY <1>2, <3>1, <3>4, <4>1
      <4>3. ~Torn' => x = Whole("key")
        <5> SUFFICES ASSUME ~Torn' PROVE x = Whole("key")
          OBVIOUS
        <5>1. Len(x) = SizeOf["key"] /\ ReadTo(spc) = Begin["key"]
          BY <1>2, <3>1, <3>2, <4>1, <4>2, ClientAuthAssumption DEF SizeOf, Begin
        <5> QED
          BY <3>2, <5>1, ReadInPlace, Fields
      <4>4. Torn' => x # Whole("key")
        <5>1. Len(Whole("key")) = KeySize
          BY FieldIsPart, Fields DEF SizeOf
        <5> QED
          BY <1>2, <4>2, <5>1, ClientAuthAssumption
      <4> QED
        BY <3>1, <4>1, <4>3, <4>4 DEF OutOfStep
    <3> QED
      BY <3>3, <3>4
  <2>4. CASE spc = "signatureSize"
    <3>1. /\ Wanted(spc) = IntSize /\ answer'["rb"] = answer["rb"]
          /\ answer'["key"] = answer["key"] /\ answer'["keySize"] = answer["keySize"]
      BY <1>3, <2>4, Fields DEF Wanted, SizeOf
    <3>2. CASE spc' = "panic"
      BY <3>2, Fields DEF OutOfStep
    <3>3. CASE spc' = "signature" /\ k = IntSize /\ size' \in Decoded(x)
      <4>1. (Torn' <=> Torn) /\ Len(answer'["signatureSize"]) = IntSize
        BY <1>2, <1>3, <2>4, <3>1, <3>3, ClientAuthAssumption
      <4>2. ~Torn => size' = SignatureSize
        <5> SUFFICES ASSUME ~Torn PROVE size' = SignatureSize
          OBVIOUS
        <5>1. Len(answer["key"]) = KeySize
          BY <2>4, FieldIsPart, Fields DEF OutOfStep, SizeOf
        <5>2. ReadTo(spc) = Begin["signatureSize"] /\ Len(x) = SizeOf["signatureSize"]
          BY <1>2, <2>4, <3>3, <5>1 DEF OutOfStep, ReadTo, Begin, SizeOf
        <5>3. Part(Asked, x, ReadTo(spc))
          BY <1>2
        <5>4. Decoded(x) = {SignatureSize}
          BY <5>2, <5>3, ReadInPlace, Fields
        <5> QED
          BY <3>3, <5>4
      <4> QED
        BY <2>4, <3>1, <3>3, <4>1, <4>2 DEF OutOfStep
    <3> QED
      BY <1>2, <2>4, <3>1, <3>2, <3>3, AfterFields, ClientAuthAssumption
  <2>5. CASE spc = "signature"
    <3>1. spc' = "verify" /\ Wanted(spc) = size /\ answer'["key"] = answer["key"]
      BY <1>2, <1>3, <2>5, AfterFields, Fields DEF Wanted
    <3>2. answer["key"] # Whole("key") => Torn'
      BY <1>1, <2>5 DEF OutOfStep
    <3>3. ASSUME answer["key"] = Whole("key") PROVE cpc = "ready"
      <4>1. /\ ~Torn /\ Len(answer["rb"]) = NonceSize /\ Len(answer["keySize"]) = IntSize
            /\ size = SignatureSize /\ Len(answer["signatureSize"]) = IntSize
        BY <2>5, <3>3 DEF OutOfStep
      <4>2. Len(answer["key"]) = KeySize
        BY <3>3, FieldIsPart, Fields DEF SizeOf
      <4>3. ReadTo(spc) = Begin["signature"]
        BY <2>5, <4>1, <4>2, ClientAuthAssumption DEF ReadTo, Begin
      <4>4. Written("client") = Begin["signature"] + Len(toServer)
        BY <1>1, <4>3 DEF AllRead
      <4>5. Len(toServer) > 0
        BY <1>2, <1>3, <3>1, <4>1, ClientAuthAssumption
      <4>6. \A f \in AnswerField : Begin[f] <= Begin["signature"]
        BY Fields, ClientAuthAssumption DEF Begin
      <4>7. Begin["signature"] \in Nat \ {0} /\ \A f \in AnswerField : Begin[f] \in Nat
        BY Places, Fields
      <4>8. cpc \notin AnswerField \cup {"dummy", "nonce"}
        BY <1>3, <4>4, <4>5, <4>6, <4>7, Fields DEF Written
      <4> QED
        BY <4>8 DEF NetcatInv, PlaceType, ClientPlace
    <3> QED
      BY <1>1, <3>1, <3>2, <3>3 DEF OutOfStep
  <2> QED
    BY <1>1, <2>1, <2>2, <2>3, <2>4, <2>5, Fields
<1> QED
  BY <1>5, <1>6, <1>7

\* Every step of the exchange keeps the invariant.
LEMMA KeyExchangeNext ==
  KeyExchangeInv /\ [Exchange \/ Session_ends]_netcatVars => KeyExchangeInv'
<1> SUFFICES ASSUME KeyExchangeInv, [Exchange \/ Session_ends]_netcatVars
             PROVE  KeyExchangeInv'
  OBVIOUS
<1> USE DEF KeyExchangeInv
<1>1. NetcatInv'
  BY NetcatInvNext DEF NetcatNext
<1>2. CASE run["client"] = "exchange" /\ ServeClientPublicKey /\ UNCHANGED loopVars
  BY <1>1, <1>2, ServeInTurn
<1>3. CASE AskClientPublicKey /\ UNCHANGED loopVars
  BY <1>1, <1>3, AskInTurn, ReadInTurn DEF AskClientPublicKey
<1>4. CASE Session_ends \/ UNCHANGED netcatVars
  <2>1. UNCHANGED <<serves, asks, cpc, ra, spc, answer, size, short, toServer, toClient>>
    BY <1>4 DEF Session_ends, netcatVars, vars, authVars
  <2>2. UNCHANGED <<run, input, obuf>> /\ (up' => up)
    BY <1>4 DEF Session_ends, netcatVars, vars, loopVars
  <2>3. Asking' /\ OutOfStep'
    BY <2>1, <2>2 DEF Asking, OutOfStep, Torn
  <2>4. AllRead'
    BY <2>1, <2>2 DEF AllRead, ReadTo, Written, Sent
  <2> QED
    BY <1>1, <2>3, <2>4
<1> QED
  BY <1>2, <1>3, <1>4 DEF Exchange

\* Where VpnServer has the client and the server.  A signature that is not right
\* is refused unless the key is the expected one (same).
Right == /\ answer["rb"] = Whole("rb") /\ answer["signature"] = Whole("signature")
         /\ ra = Nonce
Refused(same) ==
  /\ ~same
  /\ \/ spc = "badSignature"
     \/ spc = "verify" /\ answer["key"] = Whole("key") /\ ~Right
Answering == IF Torn THEN "garbled" ELSE "verify"
ClientAt == IF cpc = "ready" THEN "run" ELSE "serve"
HandleAt(same) ==
  IF spc \in {"dummy", "nonce"} THEN "ask"
  ELSE IF spc \in AnswerField THEN Answering
  ELSE IF spc = "noKey" THEN IF toClient = <<>> /\ ra = <<>> THEN "ask" ELSE Answering
  ELSE IF spc = "panic" \/ (spc = "verify" /\ answer["key"] # Whole("key")) THEN "garbled"
  ELSE IF Refused(same) THEN "gone" ELSE "start"
UpAt(same) == up /\ ~Refused(same)
AliveAt == spc \notin {"noKey", "panic"}

One(x) == [s \in {"s"} |-> x]
Outcome(same) == INSTANCE VpnServer WITH
  Host <- {"h"}, Session <- {"s"}, hostOf <- One("h"), client <- One(ClientAt),
  handle <- One(HandleAt(same)), up <- One(UpAt(same)), frames <- One(TRUE),
  tun <- [h \in {"h"} |-> 0], arrived <- [h \in {"h"} |-> 0],
  flow <- One([h \in {"h"} |-> "none"]), queue <- One([h \in {"h"} |-> 0]),
  reading <- One("off"), collected <- One({}), got <- [h \in {"h"} |-> 0], alive <- AliveAt

\* The steps of VpnServer that the exchange takes.
OutcomeStep(same) ==
  \* authenticateServer
  \/ /\ ClientAt = "serve" /\ ClientAt' = "run"
     /\ HandleAt(same) \in {"verify", "garbled"} \/ ~UpAt(same)
     /\ UNCHANGED <<HandleAt(same), UpAt(same), AliveAt>>
  \* Session_ends
  \/ /\ UpAt(same) /\ UpAt(same)' = FALSE
     /\ UNCHANGED <<ClientAt, HandleAt(same), AliveAt>>
  \* checkAuthenticity_ask
  \/ /\ AliveAt /\ HandleAt(same) = "ask" /\ serves /\ UpAt(same)
     /\ HandleAt(same)' = "verify"
     /\ UNCHANGED <<ClientAt, UpAt(same), AliveAt>>
  \* checkAuthenticity_verify
  \/ /\ AliveAt /\ HandleAt(same) = "verify" /\ UpAt(same) /\ ClientAt = "run"
     /\ \/ HandleAt(same)' = "start" /\ UNCHANGED UpAt(same)
        \/ HandleAt(same)' = "gone" /\ UpAt(same)' = FALSE
     /\ UNCHANGED <<ClientAt, AliveAt>>
  \* checkAuthenticity_noKey and _garbled
  \/ /\ AliveAt /\ AliveAt' = FALSE
     /\ \/ HandleAt(same) \in {"ask", "verify", "garbled"} /\ ~UpAt(same)
        \/ HandleAt(same) = "garbled"
     /\ UNCHANGED <<ClientAt, HandleAt(same), UpAt(same)>>
  \* checkAuthenticity_short
  \/ /\ AliveAt /\ HandleAt(same) = "verify" /\ UpAt(same)
     /\ HandleAt(same)' = "garbled" /\ AliveAt' \in BOOLEAN
     /\ UNCHANGED <<ClientAt, UpAt(same)>>
  \/ UNCHANGED <<ClientAt, HandleAt(same), UpAt(same), AliveAt>>

\* They are steps of VpnServer.
LEMMA OutcomeStepIsNext ==
  ASSUME NEW same \in BOOLEAN, UNCHANGED <<serves, asks>>, OutcomeStep(same)
  PROVE  [Outcome(same)!Next]_(Outcome(same)!vars)
<1>1. UpAt(same) \in BOOLEAN /\ UpAt(same)' \in BOOLEAN /\ AliveAt \in BOOLEAN /\ AliveAt' \in BOOLEAN
  BY DEF UpAt, AliveAt
<1>2. \A x, y : One(x)["s"] = x /\ [One(x) EXCEPT !["s"] = y] = One(y)
  BY DEF One
<1>3. "s" \in {"s"}
  OBVIOUS
<1> USE DEF Outcome!vars, Outcome!startVars, Outcome!tunVars, Outcome!flowVars
<1>4. CASE /\ ClientAt = "serve" /\ ClientAt' = "run"
           /\ HandleAt(same) \in {"verify", "garbled"} \/ ~UpAt(same)
           /\ UNCHANGED <<HandleAt(same), UpAt(same), AliveAt>>
  <2>1. Outcome(same)!authenticateServer("s")
    BY <1>1, <1>2, <1>4 DEF Outcome!authenticateServer
  <2> QED
    BY <1>3, <2>1 DEF Outcome!Next
<1>5. CASE /\ UpAt(same) /\ UpAt(same)' = FALSE
           /\ UNCHANGED <<ClientAt, HandleAt(same), AliveAt>>
  <2>1. Outcome(same)!Session_ends("s")
    BY <1>1, <1>2, <1>5 DEF Outcome!Session_ends
  <2> QED
    BY <1>3, <2>1 DEF Outcome!Next
<1>6. CASE /\ AliveAt /\ HandleAt(same) = "ask" /\ serves /\ UpAt(same)
           /\ HandleAt(same)' = "verify"
           /\ UNCHANGED <<ClientAt, UpAt(same), AliveAt>>
  <2>1. Outcome(same)!checkAuthenticity_ask("s")
    BY <1>1, <1>2, <1>6 DEF Outcome!checkAuthenticity_ask
  <2> QED
    BY <1>3, <2>1 DEF Outcome!Next, Outcome!Handle
<1>7. CASE /\ AliveAt /\ HandleAt(same) = "verify" /\ UpAt(same) /\ ClientAt = "run"
           /\ \/ HandleAt(same)' = "start" /\ UNCHANGED UpAt(same)
              \/ HandleAt(same)' = "gone" /\ UpAt(same)' = FALSE
           /\ UNCHANGED <<ClientAt, AliveAt>>
  <2>1. Outcome(same)!checkAuthenticity_verify("s")
    BY <1>1, <1>2, <1>7 DEF Outcome!checkAuthenticity_verify
  <2> QED
    BY <1>3, <2>1 DEF Outcome!Next, Outcome!Handle
<1>8. CASE /\ AliveAt /\ AliveAt' = FALSE
           /\ \/ HandleAt(same) \in {"ask", "verify", "garbled"} /\ ~UpAt(same)
              \/ HandleAt(same) = "garbled"
           /\ UNCHANGED <<ClientAt, HandleAt(same), UpAt(same)>>
  <2>1. Outcome(same)!checkAuthenticity_noKey("s") \/ Outcome(same)!checkAuthenticity_garbled("s")
    BY <1>1, <1>2, <1>8 DEF Outcome!checkAuthenticity_noKey, Outcome!checkAuthenticity_garbled
  <2> QED
    BY <1>3, <2>1 DEF Outcome!Next, Outcome!Handle
<1>9. CASE /\ AliveAt /\ HandleAt(same) = "verify" /\ UpAt(same)
           /\ HandleAt(same)' = "garbled" /\ AliveAt' \in BOOLEAN
           /\ UNCHANGED <<ClientAt, UpAt(same)>>
  <2>1. Outcome(same)!checkAuthenticity_short("s")
    BY <1>1, <1>2, <1>9 DEF Outcome!checkAuthenticity_short
  <2> QED
    BY <1>3, <2>1 DEF Outcome!Next, Outcome!Handle
<1>10. CASE UNCHANGED <<ClientAt, HandleAt(same), UpAt(same), AliveAt>>
  BY <1>10
<1> QED
  BY <1>4, <1>5, <1>6, <1>7, <1>8, <1>9, <1>10 DEF OutcomeStep

\* ServeClientPublicKey is authenticateServer, when it returns.
LEMMA ServeIsOutcome ==
  ASSUME NEW same \in BOOLEAN, KeyExchangeInv, ServeClientPublicKey, UNCHANGED loopVars
  PROVE  OutcomeStep(same)
<1> USE DEF KeyExchangeInv, NetcatInv, PlaceType
<1>1. /\ UNCHANGED <<serves, asks, spc, answer, size, up>> /\ (Torn' <=> Torn)
      /\ cpc # "ready"
  BY Fields DEF ServeClientPublicKey, ServeClientPublicKey_dummy, ServeClientPublicKey_nonce,
         ServeClientPublicKey_write, ServeClientPublicKey_fails, Torn
<1>2. /\ ClientAt = "serve" /\ ClientAt' \in {"serve", "run"}
      /\ UNCHANGED AliveAt
  BY <1>1 DEF ClientAt, AliveAt
<1>3. /\ spc \notin {"accepted", "badSignature"}
      /\ spc = "verify" => answer["key"] # Whole("key")
      /\ ~Refused(same) /\ ~Refused(same)'
  BY <1>1 DEF OutOfStep, Refused
<1>4. UpAt(same) = up /\ UpAt(same)' = up
  BY <1>1, <1>3 DEF UpAt
<1>5. HandleAt(same)' = HandleAt(same)
  <2>1. CASE spc = "noKey" /\ ~Torn
    <3>1. ~up
      BY <2>1 DEF Asking
    <3>2. UNCHANGED <<toClient, ra>>
      BY <3>1 DEF ServeClientPublicKey, ServeClientPublicKey_dummy,
         ServeClientPublicKey_nonce, ServeClientPublicKey_write, ServeClientPublicKey_fails
    <3> QED
      BY <1>1, <1>3, <3>2 DEF HandleAt, Answering
  <2>2. CASE spc = "noKey" /\ Torn
    <3>1. toClient = <<>> /\ ra = <<>> <=> toClient' = <<>> /\ ra' = <<>>
      <4>1. CASE ServeClientPublicKey_nonce
        <5>1. toClient # <<>> /\ ra' # <<>>
          BY <4>1, NonceTaken
        <5> QED
          BY <5>1
      <4>2. CASE ~ServeClientPublicKey_nonce
        BY <4>2 DEF ServeClientPublicKey, ServeClientPublicKey_dummy,
           ServeClientPublicKey_write, ServeClientPublicKey_fails
      <4> QED
        BY <4>1, <4>2
    <3> QED
      BY <1>1, <1>3, <2>2, <3>1 DEF HandleAt, Answering
  <2>3. CASE spc # "noKey"
    BY <1>1, <1>3, <2>3 DEF HandleAt, Answering
  <2> QED
    BY <2>1, <2>2, <2>3
<1>6. ClientAt' = "run" /\ up => HandleAt(same) \in {"verify", "garbled"}
  <2> SUFFICES ASSUME cpc' = "ready", up PROVE HandleAt(same) \in {"verify", "garbled"}
    BY DEF ClientAt
  <2>1. cpc \in AnswerField
    BY Fields DEF ServeClientPublicKey, ServeClientPublicKey_dummy, ServeClientPublicKey_nonce,
         ServeClientPublicKey_write, ServeClientPublicKey_fails
  <2>2. ra # <<>> /\ spc \notin {"dummy", "nonce", "ready"}
    BY <2>1 DEF Asking
  <2>3. spc = "noKey" => Torn
    BY DEF Asking
  <2> QED
    BY <1>3, <2>2, <2>3, Fields DEF HandleAt, Answering, ServerPlace
<1> QED
  BY <1>2, <1>4, <1>5, <1>6 DEF OutcomeStep

\* The end of the session.
LEMMA EndIsOutcome ==
  ASSUME NEW same \in BOOLEAN, Session_ends \/ UNCHANGED netcatVars
  PROVE  OutcomeStep(same)
<1>1. /\ UNCHANGED <<serves, asks, cpc, ra, spc, answer, size, short, toClient>>
      /\ up' = up \/ (up /\ up' = FALSE)
  BY DEF Session_ends, netcatVars, vars, authVars, loopVars
<1>2. /\ UNCHANGED <<ClientAt, HandleAt(same), AliveAt>> /\ (Refused(same)' <=> Refused(same))
  BY <1>1 DEF ClientAt, HandleAt, AliveAt, Answering, Torn, Refused, Right
<1>3. UNCHANGED UpAt(same) \/ (UpAt(same) /\ UpAt(same)' = FALSE)
  BY <1>1, <1>2 DEF UpAt
<1> QED
  BY <1>2, <1>3 DEF OutcomeStep

\* AskClientPublicKey is checkAuthenticity.
LEMMA AskIsOutcome ==
  ASSUME NEW same \in BOOLEAN, KeyExchangeInv, AskClientPublicKey, UNCHANGED loopVars
  PROVE  OutcomeStep(same)
<1> USE DEF KeyExchangeInv, NetcatInv, PlaceType
<1>1. CASE AskClientPublicKey_dummy \/ AskClientPublicKey_nonce \/ AskClientPublicKey_fails
           \/ AskClientPublicKey_verify
  <2>1. UNCHANGED <<serves, asks, cpc, ra, answer, size, short, up>>
    BY <1>1 DEF AskClientPublicKey_dummy, AskClientPublicKey_nonce,
       AskClientPublicKey_fails, AskClientPublicKey_verify
  <2>2. UNCHANGED ClientAt /\ (Torn' <=> Torn) /\ (Right' <=> Right) /\ Answering' = Answering
    BY <2>1 DEF ClientAt, Torn, Right, Answering
  <2>3. CASE AskClientPublicKey_dummy
    <3>1. spc = "dummy" /\ spc' = "nonce"
      BY <2>3 DEF AskClientPublicKey_dummy
    <3>2. UNCHANGED <<HandleAt(same), UpAt(same), AliveAt>>
      BY <2>1, <3>1 DEF HandleAt, UpAt, Refused, AliveAt
    <3> QED
      BY <2>2, <3>2 DEF OutcomeStep
  <2>4. CASE AskClientPublicKey_nonce
    <3>1. spc = "nonce" /\ spc' = "rb" /\ up
      BY <2>4 DEF AskClientPublicKey_nonce
    <3>2. serves /\ ~Torn
      BY <3>1 DEF Asking, OutOfStep
    <3>3. HandleAt(same) = "ask" /\ HandleAt(same)' = "verify"
      BY <2>2, <3>1, <3>2, Fields DEF HandleAt, Answering
    <3>4. UpAt(same) /\ AliveAt /\ UNCHANGED <<UpAt(same), AliveAt>>
      BY <2>1, <3>1 DEF UpAt, Refused, AliveAt
    <3> QED
      BY <2>2, <3>2, <3>3, <3>4 DEF OutcomeStep
  <2>5. CASE AskClientPublicKey_fails
    <3>1. spc \in AnswerField \cup {"nonce"} /\ spc' = "noKey" /\ ~up /\ UNCHANGED toClient
      BY <2>5 DEF AskClientPublicKey_fails
    <3>2. ~Refused(same) /\ ~Refused(same)'
      BY <3>1, Fields DEF Refused
    <3>3. ~UpAt(same) /\ UNCHANGED UpAt(same) /\ AliveAt /\ AliveAt' = FALSE
      BY <2>1, <3>1, <3>2, Fields DEF UpAt, AliveAt
    <3>4. UNCHANGED HandleAt(same) /\ HandleAt(same) \in {"ask", "verify", "garbled"}
      <4>1. CASE spc = "nonce"
        BY <2>1, <3>1, <4>1, Fields DEF HandleAt, Asking
      <4>2. CASE spc \in AnswerField
        <5>1. toClient # <<>> \/ ra # <<>>
          BY <4>2, Fields DEF Asking
        <5> QED
          BY <2>1, <2>2, <3>1, <4>2, <5>1, Fields DEF HandleAt, Answering
      <4> QED
        BY <3>1, <4>1, <4>2
    <3> QED
      BY <2>2, <3>3, <3>4 DEF OutcomeStep
  <2>6. CASE AskClientPublicKey_verify
    <3>1. /\ spc = "verify" /\ UNCHANGED toClient
          /\ spc' = IF answer["key"] # Whole("key") THEN "noKey"
                    ELSE IF Right THEN "accepted" ELSE "badSignature"
      BY <2>6 DEF AskClientPublicKey_verify, Right
    <3>2. CASE answer["key"] # Whole("key")
      <4>1. spc' = "noKey" /\ Torn /\ (toClient # <<>> \/ ra # <<>>)
        BY <3>1, <3>2 DEF OutOfStep, Asking
      <4>2. HandleAt(same) = "garbled" /\ HandleAt(same)' = "garbled"
        BY <2>1, <2>2, <3>1, <3>2, <4>1, Fields DEF HandleAt, Answering
      <4>3. UNCHANGED UpAt(same) /\ AliveAt /\ AliveAt' = FALSE
        BY <2>1, <3>1, <3>2, <4>1 DEF UpAt, Refused, AliveAt
      <4> QED
        BY <2>2, <4>2, <4>3 DEF OutcomeStep
    <3>3. CASE answer["key"] = Whole("key")
      <4>1. spc' = IF Right THEN "accepted" ELSE "badSignature"
        BY <3>1, <3>3
      <4>2. Refused(same)' <=> Refused(same)
        BY <2>1, <2>2, <3>1, <3>3, <4>1 DEF Refused
      <4>3. UNCHANGED <<HandleAt(same), UpAt(same), AliveAt>>
        BY <2>1, <3>1, <3>3, <4>1, <4>2, Fields DEF HandleAt, UpAt, AliveAt
      <4> QED
        BY <2>2, <4>3 DEF OutcomeStep
    <3> QED
      BY <3>2, <3>3
  <2> QED
    BY <1>1, <2>3, <2>4, <2>5, <2>6
<1>2. CASE AskClientPublicKey_read
  <2>1. /\ UNCHANGED <<serves, asks, cpc, ra, toClient, up>> /\ up
        /\ spc \in AnswerField /\ (Torn => Torn')
    BY <1>2, ReadTakes
  <2>2. UNCHANGED ClientAt
    BY <2>1 DEF ClientAt
  <2>3. HandleAt(same) = Answering /\ UpAt(same) /\ AliveAt /\ UpAt(same) = TRUE
    BY <2>1, Fields DEF HandleAt, UpAt, Refused, AliveAt
  <2>4. /\ spc' = "panic" \/ spc' = "verify" \/ spc' \in AnswerField
        /\ spc' = "verify" => spc = "signature"
    BY <1>2, <2>1, Fields, AfterFields DEF AskClientPublicKey_read
  <2>5. OutOfStep'
    BY <1>2, ReadInTurn
  <2>6. CASE spc' = "panic"
    <3>1. HandleAt(same)' = "garbled" /\ AliveAt' = FALSE /\ UpAt(same)' = UpAt(same)
      BY <2>1, <2>3, <2>6, Fields DEF HandleAt, AliveAt, UpAt, Refused
    <3>2. HandleAt(same) \in {"verify", "garbled"}
      BY <2>3 DEF Answering
    <3> QED
      BY <2>2, <2>3, <3>1, <3>2 DEF OutcomeStep
  <2>7. CASE spc' \in AnswerField
    <3>1. HandleAt(same)' = Answering' /\ UpAt(same)' = UpAt(same) /\ AliveAt' = AliveAt
      BY <2>1, <2>3, <2>7, Fields DEF HandleAt, UpAt, Refused, AliveAt
    <3>2. Answering' = Answering \/ (Answering = "verify" /\ Answering' = "garbled")
      BY <2>1 DEF Answering
    <3>3. AliveAt' \in BOOLEAN
      BY DEF AliveAt
    <3> QED
      BY <2>2, <2>3, <3>1, <3>2, <3>3 DEF OutcomeStep
  <2>8. CASE spc' = "verify"
    <3>1. UNCHANGED AliveAt /\ AliveAt' \in BOOLEAN /\ answer'["key"] = answer["key"]
      BY <1>2, <2>1, <2>4, <2>8, Fields DEF AliveAt, AskClientPublicKey_read, ByteType
    <3>2. CASE answer["key"] # Whole("key")
      <4>1. Torn
        BY <2>4, <2>8, <3>2 DEF OutOfStep
      <4>2. HandleAt(same) = "garbled" /\ HandleAt(same)' = "garbled" /\ UpAt(same)' = UpAt(same)
        BY <2>1, <2>3, <2>8, <3>1, <3>2, <4>1, Fields DEF HandleAt, Answering, UpAt, Refused
      <4> QED
        BY <2>2, <3>1, <4>2 DEF OutcomeStep
    <3>3. CASE answer["key"] = Whole("key")
      <4>1. ~Torn /\ cpc = "ready"
        BY <2>1, <2>4, <2>5, <2>8, <3>1, <3>3 DEF OutOfStep
      <4>2. HandleAt(same) = "verify" /\ ClientAt = "run"
        BY <2>3, <4>1 DEF Answering, ClientAt
      <4>3. \/ HandleAt(same)' = "start" /\ UNCHANGED UpAt(same)
            \/ HandleAt(same)' = "gone" /\ UpAt(same)' = FALSE
        BY <2>1, <2>3, <2>8, <3>1, <3>3, Fields DEF HandleAt, UpAt
      <4> QED
        BY <2>2, <2>3, <3>1, <4>2, <4>3 DEF OutcomeStep
    <3> QED
      BY <3>2, <3>3
  <2> QED
    BY <2>4, <2>6, <2>7, <2>8
<1> QED
  BY <1>1, <1>2 DEF AskClientPublicKey

\* VpnServer keeps of the exchange what ClientAuth does: from where
\* waitControlStream leaves a session, every step of ServeClientPublicKey and
\* AskClientPublicKey is one of authenticateServer and checkAuthenticity, or none,
\* for every size of the fields, whether or not the key is the expected one.
THEOREM ExchangeIsOutcome ==
  ASSUME NEW same \in BOOLEAN
  PROVE  KeyExchange =>
           /\ up /\ AliveAt /\ HandleAt(same) = (IF asks THEN "ask" ELSE "start")
           /\ ClientAt = (IF serves THEN "serve" ELSE "run")
           /\ [][Outcome(same)!Next]_(Outcome(same)!vars)
<1>1. NetcatInit => /\ up /\ AliveAt /\ HandleAt(same) = (IF asks THEN "ask" ELSE "start")
                    /\ ClientAt = (IF serves THEN "serve" ELSE "run")
  BY Fields DEF NetcatInit, Init, AliveAt, HandleAt, Refused, ClientAt
<1>2. KeyExchangeInv /\ [Exchange \/ Session_ends]_netcatVars
        => [Outcome(same)!Next]_(Outcome(same)!vars)
  <2> SUFFICES ASSUME KeyExchangeInv, [Exchange \/ Session_ends]_netcatVars
               PROVE  [Outcome(same)!Next]_(Outcome(same)!vars)
    OBVIOUS
  <2>1. OutcomeStep(same)
    BY ServeIsOutcome, AskIsOutcome, EndIsOutcome DEF Exchange
  <2>2. UNCHANGED <<serves, asks>>
    BY DEF Exchange, ServeClientPublicKey, ServeClientPublicKey_dummy,
       ServeClientPublicKey_nonce, ServeClientPublicKey_write, ServeClientPublicKey_fails,
       AskClientPublicKey, AskClientPublicKey_dummy, AskClientPublicKey_nonce,
       AskClientPublicKey_read, AskClientPublicKey_fails, AskClientPublicKey_verify,
       Session_ends, netcatVars, vars, authVars
  <2> QED
    BY <2>1, <2>2, OutcomeStepIsNext
<1>3. NetcatInit => KeyExchangeInv
  BY KeyExchangeInit
<1>4. KeyExchangeInv /\ [Exchange \/ Session_ends]_netcatVars => KeyExchangeInv'
  BY KeyExchangeNext
<1> QED
  BY <1>1, <1>2, <1>3, <1>4, PTL DEF KeyExchange
=============================================================================

# A TLA+ development of the QUIC applications

This directory holds TLA+ specifications of the programs of the repository
(`src/src/quic_vpn`, `quic_ssh`, `quic_netcat`, `quic_utils`, written above
the QUIC library kept in `src/src/github.com/lucas-clemente/quic-go`), TLC
configurations that check small instances of them, and proofs checked by
TLAPS. Paths below are relative to `src/src/`; line numbers are those of the
commit in the tree.

## 1. Inventory of the system

| Component | State it keeps | Operations | What is hard |
|---|---|---|---|
| VPN packet scheduler (`quic_vpn/internal/transmitter.go`: `SchedulePackets`) | the channel `toSendQueue` (1000), a local `workingSlice` | pop, drain, stable sort, send the first, put the rest back | it is the only consumer of the channel it refills, while `ListenTun` fills it |
| VPN transmitter (same file) | `mapInteraction` (flow to time), `mapQuicStream` (flow to stream), `lastError` | `ListenTun`, `sendPacket`, `CollectUnused`, `ListenNet`, `ListenNet_handleStream`, `WaitOutput` | two maps without a common lock, five kinds of goroutine, one error read out of an unbuffered channel |
| VPN datagrams (`internal/datagram.go`) | none | `Send`, `Recv` (length, then bytes) | an end of stream inside a datagram |
| VPN flows (`internal/flow.go`) | none | `FindFlow` | IPv4 and IPv6 header rules applied to every packet |
| VPN packet marking (`internal/ippacket.go`) | the packet | `MarkECN`, `recomputeV4Checksum` | one's complement sum, header length |
| VPN endpoints (`quic_vpn/client.go`, `server.go`, `main.go`, `internal/config.go`, `tuniface.go`) | session, control stream, the tun interface (shared by all clients of a server) | dial, control stream, key checks, `Run`, `Handle` | both ends decide from their own configuration whether keys are exchanged |
| Client authentication (`quic_utils/client_auth.go`) | nonces, the answer | `ServeClientPublicKey`, `AskClientPublicKey`, `readN` | a read returns what there is, not what was asked for |
| `quic_netcat/main.go` | one stream | two copy loops, `loop` | the first loop to end ends the session |
| `quic_ssh` session (`server.go`, `client.go`) | `stopSessionChannel`, `listActiveListeners`, mode | accept, authenticate, mode, stop | who sends on the stop channel, and when listeners are closed |
| `quic_ssh` port forwarding (`port_forwarding.go`) | one TCP connection and one QUIC stream per flow, the listeners | `runAsSource`, `runAsDestination`, `readTCPSendQUIC`, `readQuicSendTCP` | four pumps per forwarded connection, half-closed connections, errors on either side |
| `quic_ssh` control messages (`port_forwarding_control.go`) | none | `writeControlMessage`, `readControlMessage` | an error overwritten by the next read |
| `quic_ssh` remote login (`remote_login.go`) | pipes to telnet, `errorChannel` | four goroutines at the server, three at the client | unbuffered channel read once |
| `quic_ssh` keys and arguments (`authentication.go`, `arguments_parser.go`, `utils.go`) | configuration | parsing | formats |
| quic-go streams and stream maps (`send_stream.go`, `receive_stream.go`, `stream.go`, `stream_framer.go`, `stream_frame_sorter.go`, `streams_map_legacy.go`) | buffers, offsets, limits, the queue of streams with data | `Write`, `Read`, `Close`, `PopStreamFrames`, `Push`, `OpenStream`, `AcceptStream`, `DeleteStream` | a dozen mutexes between the application's goroutines and the run loop; frames late, twice, split |
| quic-go flow control (`internal/flowcontrol`, `window_update_queue.go`) | windows of each stream and of the session, at both ends | `UpdateHighestReceived`, `AddBytesRead`, `GetWindowUpdate`, `SendWindowSize`, `QueueAll` | two ends that must count alike; an update forgotten is a sender that waits for ever |
| quic-go session, recovery, handshake (`session.go`, ...) | packets, timers | `run`, `Close`, ... | the end of the session against the goroutines in `Read`, `Write`, `Close` |

The applications call quic-go (calls that block), share state between their
goroutines (the two `sync.Map`s, the listeners), and pass errors through
unbuffered channels. `PROJECT.json` lists every component with its status and,
under `hazards`, what can go wrong at which line.

What makes the components correct, in short:

* the scheduler neither loses, duplicates nor invents packets, never waits for
  a packet it has counted, respects priority, and does not stop;
* the transmitter gives each packet to the other side at most once, keeps a
  stream for each active flow, gives back the stream of an idle one, and comes
  to an end with its session;
* a forwarded connection carries a prefix of each direction, and both pumps
  end when either side does;
* a session gives back the stream of every connection that is over, so that
  later connections are served and the limits of both endpoints agree;
* the server releases the listeners of a client that has left;
* the authentication exchange reads exactly the fields that were written, its
  verdict on an honest client is acceptance, and it costs the traffic after it
  nothing;
* every client of a VPN server gets the packets that are for it;
* a stream is a pipe of bytes, its end is read after its last byte, no credit
  is lost between windows, framer and queues; and the goroutines of an endpoint
  never wait for each other in a circle.

## 2. Plan

The modules, in the order in which they were written, bottom up within each
program, the most used behaviour first:

1. `PacketPool`: the abstract carrier of packets.
2. `PacketScheduler`: the send queue; checked, proved, and shown to implement
   the lossless pool.
3. `Transmitter`: the one-way tunnel, composed with `PacketScheduler`; checked,
   and proved to implement the lossy pool.
4. `BytePipe` and `Forwarding`: the pumps of one forwarded TCP connection of
   `quic_ssh` (both ends, both directions); checked, and proved to implement an
   abstract pipe in each direction.
5. `ForwardingSession`: the connections of one session, and the streams they
   use at the client and at the server; checked, and its safety proved.
6. `SshSession`: the life of a `quic_ssh` client at the server: modes, the stop
   channel, the goroutines of the remote login, the listener of remote
   forwarding.
7. `ClientAuth` and `Netcat`: the key exchange over a stream that delivers its
   bytes in arbitrary portions, and the traffic of `quic_netcat` that follows on
   same stream; checked, and the safety of both proved.
8. `VpnServer`: several sessions on one tun interface, and the two `Check_key`
   settings.
9. `QuicStream`: the streams of quic-go and their flow control, against the
   ordered channel that the modules of the programs assume; proved to
   implement `BytePipe`.
10. `SessionLocks`: the mutexes of one quic-go endpoint.
11. `IpPacket`: the checksum of a header that `sendPacket` marks, against the
    rule a receiver applies.

What composes what: `Transmitter` instantiates `PacketScheduler` for its queue
and `PacketPool` for what it promises; `Forwarding` and `QuicStream` instantiate
`BytePipe`; `Netcat` extends `ClientAuth`. `SshSession`, `VpnServer` keep only the
outcomes of the exchange that `ClientAuth` allows (for `VpnServer` this is proved:
`ExchangeIsOutcome`), `Transmitter`, `Forwarding`
and `ForwardingSession` see a stream as the ordered channel `QuicStream` gives
them. Each `MC...` module of section 4 puts models of one program side by side.

The constants and variables of `PacketScheduler` and of `Transmitter` are in modules
of their own, `SchedState` and `TunnelState`, so that `MCTunnel`, which uses
`Transmitter` only by `INSTANCE`, extends the same declarations and TLC evaluates what
is assumed of them. The `..._proofs` modules are the subject of section 5.

Left: the liveness of every module stays with TLC (section 5 says why).

## 3. The modules

### PacketPool

`pending`, `delivered`, `lost`, and the actions `Put`, `Take`, `Lose`. It
promises what IP promises and no more: a packet comes out at most once, and
only if it was put in. `LosslessSpec` has no `Lose`.

### PacketScheduler (`transmitter.go` 15-31, 54-89, 139-145)

| Variable | In the code |
|---|---|
| `toSendQueue` | the channel, as the sequence of its elements, at most `QueueCap` of them |
| `workingSlice` | the packets `SchedulePackets` has taken and not sent or put back; `top` while there is one only |
| `n` | receives left in the loop of lines 67-69 |
| `spc` | the point `SchedulePackets` has reached: `pop` (56), `len` (58-61), `drain` (68), `sort` (72), `send` (60, 81), `requeue` (84) |
| `enqueued` | number of packets `ListenTun` has put in; it numbers the packets |
| `handed` | history: the packets given to `sendPacket` |
| `atEnqueue` | history: for each packet, what `SchedulePackets` held when the packet was enqueued, and how many had been handed out |

One action is one communication on the channel or one piece of code without
any, so that `ListenTun_enqueue` may come between any two receives of the drain
loop and between any two sends of the requeue loop. Lines 58 and 61 read
`len(toSendQueue)` twice. The second value is at least the first, since only
`ListenTun` acts in between, so a model that reads it once, at any moment, has
the same outcomes. Payload and time stamp are left out.

`gopacket.Flow` is a pair of endpoints; `Src` and `Dst` give their ranks in the
order of `LessThan`. `IsStableSort(s, pi)` is the specification of
`sort.SliceStable` with the comparison of lines 73-77.

### Transmitter (`transmitter.go`, `datagram.go`)

One direction of the tunnel: the goroutines `ListenTun`, `SchedulePackets` with
`sendPacket`, `CollectUnused` and `ListenNet` of the sending endpoint `snd`,
and `ListenNet` with its `ListenNet_handleStream` goroutines of the receiving
endpoint `rcv`. `Mode` is the mode of `snd`, so both directions of the tunnel
are instances of the module. The two directions share nothing but the session
(streams are opened by the sender of their data, and what flows back on them is
only their end), which is why one direction is enough.

| Variable | In the code |
|---|---|
| `toSendQueue` ... `atEnqueue` | those of `PacketScheduler`, instantiated as `S` |
| `tpc`, `tflow`, `tstream` | `ListenTun`: where it is, its `flow`, its `newStream` |
| `cpc`, `cflow` | `CollectUnused` |
| `ppc`, `pstream` | `sendPacket`: before the `Load`, before `Write`, inside `Write` |
| `mapInteraction` | `none` (no entry), `fresh`, or `old` (a time more than `inactivityTimeout` ago); `InactivityTimeout` is the passing of time |
| `mapQuicStream` | the number of the stream, or `NoStream` |
| `nopen`, `streams` | the streams `snd` has opened: datagrams on their way, closed by `snd` (`fin`), closed by `rcv` (`peerFin`), end read by `snd` (`finRead`), tail lost with the session (`cut`) |
| `npc`, `naccepted`, `hpc`, `hpacket` | `ListenNet` and the handlers |
| `up`, `waiting`, `alive` | session, `WaitOutput`, process, per endpoint |
| `delivered`, `lost` | history |

Each `Load`, `Store`, `Delete` of the maps is an action, and so is each
blocking call; the goroutines interleave freely. `OpenStream` fails at the
limit of streams (`streams_map_legacy.go` 150-153), where a stream counts until
both its ends have been sent and read (`stream.go` 176-180). `Write` accepts the
data, waits until the packer has taken it, and is not disturbed by a `Close`
meanwhile; the end of the stream follows the data (`send_stream.go` 179-204).
`AcceptStream` returns streams in the order of their numbers, and a frame of a
stream opens those before it (`getOrOpenStream`). A closed session loses what
was not yet read at the other end. When `WaitOutput` returns, a client process
ends (`main.go` 30-34), a server goes on (`server.go` `Handle`), and every
later report to `lastError` blocks its goroutine.

What the model leaves out: the control stream opened before (it only uses one
of the allowed streams), the bytes of a datagram, ECN marking, the second
direction, and the deadlock of `SessionLocks` at the end of a session.

### IpPacket (`ippacket.go`)

`MarkECN` on an IPv4 header, a sequence of words below `WordSize` (words of 16 bits in
the code, of three in the run), `HeaderWords` that every header has (10; 4 in the
run) and perhaps options. `recomputeV4Checksum` adds
the words the code lists and folds the carries until there are none; `Valid` is
what a receiver checks, over the whole header. `MarkedIsValid` says exactly when
they agree: without options, or when the options weigh nothing in the sum. With
any other options the marked packet leaves with a wrong checksum.

### BytePipe

`sent` and `got`, and the actions `Put` and `Get` of any number of units: what
comes out is what went in, in order and without a gap. There is no action that loses anything: when a
connection fails, what has not come out simply never does.

### Forwarding (`port_forwarding.go`)

One TCP connection forwarded from the endpoint `src` (`runAsSource`) to the
endpoint `dst` (`runAsDestination`), with the goroutine that sets it up and the
two pumps at each endpoint. Which of them is the client of the session makes no
difference here.

| Variable | In the code |
|---|---|
| `phase` | the goroutine of lines 59-90 (`src`: `open`, `control`) or 112-154 (`dst`: `accept`, `dial`), then `pumps` or `stopped` |
| `control` | the control message: not written, on its way, or lost with the session |
| `tpc`, `tbuf` | `readTCPSendQUIC`: in `Read` (204), in `Write` (211) with what is left to write, or done |
| `qpc`, `qbuf`, `qend` | `readQuicSendTCP`: in `Read` (227), in `Write` (230), at `Close` (238); whether `Read` returned `io.EOF` |
| `conn`, `app`, `toPump`, `toApp` | external: the TCP connection at the endpoint, the application at its other end, and the two directions between them |
| `stream` | what each endpoint has written on the stream and the other has not read, whether it has closed its side, whether the end was read, whether the session cut it |
| `up` | the session, as each endpoint sees it |
| `sent`, `got`, `sawEnd` | history |

Data is in units, numbered per direction. `Read` returns any part of what is
there up to `bufSize`; on the stream it may return the last units together with
`io.EOF` (`receive_stream.go` 159-166). `Write` passes its units one by one.
The application sends, receives, shuts down its sending side, closes, or (with
`Failures`) aborts. Closing a TCP connection with unread data resets it. The end
of the session leaves the other endpoint a prefix of what was on its way.

A half-close is not forwarded as such: when the application at one end shuts
down its sending side, the stream ends, the other endpoint closes its whole TCP
connection, and what that application still wants to send back is cut off. No
comment of the code says otherwise, so this is no finding; `EndIsComplete` is
about an application that has not ended its own side.

### ForwardingSession (`port_forwarding.go`, `streams_map_legacy.go`, `stream.go`)

The connections a client forwards over one session, and their streams.

| Variable | In the code |
|---|---|
| `arrived`, `opened` | connections accepted by the client's listener, streams given out by `OpenStreamSync` (the difference waits in it) |
| `source`, `dest` | the goroutine of each connection at the client and at the server |
| `control` | the streams whose control message is written: their first frame is on its way |
| `highest`, `accepted` | `highestStreamOpenedByPeer`, and `nextStreamToAccept` (less one) |
| `acceptor` | whether the loop of `runAsDestination` goes on |
| `streams` | the `streams` map of each endpoint; its size is `numOutgoingStreams` at the client and `numIncomingStreams` at the server |
| `t2q`, `q2t` | the pumps, only as running or done |
| `fin`, `finRead` | the ends sent and read; both are needed for `DeleteStream` (`checkIfCompleted`) |
| `closeErr` | the reason `CloseWithError` was given |
| `alive` | the server process |

Streams are numbered in the order in which they are opened; first frames arrive
in any order. `MaxOutgoing` and `MaxIncoming` are the limits less the streams
the session uses for other purposes (the first stream); `newStreamsMapLegacy`
makes the second the larger one, by 40 of 400.

### ClientAuth (`quic_utils/client_auth.go`) and Netcat (`quic_netcat/main.go`)

| Variable | In the code |
|---|---|
| `serves`, `asks` | the two settings: whether the client calls `ServeClientPublicKey`, whether the server calls `AskClientPublicKey` |
| `cpc`, `ra` | where `ServeClientPublicKey` is (the field it writes next), the nonce it read |
| `spc`, `answer`, `size` | where `AskClientPublicKey` is, the `nonceAnswer` read so far, the last length decoded |
| `toServer`, `toClient` | the bytes of the first stream written and not read, each a pair of field and index |
| `short` | history: the ends at which a `readN` returned less than asked |
| `run` | `Netcat`: the process, in the exchange, in `loop`, or gone |
| `input`, `obuf`, `ibuf`, `output`, `failed` | the two `transmit` goroutines of each end, and the errors they wait to send |

`readN` makes one `Read`, which returns anything from one byte to what was
asked for, as far as bytes have come. A field has one or two bytes. `Decoded`
is what `decodeInt` makes of misread bytes: too small or too large a length; of
fewer bytes than a length has it panics. A signature is valid when it and all
it covers came unaltered. At this commit `quic_netcat` calls
`AskClientPublicKey` and `ServeClientPublicKey` with parameters these functions
no longer have, so it does not compile; the model has the calls as they are
meant, with the functions as they are.

### VpnServer (`quic_vpn/server.go`, `client.go`)

| Variable | In the code |
|---|---|
| `client`, `handle` | per session, where `ClientInstance.Run` and `connectedClient.Handle` are |
| `frames` | whether a frame of the client has come: `AcceptStream` of the control stream returns only then |
| `tun`, `arrived` | the packets waiting at the server's interface, and how many there have been, per host |
| `flow` | the flow of a host in the maps of a `Transmitter`: `none`, `open`, `closing` while `CollectUnused` is at it, `orphan` when it has a time and no stream |
| `queue` | the packets in `toSendQueue`, per session and host |
| `reading` | whether `ListenTun` has started, and whether it has failed for good |
| `collected`, `got` | history: the flows `CollectUnused` has closed once, the packets sent to their host |

Every session's `ListenTun` reads from the same interface,
whomever a packet is for, also after its session has ended: it stops at the
first packet of a flow it has no stream for, at an error of `Read`, and at a packet
too short for `FindFlow`, which is lost. Between it and `sendPacket` is the queue,
which may stop for good (`PacketScheduler` says when): no `Transmitter` is fair. What
is sent for a flow without an open stream is dropped. `WaitOutput` returns with the
first error, of whichever goroutine; the session and the goroutines stay. Of the
exchange of keys only the outcomes of `ClientAuth` remain. After a short `readN` the answer is read out of step
(`garbled`): `decodeInt` panics or the nil key is compared, at once or later, or the
server waits for bytes the client does not send.

### SshSession (`quic_ssh/server.go`, `client.go`, `remote_login.go`)

| Variable | In the code |
|---|---|
| `client` | mode and `-R` of the command line; the main goroutine, `remoteLoginClientLoops`, and the goroutines that have ended with an error |
| `net` | the session, the end of it as the server sees it, and what has been written on the first stream |
| `server` | per client: the main goroutine (`accept`, `stream`, `allow`, `mode`, `wait`, `stopListener`, `return`), `waitForClientStopRequest`, `remoteLoginServerLoops`, `receiveCommand`, `lookForEndOfCommunication`, `runAsDestination`, and the goroutine of the request for remote forwarding |
| `telnet` | external: the process, whether its pipe is read, whether it has said the words of its end |
| `listener` | the port of the remote forwarding; `late` when it was registered after `stopListener` |
| `main`, `request` at `assign` | a write to `listActiveListeners` that has begun and not ended: `stopListener` (195-198) and `acceptLocalConnection` (`port_forwarding.go` 166) share the map without a lock, and when one meets a write of the other the Go runtime may stop the process (`listActiveListeners_fault`), or notice nothing |
| `alive` | the server process |

Forwarded connections are those of `ForwardingSession`; the output of telnet and
the check of the host key are left out.

### QuicStream (`send_stream.go`, `receive_stream.go`, `stream_framer.go`, `stream_frame_sorter.go`, `window_update_queue.go`, `internal/flowcontrol`, `packet_packer.go`)

| Variable | In the code |
|---|---|
| `out` | the `sendStream`: bytes written, `dataForWriting`, `writeOffset`, `finishedWriting`, `finSent`, and `sendWindow` of its flow controller |
| `outWindow`, `inWindow` | the windows of the `connectionFlowController` at the two ends |
| `active` | `activeStreams` of the framer |
| `net`, `late` | frames on their way; a frame of `net` may arrive any number of times, in any order; one that was cut for a retransmission is in `late` and may still arrive |
| `in` | the `receiveStream`: bytes received, the queue of the sorter by offset, `highestReceived`, the final offset, `receiveWindow`, bytes read, `io.EOF`; whether its reader has stopped |
| `updates`, `scheduled` | the queue of window updates, and whether the run loop has an event |
| `granted`, `grantedAll` | MAX_STREAM_DATA and MAX_DATA frames sent |
| `error` | what `UpdateHighestReceived` closes the session with |

The network loses nothing for good, because quic-go sends again until a packet
is acknowledged; loss is an arrival that comes later. Acknowledgements, packet
sizes, the auto-tuning of windows and RST_STREAM are left out, and so is the
error of `Push` for more than 1000 gaps (`stream_frame_sorter.go` 132-134): a stream
has as many only when a thousand frames have arrived with a late one before each,
all within its window. `NoSessionError` and `StreamsSpec` hold but for it.

Three things the model shows about the code, each an exception in a property:

* `EofIsEnd`: `MaybeSplitOffFrame` (`packet_packer.go` 176) sends a lost frame
  again in two pieces. When the second piece comes first, and then the original
  after all, `Push` cuts the original at its end (`stream_frame_sorter.go`
  96-102) and leaves its FIN bit: `Read` returns `io.EOF` although the stream
  goes on.
* `Starved`: what was sent to a reader that has stopped stays charged to the
  window of the session; beyond three quarters of it, the session announces
  no more credit and every stream of it stops.
* `Unannounced`: reading wakes the run loop only for a window update of the
  stream (`receive_stream.go` 155). Where only the window of the session has
  grown, it is announced with the next event (`session.go` 820, 1044): a
  frame of the peer, or a keep-alive, which `quic_vpn/client.go` 91 and
  `quic_ssh/get_server_cert.go` 22 ask for and `quic_netcat` does not.

### SessionLocks (`session.go`, `streams_map_legacy.go`, `stream.go`, `send_stream.go`, `receive_stream.go`, `stream_framer.go`, `window_update_queue.go`)

| Variable | In the code |
|---|---|
| `holder` | who holds each mutex: the map's, the framer's, the window updates', and per stream the two halves' and `completedMutex` |
| `pc`, `cur`, `todo` | where each goroutine is: the run loop, and of each stream a writer, a reader, and (in `ClosedByOther`) one that closes it while another may write |
| `queue`, `updates`, `streams` | `streamQueue`, the queue of updates, the streams in the map |
| `out`, `in`, `completed` | the two halves of each stream as far as the locks depend on them |
| `session` | `closeChan`, `ctx.Done()`, `sendingScheduled` |

A step goes from one `Lock` to the next. A circle of goroutines, each waiting
for a mutex the next one holds, is `Circle`. Two are possible: `ReadMeetsEnd`,
the finding below, and `CloseMeetsWrite`: a `Close` (as `CollectUnused` calls it)
while a `Write` waits holds the stream and wants the queue of the framer, which
`PopStreamFrames` holds while it wants the stream. `Transmitter`, `Forwarding`,
`ForwardingSession` and `SshSession` take the end of a session as one step, and
so leave out these two deadlocks; what they say of ends holds but for them.

## 4. The runs

Several models of a program share one run: an `MC...` module puts them side by
side in one state space, in which a variable that never changes (`config`,
`model`, `program`) says which of them goes on. They do not interact
there. Bounds that differ between them are in the `INSTANCE` of the `MC` module;
the others are in the `.cfg`.

| Run (= `.cfg`) | Module | Question | Bounds |
|---|---|---|---|
| `vpn_live` | `MCVpnLive` | the queue by itself: is nothing lost, is order bounded, what stops it? around it, under fairness: are idle flows collected, is what was handed over delivered, does the end of the session end `WaitOutput`? | queue: 3 flows (2 share a source), channel of 2, 4 packets, and 2 flows with packets that never stop arriving; tunnel: 2 flows, 2 packets; tunnel with all failures: 1 packet |
| `tunnel` | `MCTunnel` | are the two maps exact (`MultiMapIsExact`) and the stream limit never exceeded (`MultiStreamLimitSuffices`); at most once delivery under every failure (`CarriesPackets`); reliability without `Multi_streams` (`OneStreamReliable`); is the checksum of a marked header right (`HeaderStaysValid`)? | 2 flows, 2 streams, window 1, 3 packets; 1 flow of a server, 2 packets, failures; 2 packets, window 2, failures; headers of 4 and 5 words of 3 bits |
| `order_broken` | `MCPacketScheduler` | does a flow stay in order? (it does not) | 1 flow, 4 packets |
| `flow_orphaned` | `MCTransmitter` | does an active flow have a stream? (not always) | 2 flows, 2 packets |
| `fwd_failing` | `MCForwarding` | are both directions of a forwarded connection pipes, and is an orderly end complete? | 2 units one way, 1 the other, buffers and TCP windows of 2, stream window of 1, all failures |
| `fwd_live` | `MCForwarding` | do all four pumps end with an application, or with the session? | 2 units one way, buffers and windows of 1, all failures |
| `quic_ssh` | `MCSshForwarding` | when is a session closed for too many streams, which connections wait for ever? and: who stops a session, what ends the server, which ports stay open, which ends go unnoticed? | 3 connections, 2 streams at each endpoint, failed dials and TCP connections; one client with any command line, 1 command typed, sessions that end in any way |
| `server_crashes` | `MCForwardingSession` | does the server survive every error of a session? (it does not) | 3 connections, limits of 1 and 2 streams, failed dials |
| `exchange` | `MCExchange` | is the verdict of the key exchange right, what does it cost the traffic behind it, what does it do to the processes, who gets the packets of the one tun interface? | fields of 1 and 2 bytes, 2 and 1 bytes of input; 2 hosts, 2 sessions, 2 packets for one of the hosts; any settings |
| `quic` | `MCQuicStream` | is a stream a pipe, is `io.EOF` its end, do the two ends count alike, what keeps an end from arriving? | 2 streams, windows of 2 bytes, 1 frame split, one reader that may stop |
| `locks` | `MCSessionLocks` | which circles of waiting are there, who deletes a stream, is everything sent, does the end of the session end everything? | 2 streams, one with 2 writes, 2 frames and an overlapping `Close`, one that is only read; from two states: the second stream is over, or both near their end |
| `session_wedges` | `MCSessionLocks` | does the end of a session unblock a `Read`? (not always) | 1 stream, 2 writes, 2 frames |

What each run shows is told in `PROJECT.json` (`about`), and each property in the
comment before it. The type invariants are proved (section 5) for
`PacketScheduler`, `Transmitter`, `Forwarding`, `ForwardingSession`, `SshSession`,
`VpnServer`, `Netcat` (with `ClientAuth`), `QuicStream` and `SessionLocks`.

Why these bounds are enough: the scheduler needs three packets to reorder one
flow (one being sent, one held, one arriving), four to do so with a second
flow in the way, and a channel smaller than the number of packets to fill up
while packets are held. A flow that comes, goes and comes again takes two
packets, a second flow that disturbs it a third; the stream limit is then
reached exactly when the two flows are active. The window of one datagram
makes `Write` wait. `MaxPackets` bounds `enqueued`, hence also the streams.

`HandedUnlessOvertaken` is about packets that go on arriving, so it has a queue of its
own in `MCVpnLive` (instance `Endless`): one packet is watched, the others share two
ids, by whether `SchedulePackets` held the watched one when they came, and of the
packets handed out only the last is kept. Without its second half, which says
when a packet starves, TLC finds a violation, and so it does when either case of
`Overtakes` is left out: a packet starves behind those of a smaller endpoint (each
batch is sorted again and only its first packet sent), and also behind packets of its
own endpoint, or its own flow, that arrive while it is held and so get before it.

For a forwarded connection two units are what it takes to have one in a buffer
while the other is on its way, to split a buffer in two reads or writes, and to
read the last unit with the end of the stream or before it. A `Write` that
waits for a reader that has gone needs one unit in the stream and one behind it.
Two streams at a time let first frames overtake each other and a connection
wait; the third reaches the limit of the server with one stream left over.
`MaxUnits` bounds `sent`, `MaxConns` bounds `arrived`. In `SshSession` clients
share the process and the ports, but a session only ever looks at its own
channels; one client reaches every combination of its goroutines. `MaxTyped` is
one command: `receiveCommand` can be in the pipe with it, and the race at the
end needs no second one.

Of the fields of the exchange those with a length in which a short read can be
told from a whole one have two bytes; nothing in `readN` depends on more. Two
hosts and two sessions give both cases of the shared interface: another client,
and an earlier session of the same one. Two packets for one host are enough for a flow
that opens, is closed and comes again or is left without a stream; one session
is always of that host (`MCInit`), and packets for the other host would add nothing to
`SoleSessionKeepsPackets`, which is about each host by itself. In `QuicStream` windows of two bytes are
smaller than the three bytes of the first stream, which has to wait for either
window; one of its frames has two bytes and can be cut (`MaxSplits`), with both
pieces and the original on their way. The byte of the second stream has to wait
for the window of the session that the first one uses. In `SessionLocks` every
circle joins the run loop and the goroutines of one stream; the second stream is
there for the queue and the map that they share, and the run starts where one
stream or the other has little left to do. `session_wedges` starts at the
beginning (`LocksFairSpec`), and so do the proofs.

Deadlock is not checked where the system really stops: when the bounded traffic
has gone through, when `SchedulePackets` waits on its own full channel, when
goroutines wait on a channel after its one receive, or when both processes are
gone. `SessionLocks` looks for its deadlocks with `KnownCircles` instead.

The four runs that end in a counterexample are recorded as findings:

* `order_broken`. `transmitter.go:71` asks for a stable sort "to avoid
  reordering". The sort is stable, but lines 82-86 put what was not sent behind
  the packets that arrived meanwhile. `OvertakenOnlyWhenHeld` says that this is
  the only way a flow is reordered.
* `flow_orphaned`. `ListenTun` finds the flow in `mapInteraction`,
  `CollectUnused` removes its stream, `ListenTun` stores the new time. The flow
  is active and has no stream; its packets are dropped until the next
  inactivity, when `CollectUnused` reports "Unable to load stream", which ends
  the tunnel.
* `server_crashes`. A dial that fails closes its stream without reading it to
  the end: the client forgets the stream, the server keeps it. When such
  leftovers exceed the tolerance (`LimitNeedsLeftovers` says that nothing else
  closes the session for too many streams), `AcceptStream` returns an error that
  is not a normal end, and `runAsDestination` starts its goroutine with a nil
  stream, which ends the process. The comment at `port_forwarding.go:174`
  says that errors stop the forwarding without crashing the server. One more
  consequence shows in `WaitingIsServed`: a client whose streams are all
  abandoned lets every later connection wait in `OpenStreamSync`.
* `session_wedges`. `stream.go:153` says that the end of the session makes `Read`
  and `Write` return immediately. A `Read` that has just met the end of its
  stream deletes the stream while it holds its lock; `CloseWithError` shuts the
  streams down while it holds the lock of the map. Neither ever returns.

Fairness. `FairSpec` of the scheduler asks for weak fairness of
`SchedulePackets`: the Go runtime runs a goroutine that can go on. In
`Transmitter` each goroutine is weakly fair; `ListenTun` only once it has a
packet, since traffic is up to the network. `SessionFollows` is fair because the
idle timeout of the session notices an endpoint that has gone. Time
(`InactivityTimeout`) and failures have no fairness.

In `Forwarding` every goroutine is weakly fair, an application goes on reading
what it is sent as long as it has not closed, and the end of the session is
noticed at the other endpoint (idle timeout). Nothing makes an application send,
shut down or close. `CloseEndsAll` needs the exception `StuckInWrite`: a
`readTCPSendQUIC` whose peer has stopped reading the stream is in `Write` and
does not see its TCP connection end; only the end of the session frees it. The
same is why in `ForwardingSession` `readTCPSendQUIC` is fair only while the peer
reads the stream, or the session has ended; that it then comes to an end assumes
that the applications do.

`MCSshForwarding` and `MCExchange` ask for the fairness of all these goroutines as that of
one action, their disjunction. In these models no step can be taken for ever, so in
every behaviour there comes a state after which nothing changes; both say of it
that no fair step is enabled there. It saves TLC most of its work.

In `SshSession`, `Netcat` and `VpnServer` the goroutines are weakly fair (but for those
of a `Transmitter`, whose queue may stop) and the
end of a session is noticed at the other end; users, telnet, input, packets and
failures are up to the environment. That of an answer out of step need not go on
(`checkAuthenticity_garbled` has no fairness): its `readN` may wait for bytes that do not
come. In `QuicStream` both run loops and the
readers that have not stopped go on, and a frame (or window update) that was
sent arrives, because it is sent again until it is acknowledged. Nothing makes a
late original arrive, nor a stream be closed. In `SessionLocks` the goroutines are
weakly fair; that is enough for the mutexes because each is taken finitely often.

Each property of a passing run has a mutant in `PROJECT.json`: a variant of a
mapped definition, written before it in its module and marked as such, under
which TLC finds the property violated.

## 5. The proofs

`PacketScheduler_proofs` proves, for every set of flows, every capacity and
every number of packets (the assumption `SchedAssumption`: a capacity of at
least one, ranks that are natural numbers, a mode that is client or server):

* `TypeCorrect`: `Spec => []TypeOK`. The type invariant is not inductive as it
  stands. `TypeInv` adds `PcInv`, which says how many packets the slice holds at
  each point of `SchedulePackets`, and `DrainFindsPackets`.
* `DrainNeverWaits`: `Spec => []DrainFindsPackets`, from the same invariant: `n`
  counts receives still to make, and `ListenTun` only ever adds packets.
* `NothingLostOrDuplicated`: `Spec => []EachPacketOnce`, from
  `OnceInv == TypeInv /\ EachPacketOnce`. Every step moves one packet from the
  front of one sequence to the end of another (`MoveFacts`), adds a new one
  (`AppendFacts`), or rearranges the slice (`RearrangedFacts`); these lemmas
  say what that does to the ids in a sequence.
* `ImplementsPool`: `Spec => PoolSpec`, with the refinement mapping of
  `PacketScheduler` (the packets in channel and slice are pending, those handed
  out are delivered, none are lost). An enqueue is a `Put`, the return of
  `sendPacket` a `Take`, every other step a stutter.
* `OvertakingNeedsHolding`: `Spec => []OvertakenOnlyWhenHeld`, from `OrderInv`:
  within the channel, and within the slice, packets of one flow are in the order
  of their numbers, but for those whose history says that they came while the
  earlier one was held. The stable sort keeps it because equal keys keep their
  places.
* `PriorityWithOneException`: `Spec => []InversionBounded`, from `InversionInv`.
  It says that each packet has been passed by one packet of less priority at most,
  that one which the drain, the sort or the send after it will still move has been
  passed by none, and that the head of the slice has the highest priority there is
  in the slice when it is sent.

`SshForwarding_proofs` proves of `ForwardingSession`, for every number of connections and every
pair of limits (the assumption `ForwardingSessionAssumption`: the client may open
at least one stream, and the server admits at least as many as the
client may open: `newStreamsMapLegacy` adds its tolerance to the `maxStreams`
that the server announces):

* `AcceptNeverMisses`: `Spec => []NextToAcceptIsThere`, from `MapInv`, which
  adds that a stream not yet accepted has no goroutine at the server: only such
  a goroutine could end it there and take it out of the map.
* `LeftoversUnread`: `Spec => []LeftoversAreUnread`, from `EndInv`. It adds that
  an end that has been read was sent, that an endpoint has forgotten the streams
  that ended both ways, and that the client has forgotten no others
  (`Forgotten`), together with which streams can have ended at all
  (`NobodyElse`).
* `LimitNeedsMoreThanTolerance`: `Spec => []LimitNeedsLeftovers`, from
  `LimitInv`. When the new streams do not fit in the server's map, at most
  `MaxOutgoing` of those in the map and the new ones together are in the
  client's map, and all the new ones are: the others are leftovers, more than the difference of
  the limits (`OverTheLimit`, by the cardinality facts of
  `FiniteSetTheorems`). That stays true afterwards because the server's map
  changes no more once the session has ended there, while the client's can only
  lose streams (`DeletingKeepsLimits`).
* `TypeCorrect`: `Spec => []TypeOK`, with the same invariant, since the type
  invariant bounds both maps by their limits.

`Transmitter_proofs` proves, for every set of flows, stream limit, window and
number of packets (`TransmitterAssumption`: the flows are finitely many, as a
`gopacket.Flow` is made of arrays of a fixed size; limit and window are at least
one):

* `NoStreamLeaks`: `Spec => [](MapIsExact /\ MultiMapIsExact)`, from `MapInv`. It says,
  for each point of `ListenTun` and of `CollectUnused`, what the two maps may hold of
  the flow in hand; the two goroutines can be at the same flow, and the invariant
  has that case. What matters is that only `ListenTun` opens streams, and only
  `CollectUnused` closes them, after it has taken the flow from `mapInteraction`.
* `StreamsNeverRunOut`: `Spec => [](StreamLimitSuffices /\ MultiStreamLimitSuffices)`,
  from `LimitInv`: each stream that still counts is that of a flow in the map, so
  there are no more than flows (an injection into `Flow`, by `FiniteSetTheorems`).
* `OneStreamDropsNothing`: `Spec => []SingleStreamReliable`, from `SingleInv`: without
  `Multi_streams` the collector returns at once, and the stream of `ZeroFlow` is
  there from the first packet on. `OneStreamReliable` follows where `Multi_streams` is
  off.

The second half of each formula is the property as the run `tunnel` checks it, in
the one of the configurations of `MCTunnel` it is about.

`Tunnel_proofs` proves `TunnelCarriesPackets`: `Spec` of `Transmitter` (the instance `T`
of `MCTunnel`) implies `CarriesPackets`, which is its `TunnelSpec`:
the whole tunnel implements `PacketPool`. Its send queue is that of
`PacketScheduler_proofs`, whose lemmas are used as they stand. `TunnelInv` says that
a packet is in one place only: the queue, the data of one stream, or the hands
of one handler. Every action is a `Put` (`ListenTun_enqueue`), a `Take` (the write
to the tun interface), a `Lose` (no stream, a failed `Write`, the end of the
session) or a stutter. `TunnelTypeCorrect` is its type invariant.

The same module proves of `IpPacket`, for every size of a word (a multiple of four, since
the congestion bits are the two lowest), every number of words of a header (at least two:
the marked one and the checksum) and every number of options:

* `MarkedHeaders`: `MarkedIsValid` always holds, however often a header is marked.
* `MarkedPlainIsValid`: a header without options is valid whenever it has been marked.
* `HeadersStayValid`: `MCSpec => []HeaderStaysValid`, the same for the headers of the run
  `tunnel`.

What a receiver adds and what the code adds are two sums over sets of words, folds of the
library, and two loops that fold carries. Nothing of this is proved by induction: a fold
over a finite set is unique, and the sum over two sets is that of both, because of the
subsets on which two folds differ there would be one of the smallest size (`Smallest`),
and taking an element out of it shows that they do not. The loop ends because adding the
carries makes a sum smaller (`CarryStep`), and it computes the sum modulo `AllOnes`, with
`AllOnes` in the place of 0 unless all words are 0 (`FoldedIsRest`). A marked header is not
all zeros, since `MarkECN` sets two bits; hence checksum and words together give `AllOnes`
exactly if what the code leaves out, the options, is 0 modulo `AllOnes`.

`Forwarding_proofs` proves, for every number of units at either end and every size
of the buffers, of the TCP connections and of the window of the stream
(`ForwardingAssumption`: each size is at least one):

* `ConnectionIsTwoPipes`: `Spec => PipesSpec`. Each direction implements `BytePipe`: a
  write of an application is a `Put`, a read a `Get`, and every other step, with
  every failure, a stutter. A `Get` needs that what arrives is the next of what was
  sent, and no more (`OnlySent`).
* `OrderlyEndIsComplete`: `Spec => []EndIsComplete`.
* `ForwardingTypeCorrect`: `Spec => []TypeOK`.

All three follow from `FInv`. Its heart is `Chain`: the buffers of one direction, put one
behind the other from the receiver to the sender (`got`, the TCP connection to the
application, `qbuf`, the stream, `tbuf`, the TCP connection from the other
application), hold the units in order and without a gap, and together as many as
were sent. A failure cuts the chain: what is behind the cut never arrives, so the
parts of `ChainTo` are said as far as the two connections and the session are there
(`Linked`). Completeness needs the rest. When the receiver has seen the end, the
session is up and nothing was reset, `EndRead` says that `readQuicSendTCP` has read the
end of the stream and the stream is empty, `NothingBehindFin` that whoever sent that
end had read its TCP connection to the end, and `NothingBehindClose` that a closed
connection holds nothing; then every buffer but the first is empty. `Phases` says that
pumps run between the set-up of a connection and its end only.

The same module proves of `SshSession` (instance `Ssh` of `MCSshForwarding`), for every set
of clients and ports:

* `SentOnce` (`StoppedOnce`) and
  `PortKeptByRace` (`KeptNeedsRace`), from `SshInv`. It says of each client which
  goroutines can exist in the mode its server is in, and that of those that send
  on `stopSessionChannel` one at most has not yet ended; a session without error
  ends only after the main goroutine has been told.
* `CrashHasItsCause` (`CrashNeedsForwarding`): a client that only logs in ends the server for
  nobody once it is admitted, and the accesses to `listActiveListeners` meet only when a
  session, or telnet, ends before the listener that was asked for is registered.
  `CauseInv` follows the way there backwards: `stopListener` runs only after
  `stopSessionChannel` was received from, that was sent on only for the end of the
  session or for the words of telnet (`StopReason`, `StoppedFor`), and a listener is being
  registered only for a client that asked for one (`AskedFor`).
* `SshTypeCorrect`, for a `MaxTyped` in `Nat`.

`Exchange_proofs` proves of `VpnServer` (instance `Vpn` of `MCExchange`), for every set of
hosts and sessions:

* `ExchangeIsSafe` (`ExchangeOutcome`) and `OneReaderKeepsPackets`
  (`SoleSessionKeepsPackets`), from `VpnInv`: what has been decided on at each point of
  the exchange follows from the two settings, and a packet lost so far was read
  by a second `ListenTun`, or its own has failed, or its flow has been closed once.
  `FlowsAreOpen` is what makes the last true: a packet in the queue has an open
  stream until `CollectUnused` comes to the flow, and only after that can there be a
  flow without a stream (the finding `flow_orphaned`).
* `VpnTypeCorrect`, for a `MaxPackets` in `[Host -> Nat]`.

and of `Netcat` with `ClientAuth`, for every size of the fields and every length of the
input (`ClientAuthAssumption`: a field has at least one byte; `NetcatAssumption`: the
lengths are natural numbers; `Agree` may be either):

* `VerdictHolds` (`VerdictIsRight`), `OutputHolds` (`OutputIsInput`) and `NetcatTypeCorrect`,
  all from `NetcatInv`.

The bytes that can ever come to an end are an infinite word: `Told` at the client (the
nonce, then the input of the server), `Asked` at the server (the dummy byte, the answer
field by field, the input of the client). `InOrder` says that the bytes on their way
are the part of that word (`Part`) between a place the reader has come to and the
place up to which the other end has written (`Reading`, `Written`); where no `readN` came
short and the settings agree, the reader's place is the one its program counter
says (`Consumed`). After a short read it is not, and this is what makes the verdict a
matter of proof: misread bytes are decoded to a length, bytes of one field are
taken for those of another. `Answered` says that if the fields that will be compared
are right so far, then so were the lengths between them and the place is the next
field's: `rb` is whole only where the word has its first byte (`Places`), and from
there on each whole field ends where the next begins (`NextPlace`). So an accepted
answer ends at the input. Conversely `Untorn` says that what was read in step is
whole. `OutIsIn` adds the output: what `transmit` has written or still holds is the
part of the word from the input on.

Last, `ExchangeIsOutcome` relates the two: `ClientAuth`, as it runs before the loops of `Netcat`,
implements the exchange of keys of `VpnServer` with one client and one session (instance
`Outcome`), from where `waitControlStream` leaves it. Each step is one of
`authenticateServer`, `checkAuthenticity_...`, `Session_ends`, or a stutter. Its parameter `same`
says whether the client's key is the one expected at the server: `checkAuthenticity` closes
the session when `AskClientPublicKey` returns an error with a key that is not. The server
of `VpnServer` is at `verify` while every `readN` gave what was asked for, and at `garbled`
from the first that did not. The invariant `KeyExchangeInv` adds to `NetcatInv` how far
one end is when the other is at a given place (`Asking`), that the server has read all that
was written but what is on its way (`AllRead`), so that it cannot be further than the
client, and that a short `readN` shows in the key at the latest (`OutOfStep`): an answer out of step never gets
back into step, so the key is nil, or not the client's.

`QuicStream_proofs` proves, for every number of streams, bytes, windows and
splits (`QuicStreamAssumption`: finitely many streams, windows of at least one
byte):

* `NeverAnError` (`NoSessionError`), `EndOnlyAtTheEnd` (`EofIsEnd`), from `StreamInv`: every
  frame on its way is a part of what was written, its FIN bit where the writer
  ended or on the whole original of a frame that was split; what the sorter has
  queued is a part of a frame that arrived, no two parts overlap, and together
  with what was read they are the bytes received; the receiver counts no byte the
  sender has not counted, so that the windows, which only grow and of which each
  end knows less than the other grants, are kept. The sum over streams that the
  window of the session bounds is a cardinality (`Pairs`), since a sum over a set
  would be an induction.
* `CreditIsKept`: at both levels, stream and session, what was sent is within the window
  the sender knows, and that within the one the receiver keeps to.
* `QuicTypeCorrect`: the types, without the bounds of the windows.
* `StreamsArePipes`: `Spec => StreamsSpec`: each stream implements `BytePipe`. The bytes
  of a `Read` start at the offset the reader has reached.

`SessionLocks_proofs` proves, for every number of streams, writes and frames
(`SessionLocksAssumption`):

* `OnlyKnownCircles`: `LocksSpec => []KnownCircles`. `HolderInv` says which mutexes each
  goroutine has at each of its places. Every goroutine but the run loop that has
  one and waits for another, waits for one only the run loop keeps
  (`WaitsForLoop`); hence a circle is the run loop and the one goroutine it waits
  for (`CircleOfTwo`). Which pairs there can be depends on what is in the queue of
  the framer: `QueueInv` says that a stream is there for its data or for its end,
  once (`OnceQueued`), and not while its `Write` adds it, so that the run loop never
  waits for a `Write` which waits for the queue.
* `DeletesOnce`: `LocksSpec => []DeletedOnce`, from `DeleteInv`: a half completes once,
  and whoever completes the second keeps `completedMutex` until the stream is out
  of the map, which keeps `Read` and the run loop apart.
* `CirclesStay`: a circle, once it is there, is there for ever. In both races each
  goroutine has the mutex the other waits for and no step without it, and no third
  goroutine, nor the end of the session, moves either of them (`OneMoves`,
  `WaitsSame`). The exception `Wedged` of `AllIsSent` and `EndCompletes` is thus a
  session that never recovers, not one that is late.
* `LocksTypeCorrect`: the types, and from `CountInv` that a `Read` copies no frame that has
  not come, although it copies without the mutex, and that none comes behind the end.

Every invariant, action property and refinement that a passing run checks is a theorem.
Only model-checked is the liveness, which is out of the reach of the prover:
`HandedUnlessOvertaken`, `IdleFlowCollected`, `HandedIsDelivered`,
`SessionEndReturns`, `CloseEndsAll`, `SessionEndEndsAll`, `WaitingIsServed`,
`EndIsNoticed`, `LogoutEndsClient`, `InputEndEndsBoth`, `SenderIsServed`,
`EndArrives`, `AllIsSent`, `EndCompletes`.

## 6. What is not modelled, and why

* `flow.go`: a function of the bytes of an IP header, left to libraries. `FindFlow`
  is a choice of the flow in `Transmitter`, its error (which an IPv4 packet
  shorter than an IPv6 header gives) is `ListenTun_readFails`, which ends the
  tunnel.
* `port_forwarding_control.go`: a format written and read by the two programs; the
  models have it as one step that fails with the session. A wrong length is
  overwritten by the next error, but no program sends one.
* Keys, arguments, configuration files, the shell commands that set up the tun
  interface, `known_hosts`: formats and calls of libraries, without state.
* `quic_bench` and the Mininet experiments: measurements.
* Of quic-go: packets and their acknowledgement, loss recovery and congestion
  control, the handshake, timers, `CancelRead`, `CancelWrite` and RST_STREAM,
  deadlines. The programs do not call them; `QuicStream` has what they guarantee
  (a frame arrives some time, any number of times). A session at this commit does
  not change its addresses.
* quic-go 0.6, mint (twice) and the certificates: third-party code and data kept
  in the tree, by far most of its lines. The models cover the programs of the
  repository and the parts of quic-go they rest on, so that the share of the
  lines of the whole tree that they cover is small.

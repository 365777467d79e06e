------------------------------- MODULE Netcat -------------------------------
(***************************************************************************)
(* quic_netcat (main.go): after the exchange of ClientAuth each process    *)
(* runs two transmit goroutines over the one stream, and ends with the     *)
(* first of them (loop).  Standard input and output are external.          *)
(***************************************************************************)
EXTENDS ClientAuth

End == {"client", "server"}

CONSTANT MaxInput     \* bound of the model: bytes of standard input at each end
ASSUME NetcatAssumption == MaxInput \in [End -> Nat]

VARIABLES run,        \* the process: "exchange", "loop" or "gone"
          input, obuf,  \* transmit from os.Stdin: bytes read, and to be written
          ibuf, output, \* transmit to os.Stdout: the same the other way
          failed      \* what the goroutines wait to send on errorChannel

loopVars == <<run, input, obuf, ibuf, output, failed>>
netcatVars == <<vars, loopVars>>

Peer(e) == IF e = "client" THEN "server" ELSE "client"

\* What e has yet to read from the stream, and with k bytes of it read.
ToRead(e) == IF e = "client" THEN toClient ELSE toServer

ReadStream(e, k) ==
  LET rest == SubSeq(ToRead(e), k + 1, Len(ToRead(e)))
  IN IF e = "client" THEN toClient' = rest /\ UNCHANGED toServer
                     ELSE toServer' = rest /\ UNCHANGED toClient

WriteStream(e, x) ==
  IF e = "client" THEN toServer' = toServer \o x /\ UNCHANGED toClient
                  ELSE toClient' = toClient \o x /\ UNCHANGED toServer

NetcatInit ==
  /\ Init
  /\ run = [e \in End |-> "exchange"]
  /\ input = [e \in End |-> 0] /\ obuf = [e \in End |-> <<>>]
  /\ ibuf = [e \in End |-> <<>>] /\ output = [e \in End |-> <<>>]
  /\ failed = [e \in End |-> {}]
-----------------------------------------------------------------------------
\* runClient and runServer up to loop.  The server ignores the error of
\* AskClientPublicKey; without a key ComparePublicKeys ends the process.
Exchange ==
  \/ /\ run["client"] = "exchange" /\ ServeClientPublicKey
     /\ UNCHANGED loopVars
  \/ /\ run["server"] = "exchange" /\ AskClientPublicKey
     /\ UNCHANGED loopVars

runClient ==
  /\ run["client"] = "exchange" /\ cpc = "ready"
  /\ run' = [run EXCEPT !["client"] = "loop"]
  /\ UNCHANGED <<vars, input, obuf, ibuf, output, failed>>

\* Without an exchange it is AcceptStream that waits for the client to speak.
runServer ==
  /\ run["server"] = "exchange"
  /\ \/ /\ spc \in {"accepted", "badSignature"} \/ (spc = "ready" /\ toServer # <<>>)
        /\ run' = [run EXCEPT !["server"] = "loop"]
     \/ /\ spc \in {"noKey", "panic"} \/ (spc = "ready" /\ ~up)
        /\ run' = [run EXCEPT !["server"] = "gone"]
  /\ UNCHANGED <<vars, input, obuf, ibuf, output, failed>>

\* transmit(os.Stdin, stream)
Stdin_read(e) ==
  /\ run[e] = "loop" /\ obuf[e] = <<>> /\ "eof" \notin failed[e]
  /\ \/ /\ input[e] < MaxInput[e]
        /\ input' = [input EXCEPT ![e] = @ + 1]
        /\ obuf' = [obuf EXCEPT ![e] = << <<e, input[e] + 1>> >>]
        /\ UNCHANGED failed
     \/ /\ failed' = [failed EXCEPT ![e] = @ \cup {"eof"}]
        /\ UNCHANGED <<input, obuf>>
  /\ UNCHANGED <<vars, run, ibuf, output>>

\* Mutant: the buffer is written again.
Stream_write_again(e) ==
  /\ run[e] = "loop" /\ obuf[e] # <<>>
  /\ IF up THEN WriteStream(e, obuf[e]) ELSE UNCHANGED <<toServer, toClient>>
  /\ UNCHANGED obuf
  /\ UNCHANGED <<authVars, up, run, input, ibuf, output, failed>>

\* The error of Write is ignored: the goroutine goes on reading.
Stream_write(e) ==
  /\ run[e] = "loop" /\ obuf[e] # <<>>
  /\ IF up THEN WriteStream(e, obuf[e]) ELSE UNCHANGED <<toServer, toClient>>
  /\ obuf' = [obuf EXCEPT ![e] = <<>>]
  /\ UNCHANGED <<authVars, up, run, input, ibuf, output, failed>>

\* transmit(stream, os.Stdout)
Stream_read(e) ==
  /\ run[e] = "loop" /\ ibuf[e] = <<>> /\ up
  /\ \E k \in 1..Len(ToRead(e)) :
       /\ ibuf' = [ibuf EXCEPT ![e] = SubSeq(ToRead(e), 1, k)]
       /\ ReadStream(e, k)
  /\ UNCHANGED <<authVars, up, run, input, obuf, output, failed>>

Stdout_write(e) ==
  /\ run[e] = "loop" /\ ibuf[e] # <<>>
  /\ output' = [output EXCEPT ![e] = @ \o ibuf[e]]
  /\ ibuf' = [ibuf EXCEPT ![e] = <<>>]
  /\ UNCHANGED <<vars, run, input, obuf, failed>>

Stream_fails(e) ==
  /\ run[e] = "loop" /\ ibuf[e] = <<>> /\ ~up /\ "stream" \notin failed[e]
  /\ failed' = [failed EXCEPT ![e] = @ \cup {"stream"}]
  /\ UNCHANGED <<vars, run, input, obuf, ibuf, output>>

transmit(e) == \/ Stream_write(e) \/ Stream_read(e) \/ Stdout_write(e) \/ Stream_fails(e)

\* Mutant: the end of the session does not end the process.
loop_stays(e) ==
  /\ run[e] = "loop"
  /\ \E f \in failed[e] \ {"stream"} : up' = (up /\ f # "eof")
  /\ run' = [run EXCEPT ![e] = "gone"]
  /\ UNCHANGED <<authVars, toServer, toClient, input, obuf, ibuf, output, failed>>

\* loop: the first error; io.EOF closes the session, and the process ends.
loop(e) ==
  /\ run[e] = "loop"
  /\ \E f \in failed[e] : up' = (up /\ f # "eof")
  /\ run' = [run EXCEPT ![e] = "gone"]
  /\ UNCHANGED <<authVars, toServer, toClient, input, obuf, ibuf, output, failed>>

\* The session fails, or ends after a process.
Session_ends ==
  /\ up /\ up' = FALSE
  /\ UNCHANGED <<authVars, toServer, toClient, loopVars>>
Session_follows == (\E e \in End : run[e] = "gone") /\ Session_ends

NetcatNext ==
  \/ Exchange \/ runClient \/ runServer
  \/ \E e \in End : Stdin_read(e) \/ transmit(e) \/ loop(e)
  \/ Session_ends

NetcatSpec == NetcatInit /\ [][NetcatNext]_netcatVars

\* Every goroutine that can go on does; input comes when it comes.
NetcatFairSpec ==
  /\ NetcatSpec
  /\ WF_netcatVars(run["client"] = "exchange" /\ ServeClientPublicKey /\ UNCHANGED loopVars)
  /\ WF_netcatVars(run["server"] = "exchange" /\ AskClientPublicKey /\ UNCHANGED loopVars)
  /\ WF_netcatVars(runClient) /\ WF_netcatVars(runServer)
  /\ WF_netcatVars(Session_follows)
  /\ \A e \in End : /\ WF_netcatVars(Stream_write(e))
                    /\ WF_netcatVars(Stream_read(e) \/ Stdout_write(e) \/ Stream_fails(e))
                    /\ WF_netcatVars(loop(e))
-----------------------------------------------------------------------------
(* What holds of it.                                                       *)

Byte == ({"dummy", "ra"} \cup AnswerField \cup End) \X Nat

\* The type of the variables.
TypeOK ==
  /\ serves \in BOOLEAN /\ asks \in BOOLEAN /\ up \in BOOLEAN
  /\ cpc \in {"dummy", "nonce", "ready"} \cup AnswerField
  /\ spc \in {"dummy", "nonce", "verify", "ready", "accepted", "badSignature",
              "noKey", "panic"} \cup AnswerField
  /\ ra \in Seq(Byte) /\ size \in Nat
  /\ answer \in [AnswerField -> Seq(Byte)]
  /\ toServer \in Seq(Byte) /\ toClient \in Seq(Byte)
  /\ short \subseteq End
  /\ run \in [End -> {"exchange", "loop", "gone"}]
  /\ input \in [End -> Nat] /\ \A e \in End : input[e] <= MaxInput[e]
  /\ obuf \in [End -> Seq(Byte)] /\ ibuf \in [End -> Seq(Byte)]
  /\ output \in [End -> Seq(Byte)]
  /\ failed \in [End -> SUBSET {"eof", "stream"}]

\* A key is accepted only after an answer read field by field as it was written,
\* and then the next byte of the stream is the first after the answer.
AcceptedIsAligned ==
  spc = "accepted" =>
    /\ \A f \in AnswerField : answer[f] = Whole(f)
    /\ \A i \in DOMAIN toServer : toServer[i][1] = "client"

\* An honest client is refused, or stops the server by decodeInt, only if one
\* of the readN of either side came short, the session ended, or one end was
\* not told to exchange keys.
RefusedNeedsShort ==
  spc \in {"noKey", "badSignature", "panic"} => short # {} \/ ~up \/ serves # asks

\* The verdict of the server on an honest client.
VerdictIsRight == AcceptedIsAligned /\ RefusedNeedsShort

\* What comes out at one end is what went in at the other, from its first byte
\* on and without a gap, when the ends agree on the exchange and no readN came
\* short: otherwise bytes of the exchange come out, or input is taken for them.
OutputIsInput ==
  serves = asks /\ short = {} =>
    \A e \in End : output[e] \o ibuf[e] = Field(Peer(e), Len(output[e]) + Len(ibuf[e]))

\* The end of the input at either end ends both processes.
InputEndEndsBoth ==
  (\E e \in End : "eof" \in failed[e]) ~> (\A e \in End : run[e] = "gone")
=============================================================================

----------------------------- MODULE ClientAuth -----------------------------
(***************************************************************************)
(* The exchange of keys on the first stream of a session                   *)
(* (quic_utils/client_auth.go), between ServeClientPublicKey at the client *)
(* and AskClientPublicKey at the server.                                   *)
(*                                                                         *)
(* The client decides by its own configuration whether it serves its key,  *)
(* the server by its own whether it asks for it.  The server sends a       *)
(* nonce, ra; the client answers with rb, its key and a signature of ra    *)
(* and rb, key and signature preceded by their lengths.                    *)
(*                                                                         *)
(* readN makes one Read, which returns what has arrived, up to what was    *)
(* asked for.  A stream is the sequence of the bytes written and not read, *)
(* each byte a pair <<field, index>>; a field has few bytes here.          *)
(***************************************************************************)
EXTENDS Naturals, Sequences

CONSTANTS NonceSize, IntSize, KeySize, SignatureSize, \* bytes of the fields
          Agree    \* whether both ends are known to have the same setting

ASSUME ClientAuthAssumption ==
  /\ NonceSize \in Nat \ {0} /\ IntSize \in Nat \ {0}
  /\ KeySize \in Nat \ {0} /\ SignatureSize \in Nat \ {0}
  /\ Agree \in BOOLEAN

VARIABLES serves, asks,        \* the two settings
          cpc, ra,             \* ServeClientPublicKey, and the nonce it read
          spc, answer, size,   \* AskClientPublicKey, nonceAnswer, the last length
          toServer, toClient,  \* the first stream
          up,                  \* the session
          short                \* history: the ends where a readN came short

authVars == <<serves, asks, cpc, ra, spc, answer, size, short>>
vars == <<authVars, toServer, toClient, up>>

SizeOf == [rb |-> NonceSize, keySize |-> IntSize, key |-> KeySize,
           signatureSize |-> IntSize, signature |-> SignatureSize]
AnswerField == DOMAIN SizeOf
Order == <<"rb", "keySize", "key", "signatureSize", "signature">>

Field(f, n) == [i \in 1..n |-> <<f, i>>]
Dummy == Field("dummy", 1)
Nonce == Field("ra", NonceSize)
Whole(f) == Field(f, SizeOf[f])

\* The point after the field f, written or read.
After(f, last) == IF f = "signature" THEN last
                  ELSE Order[1 + CHOOSE i \in 1..5 : Order[i] = f]

Init == /\ serves \in BOOLEAN /\ asks \in BOOLEAN
        /\ Agree => serves = asks
        /\ cpc = (IF serves THEN "dummy" ELSE "ready") /\ ra = <<>>
        /\ spc = (IF asks THEN "dummy" ELSE "ready")
        /\ answer = [f \in AnswerField |-> <<>>] /\ size = 0
        /\ toServer = <<>> /\ toClient = <<>>
        /\ up = TRUE
        /\ short = {}
-----------------------------------------------------------------------------
(* ServeClientPublicKey *)

ServeClientPublicKey_dummy ==
  /\ cpc = "dummy"
  /\ cpc' = "nonce"
  /\ toServer' = IF up THEN toServer \o Dummy ELSE toServer
  /\ UNCHANGED <<serves, asks, ra, spc, answer, size, short, toClient, up>>

\* readN(nonceByteSize): k bytes have arrived.
ServeClientPublicKey_nonce ==
  /\ cpc = "nonce" /\ up
  /\ \E k \in 1..NonceSize :
       /\ k <= Len(toClient)
       /\ ra' = SubSeq(toClient, 1, k)
       /\ toClient' = SubSeq(toClient, k + 1, Len(toClient))
       /\ short' = IF k < NonceSize THEN short \cup {"client"} ELSE short
  /\ cpc' = "rb"
  /\ UNCHANGED <<serves, asks, spc, answer, size, toServer, up>>

\* nonceAnswer.write: one Write for each field.
ServeClientPublicKey_write ==
  /\ cpc \in AnswerField /\ up
  /\ toServer' = toServer \o Whole(cpc)
  /\ cpc' = After(cpc, "ready")
  /\ UNCHANGED <<serves, asks, ra, spc, answer, size, short, toClient, up>>

\* Every caller ignores the error.
ServeClientPublicKey_fails ==
  /\ cpc \in AnswerField \cup {"nonce"} /\ ~up
  /\ cpc' = "ready"
  /\ UNCHANGED <<serves, asks, ra, spc, answer, size, short, toServer, toClient, up>>

ServeClientPublicKey ==
  \/ ServeClientPublicKey_dummy \/ ServeClientPublicKey_nonce
  \/ ServeClientPublicKey_write \/ ServeClientPublicKey_fails
-----------------------------------------------------------------------------
(* AskClientPublicKey *)

\* The dummy read, whose error is ignored.
AskClientPublicKey_dummy ==
  /\ spc = "dummy"
  /\ \/ up /\ toServer # <<>> /\ toServer' = Tail(toServer)
     \/ ~up /\ UNCHANGED toServer
  /\ spc' = "nonce"
  /\ UNCHANGED <<serves, asks, cpc, ra, answer, size, short, toClient, up>>

AskClientPublicKey_nonce ==
  /\ spc = "nonce" /\ up
  /\ toClient' = toClient \o Nonce
  /\ spc' = "rb"
  /\ UNCHANGED <<serves, asks, cpc, ra, answer, size, short, toServer, up>>

\* What decodeInt makes of x: the bytes of another field are any number, of
\* which one may be more than the stream will ever hold.
Decoded(x) ==
  CASE x = Whole("keySize") -> {KeySize}
    [] x = Whole("signatureSize") -> {SignatureSize}
    [] OTHER -> {0, NonceSize + KeySize + SignatureSize + 2 * IntSize}

Wanted(f) == IF f \in {"key", "signature"} THEN size ELSE SizeOf[f]

\* nonceAnswer.read: one readN for a field; decodeInt panics on fewer bytes than
\* a length has.
AskClientPublicKey_read ==
  /\ spc \in AnswerField /\ up
  /\ \E k \in 0..Len(toServer) :
       LET x == SubSeq(toServer, 1, k) IN
       /\ k <= Wanted(spc)
       /\ k = 0 => Wanted(spc) = 0
       /\ answer' = [answer EXCEPT ![spc] = x]
       /\ toServer' = SubSeq(toServer, k + 1, Len(toServer))
       /\ short' = IF k < Wanted(spc) THEN short \cup {"server"} ELSE short
       /\ IF spc \in {"keySize", "signatureSize"}
          THEN IF k < IntSize THEN spc' = "panic" /\ UNCHANGED size
               ELSE size' \in Decoded(x) /\ spc' = After(spc, "verify")
          ELSE spc' = After(spc, "verify") /\ UNCHANGED size
  /\ UNCHANGED <<serves, asks, cpc, ra, toClient, up>>

\* A Write or Read fails: the result is (nil, err).
AskClientPublicKey_fails ==
  /\ spc \in AnswerField \cup {"nonce"} /\ ~up
  /\ spc' = "noKey"
  /\ UNCHANGED <<serves, asks, cpc, ra, answer, size, short, toServer, toClient, up>>

\* Mutant: the signature is not compared.
AskClientPublicKey_verify_anySignature ==
  /\ spc = "verify"
  /\ spc' = IF answer.key # Whole("key") THEN "noKey"
            ELSE IF /\ answer.rb = Whole("rb")
                    /\ ra = Nonce
                 THEN "accepted" ELSE "badSignature"
  /\ UNCHANGED <<serves, asks, cpc, ra, answer, size, short, toServer, toClient, up>>

\* DecodePublicKey and VerifyPKCS1v15: (nil, err), (key, err) or (key, nil).
AskClientPublicKey_verify ==
  /\ spc = "verify"
  /\ spc' = IF answer.key # Whole("key") THEN "noKey"
            ELSE IF /\ answer.rb = Whole("rb") /\ answer.signature = Whole("signature")
                    /\ ra = Nonce
                 THEN "accepted" ELSE "badSignature"
  /\ UNCHANGED <<serves, asks, cpc, ra, answer, size, short, toServer, toClient, up>>

AskClientPublicKey ==
  \/ AskClientPublicKey_dummy \/ AskClientPublicKey_nonce
  \/ AskClientPublicKey_read \/ AskClientPublicKey_fails
  \/ AskClientPublicKey_verify
=============================================================================

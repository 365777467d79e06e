------------------------------ MODULE IpPacket ------------------------------
(***************************************************************************)
(* MarkECN of sendPacket on the header of an IPv4 packet (ippacket.go):    *)
(* the congestion bits, and the checksum that has to follow them.          *)
(*                                                                         *)
(* A header is a sequence of words, numbers below WordSize (2^16).  The    *)
(* two lowest bits of the first word are the congestion bits; the last of  *)
(* the HeaderWords words that every header has (10) is the checksum here,  *)
(* whose place makes no difference to a sum.  Options are further words.   *)
(***************************************************************************)
EXTENDS Naturals, FiniteSetsExt

CONSTANTS WordSize, HeaderWords,
          MaxOptions   \* bound of the model: words of options

VARIABLES header, marked

Word == 0..(WordSize - 1)
AllOnes == WordSize - 1
Checksum == HeaderWords
WordSum(h, I) == MapThenSumSet(LAMBDA i : h[i], I)

\* One's complement addition of the words: carries come back at the other end.
Folded[sum \in Nat] ==
  IF sum <= AllOnes THEN sum ELSE Folded[sum \div WordSize + (sum % WordSize)]

\* What the receiver of the packet checks (RFC 791).
Valid(h) == Folded[WordSum(h, DOMAIN h)] = AllOnes

\* Packets come from the network with a checksum that is right.
HeaderInit ==
  /\ header \in UNION {[1..n -> Word] : n \in HeaderWords..(HeaderWords + MaxOptions)}
  /\ Valid(header)
  /\ marked = FALSE

\* Mutant: the carries are added once.
recomputeV4Checksum_once(h) ==
  LET sum == WordSum(h, (1..HeaderWords) \ {Checksum})
  IN AllOnes - ((sum \div WordSize + (sum % WordSize)) % WordSize)

\* The words the code lists: those that every header has, but the checksum.
recomputeV4Checksum(h) ==
  AllOnes - Folded[WordSum(h, (1..HeaderWords) \ {Checksum})]

\* packet[1] |= 0x3 and the checksum after it.
MarkECN ==
  LET set == [header EXCEPT ![1] = @ - (@ % 4) + 3] IN
  /\ header' = [set EXCEPT ![Checksum] = recomputeV4Checksum(set)]
  /\ marked' = TRUE

\* A header that has been marked is valid if it has no options, or options of
\* no weight in the sum, and only then; marking it again, in a second tunnel on
\* its way, changes nothing of that (recomputeV4Checksum).
MarkedIsValid ==
  marked => (Valid(header) <=>
               WordSum(header, DOMAIN header \ (1..HeaderWords)) % AllOnes = 0)
=============================================================================

------------------------------ MODULE Checksum ------------------------------
(***************************************************************************)
(* in_cksum, the checksum of Internet headers, as every program of the     *)
(* repository uses it: over a sequence of bytes that are read as 16-bit    *)
(* words, low byte first.  A byte has Byte values, 256 in the code.        *)
(***************************************************************************)
EXTENDS Naturals, Sequences, SequencesExt

CONSTANT Byte           \* how many values a byte has

ASSUME ByteAssumption == Byte \in Nat \ {0, 1}

ByteValue == 0 .. Byte - 1
Word == Byte * Byte

\* The words of a packet; an odd last byte counts as the low byte of a word.
WordAt(bytes, i) ==
  bytes[2*i - 1] + (IF 2*i <= Len(bytes) THEN Byte * bytes[2*i] ELSE 0)

\* Faulty variant: the odd byte is forgotten.
MutWords(bytes) == [i \in 1 .. Len(bytes) \div 2 |-> WordAt(bytes, i)]

Words(bytes) == [i \in 1 .. (Len(bytes) + 1) \div 2 |-> WordAt(bytes, i)]

Total(bytes) == FoldLeft(LAMBDA sum, w : sum + w, 0, Words(bytes))

\* Faulty variant: the carry of the carry is not added.
MutFold(sum) == ((sum \div Word) + (sum % Word)) % Word

\* The two lines that add the carries back, and the truncation to a word.
Fold(sum) ==
  LET once == (sum \div Word) + (sum % Word)
  IN  (once + once \div Word) % Word

InCksum(bytes) == (Word - 1) - Fold(Total(bytes))

\* What a receiver takes a packet for.
Accepted(bytes) == InCksum(bytes) = 0

\* The packet with its checksum field, two bytes from position pos, filled in.
Sealed(bytes, pos) ==
  LET zeroed == [bytes EXCEPT ![pos] = 0, ![pos + 1] = 0]
      sum    == InCksum(zeroed)
  IN  [zeroed EXCEPT ![pos] = sum % Byte, ![pos + 1] = sum \div Byte]

\* errorFlipBits: every bit of one byte.
FlipByte(bytes, i) == [bytes EXCEPT ![i] = (Byte - 1) - @]
=============================================================================

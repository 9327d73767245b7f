------------------------------- MODULE ChatPdu -------------------------------
(***************************************************************************)
(* What the chat programs put into a PDU and take out of it: the commands  *)
(* a user types (parseUserCmd), the packets built from them and from the   *)
(* server's answers, and the fields both ends find by their offsets.       *)
(*                                                                         *)
(* A word, a text and a packet are sequences of bytes; the four bytes of   *)
(* the count in a handle list are one here.  A line is what                *)
(* strtok finds in it: the letter of the command, the number that %C       *)
(* starts with, and the words that follow.  Words longer than a handle are *)
(* left out: parseUserCmd copies them without looking.                     *)
(***************************************************************************)
EXTENDS HandleTable

CONSTANTS MAX_MESSAGE_LENGTH,
          MAX_DEST_HANDLES,
          MAXBUF                \* of both programs, and MAX_PACKET_SIZE

ASSUME LengthAssumption ==
  /\ {MAX_HANDLE_LENGTH, MAX_MESSAGE_LENGTH, MAX_DEST_HANDLES} \subseteq Nat \ {0}
  /\ MAXBUF \in Nat /\ MAX_HANDLE_LENGTH + 2 <= MAXBUF

Space == 32

\* No command.
Invalid == [flag |-> 0]

\* What a builder leaves that returns -1.  Sending it faults: sendPDU takes the -1
\* for a length and memcpy runs off the packet.
NoPacket == << >>

-----------------------------------------------------------------------------
(***************************************************************************)
(* parseUserCmd                                                            *)
(***************************************************************************)

GetFlag(letter) ==
  CASE letter = "m" -> 5
    [] letter = "c" -> 6
    [] letter = "b" -> 4
    [] letter = "l" -> 10
    [] OTHER        -> 0

\* The rest of a line from word k on.
Rest(words, k) ==
  FlattenSeq([i \in 1 .. Len(words) - k + 1 |->
                IF i = 1 THEN words[k] ELSE <<Space>> \o words[i + k - 1]])

\* The number of words in front of the text.
DestCount(line) ==
  CASE GetFlag(line.letter) = 5 -> 1
    [] GetFlag(line.letter) = 6 -> line.number
    [] OTHER                    -> 0

ParseUserCmd(line) ==
  LET n    == DestCount(line)
      flag == GetFlag(line.letter)
      text == Rest(line.words, n + 1)
  IN  CASE flag = 0  -> Invalid
        [] flag = 10 -> [flag |-> 10]
        [] OTHER ->
             IF \/ flag = 6 /\ n \notin 2 .. MAX_DEST_HANDLES
                \/ Len(line.words) <= n
                \/ Len(text) > MAX_MESSAGE_LENGTH - 1
             THEN Invalid
             ELSE [flag |-> flag, dests |-> SubSeq(line.words, 1, n), text |-> text]

-----------------------------------------------------------------------------
(***************************************************************************)
(* Packets                                                                 *)
(***************************************************************************)

HandleField(handle) == <<Len(handle)>> \o handle

\* buildMsgPacket returns -1.  Its limits are one below those of parseUserCmd
\* and of regHandle, which lets an empty handle through, too.
Unbuildable(src, cmd) ==
  \/ src = << >> \/ Len(src) >= MAX_HANDLE_LENGTH
  \/ Len(cmd.text) + 1 >= MAX_MESSAGE_LENGTH
  \/ \E i \in DOMAIN cmd.dests : Len(cmd.dests[i]) >= MAX_HANDLE_LENGTH

BuildMsgPacket(src, cmd) ==
  <<cmd.flag>> \o HandleField(src)
  \o (IF cmd.flag = 4 THEN << >>
      ELSE <<Len(cmd.dests)>> \o
           FlattenSeq([i \in DOMAIN cmd.dests |-> HandleField(cmd.dests[i])]))
  \o cmd.text \o <<0>>

BuildErrPacket(handle) == <<7>> \o HandleField(handle)

\* The length that is returned is one short: the last character stays behind.
BuildHandleListReq(handle) ==
  IF handle = << >> THEN NoPacket ELSE Front(<<12>> \o HandleField(handle))

-----------------------------------------------------------------------------
(***************************************************************************)
(* Fields of a received packet; the buffer behind it is zero.              *)
(***************************************************************************)

At(buffer, i) == IF i < Len(buffer) THEN buffer[i + 1] ELSE 0

FlagOf(buffer) == At(buffer, 0)

\* The handle whose length is at i.
HandleAt(buffer, i) == SubSeq(buffer, i + 2, i + 1 + At(buffer, i))

SrcHandle(buffer) == HandleAt(buffer, 1)
FirstDest(buffer) == HandleAt(buffer, 3 + At(buffer, 1))

\* The destinations of a multicast, one after the other.
DestHandles(buffer) ==
  LET n == At(buffer, 2 + At(buffer, 1))
      idx[k \in 1 .. n] ==
        IF k = 1 THEN 3 + At(buffer, 1) ELSE idx[k - 1] + At(buffer, idx[k - 1]) + 1
  IN  [k \in 1 .. n |-> HandleAt(buffer, idx[k])]

\* Faulty variant: the byte with the number of destinations is not skipped.
MutGetMsgIdx(buffer, broadcast) ==
  LET srcEnd == 2 + At(buffer, 1)
      idx[k \in 0 .. At(buffer, srcEnd)] ==
        IF k = 0 THEN srcEnd ELSE idx[k - 1] + 1 + At(buffer, idx[k - 1])
  IN  IF broadcast THEN srcEnd ELSE idx[At(buffer, srcEnd)]

\* Where the text of a message starts: after the destinations.
GetMsgIdx(buffer, broadcast) ==
  LET srcEnd == 2 + At(buffer, 1)
      idx[k \in 0 .. At(buffer, srcEnd)] ==
        IF k = 0 THEN srcEnd + 1 ELSE idx[k - 1] + 1 + At(buffer, idx[k - 1])
  IN  IF broadcast THEN srcEnd ELSE idx[At(buffer, srcEnd)]

\* What a client prints of a message: the null is its last byte.
Printed(buffer) ==
  [src  |-> SrcHandle(buffer),
   text |-> SubSeq(buffer, GetMsgIdx(buffer, FlagOf(buffer) = 4) + 1, Len(buffer) - 1)]
=============================================================================

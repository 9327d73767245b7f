---------------------------- MODULE PacketBuffer ----------------------------
(***************************************************************************)
(* The receiver's out-of-order buffer, rcopy-program3/buffer.c, as         *)
(* operators on the value of its global `pb'.  Every operator is the whole *)
(* of one function.  pb = NULL is the record with live = FALSE.            *)
(* Allocation failure is not modelled.                                     *)
(***************************************************************************)
EXTENDS Ring

(***************************************************************************)
(* initPacketBuffer and freePacketBuffer.                                  *)
(***************************************************************************)

\* A slot that addPacket may fill: "marked as written".
WrittenSlot == [written |-> TRUE, packet |-> Blank]

NullBuffer == [live |-> FALSE, nextSeqNum |-> 0, storedPackets |-> 0,
               buffer |-> [i \in Slots |-> WrittenSlot]]

FreshBuffer == [live |-> TRUE, nextSeqNum |-> 1, storedPackets |-> 0,
                buffer |-> [i \in Slots |-> WrittenSlot]]

InitPacketBuffer(b) == IF b.live THEN b ELSE FreshBuffer

FreePacketBuffer(b) == NullBuffer

(***************************************************************************)
(* Queries.  bufferOpen compares an int with an unsigned winSize: a        *)
(* negative count is taken for a huge one.                                 *)
(***************************************************************************)
BufferOpen(b) == \/ ~b.live
                 \/ b.storedPackets \in 0 .. WinSize - 1

NeedFlush(b) == b.live /\ b.storedPackets > 0

GetNextSeqNum(b) == b.nextSeqNum

Waiting(b, seq) == ~b.buffer[Slot(seq)].written

(***************************************************************************)
(* addPacket.  An empty buffer is re-based on the packet that arrives; a   *)
(* cell that still waits to be written is left alone, and the call         *)
(* succeeds.                                                               *)
(***************************************************************************)
\* Faulty variant: the buffer is not re-based when it is empty.
MutBaseFixed(b, seq) == b.nextSeqNum

Base(b, seq) == IF b.storedPackets = 0 THEN seq ELSE b.nextSeqNum

AddPacketFails(b, seq) ==
  \/ ~b.live
  \/ seq < 1
  \/ seq \notin Base(b, seq) .. Base(b, seq) + WinSize - 1

\* The buffer with the packet stored at cell i.
Stored(b, pkt, seq, i) ==
  [live |-> TRUE, nextSeqNum |-> Base(b, seq),
   storedPackets |-> b.storedPackets + 1,
   buffer |-> [b.buffer EXCEPT ![i] = [written |-> FALSE, packet |-> pkt]]]

\* Faulty variant: the packet goes where the next one to write belongs.
MutAddAtHead(b, pkt, seq) ==
  IF AddPacketFails(b, seq) THEN b
  ELSE Stored(b, pkt, seq, Slot(b.nextSeqNum))

AddPacket(b, pkt, seq) ==
  IF AddPacketFails(b, seq) THEN b
  ELSE IF Waiting(b, seq) THEN [b EXCEPT !.nextSeqNum = Base(b, seq)]
  ELSE Stored(b, pkt, seq, Slot(seq))

(***************************************************************************)
(* flushBuffer writes from nextSeqNum up to the first cell that is not     *)
(* waiting, once round the ring at most.  n is how many of those writes    *)
(* succeed: all of them, or the (n+1)st fails and the function returns -1. *)
(* Only a completed flush resets storedPackets.                            *)
(***************************************************************************)
Run(b) ==
  CHOOSE n \in 0 .. WinSize :
    /\ \A k \in 0 .. n - 1 : Waiting(b, b.nextSeqNum + k)
    /\ n = WinSize \/ ~Waiting(b, b.nextSeqNum + n)

\* The packets the first n writes put in the output file.
Flushed(b, n) == [k \in 1 .. n |-> b.buffer[Slot(b.nextSeqNum + k - 1)].packet]

\* The ring after n writes.
Emptied(b, n) ==
  [i \in Slots |-> IF \E k \in 0 .. n - 1 : Slot(b.nextSeqNum + k) = i
                  THEN WrittenSlot ELSE b.buffer[i]]

\* Faulty variant: storedPackets is not decremented, nor reset.
MutFlushNoReset(b, n) ==
  [live |-> TRUE, nextSeqNum |-> b.nextSeqNum + n,
   storedPackets |-> b.storedPackets, buffer |-> Emptied(b, n)]

FlushBuffer(b, n) ==
  [live |-> TRUE, nextSeqNum |-> b.nextSeqNum + n,
   storedPackets |-> IF n = Run(b) THEN 0 ELSE b.storedPackets - n,
   buffer |-> Emptied(b, n)]
=============================================================================

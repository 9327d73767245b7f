-------------------------- MODULE PacketBufferAPI ---------------------------
(***************************************************************************)
(* The packet buffer under an arbitrary caller: any function of buffer.c   *)
(* that changes state, in any order, with any sequence number.  As on the  *)
(* wire, the packet added under a sequence number is the chunk of that     *)
(* number.                                                                 *)
(***************************************************************************)
EXTENDS PacketBuffer, Sequences, FiniteSets

CONSTANTS Args,         \* sequence numbers a caller may pass
          MaxFile       \* bound on the packets written, for TLC

ASSUME CallerAssumption ==
  /\ Args \subseteq Nat
  /\ MaxFile \in Nat

VARIABLES pb,           \* the global `pb'
          outFile,      \* packets written to outFileFd
          writeFailed   \* history: a write to it has failed

vars == <<pb, outFile, writeFailed>>

-----------------------------------------------------------------------------

Init ==
  /\ pb = NullBuffer
  /\ outFile = <<>>
  /\ writeFailed = FALSE

CallInitPacketBuffer ==
  /\ pb' = InitPacketBuffer(pb)
  /\ UNCHANGED <<outFile, writeFailed>>

CallFreePacketBuffer ==
  /\ pb' = FreePacketBuffer(pb)
  /\ UNCHANGED <<outFile, writeFailed>>

CallAddPacket(seq) ==
  /\ pb' = AddPacket(pb, seq, seq)
  /\ UNCHANGED <<outFile, writeFailed>>

\* n writes succeed before flushBuffer returns.
CallFlushBuffer ==
  /\ pb.live
  /\ \E n \in 0 .. Run(pb) :
       /\ Len(outFile) + n <= MaxFile
       /\ pb' = FlushBuffer(pb, n)
       /\ outFile' = outFile \o Flushed(pb, n)
       /\ writeFailed' = (writeFailed \/ n < Run(pb))

Next ==
  \/ CallInitPacketBuffer
  \/ CallFreePacketBuffer
  \/ \E seq \in Args : CallAddPacket(seq)
  \/ CallFlushBuffer

Spec == Init /\ [][Next]_vars

-----------------------------------------------------------------------------

WaitingSlots == {i \in Slots : ~pb.buffer[i].written}

\* Whatever the order of calls, a packet that waits in a cell belongs to that
\* cell, and a written cell is blank: nothing is ever stored off its ring
\* position or left behind by a flush that wrote it.
OwnCell ==
  \A i \in Slots :
    IF i \in WaitingSlots THEN Slot(pb.buffer[i].packet) = i
                               /\ pb.buffer[i].packet # Blank
    ELSE pb.buffer[i] = WrittenSlot

\* storedPackets never counts a packet that is not there.  (It may miss some:
\* a flush that stops at a gap forgets the packets behind it.)
CountIsLowerBound == pb.storedPackets <= Cardinality(WaitingSlots)

\* Until a write fails, whenever there is something to flush, the flush
\* starts with the packet it should: the cell nextSeqNum points at waits to be
\* written and holds packet nextSeqNum.
HeadIsNext ==
  NeedFlush(pb) /\ ~writeFailed =>
    /\ Waiting(pb, pb.nextSeqNum)
    /\ pb.buffer[Slot(pb.nextSeqNum)].packet = pb.nextSeqNum
=============================================================================

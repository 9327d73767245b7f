------------------------- MODULE PacketBufferProofs -------------------------
(***************************************************************************)
(* The packet buffer library keeps its promises for every window size and  *)
(* every caller, whatever writes fail.                                     *)
(***************************************************************************)
EXTENDS PacketBufferAPI, RingProofs

IInv == /\ pb \in BufferType /\ writeFailed \in BOOLEAN
        /\ OwnCell /\ CountIsLowerBound /\ HeadIsNext

-----------------------------------------------------------------------------
(***************************************************************************)
(* Every call keeps the invariant.                                         *)
(***************************************************************************)

\* A blank ring satisfies it, in use or not.
LEMMA BlankInv ==
  ASSUME pb' \in {NullBuffer, FreshBuffer}, writeFailed' \in BOOLEAN
  PROVE  IInv'
<1>1. pb'.buffer = [i \in Slots |-> WrittenSlot] /\ pb'.storedPackets = 0
  BY DEF NullBuffer, FreshBuffer
<1>2. pb' \in BufferType  BY BlankCells
<1>3. WaitingSlots' = {}  BY <1>1 DEF WaitingSlots, WrittenSlot
<1>4. OwnCell'  BY <1>1, <1>3 DEF OwnCell
<1>5. CountIsLowerBound'  BY <1>1, <1>3, FS_EmptySet DEF CountIsLowerBound
<1>6. HeadIsNext'  BY <1>1 DEF HeadIsNext, NeedFlush
<1> QED  BY <1>2, <1>4, <1>5, <1>6 DEF IInv

\* A packet is stored in a cell of its own that was not waiting.
LEMMA StoredInv ==
  ASSUME IInv, pb.live, NEW seq \in Nat, seq # 0, ~Waiting(pb, seq),
         pb' = Stored(pb, seq, seq, Slot(seq)), UNCHANGED writeFailed
  PROVE  IInv'
<1> DEFINE i == Slot(seq)
           W == WaitingSlots
<1>1. i \in Slots /\ i \notin W
  BY SlotType DEF WaitingSlots, Waiting
<1>2. pb \in BufferType  BY DEF IInv
<1>3. Base(pb, seq) \in Nat  BY <1>2, StoredTyped, <1>1
<1>4. /\ pb'.buffer = [pb.buffer EXCEPT ![i] = [written |-> FALSE, packet |-> seq]]
      /\ pb'.nextSeqNum = Base(pb, seq)
      /\ pb'.storedPackets = pb.storedPackets + 1
  BY DEF Stored
<1>5. pb' \in BufferType
  BY <1>1, <1>2, StoredTyped
<1>6. /\ pb'.buffer[i] = [written |-> FALSE, packet |-> seq]
      /\ \A j \in Slots \ {i} : pb'.buffer[j] = pb.buffer[j]
  BY <1>1, <1>2, <1>4 DEF BufferType
<1>7. WaitingSlots' = W \cup {i}
  BY <1>1, <1>6 DEF WaitingSlots
<1>8. OwnCell'
  <2> SUFFICES ASSUME NEW j \in Slots
               PROVE  IF j \in WaitingSlots'
                      THEN Slot(pb'.buffer[j].packet) = j /\ pb'.buffer[j].packet # Blank
                      ELSE pb'.buffer[j] = WrittenSlot
    BY DEF OwnCell
  <2>1. CASE j = i  BY <2>1, <1>6, <1>7 DEF Blank
  <2>2. CASE j # i  BY <2>2, <1>6, <1>7 DEF IInv, OwnCell
  <2> QED  BY <2>1, <2>2
<1>9. CountIsLowerBound'
  <2>1. IsFiniteSet(W)  BY SlotsFinite DEF WaitingSlots
  <2>2. Cardinality(WaitingSlots') = Cardinality(W) + 1
    BY <1>1, <1>7, <2>1, FS_AddElement
  <2>3. Cardinality(W) \in Nat  BY <2>1, FS_CardinalityType
  <2>4. pb.storedPackets <= Cardinality(W)  BY DEF IInv, CountIsLowerBound
  <2>5. pb.storedPackets \in Int  BY <1>2 DEF BufferType
  <2> QED  BY <1>4, <2>2, <2>3, <2>4, <2>5 DEF CountIsLowerBound
<1>10. HeadIsNext'
  <2> SUFFICES ASSUME pb'.storedPackets > 0, ~writeFailed
               PROVE  /\ Waiting(pb', pb'.nextSeqNum)
                      /\ pb'.buffer[Slot(pb'.nextSeqNum)].packet = pb'.nextSeqNum
    BY DEF HeadIsNext, NeedFlush
  <2>1. pb.storedPackets \in Int  BY <1>2 DEF BufferType
  <2>2. CASE pb.storedPackets = 0
    <3>1. pb'.nextSeqNum = seq  BY <1>4, <2>2 DEF Base
    <3> QED  BY <3>1, <1>6 DEF Waiting
  <2>3. CASE pb.storedPackets > 0
    <3> DEFINE h == pb.nextSeqNum
    <3>1. pb'.nextSeqNum = h /\ h \in Nat  BY <1>2, <1>4, <2>3 DEF Base, BufferType
    <3>2. Waiting(pb, h) /\ pb.buffer[Slot(h)].packet = h
      BY <2>3 DEF IInv, HeadIsNext, NeedFlush
    <3>3. Slot(h) \in Slots \ {i}  BY <3>1, <3>2, SlotType DEF Waiting
    <3>4. pb'.buffer[Slot(h)] = pb.buffer[Slot(h)]  BY <1>6, <3>3
    <3> QED  BY <3>1, <3>2, <3>4 DEF Waiting
  <2> QED
    BY <2>1, <2>2, <2>3, <1>4
<1> QED  BY <1>5, <1>8, <1>9, <1>10 DEF IInv

\* addPacket refuses, re-bases an empty buffer, or stores.
LEMMA AddPacketInv ==
  ASSUME IInv, NEW seq \in Nat, pb' = AddPacket(pb, seq, seq), UNCHANGED writeFailed
  PROVE  IInv'
<1>1. pb \in BufferType  BY DEF IInv
<1>2. CASE pb' = pb
  BY <1>2 DEF IInv, OwnCell, CountIsLowerBound, WaitingSlots, HeadIsNext, NeedFlush,
     Waiting
<1>3. CASE ~AddPacketFails(pb, seq) /\ Waiting(pb, seq)
  <2>1. pb' = [pb EXCEPT !.nextSeqNum = Base(pb, seq)]
    BY <1>3 DEF AddPacket
  <2>2. Base(pb, seq) \in Nat  BY <1>1 DEF Base, BufferType
  <2>3. /\ pb'.buffer = pb.buffer /\ pb'.storedPackets = pb.storedPackets
        /\ pb'.live = pb.live /\ pb'.nextSeqNum = Base(pb, seq)
    BY <1>1, <2>1 DEF BufferType
  <2>4. pb' \in BufferType  BY <1>1, <2>1, <2>2 DEF BufferType
  <2>5. OwnCell' /\ CountIsLowerBound'
    BY <2>3 DEF IInv, OwnCell, CountIsLowerBound, WaitingSlots
  <2>6. HeadIsNext'
    <3>1. CASE pb.storedPackets > 0
      <4>1. pb'.nextSeqNum = pb.nextSeqNum  BY <2>3, <3>1 DEF Base
      <4> QED  BY <4>1, <2>3 DEF IInv, HeadIsNext, NeedFlush, Waiting
    <3>2. CASE ~(pb.storedPackets > 0)  BY <3>2, <2>3 DEF HeadIsNext, NeedFlush
    <3> QED  BY <3>1, <3>2
  <2> QED  BY <2>4, <2>5, <2>6 DEF IInv
<1>4. CASE ~AddPacketFails(pb, seq) /\ ~Waiting(pb, seq)
  BY <1>4, StoredInv DEF AddPacket, AddPacketFails
<1> QED  BY <1>2, <1>3, <1>4 DEF AddPacket

\* A flush blanks as many waiting cells as writes succeed, and counts them off.
LEMMA FlushInv ==
  ASSUME IInv, CallFlushBuffer
  PROVE  IInv'
<1>1. pb \in BufferType  BY DEF IInv
<1>2. PICK n \in 0 .. Run(pb) : /\ pb' = FlushBuffer(pb, n)
                               /\ writeFailed' = (writeFailed \/ n < Run(pb))
  BY DEF CallFlushBuffer
<1>3. n \in 0 .. WinSize /\ Run(pb) \in Nat
  BY <1>1, RunWaits, WinSizeAssumption
<1> DEFINE low == pb.nextSeqNum
           F == {Slot(low + k) : k \in 0 .. n - 1}
           W == WaitingSlots
<1>4. low \in Nat  BY <1>1 DEF BufferType
<1>5. F \subseteq Slots /\ Cardinality(F) = n  BY <1>3, <1>4, CellsInARow
<1>6. F \subseteq W
  <2> SUFFICES ASSUME NEW k \in 0 .. n - 1 PROVE Slot(low + k) \in W
    OBVIOUS
  <2>1. k \in 0 .. Run(pb) - 1  BY <1>3
  <2>2. Waiting(pb, low + k)  BY <1>1, <2>1, RunWaits
  <2> QED  BY <1>5, <2>2 DEF Waiting, WaitingSlots
<1>7. /\ pb'.buffer = Emptied(pb, n) /\ pb'.nextSeqNum = low + n
      /\ pb'.storedPackets = IF n = Run(pb) THEN 0 ELSE pb.storedPackets - n
  BY <1>2 DEF FlushBuffer
<1>8. \A i \in Slots : pb'.buffer[i] = IF i \in F THEN WrittenSlot ELSE pb.buffer[i]
  BY <1>7 DEF Emptied
<1>9. pb' \in BufferType  BY <1>1, <1>2, FlushTyped
<1>10. writeFailed' \in BOOLEAN  BY <1>2
<1>11. WaitingSlots' = W \ F
  BY <1>8 DEF WaitingSlots, WrittenSlot
<1>12. OwnCell'
  BY <1>8, <1>11 DEF IInv, OwnCell
<1>13. CountIsLowerBound'
  <2>1. IsFiniteSet(W)  BY SlotsFinite DEF WaitingSlots
  <2>2. W \cap F = F  BY <1>6
  <2>3. Cardinality(WaitingSlots') = Cardinality(W) - n
    <3> HIDE DEF W, F
    <3>1. Cardinality(W \ F) = Cardinality(W) - Cardinality(W \cap F)
      BY <2>1, FS_Difference
    <3> QED  BY <1>5, <1>11, <2>2, <3>1
  <2>4. Cardinality(WaitingSlots') \in Nat
    BY <1>11, <2>1, FS_Difference, FS_CardinalityType
  <2>5. pb.storedPackets <= Cardinality(W) /\ pb.storedPackets \in Int
    BY <1>1 DEF IInv, CountIsLowerBound, BufferType
  <2>6. Cardinality(W) \in Nat  BY <2>1, FS_CardinalityType
  <2> QED  BY <1>3, <1>7, <2>3, <2>4, <2>5, <2>6 DEF CountIsLowerBound
<1>14. HeadIsNext'
  <2>1. CASE n = Run(pb)
    <3>1. pb'.storedPackets = 0  BY <1>7, <2>1
    <3> QED  BY <3>1 DEF HeadIsNext, NeedFlush
  <2>2. CASE n # Run(pb)
    <3>1. n < Run(pb)  BY <1>3, <2>2
    <3>2. writeFailed'  BY <1>2, <3>1
    <3> QED  BY <3>2 DEF HeadIsNext
  <2> QED  BY <2>1, <2>2
<1> QED  BY <1>9, <1>10, <1>12, <1>13, <1>14 DEF IInv

-----------------------------------------------------------------------------

\* The global is NULL at the start.
LEMMA InitInv == Init => IInv
<1> SUFFICES ASSUME Init PROVE IInv  OBVIOUS
<1>1. pb.buffer = [i \in Slots |-> WrittenSlot] /\ pb.storedPackets = 0
  BY DEF Init, NullBuffer
<1>4. pb \in BufferType  BY BlankCells DEF Init
<1>5. WaitingSlots = {}  BY <1>1 DEF WaitingSlots, WrittenSlot
<1>6. OwnCell  BY <1>1, <1>5 DEF OwnCell
<1>7. CountIsLowerBound  BY <1>1, <1>5, FS_EmptySet DEF CountIsLowerBound
<1>8. HeadIsNext  BY <1>1 DEF HeadIsNext, NeedFlush
<1> QED  BY <1>4, <1>6, <1>7, <1>8 DEF Init, IInv

\* No call of any function breaks the invariant.
LEMMA NextInv == IInv /\ [Next]_vars => IInv'
<1> SUFFICES ASSUME IInv, [Next]_vars PROVE IInv'  OBVIOUS
<1>1. CASE UNCHANGED <<pb, writeFailed>>
  BY <1>1 DEF IInv, OwnCell, CountIsLowerBound, WaitingSlots, HeadIsNext, NeedFlush,
     Waiting
<1>2. CASE CallInitPacketBuffer
  <2>1. CASE pb.live  BY <1>1, <1>2, <2>1 DEF CallInitPacketBuffer, InitPacketBuffer
  <2>2. CASE ~pb.live
    BY <1>2, <2>2, BlankInv DEF CallInitPacketBuffer, InitPacketBuffer, IInv
  <2> QED  BY <2>1, <2>2
<1>3. CASE CallFreePacketBuffer
  BY <1>3, BlankInv DEF CallFreePacketBuffer, FreePacketBuffer, IInv
<1>4. ASSUME NEW seq \in Args, CallAddPacket(seq) PROVE IInv'
  BY <1>4, AddPacketInv, CallerAssumption DEF CallAddPacket
<1>5. CASE CallFlushBuffer  BY <1>5, FlushInv
<1> QED  BY <1>1, <1>2, <1>3, <1>4, <1>5 DEF Next, vars

\* addPacket stores a packet in its own cell and flushBuffer leaves none behind,
\* whatever the order of calls and whichever writes fail.
THEOREM CellsOwned == Spec => []OwnCell
<1>1. IInv => OwnCell  BY DEF IInv
<1> QED  BY InitInv, NextInv, <1>1, PTL DEF Spec

\* storedPackets never counts a packet that is not in the ring.
THEOREM CountBounded == Spec => []CountIsLowerBound
<1>1. IInv => CountIsLowerBound  BY DEF IInv
<1> QED  BY InitInv, NextInv, <1>1, PTL DEF Spec

\* Until a write fails, what needFlush promises flushBuffer finds: the packet
\* nextSeqNum waits in its cell.
THEOREM FlushStartsAtNext == Spec => []HeadIsNext
<1>1. IInv => HeadIsNext  BY DEF IInv
<1> QED  BY InitInv, NextInv, <1>1, PTL DEF Spec
=============================================================================

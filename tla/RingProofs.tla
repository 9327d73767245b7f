----------------------------- MODULE RingProofs -----------------------------
(***************************************************************************)
(* The circular arrays, for every window size: what seqNum % winSize       *)
(* guarantees, and what the functions of buffer.c do with their array,     *)
(* whoever calls them.                                                     *)
(***************************************************************************)
EXTENDS PacketBuffer, FiniteSetTheorems, WellFoundedInduction, TLAPS

\* Every sequence number has a cell.
LEMMA SlotType == \A n \in Nat : Slot(n) \in Slots
  BY WinSizeAssumption, SMT DEF Slot, Slots

\* A number is its quotient times the window size, plus its cell.
LEMMA DivMod ==
  \A n \in Nat : /\ n = WinSize * (n \div WinSize) + (n % WinSize)
                 /\ n \div WinSize \in Nat
  BY WinSizeAssumption, SMT

\* The only multiple of w in 0 .. w - 1 is 0.
LEMMA NoMultiple ==
  ASSUME NEW w \in Nat \ {0}, NEW d \in Int, 0 <= w * d, w * d < w
  PROVE  d = 0
<1>1. CASE d >= 1
  <2>1. w * d >= w  BY <1>1, SMT
  <2> QED  BY <2>1, SMT
<1>2. CASE d <= -1
  <2>1. w * d <= -w  BY <1>2, SMT
  <2> QED  BY <2>1, SMT
<1> QED  BY <1>1, <1>2, SMT

\* Two numbers less than a window apart that share a cell are equal.
LEMMA SlotApart ==
  ASSUME NEW m \in Nat, NEW n \in Nat, m <= n, n - m < WinSize,
         Slot(m) = Slot(n)
  PROVE  m = n
<1> DEFINE d == (n \div WinSize) - (m \div WinSize)
<1>1. d \in Int  BY DivMod, SMT
<1>2. WinSize * d = n - m  BY DivMod, WinSizeAssumption, SMT DEF Slot
<1>3. d = 0  BY <1>1, <1>2, NoMultiple, WinSizeAssumption, SMT
<1> QED  BY <1>2, <1>3, WinSizeAssumption, SMT

\* Within any window of winSize numbers no two share a cell: a pane or a slot
\* belongs to one sequence number of the window.
LEMMA SlotInjective ==
  \A low, m, n \in Nat :
    /\ m \in low .. low + WinSize - 1
    /\ n \in low .. low + WinSize - 1
    /\ Slot(m) = Slot(n)
    => m = n
<1> SUFFICES ASSUME NEW low \in Nat, NEW m \in Nat, NEW n \in Nat,
                    m \in low .. low + WinSize - 1,
                    n \in low .. low + WinSize - 1,
                    Slot(m) = Slot(n)
             PROVE  m = n
  OBVIOUS
<1>1. CASE m <= n  BY <1>1, SlotApart, WinSizeAssumption, SMT
<1>2. CASE n <= m  BY <1>2, SlotApart, WinSizeAssumption, SMT
<1> QED  BY <1>1, <1>2, SMT

\* A number and the one a whole window later share a cell.
LEMMA SlotPeriod ==
  \A n \in Nat : Slot(n + WinSize) = Slot(n)
<1> SUFFICES ASSUME NEW n \in Nat  PROVE Slot(n + WinSize) = Slot(n)
  OBVIOUS
<1> DEFINE d == ((n + WinSize) \div WinSize) - (n \div WinSize) - 1
<1>1. n + WinSize \in Nat  BY WinSizeAssumption, SMT
<1>2. /\ Slot(n) \in Nat /\ Slot(n) < WinSize
      /\ Slot(n + WinSize) \in Nat /\ Slot(n + WinSize) < WinSize
  BY <1>1, SlotType, WinSizeAssumption, SMT DEF Slots
<1>3. d \in Int  BY <1>1, DivMod, SMT
<1>4. WinSize * d = Slot(n) - Slot(n + WinSize)
  BY <1>1, DivMod, WinSizeAssumption, SMT DEF Slot
<1>5. CASE Slot(n + WinSize) <= Slot(n)
  <2>1. d = 0  BY <1>2, <1>3, <1>4, <1>5, NoMultiple, WinSizeAssumption, SMT
  <2> QED  BY <1>2, <1>4, <2>1, WinSizeAssumption, SMT
<1>6. CASE Slot(n) <= Slot(n + WinSize)
  <2>1. WinSize * (-d) = Slot(n + WinSize) - Slot(n)
    BY <1>2, <1>3, <1>4, WinSizeAssumption, SMT
  <2>2. -d = 0  BY <1>2, <1>3, <1>6, <2>1, NoMultiple, WinSizeAssumption, SMT
  <2> QED  BY <1>2, <2>1, <2>2, WinSizeAssumption, SMT
<1> QED  BY <1>2, <1>5, <1>6, SMT

-----------------------------------------------------------------------------
(***************************************************************************)
(* The packet buffer                                                       *)
(***************************************************************************)

Cell == [written : BOOLEAN, packet : Nat]

BufferType == [live : BOOLEAN, nextSeqNum : Nat, storedPackets : Int,
               buffer : [Slots -> Cell]]

-----------------------------------------------------------------------------
(***************************************************************************)
(* How far a flush goes.                                                   *)
(***************************************************************************)

\* A set of naturals that is not empty has a least element: of the intervals
\* below its elements one is minimal.
LEMMA LeastElement ==
  ASSUME NEW S, S \subseteq Nat, S # {}
  PROVE  \E n \in S : \A m \in S : n <= m
<1> DEFINE Below(n) == 0 .. n - 1
           T == {Below(n) : n \in S}
<1>1. T \subseteq FiniteSubsetsOf(Nat)
  <2> SUFFICES ASSUME NEW n \in S PROVE Below(n) \in FiniteSubsetsOf(Nat)
    OBVIOUS
  <2>1. 0 \in Int /\ n - 1 \in Int  OBVIOUS
  <2>2. IsFiniteSet(Below(n))  BY <2>1, FS_Interval
  <2>3. Below(n) \in SUBSET Nat  BY <2>1, SMT
  <2> QED  BY <2>2, <2>3 DEF FiniteSubsetsOf
<1>2. T # {}  OBVIOUS
<1>3. PICK x \in T : \A y \in T : ~ (<<y, x>> \in StrictSubsetOrdering(Nat))
  <2> HIDE DEF T
  <2> QED  BY <1>1, <1>2, WFMin, FS_StrictSubsetOrderingWellFounded
<1>4. PICK n \in S : x = Below(n)  BY <1>3
<1>5. ASSUME NEW m \in S, m < n PROVE FALSE
  <2>1. Below(m) \subseteq Below(n) /\ Below(m) # Below(n)
    <3>1. n \in Nat /\ m \in Nat  OBVIOUS
    <3>2. m \in Below(n) /\ m \notin Below(m)  BY <3>1, <1>5
    <3> QED  BY <3>1, <3>2, <1>5
  <2>2. <<Below(m), Below(n)>> \in StrictSubsetOrdering(Nat)
    BY <2>1 DEF StrictSubsetOrdering
  <2> QED  BY <1>3, <1>4, <2>2
<1> QED  BY <1>5

\* What Run chooses exists, for every buffer: as many cells in a row wait.
LEMMA RunWaits ==
  ASSUME NEW b \in BufferType
  PROVE  /\ Run(b) \in 0 .. WinSize
         /\ \A k \in 0 .. Run(b) - 1 : Waiting(b, b.nextSeqNum + k)
<1> DEFINE Stops(n) == n = WinSize \/ ~Waiting(b, b.nextSeqNum + n)
           S == {n \in 0 .. WinSize : Stops(n)}
<1>1. S \subseteq Nat /\ WinSize \in S
  BY WinSizeAssumption
<1>2. PICK n \in S : \A m \in S : n <= m
  <2> HIDE DEF S
  <2> QED  BY <1>1, LeastElement
<1>3. \A k \in 0 .. n - 1 : Waiting(b, b.nextSeqNum + k)
  <2> SUFFICES ASSUME NEW k \in 0 .. n - 1, Stops(k) PROVE FALSE
    OBVIOUS
  <2>1. k \in S  BY WinSizeAssumption
  <2> QED  BY <1>2, <2>1
<1>4. \E r \in 0 .. WinSize :
        /\ \A k \in 0 .. r - 1 : Waiting(b, b.nextSeqNum + k)
        /\ r = WinSize \/ ~Waiting(b, b.nextSeqNum + r)
  BY <1>2, <1>3
<1> HIDE DEF S, Stops
<1> QED  BY <1>4 DEF Run

-----------------------------------------------------------------------------
(***************************************************************************)
(* The cells that wait.                                                    *)
(***************************************************************************)

\* The ring, and any part of it, is finite.
LEMMA SlotsFinite == \A W \in SUBSET Slots : IsFiniteSet(W)
<1>1. IsFiniteSet(Slots)  BY WinSizeAssumption, FS_Interval DEF Slots
<1> QED  BY <1>1, FS_Subset

\* n cells in a row, no more than there are, are n cells.
LEMMA CellsInARow ==
  ASSUME NEW low \in Nat, NEW n \in 0 .. WinSize
  PROVE  LET F == {Slot(low + k) : k \in 0 .. n - 1}
         IN  /\ F \subseteq Slots
             /\ Cardinality(F) = n
<1> DEFINE F == {Slot(low + k) : k \in 0 .. n - 1}
           f == [k \in 0 .. n - 1 |-> Slot(low + k)]
<1>1. F \subseteq Slots  BY SlotType, WinSizeAssumption
<1>2. IsFiniteSet(F)  BY <1>1, SlotsFinite
<1>3. f \in Surjection(0 .. n - 1, F)
  BY DEF Surjection
<1>4. ASSUME NEW j \in 0 .. n - 1, NEW k \in 0 .. n - 1, f[j] = f[k]
      PROVE  j = k
  <2>1. Slot(low + j) = Slot(low + k)  BY <1>4
  <2>2. /\ low + j \in low .. low + WinSize - 1
        /\ low + k \in low .. low + WinSize - 1
    BY WinSizeAssumption
  <2>3. low + j \in Nat /\ low + k \in Nat  OBVIOUS
  <2>4. low + j = low + k  BY <2>1, <2>2, <2>3, SlotInjective
  <2> QED  BY <2>4
<1>5. f \in Injection(0 .. n - 1, F)
  BY <1>3, <1>4 DEF Injection, Surjection, IsInjective
<1>6. IsFiniteSet(0 .. n - 1) /\ Cardinality(0 .. n - 1) = n
  BY FS_Interval, WinSizeAssumption
<1>7. Cardinality(F) = n
  BY <1>3, <1>5, <1>6, FS_Surjection
<1> QED  BY <1>1, <1>7

-----------------------------------------------------------------------------
(***************************************************************************)
(* What each function does to the shape of the buffer.                     *)
(***************************************************************************)

\* An array of blank cells is one.
LEMMA BlankCells ==
  /\ WrittenSlot \in Cell
  /\ NullBuffer \in BufferType
  /\ FreshBuffer \in BufferType
<1>1. WrittenSlot \in Cell  BY DEF WrittenSlot, Cell, Blank
<1>2. [i \in Slots |-> WrittenSlot] \in [Slots -> Cell]  BY <1>1
<1>3. NullBuffer \in BufferType  BY <1>2 DEF NullBuffer, BufferType
<1>4. FreshBuffer \in BufferType  BY <1>2 DEF FreshBuffer, BufferType
<1> QED  BY <1>1, <1>3, <1>4

\* Storing changes one cell, the count, and the base if the count was zero.
LEMMA StoredTyped ==
  ASSUME NEW b \in BufferType, NEW pkt \in Nat, NEW seq \in Nat, NEW i \in Slots
  PROVE  /\ Base(b, seq) \in Nat
         /\ Stored(b, pkt, seq, i) \in BufferType
<1>1. Base(b, seq) \in Nat  BY DEF Base, BufferType
<1>2. [b.buffer EXCEPT ![i] = [written |-> FALSE, packet |-> pkt]] \in [Slots -> Cell]
  BY DEF BufferType, Cell
<1>3. b.storedPackets + 1 \in Int  BY DEF BufferType
<1> QED  BY <1>1, <1>2, <1>3 DEF Stored, BufferType

\* addPacket keeps the shape, and leaves a count above zero only with the base it
\* had, or the packet's number where it was empty.
LEMMA AddPacketTyped ==
  ASSUME NEW b \in BufferType, NEW pkt \in Nat, NEW seq \in Nat
  PROVE  LET v == AddPacket(b, pkt, seq)
         IN  /\ v \in BufferType
             /\ NeedFlush(v) => \/ NeedFlush(b) /\ v.nextSeqNum = b.nextSeqNum
                                \/ v.nextSeqNum = seq
<1> DEFINE v == AddPacket(b, pkt, seq)
<1>1. CASE AddPacketFails(b, seq)
  <2>1. v = b  BY <1>1 DEF AddPacket
  <2> QED  BY <2>1
<1>2. CASE ~AddPacketFails(b, seq) /\ Waiting(b, seq)
  <2>1. v = [b EXCEPT !.nextSeqNum = Base(b, seq)]  BY <1>2 DEF AddPacket
  <2>2. Base(b, seq) \in Nat  BY DEF Base, BufferType
  <2>3. /\ v \in BufferType /\ v.live = b.live
        /\ v.storedPackets = b.storedPackets /\ v.nextSeqNum = Base(b, seq)
    <3> HIDE DEF v
    <3> QED  BY <2>1, <2>2 DEF BufferType
  <2> HIDE DEF v
  <2>4. NeedFlush(v) => NeedFlush(b) /\ v.nextSeqNum = b.nextSeqNum
    BY <2>3 DEF NeedFlush, Base
  <2> QED  BY <2>3, <2>4 DEF v
<1>3. CASE ~AddPacketFails(b, seq) /\ ~Waiting(b, seq)
  <2>1. v = Stored(b, pkt, seq, Slot(seq))  BY <1>3 DEF AddPacket
  <2>2. v \in BufferType  BY <2>1, SlotType, StoredTyped
  <2>3. /\ v.storedPackets = b.storedPackets + 1 /\ v.nextSeqNum = Base(b, seq)
        /\ b.live /\ b.storedPackets \in Int
    BY <1>3, <2>1 DEF Stored, AddPacketFails, BufferType
  <2> HIDE DEF v
  <2>4. NeedFlush(v) => \/ NeedFlush(b) /\ v.nextSeqNum = b.nextSeqNum
                        \/ v.nextSeqNum = seq
    BY <2>3 DEF NeedFlush, Base
  <2> QED  BY <2>2, <2>4 DEF v
<1> QED  BY <1>1, <1>2, <1>3

\* flushBuffer keeps the shape, however many writes succeed.
LEMMA FlushTyped ==
  ASSUME NEW b \in BufferType, NEW n \in 0 .. Run(b)
  PROVE  /\ n \in 0 .. WinSize
         /\ FlushBuffer(b, n) \in BufferType
         /\ FlushBuffer(b, n).nextSeqNum = b.nextSeqNum + n
<1>1. n \in 0 .. WinSize  BY RunWaits, WinSizeAssumption
<1>2. Emptied(b, n) \in [Slots -> Cell]  BY BlankCells DEF Emptied, BufferType
<1>3. b.nextSeqNum + n \in Nat /\ b.storedPackets - n \in Int /\ 0 \in Int
  BY <1>1, WinSizeAssumption DEF BufferType
<1> QED  BY <1>1, <1>2, <1>3 DEF FlushBuffer, BufferType
=============================================================================

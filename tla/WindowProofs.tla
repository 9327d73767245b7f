---------------------------- MODULE WindowProofs ----------------------------
(***************************************************************************)
(* The window library is correct for every window size, every set of       *)
(* packets and every caller.                                               *)
(***************************************************************************)
EXTENDS WindowAPI, RingProofs

(***************************************************************************)
(* What each function does to a good window.                               *)
(***************************************************************************)

GoodWindow(w, P) == w \in WindowType(P) /\ WindowOK(w)

\* A record with well-typed fields is a window.
LEMMA WindowTypeIntro ==
  ASSUME NEW P, NEW live \in BOOLEAN, NEW lower \in Nat, NEW curr \in Nat,
         NEW panes \in [Slots -> Pane(P)]
  PROVE  [live |-> live, lower |-> lower, curr |-> curr, paneBuff |-> panes]
           \in WindowType(P)
  BY SMT DEF WindowType

\* Overwriting one pane yields an array of panes.
LEMMA PaneUpdateType ==
  ASSUME NEW P, NEW panes \in [Slots -> Pane(P)], NEW i, NEW pane \in Pane(P)
  PROVE  [panes EXCEPT ![i] = pane] \in [Slots -> Pane(P)]
<1> DEFINE T == Pane(P)
<1> HIDE DEF T
<1>1. \A f \in [Slots -> T], j, x \in T : [f EXCEPT ![j] = x] \in [Slots -> T]
  OBVIOUS
<1> QED  BY <1>1 DEF T

\* A window that has not been allocated is good.
LEMMA NullWindowGood == ASSUME NEW P PROVE GoodWindow(NullWindow, P)
  BY SMT DEF GoodWindow, WindowType, NullWindow, WindowOK, Pane, FreePane

\* initWindow yields a good window: nothing outstanding, every pane free.
LEMMA InitWindowGood ==
  ASSUME NEW P, NEW w, GoodWindow(w, P)
  PROVE  GoodWindow(InitWindow(w), P)
<1>1. CASE w.live
  BY <1>1 DEF InitWindow
<1>2. CASE ~w.live
  <2>1. InitWindow(w) = FreshWindow  BY <1>2 DEF InitWindow
  <2>2. FreshWindow \in WindowType(P)
    BY SMT DEF FreshWindow, WindowType, Pane
  <2>3. SpanBounded(FreshWindow)
    BY WinSizeAssumption, SMT DEF FreshWindow, SpanBounded
  <2>4. PaneIdentity(FreshWindow)
    BY SMT DEF FreshWindow, PaneIdentity, Outstanding
  <2>5. OthersFree(FreshWindow)
    BY SMT DEF FreshWindow, OthersFree
  <2> QED  BY <2>1, <2>2, <2>3, <2>4, <2>5 DEF GoodWindow, WindowOK
<1> QED  BY <1>1, <1>2

\* addPane keeps a window good.
LEMMA AddPaneGood ==
  ASSUME NEW P, NEW w, GoodWindow(w, P), NEW pkt \in P, NEW seq \in Nat
  PROVE  GoodWindow(AddPane(w, pkt, seq), P)
<1>1. CASE ~CanAddPane(w, seq)
  BY <1>1, SMT DEF AddPane
<1>2. CASE CanAddPane(w, seq)
  <2> DEFINE v == AddPane(w, pkt, seq)
             pane == [packet |-> pkt, seqNum |-> seq, ack |-> FALSE]
  <2>1. /\ w.live /\ seq = w.curr /\ w.curr - w.lower < WinSize
        /\ SpanBounded(w) /\ PaneIdentity(w) /\ OthersFree(w)
    BY <1>2, SMT DEF CanAddPane, WindowOpen, GoodWindow, WindowOK
  <2>2. /\ v.live = w.live /\ v.lower = w.lower /\ v.curr = w.curr + 1
        /\ v.paneBuff = [w.paneBuff EXCEPT ![Slot(seq)] = pane]
    BY <1>2, <2>1, SMT DEF AddPane
  <2>3. w.lower \in Nat /\ w.curr \in Nat /\ w.lower >= 1 /\ w.lower <= w.curr
        /\ w.paneBuff \in [Slots -> Pane(P)]
    BY <2>1, SMT DEF GoodWindow, WindowType, SpanBounded
  <2>7. v \in WindowType(P)
    <3>1. pane \in Pane(P)  BY SMT DEF Pane
    <3>2. [w.paneBuff EXCEPT ![Slot(seq)] = pane] \in [Slots -> Pane(P)]
      BY <3>1, <2>3, PaneUpdateType
    <3>3. w.curr + 1 \in Nat  BY <2>3, SMT
    <3>4. v = [live |-> TRUE, lower |-> w.lower, curr |-> w.curr + 1,
               paneBuff |-> [w.paneBuff EXCEPT ![Slot(seq)] = pane]]
      BY <1>2 DEF AddPane
    <3>5. TRUE \in BOOLEAN /\ w.lower \in Nat  BY <2>3
    <3> HIDE DEF v, pane
    <3> QED  BY <3>2, <3>3, <3>4, <3>5, WindowTypeIntro, Zenon
  <2>4. SpanBounded(v)
    BY <2>1, <2>2, <2>3, WinSizeAssumption, SMT DEF SpanBounded
  <2>5. PaneIdentity(v)
    <3> SUFFICES ASSUME NEW s \in w.lower .. w.curr
                 PROVE  v.paneBuff[Slot(s)].seqNum = s
      BY <2>2, <2>3, SMT DEF PaneIdentity, Outstanding
    <3>0. Slot(s) \in Slots /\ Slot(seq) \in Slots /\ s \in Nat
      BY <2>3, SlotType, SMT
    <3>1. CASE s = seq
      BY <3>0, <3>1, <2>2, <2>3, SMT
    <3>2. CASE s # seq
      <4>1. Slot(s) # Slot(seq)
        BY <3>0, <3>2, <2>1, <2>3, SlotInjective, WinSizeAssumption, SMT
      <4>2. v.paneBuff[Slot(s)] = w.paneBuff[Slot(s)]
        BY <4>1, <3>0, <2>2, <2>3, SMT
      <4>3. s \in Outstanding(w)
        BY <3>2, <2>1, <2>3, SMT DEF Outstanding
      <4> QED  BY <4>2, <4>3, <2>1, SMT DEF PaneIdentity
    <3> QED  BY <3>1, <3>2
  <2>6. OthersFree(v)
    <3> SUFFICES ASSUME NEW i \in Slots,
                        \A s \in w.lower .. w.curr : Slot(s) # i
                 PROVE  v.paneBuff[i] = FreePane
      BY <2>2, <2>3, SMT DEF OthersFree, Outstanding
    <3>1. Slot(seq) # i  BY <2>1, <2>3, SMT
    <3>2. \A s \in Outstanding(w) : Slot(s) # i
      BY <2>3, SMT DEF Outstanding
    <3> QED  BY <3>1, <3>2, <2>1, <2>2, <2>3, SMT DEF OthersFree
  <2> QED  BY <2>4, <2>5, <2>6, <2>7 DEF GoodWindow, WindowOK
<1> QED  BY <1>1, <1>2

\* In a good window an outstanding number's pane holds a packet under that
\* number.
LEMMA OwnedPane ==
  ASSUME NEW P, NEW w, GoodWindow(w, P), w.live, NEW n \in Outstanding(w)
  PROVE  /\ n \in Nat \ {0}
         /\ Slot(n) \in Slots
         /\ InWindow(w, n)
         /\ w.paneBuff[Slot(n)] \in [packet : P, seqNum : Nat, ack : BOOLEAN]
         /\ w.paneBuff[Slot(n)].seqNum = n
<1>1. /\ w.lower \in Nat /\ w.curr \in Nat /\ w.lower >= 1
      /\ w.paneBuff \in [Slots -> Pane(P)]
      /\ PaneIdentity(w) /\ w.curr - w.lower <= WinSize
  BY SMT DEF GoodWindow, WindowOK, WindowType, SpanBounded
<1>2. n \in Nat \ {0} /\ InWindow(w, n)
  BY <1>1, WinSizeAssumption, SMT DEF Outstanding, InWindow
<1>3. Slot(n) \in Slots  BY <1>2, SlotType, SMT
<1>4. w.paneBuff[Slot(n)].seqNum = n  BY <1>1 DEF PaneIdentity
<1>5. w.paneBuff[Slot(n)] \in Pane(P)  BY <1>1, <1>3
<1>6. w.paneBuff[Slot(n)] # FreePane
  BY <1>2, <1>4, SMT DEF FreePane
<1> QED  BY <1>2, <1>3, <1>4, <1>5, <1>6 DEF Pane

\* The pane of a number the window may hold but does not is free.
LEMMA UnownedPane ==
  ASSUME NEW P, NEW w, GoodWindow(w, P), w.live,
         NEW n \in Nat, InWindow(w, n), n \notin Outstanding(w)
  PROVE  w.paneBuff[Slot(n)] = FreePane
<1>1. w.lower \in Nat /\ OthersFree(w)
  BY SMT DEF GoodWindow, WindowOK, WindowType
<1>2. Slot(n) \in Slots  BY SlotType
<1>3. ASSUME NEW seq \in Outstanding(w)  PROVE Slot(seq) # Slot(n)
  BY <1>1, OwnedPane, SlotInjective, SMT DEF InWindow
<1> QED  BY <1>1, <1>2, <1>3 DEF OthersFree

\* Marking changes the mark and nothing else of a pane.
LEMMA MarkedPane ==
  ASSUME NEW P, NEW pane \in [packet : P, seqNum : Nat, ack : BOOLEAN]
  PROVE  /\ [pane EXCEPT !.ack = TRUE]
              \in [packet : P, seqNum : Nat, ack : BOOLEAN]
         /\ [pane EXCEPT !.ack = TRUE].packet = pane.packet
         /\ [pane EXCEPT !.ack = TRUE].seqNum = pane.seqNum
         /\ [pane EXCEPT !.ack = TRUE].ack
  OBVIOUS

\* markPaneAck keeps a window good.
LEMMA MarkPaneAckGood ==
  ASSUME NEW P, NEW w, GoodWindow(w, P), NEW seq \in Nat
  PROVE  GoodWindow(MarkPaneAck(w, seq), P)
<1> DEFINE marks == /\ w.live
                    /\ InWindow(w, seq)
                    /\ w.paneBuff[Slot(seq)].seqNum = seq
<1>1. CASE ~marks
  BY <1>1 DEF MarkPaneAck
<1>2. CASE marks
  <2> DEFINE pane == [w.paneBuff[Slot(seq)] EXCEPT !.ack = TRUE]
             panes == [w.paneBuff EXCEPT ![Slot(seq)] = pane]
             v == MarkPaneAck(w, seq)
  <2>1. /\ w.lower \in Nat /\ w.curr \in Nat /\ w.lower >= 1 /\ w.live
        /\ w.paneBuff \in [Slots -> Pane(P)]
        /\ SpanBounded(w) /\ PaneIdentity(w) /\ OthersFree(w)
    BY <1>2, SMT DEF GoodWindow, WindowOK, WindowType, SpanBounded
  <2>2. seq \in Outstanding(w)
    BY <1>2, <2>1, UnownedPane, SMT DEF FreePane, InWindow
  <2>3. /\ Slot(seq) \in Slots
        /\ w.paneBuff[Slot(seq)] \in [packet : P, seqNum : Nat, ack : BOOLEAN]
    BY <1>2, <2>2, OwnedPane
  <2>4. pane \in Pane(P) /\ pane.seqNum = seq
    BY <1>2, <2>3, MarkedPane DEF Pane
  <2>5. panes \in [Slots -> Pane(P)]
    BY <2>1, <2>4, PaneUpdateType
  <2>6. w \in WindowType(P)  BY DEF GoodWindow
  <2>7. v = [w EXCEPT !.paneBuff = panes]
    BY <1>2 DEF MarkPaneAck
  <2>8. /\ v \in WindowType(P)
        /\ v.live = w.live /\ v.lower = w.lower /\ v.curr = w.curr
        /\ v.paneBuff = panes
    <3> HIDE DEF v, panes
    <3> QED  BY <2>5, <2>6, <2>7 DEF WindowType
  <2>9. PaneIdentity(v)
    <3> SUFFICES ASSUME NEW s \in Outstanding(w)
                 PROVE  panes[Slot(s)].seqNum = s
      BY <2>8 DEF PaneIdentity, Outstanding
    <3>1. Slot(s) \in Slots /\ w.paneBuff[Slot(s)].seqNum = s
      BY <2>1, OwnedPane
    <3> HIDE DEF pane
    <3>2. CASE Slot(s) = Slot(seq)
      <4>1. s = seq
        BY <3>1, <3>2, <1>2
      <4> QED  BY <4>1, <2>1, <2>3, <2>4
    <3>3. CASE Slot(s) # Slot(seq)
      BY <3>1, <3>3, <2>1
    <3> QED  BY <3>2, <3>3
  <2>10. OthersFree(v)
    <3> SUFFICES ASSUME NEW i \in Slots,
                        \A s \in Outstanding(w) : Slot(s) # i
                 PROVE  panes[i] = FreePane
      BY <2>8 DEF OthersFree, Outstanding
    <3>1. Slot(seq) # i  BY <2>2
    <3> QED  BY <3>1, <2>1 DEF OthersFree
  <2>11. SpanBounded(v)
    BY <2>1, <2>8 DEF SpanBounded
  <2> QED  BY <2>8, <2>9, <2>10, <2>11 DEF GoodWindow, WindowOK
<1> QED  BY <1>1, <1>2

\* slideWindow keeps a window good: it frees exactly the panes it slides past.
LEMMA SlideWindowGood ==
  ASSUME NEW P, NEW w, GoodWindow(w, P), NEW newLow \in Nat
  PROVE  GoodWindow(SlideWindow(w, newLow), P)
<1>1. CASE ~CanSlide(w, newLow)
  BY <1>1 DEF SlideWindow
<1>2. CASE CanSlide(w, newLow)
  <2> DEFINE gone == w.lower .. newLow - 1
             v == SlideWindow(w, newLow)
  <2>1. /\ w.lower \in Nat /\ w.curr \in Nat /\ w.lower >= 1 /\ w.live
        /\ w.paneBuff \in [Slots -> Pane(P)]
        /\ w.curr - w.lower <= WinSize
        /\ OthersFree(w)
    BY <1>2, SMT DEF CanSlide, GoodWindow, WindowOK, WindowType, SpanBounded
  <2>2. newLow >= w.lower /\ newLow <= w.curr
    BY <1>2, <2>1, SMT DEF CanSlide
  <2>3. v = [live |-> TRUE, lower |-> newLow, curr |-> w.curr,
             paneBuff |-> Cleared(w, gone)]
    BY <1>2 DEF SlideWindow
  <2>4. /\ v.lower = newLow /\ v.curr = w.curr
        /\ v.paneBuff = Cleared(w, gone)
    BY <2>3
  <2>5. Outstanding(w) = gone \cup (newLow .. w.curr - 1)
    BY <2>1, <2>2, SMT DEF Outstanding
  <2>6. Outstanding(v) = newLow .. w.curr - 1
    BY <2>4 DEF Outstanding
  <2>7. Cleared(w, gone) \in [Slots -> Pane(P)]
    <3>1. FreePane \in Pane(P)  BY DEF Pane
    <3> QED  BY <3>1, <2>1, SMT DEF Cleared
  <2>8. v \in WindowType(P)
    <3> HIDE DEF v
    <3> QED  BY <2>1, <2>3, <2>7, WindowTypeIntro, Zenon
  <2>9. SpanBounded(v)
    <3>1. newLow \in 1 .. w.curr /\ w.curr - newLow <= WinSize
      BY <2>1, <2>2, WinSizeAssumption, SMT
    <3> QED  BY <3>1, <2>4 DEF SpanBounded
  <2>10. PaneIdentity(v)
    <3> SUFFICES ASSUME NEW s \in newLow .. w.curr - 1
                 PROVE  Cleared(w, gone)[Slot(s)].seqNum = s
      BY <2>4, <2>6 DEF PaneIdentity
    <3>1. /\ Slot(s) \in Slots /\ w.paneBuff[Slot(s)].seqNum = s
          /\ s \in Nat /\ InWindow(w, s)
      BY <2>1, <2>5, OwnedPane
    <3>2. ASSUME NEW seq \in gone  PROVE Slot(seq) # Slot(s)
      <4>1. seq \in Nat /\ InWindow(w, seq) /\ seq # s
        BY <2>1, <2>2, <2>5, OwnedPane, SMT
      <4> QED  BY <4>1, <3>1, <2>1, SlotInjective DEF InWindow
    <3>3. Cleared(w, gone)[Slot(s)] = w.paneBuff[Slot(s)]
      BY <3>1, <3>2 DEF Cleared
    <3> QED  BY <3>1, <3>3
  <2>11. OthersFree(v)
    <3> SUFFICES ASSUME NEW i \in Slots,
                        \A s \in newLow .. w.curr - 1 : Slot(s) # i
                 PROVE  Cleared(w, gone)[i] = FreePane
      BY <2>4, <2>6, Zenon DEF OthersFree
    <3>1. CASE \E seq \in gone : Slot(seq) = i
      BY <3>1 DEF Cleared
    <3>2. CASE ~ \E seq \in gone : Slot(seq) = i
      <4>1. \A s \in Outstanding(w) : Slot(s) # i
        BY <2>5, <3>2
      <4> QED  BY <3>2, <4>1, <2>1 DEF Cleared, OthersFree
    <3> QED  BY <3>1, <3>2
  <2> QED  BY <2>8, <2>9, <2>10, <2>11 DEF GoodWindow, WindowOK
<1> QED  BY <1>1, <1>2

\* A window that is not allocated holds nothing to be wrong.
LEMMA FreeWindowGood ==
  ASSUME NEW P, NEW w  PROVE GoodWindow(FreeWindow(w), P)
  BY NullWindowGood DEF FreeWindow

\* resendPane sends nothing but a packet that was added.
LEMMA ResendPaneType ==
  ASSUME NEW P, NEW w, GoodWindow(w, P), NEW seq \in Nat
  PROVE  ResendPane(w, seq) \subseteq P
<1>1. CASE ~CanResend(w, seq)
  BY <1>1 DEF ResendPane
<1>2. CASE CanResend(w, seq)
  <2>1. /\ w.paneBuff \in [Slots -> Pane(P)]
        /\ Slot(seq) \in Slots
        /\ ~w.paneBuff[Slot(seq)].ack
    BY <1>2, SlotType DEF CanResend, GoodWindow, WindowType
  <2>2. w.paneBuff[Slot(seq)] # FreePane
    BY <2>1 DEF FreePane
  <2>3. w.paneBuff[Slot(seq)].packet \in P
    BY <2>1, <2>2 DEF Pane
  <2> QED  BY <1>2, <2>3 DEF ResendPane
<1> QED  BY <1>1, <1>2

\* In a good window the span test of windowOpen decides alone: the pane the
\* next packet lands on is free whenever there is room for one.
LEMMA OpenBySpan ==
  ASSUME NEW P, NEW w, GoodWindow(w, P), w.live
  PROVE  WindowOpen(w) <=> w.curr - w.lower < WinSize
<1>1. CASE w.curr - w.lower < WinSize
  <2>1. w.curr \in Nat /\ InWindow(w, w.curr) /\ w.curr \notin Outstanding(w)
    BY <1>1, WinSizeAssumption, SMT
    DEF GoodWindow, WindowOK, WindowType, SpanBounded, InWindow, Outstanding
  <2>2. w.paneBuff[Slot(w.curr)] = FreePane
    BY <2>1, UnownedPane
  <2> QED  BY <1>1, <2>2 DEF WindowOpen, FreePane
<1>2. CASE ~(w.curr - w.lower < WinSize)
  BY <1>2 DEF WindowOpen
<1> QED  BY <1>1, <1>2

(***************************************************************************)
(* The library under an arbitrary caller.                                  *)
(***************************************************************************)

IInv == /\ GoodWindow(win, Pkts)
        /\ resent \in [asked : Nat, sent : SUBSET Pkts]

\* No sequence of calls of window.c, with any arguments, makes the window bad.
THEOREM WindowInductive == Spec => []IInv
<1>1. Init => IInv
  BY NullWindowGood DEF Init, IInv
<1>2. IInv /\ [Next]_vars => IInv'
  <2> SUFFICES ASSUME IInv, [Next]_vars  PROVE IInv'
    OBVIOUS
  <2> USE CallerAssumption DEF IInv
  <2>1. CASE CallInitWindow
    BY <2>1, InitWindowGood DEF CallInitWindow
  <2>2. CASE CallFreeWindow
    BY <2>2, FreeWindowGood DEF CallFreeWindow
  <2>3. ASSUME NEW pkt \in Pkts, NEW seq \in Args, CallAddPane(pkt, seq)
        PROVE  IInv'
    BY <2>3, AddPaneGood DEF CallAddPane
  <2>4. ASSUME NEW seq \in Args, CallMarkPaneAck(seq)  PROVE IInv'
    BY <2>4, MarkPaneAckGood DEF CallMarkPaneAck
  <2>5. ASSUME NEW seq \in Args, CallSlideWindow(seq)  PROVE IInv'
    BY <2>5, SlideWindowGood DEF CallSlideWindow
  <2>6. ASSUME NEW seq \in Args, CallResendPane(seq)  PROVE IInv'
    BY <2>6, ResendPaneType DEF CallResendPane
  <2>7. CASE UNCHANGED vars
    BY <2>7 DEF vars
  <2> QED  BY <2>1, <2>2, <2>3, <2>4, <2>5, <2>6, <2>7 DEF Next
<1> QED  BY <1>1, <1>2, PTL DEF Spec

\* The window and the last resend keep the shapes window.h declares, for every
\* window size, set of packets and caller.
THEOREM WindowTypeCorrect == Spec => []TypeOK
<1>1. IInv => TypeOK
  BY DEF IInv, TypeOK, GoodWindow
<1> QED  BY <1>1, WindowInductive, PTL

\* At most winSize packets are ever outstanding, each owns the cell
\* seqNum % winSize and every other cell is free, whoever calls window.c.
THEOREM WindowSafe == Spec => []WindowInv
<1>1. IInv => WindowInv
  BY DEF IInv, WindowInv, GoodWindow
<1> QED  BY <1>1, WindowInductive, PTL

\* windowOpen's test of the pane never says more than its test of the span.
THEOREM WindowOpenIsSpan == Spec => []OpenIsSpan
<1>1. IInv => OpenIsSpan
  BY OpenBySpan DEF IInv, OpenIsSpan
<1> QED  BY <1>1, WindowInductive, PTL

(***************************************************************************)
(* The library implements the abstract window.                             *)
(***************************************************************************)

\* A window that is not live is exactly what freeWindow leaves: the abstract
\* window is closed with everything reset, not merely marked closed.
RInv == IInv /\ (~win.live => win = NullWindow)

\* addPane puts the packet under the next number and disturbs no other.
LEMMA HeldAfterAdd ==
  ASSUME NEW P, NEW w, GoodWindow(w, P), NEW pkt, NEW seq \in Nat,
         CanAddPane(w, seq)
  PROVE  HeldIn(AddPane(w, pkt, seq)) =
           [n \in w.lower .. w.curr |->
              IF n = w.curr THEN [packet |-> pkt, acked |-> FALSE]
                            ELSE HeldIn(w)[n]]
<1> DEFINE pane == [packet |-> pkt, seqNum |-> seq, ack |-> FALSE]
           v == AddPane(w, pkt, seq)
<1>1. /\ w.lower \in Nat /\ w.curr \in Nat /\ w.live /\ seq = w.curr
      /\ InWindow(w, seq)
      /\ w.paneBuff \in [Slots -> Pane(P)]
      /\ Slot(seq) \in Slots
  BY SlotType DEF CanAddPane, GoodWindow, WindowType
<1>2. v.lower = w.lower /\ v.curr = w.curr + 1
      /\ v.paneBuff = [w.paneBuff EXCEPT ![Slot(seq)] = pane]
  BY DEF AddPane
<1>3. Outstanding(v) = w.lower .. w.curr
  BY <1>1, <1>2, SMT DEF Outstanding
<1>4. v.paneBuff[Slot(w.curr)] = pane
  BY <1>1, <1>2
<1>5. ASSUME NEW n \in w.lower .. w.curr, n # w.curr
      PROVE  n \in Outstanding(w) /\ v.paneBuff[Slot(n)] = w.paneBuff[Slot(n)]
  <2>1. n \in Outstanding(w)  BY <1>1, <1>5, SMT DEF Outstanding
  <2>2. Slot(n) \in Slots /\ InWindow(w, n) /\ n \in Nat
    BY <1>1, <2>1, OwnedPane
  <2>3. Slot(n) # Slot(seq)
    BY <1>1, <1>5, <2>2, SlotInjective DEF InWindow
  <2> QED  BY <1>1, <1>2, <2>1, <2>2, <2>3
<1> DEFINE cell(w_, n) == [packet |-> w_.paneBuff[Slot(n)].packet,
                           acked  |-> w_.paneBuff[Slot(n)].ack]
<1>6. HeldIn(v) = [n \in w.lower .. w.curr |-> cell(v, n)]
  BY <1>3 DEF HeldIn
<1>7. ASSUME NEW n \in w.lower .. w.curr
      PROVE  cell(v, n) = IF n = w.curr THEN [packet |-> pkt, acked |-> FALSE]
                                        ELSE HeldIn(w)[n]
  <2> HIDE DEF v
  <2>1. CASE n = w.curr  BY <2>1, <1>4
  <2>2. CASE n # w.curr
    <3>1. cell(v, n) = cell(w, n)  BY <2>2, <1>5
    <3>2. HeldIn(w)[n] = cell(w, n)  BY <2>2, <1>5 DEF HeldIn
    <3> QED  BY <2>2, <3>1, <3>2
  <2> QED  BY <2>1, <2>2
<1> HIDE DEF v, cell
<1> QED  BY <1>6, <1>7, Zenon DEF v

\* slideWindow lets go of the packets below the new lower bound only.
LEMMA HeldAfterSlide ==
  ASSUME NEW P, NEW w, GoodWindow(w, P), NEW newLow \in Nat,
         CanSlide(w, newLow)
  PROVE  HeldIn(SlideWindow(w, newLow)) =
           [n \in newLow .. w.curr - 1 |-> HeldIn(w)[n]]
<1> DEFINE v == SlideWindow(w, newLow)
           gone == w.lower .. newLow - 1
<1>1. /\ w.lower \in Nat /\ w.curr \in Nat /\ w.live
      /\ newLow >= w.lower /\ newLow <= w.curr
  BY SMT DEF CanSlide, GoodWindow, WindowType
<1>2. v.lower = newLow /\ v.curr = w.curr /\ v.paneBuff = Cleared(w, gone)
  BY DEF SlideWindow
<1>3. Outstanding(v) = newLow .. w.curr - 1
  BY <1>2 DEF Outstanding
<1>4. ASSUME NEW n \in newLow .. w.curr - 1
      PROVE  n \in Outstanding(w) /\ v.paneBuff[Slot(n)] = w.paneBuff[Slot(n)]
  <2>1. n \in Outstanding(w)  BY <1>1, SMT DEF Outstanding
  <2>2. Slot(n) \in Slots /\ InWindow(w, n) /\ n \in Nat
    BY <1>1, <2>1, OwnedPane
  <2>3. ASSUME NEW seq \in gone  PROVE Slot(seq) # Slot(n)
    <3>1. seq \in Outstanding(w) /\ seq # n
      BY <1>1, SMT DEF Outstanding
    <3>2. seq \in Nat /\ InWindow(w, seq)
      BY <1>1, <3>1, OwnedPane
    <3> QED  BY <1>1, <2>2, <3>1, <3>2, SlotInjective DEF InWindow
  <2> QED  BY <1>2, <2>1, <2>2, <2>3 DEF Cleared
<1> DEFINE cell(w_, n) == [packet |-> w_.paneBuff[Slot(n)].packet,
                           acked  |-> w_.paneBuff[Slot(n)].ack]
<1>5. HeldIn(v) = [n \in newLow .. w.curr - 1 |-> cell(v, n)]
  BY <1>3 DEF HeldIn
<1>6. ASSUME NEW n \in newLow .. w.curr - 1  PROVE cell(v, n) = HeldIn(w)[n]
  <2> HIDE DEF v
  <2>1. cell(v, n) = cell(w, n)  BY <1>4
  <2>2. HeldIn(w)[n] = cell(w, n)  BY <1>4 DEF HeldIn
  <2> QED  BY <2>1, <2>2
<1> HIDE DEF v, cell
<1> QED  BY <1>5, <1>6, Zenon DEF v

\* markPaneAck marks one held packet, or does nothing.
LEMMA HeldAfterMark ==
  ASSUME NEW P, NEW w, GoodWindow(w, P), NEW seq \in Nat
  PROVE  \/ MarkPaneAck(w, seq) = w
         \/ /\ w.live /\ seq \in Outstanding(w)
            /\ MarkPaneAck(w, seq).live
            /\ MarkPaneAck(w, seq).lower = w.lower
            /\ MarkPaneAck(w, seq).curr = w.curr
            /\ HeldIn(MarkPaneAck(w, seq)) =
                 [HeldIn(w) EXCEPT ![seq] =
                    [packet |-> HeldIn(w)[seq].packet, acked |-> TRUE]]
<1> DEFINE marks == /\ w.live
                    /\ InWindow(w, seq)
                    /\ w.paneBuff[Slot(seq)].seqNum = seq
           pane == [w.paneBuff[Slot(seq)] EXCEPT !.ack = TRUE]
           panes == [w.paneBuff EXCEPT ![Slot(seq)] = pane]
           v == MarkPaneAck(w, seq)
<1>1. CASE ~marks
  BY <1>1 DEF MarkPaneAck
<1>2. CASE marks
  <2>1. /\ w.lower \in Nat /\ w.curr \in Nat /\ w.lower >= 1 /\ w.live
        /\ w.paneBuff \in [Slots -> Pane(P)]
        /\ w \in WindowType(P)
    BY <1>2, SMT DEF GoodWindow, WindowOK, WindowType, SpanBounded
  <2>2. seq \in Outstanding(w)
    BY <1>2, <2>1, UnownedPane, SMT DEF FreePane, InWindow
  <2>3. /\ Slot(seq) \in Slots
        /\ InWindow(w, seq)
        /\ w.paneBuff[Slot(seq)] \in [packet : P, seqNum : Nat, ack : BOOLEAN]
    BY <1>2, <2>2, OwnedPane
  <2>4. pane.packet = w.paneBuff[Slot(seq)].packet /\ pane.ack
        /\ pane.ack \in BOOLEAN
    BY <2>3, MarkedPane
  <2>5. v = [w EXCEPT !.paneBuff = panes]
    BY <1>2 DEF MarkPaneAck
  <2>6. v.live /\ v.lower = w.lower /\ v.curr = w.curr /\ v.paneBuff = panes
    <3> HIDE DEF v, panes
    <3> QED  BY <2>1, <2>5 DEF WindowType
  <2>7. Outstanding(v) = Outstanding(w)
    BY <2>6 DEF Outstanding
  <2>8. ASSUME NEW n \in Outstanding(w), n # seq
        PROVE  panes[Slot(n)] = w.paneBuff[Slot(n)]
    <3>1. Slot(n) \in Slots /\ InWindow(w, n) /\ n \in Nat
      BY <2>1, OwnedPane
    <3>2. Slot(n) # Slot(seq)
      BY <2>1, <2>3, <2>8, <3>1, SlotInjective DEF InWindow
    <3> QED  BY <2>1, <3>1, <3>2
  <2>9. panes[Slot(seq)] = pane
    BY <2>1, <2>3
  <2>10. HeldIn(v) =
           [HeldIn(w) EXCEPT ![seq] =
              [packet |-> HeldIn(w)[seq].packet, acked |-> TRUE]]
    <3> HIDE DEF v, panes, pane
    <3>1. pane.ack = TRUE  BY <2>4
    <3> QED  BY <2>2, <2>4, <2>6, <2>7, <2>8, <2>9, <3>1 DEF HeldIn
  <2> QED  BY <2>1, <2>2, <2>6, <2>10
<1> QED  BY <1>1, <1>2

\* A closed window holds nothing, and neither does a fresh one.
LEMMA NothingHeld ==
  /\ HeldIn(NullWindow) = Abstract!Nothing
  /\ HeldIn(FreshWindow) = Abstract!Nothing
<1>1. 0 .. 0 - 1 = {} /\ 1 .. 1 - 1 = {}  BY SMT
<1>2. Outstanding(NullWindow) = {}  BY <1>1 DEF Outstanding, NullWindow
<1>3. Outstanding(FreshWindow) = {}  BY <1>1 DEF Outstanding, FreshWindow
<1> QED  BY <1>2, <1>3 DEF HeldIn, Abstract!Nothing

\* resendPane sends the held, unmarked packet of the number asked for, or
\* nothing.
LEMMA ResendIsHeld ==
  ASSUME NEW P, NEW w, GoodWindow(w, P), NEW seq \in Nat
  PROVE  ResendPane(w, seq) =
           IF w.live /\ seq \in Outstanding(w) /\ ~HeldIn(w)[seq].acked
           THEN {HeldIn(w)[seq].packet} ELSE {}
<1>1. CASE ~w.live
  BY <1>1 DEF ResendPane, CanResend
<1>2. CASE w.live
  <2>1. /\ w.lower \in Nat /\ w.curr \in Nat /\ w.lower >= 1
        /\ w.curr - w.lower <= WinSize
    BY <1>2, SMT DEF GoodWindow, WindowOK, WindowType, SpanBounded
  <2>2. CASE seq \in Outstanding(w)
    <3>1. w.paneBuff[Slot(seq)].seqNum = seq  BY <1>2, <2>2, OwnedPane
    <3>2. seq \in w.lower .. w.curr  BY <2>1, <2>2, SMT DEF Outstanding
    <3> QED  BY <1>2, <2>2, <3>1, <3>2 DEF ResendPane, CanResend, HeldIn
  <2>3. CASE seq \notin Outstanding(w)
    <3>1. ASSUME CanResend(w, seq)  PROVE FALSE
      <4>1. seq = w.curr /\ w.lower <= w.curr
        BY <2>1, <2>3, <3>1, SMT DEF CanResend, Outstanding
      <4>2. w.curr - w.lower # WinSize
        <5> SUFFICES ASSUME w.curr - w.lower = WinSize  PROVE FALSE
          OBVIOUS
        <5>1. w.lower \in Outstanding(w)
          BY <2>1, WinSizeAssumption, SMT DEF Outstanding
        <5>2. Slot(w.lower) = Slot(seq)
          BY <2>1, <4>1, WinSizeAssumption, SlotPeriod
        <5>3. w.paneBuff[Slot(seq)].seqNum = w.lower
          BY <1>2, <5>1, <5>2, OwnedPane
        <5>4. w.lower # seq
          BY <2>1, <4>1, WinSizeAssumption, SMT
        <5> QED  BY <3>1, <5>3, <5>4 DEF CanResend
      <4>3. InWindow(w, seq)
        BY <2>1, <4>1, <4>2, WinSizeAssumption, SMT DEF InWindow
      <4>4. w.paneBuff[Slot(seq)] = FreePane
        BY <1>2, <2>3, <4>3, UnownedPane
      <4> QED  BY <3>1, <4>4 DEF CanResend, FreePane
    <3> QED  BY <2>3, <3>1 DEF ResendPane
  <2> QED  BY <2>2, <2>3
<1> QED  BY <1>1, <1>2

\* Every call of window.c is one operation of the abstract window, or none:
\* indexing by seqNum % winSize is invisible to a caller.
THEOREM WindowImplements == Spec => ImplementsSlidingWindow
<1> USE CallerAssumption
<1>1. Init => RInv
  BY NullWindowGood DEF Init, RInv, IInv
<1>2. RInv /\ [Next]_vars => (~win.live => win = NullWindow)'
  <2> SUFFICES ASSUME RInv, [Next]_vars
               PROVE  (~win.live => win = NullWindow)'
    OBVIOUS
  <2> USE DEF RInv
  <2>1. CASE CallInitWindow
    BY <2>1 DEF CallInitWindow, InitWindow, FreshWindow
  <2>2. CASE CallFreeWindow
    BY <2>2 DEF CallFreeWindow, FreeWindow
  <2>3. ASSUME NEW pkt \in Pkts, NEW seq \in Args, CallAddPane(pkt, seq)
        PROVE  (~win.live => win = NullWindow)'
    BY <2>3 DEF CallAddPane, AddPane
  <2>4. ASSUME NEW seq \in Args, CallMarkPaneAck(seq)
        PROVE  (~win.live => win = NullWindow)'
    BY <2>4, HeldAfterMark DEF CallMarkPaneAck, IInv
  <2>5. ASSUME NEW seq \in Args, CallSlideWindow(seq)
        PROVE  (~win.live => win = NullWindow)'
    BY <2>5 DEF CallSlideWindow, SlideWindow
  <2>6. ASSUME NEW seq \in Args, CallResendPane(seq)
        PROVE  (~win.live => win = NullWindow)'
    BY <2>6 DEF CallResendPane
  <2>7. CASE UNCHANGED vars
    BY <2>7 DEF vars
  <2> QED  BY <2>1, <2>2, <2>3, <2>4, <2>5, <2>6, <2>7 DEF Next
<1>3. Init => Abstract!Init
  BY NothingHeld DEF Init, Abstract!Init, NullWindow
<1>4. RInv /\ [Next]_vars => [Abstract!Next]_(Abstract!vars)
  <2> SUFFICES ASSUME RInv, [Next]_vars
               PROVE  Abstract!Next \/ UNCHANGED Abstract!vars
    OBVIOUS
  <2> USE DEF RInv, IInv
  <2>1. CASE CallInitWindow
    <3>1. CASE win.live
      BY <2>1, <3>1 DEF CallInitWindow, InitWindow, Abstract!vars
    <3>2. CASE ~win.live
      <4>1. win' = FreshWindow /\ resent' = resent
        BY <2>1, <3>2 DEF CallInitWindow, InitWindow
      <4>2. HeldIn(win') = Abstract!Nothing  BY <4>1, NothingHeld
      <4>3. Abstract!Open
        BY <3>2, <4>1, <4>2 DEF Abstract!Open, FreshWindow
      <4> QED  BY <4>3 DEF Abstract!Next
    <3> QED  BY <3>1, <3>2
  <2>2. CASE CallFreeWindow
    <3>1. win' = NullWindow /\ resent' = resent
      BY <2>2 DEF CallFreeWindow, FreeWindow
    <3>2. CASE win.live
      <4>1. HeldIn(win') = Abstract!Nothing  BY <3>1, NothingHeld
      <4>2. Abstract!Close
        BY <3>1, <3>2, <4>1 DEF Abstract!Close, NullWindow
      <4> QED  BY <4>2 DEF Abstract!Next
    <3>3. CASE ~win.live
      BY <3>1, <3>3 DEF Abstract!vars
    <3> QED  BY <3>2, <3>3
  <2>3. ASSUME NEW pkt \in Pkts, NEW seq \in Args, CallAddPane(pkt, seq)
        PROVE  Abstract!Next \/ UNCHANGED Abstract!vars
    <3>1. CASE CanAddPane(win, seq)
      <4>1. seq = win.curr /\ win.live /\ win.curr - win.lower < WinSize
        BY <3>1 DEF CanAddPane, WindowOpen
      <4>2. /\ win'.live = TRUE /\ win'.lower = win.lower
            /\ win'.curr = win.curr + 1 /\ resent' = resent
        BY <2>3, <3>1 DEF CallAddPane, AddPane
      <4>3. HeldIn(win') =
              [n \in win.lower .. win.curr |->
                 IF n = win.curr THEN [packet |-> pkt, acked |-> FALSE]
                                 ELSE HeldIn(win)[n]]
        BY <2>3, <3>1, HeldAfterAdd DEF CallAddPane
      <4>4. win.live = TRUE  BY <4>1 DEF GoodWindow, WindowType
      <4>5. Abstract!Put(pkt)
        BY <4>1, <4>2, <4>3, <4>4 DEF Abstract!Put
      <4> QED  BY <4>5 DEF Abstract!Next
    <3>2. CASE ~CanAddPane(win, seq)
      BY <2>3, <3>2 DEF CallAddPane, AddPane, Abstract!vars
    <3> QED  BY <3>1, <3>2
  <2>4. ASSUME NEW seq \in Args, CallMarkPaneAck(seq)
        PROVE  Abstract!Next \/ UNCHANGED Abstract!vars
    <3>1. CASE win' = win
      BY <2>4, <3>1 DEF CallMarkPaneAck, Abstract!vars
    <3>2. CASE win' # win
      <4>1. /\ win.live /\ seq \in Outstanding(win)
            /\ win'.live /\ win'.lower = win.lower /\ win'.curr = win.curr
            /\ HeldIn(win') =
                 [HeldIn(win) EXCEPT ![seq] =
                    [packet |-> HeldIn(win)[seq].packet, acked |-> TRUE]]
            /\ resent' = resent
        BY <2>4, <3>2, HeldAfterMark DEF CallMarkPaneAck
      <4>2. win.live = TRUE /\ win'.live = TRUE
        BY <2>4, <4>1, MarkPaneAckGood DEF GoodWindow, WindowType, CallMarkPaneAck
      <4>3. Abstract!Mark(seq)
        BY <4>1, <4>2 DEF Abstract!Mark, Abstract!Numbers, Outstanding
      <4> QED  BY <4>3 DEF Abstract!Next
    <3> QED  BY <3>1, <3>2
  <2>5. ASSUME NEW seq \in Args, CallSlideWindow(seq)
        PROVE  Abstract!Next \/ UNCHANGED Abstract!vars
    <3>1. CASE CanSlide(win, seq)
      <4>1. win.live = TRUE /\ seq \in win.lower .. win.curr
        BY <3>1 DEF CanSlide, GoodWindow, WindowType
      <4>2. /\ win'.live = TRUE /\ win'.lower = seq
            /\ win'.curr = win.curr /\ resent' = resent
        BY <2>5, <3>1 DEF CallSlideWindow, SlideWindow
      <4>3. HeldIn(win') = [n \in seq .. win.curr - 1 |-> HeldIn(win)[n]]
        BY <2>5, <3>1, HeldAfterSlide DEF CallSlideWindow
      <4>4. Abstract!Advance(seq)
        BY <4>1, <4>2, <4>3 DEF Abstract!Advance
      <4> QED  BY <4>4 DEF Abstract!Next
    <3>2. CASE ~CanSlide(win, seq)
      BY <2>5, <3>2 DEF CallSlideWindow, SlideWindow, Abstract!vars
    <3> QED  BY <3>1, <3>2
  <2>6. ASSUME NEW seq \in Args, CallResendPane(seq)
        PROVE  Abstract!Next \/ UNCHANGED Abstract!vars
    <3>1. Abstract!Resend(seq)
      BY <2>6, ResendIsHeld
      DEF CallResendPane, Abstract!Resend, Abstract!Numbers, Outstanding
    <3> QED  BY <3>1 DEF Abstract!Next
  <2>7. CASE UNCHANGED vars
    BY <2>7 DEF vars, Abstract!vars
  <2> QED  BY <2>1, <2>2, <2>3, <2>4, <2>5, <2>6, <2>7 DEF Next
<1>5. RInv /\ IInv' /\ [Next]_vars => RInv'
  BY <1>2 DEF RInv
<1>6. Spec => []RInv
  BY <1>1, <1>5, WindowInductive, PTL DEF Spec
<1>7. Spec => Abstract!Spec
  BY <1>3, <1>4, <1>6, PTL DEF Spec, Abstract!Spec
<1> QED  BY <1>7 DEF ImplementsSlidingWindow
=============================================================================

------------------------------ MODULE WindowAPI ------------------------------
(***************************************************************************)
(* The window library under an arbitrary caller: any function of window.c  *)
(* that changes state, with any argument, in any order.                    *)
(***************************************************************************)
EXTENDS Window

CONSTANTS Pkts,         \* packets a caller may add
          Args          \* sequence numbers a caller may pass

ASSUME CallerAssumption ==
  /\ Pkts \subseteq Nat \ {Blank}
  /\ Args \subseteq Nat

VARIABLES win,          \* the global `win'
          resent        \* the last resendPane: the number it was called with
                        \* and the packets it sent, one or none

vars == <<win, resent>>

-----------------------------------------------------------------------------

Init ==
  /\ win = NullWindow
  /\ resent = [asked |-> 0, sent |-> {}]

CallInitWindow ==
  /\ win' = InitWindow(win)
  /\ UNCHANGED resent

CallFreeWindow ==
  /\ win' = FreeWindow(win)
  /\ UNCHANGED resent

CallAddPane(pkt, seq) ==
  /\ win' = AddPane(win, pkt, seq)
  /\ UNCHANGED resent

CallMarkPaneAck(seq) ==
  /\ win' = MarkPaneAck(win, seq)
  /\ UNCHANGED resent

CallSlideWindow(newLow) ==
  /\ win' = SlideWindow(win, newLow)
  /\ UNCHANGED resent

CallResendPane(seq) ==
  /\ resent' = [asked |-> seq, sent |-> ResendPane(win, seq)]
  /\ UNCHANGED win

Next ==
  \/ CallInitWindow
  \/ CallFreeWindow
  \/ \E pkt \in Pkts, seq \in Args : CallAddPane(pkt, seq)
  \/ \E seq \in Args : CallMarkPaneAck(seq)
  \/ \E seq \in Args : CallSlideWindow(seq)
  \/ \E seq \in Args : CallResendPane(seq)

Spec == Init /\ [][Next]_vars

-----------------------------------------------------------------------------

\* The window and the last resend have the shapes window.h declares.
TypeOK ==
  /\ win \in WindowType(Pkts)
  /\ resent \in [asked : Nat, sent : SUBSET Pkts]

\* However the library is called, at most winSize packets are outstanding,
\* each outstanding sequence number owns the cell seqNum % winSize, and every
\* other cell is free: slideWindow, addPane and freeWindow never leave a stale
\* or a doubly owned pane behind.
WindowInv == WindowOK(win)

\* windowOpen's two tests are one: whenever the span test lets a packet in,
\* the pane it lands on is free.  So a caller that sees an open window cannot
\* be refused by addPane for its pane.
OpenIsSpan ==
  win.live => (WindowOpen(win) <=> win.curr - win.lower < WinSize)

-----------------------------------------------------------------------------

\* What a window holds: each outstanding number's packet and mark.
HeldIn(w) == [n \in Outstanding(w) |->
                [packet |-> w.paneBuff[Slot(n)].packet,
                 acked  |-> w.paneBuff[Slot(n)].ack]]

\* The circular array implements a window that holds each packet under its
\* own number.
Abstract == INSTANCE SlidingWindow WITH
  Size <- WinSize,
  open <- win.live,
  base <- win.lower,
  next <- win.curr,
  held <- HeldIn(win)

\* Every call of the library is a step of the abstract window or no step:
\* indexing by seqNum % winSize never mixes two packets up, and resendPane
\* sends exactly the packet added under the requested number, exactly while it
\* is outstanding and unmarked.
ImplementsSlidingWindow == Abstract!Spec
=============================================================================

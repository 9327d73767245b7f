------------------------------- MODULE Window -------------------------------
(***************************************************************************)
(* The sender's window library, rcopy-program3/window.c, as operators on   *)
(* the value of its global `win'.  Every operator is the whole of one      *)
(* function: a rejected call returns the window it was given, as the C     *)
(* function returns early with an error.                                   *)
(*                                                                         *)
(* win = NULL is the record with live = FALSE.  Allocation failure is not  *)
(* modelled.                                                               *)
(***************************************************************************)
EXTENDS Ring

(***************************************************************************)
(* initWindow and freeWindow.                                              *)
(***************************************************************************)

\* A pane that addPane may overwrite: ack is "ACK / unoccupied".
FreePane == [packet |-> Blank, seqNum |-> 0, ack |-> TRUE]

NullWindow == [live |-> FALSE, lower |-> 0, curr |-> 0,
               paneBuff |-> [i \in Slots |-> FreePane]]

FreshWindow == [live |-> TRUE, lower |-> 1, curr |-> 1,
                paneBuff |-> [i \in Slots |-> FreePane]]

InitWindow(w) == IF w.live THEN w ELSE FreshWindow

FreeWindow(w) == NullWindow

(***************************************************************************)
(* Queries.                                                                *)
(***************************************************************************)

\* Faulty variant: one packet too many.
MutWindowOpenLoose(w) == ~w.live \/ w.curr - w.lower <= WinSize

\* windowOpen: on a NULL window it returns -1, which its callers take for
\* "open".
WindowOpen(w) ==
  \/ ~w.live
  \/ /\ w.curr - w.lower < WinSize
     /\ w.paneBuff[Slot(w.curr)].ack

\* The range check addPane and markPaneAck share.
InWindow(w, seq) == seq \in w.lower .. w.lower + WinSize - 1

\* The sequence numbers sent and not yet slid past.
Outstanding(w) == w.lower .. w.curr - 1

(***************************************************************************)
(* addPane: only the next sequence number, only into an open window.       *)
(***************************************************************************)
CanAddPane(w, seq) ==
  /\ w.live
  /\ WindowOpen(w)
  /\ InWindow(w, seq)
  /\ seq = w.curr
  /\ w.paneBuff[Slot(w.curr)].ack

AddPane(w, pkt, seq) ==
  IF CanAddPane(w, seq)
  THEN [live |-> TRUE, lower |-> w.lower, curr |-> w.curr + 1,
        paneBuff |-> [w.paneBuff EXCEPT ![Slot(seq)] =
                        [packet |-> pkt, seqNum |-> seq, ack |-> FALSE]]]
  ELSE w

(***************************************************************************)
(* markPaneAck: acknowledge one pane without sliding (no caller uses it).  *)
(***************************************************************************)
MarkPaneAck(w, seq) ==
  IF w.live /\ InWindow(w, seq) /\ w.paneBuff[Slot(seq)].seqNum = seq
  THEN [w EXCEPT !.paneBuff =
          [w.paneBuff EXCEPT ![Slot(seq)] =
             [w.paneBuff[Slot(seq)] EXCEPT !.ack = TRUE]]]
  ELSE w

(***************************************************************************)
(* slideWindow: clear the panes below newLow, acknowledged or not, and     *)
(* raise the lower bound.                                                  *)
(***************************************************************************)
\* Faulty variant: acknowledgements are not cumulative.
MutCanSlideByOne(w, newLow) == w.live /\ newLow \in w.lower .. w.lower + 1

CanSlide(w, newLow) == w.live /\ newLow \in w.lower .. w.curr

Cleared(w, seqs) ==
  [i \in Slots |-> IF \E seq \in seqs : Slot(seq) = i
                  THEN FreePane ELSE w.paneBuff[i]]

\* Faulty variant: the last pane slid past is not cleared.
MutSlideKeepsPane(w, newLow) ==
  IF CanSlide(w, newLow)
  THEN [live |-> TRUE, lower |-> newLow, curr |-> w.curr,
        paneBuff |-> Cleared(w, w.lower .. newLow - 2)]
  ELSE w

\* Faulty variant: the cleared panes are left marked as occupied.
MutSlideOccupied(w, newLow) ==
  IF CanSlide(w, newLow)
  THEN [live |-> TRUE, lower |-> newLow, curr |-> w.curr,
        paneBuff |-> [i \in Slots |->
          IF \E seq \in w.lower .. newLow - 1 : Slot(seq) = i
          THEN [FreePane EXCEPT !.ack = FALSE] ELSE w.paneBuff[i]]]
  ELSE w

SlideWindow(w, newLow) ==
  IF CanSlide(w, newLow)
  THEN [live |-> TRUE, lower |-> newLow, curr |-> w.curr,
        paneBuff |-> Cleared(w, w.lower .. newLow - 1)]
  ELSE w

(***************************************************************************)
(* resendPane: the packets it hands to sendBuff, one or none.  The range   *)
(* check lets seq = curr through; the pane decides.                        *)
(***************************************************************************)
\* Faulty variant: the pane's own number is not compared.
MutCanResendAnyNumber(w, seq) ==
  /\ w.live
  /\ seq \in w.lower .. w.curr
  /\ ~w.paneBuff[Slot(seq)].ack

\* Faulty variant: the pane is not looked at.
MutCanResendAnyPane(w, seq) == w.live /\ seq \in w.lower .. w.curr

CanResend(w, seq) ==
  /\ w.live
  /\ seq \in w.lower .. w.curr
  /\ ~w.paneBuff[Slot(seq)].ack
  /\ w.paneBuff[Slot(seq)].seqNum = seq

ResendPane(w, seq) ==
  IF CanResend(w, seq) THEN {w.paneBuff[Slot(seq)].packet} ELSE {}

(***************************************************************************)
(* What the functions above keep true of a window.                         *)
(***************************************************************************)
Pane(Pkts) == {FreePane} \cup [packet : Pkts, seqNum : Nat, ack : BOOLEAN]

WindowType(Pkts) == [live : BOOLEAN, lower : Nat, curr : Nat,
                     paneBuff : [Slots -> Pane(Pkts)]]

\* At most WinSize packets are outstanding.
SpanBounded(w) ==
  /\ w.lower \in 1 .. w.curr
  /\ w.curr - w.lower <= WinSize

\* Every outstanding sequence number owns its cell.
PaneIdentity(w) ==
  \A seq \in Outstanding(w) : w.paneBuff[Slot(seq)].seqNum = seq

\* Every other cell is free for addPane.
OthersFree(w) ==
  \A i \in Slots :
    (\A seq \in Outstanding(w) : Slot(seq) # i) => w.paneBuff[i] = FreePane

WindowOK(w) == w.live => SpanBounded(w) /\ PaneIdentity(w) /\ OthersFree(w)
=============================================================================

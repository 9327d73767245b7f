-------------------------------- MODULE Ring --------------------------------
(***************************************************************************)
(* The circular arrays of rcopy-program3: the sender's panes (window.c)    *)
(* and the receiver's packets (buffer.c) are both arrays of winSize cells  *)
(* indexed by seqNum % winSize.  The window size travels in the FNAME PDU, *)
(* so both ends of one transfer use the same value.                        *)
(*                                                                         *)
(* A packet is the number of the file chunk it carries; Blank is a         *)
(* zeroed cell (memset 0, packetLen = 0).                                  *)
(***************************************************************************)
EXTENDS Integers

CONSTANT WinSize        \* panes in the window; rcopy accepts 1..229

\* rcopy.c checkArgs rejects a window size below 1.
ASSUME WinSizeAssumption == WinSize \in Nat \ {0}

Slots == 0 .. WinSize - 1

\* The cell a sequence number lives in.
Slot(seq) == seq % WinSize

Blank == 0
=============================================================================

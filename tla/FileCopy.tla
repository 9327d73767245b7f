------------------------------ MODULE FileCopy ------------------------------
(***************************************************************************)
(* What rcopy is for: the chunks of the source file reach the destination  *)
(* in order, each once, and the copy is called done only when all have.    *)
(* A copy may fail, leaving a prefix behind.                               *)
(***************************************************************************)
EXTENDS Naturals, Sequences

CONSTANT FileLen        \* chunks in the source file

VARIABLES copied,       \* chunks in the destination file
          status        \* "copying", "done", "failed"

vars == <<copied, status>>

Init ==
  /\ copied = <<>>
  /\ status = "copying"

Deliver ==
  /\ status = "copying"
  /\ Len(copied) < FileLen
  /\ copied' = Append(copied, Len(copied) + 1)
  /\ UNCHANGED status

Finish ==
  /\ status = "copying"
  /\ Len(copied) = FileLen
  /\ status' = "done"
  /\ UNCHANGED copied

Fail ==
  /\ status = "copying"
  /\ status' = "failed"
  /\ UNCHANGED copied

Next == Deliver \/ Finish \/ Fail

Spec == Init /\ [][Next]_vars
=============================================================================

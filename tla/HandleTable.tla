----------------------------- MODULE HandleTable -----------------------------
(***************************************************************************)
(* The chat server's handle table, chat-program2/handleTable.c, as         *)
(* operators on its linked list: a sequence of entries, the head first.    *)
(* Every operator is the whole of one function.                            *)
(***************************************************************************)
EXTENDS Naturals, Sequences, SequencesExt

CONSTANTS MaxHandles,           \* MAX_HANDLES
          MAX_HANDLE_LENGTH

ASSUME MaxHandlesAssumption == MaxHandles \in Nat

\* Lookup of a handle nobody has.
NoSocket == 0

Entry(handle, socket) == [handle |-> handle, socket |-> socket]

\* What strcmp, strlen and strdup find in a new entry.  A handle of the greatest
\* length fills the array, its null is overwritten by the socket that follows, and
\* the string goes on with the socket's bytes up to the first that is 0 (one here).
Stored(handle, socket) ==
  IF Len(handle) < MAX_HANDLE_LENGTH \/ socket % 256 = 0 THEN handle
  ELSE Append(handle, socket)

InUse(t, handle) == \E i \in DOMAIN t : t[i].handle = handle

\* Faulty variant: one entry too many.
MutAddRefusedLate(t, handle) == Len(t) > MaxHandles \/ InUse(t, handle)

\* addHandle returns -1: the table is full, or the handle is taken.
AddRefused(t, handle) == Len(t) >= MaxHandles \/ InUse(t, handle)

AddHandle(t, handle, socket) ==
  IF AddRefused(t, handle) THEN t ELSE <<Entry(Stored(handle, socket), socket)>> \o t

LookupHandle(t, handle) ==
  IF InUse(t, handle)
  THEN t[SelectInSeq(t, LAMBDA e : e.handle = handle)].socket
  ELSE NoSocket

\* Faulty variant: only the head is looked at.
MutRemoveHead(t, socket) ==
  IF t # <<>> /\ Head(t).socket = socket THEN Tail(t) ELSE t

\* removeHandle: the first entry of the socket.
RemoveHandle(t, socket) ==
  LET i == SelectInSeq(t, LAMBDA e : e.socket = socket)
  IN  IF i = 0 THEN t ELSE RemoveAt(t, i)

GetHandles(t) == [i \in DOMAIN t |-> t[i].handle]
=============================================================================

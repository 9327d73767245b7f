---------------------------- MODULE SlidingWindow ----------------------------
(***************************************************************************)
(* What window.c promises its caller, with no circular array: a window     *)
(* holds the packets numbered base .. next - 1, at most Size of them, each *)
(* under its own number until the window slides past it.  A packet can be  *)
(* resent for exactly as long as it is held and not marked.                *)
(***************************************************************************)
EXTENDS Integers

CONSTANTS Size,         \* greatest number of packets held
          Pkts,         \* packets
          Args          \* the numbers callers may pass

VARIABLES open,         \* the window exists
          base, next,   \* held numbers are base .. next - 1
          held,         \* number -> [packet, acked]
          resent        \* the last request to resend: the number asked for and
                        \* what was sent, at most one packet

vars == <<open, base, next, held, resent>>

Numbers == base .. next - 1

Nothing == [n \in {} |-> 0]

Init ==
  /\ open = FALSE
  /\ base = 0
  /\ next = 0
  /\ held = Nothing
  /\ resent = [asked |-> 0, sent |-> {}]

Open ==
  /\ ~open
  /\ open' = TRUE
  /\ base' = 1
  /\ next' = 1
  /\ held' = Nothing
  /\ UNCHANGED resent

Close ==
  /\ open
  /\ open' = FALSE
  /\ base' = 0
  /\ next' = 0
  /\ held' = Nothing
  /\ UNCHANGED resent

\* Hold the next packet, if there is room.
Put(pkt) ==
  /\ open
  /\ next - base < Size
  /\ next' = next + 1
  /\ held' = [n \in base .. next |->
                IF n = next THEN [packet |-> pkt, acked |-> FALSE] ELSE held[n]]
  /\ UNCHANGED <<open, base, resent>>

Mark(n) ==
  /\ open
  /\ n \in Numbers
  /\ held' = [held EXCEPT ![n] = [packet |-> held[n].packet, acked |-> TRUE]]
  /\ UNCHANGED <<open, base, next, resent>>

\* Let go of every packet below newBase.
Advance(newBase) ==
  /\ open
  /\ newBase \in base .. next
  /\ base' = newBase
  /\ held' = [n \in newBase .. next - 1 |-> held[n]]
  /\ UNCHANGED <<open, next, resent>>

Resend(n) ==
  /\ resent' = [asked |-> n,
                sent  |-> IF open /\ n \in Numbers /\ ~held[n].acked
                          THEN {held[n].packet} ELSE {}]
  /\ UNCHANGED <<open, base, next, held>>

Next ==
  \/ Open
  \/ Close
  \/ \E pkt \in Pkts : Put(pkt)
  \/ \E n \in Args : Mark(n) \/ Advance(n) \/ Resend(n)

Spec == Init /\ [][Next]_vars
=============================================================================

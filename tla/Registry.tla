------------------------------ MODULE Registry ------------------------------
(***************************************************************************)
(* What the chat's handle table is for: who is called what.  A client gets *)
(* a handle it was started with and keeps it until it leaves; a client has *)
(* one handle at most, and an exclusive handle one client at most.         *)
(***************************************************************************)
EXTENDS Naturals, FiniteSets

CONSTANTS Clients,
          Names,        \* client -> the handles it may have
          Exclusive,    \* handles only one client may have at a time
          Limit         \* handles in use at a time

VARIABLES holds,        \* pairs of a client and its handle
          left,         \* clients that have ended, or broken the protocol
          up            \* the server runs

vars == <<holds, left, up>>

Init == holds = {} /\ left = {} /\ up = TRUE

\* The answer to a client that has ended may bring the server down.
Register(c) ==
  /\ up
  /\ Cardinality(holds) < Limit
  /\ \A p \in holds : p[1] # c
  /\ \E h \in Names[c] :
       /\ h \in Exclusive => \A p \in holds : p[2] # h
       /\ holds' = holds \cup {<<c, h>>}
  /\ UNCHANGED left
  /\ up' \in {TRUE, c \notin left}

Release(c) ==
  /\ up /\ c \in left
  /\ \E p \in holds : p[1] = c
  /\ holds' = {p \in holds : p[1] # c}
  /\ UNCHANGED <<left, up>>

Leave(c) ==
  /\ c \notin left
  /\ left' = left \cup {c}
  /\ UNCHANGED <<holds, up>>

Die ==
  /\ up
  /\ up' = FALSE
  /\ UNCHANGED <<holds, left>>

Next == Die \/ \E c \in Clients : Register(c) \/ Release(c) \/ Leave(c)

Spec == Init /\ [][Next]_vars
=============================================================================

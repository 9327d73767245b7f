----------------------------- MODULE MCTcpEcho ------------------------------
EXTENDS TcpEcho

CONSTANTS c1, c2

Typed == [c \in Clients |-> IF c = c1 THEN 2 ELSE 1]

TypedLines == [c \in Clients |-> {IF c = c1 THEN <<7, 0>> ELSE <<0>>}]
=============================================================================

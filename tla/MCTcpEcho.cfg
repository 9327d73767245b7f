CONSTANTS
  c1 = c1
  c2 = c2
  Clients = {c1, c2}
  Lines <- TypedLines
  MaxLines <- Typed
  ClientFds = {4, 5}
SPECIFICATION FairSpec
INVARIANTS
  EchoesExact
  NobodyDropped
  DeathExplained
PROPERTY Answered
CHECK_DEADLOCK FALSE

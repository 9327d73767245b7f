CONSTANTS
  c1 = c1
  c2 = c2
  srv = srv
  Clients = {c1, c2}
  Server = srv
  Setups <- AllSetups
  Texts <- Lines
  MAXBUF = 3
  Byte = 4
  Dice = 14
  Draws <- SomeDraws
  Seeds = {1, 2, 10}
SPECIFICATION FairSpec
INVARIANTS
  ServerShowsSent
  EchoRestored
  DropListExact
  StuckMeansDropped
PROPERTY Answered
CHECK_DEADLOCK FALSE

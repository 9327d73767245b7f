CONSTANTS
  WinSize = 3
  NumPackets = 4
  MaxTries = 2
  Environments <- OneLostToClient
SPECIFICATION Spec
INVARIANT OutputIsPrefix

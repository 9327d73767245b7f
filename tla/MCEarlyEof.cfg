CONSTANTS
  WinSize = 2
  NumPackets = 3
  MaxTries = 2
  Environments <- OneLostToClient
SPECIFICATION Spec
INVARIANT DoneMeansAllReceived

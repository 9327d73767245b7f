CONSTANTS
  WinSize = 4
  NumPackets = 8
  MaxTries = 2
  Environments <- ThreeLostToClient
SPECIFICATION Spec
INVARIANT AckedWasSent

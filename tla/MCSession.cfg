CONSTANTS
  WinSize = 3
  NumPackets = 4
  MaxTries = 2
  Environments <- AllEnvironments
SPECIFICATION FairSpec
INVARIANTS
  SessionTypeOK
  WireFaithful
  NextIsCurr
  NeverSlidPast
  FitsReceiver
  FeedbackExpected
  CanBuffer
PROPERTIES
  CompletionIsShared
  Termination
  Completion
  ImplementsFileCopy

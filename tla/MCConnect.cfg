CONSTANTS
  r1 = r1
  r2 = r2
  Rcopies = {r1, r2}
  Cases <- AllCases
  MaxTries = 1
  Byte = 2
  Dice = 1
  Draws = {0}
  Seeds = {}
SPECIFICATION FairSpec
INVARIANTS
  OneChildPerSocket
  RequestsBounded
  ChildSeedsDistinct
  ZombiesNoticed
PROPERTY NamesAnswered
CHECK_DEADLOCK FALSE

CONSTANTS
  r1 = r1
  r2 = r2
  Rcopies = {r1, r2}
  Cases <- LongName
  MaxTries = 1
  Byte = 2
  Dice = 1
  Draws = {0}
  Seeds = {}
SPECIFICATION Spec
INVARIANT LongNameNeverHappens
CHECK_DEADLOCK FALSE

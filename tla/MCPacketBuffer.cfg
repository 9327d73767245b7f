CONSTANTS
  WinSize = 3
  Args <- MCArgs
  MaxFile = 3
SPECIFICATION Spec
INVARIANTS
  OwnCell
  CountIsLowerBound
  HeadIsNext

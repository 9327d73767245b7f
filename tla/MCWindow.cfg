CONSTANTS
  WinSize = 3
  Pkts <- MCPkts
  Args <- MCArgs
SPECIFICATION Spec
INVARIANTS
  TypeOK
  WindowInv
  OpenIsSpan
PROPERTY ImplementsSlidingWindow

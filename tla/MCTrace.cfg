CONSTANTS
  Files <- AllFiles
  Byte = 256
SPECIFICATION TraceSpec
INVARIANTS
  VerdictsRight
  PortsRight
CHECK_DEADLOCK FALSE

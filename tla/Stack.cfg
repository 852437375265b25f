SPECIFICATION Spec
CONSTANTS
  c1 = c1
  c2 = c2
  Callers = {c1, c2}
  Gone = Gone
  None = None
  PortStart = 1
  PortEnd = 2
  ListenPorts = {0, 2}
  RxLimit = 2
  MaxSegments = 1
  MaxCalls = 4
  MaxPackets = 2
SYMMETRY MCSymmetry
INVARIANTS TypeOK CallsHeld NoneOverlooked OneOwner
CHECK_DEADLOCK FALSE

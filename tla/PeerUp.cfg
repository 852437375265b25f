SPECIFICATION Spec
CONSTANTS
  a1 = a1
  a2 = a2
  Addrs = {a1, a2}
  MaxFaults = 2
  MaxChanges = 3
  MaxPresses = 1
INVARIANTS LeasesRouted
PROPERTIES RoutesConverge 
CHECK_DEADLOCK FALSE

CONSTANTS
  Paths = {p, q}
  Base = 6
  Maximum = 18
  Step = 4
  MinGain = 1
  MaxFailures = 2
  Confirmations = 2
  Capacities = {6, 9, 13, 17, 20}
  PeerMaxima = {5, 12, 18}
  MaxMigrations = 2
  p = p
  q = q
SPECIFICATION FairSpec
INVARIANTS TypeOK InBounds PathSound SearchTight
PROPERTY SearchEnds
CHECK_DEADLOCK FALSE

CONSTANTS
  Sids = {1, 2, 3, 4, 5, 6, 7, 8}
  Keys = {1, 2, 3, 4, 5, 6, 7, 8, 9}
  MaxFaults = 1
  FaultKinds = {"loss", "duplicate", "reorder", "send", "early", "drop", "rekey", "restart", "discard"}
  MaxReconnect = 1
  MaxProbes = 1
  Senders = {1, 2}
SPECIFICATION FairSpec
INVARIANTS
  TypeOK
  OneInitiator
  SharedSessionIsCurrent
PROPERTY InitiatorKeepsSession
PROPERTY Converges
CHECK_DEADLOCK FALSE

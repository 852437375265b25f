CONSTANTS
  Sids = {1, 2, 3, 4, 5, 6, 7, 8}
  Keys = {1, 2, 3, 4, 5, 6, 7, 8, 9}
  MaxFaults = 2
  FaultKinds = {"loss"}
  MaxReconnect = 1
  MaxProbes = 1
  Senders = {1}
SPECIFICATION Spec
INVARIANT AttemptsEnd
CHECK_DEADLOCK FALSE

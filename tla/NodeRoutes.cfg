SPECIFICATION Spec
CONSTANTS
  n1 = n1
  n2 = n2
  a1 = a1
  a2 = a2
  None = None
  Ids = {n1, n2}
  Initiates = {n1}
  Addrs = {a1, a2}
  Objs = {1, 2, 3, 4, 5}
  Sids = {1, 2, 3, 4, 5, 6}
  Worlds <- MCWorlds
  InitialPeers <- MCInitialPeers
  Connected = n1
  Waiting = 2
  QueueLimit = 2
  MaxReconnect = 1
  DataLimit = 2
  PartSize = 1
  MaxOps = 1
  Kinds = {"snapshot"}
INVARIANT RoutesMatchRecords
CHECK_DEADLOCK FALSE

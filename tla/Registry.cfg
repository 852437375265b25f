CONSTANTS
  n1 = n1
  n2 = n2
  Peers <- MCPeers
  StartHost <- MCStartHost
  Conns = {c1, c2}
  Invites = {i1, i2}
  Hosts = 2
  Ttl = 1
  SessionTtl = 2
  MaxTime = 1
  MaxOps = 3
  Kinds = {"restart", "register", "update", "request", "status", "close", "invite", "list", "download", "revoke", "delete", "config", "password"}
  None = None
  Admin = Admin
SYMMETRY Symmetry
SPECIFICATION Spec
INVARIANT TypeOK
INVARIANT RestartTakesNothingBack
INVARIANT MapsAccountedFor
INVARIANT SharedAddressOnlyByRace
PROPERTY InviteSpent
CHECK_DEADLOCK FALSE

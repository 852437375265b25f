CONSTANTS
  Tasks = {t1, t2}
  Conns = {1, 2}
  MaxLives = 1
  MaxEvents = 2
  Kinds = {"edit", "join", "leave", "unanswered", "signal", "list", "candidates", "expired", "invalid",
           "timeout", "break", "failure"}
  WireCap = 1
  None = None
SPECIFICATION Spec
INVARIANT TypeOK
INVARIANT NoLostBroadcast
INVARIANT NoSessionLeftBehind
INVARIANT ResponseIsFresh
SYMMETRY Symmetry
CHECK_DEADLOCK FALSE

CONSTANTS
  Tasks = {t1}
  Conns = {1, 2}
  MaxLives = 1
  MaxEvents = 2
  Kinds = {"join", "candidates"}
  WireCap = 1
  None = None
SPECIFICATION Spec
INVARIANT RoutesFollowSnapshot
CHECK_DEADLOCK FALSE

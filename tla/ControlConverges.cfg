CONSTANTS
  Tasks = {t1}
  Conns = {1, 2}
  MaxLives = 2
  MaxEvents = 2
  Kinds = {"join", "unanswered", "list", "expired", "timeout", "candidates"}
  WireCap = 1
  None = None
SPECIFICATION FairSpec
PROPERTY Converges
CHECK_DEADLOCK FALSE

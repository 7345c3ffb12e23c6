SPECIFICATION Spec
CONSTANTS
  Threads = {t1, t2}
  Plugins = {p1, p2}
  MaxInterpreters = 2
  OwnGil = TRUE
  AssignOverLive = TRUE
INVARIANTS
  OnlyLiveInterpreters
CHECK_DEADLOCK FALSE

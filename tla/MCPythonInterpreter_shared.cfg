SPECIFICATION FairSpec
CONSTANTS
  Threads = {t1, t2}
  Plugins = {p1, p2}
  MaxInterpreters = 2
  OwnGil = FALSE
  AssignOverLive = FALSE
PROPERTIES
  OperationReturns
CHECK_DEADLOCK FALSE

SPECIFICATION FairSpec
CONSTANTS
  Threads = {t1, t2}
  Plugins = {p1, p2}
  MaxInterpreters = 3
  OwnGil = TRUE
  AssignOverLive = FALSE
INVARIANTS
  Inductive
  GilFollowsAttachment
  NothingHeldOutside
  OnlyLiveInterpreters
  NoInterpreterLeaks
PROPERTIES
  OperationReturns
CHECK_DEADLOCK FALSE

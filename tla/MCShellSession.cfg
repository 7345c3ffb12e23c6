SPECIFICATION FairSpec
CONSTANTS
  MaxCalls = 3
  MaxOutput = 2
  MaxNoise = 1
  StdoutCapacity = 3
  StderrCapacity = 1
  HostKeepsChildEnds = FALSE
INVARIANTS
  Inductive
  AnswerIsExact
  CallsDoNotOverlap
  LossHasCause
PROPERTIES
  ImplementsPluginCall
  DeadShellNeverAnswers
  NoHandlerAfterDestruction
  HostReturns
CHECK_DEADLOCK FALSE

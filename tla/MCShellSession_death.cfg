SPECIFICATION FairSpec
CONSTANTS
  MaxCalls = 2
  MaxOutput = 1
  MaxNoise = 1
  StdoutCapacity = 2
  StderrCapacity = 1
  HostKeepsChildEnds = TRUE
PROPERTIES
  DeathEndsCall
CHECK_DEADLOCK FALSE

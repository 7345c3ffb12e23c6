SPECIFICATION Spec
CONSTANTS
  f = f
  x = x
  Names <- MCNames
  Globals <- MCGlobals
  Returns <- MCReturns
  Arguments <- MCArguments
  Given <- MCGiven
  Types <- MCTypes
  NewApi = TRUE
  ShortRange = 1
  IntRange = 2
  LongRange = 4
INVARIANTS
  NothingReleasedTwice
CHECK_DEADLOCK FALSE

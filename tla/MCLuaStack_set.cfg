SPECIFICATION Spec
CONSTANTS
  f = f
  x = x
  Names <- MCNames
  Globals <- MCGlobals
  ChunkResults <- MCChunkResults
  Requests <- MCSetRequests
  Returns <- MCReturns
  Errors <- MCErrors
  Capacity = 6
  IntRange = 4
INVARIANTS
  SetCannotFail
CHECK_DEADLOCK FALSE

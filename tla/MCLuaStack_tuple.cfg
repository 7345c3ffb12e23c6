SPECIFICATION Spec
CONSTANTS
  f = f
  x = x
  Names <- MCNames
  Globals <- MCGlobals
  ChunkResults <- MCChunkResults
  Requests <- MCTupleRequests
  Returns <- MCReturns
  Errors <- MCErrors
  Capacity = 6
  IntRange = 4
INVARIANTS
  TupleIsReturned
CHECK_DEADLOCK FALSE

SPECIFICATION MCSpec
CONSTANTS
  f = f
  x = x
  Names <- MCNames
  Globals <- MCGlobals
  ChunkResults <- MCChunkResults
  Requests <- MCRequests
  Returns <- MCReturns
  Errors <- MCErrors
  Capacity = 5
  Conversions <- MCConversions
  TableValues <- MCTableValues
  TableTypes <- MCTableTypes
  MaxBelow = 2
  IntRange = 4
INVARIANTS
  Inductive
  FrameIntact
  StackIsRestored
  OverflowNeedsFailure
  SetIsRead
  ResultIsReturned
  ReferenceInductive
  LevelsAreIntact
  TableIsTaken
  ConvertsByDefinition
  OverflowNeedsDepth
CHECK_DEADLOCK FALSE

SPECIFICATION MCSpec
CONSTANTS
  IntDigits   = 2
  Names       <- MCNames
  Functions   <- MCFunctions
  Identifiers <- MCIdentifiers
  Texts       <- MCTexts
  Arguments   <- MCArguments
  Outputs     <- MCOutputs
  Lists       <- MCLists
  i = i
  d = d
  n = n
  m = m
  k = k
  Variables   <- MCVariables
  TypeOf      <- MCTypeOf
  Written     <- MCWritten
  Guards      = {g1, g2, g3}
  Actions     = {a1, a2}
  NoAction    = none
  MaxThrows   = 1
INVARIANTS
  Inductive
  ArgumentsArrive
  ResultIsOutput
  SideIsKept
  RunsExactlyOnce
PROPERTIES
  VariableIsWritten
CHECK_DEADLOCK FALSE

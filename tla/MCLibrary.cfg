SPECIFICATION Spec
CONSTANTS
  p = p
  q = q
  r = r
  o = o
  Plugins <- MCPlugins
  CppPlugins <- MCCppPlugins
  Objects <- MCObjects
  Versions <- MCVersions
  Exports <- MCExports
  NullAliases <- MCNullAliases
  MaxImages = 3
  MaxInstalls = 1
  MaxNesting = 1
SYMMETRY MCSymmetry
INVARIANTS
  Inductive
  RefsMatchHolders
  CrashNeedsNoPlugin
PROPERTIES
  LoadIsAccurate
CHECK_DEADLOCK FALSE

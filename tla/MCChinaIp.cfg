SPECIFICATION Spec
CONSTANTS
  WIDTH <- MCWidth
  LINES <- MCLines
  MAX_LINES = 3
INVARIANTS
  ContainsExact
  MergeSound
CHECK_DEADLOCK FALSE

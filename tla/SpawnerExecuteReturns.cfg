SPECIFICATION EndingSpec
CONSTANTS
  MaxSpawns = 2
  PipeCap = 1
  Programs <- MCPrograms
  MayBackground = FALSE
PROPERTY ExecuteReturns
CHECK_DEADLOCK FALSE

SPECIFICATION FairSpec
CONSTANTS
  MaxSpawns = 2
  PipeCap = 1
  Programs <- MCPrograms
  MayBackground = TRUE
INVARIANTS QuietAfterTerminate RunningHasAReader ExitCodeOfThisChild
PROPERTIES KillReturns PollerGoesIdle
CHECK_DEADLOCK FALSE

SPECIFICATION FairSpec
CONSTANTS
  Addresses = {a1, a2}
  Null = Null
  MaxHandled = 3
  MaxFrames = 2
  MaxLives = 1
INVARIANTS FlagHasThread StraysOncePerLiveBoot
PROPERTIES FramesGoToTheSurface HandlerReturns
CHECK_DEADLOCK FALSE

SPECIFICATION GuestFairSpec
CONSTANTS
  Threads = {1, 2}
  System = 1000
  Root = 0
  Shell = 2000
  Ids = {0, 1000, 2000}
  Environments <- MCEnvironments
  Tails <- MCTails
  Changes <- MCChanges
  Paths <- MCPaths
  Names <- MCNames
  Sockets <- MCSockets
  MaxCalls = 3
  MaxUses = 1
  Places <- MCPlaces
  Fingers = {0, 1}
  Keys = {"home"}
  FifoCap = 4
  MaxTouches = 3
  MaxInits = 2
  Readings <- MCReadings
  Factory <- MCFactory
  MaxUpdates = 2
  MaxResets = 1
  MaxLost = 1
  MaxMixed = 2
INVARIANTS GuestTypeOK ReadsTheEnvironment LoneSetterSticks NamesMeet LastCallShows GuestSeesWhatTheUserSees
PROPERTY HangsOnlyByBinder
CHECK_DEADLOCK FALSE

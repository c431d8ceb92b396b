SPECIFICATION FairSpec
CONSTANTS
  short = short
  Boots = {live}
  long = long
  Keys = {k1}
  Values = {short, long}
  Width <- MCWidth
  MaxWidth = 1
  Unset = Unset
  NoKey = NoKey
  Debuggable = k1
  Defaults <- MCDefaults
  BuildProps <- MCBuildProps
  Torn = Torn
  MaxStarts = 2
  MaxSets = 2
INVARIANTS LoneFlushShows ServesOnlyWhileOn
PROPERTY CallsReturn
CHECK_DEADLOCK FALSE

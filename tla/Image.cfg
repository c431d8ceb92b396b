SPECIFICATION Spec
CONSTANTS
  Images <- MCImages
  Storage <- MCStorage
  Volume <- MCVolume
  Layout <- MCLayout
  Whole <- MCWhole
  Inos <- MCInos
  Names <- MCNames
  NoName = NoName
  Paths <- MCPaths
  Fds = {1, 2}
  BlockSize = 2
  MaxSelects = 2
  MaxReads = 1
  MaxFiles = 1
INVARIANTS ReadIsTheFile BlocksAsWritten ReadsTheSelected
CHECK_DEADLOCK FALSE

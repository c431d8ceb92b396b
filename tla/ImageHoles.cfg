SPECIFICATION Spec
CONSTANTS
  Images <- HolesImages
  Storage <- HolesStored
  Volume <- HolesStored
  Layout <- HolesLayout
  Whole <- HolesImages
  Inos <- MCInos
  Names <- MCNames
  NoName = NoName
  Paths <- MCPaths
  Fds = {1}
  BlockSize = 2
  MaxSelects = 1
  MaxReads = 1
  MaxFiles = 1
INVARIANT ReadIsTheFileWithHoles
CHECK_DEADLOCK FALSE

SPECIFICATION FairSpec
CONSTANTS
  MaxEntries = 2
  Slots = 2
  Packets <- MCPackets
  Readers = {r1}
  NoReader = NoReader
  SendBuffer = 1
  MaxSeq = 4
  QueueCap = 1
INVARIANTS RingIsAWindow RingKeepsTheNewest ClientSeesNoGap
PROPERTIES SilentWhenStopped NoEarlyOverwrite StopReturns
CHECK_DEADLOCK FALSE

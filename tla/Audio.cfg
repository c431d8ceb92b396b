SPECIFICATION FairSpec
CONSTANTS
  RingSize = 4
  Chunk = 2
  Sample = {0, 1, 2, 3, 4, 5, 6}
  Chimes <- MCChimes
  Players = {p1, p2}
  MaxChimes = 3
PROPERTIES ImplementsFifo OldPlayerEnds RingDrains
CHECK_DEADLOCK FALSE

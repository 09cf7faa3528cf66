SPECIFICATION FairSpec
CONSTANTS
  Threshold = 2
  BufferSize = 8
  CounterSpace = 4
  Word = 3
  MaxSlrc = 2
  First = 0
  MaxPackets = 6
  MaxLosses = 3
INVARIANTS
  ListsSound
  HandedUpOnce
PROPERTY Resolved
CHECK_DEADLOCK FALSE

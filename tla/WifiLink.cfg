SPECIFICATION FairSpec
CONSTANTS
  Sizes = {1, 4, 8}
  Overhead = 1
  Threshold = 2
  RtsThreshold = 2
  MaxSsrc = 2
  MaxSlrc = 2
  SeqSpace = 4
  FragSpace = 4
  MaxPackets = 2
  MaxBeacons = 2
  MaxBroadcasts = 3
  MaxSwitches = 2
INVARIANTS
  Intact
  AckedDelivered
  TriesBounded
PROPERTIES
  OnceInOrder
  Resolved
CHECK_DEADLOCK FALSE

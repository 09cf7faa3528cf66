SPECIFICATION FairSpec
CONSTANTS
  MaxPendingReads = 2
  MaxCalls = 4
  MaxFrames = 4
INVARIANTS
  ReadsLimited
PROPERTY
  StopReturnsUnlessStuck
CHECK_DEADLOCK FALSE

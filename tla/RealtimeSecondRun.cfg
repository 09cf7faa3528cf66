SPECIFICATION Spec
CONSTANTS
  Contexts = {c1}
  NoContext = NoContext
  Delays = {0, 2}
  Epoch = 1
  MaxUid = 7
  MaxTs = 3
  MaxStart = 2
  MaxRuns = 2
INVARIANT RealtimeNotBehind
CHECK_DEADLOCK FALSE

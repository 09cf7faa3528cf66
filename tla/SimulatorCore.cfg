SPECIFICATION Spec
CONSTANTS
  Contexts = {c1}
  NoContext = NoContext
  Delays = {0, 1}
  MaxUid = 8
INVARIANTS
  ExpiredIffNotPending
  CalledOffNeverRuns
  EventsRunInOrder
  DestroyEventsRunInOrder
PROPERTY ImplementsEventLoop
CHECK_DEADLOCK FALSE

SPECIFICATION FairSpec
CONSTANTS
  Aifsn <- TwoCategories
  CwMin = 0
  CwMax = 1
  Sifs = 1
  SlotTime = 1
  EifsNoDifs = 3
  TxKinds = {"data", "rts"}
  RxKinds = {"data", "rts", "cts", "ack", "error"}
  FrameTime = 2
  DataTime = 3
  Timeout = 4
  SwitchTime = 2
  MaxTries = 2
  Lifetimes = FALSE
  MaxPackets = 1
  MaxHeard = 2
  MaxSwitches = 0
INVARIANTS
  AssertionsHold
  NoneStranded
PROPERTIES
  NoIntrusion
  PromptAccess
  RequestServed
CHECK_DEADLOCK FALSE

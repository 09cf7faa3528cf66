SPECIFICATION Spec
CONSTANTS
  Aifsn <- OneCategory
  CwMin = 1
  CwMax = 3
  Sifs = 1
  SlotTime = 1
  EifsNoDifs = 3
  TxKinds = {"group", "rts", "bar"}
  RxKinds = {"data", "cts", "ack", "ba"}
  FrameTime = 2
  DataTime = 3
  Timeout = 4
  SwitchTime = 2
  MaxTries = 2
  Lifetimes = TRUE
  MaxPackets = 2
  MaxHeard = 2
  MaxSwitches = 1
INVARIANTS
  AssertionsHold
  NoneStranded
PROPERTIES
  BackoffServed
CHECK_DEADLOCK FALSE

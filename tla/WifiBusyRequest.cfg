SPECIFICATION Spec
CONSTANTS
  Aifsn <- OneCategory
  CwMin = 1
  CwMax = 1
  Sifs = 1
  SlotTime = 1
  EifsNoDifs = 3
  TxKinds = {"data"}
  RxKinds = {"data"}
  FrameTime = 2
  DataTime = 3
  Timeout = 4
  SwitchTime = 2
  MaxTries = 1
  Lifetimes = FALSE
  MaxPackets = 1
  MaxHeard = 1
  MaxSwitches = 0
PROPERTY CollisionNotified
CHECK_DEADLOCK FALSE

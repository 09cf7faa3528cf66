SPECIFICATION FairSpec
CONSTANTS
  Hosts = {"a", "b"}
  AliveTimeout = 3
  DeadTimeout = 1
  WaitReplyTimeout = 2
  MaxRetries = 1
  PendingQueueSize = 2
  MaxPackets = 4
  MaxFlaps = 2
INVARIANTS NeverFatal NoneStranded SentInOrder
PROPERTIES GivenUpInTime Resolved
CHECK_DEADLOCK FALSE

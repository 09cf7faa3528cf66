SPECIFICATION Spec
CONSTANTS
  Interfaces = {wired, flyway}
  wired = wired
  flyway = flyway
  Bits = 2
  Metrics = {0, 1}
  MaxMetric = 1
  Total = 3
  Splits <- MCSplits
  Networks <- MCNetworks
  Locals <- MCLocals
  Hosts = {1}
  MaxRoutes = 3
  MaxFractional = 2
  MaxAddresses = 2
SYMMETRY InterfaceSymmetry
INVARIANTS LookupBest SharesExact LookupUsable
CHECK_DEADLOCK FALSE

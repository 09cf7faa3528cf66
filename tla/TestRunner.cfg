SPECIFICATION FairSpec
CONSTANTS
  Suites = {s1, s2}
  Examples = {e1}
  PyExamples = {p1}
  GrindSkips = {s1}
  Workers = {w1, w2}
  None = None
INVARIANTS
  NoneLost
  VerdictHonest
  ReportComplete
PROPERTY Finishes
CHECK_DEADLOCK FALSE

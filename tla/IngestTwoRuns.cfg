SPECIFICATION Spec
CONSTANTS
  Runs = {r1, r2}
  SnakeJobs = {j1}
  JobZero = j0
  RowIds = {i1, i2, i3}
  RuleNames = {a}
  None = None
  Kinds <- PairKinds
  MaxReports = 4
  MaxLosses = 1
  MaxLate = 1
  MaxCrashes = 0
SYMMETRY RowSymmetry
INVARIANTS ContextPointsHome
CHECK_DEADLOCK FALSE

SPECIFICATION AdminSpec
CONSTANTS
  Runs = {r1}
  SnakeJobs = {j1}
  JobZero = j0
  RowIds = {i1, i2}
  RuleNames = {a}
  None = None
  Kinds <- DeleteKinds
  MaxReports = 4
  MaxLosses = 0
  MaxLate = 1
  MaxCrashes = 0
  MaxAdmin = 1
SYMMETRY RowSymmetry
INVARIANTS AdminTypeOK DeletedIsGone PruneSparesRuns
CHECK_DEADLOCK FALSE

SPECIFICATION Spec
CONSTANTS
  Runs = {r1}
  SnakeJobs = {j1}
  JobZero = j0
  RowIds = {i1, i2}
  RuleNames = {a}
  None = None
  Kinds <- ErrorKinds
  MaxReports = 4
  MaxLosses = 0
  MaxLate = 0
  MaxCrashes = 0
INVARIANTS SuccessMailMeansNoError
CHECK_DEADLOCK FALSE

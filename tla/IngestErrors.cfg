SPECIFICATION Spec
CONSTANTS
  Runs = {r1}
  SnakeJobs = {j0, j1}
  JobZero = j0
  RowIds = {i1, i2}
  RuleNames = {a}
  None = None
  Kinds <- ErrorKinds
  MaxReports = 4
  MaxLosses = 1
  MaxLate = 1
  MaxCrashes = 1
SYMMETRY RowSymmetry
INVARIANTS TypeOK NoEarlySuccess TablesExplained NoFalseFailure
PROPERTIES SuccessIsFinal
CHECK_DEADLOCK FALSE

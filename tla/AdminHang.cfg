SPECIFICATION FairAdminSpec
CONSTANTS
  Runs = {r1}
  SnakeJobs = {j1}
  JobZero = j0
  RowIds = {i1}
  RuleNames = {a}
  None = None
  Kinds <- PruneKinds
  MaxReports = 3
  MaxLosses = 0
  MaxLate = 0
  MaxCrashes = 0
  MaxAdmin = 1
PROPERTIES EveryReportServed
CHECK_DEADLOCK FALSE

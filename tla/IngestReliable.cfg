SPECIFICATION FairSpec
CONSTANTS
  Runs = {r1}
  SnakeJobs = {j1, j2}
  JobZero = j0
  RowIds = {i1, i2, i3}
  RuleNames = {a}
  None = None
  Kinds <- JobKinds
  MaxReports = 6
  MaxLosses = 0
  MaxLate = 0
  MaxCrashes = 0
INVARIANTS RowsMirrorSnakemake VerdictFollowsJobErrors
PROPERTIES ClosedRunSettles
CHECK_DEADLOCK FALSE

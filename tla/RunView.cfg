SPECIFICATION RvSpec
CONSTANTS
  Missing = Missing
  Nothing = Nothing
  NoRule = NoRule
  NoStatus = NoStatus
  align = align
  sort = sort
  Jobs = {1, 2, 3}
  RuleOf <- MCRuleOf
  StartJobs <- MCStartJobs
  Above = {"progress","status"}
  JobPanels = {"log"}
  Sizes = {1, 2}
  FirstSize = 1
  QueueSize = 1
  MaxEvents = 2
INVARIANTS RvTypeOK  PageExists
CHECK_DEADLOCK FALSE

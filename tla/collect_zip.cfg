SPECIFICATION MCSpec
CONSTANTS
  Permit = 2
  Capacity = 4
  Slack = 1
  Margin = 2
  Callers = {r1}
  Horizon = 6
  MaxGiven = 4
  MaxRewound = 1
  Runners = {r1}
  Targets = {"t1"}
  LastItem = 2
  TargetOf <- OneTarget
  SkipsFailed = FALSE
  LastDate = 2
  Quiet = {2}
  RecordsAll = TRUE
  MayFail = FALSE
INVARIANT RecordsMatchEvents

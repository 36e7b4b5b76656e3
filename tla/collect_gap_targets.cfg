SPECIFICATION MCSpec
CONSTANTS
  Permit = 2
  Capacity = 4
  Slack = 1
  Margin = 2
  Callers = {r1}
  Horizon = 6
  MaxGiven = 4
  MaxRewound = 1
  Runners = {r1}
  Targets = {"t1", "t2"}
  LastItem = 3
  TargetOf <- TwoTargets
  SkipsFailed = TRUE
  LastDate = 2
  Quiet = {}
  RecordsAll = FALSE
  MayFail = FALSE
INVARIANT NoGaps

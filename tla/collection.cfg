SPECIFICATION MCSpec
CONSTANTS
  Permit = 2
  Capacity = 4
  Slack = 1
  Margin = 2
  Callers = {r1, r2}
  Horizon = 6
  MaxGiven = 4
  MaxRewound = 1
  Runners = {r1, r2}
  Targets = {"t1"}
  LastItem = 3
  TargetOf <- OneTarget
  SkipsFailed = TRUE
  LastDate = 2
  Quiet = {}
  RecordsAll = FALSE
  MayFail = TRUE
SYMMETRY Symmetry
INVARIANTS GrantsBounded NoGaps RecordsMatchEvents CreatedAreHandled

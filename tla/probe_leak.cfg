\* The calls of http.cfg.
SPECIFICATION MCSpec
CONSTANTS
  FailureThreshold = 2
  SuccessThreshold = 2
  BaseCooldown = 1
  MaxCooldown = 3
  FailureCap = 2
  Requests = {r1, r2}
  MaxRetries = 1
  LimiterMayFail = TRUE
  Runner = runner
INVARIANT ProbeFlagIsHeldByACall

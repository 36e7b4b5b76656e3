SPECIFICATION EnrichmentSpec
CONSTANTS
  Events = {e1, e2, e3}
  Poison = {}
  Rank <- PoisonFirst
  Passes = {k1}
  Concurrency = 2
  BatchSize = 2
  DbMayFail = FALSE
  Nothing = Nothing
PROPERTY VerdictSticks

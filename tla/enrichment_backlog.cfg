SPECIFICATION EnrichmentFairSpec
CONSTANTS
  Events = {e1, e2, e3}
  Poison = {e1}
  Rank <- PoisonFirst
  Passes = {k1}
  Concurrency = 1
  BatchSize = 2
  DbMayFail = TRUE
  Nothing = Nothing
PROPERTY HealthyEventsEnriched

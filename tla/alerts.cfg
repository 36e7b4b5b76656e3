\* A pool has the name of a processor: one of the two systems is at rest, so that
\* what swaps the ones may swap the others.
SPECIFICATION MCSpec
CONSTANTS
  Processors = {p1, p2}
  Alerts = {a1}
  Channels = {c1, c2}
  Cooldowns = {0, 1}
  Horizon = 2
  MaxFirings = 2
  MayAbandon = TRUE
  NoAlert = NoAlert
  Events = {e1, e2}
  Poison = {}
  Rank <- PoisonFirst
  Passes = {p1, p2}
  Concurrency = 2
  BatchSize = 2
  DbMayFail = TRUE
  Nothing = Nothing
\* The engine comes to rest at the clock's horizon.
CHECK_DEADLOCK FALSE
SYMMETRY Symmetry
INVARIANTS SpacedFirings RowMatchesHistory PoolsSound VerdictsReachAlerts
PROPERTIES ImplementsDelivery

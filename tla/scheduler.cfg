\* Three invocations and four timers of the scheduler; the worker's jobs with up
\* to two runs each; containers over every graph of three tokens.
SPECIFICATION MCSpec
CONSTANTS
  Ticks = {k1, k2, k3}
  Timers = {t1, t2, t3, t4}
  NoTimer = NoTimer
  Override = 1
  Cadences = {5, 15}
  BackoffCap = 10
  MaxRunNows = 2
  Token = {"redis", "cache", "rateLimiter", "circuitBreaker", "realtime", "view"}
  Singleton = {"redis", "cache", "rateLimiter", "circuitBreaker", "realtime"}
  Disposers <- MCDisposers
  Graphs <- MCGraphs
  Run = {"run"}
  Roots <- MCRoots
  Jobs = {"market alerts", "report"}
  MaxFlights = 2
CHECK_DEADLOCK FALSE
INVARIANTS ChainsBounded DependenciesOutlive
PROPERTIES ImplementsPolling CadenceFloor PollsForever StopEnds StopsInOrder

\* Four events, pages of two, two queries in flight, two refreshes; two
\* questions to a model that says up to three tokens; three changes of the text.
CONSTANTS
  Event = {1, 2, 3, 4}
  OccurredAt <- MCOccurredAt
  CoinOf <- MCCoinOf
  ClusterOf <- MCClusterOf
  Mentioning <- MCMentioning
  Backlogs <- MCBacklogs
  Filters <- MCFilters
  None = None
  PageSize = 2
  Cap = 3
  MaxRequests = 2
  MaxRefreshes = 2
  StaleAfter = 2
  HeartbeatAfter = 1
  Token = {"a", "b", "c"}
  Responses <- MCResponses
  Junk = Junk
  Done = Done
  Notice = Notice
  MaxQuestions = 2
  MaxKeys = 3
SPECIFICATION MCSpec
INVARIANTS NoDuplicateRows NoHoles AnswersFaithful ResultsMoveForward
PROPERTIES EndReached LiveAgain AsksEnd
CHECK_DEADLOCK FALSE

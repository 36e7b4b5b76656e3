\* Five reports over four hours, a window of two hours, three candidates; three
\* coins, two requests that add them, and two polled coins; the inputs of the pure
\* services are sets of MCServices.
CONSTANTS
  Report = {1, 2, 3, 4, 5}
  OccurredAt <- MCOccurredAt
  Url <- MCUrl
  Headline <- MCHeadline
  Similarity <- MCSimilarity
  None = None
  NotFinite = NotFinite
  Negator = Negator
  Plain = Plain
  Missing = Missing
  Unknown = Unknown
  Failed = Failed
  Null = Null
  Matchable = {1, 2, 3}
  InterestCap = 1
  AmbiguousTicker = {3}
  AmbiguousName = {3}
  MaxMatches = 2
  WindowHours = 2
  CandidateCap = 3
  LastHour = 3
  Coin = {1, 2, 3}
  Rank <- MCRank
  Request = {r1, r2}
  PollLimit = 2
  Replica = {r1, r2}
  Pair = {"p", "q"}
  LastMoment = 1
  MaxPosition = 2
SPECIFICATION MCSpec
SYMMETRY Symmetry
INVARIANTS StoriesApart StoriesTogether ServicesSound QueriesSound AnswersReadBack ListingsDated
PROPERTIES RosterSound
CHECK_DEADLOCK FALSE

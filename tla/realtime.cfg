SPECIFICATION MCSpec
CONSTANTS
  Streams = {s1, s2, s3}
  LastChannel = 1
  Clients = {k1, k2, k3}
  None = None
  RedisMayFail = TRUE
  Caller = {c1, c2}
  Key = {"k", "l"}
  Entries = 1
  NoOne = NoOne
  Ttl = {1}
  LastMoment = 1
CHECK_DEADLOCK FALSE
INVARIANTS SubscribersFed NothingLeftBehind FlightsShared
PROPERTIES NobodyWaitsForever

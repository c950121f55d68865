\* Two requests at a time, a map of two, three sessions, one crash.
SPECIFICATION FairSpec
CONSTANTS
  Handlers = {h1, h2}
  Nobody = Nobody
  MaxSessions = 2
  QueueCap = 1
  MaxIds = 3
  MaxSubmit = 2
  MaxCrashes = 1
INVARIANTS TypeOK CapHolds ToldIsDurable
PROPERTIES CreateAnswered EvictedIsFreed
\* A server that nobody asks for anything rests.
CHECK_DEADLOCK FALSE

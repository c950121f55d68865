\* Two requests at a time, a map of two, three sessions.
SPECIFICATION Spec
CONSTANTS
  Handlers = {h1, h2}
  Nobody = Nobody
  MaxSessions = 2
  QueueCap = 1
  MaxIds = 3
  MaxSubmit = 2
  MaxCrashes = 1
INVARIANT RunningNeverEvicted
\* A server that nobody asks for anything rests.
CHECK_DEADLOCK FALSE

\* Runs of up to two turns with up to two tools each, a full queue, two crashes,
\* a history cap that cuts, a log that drops nothing.
SPECIFICATION FairSpec
CONSTANTS
  QueueCap = 1
  TurnLimit = 2
  HistCap = 4
  LogCap = 40
  MaxUses = 2
  MaxCalls = 4
  MaxSubmit = 2
  MaxCrashes = 2
INVARIANTS TypeOK RequestsPaired CallsAnswered QuietWhenWaiting StateIsReplay ActiveRunRestored
PROPERTIES InterruptStops FullQueueDrains
\* An idle session that nobody submits to rests.
CHECK_DEADLOCK FALSE

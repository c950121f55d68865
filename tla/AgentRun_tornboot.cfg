\* A crash in a run and another in the boot behind it.
SPECIFICATION Spec
CONSTANTS
  QueueCap = 1
  TurnLimit = 2
  HistCap = 8
  LogCap = 40
  MaxUses = 1
  MaxCalls = 2
  MaxSubmit = 2
  MaxCrashes = 2
INVARIANT ConversationContinues
\* An idle session that nobody submits to rests.
CHECK_DEADLOCK FALSE

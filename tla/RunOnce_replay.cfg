\* Attaching to a session in which another client has run something.
SPECIFICATION Spec
CONSTANTS
  LogCap = 9
  ChanCap = 2
  Commands <- MCCommands
  MaxOthers = 1
  MaxTools = 1
  MaxBreaks = 0
INVARIANT ReplayCountsForNothing
\* The program ends.
CHECK_DEADLOCK FALSE

\* One run of our own and one of another client, a log of three events, a
\* channel for one, a connection that breaks once.
SPECIFICATION FairSpec
CONSTANTS
  LogCap = 3
  ChanCap = 1
  Commands <- MCCommands
  MaxOthers = 1
  MaxTools = 1
  MaxBreaks = 1
INVARIANTS TypeOK ShownOnce GapsAreDropped CommandsOnce SuccessIsDeserved
PROPERTY CatchesUp
\* The program ends.
CHECK_DEADLOCK FALSE

\* Two emitters racing, a disk that works, two crashes, rotation at every
\* second event; two messages, so that a number given twice shows.
SPECIFICATION HSpec
CONSTANTS
  Emitters = {agent, handler}
  Clients = {c1}
  Msg = {m1, m2}
  NoOne = NoOne
  LogCap = 2
  BufCap = 1
  RotateEvery = 2
  RestoreEvents = 2
  DiskMayFail = FALSE
  MaxSeq = 4
  MaxCrashes = 2
INVARIANTS TypeOK GapFree RestartRestoresLog NothingSeenIsLost
PROPERTY IsAStream

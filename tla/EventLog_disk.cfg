\* A disk that fails at any write, rename or open, two connections.
SPECIFICATION FairSpec
CONSTANTS
  Emitters = {agent, handler}
  Clients = {c1, c2}
  Msg = {m}
  NoOne = NoOne
  LogCap = 2
  BufCap = 1
  RotateEvery = 2
  RestoreEvents = 1
  DiskMayFail = TRUE
  MaxSeq = 4
  MaxCrashes = 1
INVARIANT Ordered
PROPERTY Delivered

\* One background child, a channel for one chunk, a result that keeps less
\* than may be written, and a provider that is told less than that.
SPECIFICATION FairSpec
CONSTANTS
  Kids = {k1}
  Width <- MCWidth
  ChanCap = 1
  AccCap = 10
  ResultCap = 8
  MaxWrites <- MCWrites
INVARIANTS GroupIsDead OutputIsFaithful SuccessIsWhole CutIsTold
PROPERTY CallEnds
\* The call ends.
CHECK_DEADLOCK FALSE

CONSTANTS
  m1 = m1
  m2 = m2
  big = big
  Msgs <- MsgPair
  WantAck <- MsgPair
  Larges <- OneLarge
  Total = 2
  PoolSize = 3
  QueueDepth = 3
  FragRetryMax = 1
  MaxIrq = 2
  MaxDuty = 0
SPECIFICATION Spec
SYMMETRY Alike
INVARIANT OneOwner
INVARIANT StopAndWait
INVARIANT SessionNotForgotten
INVARIANT LargeOkMeansAll
INVARIANT LostIrqHarmless
PROPERTY ReportOnce
CHECK_DEADLOCK FALSE

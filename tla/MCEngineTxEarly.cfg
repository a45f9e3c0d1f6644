CONSTANTS
  m1 = m1
  m2 = m2
  big = big
  Msgs <- MsgPair
  WantAck <- MsgPair
  Larges <- OneLarge
  Total = 2
  PoolSize = 3
  QueueDepth = 3
  FragRetryMax = 1
  MaxIrq = 2
  MaxDuty = 1
SPECIFICATION Spec
SYMMETRY Alike
INVARIANT NoEarlyTimeout
CHECK_DEADLOCK FALSE

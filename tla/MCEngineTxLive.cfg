CONSTANTS
  m1 = m1
  m2 = m2
  big = big
  Msgs <- MsgPair
  WantAck <- MsgPair
  Larges <- OneLarge
  Total = 2
  PoolSize = 2
  QueueDepth = 2
  FragRetryMax = 1
  MaxIrq = 1
  MaxDuty = 1
SPECIFICATION FairSpec
INVARIANT FragmentReserve
PROPERTY Settles
CHECK_DEADLOCK FALSE

CONSTANTS
  m1 = m1
  m2 = m2
  big = big
  Msgs <- OneMsg
  WantAck <- OneMsg
  Larges <- OneLarge
  Total = 2
  PoolSize = 2
  QueueDepth = 2
  FragRetryMax = 1
  MaxIrq = 2
  MaxDuty = 1
SPECIFICATION Spec
INVARIANT DeferredOnlyInSession
CHECK_DEADLOCK FALSE

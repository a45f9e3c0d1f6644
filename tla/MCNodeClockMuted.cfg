CONSTANTS
  OffTime = 2
  Second = 2
  CommitMin = 2
  MaxTime = 4
  TimeOnAir = 1
  QueueDepth = 1
  MaxSends = 1
  MaxBoots = 0
  MaxBegins = 1
SPECIFICATION Spec
INVARIANT WaitIsEarned
CHECK_DEADLOCK FALSE

CONSTANTS
  OffTime = 2
  Second = 2
  CommitMin = 2
  MaxTime = 4
  TimeOnAir = 1
  QueueDepth = 1
  MaxSends = 2
  MaxBoots = 1
  MaxBegins = 2
SPECIFICATION Spec
INVARIANT OneDriver
INVARIANT NoUseAfterFree
INVARIANT RecordKeepsUp
PROPERTY OffTimeKept
CHECK_DEADLOCK FALSE

CONSTANTS
  OffTime = 1
  Second = 2
  CommitMin = 1
  MaxTime = 2
  TimeOnAir = 1
  QueueDepth = 1
  MaxSends = 2
  MaxBoots = 1
  MaxBegins = 2
SPECIFICATION FairSpec
INVARIANT OneDriver
INVARIANT NoUseAfterFree
INVARIANT RecordKeepsUp
PROPERTY OffTimeKept
PROPERTY WorkerStops
CHECK_DEADLOCK FALSE

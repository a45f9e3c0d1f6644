CONSTANTS
  i1 = i1
  i2 = i2
  i3 = i3
  o1 = o1
  o2 = o2
  Incoming <- ThreeIn
  Outgoing <- TwoOut
  Calls <- AllCalls
  MaxRetries = 1
  RxDepth = 2
  MaxLate = 1
  MaxFaults = 2
  MaxCalls = 3
SPECIFICATION FairSpec
INVARIANT AckPopsItsOwn
INVARIANT AckMeansQueued
INVARIANT ReadInOrder
PROPERTY CallEnds
CHECK_DEADLOCK FALSE

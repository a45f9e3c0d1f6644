CONSTANTS
  i1 = i1
  i2 = i2
  i3 = i3
  o1 = o1
  o2 = o2
  Incoming <- ThreeIn
  Outgoing <- OneOut
  Calls <- GetAndConf
  MaxRetries = 1
  RxDepth = 2
  MaxLate = 0
  MaxFaults = 2
  MaxCalls = 4
SPECIFICATION Spec
INVARIANT PopMeansGot
CHECK_DEADLOCK FALSE

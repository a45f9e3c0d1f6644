CONSTANTS
  SeqSpace = 8
  WindowBits = 2
  MaxPeers = 1
  SeenSize = 2
  Nodes <- Three
  Neighbours <- Line
  Strong <- NoneStrong
  Messages <- Traffic
  Broadcast <- All
  AckHops = 1
  FirstSeq = 7
  Strategies <- BothKinds
  NextHop <- Routes
  FwdDepth = 2
  FwdRetryMax = 1
  AckDepth = 1
  AckRetryMax = 1
  MaxFaults = 1
SPECIFICATION Spec
INVARIANT NoDuplicates
INVARIANT OkMeansHanded
PROPERTY NoFreshRefused
INVARIANT WithinBudget
INVARIANT BroadcastReaches
CHECK_DEADLOCK FALSE

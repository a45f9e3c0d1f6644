CONSTANTS
  a = a
  b = b
  Sources <- TwoSources
  AckSources <- OnlyA
  Sends <- OneAndTwo
  Totals = {2}
  IdSpace = 4
  Slots = 1
  RetryMax = 1
  LongWaits = TRUE
  MaxWaits = 1
  MaxRestarts = 1
SPECIFICATION Spec
INVARIANT NoSplice
INVARIANT AckedIsKept
PROPERTY Implements
CHECK_DEADLOCK FALSE

CONSTANTS
  a = a
  b = b
  Sources <- OnlyA
  AckSources <- OnlyA
  Sends <- JustA
  Totals = {2}
  IdSpace = 4
  Slots = 1
  RetryMax = 1
  LongWaits = TRUE
  MaxWaits = 2
  MaxRestarts = 0
SPECIFICATION Spec
INVARIANT NoFalseSuccess
CHECK_DEADLOCK FALSE

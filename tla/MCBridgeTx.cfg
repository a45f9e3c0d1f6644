CONSTANTS
  near = near
  too = too
  far = far
  big = big
  Msgs <- FourMsgs
  Bytes <- Lengths
  Unreachable <- OutOfRange
  MaxQueued = 2
  MaxBytes = 3
  FastAttempts = 2
SPECIFICATION FairSpec
INVARIANT NothingLost
INVARIANT VerdictIsOurs
INVARIANT PayloadKept
PROPERTY NoWedge
CHECK_DEADLOCK FALSE

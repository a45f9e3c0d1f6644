CONSTANTS
    Skip = 2
    SeqMod = 8
    Sec = TRUE
    MaxSeq = 9
SPECIFICATION CounterSpec
INVARIANT CounterTypeOK
INVARIANT ReuseOnlyAfterLoss
INVARIANT LastSavedIsStored
CHECK_DEADLOCK FALSE

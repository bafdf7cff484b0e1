SPECIFICATION FairSpec
CONSTANTS
    Adders = {a1, a2, a3}
    Capacity = 3
    MaxMessages = 5
    MaxPauses = 1
    End = End
    Unset = Unset
CHECK_DEADLOCK FALSE

PROPERTY PauseReturns

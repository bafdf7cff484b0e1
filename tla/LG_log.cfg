SPECIFICATION FairSpec
CONSTANTS
    Adders = {a1, a2, a3}
    Capacity = 3
    MaxMessages = 5
    MaxPauses = 2
    End = End
    Unset = Unset
CHECK_DEADLOCK FALSE
INVARIANTS TypeOK PrintedInOrder PausedIsFlushed
PROPERTIES NoWriteUnderFlush AddReturns AcceptedIsPrinted

SPECIFICATION FairSpec
CONSTANTS
    Requests = {r1, r2}
    Main = Main
    Laggards = {}
    MayTerminate = FALSE
    MaxSleeps = 1
CHECK_DEADLOCK FALSE
PROPERTY PostedIsProcessed

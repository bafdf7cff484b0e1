SPECIFICATION FairSpec
CONSTANTS
    Requests = {r1, r2, r3}
    Main = Main
    Laggards = {}
    MayTerminate = TRUE
    MaxSleeps = 3
CHECK_DEADLOCK FALSE
INVARIANTS TypeOK MainHasModel NoForgottenWaiter OnlyMainIsNotified
PROPERTIES GateOpens AwakeServes

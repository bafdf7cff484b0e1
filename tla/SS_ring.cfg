SPECIFICATION Spec
CONSTANTS
    p1 = p1
    p2 = p2
    g1 = g1
    g2 = g2
    d1 = d1
    v1 = v1
    None = None
    Convs = {v1}
    Producers = {p1, p2}
    Consumers = {g2}
    Stops = {d1}
    Mode2 = "plain"
    Conv <- MCConv
    Mode <- MCMode
    From <- MCFrom
    ChunkSizes = {1, 3}
    CapBytes = 2
    MaxBytes = 4
    MayFail = {p2}
    MayLeave = {p1, g2}
    MayExpire = TRUE
    MayShutdown = TRUE
INVARIANTS TypeOK RingIsSuffix ReplayExact TailKept RunningIsResumable RemovedIsFinalized OneLiveSession ShortOnlyIfLost
CHECK_DEADLOCK FALSE

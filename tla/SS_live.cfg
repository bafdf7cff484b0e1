SPECIFICATION FairSpec
CONSTANTS
    p1 = p1
    p2 = p2
    g1 = g1
    g2 = g2
    d1 = d1
    v1 = v1
    None = None
    Convs = {v1}
    Producers = {p1, p2}
    Consumers = {g1}
    Stops = {d1}
    Mode2 = "plain"
    Conv <- MCConv
    Mode <- MCMode
    From <- MCFrom
    ChunkSizes = {1}
    CapBytes = 1
    MaxBytes = 1
    MayFail = {p2}
    MayLeave = {p1}
    MayExpire = FALSE
    MayShutdown = TRUE
PROPERTIES ReadersEnd CancelledUnwinds
CHECK_DEADLOCK FALSE

SPECIFICATION FairSpec
CONSTANTS
    r1 = r1  r2 = r2  r3 = r3  r4 = r4
    p = p  c = c  t = t  u = u  a = a  m = m
    s1 = s1
    NoTask = NoTask  NoSlot = NoSlot  NoReader = NoReader
    Readers = {r1, r3}
    Tasks = {p, c, a}
    Slots = {s1, s2}
    Owner <- MCOwner
    Parent <- MCParent
    Kind <- MCKind
    IdSlot <- MCIdSlot
    Posts <- MCPosts
    MayFail = {p, c}
    MayDisconnect = {r1}
    MayAbort = TRUE
    MayTerminate = FALSE
    MaxTokens = 1
    EmptyPrompt = {p, c}
    HighPriority = {r4}
CHECK_DEADLOCK FALSE
PROPERTY AbandonedSlotsFreed

SPECIFICATION Spec
CONSTANTS
    Items = {a, b}
    Writers = {w1, w2}
    NoState = NoState
    Alone = {}
    MaxRecords = 2
    MaxMishaps = 1
CHECK_DEADLOCK FALSE
PROPERTIES NoLostUpdate

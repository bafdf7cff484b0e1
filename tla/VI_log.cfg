SPECIFICATION Spec
CONSTANTS
    Items = {a, b}
    Writers = {w1, w2}
    NoState = NoState
    Alone = {"snapshot", "rebase"}
    MaxRecords = 3
    MaxMishaps = 3
SYMMETRY Symmetry
CHECK_DEADLOCK FALSE
INVARIANTS TypeOK NothingLost RecoveryWorks
PROPERTIES NoLostUpdate HandleMatchesFiles

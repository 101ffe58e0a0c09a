SPECIFICATION Spec
CONSTANTS
    NoCall = NoCall
    NoConn = NoConn
    Editors = {e1}
    Loads = {}
    Calls = {e1}
    Conns = {c1, c2, c3}
    KEEP = 1
    MaxBatch = 3
    QueryTimeout = TRUE
    MayClose = FALSE
    Mishaps = {}
    StopKeepsTransaction = FALSE
    TypeLookups = TRUE
    e1 = e1
    c1 = c1
    c2 = c2
    c3 = c3
SYMMETRY Symmetry
INVARIANTS
    TypeOK
    BarTellsTruth
    OneSession
    NoSilentLoss
    AtMostOneAfterStop
PROPERTIES
    CutShortKeepsTransaction

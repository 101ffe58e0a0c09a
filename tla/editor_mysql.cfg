SPECIFICATION FairSpec
CONSTANTS
    NoCall = NoCall
    NoConn = NoConn
    Editors = {e1}
    Loads = {}
    Calls = {e1}
    Conns = {c1, c2}
    KEEP = 1
    MaxBatch = 2
    QueryTimeout = TRUE
    MayClose = FALSE
    Mishaps = {"stop in ping", "end at note", "break in wind-down"}
    StopKeepsTransaction = TRUE
    TypeLookups = FALSE
    e1 = e1
    c1 = c1
    c2 = c2
PROPERTIES
    StopEnds

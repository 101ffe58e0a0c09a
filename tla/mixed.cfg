SPECIFICATION Spec
CONSTANTS
    NoCall = NoCall
    NoConn = NoConn
    Editors = {e1}
    Loads = {l1}
    Calls = {e1, l1}
    Conns = {c1, c2}
    KEEP = 1
    MaxBatch = 1
    QueryTimeout = FALSE
    MayClose = TRUE
    Mishaps = {"stop in ping", "end at note", "break in wind-down"}
    StopKeepsTransaction = FALSE
    TypeLookups = FALSE
    e1 = e1
    l1 = l1
    c1 = c1
    c2 = c2
SYMMETRY Symmetry
VIEW WithoutHistory
\* A driver that was put away starts nothing more.
CHECK_DEADLOCK FALSE
INVARIANTS
    OneHolder
    KeptAreReady
    CancelAimsTrue

\* With every connection removed and the bound on tabs reached the user has
\* nothing left to do, so a window may come to rest.
SPECIFICATION Spec
CHECK_DEADLOCK FALSE
SYMMETRY Symmetry
CONSTANTS
  Conns = {c1, c2}
  NoConn = NoConn
  Tables = {t1}
  Query = Query
  MaxTabs = 1
  MaxTasks = 1
  MaxSeq = 1
  MaxDials = 2
  MaxLists = 1
INVARIANTS HandlesAreLive ConnectingWillEnd

\* With every connection removed and the bound on tabs reached the user has
\* nothing left to do, so a window may come to rest.
SPECIFICATION Spec
CHECK_DEADLOCK FALSE
SYMMETRY Symmetry
CONSTANTS
  Conns = {c1}
  NoConn = NoConn
  Tables = {t1, t2}
  Query = Query
  MaxTabs = 2
  MaxTasks = 2
  MaxSeq = 2
  MaxDials = 1
  MaxLists = 1
INVARIANTS TypeOK TableRowsAreOwn FooterCounts HandlesReach
PROPERTY NewestWins

\* A window waits for the user, who can always go on.
SPECIFICATION NarrowSpec
SYMMETRY Alike
CONSTANTS
  c1 = c1
  c2 = c2
  t1 = t1
  t2 = t2
  Conns = {c1, c2}
  NoConn = NoConn
  Production = {c1, c2}
  Tables = {t1, t2}
  Catalog <- Both
  Rows = {r1}
  Texts = {a}
  Bad = Bad
  Stored = Stored
  Boxed = {a}
  None = None
  MaxTabs = 2
  MaxInserts = 1
  MaxCommits = 1
  MaxLists = 1
  MaxWorked = 1
  Hasty = FALSE
INVARIANTS AgreedCounts SavingWillEnd
PROPERTIES AskedFirst TypedIsStaged

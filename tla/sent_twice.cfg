\* A window waits for the user, who can always go on.
SPECIFICATION Spec
CONSTANTS
  c1 = c1
  c2 = c2
  t1 = t1
  t2 = t2
  Conns = {c1}
  NoConn = NoConn
  Production = {}
  Tables = {t1, t2}
  Catalog <- Alone
  Rows = {r1}
  Texts = {a}
  Bad = Bad
  Stored = Stored
  Boxed = {a}
  None = None
  MaxTabs = 2
  MaxInserts = 1
  MaxCommits = 2
  MaxLists = 1
  MaxWorked = 1
  Hasty = TRUE
INVARIANTS SentOnce

SPECIFICATION GridsSpec
\* Every bound may be used up with nothing to answer.
CHECK_DEADLOCK FALSE
CONSTANTS
  Moving = {"commits"}
  Last = 2
  Cols = {"c"}
  Texts = {"a", "b", "d"}
  Contents <- TwoAlike
  MIXED = MIXED
  AsStored = AsStored
  None = None
  MaxTyped = 2
  Columns = {1, 2}
  Rank <- Ranks
  QueryRooms <- RunsOrPins
  Rooms <- PagesOrShapes
  Unset = Unset
  Nil = Nil
  NoFilter = ""
  Sheets <- AllSheets
  Targets <- AllTargets
  Fold <- WithoutCase
  COMMA = ","
  TAB = "tab"
  QUOTE = "quote"
  NL = "NL"
  CR = "CR"
  Driver = "Sqlite"
  Ids = {i1, i2}
  Keys = {k, l}
  Values = {"a", "b"}
  NullKey = NullKey
  Nullable = TRUE
  Initial = "a"
  Default = Default
  Absent = Absent
  Faults = {"statement", "break", "reply"}
  MaxInserts = 1
  MaxStaged = 2
  MaxMeanwhile = 1
  MaxSaves = 2
  MaxOthers = 1
PROPERTY
  CommitsAreWhole

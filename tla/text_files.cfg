SPECIFICATION TextFilesSpec
\* An id given to the last connection, a script at its end, a file that is done:
\* there the part that moves may stop.
CHECK_DEADLOCK FALSE
CONSTANTS
  Moving = {"store", "editor", "scan", "export", "dump"}
  MaxId = 3
  MaxWho = 2
  Secrets = {db}
  Values = {none, a}
  NoSecret = none
  Faults = {"read", "write", "crash", "break"}
  x = x
  left_mark = left_mark
  right_mark = right_mark
  Space = Space
  NL = NL
  Dash = Dash
  Chars = {x, left_mark, right_mark, Space, NL, Dash}
  Typed = {x, left_mark, right_mark}
  WordChars = {x}
  Closes <- Pair
  Openings <- AllOpenings
  Needles <- OneOrTwo
  UNDO_LIMIT = 2
  Scripts <- AllScripts
  Answers <- AllAnswers
  Jobs <- AllJobs
  PAGE = 2
  dump_a = dump_a
  dump_b = dump_b
  Dumps = {dump_a, dump_b}
  PathOf <- SamePath
  PartialOf <- Beside
  Schemas <- OneSchema
  ForeignKeys <- PointsTo
  Needs <- BuiltOn
  Nothing = Nothing
  Crossing = FALSE
INVARIANTS
  Durable
  NoOrphans
  TogglesBack
  ScriptsRun
  FileIsTheTable
  FileIsWhole
PROPERTIES
  Keeps
  UndoKeepsHistory

\* One process of claude at a time, started again; one call of it, twice changed
\* minds. Three jobs on the SQLite file: what is typed, a table, a commit.
SPECIFICATION ServicesSpec
CONSTANTS
  MaxAtOnce = 1
  MaxTurns = 2
  MaxCalls = 1
  MaxMinds = 2
  MaxVersion = 3
  editor = editor
  load = load
  commit = commit
  Jobs = {editor, load, commit}
  CallKind <- KindOf
  Nobody = Nobody
INVARIANTS
  WorkingCopy
  StopsItsOwn
  FlagTells
PROPERTIES
  WritesAllowed
  BothEnd
\* A process that has ended stays so.
CHECK_DEADLOCK FALSE

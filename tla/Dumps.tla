--------------------------------- MODULE Dumps ---------------------------------
(* Dumps of a database to files: dbui-app's dump_database and dump::dump. Each  *)
(* is written beside its target and renamed into place; any of them may fail,   *)
(* and dbui may end, at any point.                                              *)
EXTENDS Integers, Sequences, Leftovers

LOCAL Seqs == INSTANCE SequencesExt

CONSTANTS
  Dumps,
  PathOf,      \* a function: where each dump goes
  PartialOf,   \* a function: what each path is while it is written
  Schemas,     \* a sequence of [name, base, tables, positions, code]: sequences of names
  ForeignKeys, \* a function: the tables the foreign keys of a table point to
  Needs,       \* a function: what a type, function, view or trigger is built on
  Nothing,
  Crossing     \* a bound: the user starts a dump while another is under way

VARIABLES
  step,       \* of each dump: chosen, writing, done, failed
  unwritten,  \* what each dump has still to write
  missing,    \* and what it goes without
  skipped,    \* what of that its report, and its last lines, name
  handle,     \* the file it writes, and how far
  folder,     \* a function: the file under each name
  files       \* the contents of the files there have been

dumpVars == <<step, unwritten, missing, skipped, handle, folder, files>>

Paths == {PathOf[d] : d \in Dumps}
Names == Paths \cup {PartialOf[p] : p \in Paths}

--------------------------------------------------------------------------------
(* The parts of a dump, in the order they are written                           *)

Part(kind, of) == [kind |-> kind, of |-> of]
Parts(kind, names) == [i \in DOMAIN names |-> Part(kind, names[i])]

TableParts(t) == <<Part("table", t), Part("rows", t)>>

CodeFirst(s) ==  \* mutant: what is built on tables comes ahead of them
    <<Part("schema", s.name)>> \o Parts("object", s.base) \o Parts("object", s.code)
      \o Seqs!FlattenSeq([i \in DOMAIN s.tables |-> TableParts(s.tables[i])])

SchemaParts(s) ==
    <<Part("schema", s.name)>> \o Parts("object", s.base)
      \o Seqs!FlattenSeq([i \in DOMAIN s.tables |-> TableParts(s.tables[i])])
      \o Parts("object", s.code)

AfterData(s) == Parts("keys", s.tables) \o Parts("position", s.positions)

Plan ==
    Seqs!FlattenSeq([i \in DOMAIN Schemas |-> SchemaParts(Schemas[i])])
      \o Seqs!FlattenSeq([i \in DOMAIN Schemas |-> AfterData(Schemas[i])])
      \o <<Part("end", "end")>>

\* A table that cannot be scripted takes its rows and its keys with it.
Gone(p) ==
    IF p.kind = "table" THEN {p, Part("rows", p.of), Part("keys", p.of)} ELSE {p}

\* No dump is asked for under the name of a partial, and nothing is planned ahead
\* of what it would be left out with.
ASSUME DumpAssumption ==
    /\ \A p \in Paths : PartialOf[p] \notin Paths
    /\ Nothing \notin Nat
    /\ Plan \in Seq({Plan[i] : i \in DOMAIN Plan})
    /\ \A i, j \in DOMAIN Plan : i < j => Plan[i] \notin Gone(Plan[j])

--------------------------------------------------------------------------------
(* Files *)

Truncated(f) == [files EXCEPT ![f] = <<>>]

\* The next part goes where the handle is, over or beyond what is there.
WrittenAt(content, at, part) ==
    [i \in 1..(IF Len(content) < at THEN at ELSE Len(content)) |->
       IF i = at THEN part ELSE IF i <= Len(content) THEN content[i] ELSE Part("hole", "hole")]

DumpInit ==
    /\ step = [d \in Dumps |-> "chosen"]
    /\ unwritten = [d \in Dumps |-> Plan]
    /\ missing = [d \in Dumps |-> {}] /\ skipped = missing
    /\ handle = [d \in Dumps |-> [file |-> 0, at |-> 0]]
    /\ folder = [n \in Names |-> Nothing]
    /\ files = <<>>

\* File::create: a file of that name is emptied, and stays the same file.
CreateDump(d) ==
    LET partial == PartialOf[PathOf[d]]
        f == IF folder[partial] = Nothing THEN Len(files) + 1 ELSE folder[partial]
    IN  /\ step[d] = "chosen"
        /\ Crossing \/ \A other \in Dumps : step[other] # "writing"
        /\ step' = [step EXCEPT ![d] = "writing"]
        /\ handle' = [handle EXCEPT ![d] = [file |-> f, at |-> 0]]
        /\ folder' = [folder EXCEPT ![partial] = f]
        /\ files' = IF f > Len(files) THEN Append(files, <<>>) ELSE Truncated(f)
        /\ UNCHANGED <<unwritten, missing, skipped>>

WriteDump(d) ==
    LET f == handle[d].file
        at == handle[d].at + 1
    IN  /\ step[d] = "writing" /\ unwritten[d] # <<>>
        /\ files' = [files EXCEPT ![f] = WrittenAt(@, at, Head(unwritten[d]))]
        /\ handle' = [handle EXCEPT ![d].at = at]
        /\ unwritten' = [unwritten EXCEPT ![d] = Tail(@)]
        /\ UNCHANGED <<step, missing, skipped, folder>>

\* The engine will not say how something is made: the dump goes on without it and
\* names it at its end, or, of where a sequence had got to, goes on and says nothing.
SkipPart(d) ==
    /\ step[d] = "writing" /\ unwritten[d] # <<>>
    /\ Head(unwritten[d]).kind \in {"object", "table", "position"}
    /\ unwritten' = [unwritten EXCEPT ![d] = LeftOf(@, Gone(Head(@)))]
    /\ missing' = [missing EXCEPT ![d] = @ \cup Gone(Head(unwritten[d]))]
    /\ skipped' = [skipped EXCEPT ![d] =
         IF Head(unwritten[d]).kind = "position" THEN @ ELSE @ \cup Gone(Head(unwritten[d]))]
    /\ UNCHANGED <<step, handle, folder, files>>

RenameEarly(d) ==  \* mutant: the name is there before the file is whole
    LET path == PathOf[d]
    IN  /\ step[d] = "writing" /\ Len(unwritten[d]) <= 1 /\ folder[PartialOf[path]] # Nothing
        /\ folder' = [folder EXCEPT ![path] = folder[PartialOf[path]], ![PartialOf[path]] = Nothing]
        /\ step' = [step EXCEPT ![d] = "done"]
        /\ UNCHANGED <<unwritten, missing, skipped, handle, files>>

\* Whatever is under the partial's name becomes the target.
RenameDump(d) ==
    LET path == PathOf[d]
        partial == PartialOf[path]
    IN  /\ step[d] = "writing" /\ unwritten[d] = <<>> /\ folder[partial] # Nothing
        /\ folder' = [folder EXCEPT ![path] = folder[partial], ![partial] = Nothing]
        /\ step' = [step EXCEPT ![d] = "done"]
        /\ UNCHANGED <<unwritten, missing, skipped, handle, files>>

\* The rows of a table, or the disk, are refused: the partial is removed.
FailDump(d) ==
    /\ step[d] = "writing"
    /\ folder' = [folder EXCEPT ![PartialOf[PathOf[d]]] = Nothing]
    /\ step' = [step EXCEPT ![d] = "failed"]
    /\ UNCHANGED <<unwritten, missing, skipped, handle, files>>

\* The partial is gone, or may not be renamed: what there is stays.
RenameFails(d) ==
    /\ step[d] = "writing" /\ unwritten[d] = <<>>
    /\ step' = [step EXCEPT ![d] = "failed"]
    /\ UNCHANGED <<unwritten, missing, skipped, handle, folder, files>>

\* dbui ends, and what it wrote stays.
QuitDumps ==
    /\ \E d \in Dumps : step[d] = "writing"
    /\ step' = [d \in Dumps |-> IF step[d] = "writing" THEN "failed" ELSE step[d]]
    /\ UNCHANGED <<unwritten, missing, skipped, handle, folder, files>>

DumpNext ==
    \/ QuitDumps
    \/ \E d \in Dumps :
         CreateDump(d) \/ WriteDump(d) \/ SkipPart(d) \/ RenameDump(d) \/ FailDump(d) \/ RenameFails(d)

DumpSpec == DumpInit /\ [][DumpNext]_dumpVars

--------------------------------------------------------------------------------
(* Properties *)

Content(p) == files[folder[p]]

\* A file under the name the user gave is a whole dump, all of it one dump's,
\* whatever failed and wherever dbui ended (commands::dump_database).
FileIsWhole ==
    \A p \in Paths : folder[p] # Nothing =>
      \E d \in Dumps : PathOf[d] = p /\ Content(p) = LeftOf(Plan, missing[d])

\* What each part is built on, among the parts of a dump.
Wants(p) ==
    CASE p.kind = "rows" -> {Part("table", p.of)}
      [] p.kind = "keys" -> {Part("rows", t) : t \in {p.of} \cup ForeignKeys[p.of]}
      [] p.kind \in {"object", "table"} /\ p.of \in DOMAIN Needs -> Needs[p.of]
      [] OTHER -> {}

\* A dump runs top to bottom on an empty database: each part comes after all it
\* is built on, a key after the rows it is checked against, a trigger after the
\* rows it would fire on, or else what it is built on is named in the file as
\* skipped (dump::dump).
RunsTopToBottom ==
    \A p \in Paths : folder[p] # Nothing =>
      \A i \in DOMAIN Content(p) : \A need \in Wants(Content(p)[i]) :
        \/ \E j \in 1..i - 1 : Content(p)[j] = need
        \/ \E d \in Dumps : need \in skipped[d]
================================================================================

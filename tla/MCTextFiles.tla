------------------------------ MODULE MCTextFiles ------------------------------
(* Instances for TLC of what dbui does to texts and files: the connections'      *)
(* store, the editor's buffer, the scan of the SQL in it, exports and dumps. A   *)
(* behaviour moves one of them.                                                  *)
EXTENDS ConnectionStore, SqlEditor, Exports, Dumps, TLC

CONSTANTS
  Moving,                             \* those that may move
  Scripts, Answers,
  x, left_mark, right_mark,          \* a letter, a pair
  dump_a, dump_b                     \* dumps

VARIABLES
  script, at, start, delimiter, lead, routine, depth, blank, ranges,
  part                               \* which of the five moves

Scan   == INSTANCE SqlScan WITH Values <- Answers
Engine == INSTANCE SqlScan WITH Scripts <- {}, Values <- {}

storeVars  == vars
scanVars   == <<script, at, start, delimiter, lead, routine, depth, blank, ranges>>

TextFilesVars == <<storeVars, editorVars, scanVars, exportVars, dumpVars, part>>

NoScan ==
  /\ script = [driver |-> "Postgres", text |-> <<>>, whole |-> <<>>]
  /\ at = 1 /\ start = 1 /\ delimiter = <<";">>
  /\ lead = <<>> /\ routine = FALSE /\ depth = 0 /\ blank = TRUE /\ ranges = <<>>

TextFilesInit ==
  /\ part \in Moving
  /\ part # "editor" => text = <<>> /\ edits = 3
  /\ part # "export" => job = CHOOSE j \in Jobs : TRUE
  /\ Init /\ EditorInit /\ ExportInit /\ DumpInit
  /\ IF part = "scan" THEN Scan!Init ELSE NoScan

TextFilesNext ==
  /\ UNCHANGED part
  /\ \/ part = "store"  /\ Next        /\ UNCHANGED <<editorVars, scanVars, exportVars, dumpVars>>
     \/ part = "editor" /\ EditorNext  /\ UNCHANGED <<storeVars, scanVars, exportVars, dumpVars>>
     \/ part = "scan"   /\ Scan!Next   /\ UNCHANGED <<storeVars, editorVars, exportVars, dumpVars>>
     \/ part = "export" /\ ExportNext  /\ UNCHANGED <<storeVars, editorVars, scanVars, dumpVars>>
     \/ part = "dump"   /\ DumpNext    /\ UNCHANGED <<storeVars, editorVars, scanVars, exportVars>>

TextFilesSpec == TextFilesInit /\ [][TextFilesNext]_TextFilesVars

--------------------------------------------------------------------------------
\* A script is run as it stands. The statements found are the engine's, and the one
\* under the caret is run; the :names found are code, and a value in the place of
\* one is one literal: see SqlScan (split, delimiter_directive, nearest,
\* params::find, substitute). The script of a dump runs top to bottom: see Dumps.
ScriptsRun ==
  /\ Scan!SplitsAsRead /\ Scan!CaretRunsIts /\ Scan!ParamsAreCode /\ Scan!LiteralsReadBack
  /\ RunsTopToBottom

--------------------------------------------------------------------------------
(* The editor: three edits with room for one letter reach the limit of the undo *)
(* stack; a pair, a comment and a gap between words need more room. The short   *)
(* texts are those TogglesBack is put to.                                       *)

Upto(n, S) == UNION {[1..k -> S] : k \in 0..n}

Pair == left_mark :> right_mark

AllOpenings ==
  {[text |-> <<>>, edits |-> 3, size |-> 1, names |-> {}],
   [text |-> <<>>, edits |-> 1, size |-> 2, names |-> {<<x>>}],
   [text |-> <<x>>, edits |-> 1, size |-> 4, names |-> {}],
   [text |-> <<x, Space, x>>, edits |-> 1, size |-> 3, names |-> {}]}
  \cup [text : Upto(3, {x, Space, NL, Dash}) \cup [1..4 -> {x, Space, NL}], edits : {0}, size : {0}, names : {{}}]

OneOrTwo == {<<x>>, <<x, x>>}

(* The scan: every text of up to so many pieces of a few small alphabets, but   *)
(* for those the engine reads in a way of its own, and routines in a script.    *)

Alphabets == {
  <<5, "Postgres", {"'", "\\", ";", "E"}>>, <<4, "MySql",    {"'", "\\", ";", "dq"}>>,
  <<5, "Postgres", {"$", "x", ";", "'"}>>,  <<4, "Postgres", {"$", "1", ";", " "}>>,
  <<4, "MySql",    {"-", " ", "NL", ";"}>>, <<5, "Sqlite",   {"/", "*", "-", ";"}>>,
  <<4, "Postgres", {":", "x", "'", " "}>>,  <<5, "MySql",    {":", "x", "\\", "'"}>>,
  <<4, "MySql",    {":", "x", "bq", " "}>>, <<4, "MySql",    {":", "x", "#", "NL"}>>,
  <<4, "Sqlite",   {":", "x", "1", "dq"}>>}

\* MySQL has no comment where something follows -- at once.
ReadAlike(driver, s) ==
  driver = "MySql" =>
    \A i \in 1..Len(s) - 2 : s[i] = "-" /\ s[i + 1] = "-" => s[i + 2] \in {" ", "NL"}

Lexical(driver, texts) ==
  {[driver |-> driver, text |-> t, whole |-> Engine!Statements(driver, t)] :
     t \in {u \in texts : ReadAlike(driver, u)}}

BodyLines(b) == Seqs!FlattenSeq([i \in DOMAIN b |-> b[i] \o <<" ", ";", "NL">>])

Plain == <<"x">>
Blocks(Bodies) ==
  {Plain, <<"x", " ", "CASE", " ", "x", " ", "END">>} \cup UNION {
    {<<"BEGIN", " ">> \o BodyLines(b) \o <<"END">>,
     <<"IF", " ", "x", " ">> \o BodyLines(b) \o <<"END", " ", "IF">>,
     <<"CASE", " ", "x", " ">> \o BodyLines(b) \o <<"END", "NL", "CASE">>} : b \in Bodies}

Routines ==
  {<<"CREATE", " ", "x", " ", "TRIGGER", " ", "x", "NL", "BEGIN", " ">> \o BodyLines(b) \o <<"END">> :
     b \in LET Inner == Upto(2, Blocks({<<>>, <<Plain>>}))
           IN  Inner \cup {<<c>> : c \in Blocks(Inner)}}

\* Two statements with other text before and between.
Two(before, s, between, t) ==
  LET n == Len(before)
      m == Len(before \o s \o between)
  IN  [driver |-> "MySql", text |-> before \o s \o between \o t,
       whole |-> <<[first |-> n + 1, last |-> n + Len(s)], [first |-> m + 1, last |-> m + Len(t)]>>]

AllScripts ==
  UNION {Lexical(a[2], Upto(a[1], a[3])) : a \in Alphabets}
  \cup {Two(<<>>, r, <<";", " ">>, <<"CASE", " ", "END">>) : r \in Routines}
  \cup {Two(<<"DELIMITER", " ", "$", "$", "NL">>, r,
            <<"$", "$", "NL", "DELIMITER", " ", ";", "NL">>, Plain) : r \in Routines}

AllAnswers == {<<>>, <<"'">>, <<"\\">>, <<"\\", "'">>, <<"1">>, <<"x">>}

(* Exports of up to four rows, two to a page, with equal values across the      *)
(* boundary. What is sorted has a key, and no two columns have one name.        *)

AllJobs ==
  {j \in [by : {"export", "dump", "query"}, rows : {1..n : n \in 0..4},
          keyed : BOOLEAN, sorted : BOOLEAN,
          rank : {<<1, 1, 1, 1>>, <<2, 2, 1, 2>>},
          columns : {<<"a", "b", "c">>}, shown : {<<1, 2, 3>>, <<3, 1>>}] :
     j.sorted => j.by = "export" /\ j.keyed}

(* A dump, and another over it: a type, a table of that type that points to     *)
(* another and has a trigger, and a sequence.                                   *)

SamePath == dump_a :> "a.sql" @@ dump_b :> "a.sql"
Beside == "a.sql" :> "a.sql.partial"

OneSchema == <<[name |-> "s", base |-> <<"type">>, tables |-> <<"t", "u">>,
                positions |-> <<"seq">>, code |-> <<"trigger">>]>>

PointsTo == "t" :> {"u"} @@ "u" :> {}

BuiltOn ==
  "t" :> {[kind |-> "object", of |-> "type"]}
  @@ "trigger" :> {[kind |-> "table", of |-> "t"], [kind |-> "rows", of |-> "t"]}
================================================================================

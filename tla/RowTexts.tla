------------------------------- MODULE RowTexts -------------------------------
(* Rows as text and back: the files ExportWriter writes a page at a time, and   *)
(* what import and paste read out of one (row_export.rs, stage_named_rows of    *)
(* root.rs). A text is a sequence of letters, of which separators, quotes and   *)
(* ends of line matter; a cell is the text of its value, NULL the empty one.    *)
EXTENDS Integers, Sequences, FiniteSets, TLC

LOCAL INSTANCE SequencesExt
LOCAL INSTANCE FiniteSetsExt

CONSTANTS
  Sheets,     \* what may be written: [format, columns, shown, pages of rows of cells],
              \* shown being the places of the grid's columns, in its order
  Targets,    \* column names a table may have
  Fold,       \* of a name, as without case
  COMMA, TAB, QUOTE, NL, CR,
  None

VARIABLES
  sheet,
  written,  \* pages in the file, and one more when it is finished
  file,
  staged    \* the table the rows are staged into, and for each column of the file
            \* its place in it or 0

vars == <<sheet, written, file, staged>>

Init == sheet \in Sheets /\ written = 0 /\ file = <<>> /\ staged = None

-------------------------------------------------------------------------------
(* Writing *)

Separator(format) == IF format = "csv" THEN COMMA ELSE TAB

\* csv_line and escape_cell
NeedsQuotes(format, cell) == \E i \in DOMAIN cell : cell[i] \in {Separator(format), QUOTE, NL, CR}

Quoted(format, cell) ==
  IF NeedsQuotes(format, cell)
  THEN <<QUOTE>> \o FlattenSeq([i \in DOMAIN cell |->
         IF cell[i] = QUOTE THEN <<QUOTE, QUOTE>> ELSE <<cell[i]>>]) \o <<QUOTE>>
  ELSE cell

Record(format, cells) ==
  FoldLeft(LAMBDA line, i : line \o (IF i = 1 THEN <<>> ELSE <<Separator(format)>>)
                                 \o Quoted(format, cells[i]),
           <<>>, [i \in DOMAIN cells |-> i]) \o <<NL>>

Records(format, rows) == FlattenSeq([i \in DOMAIN rows |-> Record(format, rows[i])])

\* The rest of a text after its first end of line.
AfterFirstLine(text) ==
  SubSeq(text, SelectInSeq(text, LAMBDA letter : letter = NL) + 1, Len(text))

\* The columns the grid shows are looked for by name in those of the first page,
\* each the first of its name, whether they have it to themselves or not.
Picks ==
  [i \in DOMAIN sheet.shown |->
    SelectInSeq(sheet.columns, LAMBDA name : name = sheet.columns[sheet.shown[i]])]

Narrowed(row) == [i \in DOMAIN Picks |-> row[Picks[i]]]

\* A page of a .tsv is rendered with a header, and the first line of every page but
\* the first is cut off.
CsvPage(first, names, rows) == (IF first THEN Record("csv", names) ELSE <<>>) \o Records("csv", rows)

TsvPage(first, names, rows) ==
  LET text == Record("tsv", names) \o Records("tsv", rows)
  IN  IF first THEN text ELSE AfterFirstLine(text)

\* An object is keyed by the columns' names, and the last of a name is what it has.
Object(names, row) ==
  [name \in ToSet(names) |-> row[SelectLastInSeq(names, LAMBDA other : other = name)]]

Bracket(b) == [text |-> b, object |-> None]

JsonPage(first, none, names, rows) ==
  (IF first THEN <<Bracket("[")>> ELSE <<>>)
    \o [i \in DOMAIN rows |-> [text   |-> IF none /\ i = 1 THEN "" ELSE ",",
                               object |-> Object(names, rows[i])]]

InsertPage(names, rows) == [i \in DOMAIN rows |-> [columns |-> names, values |-> rows[i]]]

\* ExportWriter::page
WritePage ==
  LET first == written = 0
      none == FlattenSeq(SubSeq(sheet.pages, 1, written)) = <<>>
      names == Narrowed(sheet.columns)
      page == sheet.pages[written + 1]
      rows == [i \in DOMAIN page |-> Narrowed(page[i])]
  IN  /\ written < Len(sheet.pages)
      /\ written' = written + 1
      /\ file' = file \o CASE sheet.format = "csv"    -> CsvPage(first, names, rows)
                           [] sheet.format = "tsv"    -> TsvPage(first, names, rows)
                           [] sheet.format = "json"   -> JsonPage(first, none, names, rows)
                           [] sheet.format = "insert" -> InsertPage(names, rows)
      /\ UNCHANGED <<sheet, staged>>

\* ExportWriter::finish
Finish ==
  /\ written = Len(sheet.pages) /\ written' = written + 1
  /\ file' = IF sheet.format # "json" THEN file
             ELSE (IF written = 0 THEN <<Bracket("[")>> ELSE file) \o <<Bracket("]")>>
  /\ UNCHANGED <<sheet, staged>>

-------------------------------------------------------------------------------
(* Reading *)

\* split_records, letter by letter. ended: a quote was read inside a quoted field,
\* and is its end unless another follows.
Blank == [records |-> <<>>, record |-> <<>>, field |-> <<>>, quoted |-> FALSE, ended |-> FALSE]

Plainly(separator, s, letter) ==
  CASE letter = QUOTE /\ s.field = <<>> -> [s EXCEPT !.quoted = TRUE]
    [] letter = separator -> [s EXCEPT !.record = Append(@, s.field), !.field = <<>>]
    [] letter = NL -> [s EXCEPT !.records = Append(@, Append(s.record, s.field)),
                                !.record = <<>>, !.field = <<>>]
    [] letter = CR -> s
    [] OTHER -> [s EXCEPT !.field = Append(@, letter)]

Read(separator, s, letter) ==
  CASE s.ended /\ letter = QUOTE -> [s EXCEPT !.field = Append(@, QUOTE), !.ended = FALSE]
    [] s.ended /\ letter # QUOTE ->
         Plainly(separator, [s EXCEPT !.quoted = FALSE, !.ended = FALSE], letter)
    [] s.quoted /\ ~s.ended /\ letter = QUOTE -> [s EXCEPT !.ended = TRUE]
    [] s.quoted /\ ~s.ended /\ letter # QUOTE -> [s EXCEPT !.field = Append(@, letter)]
    [] OTHER -> Plainly(separator, s, letter)

SplitRecords(separator, text) ==
  LET s == FoldLeft(LAMBDA before, letter : Read(separator, before, letter), Blank, text)
  IN  IF s.field = <<>> /\ s.record = <<>> THEN s.records
      ELSE Append(s.records, Append(s.record, s.field))

\* parse_delimited: None if it is not a table.
Parsed(separator, text) ==
  LET records == SplitRecords(separator, text)
      columns == Head(records)
      filled(record) == [i \in DOMAIN columns |-> IF i \in DOMAIN record THEN record[i] ELSE <<>>]
  IN  IF \/ Len(records) < 2
         \/ \A i \in DOMAIN columns : columns[i] = <<>>
         \/ \E i \in DOMAIN records : Len(records[i]) > Len(columns)
      THEN None
      ELSE [columns |-> columns, rows |-> [i \in 1..Len(records) - 1 |-> filled(records[i + 1])]]

SameButCase(name, other) == [i \in DOMAIN name |-> Fold[name[i]]] = [i \in DOMAIN other |-> Fold[other[i]]]

\* The column of the table a name is for: the one of that name, or of that name
\* but for its case; nothing if an earlier name of the file is for it.
MatchingLoosely(table, name) ==  \* mutant: the first but for its case
  SelectInSeq(table, LAMBDA col : SameButCase(col, name))
Matching(table, name) ==
  LET exactly == SelectInSeq(table, LAMBDA col : col = name)
  IN  IF exactly # 0 THEN exactly ELSE SelectInSeq(table, LAMBDA col : SameButCase(col, name))

Matched(table, names) ==
  FoldLeft(LAMBDA before, name :
             LET at == Matching(table, name)
             IN  Append(before, IF \E i \in DOMAIN before : before[i] = at THEN 0 ELSE at),
           <<>>, names)

Done == written > Len(sheet.pages)

IsText == sheet.format \in {"csv", "tsv"}

\* import_csv_from_path, paste_rows of another's: stage_named_rows.
Import(table) ==
  LET parsed == Parsed(Separator(sheet.format), file)
      matched == Matched(table, parsed.columns)
  IN  /\ staged = None /\ Done /\ IsText /\ parsed # None
      /\ \E i \in DOMAIN matched : matched[i] # 0
      /\ staged' = [table |-> table, matched |-> matched]
      /\ UNCHANGED <<sheet, written, file>>

Next == WritePage \/ Finish \/ \E table \in Targets : Import(table)

Spec == Init /\ [][Next]_vars

-------------------------------------------------------------------------------
(* JSON's keys on the clipboard *)

\* json_keys: the first column of a name keeps it, another is name_2 and so on up
\* from how many of it there were, but not a name that is taken.
\* A name is a sequence here too, and name_2 is name with 2 after it.
JsonKeys(names) ==
  LET Key(before) ==
        LET name == names[Len(before) + 1]
            count == Cardinality({i \in 1 .. Len(before) + 1 : names[i] = name})
            taken == ToSet(names) \cup ToSet(before)
            free == {n \in count .. count + Len(names) : Append(name, ToString(n)) \notin taken}
        IN  IF count = 1 THEN name ELSE Append(name, ToString(Min(free)))
  IN  FoldLeft(LAMBDA before, name : Append(before, Key(before)), <<>>, names)

-------------------------------------------------------------------------------
(* Properties *)

\* What the grid shows.
Shown(row) == [i \in DOMAIN sheet.shown |-> row[sheet.shown[i]]]
Names == Shown(sheet.columns)
Rows == LET rows == FlattenSeq(sheet.pages) IN [i \in DOMAIN rows |-> Shown(rows[i])]

IsTable == Rows # <<>> /\ \E i \in DOMAIN Names : Names[i] # <<>>

\* The objects of an array: None if the text is not one.
Objects ==
  LET items == SubSeq(file, 2, Len(file) - 1)
  IN  IF /\ Len(file) >= 2 /\ file[1] = Bracket("[") /\ file[Len(file)] = Bracket("]")
         /\ \A i \in DOMAIN items : items[i].text = IF i = 1 THEN "" ELSE ","
      THEN [i \in DOMAIN items |-> items[i].object]
      ELSE None

Keyed(keys, row) ==
  [key \in ToSet(keys) |-> row[SelectInSeq(keys, LAMBDA other : other = key)]]

\* The file says what the grid shows, each column under its name and each cell
\* under its column; in JSON two of a name are told apart as json_keys would.
SaysWhatIsShown ==
  CASE IsText -> IsTable => Parsed(Separator(sheet.format), file) = [columns |-> Names, rows |-> Rows]
    [] sheet.format = "json" ->
         Objects = LET keys == JsonKeys(Names) IN [i \in DOMAIN Rows |-> Keyed(keys, Rows[i])]
    [] sheet.format = "insert" ->
         file = [i \in DOMAIN Rows |-> [columns |-> Names, values |-> Rows[i]]]

\* A file that is done reads back as the rows the grid shows, cell by cell, however
\* they fell into pages ("The exact inverse of tsv", parse_tsv; "One array across
\* every page", page), where no two columns have one name.
ReadsBack == Done /\ IsInjective(sheet.columns) => SaysWhatIsShown

\* The same of any result: "Column names are not unique -- SELECT a.*, b.* brings
\* back two ids", and no format drops a column for it (json_keys).
ColumnsAreKept == Done => SaysWhatIsShown

\* Every cell goes to the column its header names, and no two to one column
\* (stage_named_rows: "exactly first and then ignoring case").
CellsFindColumns ==
  staged # None =>
    LET matched == staged.matched
        names == Narrowed(sheet.columns)
    IN  \A i \in DOMAIN matched :
          /\ matched[i] # 0 =>
               /\ SameButCase(names[i], staged.table[matched[i]])
               /\ \A j \in DOMAIN matched : matched[j] = matched[i] => j = i
          /\ \A c \in DOMAIN staged.table :
               staged.table[c] = names[i] => \E j \in 1..i : matched[j] = c

\* On the clipboard no column of a JSON object overwrites another (json_keys).
KeysDiffer == sheet.format = "json" => IsInjective(JsonKeys(sheet.columns))

===============================================================================

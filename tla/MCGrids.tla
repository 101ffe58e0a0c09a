-------------------------------- MODULE MCGrids --------------------------------
(* Instances for TLC of what dbui's grids are behind: the rows picked and the   *)
(* draft over them, the results of a query, a table's pages, rows as text, and  *)
(* the commit of what was staged. A behaviour moves one of them.                *)
EXTENDS RowDrafts, RowCommits, TableView, QueryResults, TLC

CONSTANTS
  Moving,                              \* those that may move
  Sheets, Targets, Fold, COMMA, TAB, QUOTE, NL, CR

VARIABLES
  sheet, written, file, matched,
  part                                 \* which of the five moves

Texted == INSTANCE RowTexts WITH staged <- matched

draftVars == vars
textVars  == <<sheet, written, file, matched>>

GridsVars == <<draftVars, resultVars, tableVars, textVars, commitsVars, part>>

GridsInit ==
  /\ part \in Moving
  /\ part # "results" => budget = CHOOSE r \in QueryRooms : TRUE
  /\ part # "table" => room = (CHOOSE r \in Rooms : TRUE) /\ shape = (CHOOSE s \in room.shapes : TRUE)
  /\ part # "texts" => sheet = CHOOSE s \in Sheets : TRUE
  /\ part # "commits" => table = NoWork
  /\ Init /\ ResultsInit /\ TableInit /\ Texted!Init /\ CommitsInit
  /\ part # "table" => page.limit = CHOOSE n \in room.limits : TRUE

GridsNext ==
  /\ UNCHANGED part
  /\ \/ part = "drafts"  /\ Next         /\ UNCHANGED <<resultVars, tableVars, textVars, commitsVars>>
     \/ part = "results" /\ ResultsNext  /\ UNCHANGED <<draftVars, tableVars, textVars, commitsVars>>
     \/ part = "table"   /\ TableNext    /\ UNCHANGED <<draftVars, resultVars, textVars, commitsVars>>
     \/ part = "texts"   /\ Texted!Next  /\ UNCHANGED <<draftVars, resultVars, tableVars, commitsVars>>
     \/ part = "commits" /\ CommitsNext  /\ UNCHANGED <<draftVars, resultVars, tableVars, textVars>>

GridsSpec == GridsInit /\ [][GridsNext]_GridsVars

--------------------------------------------------------------------------------

\* Every column that is shown is in the file, under its name and with its own
\* cells, whatever others are called (ExportWriter::page, json_keys).
ColumnsAreKept == Texted!ColumnsAreKept

--------------------------------------------------------------------------------
(* Places for rows, and keys, that nothing but what is in them tells apart.     *)

SamePlaces == Permutations(Ids) \cup Permutations(Keys)

(* Three rows, of which two are alike, and one column.                          *)

TwoAlike == {[r \in Rows |-> [c \in Cols |-> IF r = 2 THEN "b" ELSE "a"]]}

(* Results of up to three rows, two of which a column does not tell apart;      *)
(* fewer of them where a tab may be pinned.                                     *)

Ranks == << <<1, 2, 1>>, <<3, 1, 2>> >>

RunsOrPins ==
  {[runs |-> 2, pins |-> 0, batches |-> {<<3>>, <<Nil, 2, 3>>, <<>>}],
   [runs |-> 1, pins |-> 1, batches |-> {<<2, 2>>}]}

(* Pages of a table that stays as it is, or one page of a table that gains,     *)
(* loses and reorders columns.                                                  *)

PagesOrShapes ==
  {[shapes |-> {<<"a">>}, limits |-> {1, 2}, filters |-> {"", "w"}, offset |-> 3],
   [shapes |-> {<<"a", "b">>, <<"b", "n", "a">>, <<"n", "a">>}, limits |-> {1}, filters |-> {""}, offset |-> 0]}

(* Texts: any cell of three letters, two rows to a page of two columns, headers *)
(* of any letters, and names that are one but for case or for a number.         *)

Letters == {"a", COMMA, TAB, QUOTE, NL, CR}

Upto(n, S) == UNION {[1..k -> S] : k \in 0..n}

InOrder(columns) == [i \in DOMAIN columns |-> i]

Sheet(format, columns, pages) ==
  [format |-> format, columns |-> columns, shown |-> InOrder(columns), pages |-> pages]

Headed(format, letters) ==
  {Sheet(format, columns, << << <<<<"a">>, <<QUOTE>>>> >>, << <<<<>>, <<"a">>>> >> >>) :
     columns \in Upto(2, letters) \X Upto(2, letters)}

\* Columns hidden and moved, and a page with no row.
Arranged ==
  LET row(a, b, c) == <<<<a>>, <<b>>, <<c>>>>
  IN  [format : {"csv", "tsv", "json", "insert"}, columns : {<< <<"a">>, <<"A">>, <<"a", "2">> >>},
       shown : {<<1, 2, 3>>, <<3, 1>>, <<2>>},
       pages : {<<>>, << <<>> >>,
                << <<row("a", QUOTE, NL), row(NL, "a", "a")>>, <<>>, <<row(TAB, COMMA, "a")>> >>}]

AllSheets ==
  LET Short == Upto(2, {"a", QUOTE, NL})
  IN  {Sheet(format, <<<<"a">>>>, << <<<<c>>>> , <<<<d>>>> >>) :
         format \in {"csv", "tsv"}, c \in Upto(3, Letters), d \in {<<>>, <<QUOTE>>}}
      \cup {Sheet(format, << <<"a">>, <<"A">> >>, << << <<c, d>> >>, << <<d, c>>, <<c, c>> >> >>) :
              format \in {"csv", "tsv"}, c, d \in Short}
      \cup Headed("csv", Letters)
      \cup Headed("tsv", Letters \ {NL})
      \cup Arranged
      \cup {Sheet("json", columns, <<>>) :
              columns \in Upto(4, {<<"a">>, <<"a", "2">>, <<"a", "3">>, <<"a", "2", "2">>})}

\* Two columns of one name, as of two tables joined.
Twins ==
  {Sheet(format, << <<"a">>, <<"a">> >>, << << <<<<"a">>, <<COMMA>>>> >> >>) :
     format \in {"csv", "tsv", "json", "insert"}}

WithoutCase == [l \in Letters \cup {"A", "2"} |-> IF l = "A" THEN "a" ELSE l]

AllTargets == {<< <<"a">> >>, << <<"A">>, <<"a">> >>, << <<QUOTE>> >>}
================================================================================

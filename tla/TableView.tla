------------------------------- MODULE TableView -------------------------------
(* The window a table tab has on its table: the page, the filter and the sort   *)
(* asked for, the load under way, and what the grid shows and how its columns   *)
(* are drawn (root.rs and tabs.rs of dbui-ui). Which load may land, and where,  *)
(* is in TabLoads; here it is the last one asked for.                           *)
EXTENDS Integers, Sequences, Leftovers

Series == INSTANCE SequencesExt

CONSTANTS
  Rooms,     \* what a behaviour may ask for: the shapes the table may have (its
             \* columns in the server's order), limits (rows to a page), filters
             \* (NoFilter among them) and offset, where turning pages stops
  NoFilter,
  Unset

ColumnNames == UNION {{c[i] : i \in DOMAIN c} : c \in UNION {r.shapes : r \in Rooms}}

\* What a load asks for.
Asks ==
  [page : [limit : UNION {r.limits : r \in Rooms}, offset : Nat],
   where_clause : {NoFilter} \cup UNION {r.filters : r \in Rooms},
   sort : {Unset} \cup [column : ColumnNames, up : BOOLEAN]]

\* The columns of a table have each a name of its own.
ASSUME TableAssumption ==
  /\ Unset \notin Asks
  /\ \A r \in Rooms : r.limits \subseteq Nat
  /\ \A r \in Rooms : \A columns \in r.shapes :
       /\ columns \in Seq(ColumnNames)
       /\ \A i, j \in DOMAIN columns : columns[i] = columns[j] => i = j

VARIABLES
  room,
  shape,      \* the table's columns now
  page, where_clause, sort,
  page_size_draft,  \* the number in the toolbar's box
  load,       \* what the load in flight asked for
  failed,     \* the tab's error
  shown,      \* what landed last, and order as ResultView has it
  arranged,   \* column_order
  carried     \* column_move

tableVars ==
  <<room, shape, page, where_clause, sort, page_size_draft, load, failed, shown, arranged, carried>>

TableInit ==
  /\ room \in Rooms /\ shape \in room.shapes
  /\ page \in [limit : room.limits, offset : {0}] /\ page_size_draft = page.limit
  /\ where_clause = NoFilter /\ sort = Unset
  /\ load = Unset /\ failed = FALSE /\ shown = Unset /\ arranged = <<>> /\ carried = Unset

Named(col, columns) == \E i \in DOMAIN columns : columns[i] = col

-------------------------------------------------------------------------------
(* Asking *)

Asked == [page |-> page, where_clause |-> where_clause, sort |-> sort]

\* load_table: the load before this one is stopped and never lands.
Loads(asked) ==
  /\ page' = asked.page /\ where_clause' = asked.where_clause /\ sort' = asked.sort
  /\ load' = asked /\ failed' = FALSE
  /\ UNCHANGED <<room, shape, shown, arranged>>

Kept == UNCHANGED <<page_size_draft, carried>>

Refresh == Loads(Asked) /\ Kept

FromTheTop == [Asked EXCEPT !.page.offset = 0]

Cycled(col) ==
  CASE sort # Unset /\ sort.column = col /\ sort.up -> [column |-> col, up |-> FALSE]
    [] sort # Unset /\ sort.column = col /\ ~sort.up -> Unset
    [] OTHER -> [column |-> col, up |-> TRUE]

ToggleSort(col) == Loads([FromTheTop EXCEPT !.sort = Cycled(col)]) /\ UNCHANGED page_size_draft

ClearSort == sort # Unset /\ Loads([FromTheTop EXCEPT !.sort = Unset]) /\ Kept

\* apply_filters, and clear_filters with NoFilter.
ApplyFilters(clause) == Loads([FromTheTop EXCEPT !.where_clause = clause]) /\ Kept

\* set_page_size, apply_page_size.
ApplyPageSize(limit) ==
  /\ Loads([FromTheTop EXCEPT !.page.limit = limit])
  /\ page_size_draft' = limit /\ UNCHANGED carried

\* page: from the page on screen, if there is one.
Turned(from, forward) ==
  LET by == IF forward THEN from.limit ELSE -from.limit
      to == from.offset + by
  IN  [from EXCEPT !.offset = IF to < 0 THEN 0 ELSE to]

TurnPage(forward) ==
  LET next == Turned(IF shown = Unset THEN page ELSE shown.page, forward)
  IN  /\ next # page /\ next.offset <= room.offset
      /\ Loads([Asked EXCEPT !.page = next]) /\ Kept

-------------------------------------------------------------------------------
(* Landing *)

ServerOrder(columns) == [i \in DOMAIN columns |-> i]

PlaceOf(name, columns) == CHOOSE i \in DOMAIN columns : columns[i] = name

Members(columns) == {columns[i] : i \in DOMAIN columns}

\* Those of a layout that there are.
Known(layout, columns) == LeftOf(layout, Members(layout) \ Members(columns))

\* apply_order: those the layout names in its order, the rest after them.
LaidKnown(columns, layout) ==  \* mutant: only those the layout names
  IF layout = <<>> THEN ServerOrder(columns)
  ELSE LET drawn == Known(layout, columns) IN [i \in DOMAIN drawn |-> PlaceOf(drawn[i], columns)]
Laid(columns, layout) ==
  LET drawn == Known(layout, columns) \o LeftOf(columns, Members(layout))
  IN  [i \in DOMAIN drawn |-> PlaceOf(drawn[i], columns)]

CanLand == load.sort # Unset => Named(load.sort.column, shape)

Land ==
  /\ load # Unset /\ CanLand
  /\ page' = load.page /\ where_clause' = load.where_clause /\ page_size_draft' = load.page.limit
  /\ shown' = [page |-> load.page, where_clause |-> load.where_clause, sort |-> load.sort,
               columns |-> shape, order |-> Laid(shape, arranged)]
  /\ load' = Unset
  /\ UNCHANGED <<room, shape, sort, failed, arranged, carried>>

\* An error of the server's, or of the connection.
Fail ==
  /\ load # Unset
  /\ load' = Unset /\ failed' = TRUE
  /\ UNCHANGED <<room, shape, page, where_clause, sort, page_size_draft, shown, arranged, carried>>

-------------------------------------------------------------------------------
(* Columns *)

BeginColumnMove(i) ==
  /\ carried = Unset /\ i \in DOMAIN shown.columns
  /\ carried' = [column |-> i, moved |-> FALSE]
  /\ UNCHANGED <<room, shape, page, where_clause, sort, page_size_draft, load, failed, shown, arranged>>

Drawn(view) == [i \in DOMAIN view.order |-> view.columns[view.order[i]]]

\* drag_column_over, move_column: past the slop, over another heading.
DragColumnOver(target) ==
  LET order == shown.order
      place(i) == CHOOSE p \in DOMAIN order : order[p] = i
  IN  /\ carried # Unset /\ {carried.column, target} \subseteq DOMAIN order
      /\ carried' = [carried EXCEPT !.moved = TRUE]
      /\ IF target = carried.column THEN UNCHANGED <<shown, arranged>>
         ELSE /\ shown' = [shown EXCEPT !.order =
                             Series!InsertAt(Series!RemoveAt(@, place(carried.column)), place(target), carried.column)]
              /\ arranged' = Drawn(shown')
      /\ UNCHANGED <<room, shape, page, where_clause, sort, page_size_draft, load, failed>>

\* end_column_move: a heading that was not moved was clicked.
EndColumnMove ==
  /\ carried # Unset /\ carried' = Unset
  /\ IF ~carried.moved /\ carried.column \in DOMAIN shown.columns
     THEN ToggleSort(shown.columns[carried.column])
     ELSE UNCHANGED <<room, shape, page, where_clause, sort, page_size_draft, load, failed, shown, arranged>>

\* By anyone, on the server.
AlterTable(columns) ==
  /\ shape' = columns
  /\ UNCHANGED <<room, page, where_clause, sort, page_size_draft, load, failed, shown, arranged, carried>>

TableNext ==
  \/ Refresh \/ ClearSort \/ Land \/ Fail \/ EndColumnMove
  \/ \E clause \in room.filters : ApplyFilters(clause)
  \/ \E limit \in room.limits : ApplyPageSize(limit)
  \/ \E forward \in BOOLEAN : TurnPage(forward)
  \/ shown # Unset /\ \E i \in DOMAIN shown.columns : BeginColumnMove(i) \/ DragColumnOver(i)
  \/ \E columns \in room.shapes : AlterTable(columns)

TableSpec == TableInit /\ [][TableNext]_tableVars

-------------------------------------------------------------------------------
(* Properties *)

\* Once nothing is in flight and the last load did not fail, the rows are those
\* of the page, the filter and the sort the tab says and the box has the page's
\* size, whatever was asked while another load ran (load_table, page).
SettledIsAsked ==
  load = Unset /\ ~failed /\ shown # Unset =>
    /\ shown.page = page /\ shown.where_clause = where_clause /\ shown.sort = sort
    /\ page_size_draft = page.limit

\* Every column is drawn once, and those the user arranged as arranged, by
\* reloads of a table that gains and loses columns too (move_column, apply_order).
DrawnAsArranged ==
  shown # Unset =>
    /\ Members(shown.order) = DOMAIN shown.columns /\ Len(shown.order) = Len(shown.columns)
    /\ Known(arranged, shown.columns) = Known(Drawn(shown), arranged)

TableShowsAsked == SettledIsAsked /\ DrawnAsArranged
===============================================================================

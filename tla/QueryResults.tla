----------------------------- MODULE QueryResults -----------------------------
(* What the statements of a run brought back, on a query's tab: the strip of   *)
(* results over the grid, the one in the grid, its sort and its columns, and   *)
(* results pinned to a tab of their own (root.rs and tabs.rs of dbui-ui).      *)
EXTENDS Integers, Sequences

Strips == INSTANCE SequencesExt

CONSTANTS
  Columns,     \* 1 .. the number of columns
  Rank,        \* of a column and a row, as the values compare
  Nil,
  QueryRooms   \* bounds: how many runs may be answered and tabs pinned, and what the
               \* runs bring back, for each statement its number of rows or Nil

\* Rows that any column may be sorted by.
Ranked == {r \in Nat : \A c \in Columns : Rank[c][r] \in Int}

Views == [of : Nat \X Nat, rows : Seq(Ranked), origin : Seq(Nat)]

ASSUME ResultsAssumption ==
  /\ Nil \notin Views
  /\ \A r \in QueryRooms : \A batch \in r.batches :
       /\ batch \in Seq(Nat \cup {Nil})
       /\ \A i \in DOMAIN batch : batch[i] # Nil => 1..batch[i] \subseteq Ranked

VARIABLES
  tabs,   \* in the strip's order
  front,  \* the place of the one in front
  runs,   \* answers so far
  budget  \* of QueryRooms

resultVars == <<tabs, front, runs, budget>>

\* ResultView: the rows by where the server had them, origin as the code keeps
\* it. (The columns as drawn are in TableView.)
View(of, n) == [of |-> of, rows |-> [i \in 1..n |-> i], origin |-> <<>>]

\* lost: results whose rows went with the connection.  clicked: the row that was
\* clicked, history.
EmptyTab ==
  [results |-> <<>>, active |-> 1, shown |-> Nil, sort |-> Nil, selected |-> Nil,
   pinned |-> FALSE, lost |-> {}, clicked |-> Nil]

ResultsInit == tabs = <<EmptyTab>> /\ front = 1 /\ runs = 0 /\ budget \in QueryRooms

InFront == tabs[front]

Shows(tab) == tabs' = [tabs EXCEPT ![front] = tab] /\ UNCHANGED <<front, runs, budget>>

-------------------------------------------------------------------------------
(* Order of rows *)

Sorts(col, up, r, q) == IF up THEN Rank[col][r] < Rank[col][q] ELSE Rank[col][q] < Rank[col][r]

\* The rows of a view put by s, a sequence of its places.
Put(view, s) ==
  LET origin == IF view.origin = <<>> THEN [i \in DOMAIN view.rows |-> i] ELSE view.origin
  IN  [view EXCEPT !.rows = [i \in DOMAIN s |-> view.rows[s[i]]], !.origin = [i \in DOMAIN s |-> origin[s[i]]]]

\* The n places, each before those it is to be ahead of.
Sorted(n, ahead) ==
  CHOOSE s \in [1..n -> 1..n] : \A i, j \in 1..n : i < j => <<s[i], s[j]>> \in ahead

Places(view) == (DOMAIN view.rows) \X (DOMAIN view.rows)

\* sort_rows, which keeps rows the column does not tell apart as they are.
SortRows(view, col, up) ==
  Put(view, Sorted(Len(view.rows), {p \in Places(view) :
    LET i == view.rows[p[1]]  j == view.rows[p[2]]
    IN  Sorts(col, up, i, j) \/ (~Sorts(col, up, j, i) /\ p[1] < p[2])}))

RestoreServerOrder(view) ==
  IF view = Nil \/ view.origin = <<>> THEN view
  ELSE LET ahead == {p \in Places(view) : view.origin[p[1]] < view.origin[p[2]]}
       IN  [Put(view, Sorted(Len(view.rows), ahead)) EXCEPT !.origin = <<>>]

NextSort(sort, col) ==
  CASE sort # Nil /\ sort.col = col /\ sort.up -> [col |-> col, up |-> FALSE]
    [] sort # Nil /\ sort.col = col /\ ~sort.up -> Nil
    [] OTHER -> [col |-> col, up |-> TRUE]

Unselected(tab) == [tab EXCEPT !.selected = Nil, !.clicked = Nil]

-------------------------------------------------------------------------------
(* Results *)

\* show_statement_result: the rows move out of the strip.
ShowKeptOrder(tab, i) ==  \* mutant: in the order they were put aside in
  IF i \notin DOMAIN tab.results THEN [tab EXCEPT !.shown = Nil]
  ELSE [Unselected(tab) EXCEPT !.active = i, !.sort = Nil,
                               !.shown = tab.results[i].rows, !.results[i].rows = Nil]
ShowStatementResult(tab, i) ==
  IF i \notin DOMAIN tab.results THEN [tab EXCEPT !.shown = Nil]
  ELSE [Unselected(tab) EXCEPT
          !.active = i, !.sort = Nil,
          !.shown = RestoreServerOrder(tab.results[i].rows), !.results[i].rows = Nil]

\* absorb_batch_result: the first that has rows goes in front.
Absorbed(tab, batch) ==
  LET results == [i \in DOMAIN batch |->
                    [of |-> <<runs, i>>, has |-> batch[i] # Nil,
                     rows |-> IF batch[i] = Nil THEN Nil ELSE View(<<runs, i>>, batch[i])]]
      withRows == {i \in DOMAIN batch : batch[i] # Nil}
      at == IF withRows = {} THEN 1 ELSE CHOOSE i \in withRows : \A j \in withRows : i <= j
  IN  ShowStatementResult([Unselected(tab) EXCEPT !.results = results, !.active = at, !.lost = {}], at)

\* Whichever tab ran it, in front or not.
LandBatch(t, batch) ==
  /\ runs < budget.runs /\ runs' = runs + 1
  /\ tabs' = [tabs EXCEPT ![t] = Absorbed(@, batch)]
  /\ UNCHANGED <<front, budget>>

\* select_statement_result: what the grid has goes back to the strip first.
SelectStatementResult(i) ==
  LET at == InFront.active
      back == IF InFront.results[at].rows = Nil
              THEN [InFront EXCEPT !.results[at].rows = InFront.shown, !.shown = Nil] ELSE InFront
  IN  /\ i \in DOMAIN InFront.results
      /\ Shows(ShowStatementResult(back, i))

SelectRow(i) ==
  /\ InFront.shown # Nil /\ i \in DOMAIN InFront.shown.rows
  /\ Shows([InFront EXCEPT !.selected = i, !.clicked = InFront.shown.rows[i]])

\* toggle_sort_at, sort_query_result
SortQueryResult(col) ==
  LET next == NextSort(InFront.sort, col)
  IN  /\ InFront.shown # Nil
      /\ Shows([Unselected(InFront) EXCEPT
                  !.sort = next,
                  !.shown = IF next = Nil THEN RestoreServerOrder(@) ELSE SortRows(@, col, next.up)])

ClearQuerySort ==
  /\ InFront.shown # Nil /\ InFront.sort # Nil
  /\ Shows([Unselected(InFront) EXCEPT !.sort = Nil, !.shown = RestoreServerOrder(@)])

\* pin_active: a copy beside the tab, which stays in front.
PinActive ==
  /\ InFront.shown # Nil /\ Len(tabs) <= budget.pins
  /\ tabs' = Strips!InsertAt(tabs, front + 1,
       [EmptyTab EXCEPT !.results = InFront.results, !.active = InFront.active,
                        !.shown = InFront.shown, !.pinned = TRUE, !.lost = InFront.lost])
  /\ UNCHANGED <<front, runs, budget>>

Activate(t) == t # front /\ front' = t /\ UNCHANGED <<tabs, runs, budget>>

\* clear_results, when the connection goes; the strip keeps the others' rows.
ClearResults ==
  /\ \E t \in DOMAIN tabs : tabs[t].shown # Nil
  /\ tabs' = [t \in DOMAIN tabs |->
       [Unselected(tabs[t]) EXCEPT !.shown = Nil, !.lost = IF tabs[t].results = <<>> THEN @ ELSE @ \cup {tabs[t].active}]]
  /\ UNCHANGED <<front, runs, budget>>

ResultsNext ==
  \/ \E t \in DOMAIN tabs : Activate(t) \/ \E batch \in budget.batches : LandBatch(t, batch)
  \/ \E i \in DOMAIN InFront.results : SelectStatementResult(i)
  \/ InFront.shown # Nil /\ \E i \in DOMAIN InFront.shown.rows : SelectRow(i)
  \/ \E c \in Columns : SortQueryResult(c)
  \/ ClearQuerySort \/ PinActive \/ ClearResults

ResultsSpec == ResultsInit /\ [][ResultsNext]_resultVars

-------------------------------------------------------------------------------
(* Properties *)

\* The rows of a statement are held once, by the strip or by the grid, and under
\* the statement they are of, however results are selected, put aside and
\* pinned (absorb_batch_result, show_statement_result, select_statement_result).
HeldOnce(tab) ==
  \A i \in DOMAIN tab.results : LET result == tab.results[i] IN
    /\ result.rows # Nil => result.rows.of = result.of
    /\ i = tab.active => result.rows = Nil /\ (tab.shown # Nil => tab.shown.of = result.of)
    /\ result.has /\ i \notin tab.lost => (result.rows # Nil) = ~(i = tab.active /\ tab.shown # Nil)

\* The heading's arrow says how the rows are: without one they are as the server
\* sent them (show_statement_result, sort_query_result).
ArrowTells(tab) ==
  LET rows == tab.shown.rows IN
  tab.shown # Nil =>
    \A i, j \in DOMAIN rows : i < j =>
      IF tab.sort = Nil THEN rows[i] < rows[j]
      ELSE ~Sorts(tab.sort.col, tab.sort.up, rows[j], rows[i])

\* The row the sidebar describes is the one that was clicked.
SelectedIsClicked(tab) == tab.selected # Nil => tab.shown.rows[tab.selected] = tab.clicked

\* So of every tab, but that a pinned one may have been pinned while sorted.
ResultsTell ==
  \A t \in DOMAIN tabs : LET tab == tabs[t] IN
    HeldOnce(tab) /\ SelectedIsClicked(tab) /\ (tab.pinned \/ ArrowTells(tab))
===============================================================================

------------------------------- MODULE StagedWork -------------------------------
(***************************************************************************)
(* Work that has not reached the server yet (crates/dbui-ui/src/root.rs,   *)
(* tabs.rs, components/close_guard.rs and production_guard.rs): what is    *)
(* typed in the box over a cell and in the sidebar's draft of a row, how   *)
(* it is staged on the tab, how a batch is committed, and the questions    *)
(* asked before work is thrown away or sent to production.                 *)
(*                                                                         *)
(* Every handler runs on the window's thread and is one step; a load and a *)
(* commit are tasks of their own, whose answers land in later steps.  The  *)
(* order of the connection bar is TabLoads's; a draft is over one row.     *)
(***************************************************************************)
EXTENDS Tabs, FiniteSets

CONSTANTS
    Conns,       \* connections, all saved
    NoConn,      \* ... and none
    Production,  \* those tagged Environment::Production
    Tables,      \* tables
    Catalog,     \* by connection, the tables it has
    Rows,        \* rows of a page, by primary key
    Texts,       \* what can be typed into a field, that parses
    Bad,         \* ... that does not
    Stored,      \* ... that is what the row holds already
    Boxed,       \* bound: what is typed into the box over a cell
    None,        \* no draft, box, row or question
    MaxTabs,     \* bound: tabs opened in one list
    MaxInserts,  \* bound: new rows staged on one tab
    MaxCommits,  \* bound: commits in flight
    MaxLists,    \* bound: times one connection is closed
    MaxWorked,   \* bound: tabs worked on at a time
    Hasty        \* bound: whether connections close over a commit in flight

ASSUME StagedConstants ==
    /\ NoConn \notin Conns /\ Production \subseteq Conns
    /\ Catalog \in [Conns -> SUBSET Tables] /\ Boxed \subseteq Texts \cup {Bad, Stored}
    /\ Bad # Stored /\ {Bad, Stored} \cap Texts = {} /\ None \notin Rows
    /\ {MaxTabs, MaxInserts, MaxCommits, MaxWorked} \subseteq Nat \ {0}
    /\ MaxLists \in Nat /\ Hasty \in BOOLEAN /\ IsFiniteSet(Rows)

VARIABLES
    open,      \* Workspace::open, as a set
    front,     \* Workspace::active
    up,        \* the connections that are connected
    tabs,      \* DbUi::tabs and stashed_tabs: each connection's tab list
    list,      \* how many lists a connection has had: history
    cell,      \* editing_cell and cell_editor: the box over a cell
    guard,     \* close_guard
    question,  \* production_guard, over a commit
    commits    \* commits in flight

vars == <<open, front, up, tabs, list, cell, guard, question, commits>>

Ids == 0..MaxTabs - 1
Typed == Texts \cup {Bad, Stored}
NewRows == 1..MaxInserts

Drafts == [row : Rows, text : Typed]

\* WorkspaceTab::Table.  refused: the draft's message is an error; row: the
\* selection; form: the insert open in the sidebar, by position; 0 is none.
Tab == [id : Ids, of : Tables, shown : BOOLEAN, loading : BOOLEAN, saving : BOOLEAN,
        row : Rows \cup {None}, draft : Drafts \cup {None}, refused : BOOLEAN,
        edits : [Rows -> Texts \cup {Stored}], deletes : SUBSET Rows,
        inserts : BoundedSeq([row : NewRows, parses : BOOLEAN], MaxInserts),
        form : 0..MaxInserts]

NewTab(t) ==
    [id |-> 0, of |-> t, shown |-> FALSE, loading |-> FALSE, saving |-> FALSE,
     row |-> None, draft |-> None, refused |-> FALSE,
     edits |-> [r \in Rows |-> Stored], deletes |-> {}, inserts |-> <<>>, form |-> 0]

Edited(tab) == {r \in Rows : tab.edits[r] # Stored}

\* Everything staged on a tab: WorkspaceTab::pending_change_count counts it.
Staged(tab) ==
    ({"edit"} \X Edited(tab)) \cup ({"delete"} \X tab.deletes)
    \cup ({"insert"} \X {tab.inserts[i].row : i \in DOMAIN tab.inserts})

\* ... and on several tabs of a list.
StagedOn(ts, ids) ==
    UNION {{tab.id} \X Staged(tab) : tab \in {t \in ToSet(ts.items) : t.id \in ids}}

IdsOf(ts) == {tab.id : tab \in ToSet(ts.items)}

\* The box over a cell: editing_cell, and the text in cell_editor.
Boxes == Drafts

\* What a closing is aimed at: a tab of a connection, a group of whatever tabs
\* are in front, or a connection; and the count that was read out.
Groups == {"others", "right", "all"}
Guards ==
    [kind : {"tab"} \cup Groups \cup {"connection"},
     of : Conns \cup {NoConn, None}, id : Ids \cup {None}, changes : Nat]

\* asked: the count that was agreed to before it went to production; history.
Commits ==
    [list : Conns \X (0..MaxLists), tab : Ids, asked : Nat, edits : [Rows -> Texts \cup {Stored}],
     deletes : SUBSET Rows, inserts : SUBSET NewRows]

ThisList(c) == <<c, list[c]>>

TypeOK ==
    /\ open \subseteq Conns /\ up \subseteq open
    /\ front \in open \cup {NoConn}
    /\ \A c \in Conns \cup {NoConn} :
          /\ ToSet(tabs[c].items) \subseteq Tab
          /\ \A tab \in ToSet(tabs[c].items) : tab.form \in 0..Len(tab.inserts)
          /\ HasActive(tabs[c]) \/ tabs[c].items = <<>>
    /\ list \in [Conns -> 0..MaxLists]
    /\ cell \in Boxes \cup {None}
    /\ guard = None \/ guard \in Guards
    /\ question \in Nat \cup {None}
    /\ commits \subseteq Commits

Init ==
    /\ \E c \in Conns : open = {c} /\ front = c /\ up = {c}
    /\ tabs = [c \in Conns \cup {NoConn} |-> NoTabs]
    /\ list = [c \in Conns |-> 0]
    /\ cell = None
    /\ guard = None
    /\ question = None
    /\ commits = {}

-----------------------------------------------------------------------------
(* From the keyboard to the batch *)

\* commit_cell_edit: into the draft, if that is still over the row of the box.
CellFinished(tab) ==
    IF cell # None /\ tab.draft # None /\ cell.row = tab.draft.row
    THEN [tab EXCEPT !.draft.text = cell.text] ELSE tab

\* stash_current_draft: what the row ends up with replaces what was staged for
\* it, unless it does not parse; a row on its way out has nothing to update.
Stashed(tab) ==
    CASE tab.draft = None \/ ~tab.shown -> tab
      [] tab.draft # None /\ tab.shown /\ tab.draft.text = Bad -> [tab EXCEPT !.refused = TRUE]
      [] OTHER -> [tab EXCEPT !.refused = FALSE,
                              !.edits[tab.draft.row] = IF tab.draft.row \in tab.deletes
                                                       THEN Stored ELSE tab.draft.text]

OnFront(ts, tab) == IF HasActive(ts) THEN WithTab(ts, tab) ELSE ts

LeftStashFirst(ts) ==  \* mutant: the row as it stood before the last keystroke
    OnFront(ts, CellFinished(Stashed(ActiveTab(ts))))

\* leave_front_tab; the box closes with it.
Left(ts) == OnFront(ts, Stashed(CellFinished(ActiveTab(ts))))

\* load_table, of the tab in front of a connection
Loading(ts, c) ==
    IF HasActive(ts) /\ c \in up THEN WithTab(ts, [ActiveTab(ts) EXCEPT !.loading = TRUE]) ELSE ts

\* load_active_table_if_empty
LoadingIfEmpty(ts, c) ==
    IF HasActive(ts) /\ ~ActiveTab(ts).shown THEN Loading(ts, c) ELSE ts

Free == guard = None /\ question = None

Window == <<open, front, up, list>>

FrontTabs == tabs[front]

Shows(tab) ==
    tabs' = [tabs EXCEPT ![front] = WithTab(@, tab)]

\* What can be done to the tab in front while no question is up.
AtTab == Free /\ HasActive(FrontTabs) /\ UNCHANGED <<open, front, up, list, guard, question, commits>>

Worked == {k \in Conns \X Ids :
    HoldsTab(tabs[k[1]], k[2]) /\ LET tab == TabOf(tabs[k[1]], k[2])
                                  IN  tab.draft # None \/ Staged(tab) # {}}

\* ... with room under the bound for work on this tab.
AtWork == AtTab /\ Cardinality(Worked \cup {<<front, ActiveTab(FrontTabs).id>>}) <= MaxWorked

-----------------------------------------------------------------------------
(* Typing and staging *)

\* select_row: the draft opens on what is staged for the row.
Selected(tab, r) ==
    LET kept == Stashed(tab)
    IN  [kept EXCEPT !.row = r, !.refused = FALSE, !.draft = [row |-> r, text |-> kept.edits[r]]]

SelectRow(r) ==
    /\ AtWork
    /\ ActiveTab(FrontTabs).shown
    /\ Shows(Selected(ActiveTab(FrontTabs), r))
    /\ UNCHANGED cell

\* A key in a field of the sidebar, which a staged insert takes over.
TypeField(text) ==
    /\ AtTab
    /\ ActiveTab(FrontTabs).draft # None
    /\ ActiveTab(FrontTabs).form = 0
    /\ Shows([CellFinished(ActiveTab(FrontTabs)) EXCEPT !.draft.text = text])
    /\ cell' = None

BeginCellEdit(r) ==
    LET tab == Selected(ActiveTab(FrontTabs), r)
    IN  /\ AtWork
        /\ ActiveTab(FrontTabs).shown
        /\ Shows(tab)
        /\ cell' = tab.draft

TypeCell(text) ==
    /\ AtTab
    /\ cell # None
    /\ cell' = [cell EXCEPT !.text = text]
    /\ UNCHANGED tabs

CancelCell == AtTab /\ cell # None /\ cell' = None /\ UNCHANGED tabs

\* finish_cell_edit, on a press anywhere else
FinishCell == AtTab /\ cell # None /\ cell' = None /\ Shows(CellFinished(ActiveTab(FrontTabs)))

Unselected(tab) == [tab EXCEPT !.row = None, !.draft = None, !.refused = FALSE]

RowsAdded(tab, n) ==
    LET added == {tab.inserts[i].row : i \in DOMAIN tab.inserts}
        row   == CHOOSE new \in [1..n -> NewRows \ added] : IsInjective(new)
    IN  [Unselected(tab) EXCEPT
            !.inserts = @ \o [i \in 1..n |-> [row |-> row[i], parses |-> TRUE]],
            !.form = Len(tab.inserts) + 1]

RoomFor(n) ==
    /\ AtWork
    /\ ActiveTab(FrontTabs).shown
    /\ Len(ActiveTab(FrontTabs).inserts) + n <= MaxInserts

\* add_row, duplicate_selected_rows: the first of the new rows in the sidebar.
AddRows(n) == RoomFor(n) /\ Shows(RowsAdded(Stashed(ActiveTab(FrontTabs)), n)) /\ UNCHANGED cell

\* paste_rows, import_csv: what was typed for the row that was open goes.
PasteRows(n) == RoomFor(n) /\ Shows(RowsAdded(ActiveTab(FrontTabs), n)) /\ UNCHANGED cell

EditInsert(i) ==
    /\ AtTab
    /\ i \in DOMAIN ActiveTab(FrontTabs).inserts
    /\ Shows([Unselected(Stashed(ActiveTab(FrontTabs))) EXCEPT !.form = i])
    /\ UNCHANGED cell

TypeInsert(parses) ==
    /\ AtTab
    /\ ActiveTab(FrontTabs).form # 0
    /\ Shows([ActiveTab(FrontTabs) EXCEPT !.inserts[ActiveTab(FrontTabs).form].parses = parses])
    /\ UNCHANGED cell

InsertRemovedOnly(tab, i) ==  \* mutant: the sidebar shows another row
    [tab EXCEPT !.inserts = RemoveAt(@, i)]

\* remove_insert
InsertRemoved(tab, i) ==
    [tab EXCEPT !.inserts = RemoveAt(@, i),
                !.form = CASE @ = i -> 0 [] @ > i -> @ - 1 [] OTHER -> @]

RemoveInsert(i) ==
    /\ AtTab
    /\ i \in DOMAIN ActiveTab(FrontTabs).inserts
    /\ Shows(InsertRemoved(ActiveTab(FrontTabs), i))
    /\ UNCHANGED cell

\* delete_selected_rows: an open insert is taken back instead.
DeleteSelected ==
    LET tab == ActiveTab(FrontTabs)
        r   == tab.row
    IN  /\ AtTab
        /\ tab.form # 0 \/ (r # None /\ tab.shown)
        /\ Shows(IF tab.form # 0 THEN InsertRemoved(tab, tab.form)
                 ELSE [Stashed(tab) EXCEPT !.edits[r] = Stored, !.deletes = @ \cup {r}])
        /\ UNCHANGED cell

\* Nothing staged, and a draft that says what the row holds.
Cleared(tab) ==
    [tab EXCEPT !.edits = [r \in Rows |-> Stored], !.deletes = {}, !.inserts = <<>>, !.form = 0]

DiscardPendingEdits ==
    LET tab == ActiveTab(FrontTabs)
    IN  /\ AtTab
        /\ ~tab.saving
        /\ Staged(Stashed(tab)) # {}  \* collect_batch_edits counts the draft
        /\ Shows(IF tab.draft # None /\ tab.shown
                 THEN [Cleared(tab) EXCEPT !.draft.text = Stored, !.refused = FALSE]
                 ELSE Cleared(tab))
        /\ UNCHANGED cell

-----------------------------------------------------------------------------
(* Tabs and connections *)

ToFront(ts) ==
    /\ tabs' = [tabs EXCEPT ![front] = LoadingIfEmpty(ts, front)]
    /\ cell' = None

OpenTable(t) ==
    LET ts == FocusOrPush(Left(FrontTabs), NewTab(t))
    IN  /\ Free
        /\ front # NoConn /\ t \in Catalog[front]
        /\ ts.next <= MaxTabs
        /\ tabs' = [tabs EXCEPT ![front] = Loading(Left(ts), front)]
        /\ cell' = None
        /\ UNCHANGED <<open, front, up, list, guard, question, commits>>

\* load_active_table: refresh, paging, sorting, filtering
Reload ==
    /\ AtTab
    /\ tabs' = [tabs EXCEPT ![front] = Loading(Left(@), front)]
    /\ cell' = None

ActivateTab(i) ==
    /\ AtTab
    /\ i \in DOMAIN FrontTabs.items
    /\ i # FrontTabs.active
    /\ ToFront(Activated(Left(FrontTabs), i))

\* tabs_in_scope
InScope(ts, kind, id) ==
    CASE kind = "all" -> IdsOf(ts)
      [] kind = "others" /\ HoldsTab(ts, id) -> IdsOf(ts) \ {id}
      [] kind = "right" /\ HoldsTab(ts, id) ->
            {ts.items[i].id : i \in {j \in DOMAIN ts.items : j > Min(Places(ts, id))}}
      [] OTHER -> {}

\* close_tab_now, once for each from the left
ClosedTabs(ts, ids) ==
    LET upto[i \in 0..Len(ts.items)] ==
            IF i > 0 /\ ts.items[i].id \in ids
            THEN CloseAt(upto[i - 1], Min(Places(upto[i - 1], ts.items[i].id)))
            ELSE IF i > 0 THEN upto[i - 1] ELSE ts
    IN  upto[Len(ts.items)]

\* The front tab is left if it goes, and only then.
LeftIfGoing(ts, ids) ==
    IF HasActive(ts) /\ ActiveTab(ts).id \in ids THEN Left(ts) ELSE ts

CellIfStays(ts, ids) ==
    IF HasActive(ts) /\ ActiveTab(ts).id \in ids THEN None ELSE cell

CloseTabsNow(ids) ==
    /\ tabs' = [tabs EXCEPT ![front] = LoadingIfEmpty(ClosedTabs(LeftIfGoing(@, ids), ids), front)]
    /\ cell' = CellIfStays(FrontTabs, ids)

AskedUncounted(ts, ids) == StagedOn(ts, ids)   \* mutant: what is typed is not in it

\* What the question counts: the front tab is left first if it is to go.
Asked(ts, ids) == StagedOn(LeftIfGoing(ts, ids), ids)

\* close_tab, of one tab; close_tab_scope, of a group
Close(kind, id) ==
    LET ids  == IF kind = "tab" THEN {id} \cap IdsOf(FrontTabs) ELSE InScope(FrontTabs, kind, id)
        held == Asked(FrontTabs, ids)
    IN  /\ Free
        /\ ids # {}
        /\ IF held = {}
           THEN CloseTabsNow(ids) /\ UNCHANGED guard
           ELSE /\ tabs' = [tabs EXCEPT ![front] = LeftIfGoing(@, ids)]
                /\ cell' = CellIfStays(FrontTabs, ids)
                /\ guard' = [kind |-> kind, of |-> IF kind = "tab" THEN front ELSE None,
                             id |-> IF kind = "all" THEN None ELSE id,
                             changes |-> Cardinality(held)]
        /\ UNCHANGED <<open, front, up, list, question, commits>>

\* close_connection_tab_now; connections further along the bar come forward.
CloseConnectionNow(c) ==
    /\ list[c] < MaxLists
    /\ Hasty \/ \A k \in commits : k.list[1] # c
    /\ open' = open \ {c}
    /\ up' = up \ {c}
    /\ list' = [list EXCEPT ![c] = @ + 1]
    /\ IF c = front
       THEN /\ front' \in IF open = {c} THEN {NoConn} ELSE open \ {c}
            /\ tabs' = [tabs EXCEPT ![c] = NoTabs, ![front'] = LoadingIfEmpty(@, front')]
            /\ cell' = None
       ELSE /\ tabs' = [tabs EXCEPT ![c] = NoTabs]
            /\ UNCHANGED <<front, cell>>

CloseConnection(c) ==
    LET left == IF c = front THEN Left(FrontTabs) ELSE tabs[c]
        held == StagedOn(left, IdsOf(left))
    IN  /\ Free
        /\ c \in open
        /\ IF held = {}
           THEN CloseConnectionNow(c) /\ UNCHANGED guard
           ELSE /\ tabs' = [tabs EXCEPT ![c] = left]
                /\ cell' = IF c = front THEN None ELSE cell
                /\ guard' = [kind |-> "connection", of |-> c, id |-> None,
                             changes |-> Cardinality(held)]
                /\ UNCHANGED <<open, front, up, list>>
        /\ UNCHANGED <<question, commits>>

\* What a guard of one tab or a group takes, of the tabs that are in front now.
GuardedIds ==
    IF guard.kind = "tab"
    THEN IF guard.of = front THEN {guard.id} \cap IdsOf(FrontTabs) ELSE {}
    ELSE InScope(FrontTabs, guard.kind, guard.id)

ConfirmClose ==
    /\ guard # None /\ question = None
    /\ guard' = None
    /\ IF guard.kind = "connection"
       THEN CloseConnectionNow(guard.of)
       ELSE CloseTabsNow(GuardedIds) /\ UNCHANGED <<open, front, up, list>>
    /\ UNCHANGED <<question, commits>>

CancelClose ==
    /\ guard # None /\ question = None
    /\ guard' = None
    /\ UNCHANGED <<open, front, up, tabs, list, cell, question, commits>>

SwappedUnleft(c) ==  \* mutant: the list is put away as it is
    [tabs EXCEPT ![c] = LoadingIfEmpty(@, c)]

\* swap_front_tabs
Swapped(c) == [tabs EXCEPT ![front] = Left(@), ![c] = LoadingIfEmpty(@, c)]

\* open_connection_tab, and a connect that answers at once or not at all
SelectConnection(c) ==
    /\ Free
    /\ c # front
    /\ open' = open \cup {c}
    /\ front' = c
    /\ tabs' = Swapped(c)
    /\ cell' = None
    /\ UNCHANGED <<up, list, guard, question, commits>>

Connects(c) ==
    LET empty == c = front /\ HasActive(tabs[c]) /\ ~ActiveTab(tabs[c]).shown
    IN  /\ c \in open \ up
        /\ up' = up \cup {c}
        /\ tabs' = IF empty
                   THEN [tabs EXCEPT ![c] = WithTab(@, [ActiveTab(@) EXCEPT !.loading = TRUE])]
                   ELSE tabs
        /\ cell' = IF empty THEN None ELSE cell
        /\ UNCHANGED <<open, front, list, guard, question, commits>>

\* disconnect: Tabs::clear_results takes the drafts, and leaves what is staged.
Disconnect(c) ==
    /\ Free
    /\ c \in up
    /\ up' = up \ {c}
    /\ tabs' = [tabs EXCEPT ![c].items =
                  [i \in DOMAIN @ |-> [Unselected(@[i]) EXCEPT !.shown = FALSE]]]
    /\ UNCHANGED <<open, front, list, cell, guard, question, commits>>

\* An answer of the newest load of a tab.  Behind, it is dropped.
LoadLands(c, i, ok) ==
    LET tab == [tabs[c].items[i] EXCEPT !.loading = FALSE]
    IN  /\ i \in DOMAIN tabs[c].items
        /\ tabs[c].items[i].loading
        /\ tabs' = [tabs EXCEPT ![c] = WithTab(@, IF ok /\ c = front
                                                  THEN [Unselected(tab) EXCEPT !.shown = TRUE]
                                                  ELSE tab)]
        /\ UNCHANGED <<open, front, up, list, cell, guard, question, commits>>

-----------------------------------------------------------------------------
(* Commits *)

\* guarded_commit_target: the tab a guard asks about, if it is still there and
\* holds work; without a guard the tab in front.
CommitTarget ==
    CASE guard = None -> {ActiveTab(FrontTabs).id}
      [] guard # None /\ guard.kind = "tab" -> {id \in GuardedIds : Staged(TabOf(FrontTabs, id)) # {}}
      [] OTHER -> {}

\* The list with the tab in front folded in, if that is what is committed.
Folded(id) == IF ActiveTab(FrontTabs).id = id THEN Left(FrontTabs) ELSE FrontTabs

HeldUnguarded(agreed) ==  \* mutant: under a close guard nobody is asked
    agreed = None /\ front \in Production /\ guard = None

\* hold_for_production
Held(agreed) == agreed = None /\ front \in Production

\* save_pending_edits; agreed is the count answered to just now, if any.
Save(agreed) ==
    \E id \in CommitTarget :
        LET ts   == Folded(id)
            tab  == TabOf(ts, id)
            mine == ActiveTab(FrontTabs).id = id
            size == Cardinality(Staged(tab))
            goes == /\ ~(mine /\ tab.refused)
                    /\ \A i \in DOMAIN tab.inserts : tab.inserts[i].parses
                    /\ size > 0
                    /\ front \in up
        IN  /\ ~TabOf(FrontTabs, id).saving
            /\ cell' = IF mine THEN None ELSE cell
            /\ CASE goes /\ Held(agreed) ->
                      /\ question' = size
                      /\ tabs' = [tabs EXCEPT ![front] = ts]
                      /\ UNCHANGED <<guard, commits>>
                 [] goes /\ ~Held(agreed) ->
                      /\ question' = None
                      /\ guard' = None
                      /\ tabs' = [tabs EXCEPT ![front] = WithTab(ts, [tab EXCEPT !.saving = TRUE])]
                      /\ Cardinality(commits) < MaxCommits
                      /\ commits' = commits \cup
                            {[list |-> ThisList(front), tab |-> id, edits |-> tab.edits,
                              asked |-> IF agreed = None THEN 0 ELSE agreed,
                              deletes |-> tab.deletes,
                              inserts |-> {tab.inserts[i].row : i \in DOMAIN tab.inserts}]}
                 [] OTHER ->
                      /\ question' = None
                      /\ tabs' = [tabs EXCEPT ![front] = ts]
                      /\ UNCHANGED <<guard, commits>>
            /\ UNCHANGED <<open, front, up, list>>

CommitChanges == question = None /\ HasActive(FrontTabs) /\ Save(None)

\* With nothing to send any more, the question goes and nothing else happens.
ConfirmProduction ==
    /\ question # None
    /\ IF \E id \in CommitTarget : ~TabOf(FrontTabs, id).saving
       THEN Save(question)
       ELSE /\ question' = None
            /\ UNCHANGED <<open, front, up, tabs, list, cell, guard, commits>>

CancelProduction ==
    /\ question # None
    /\ question' = None
    /\ UNCHANGED <<open, front, up, tabs, list, cell, guard, commits>>

ReachesFront(c, id) == c = front /\ HoldsTab(tabs[c], id)  \* mutant: a list put away is not searched

Reaches(c, id) == HoldsTab(tabs[c], id)

\* The answer finds its tab by connection and id, wherever that list is kept.
\* Committed, the tab lets go of what is staged on it, and is read again.
CommitLands(k, outcome) ==
    LET c    == k.list[1]
        tab  == [TabOf(tabs[c], k.tab) EXCEPT !.saving = FALSE]
        done == [Cleared(tab) EXCEPT !.row = None, !.refused = FALSE,
                                     !.loading = @ \/ (c = front /\ c \in up)]
    IN  /\ k \in commits
        /\ commits' = commits \ {k}
        /\ tabs' = IF ~Reaches(c, k.tab) THEN tabs
                   ELSE [tabs EXCEPT ![c] = WithTab(@, IF outcome = "committed" THEN done ELSE tab)]
        /\ UNCHANGED <<open, front, up, list, cell, guard, question>>

-----------------------------------------------------------------------------
Next ==
    \/ \E r \in Rows : SelectRow(r) \/ BeginCellEdit(r)
    \/ \E text \in Typed : TypeField(text)
    \/ \E text \in Boxed : TypeCell(text)
    \/ CancelCell \/ FinishCell
    \/ \E n \in NewRows : AddRows(n) \/ PasteRows(n) \/ EditInsert(n) \/ RemoveInsert(n)
    \/ \E parses \in BOOLEAN : TypeInsert(parses)
    \/ DeleteSelected \/ DiscardPendingEdits \/ Reload
    \/ \E t \in Tables : OpenTable(t)
    \/ \E i \in 1..MaxTabs : ActivateTab(i)
    \/ \E kind \in {"tab"} \cup Groups, id \in Ids : Close(kind, id)
    \/ \E c \in Conns : CloseConnection(c) \/ SelectConnection(c) \/ Connects(c) \/ Disconnect(c)
    \/ ConfirmClose \/ CancelClose
    \/ \E c \in Conns, i \in 1..MaxTabs, ok \in BOOLEAN : LoadLands(c, i, ok)
    \/ CommitChanges \/ ConfirmProduction \/ CancelProduction
    \/ \E k \in commits, outcome \in {"committed", "rolled back"} : CommitLands(k, outcome)

Spec == Init /\ [][Next]_vars

-----------------------------------------------------------------------------
(* Properties *)

\* A tab of a list, by connection, list and id, then and now.
IsHere(c, id) == HoldsTab(tabs[c], id)
StaysHere(c, id) == list'[c] = list[c] /\ HoldsTab(tabs'[c], id)

\* What is staged on a tab, and what is typed on the one in front.
WorkOn(c, id) ==
    LET tab == TabOf(tabs[c], id)
    IN  Staged(IF c = front /\ ActiveTab(FrontTabs).id = id THEN Stashed(CellFinished(tab)) ELSE tab)

\* No tab goes with staged work on it, alone, in a group or with its connection,
\* but by the answer to a question that was about it, and that had counted what
\* was typed and not staged yet (DbUi::close_tab, close_tab_scope,
\* close_connection_tab).
AskedFirst == [][
    \A c \in Conns, id \in Ids :
        IsHere(c, id) /\ ~StaysHere(c, id) /\ WorkOn(c, id) # {} =>
            /\ guard # None /\ guard' = None
            /\ guard.of \in {c, None}
            /\ guard.kind = "tab" => guard.id = id]_vars

\* What the question reads out is never less than what a yes throws away, with
\* loads and commits landing under it (CloseGuard::changes, confirm_close).
QuotedCount == guard # None =>
    LET taken == CASE guard.kind # "connection" -> Asked(FrontTabs, GuardedIds)
                   [] guard.kind = "connection" /\ guard.of = front ->
                        Asked(FrontTabs, IdsOf(FrontTabs))
                   [] OTHER -> StagedOn(tabs[guard.of], IdsOf(tabs[guard.of]))
    IN  Cardinality(taken) <= guard.changes

\* What is typed in front, in the box or in the sidebar, is staged on its tab
\* when another tab or connection comes to the front (DbUi::leave_front_tab).
TypedIsStaged == [][
    LET tab == ActiveTab(FrontTabs)
        was == CellFinished(tab)
    IN  /\ HasActive(FrontTabs) /\ was.draft # None /\ tab.shown
        /\ was.draft.text # Bad /\ was.draft.row \notin tab.deletes
        /\ front # NoConn /\ StaysHere(front, tab.id)
        /\ front' # front \/ ActiveTab(tabs'[front]).id # tab.id
        => TabOf(tabs'[front], tab.id).edits[was.draft.row] = was.draft.text]_vars

\* A tab that says it is committing has a commit in flight, however its
\* connection was put away meanwhile; without one every later commit of it would
\* be refused (Table::saving, DbUi::connection_tabs_mut).
SavingWillEnd == \A c \in Conns : \A tab \in ToSet(tabs[c].items) :
    tab.saving => \E k \in commits : k.list[1] = c /\ k.tab = tab.id

\* What goes to production was asked about, and the count agreed to is the count
\* that went (DbUi::hold_for_production, confirm_production_write).
ProductionAgreed == \A k \in commits : k.list[1] \in Production =>
    k.asked = Cardinality({r \in Rows : k.edits[r] # Stored})
              + Cardinality(k.deletes) + Cardinality(k.inserts)

\* What a question counts is what a yes to it throws away or sends.
AgreedCounts == QuotedCount /\ ProductionAgreed

\* While a commit of a tab is in flight the tab says so, and is not committed
\* again: one batch, sent once.
SentOnce == \A k \in commits : \A tab \in ToSet(tabs[k.list[1]].items) :
    k.list = ThisList(k.list[1]) /\ k.tab = tab.id => tab.saving
===============================================================================

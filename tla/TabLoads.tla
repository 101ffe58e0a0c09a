-------------------------------- MODULE TabLoads --------------------------------
(***************************************************************************)
(* The window's connections and tabs, and the answers on their way to them *)
(* (crates/dbui-ui/src/root.rs over dbui-app/src/workspace.rs): connecting *)
(* and disconnecting, opening, switching and closing connections and tabs, *)
(* table loads, editor runs, and how each answer finds its tab.            *)
(*                                                                         *)
(* Everything happens on the window's thread, so one handler is one step.  *)
(* A load, a run or a connect is a task of its own between the step that   *)
(* starts it and the step in which its answer lands.                       *)
(***************************************************************************)
EXTENDS Tabs, FiniteSets

CONSTANTS
    Conns,     \* connections: saved, yet to be made, or removed
    NoConn,    \* ... and none
    Tables,    \* tables of a connection
    Query,     \* what a SQL tab shows instead
    MaxTabs,   \* bound: tabs opened in one list
    MaxTasks,  \* bound: loads and runs in flight
    MaxSeq,    \* bound: loads and runs of one tab
    MaxDials,  \* bound: connects in flight to one connection
    MaxLists   \* bound: times one connection is opened anew

ASSUME NamesAssumption == NoConn \notin Conns /\ Query \notin Tables
ASSUME BoundsAssumption ==
    /\ {MaxTabs, MaxTasks, MaxSeq, MaxDials} \subseteq Nat \ {0}
    /\ MaxLists \in Nat

VARIABLES
    entry,     \* Workspace::entries, and what is not in it yet or any more
    front,     \* Workspace::active
    open,      \* Workspace::open, the connection bar
    status,    \* ConnectionStatus of each entry
    dialing,   \* how many connects are in flight to each
    tabs,      \* DbUi::tabs and stashed_tabs: each connection's tab list
    list,      \* how many lists a connection has had: history
    task,      \* loads and runs in flight
    running,   \* by connection and tab: the run Stop would stop
    loads,     \* table_loads: by connection and tab, the load in flight
    abandoned, \* tasks whose answer is for nobody
    inFlight   \* loads_in_flight

vars == <<entry, front, open, status, dialing, tabs, list,
          task, running, loads, abandoned, inFlight>>

Ids == 0..MaxTabs - 1
Keys == Conns \X Ids

\* 0 is no task: DbUi::next_run counts without end, the model reuses numbers.
Tasks == 1..MaxTasks

\* A list is named by its connection and by how many that one had before it.
Lists == Conns \X (0..MaxLists)

\* What an answer is of: the question, the tab and load that asked it.
Asked == [of : Tables \cup {Query}, list : Lists, tab : Ids, seq : 1..MaxSeq]

NoRows == [of |-> Query, list |-> <<NoConn, 0>>, tab |-> 0, seq |-> 0]

Tab == [id : Ids, of : Tables \cup {Query}, seq : 0..MaxSeq, rows : Asked \cup {NoRows}]

NewTab(of) == [id |-> 0, of |-> of, seq |-> 0, rows |-> NoRows]

\* told: its StopHandle was pressed.
Flights == [asked : Asked \cup {NoRows}, flies : BOOLEAN, told : BOOLEAN]

NoFlight == [asked |-> NoRows, flies |-> FALSE, told |-> FALSE]

Statuses == {"disconnected", "connecting", "connected", "failed"}

Connected(c) == c \in Conns /\ status[c] = "connected"

IsSaved(c) == c \in Conns /\ entry[c] = "saved"

IsOpen(c) == c \in ToSet(open)

ThisList(c) == <<c, list[c]>>

TypeOK ==
    /\ entry \in [Conns -> {"new", "saved", "removed"}]
    /\ front \in Conns \cup {NoConn}
    /\ open \in Seq(Conns) /\ IsInjective(open)
    /\ status \in [Conns -> Statuses]
    /\ dialing \in [Conns -> 0..MaxDials]
    /\ \A c \in Conns \cup {NoConn} :
          /\ ToSet(tabs[c].items) \subseteq Tab
          /\ HasActive(tabs[c]) \/ (tabs[c].items = <<>> /\ tabs[c].active = 1)
    /\ list \in [Conns -> 0..MaxLists]
    /\ task \in [Tasks -> Flights]
    /\ {running, loads} \subseteq [Keys -> Tasks \cup {0}]
    /\ abandoned \subseteq Tasks
    /\ inFlight \in 0..MaxTasks

\* Workspace::from_configs: the first of the saved connections is open.
Init ==
    /\ entry \in [Conns -> {"new", "saved"}]
    /\ \/ \E c \in Conns : IsSaved(c) /\ front = c /\ open = <<c>>
       \/ (\A c \in Conns : ~IsSaved(c)) /\ front = NoConn /\ open = <<>>
    /\ status = [c \in Conns |-> "disconnected"]
    /\ dialing = [c \in Conns |-> 0]
    /\ tabs = [c \in Conns \cup {NoConn} |-> NoTabs]
    /\ list = [c \in Conns |-> 0]
    /\ task = [t \in Tasks |-> NoFlight]
    /\ running = [k \in Keys |-> 0]
    /\ loads = [k \in Keys |-> 0]
    /\ abandoned = {}
    /\ inFlight = 0

-----------------------------------------------------------------------------
(* What a handler does to the tabs and tasks, in one or more parts.  w is  *)
(* the window after the parts before.                                      *)

Window == [tabs |-> tabs, task |-> task, running |-> running, loads |-> loads,
           abandoned |-> abandoned, inFlight |-> inFlight]

Becomes(w) ==
    /\ tabs' = w.tabs
    /\ task' = w.task
    /\ running' = w.running
    /\ loads' = w.loads
    /\ abandoned' = w.abandoned
    /\ inFlight' = w.inFlight

Less(n, k) == IF n > k THEN n - k ELSE 0  \* saturating_sub

Told(tk, ts) == [t \in Tasks |-> [tk[t] EXCEPT !.told = tk[t].told \/ t \in ts]]

AbandonQuietly(w, ts) ==  \* mutant: told, and still waited for
    [w EXCEPT !.task = Told(@, ts),
              !.inFlight = Less(@, Cardinality(ts))]

\* Nothing waits for these tasks any longer: they are told to stop, counted out
\* now, and their answers are for nobody.
Abandon(w, ts) ==
    [w EXCEPT !.task = Told(@, ts),
              !.abandoned = @ \cup ts,
              !.inFlight = Less(@, Cardinality(ts))]

FreeTasks(w) == {t \in Tasks : ~w.task[t].flies}

MayBegin(w, c) ==
    /\ HasActive(w.tabs[c])
    /\ ActiveTab(w.tabs[c]).seq < MaxSeq
    /\ FreeTasks(w) # {}

\* A task for the tab in front of c's list, under the next load count of the tab.
Begin(w, c, t) ==
    LET tab == [ActiveTab(w.tabs[c]) EXCEPT !.seq = @ + 1]
    IN  [w EXCEPT !.tabs[c] = WithTab(@, tab),
                  !.task[t] = [asked |-> [of |-> tab.of, list |-> ThisList(c),
                                          tab |-> tab.id, seq |-> tab.seq],
                               flies |-> TRUE, told |-> FALSE],
                  !.inFlight = @ + 1]

LoadTableBeside(w, c) ==  \* mutant: the load before is forgotten
    LET t   == Min(FreeTasks(w))
        key == <<c, ActiveTab(w.tabs[c]).id>>
    IN  [Begin(w, c, t) EXCEPT !.loads[key] = t]

\* load_table: the load this one replaces is abandoned.
LoadTable(w, c) ==
    LET t   == Min(FreeTasks(w))
        key == <<c, ActiveTab(w.tabs[c]).id>>
    IN  Abandon([Begin(w, c, t) EXCEPT !.loads[key] = t], {w.loads[key]} \ {0})

\* load_active_table, of a connection that is in front
Load(w, c, connected) ==
    IF connected THEN MayBegin(w, c) /\ Becomes(LoadTable(w, c)) ELSE Becomes(w)

\* load_active_table_if_empty: rows for a tab that has none
LoadIfEmpty(w, c, connected) ==
    LET empty == /\ HasActive(w.tabs[c])
                 /\ ActiveTab(w.tabs[c]).of # Query
                 /\ ActiveTab(w.tabs[c]).rows = NoRows
    IN  Load(w, c, connected /\ empty)

-----------------------------------------------------------------------------
(* Connections *)

\* Workspace::activate
Activates(c) ==
    /\ front' = c
    /\ open' = IF IsOpen(c) \/ ~IsSaved(c) THEN open ELSE Append(open, c)

\* DbUi::connect, of a connection neither connected nor connecting
Dial(c) ==
    /\ dialing[c] < MaxDials
    /\ status' = [status EXCEPT ![c] = "connecting"]
    /\ dialing' = [dialing EXCEPT ![c] = @ + 1]

ConnectUnlessBusy(c) ==
    IF status[c] \in {"connected", "connecting"} THEN UNCHANGED <<status, dialing>> ELSE Dial(c)

\* open_connection_tab: the tabs in front are put away under the connection
\* they belong to, which with no connection in front is none.
OpenConnection(c) ==
    /\ IsSaved(c)
    /\ Activates(c)
    /\ IF front = c
       THEN Becomes(Window)
       ELSE LoadIfEmpty([Window EXCEPT !.tabs[NoConn] = NoTabs], c, Connected(c))
    /\ ConnectUnlessBusy(c)
    /\ UNCHANGED <<entry, list>>

ConnectFront ==
    /\ IsSaved(front)
    /\ status[front] \in {"disconnected", "failed"}
    /\ Dial(front)
    /\ Becomes(Window)
    /\ UNCHANGED <<entry, front, open, list>>

\* save_connection of a new one: add_connection, and its connect
AddConnection(c) ==
    /\ entry[c] = "new"
    /\ entry' = [entry EXCEPT ![c] = "saved"]
    /\ front' = c
    /\ open' = Append(open, c)
    /\ Dial(c)
    /\ Becomes([Window EXCEPT !.tabs[NoConn] = NoTabs])
    /\ UNCHANGED list

\* save_connection of one that exists: a connected one is dialled anew, and one
\* that is connecting goes on as it was.
EditConnection(c) ==
    /\ IsSaved(c)
    /\ status[c] # "connecting"
    /\ Dial(c)
    /\ Becomes(Window)
    /\ UNCHANGED <<entry, front, open, list>>

\* With nothing in front, the connection brings itself to the front, over the
\* tabs that are there.
ConnectSucceeds(c) ==
    /\ dialing[c] > 0
    /\ status' = IF IsSaved(c) THEN [status EXCEPT ![c] = "connected"] ELSE status
    /\ dialing' = [dialing EXCEPT ![c] = @ - 1]
    /\ IF front = NoConn THEN Activates(c) ELSE UNCHANGED <<front, open>>
    /\ LET w == IF front = NoConn
                THEN [Window EXCEPT !.tabs[c] = tabs[NoConn], !.tabs[NoConn] = NoTabs]
                ELSE Window
       IN  IF front' = c THEN LoadIfEmpty(w, c, IsSaved(c)) ELSE Becomes(w)
    /\ UNCHANGED <<entry, list>>

ConnectFailsUnsaid(c) ==  \* mutant: the window is not told
    /\ dialing[c] > 0
    /\ dialing' = [dialing EXCEPT ![c] = @ - 1]
    /\ Becomes(Window)
    /\ UNCHANGED <<entry, front, open, status, list>>

ConnectFails(c) ==
    /\ dialing[c] > 0
    /\ status' = IF IsSaved(c) THEN [status EXCEPT ![c] = "failed"] ELSE status
    /\ dialing' = [dialing EXCEPT ![c] = @ - 1]
    /\ Becomes(Window)
    /\ UNCHANGED <<entry, front, open, list>>

\* Tabs::clear_results
Cleared(ts) == [ts EXCEPT !.items = [i \in DOMAIN @ |-> [@[i] EXCEPT !.rows = NoRows]]]

Disconnect(c) ==
    /\ IsSaved(c)
    /\ c = front \/ Connected(c)
    /\ status' = [status EXCEPT ![c] = "disconnected"]
    /\ Becomes([Window EXCEPT !.tabs[c] = Cleared(@)])
    /\ UNCHANGED <<entry, front, open, dialing, list>>

PlaceOf(c) == CHOOSE i \in DOMAIN open : open[i] = c

OpenWithout(c) == IF IsOpen(c) THEN RemoveAt(open, PlaceOf(c)) ELSE open

PromotedLeft(c) ==  \* mutant: the first, even if it is the one that closes
    IF Len(open) > 1 THEN open[1] ELSE NoConn

\* Workspace::close_connection: the right neighbour comes forward, or the last.
Promoted(c) ==
    LET rest == OpenWithout(c)
    IN  CASE rest = <<>> -> NoConn
          [] rest # <<>> /\ PlaceOf(c) \in DOMAIN rest -> rest[PlaceOf(c)]
          [] OTHER -> Last(rest)

\* close_connection_tab_now: what it has in flight is left to land.
CloseConnection(c) ==
    /\ IsOpen(c)
    /\ list[c] < MaxLists
    /\ status' = [status EXCEPT ![c] = "disconnected"]
    /\ open' = OpenWithout(c)
    /\ front' = IF front = c THEN Promoted(c) ELSE front
    /\ list' = [list EXCEPT ![c] = @ + 1]
    /\ LET w == [Window EXCEPT !.tabs[c] = NoTabs]
       IN  IF front = c THEN LoadIfEmpty(w, front', Connected(front')) ELSE Becomes(w)
    /\ UNCHANGED <<entry, dialing>>

\* remove_connection: as closing it, open or not, and it is forgotten.
RemoveConnection(c) ==
    /\ IsSaved(c)
    /\ entry' = [entry EXCEPT ![c] = "removed"]
    /\ status' = [status EXCEPT ![c] = "disconnected"]
    /\ open' = OpenWithout(c)
    /\ front' = IF front = c THEN Promoted(c) ELSE front
    /\ LET w == [Window EXCEPT !.tabs[c] = NoTabs]
       IN  IF front = c THEN LoadIfEmpty(w, front', Connected(front')) ELSE Becomes(w)
    /\ UNCHANGED <<dialing, list>>

-----------------------------------------------------------------------------
(* Tabs *)

\* open_table_tab: the table's tab, reread even if it was there.
OpenTable(t) ==
    LET ts == FocusOrPush(tabs[front], NewTab(t))
    IN  /\ front # NoConn
        /\ ts.next <= MaxTabs
        /\ Load([Window EXCEPT !.tabs[front] = ts], front, Connected(front))
        /\ UNCHANGED <<entry, front, open, status, dialing, list>>

OpenSql ==
    LET ts == FocusOrPush(tabs[front], NewTab(Query))
    IN  /\ ts.next <= MaxTabs
        /\ Becomes([Window EXCEPT !.tabs[front] = ts])
        /\ UNCHANGED <<entry, front, open, status, dialing, list>>

ActivateTab(i) ==
    /\ i \in DOMAIN tabs[front].items
    /\ i # tabs[front].active
    /\ LoadIfEmpty([Window EXCEPT !.tabs[front] = Activated(@, i)], front, Connected(front))
    /\ UNCHANGED <<entry, front, open, status, dialing, list>>

DragTab(from, to) ==
    /\ {from, to} \subseteq DOMAIN tabs[front].items
    /\ from # to
    /\ Becomes([Window EXCEPT !.tabs[front] = Reordered(@, from, to)])
    /\ UNCHANGED <<entry, front, open, status, dialing, list>>

\* close_tab_now: what the tab waits for is abandoned.
CloseTab(i) ==
    LET key  == <<front, tabs[front].items[i].id>>
        held == IF front = NoConn THEN {} ELSE {running[key], loads[key]} \ {0}
        w    == IF front = NoConn THEN Window
                ELSE [Window EXCEPT !.running[key] = 0, !.loads[key] = 0]
    IN  /\ i \in DOMAIN tabs[front].items
        /\ LoadIfEmpty([Abandon(w, held) EXCEPT !.tabs[front] = CloseAt(@, i)],
                       front, Connected(front))
        /\ UNCHANGED <<entry, front, open, status, dialing, list>>

-----------------------------------------------------------------------------
(* Loads, runs and their answers *)

\* refresh, paging, sorting and filtering the table in front
Reload ==
    /\ Connected(front)
    /\ HasActive(tabs[front])
    /\ ActiveTab(tabs[front]).of # Query
    /\ Load(Window, front, TRUE)
    /\ UNCHANGED <<entry, front, open, status, dialing, list>>

\* dispatch_statements: Stop now means this run; the one before goes on.
Run ==
    LET t == Min(FreeTasks(Window))
        w == Begin(Window, front, t)
    IN  /\ Connected(front)
        /\ MayBegin(Window, front)
        /\ ActiveTab(tabs[front]).of = Query
        /\ Becomes([w EXCEPT !.running[<<front, ActiveTab(tabs[front]).id>>] = t])
        /\ UNCHANGED <<entry, front, open, status, dialing, list>>

StopQuery ==
    LET key == <<front, ActiveTab(tabs[front]).id>>
    IN  /\ front # NoConn
        /\ HasActive(tabs[front])
        /\ running[key] # 0
        /\ Becomes([Window EXCEPT !.task[running[key]].told = TRUE, !.running[key] = 0])
        /\ UNCHANGED <<entry, front, open, status, dialing, list>>

LoadIsAnyones(c, id, seq) == HoldsTab(tabs[c], id)  \* mutant: whatever the count

\* Tabs::load_is_current
LoadIsCurrent(c, id, seq) == \E i \in Places(tabs[c], id) : tabs[c].items[i].seq = seq

InFrontOrNot(c) == front # NoConn  \* mutant: the tabs in front, whoever's they are

InFront(c) == front = c

HoldsAny(held, t) == TRUE    \* mutant: whoever's handle is there
HoldsNone(held, t) == FALSE  \* mutant: the handle stays

Holds(held, t) == held = t

\* A task comes back.  Its handle goes if it is still the one that is kept;
\* its answer is dropped if it was abandoned, if its connection is behind, or
\* if its tab has gone or begun another load.
Lands(t, ok) ==
    LET a   == task[t].asked
        c   == a.list[1]
        key == <<c, a.tab>>
        tab == TabOf(tabs[front], a.tab)
        w   == [Window EXCEPT
                  !.task[t] = NoFlight,
                  !.running[key] = IF a.of = Query /\ Holds(@, t) THEN 0 ELSE @,
                  !.loads[key] = IF a.of # Query /\ Holds(@, t) THEN 0 ELSE @]
        shown == /\ ok
                 /\ InFront(c)
                 /\ LoadIsCurrent(front, a.tab, a.seq)
                 /\ tab.of = Query <=> a.of = Query
    IN  /\ task[t].flies
        /\ Becomes(IF t \in abandoned
                   THEN [w EXCEPT !.abandoned = @ \ {t}]
                   ELSE [w EXCEPT !.inFlight = Less(@, 1),
                                  !.tabs[front] = IF shown
                                                  THEN WithTab(@, [tab EXCEPT !.rows = a])
                                                  ELSE @])
        /\ UNCHANGED <<entry, front, open, status, dialing, list>>

-----------------------------------------------------------------------------
Next ==
    \/ \E c \in Conns :
          \/ AddConnection(c) \/ EditConnection(c) \/ RemoveConnection(c)
          \/ OpenConnection(c) \/ CloseConnection(c) \/ Disconnect(c)
          \/ ConnectSucceeds(c) \/ ConnectFails(c)
    \/ ConnectFront
    \/ \E t \in Tables : OpenTable(t)
    \/ OpenSql
    \/ \E i \in 1..MaxTabs : ActivateTab(i) \/ CloseTab(i)
    \/ \E from, to \in 1..MaxTabs : DragTab(from, to)
    \/ Reload \/ Run \/ StopQuery
    \/ \E t \in Tasks, ok \in BOOLEAN : Lands(t, ok)

Spec == Init /\ [][Next]_vars

-----------------------------------------------------------------------------
(* Properties *)

\* The rows on a table's tab are that table's, asked for by a tab of the list it
\* is in: an answer finds the tab that asked, or none, although ids and load
\* counts start at zero in every list (DbUi::finish_tab_load).
TableRowsAreOwn == \A c \in Conns : \A i \in DOMAIN tabs[c].items :
    LET tab == tabs[c].items[i]
    IN  tab.of # Query /\ tab.rows # NoRows
        => tab.rows.of = tab.of /\ tab.rows.list = ThisList(c) /\ tab.rows.tab = tab.id

\* Answers land in the order they were asked for, or not at all: no tab goes
\* back to the rows of an earlier load or run of its own (Tabs::load_is_current).
NewestWins == [][
    \A c \in Conns : list'[c] = list[c] =>
        \A id \in Ids : HoldsTab(tabs[c], id) /\ HoldsTab(tabs'[c], id) =>
            LET now == TabOf(tabs[c], id).rows
                new == TabOf(tabs'[c], id).rows
            IN  new # now /\ new.list = now.list => new.seq > now.seq]_vars

\* "Busy" in the footer counts exactly the tasks somebody still waits for, so it
\* comes on with the first and goes off with the last, whatever is closed,
\* replaced or stopped meanwhile (DbUi::release_load, abandoned).
WaitedForIsCounted ==
    inFlight = Cardinality({t \in Tasks : task[t].flies} \ abandoned)

\* An abandoned task was told to stop and will land; nobody is left in the set,
\* where the number of a later task would be taken for it.
AbandonedWillLand == \A t \in abandoned : task[t].flies /\ task[t].told

FooterCounts == WaitedForIsCounted /\ AbandonedWillLand

\* Every load under way can be stopped: it is the one held for its tab, so that
\* closing the tab, or loading it again, reaches it; and the run that a SQL tab
\* asked for last is the one that Stop means (table_loads, running).
HandlesReach == \A t \in Tasks :
    LET a == task[t].asked
        c == a.list[1]
        key == <<c, a.tab>>
    IN  task[t].flies /\ ~task[t].told =>
          /\ a.of # Query => loads[key] = t
          /\ a.of = Query /\ ThisList(c) = a.list /\ LoadIsCurrent(c, a.tab, a.seq)
             => running[key] = t

\* What is held in running and table_loads is under way, and was asked for by a
\* tab of that connection and id.
HandlesAreLive == \A key \in Keys : \A t \in {running[key], loads[key]} \ {0} :
    task[t].flies /\ task[t].asked.list[1] = key[1] /\ task[t].asked.tab = key[2]

\* While a connection is open one is in front; a saved one in front is open; and
\* a saved connection that is not open has no tabs, so that opening it starts
\* clean (DbUi::swap_front_tabs, close_connection_tab_now).
FrontIsOpen ==
    /\ open # <<>> => front # NoConn
    /\ IsSaved(front) => IsOpen(front)
    /\ \A c \in Conns : IsSaved(c) /\ ~IsOpen(c) => tabs[c] = NoTabs

\* A connection that says it is connecting has an answer on the way; without one
\* it could never be connected again, since connect refuses a busy one.
ConnectingWillEnd == \A c \in Conns : status[c] = "connecting" => dialing[c] > 0
===============================================================================

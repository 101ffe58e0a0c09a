---------------------------------- MODULE Tabs ----------------------------------
(***************************************************************************)
(* The tab list of one connection (crates/dbui-ui/src/tabs.rs, Tabs): the  *)
(* tabs from left to right, which of them is in front, and the id the next *)
(* one gets.  Ids count from zero in every list.  A tab is a record with   *)
(* its id and what it is of; modules that extend this one add the rest.    *)
(***************************************************************************)
EXTENDS Naturals, SequencesExt

\* Tabs::default
NoTabs == [items |-> <<>>, active |-> 1, next |-> 0]

HasActive(ts) == ts.active \in DOMAIN ts.items

ActiveTab(ts) == ts.items[ts.active]

Places(ts, id) == {i \in DOMAIN ts.items : ts.items[i].id = id}

HoldsTab(ts, id) == Places(ts, id) # {}

TabOf(ts, id) == ts.items[CHOOSE i \in Places(ts, id) : TRUE]

\* Tabs::get_mut, and what is then written to the tab.
WithTab(ts, tab) ==
    [ts EXCEPT !.items = [i \in DOMAIN @ |-> IF @[i].id = tab.id THEN tab ELSE @[i]]]

Activated(ts, i) == [ts EXCEPT !.active = i]

\* Tabs::alloc_id, which never gives an id out twice
NextTab(ts) == [ts EXCEPT !.next = @ + 1]

Pushed(ts, tab) ==
    [NextTab(ts) EXCEPT !.items = Append(@, [tab EXCEPT !.id = ts.next]),
                        !.active = Len(ts.items) + 1]

\* Tabs::open_table and open_sql: the tab that is wanted, if it is there.
FocusOrPush(ts, tab) ==
    LET wanted == {i \in DOMAIN ts.items : ts.items[i].of = tab.of}
    IN  IF wanted = {} THEN Pushed(ts, tab) ELSE Activated(ts, Min(wanted))

CloseAtStuck(ts, i) ==  \* mutant: the front stays where it was, off the end
    [ts EXCEPT !.items = RemoveAt(@, i)]

\* Tabs::close: the front stays on its tab, or goes to the right neighbour.
CloseAt(ts, i) ==
    LET items == RemoveAt(ts.items, i)
    IN  [ts EXCEPT !.items = items,
                   !.active = CASE items = <<>> -> 1
                                [] items # <<>> /\ @ > Len(items) -> Len(items)
                                [] OTHER -> IF i < @ THEN @ - 1 ELSE @]

\* Tabs::reorder: the front follows its tab.
Reordered(ts, from, to) ==
    LET items == InsertAt(RemoveAt(ts.items, from), to, ts.items[from])
    IN  [ts EXCEPT !.items = items,
                   !.active = CHOOSE i \in DOMAIN items : items[i].id = ActiveTab(ts).id]
===============================================================================

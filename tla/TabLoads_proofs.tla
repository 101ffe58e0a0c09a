---------------------------- MODULE TabLoads_proofs ----------------------------
(***************************************************************************)
(* Theorems of TabLoads, and their proofs.  All of them follow from one    *)
(* inductive invariant, IInv: Fronts is about the connections, WindowOK    *)
(* about the tabs and the tasks.                                           *)
(*                                                                         *)
(* Why an answer finds its tab.  An id is given out once in a list, and a  *)
(* connection that is closed begins a new list, so a question (list, tab,  *)
(* count) is asked once: Distinct says so of what is in flight, Unseen of  *)
(* that and what is shown.  No tab is behind what was asked for it         *)
(* (Behind), so a tab whose count is the answer's asked for it last.  What *)
(* was asked last for a table is the load that is kept (LastLoad): that is *)
(* why an answer that is shown is of the tab's table.                      *)
(*                                                                         *)
(* Why the footer is right.  A handle is of a task that somebody waits for *)
(* (Held), and a load that somebody waits for has one (Reached), so what a *)
(* reload or a close abandons is in flight and was counted; what has been  *)
(* abandoned still flies, and was told (Gone).                             *)
(*                                                                         *)
(* The proof has one lemma for each part of a handler (BeginIs,            *)
(* AbandonIs, LoadTableKeeps, ...), one for each action (...Steps), and    *)
(* puts them together in InvariantStep.                                    *)
(***************************************************************************)
EXTENDS TabLoads, FiniteSetTheorems, SequenceTheorems, TLAPS

TabLists == [items : Seq(Tab), active : Nat, next : 0..MaxTabs]

Windows == [tabs : [Conns \cup {NoConn} -> TabLists],
            task : [Tasks -> Flights],
            running : [Keys -> Tasks \cup {0}],
            loads : [Keys -> Tasks \cup {0}],
            abandoned : SUBSET Tasks,
            inFlight : Nat]

\* A list of tabs with one in front, under ids given out before and never twice.
ListOK(ts) ==
    /\ ts \in TabLists
    /\ HasActive(ts) \/ (ts.items = <<>> /\ ts.active = 1)
    /\ \A i \in DOMAIN ts.items : ts.items[i].id < ts.next
    /\ \A i, j \in DOMAIN ts.items : ts.items[i].id = ts.items[j].id => i = j

ListsOK(ls) ==
    /\ ls \in [Conns \cup {NoConn} -> TabLists]
    /\ \A c \in Conns \cup {NoConn} : ListOK(ls[c])

\* A flight was asked by a connection there is or was, in a list it has or had.
Asks(tk, l, e) == \A t \in Tasks : tk[t].flies =>
    /\ tk[t].asked \in Asked
    /\ e[tk[t].asked.list[1]] # "new"
    /\ tk[t].asked.list[2] <= l[tk[t].asked.list[1]]

\* A handle kept for a tab is of a flight that tab's id asked for, and waited for.
KeptFor(tk, ab, c, id, t) ==
    /\ tk[t].flies /\ t \notin ab
    /\ tk[t].asked.list[1] = c /\ tk[t].asked.tab = id

Held(tk, rn, ld, ab) == \A c \in Conns, id \in Ids :
    /\ rn[<<c, id>>] # 0 => /\ KeptFor(tk, ab, c, id, rn[<<c, id>>])
                            /\ tk[rn[<<c, id>>]].asked.of = Query
    /\ ld[<<c, id>>] # 0 => /\ KeptFor(tk, ab, c, id, ld[<<c, id>>])
                            /\ tk[ld[<<c, id>>]].asked.of # Query

Gone(tk, ab) == \A t \in ab : tk[t].flies /\ tk[t].told

Waited(tk, ab) == {t \in Tasks : tk[t].flies} \ ab

\* A load that is waited for is the one kept for its tab.
Reached(tk, ld, ab) == \A t \in Tasks :
    tk[t].flies /\ t \notin ab /\ tk[t].asked.of # Query
    => ld[<<tk[t].asked.list[1], tk[t].asked.tab>>] = t

\* No tab of the list is behind what was asked, and its id was given out.
NotAhead(ts, a) ==
    /\ a.tab < ts.next
    /\ \A i \in DOMAIN ts.items : ts.items[i].id = a.tab => a.seq <= ts.items[i].seq

\* What flies from the list a connection has was asked by a tab that is there
\* or has gone, and not ahead of its count.
Behind(ls, tk, l, e) == \A t \in Tasks :
    /\ tk[t].flies
    /\ e[tk[t].asked.list[1]] = "saved"
    /\ tk[t].asked.list[2] = l[tk[t].asked.list[1]]
    => NotAhead(ls[tk[t].asked.list[1]], tk[t].asked)

Wanted(ts, a) == \E i \in DOMAIN ts.items : ts.items[i].id = a.tab /\ ts.items[i].seq = a.seq

\* The last run of a SQL tab is the one that is kept, until it is told to stop.
LastRun(ls, tk, rn, l) == \A t \in Tasks :
    /\ tk[t].flies /\ ~tk[t].told /\ tk[t].asked.of = Query
    /\ tk[t].asked.list[2] = l[tk[t].asked.list[1]]
    /\ Wanted(ls[tk[t].asked.list[1]], tk[t].asked)
    => rn[<<tk[t].asked.list[1], tk[t].asked.tab>>] = t

AskedBy(tab, n, a) == a.of = tab.of /\ a.list[2] = n /\ a.seq = tab.seq

\* The load kept for a table's tab that has loaded is that tab's last one.
LastLoad(ls, tk, ld, l) == \A c \in Conns : \A i \in DOMAIN ls[c].items :
    /\ ls[c].items[i].of # Query /\ ls[c].items[i].seq > 0
    /\ ld[<<c, ls[c].items[i].id>>] # 0
    => AskedBy(ls[c].items[i], l[c], tk[ld[<<c, ls[c].items[i].id>>]].asked)

\* Rows were asked for by the tab that shows them, or, for a SQL tab, by one of its
\* id in an earlier list.
OwnRows(tab, c, n) ==
    /\ tab.rows.list[1] = c /\ tab.rows.tab = tab.id /\ tab.rows.seq <= tab.seq
    /\ tab.of # Query => tab.rows.of = tab.of /\ tab.rows.list[2] = n

RowsOf(ls, l) == \A c \in Conns : \A i \in DOMAIN ls[c].items :
    ls[c].items[i].rows # NoRows => OwnRows(ls[c].items[i], c, l[c])

Same(a, b) == a.list = b.list /\ a.tab = b.tab /\ a.seq = b.seq

\* No two flights, and no flight and no rows, answer the same question.
Distinct(tk) == \A t, u \in Tasks :
    tk[t].flies /\ tk[u].flies /\ Same(tk[t].asked, tk[u].asked) => t = u

Unseen(ls, tk) == \A c \in Conns : \A i \in DOMAIN ls[c].items :
    ls[c].items[i].rows # NoRows =>
        \A t \in Tasks : tk[t].flies => ~Same(tk[t].asked, ls[c].items[i].rows)

\* What is not saved has asked for nothing.
IdleTabs(ts) == \A i \in DOMAIN ts.items : ts.items[i].seq = 0 /\ ts.items[i].rows = NoRows

Idle(ls, e) == \A c \in Conns \cup {NoConn} : c = NoConn \/ e[c] # "saved" => IdleTabs(ls[c])

WindowOK(w, l, e) ==
    /\ w \in Windows
    /\ ListsOK(w.tabs)
    /\ Asks(w.task, l, e)
    /\ Held(w.task, w.running, w.loads, w.abandoned)
    /\ Gone(w.task, w.abandoned)
    /\ w.inFlight = Cardinality(Waited(w.task, w.abandoned))
    /\ Reached(w.task, w.loads, w.abandoned)
    /\ Behind(w.tabs, w.task, l, e)
    /\ LastRun(w.tabs, w.task, w.running, l)
    /\ LastLoad(w.tabs, w.task, w.loads, l)
    /\ RowsOf(w.tabs, l)
    /\ Distinct(w.task)
    /\ Unseen(w.tabs, w.task)
    /\ Idle(w.tabs, e)

Fronts ==
    /\ entry \in [Conns -> {"new", "saved", "removed"}]
    /\ front \in Conns \cup {NoConn}
    /\ open \in Seq(Conns) /\ IsInjective(open)
    /\ status \in [Conns -> Statuses]
    /\ dialing \in [Conns -> 0..MaxDials]
    /\ list \in [Conns -> 0..MaxLists]
    /\ \A i \in DOMAIN open : IsSaved(open[i])
    /\ front = NoConn => open = <<>>
    /\ IsSaved(front) => IsOpen(front)
    /\ \A c \in Conns :
          /\ status[c] # "disconnected" => IsSaved(c)
          /\ status[c] = "connecting" => dialing[c] > 0
          /\ entry[c] = "new" => tabs[c] = NoTabs /\ dialing[c] = 0 /\ front # c
          /\ IsSaved(c) /\ ~IsOpen(c) => tabs[c] = NoTabs

IInv == Fronts /\ WindowOK(Window, list, entry)

-----------------------------------------------------------------------------
(* The helpers *)

\* A set of naturals that is not empty has a least member, and Min is it.
LEMMA MinIsLeast ==
    ASSUME NEW S \in SUBSET Nat, NEW n \in Nat, \A x \in S : x <= n, S # {}
    PROVE  Min(S) \in S /\ \A x \in S : Min(S) <= x
<1> DEFINE Below(x) == {y \in S : y < x}
           Cuts == {Below(x) : x \in S}
<1>1. IsFiniteSet(S)
  BY FS_BoundedSetOfNaturals
<1>2. IsWellFoundedOn(StrictSubsetOrdering(S), SUBSET S)
  BY <1>1, FS_StrictSubsetOrderingWellFounded, FS_FiniteSubsetsOfFinite
<1>3. Cuts \in SUBSET (SUBSET S) /\ Cuts # {}
  OBVIOUS
<1>4. PICK cut \in Cuts : \A other \in Cuts : <<other, cut>> \notin StrictSubsetOrdering(S)
  BY <1>2, <1>3, WFMin
<1>5. PICK x \in S : cut = Below(x)
  BY <1>4
<1>6. ASSUME NEW y \in S, y < x
      PROVE  FALSE
  <2>1. Below(y) \in Cuts
    OBVIOUS
  <2>2. \A z \in Below(y) : z \in Below(x)
    BY <1>6
  <2>3. y \in Below(x) /\ y \notin Below(y)
    BY <1>6
  <2> QED
    BY <2>1, <2>2, <2>3, <1>3, <1>4, <1>5 DEF StrictSubsetOrdering
<1>7. \A y \in S : x <= y
  BY <1>6
<1> QED
  BY <1>7 DEF Min

LEMMA RemoveAtIs ==
    ASSUME NEW S, NEW s \in Seq(S), NEW i \in DOMAIN s
    PROVE  /\ RemoveAt(s, i) \in Seq(S)
           /\ Len(RemoveAt(s, i)) = Len(s) - 1
           /\ \A j \in 1..Len(s) - 1 : RemoveAt(s, i)[j] = IF j < i THEN s[j] ELSE s[j + 1]
<1> DEFINE left == SubSeq(s, 1, i - 1)
           right == SubSeq(s, i + 1, Len(s))
<1>1. Len(s) \in Nat /\ DOMAIN s = 1..Len(s) /\ i \in 1..Len(s) /\ \A j \in 1..Len(s) : s[j] \in S
  BY LenProperties
<1>2. left \in Seq(S) /\ Len(left) = i - 1 /\ \A j \in 1..i - 1 : left[j] = s[j]
  <2>1. \A j \in 1..i - 1 : s[j] \in S
    BY <1>1
  <2> QED
    BY <2>1, <1>1, SubSeqProperties, Z3
<1>3. right \in Seq(S) /\ Len(right) = Len(s) - i
      /\ \A j \in 1..Len(s) - i : right[j] = s[j + i]
  <2>1. \A j \in i + 1..Len(s) : s[j] \in S
    BY <1>1
  <2>2. /\ right \in Seq(S)
        /\ Len(right) = IF i + 1 <= Len(s) THEN Len(s) - (i + 1) + 1 ELSE 0
        /\ \A j \in 1 .. Len(s) - (i + 1) + 1 : right[j] = s[i + 1 + j - 1]
    BY <2>1, <1>1, SubSeqProperties
  <2>3. \A j \in 1..Len(s) - i : j \in 1 .. Len(s) - (i + 1) + 1 /\ i + 1 + j - 1 = j + i
    BY <1>1
  <2> QED
    BY <2>2, <2>3, <1>1
<1> HIDE DEF left, right
<1>4. RemoveAt(s, i) = left \o right
  BY DEF RemoveAt, left, right
<1>5. /\ left \o right \in Seq(S)
      /\ Len(left \o right) = Len(left) + Len(right)
      /\ \A j \in 1 .. Len(left) + Len(right) : (left \o right)[j] =
            IF j <= Len(left) THEN left[j] ELSE right[j - Len(left)]
  BY <1>2, <1>3, ConcatProperties
<1>6. ASSUME NEW j \in 1..Len(s) - 1
      PROVE  (left \o right)[j] = IF j < i THEN s[j] ELSE s[j + 1]
  <2>1. CASE j < i
    <3>1. j \in 1..i - 1 /\ j \in 1 .. Len(left) + Len(right) /\ j <= Len(left)
      BY <2>1, <1>1, <1>2, <1>3
    <3> QED
      BY <3>1, <2>1, <1>2, <1>5
  <2>2. CASE ~(j < i)
    <3>1. j - (i - 1) \in 1..Len(s) - i /\ j \in 1 .. Len(left) + Len(right) /\ ~(j <= Len(left))
      BY <2>2, <1>1, <1>2, <1>3
    <3>2. (j - (i - 1)) + i = j + 1
      BY <1>1
    <3> QED
      BY <3>1, <3>2, <2>2, <1>2, <1>3, <1>5
  <2> QED
    BY <2>1, <2>2
<1> QED
  BY <1>1, <1>2, <1>3, <1>4, <1>5, <1>6

LEMMA InsertAtIs ==
    ASSUME NEW S, NEW s \in Seq(S), NEW i \in 1..Len(s) + 1, NEW e \in S
    PROVE  /\ InsertAt(s, i, e) \in Seq(S)
           /\ Len(InsertAt(s, i, e)) = Len(s) + 1
           /\ \A j \in 1..Len(s) + 1 : InsertAt(s, i, e)[j] =
                 IF j < i THEN s[j] ELSE IF j = i THEN e ELSE s[j - 1]
<1> DEFINE left == SubSeq(s, 1, i - 1)
           right == SubSeq(s, i, Len(s))
           upto == left \o <<e>>
<1>1. Len(s) \in Nat /\ DOMAIN s = 1..Len(s) /\ i \in Nat /\ \A j \in 1..Len(s) : s[j] \in S
  BY LenProperties
<1>2. left \in Seq(S) /\ Len(left) = i - 1 /\ \A j \in 1..i - 1 : left[j] = s[j]
  <2>1. \A j \in 1..i - 1 : s[j] \in S
    BY <1>1
  <2>2. /\ left \in Seq(S)
        /\ Len(left) = IF 1 <= i - 1 THEN i - 1 - 1 + 1 ELSE 0
        /\ \A j \in 1 .. i - 1 - 1 + 1 : left[j] = s[1 + j - 1]
    BY <2>1, <1>1, SubSeqProperties
  <2>3. \A j \in 1..i - 1 : j \in 1 .. i - 1 - 1 + 1 /\ 1 + j - 1 = j
    BY <1>1
  <2> QED
    BY <2>2, <2>3, <1>1
<1>3. right \in Seq(S) /\ Len(right) = Len(s) - i + 1
      /\ \A j \in 1..Len(s) - i + 1 : right[j] = s[j + i - 1]
  <2>1. \A j \in i..Len(s) : s[j] \in S
    BY <1>1
  <2>2. /\ right \in Seq(S)
        /\ Len(right) = IF i <= Len(s) THEN Len(s) - i + 1 ELSE 0
        /\ \A j \in 1 .. Len(s) - i + 1 : right[j] = s[i + j - 1]
    BY <2>1, <1>1, SubSeqProperties
  <2>3. \A j \in 1..Len(s) - i + 1 : i + j - 1 = j + i - 1
    BY <1>1
  <2> QED
    BY <2>2, <2>3, <1>1
<1>4. <<e>> \in Seq(S) /\ Len(<<e>>) = 1 /\ <<e>>[1] = e
  OBVIOUS
<1> HIDE DEF left, right
<1>5. /\ upto \in Seq(S)
      /\ Len(upto) = i
      /\ \A j \in 1..i : upto[j] = IF j < i THEN left[j] ELSE e
  <2>1. /\ upto \in Seq(S)
        /\ Len(upto) = Len(left) + Len(<<e>>)
        /\ \A j \in 1 .. Len(left) + Len(<<e>>) : upto[j] =
              IF j <= Len(left) THEN left[j] ELSE <<e>>[j - Len(left)]
    BY <1>2, <1>4, ConcatProperties
  <2> QED
    BY <2>1, <1>1, <1>2, <1>4
<1> HIDE DEF upto
<1>6. InsertAt(s, i, e) = upto \o right
  BY DEF InsertAt, left, right, upto
<1>7. /\ upto \o right \in Seq(S)
      /\ Len(upto \o right) = Len(upto) + Len(right)
      /\ \A j \in 1 .. Len(upto) + Len(right) : (upto \o right)[j] =
            IF j <= Len(upto) THEN upto[j] ELSE right[j - Len(upto)]
  BY <1>5, <1>3, ConcatProperties
<1>8. ASSUME NEW j \in 1..Len(s) + 1
      PROVE  (upto \o right)[j] = IF j < i THEN s[j] ELSE IF j = i THEN e ELSE s[j - 1]
  <2>1. CASE j <= i
    <3>1. j \in 1..i /\ j \in 1 .. Len(upto) + Len(right) /\ j <= Len(upto)
      BY <2>1, <1>1, <1>3, <1>5
    <3>2. j < i => j \in 1..i - 1
      BY <1>1
    <3> QED
      BY <3>1, <3>2, <2>1, <1>1, <1>2, <1>5, <1>7
  <2>2. CASE ~(j <= i)
    <3>1. /\ j - i \in 1..Len(s) - i + 1 /\ j \in 1 .. Len(upto) + Len(right)
          /\ ~(j <= Len(upto)) /\ ~(j < i) /\ j # i
      BY <2>2, <1>1, <1>3, <1>5
    <3>2. (j - i) + i - 1 = j - 1
      BY <1>1
    <3> QED
      BY <3>1, <3>2, <1>3, <1>5, <1>7
  <2> QED
    BY <2>1, <2>2
<1> QED
  BY <1>1, <1>3, <1>5, <1>6, <1>7, <1>8

-----------------------------------------------------------------------------
(* What the tab list's operations do.  A list is kin to the one before if   *)
(* each of its tabs was there, perhaps cleared, or is new under a new id.   *)

Kin(new, old) ==
    /\ old.next <= new.next
    /\ \A i \in DOMAIN new.items :
          \/ \E j \in DOMAIN old.items :
                /\ new.items[i].id = old.items[j].id
                /\ new.items[i].of = old.items[j].of
                /\ new.items[i].seq = old.items[j].seq
                /\ new.items[i].rows \in {old.items[j].rows, NoRows}
          \/ /\ new.items[i].id >= old.next
             /\ new.items[i].seq = 0
             /\ new.items[i].rows = NoRows

LEMMA Bounds ==
    /\ MaxTabs \in Nat /\ MaxTabs >= 1 /\ MaxTasks \in Nat /\ MaxTasks >= 1
    /\ MaxSeq \in Nat /\ MaxSeq >= 1 /\ MaxDials \in Nat /\ MaxDials >= 1
    /\ MaxLists \in Nat
BY BoundsAssumption

LEMMA NoTabsOK == ListOK(NoTabs) /\ IdleTabs(NoTabs)
<1>1. NoTabs.items = <<>> /\ NoTabs.active = 1 /\ NoTabs.next = 0
  BY DEF NoTabs
<1>2. <<>> \in Seq(Tab) /\ DOMAIN <<>> = {}
  OBVIOUS
<1>3. NoTabs \in TabLists
  BY <1>2, Bounds DEF TabLists, NoTabs
<1> QED
  BY <1>1, <1>2, <1>3 DEF ListOK, IdleTabs

LEMMA NewTabIs ==
    ASSUME NEW of \in Tables \cup {Query}
    PROVE  /\ NewTab(of) \in Tab
           /\ NewTab(of).of = of /\ NewTab(of).seq = 0 /\ NewTab(of).rows = NoRows
BY Bounds DEF NewTab, Tab, Ids

LEMMA KinOfItself ==
    ASSUME NEW ts, ListOK(ts)
    PROVE  Kin(ts, ts)
BY DEF Kin, ListOK, TabLists

LEMMA ActivatedOK ==
    ASSUME NEW ts, ListOK(ts), NEW i \in DOMAIN ts.items
    PROVE  /\ ListOK(Activated(ts, i)) /\ Kin(Activated(ts, i), ts)
           /\ HasActive(Activated(ts, i)) /\ ActiveTab(Activated(ts, i)) = ts.items[i]
<1>1. ts \in TabLists /\ i \in Nat
  BY LenProperties DEF ListOK, TabLists
<1>2. /\ Activated(ts, i) \in TabLists
      /\ Activated(ts, i).items = ts.items /\ Activated(ts, i).next = ts.next
      /\ Activated(ts, i).active = i
  BY <1>1 DEF Activated, TabLists
<1>3. ListOK(Activated(ts, i))
  BY <1>2 DEF ListOK, HasActive
<1>4. Kin(Activated(ts, i), ts)
  BY <1>1, <1>2 DEF Kin, TabLists
<1> QED
  BY <1>2, <1>3, <1>4 DEF HasActive, ActiveTab

LEMMA PushedOK ==
    ASSUME NEW ts, ListOK(ts), NEW of \in Tables \cup {Query}, ts.next < MaxTabs
    PROVE  LET new == Pushed(ts, NewTab(of))
           IN  /\ ListOK(new) /\ Kin(new, ts)
               /\ HasActive(new) /\ ActiveTab(new).of = of
<1> DEFINE tab == [NewTab(of) EXCEPT !.id = ts.next]
           new == Pushed(ts, NewTab(of))
<1>1. /\ ts \in TabLists /\ ts.items \in Seq(Tab) /\ ts.next \in Nat
      /\ Len(ts.items) \in Nat /\ DOMAIN ts.items = 1..Len(ts.items)
      /\ \A i \in 1..Len(ts.items) : ts.items[i] \in Tab
  BY LenProperties DEF ListOK, TabLists
<1>2. tab \in Tab /\ tab.id = ts.next /\ tab.of = of /\ tab.seq = 0 /\ tab.rows = NoRows
  BY <1>1, Bounds, SMTT(30) DEF NewTab, Tab, Ids
<1> HIDE DEF tab
<1>3. /\ Append(ts.items, tab) \in Seq(Tab)
      /\ Len(Append(ts.items, tab)) = Len(ts.items) + 1
      /\ \A i \in 1..Len(ts.items) : Append(ts.items, tab)[i] = ts.items[i]
      /\ Append(ts.items, tab)[Len(ts.items) + 1] = tab
  BY <1>1, <1>2, AppendProperties
<1>4. DOMAIN Append(ts.items, tab) = 1..Len(ts.items) + 1
  BY <1>1, <1>3, LenProperties
<1>5. /\ new \in TabLists
      /\ new.items = Append(ts.items, tab)
      /\ new.active = Len(ts.items) + 1
      /\ new.next = ts.next + 1
  <2>1. new = [ts EXCEPT !.next = ts.next + 1, !.items = Append(ts.items, tab),
                         !.active = Len(ts.items) + 1]
    BY <1>1 DEF Pushed, NextTab, TabLists, tab
  <2>2. ts.next + 1 \in 0..MaxTabs /\ Len(ts.items) + 1 \in Nat
    BY <1>1, Bounds
  <2> HIDE DEF new
  <2> QED
    BY <2>1, <2>2, <1>1, <1>3 DEF TabLists
<1> HIDE DEF new
<1>6. HasActive(new) /\ ActiveTab(new) = tab
  BY <1>1, <1>3, <1>4, <1>5 DEF HasActive, ActiveTab
<1>7. \A i \in DOMAIN new.items : new.items[i].id < new.next
  <2> SUFFICES ASSUME NEW i \in 1..Len(ts.items) + 1
               PROVE  new.items[i].id < ts.next + 1
    BY <1>4, <1>5
  <2>1. CASE i \in 1..Len(ts.items)
    <3>1. ts.items[i].id < ts.next /\ ts.items[i].id \in Nat
      BY <2>1, <1>1 DEF ListOK, Tab, Ids
    <3> QED
      BY <3>1, <2>1, <1>1, <1>3, <1>5
  <2>2. CASE i = Len(ts.items) + 1
    BY <2>2, <1>1, <1>2, <1>3, <1>5
  <2> QED
    BY <2>1, <2>2, <1>1
<1>8. \A i, j \in DOMAIN new.items : new.items[i].id = new.items[j].id => i = j
  <2> SUFFICES ASSUME NEW i \in 1..Len(ts.items) + 1, NEW j \in 1..Len(ts.items) + 1,
                      new.items[i].id = new.items[j].id
               PROVE  i = j
    BY <1>4, <1>5
  <2>1. \A k \in 1..Len(ts.items) : new.items[k].id = ts.items[k].id /\ ts.items[k].id < ts.next
    BY <1>1, <1>3, <1>5 DEF ListOK
  <2>2. new.items[Len(ts.items) + 1].id = ts.next
    BY <1>2, <1>3, <1>5
  <2>3. \A k, m \in 1..Len(ts.items) : ts.items[k].id = ts.items[m].id => k = m
    BY <1>1 DEF ListOK
  <2>4. \A k \in 1..Len(ts.items) : ts.items[k].id \in Nat
    BY <1>1, SMTT(30) DEF Tab, Ids
  <2>5. CASE i \in 1..Len(ts.items) /\ j \in 1..Len(ts.items)
    BY <2>1, <2>3, <2>5
  <2>6. CASE i = Len(ts.items) + 1 /\ j \in 1..Len(ts.items)
    BY <2>1, <2>2, <2>4, <2>6, <1>1
  <2>7. CASE j = Len(ts.items) + 1 /\ i \in 1..Len(ts.items)
    BY <2>1, <2>2, <2>4, <2>7, <1>1
  <2> QED
    BY <2>5, <2>6, <2>7, <1>1
<1>9. Kin(new, ts)
  <2>1. \A i \in 1..Len(ts.items) : new.items[i] = ts.items[i]
    BY <1>3, <1>5
  <2>2. new.items[Len(ts.items) + 1] = tab
    BY <1>3, <1>5
  <2>3. \A i \in DOMAIN new.items : i \in 1..Len(ts.items) \/ i = Len(ts.items) + 1
    BY <1>1, <1>4, <1>5
  <2>4. ts.next <= new.next /\ tab.id >= ts.next
    BY <1>1, <1>2, <1>5
  <2> QED
    BY <2>1, <2>2, <2>3, <2>4, <1>1, <1>2 DEF Kin
<1> QED
  BY <1>2, <1>5, <1>6, <1>7, <1>8, <1>9 DEF ListOK, new

LEMMA FocusOrPushOK ==
    ASSUME NEW ts, ListOK(ts), NEW of \in Tables \cup {Query},
           FocusOrPush(ts, NewTab(of)).next <= MaxTabs
    PROVE  LET new == FocusOrPush(ts, NewTab(of))
           IN  /\ ListOK(new) /\ Kin(new, ts)
               /\ HasActive(new) /\ ActiveTab(new).of = of
<1> DEFINE wanted == {i \in DOMAIN ts.items : ts.items[i].of = NewTab(of).of}
<1>1. NewTab(of).of = of
  BY NewTabIs
<1>2. Len(ts.items) \in Nat /\ DOMAIN ts.items = 1..Len(ts.items) /\ ts \in TabLists
  BY LenProperties DEF ListOK, TabLists
<1>3. CASE wanted = {}
  <2>1. FocusOrPush(ts, NewTab(of)) = Pushed(ts, NewTab(of))
    BY <1>3 DEF FocusOrPush
  <2>2. Pushed(ts, NewTab(of)).next = ts.next + 1
    BY <1>2 DEF Pushed, NextTab, TabLists
  <2>3. ts.next < MaxTabs
    BY <2>1, <2>2, <1>2, Bounds DEF TabLists
  <2> QED
    BY <2>1, <2>3, PushedOK
<1>4. CASE wanted # {}
  <2>1. FocusOrPush(ts, NewTab(of)) = Activated(ts, Min(wanted))
    BY <1>4 DEF FocusOrPush
  <2>2. Min(wanted) \in wanted
    <3>1. wanted \in SUBSET Nat /\ \A x \in wanted : x <= Len(ts.items)
      BY <1>2
    <3> QED
      BY <3>1, <1>2, <1>4, MinIsLeast
  <2> QED
    BY <2>1, <2>2, <1>1, ActivatedOK
<1> QED
  BY <1>3, <1>4

LEMMA CloseAtOK ==
    ASSUME NEW ts, ListOK(ts), NEW i \in DOMAIN ts.items
    PROVE  /\ ListOK(CloseAt(ts, i)) /\ Kin(CloseAt(ts, i), ts)
           /\ \A j \in DOMAIN CloseAt(ts, i).items :
                 CloseAt(ts, i).items[j].id # ts.items[i].id
<1> DEFINE new == CloseAt(ts, i)
           n == Len(ts.items)
           at(j) == IF j < i THEN j ELSE j + 1
<1>1. /\ ts \in TabLists /\ ts.items \in Seq(Tab) /\ ts.next \in Nat /\ ts.active \in Nat
      /\ n \in Nat /\ DOMAIN ts.items = 1..n /\ i \in 1..n
  BY LenProperties DEF ListOK, TabLists
<1>2. /\ RemoveAt(ts.items, i) \in Seq(Tab)
      /\ Len(RemoveAt(ts.items, i)) = n - 1
      /\ \A j \in 1..n - 1 : RemoveAt(ts.items, i)[j] = ts.items[at(j)]
  BY <1>1, RemoveAtIs
<1>3. DOMAIN RemoveAt(ts.items, i) = 1..n - 1
  BY <1>1, <1>2, LenProperties
<1>4. ts.active \in 1..n
  BY <1>1 DEF ListOK, HasActive
<1>5. RemoveAt(ts.items, i) = <<>> <=> n = 1
  <2> DEFINE rest == RemoveAt(ts.items, i)
  <2>1. rest \in Seq(Tab) /\ Len(rest) = n - 1
    BY <1>2
  <2> HIDE DEF rest
  <2>2. rest = <<>> <=> Len(rest) = 0
    BY <2>1, EmptySeq
  <2>3. rest = <<>> <=> n = 1
    BY <2>1, <2>2, <1>1
  <2> QED
    BY <2>3 DEF rest
<1> DEFINE ahead == CASE RemoveAt(ts.items, i) = <<>> -> 1
                      [] RemoveAt(ts.items, i) # <<>> /\ ts.active > n - 1 -> n - 1
                      [] OTHER -> IF i < ts.active THEN ts.active - 1 ELSE ts.active
<1>6. ahead \in Nat /\ (n > 1 => ahead \in 1..n - 1) /\ (n = 1 => ahead = 1)
  BY <1>1, <1>4, <1>5
<1>7. new = [ts EXCEPT !.items = RemoveAt(ts.items, i), !.active = ahead]
  BY <1>1, <1>2 DEF CloseAt, TabLists
<1> HIDE DEF new, ahead
<1>8. /\ new \in TabLists /\ new.next = ts.next /\ new.active = ahead
      /\ new.items = RemoveAt(ts.items, i)
  BY <1>1, <1>2, <1>6, <1>7 DEF TabLists
<1>9. HasActive(new) \/ (new.items = <<>> /\ new.active = 1)
  BY <1>1, <1>3, <1>5, <1>6, <1>8 DEF HasActive
<1>10. \A j \in DOMAIN new.items :
         new.items[j] = ts.items[at(j)] /\ at(j) \in DOMAIN ts.items /\ at(j) # i
  BY <1>1, <1>2, <1>3, <1>8, SMTT(30)
<1>11. \A j, k \in DOMAIN new.items : at(j) = at(k) => j = k
  BY <1>1, <1>3, <1>8
<1> HIDE DEF at
<1>12. /\ \A j \in DOMAIN new.items : new.items[j].id < new.next
       /\ \A j, k \in DOMAIN new.items : new.items[j].id = new.items[k].id => j = k
       /\ \A j \in DOMAIN new.items : new.items[j].id # ts.items[i].id
  BY <1>1, <1>8, <1>10, <1>11, SMTT(30) DEF ListOK
<1>13. Kin(new, ts)
  BY <1>1, <1>8, <1>10 DEF Kin
<1> QED
  BY <1>8, <1>9, <1>12, <1>13 DEF ListOK, new

LEMMA ReorderedOK ==
    ASSUME NEW ts, ListOK(ts), NEW from \in DOMAIN ts.items, NEW to \in DOMAIN ts.items
    PROVE  ListOK(Reordered(ts, from, to)) /\ Kin(Reordered(ts, from, to), ts)
<1> DEFINE new == Reordered(ts, from, to)
           n == Len(ts.items)
           without == RemoveAt(ts.items, from)
           moved == ts.items[from]
           items == InsertAt(without, to, moved)
           left(j) == IF j < from THEN j ELSE j + 1
           at(j) == IF j < to THEN left(j) ELSE IF j = to THEN from ELSE left(j - 1)
<1>1. /\ ts \in TabLists /\ ts.items \in Seq(Tab) /\ ts.next \in Nat /\ ts.active \in Nat
      /\ n \in Nat /\ DOMAIN ts.items = 1..n /\ from \in 1..n /\ to \in 1..n
      /\ moved \in Tab
  BY LenProperties DEF ListOK, TabLists
<1>2. /\ without \in Seq(Tab) /\ Len(without) = n - 1
      /\ \A j \in 1..n - 1 : without[j] = ts.items[left(j)]
  BY <1>1, RemoveAtIs
<1> HIDE DEF without, moved
<1>3. /\ items \in Seq(Tab) /\ Len(items) = n
      /\ \A j \in 1..n : items[j] = IF j < to THEN without[j]
                                    ELSE IF j = to THEN moved ELSE without[j - 1]
  <2>1. to \in 1..Len(without) + 1 /\ Len(without) + 1 = n
    BY <1>1, <1>2
  <2>2. /\ items \in Seq(Tab) /\ Len(items) = Len(without) + 1
        /\ \A j \in 1..Len(without) + 1 : items[j] =
              IF j < to THEN without[j] ELSE IF j = to THEN moved ELSE without[j - 1]
    <3>1. without \in Seq(Tab) /\ moved \in Tab
      BY <1>1, <1>2
    <3>2. items \in Seq(Tab)
      BY <3>1, <2>1, InsertAtIs
    <3>3. Len(items) = Len(without) + 1
      BY <3>1, <2>1, InsertAtIs
    <3>4. \A j \in 1..Len(without) + 1 : items[j] =
             IF j < to THEN without[j] ELSE IF j = to THEN moved ELSE without[j - 1]
      BY <3>1, <2>1, InsertAtIs, SMTT(30)
    <3> QED
      BY <3>2, <3>3, <3>4
  <2> QED
    BY <2>1, <2>2
<1> HIDE DEF items
<1>4. \A j \in 1..n : items[j] = ts.items[at(j)] /\ at(j) \in 1..n
  <2> SUFFICES ASSUME NEW j \in 1..n
               PROVE  items[j] = ts.items[at(j)] /\ at(j) \in 1..n
    OBVIOUS
  <2>1. CASE j < to
    <3>1. j \in 1..n - 1 /\ items[j] = without[j] /\ at(j) = left(j)
      BY <2>1, <1>1, <1>3
    <3>2. without[j] = ts.items[left(j)]
      BY <3>1, <1>2
    <3>3. left(j) \in 1..n
      BY <3>1, <1>1
    <3> QED
      BY <3>1, <3>2, <3>3
  <2>2. CASE j = to
    BY <2>2, <1>1, <1>3 DEF moved
  <2>3. CASE j > to
    <3>1. j - 1 \in 1..n - 1 /\ ~(j < to) /\ j # to
      BY <2>3, <1>1
    <3>2. items[j] = without[j - 1] /\ at(j) = left(j - 1)
      BY <3>1, <1>3
    <3>3. without[j - 1] = ts.items[left(j - 1)]
      BY <3>1, <1>2
    <3>4. left(j - 1) \in 1..n
      BY <3>1, <1>1
    <3> QED
      BY <3>2, <3>3, <3>4
  <2> QED
    BY <2>1, <2>2, <2>3, <1>1
<1>5. \A j, k \in 1..n : at(j) = at(k) => j = k
  BY <1>1
<1>6. \E j \in 1..n : at(j) = ts.active
  <2>1. ts.active \in 1..n
    BY <1>1 DEF ListOK, HasActive
  <2> DEFINE a == ts.active
  <2>2. CASE a = from
    BY <2>2, <1>1
  <2>3. CASE a < from /\ a < to
    <3>1. at(a) = a
      BY <2>1, <2>3, <1>1
    <3> QED
      BY <3>1, <2>1
  <2>4. CASE a < from /\ ~(a < to)
    <3>1. at(a + 1) = a /\ a + 1 \in 1..n
      BY <2>1, <2>4, <1>1
    <3> QED
      BY <3>1
  <2>5. CASE a > from /\ a - 1 < to
    <3>1. at(a - 1) = a /\ a - 1 \in 1..n
      BY <2>1, <2>5, <1>1
    <3> QED
      BY <3>1
  <2>6. CASE a > from /\ ~(a - 1 < to)
    <3>1. at(a) = a
      BY <2>1, <2>6, <1>1
    <3> QED
      BY <3>1, <2>1
  <2> QED
    BY <2>1, <2>2, <2>3, <2>4, <2>5, <2>6, <1>1
<1> HIDE DEF at
<1>7. DOMAIN items = 1..n
  BY <1>3, LenProperties
<1> DEFINE ahead == CHOOSE j \in DOMAIN items : items[j].id = ActiveTab(ts).id
<1>8. ahead \in DOMAIN items
  BY <1>4, <1>6, <1>7 DEF ActiveTab
<1>9. new = [ts EXCEPT !.items = items, !.active = ahead]
  BY <1>1 DEF Reordered, TabLists, items, without, moved
<1> HIDE DEF new, ahead
<1>10. /\ new \in TabLists /\ new.next = ts.next /\ new.active = ahead /\ new.items = items
  <2>1. ahead \in Nat
    BY <1>1, <1>7, <1>8
  <2> QED
    BY <2>1, <1>1, <1>3, <1>9 DEF TabLists
<1>11. HasActive(new)
  BY <1>8, <1>10 DEF HasActive
<1>12. \A j \in DOMAIN new.items :
         new.items[j] = ts.items[at(j)] /\ at(j) \in DOMAIN ts.items
  BY <1>1, <1>4, <1>7, <1>10
<1>13. /\ \A j \in DOMAIN new.items : new.items[j].id < new.next
       /\ \A j, k \in DOMAIN new.items : new.items[j].id = new.items[k].id => j = k
  <2>1. \A j \in DOMAIN new.items : new.items[j].id < new.next
    BY <1>10, <1>12 DEF ListOK
  <2>2. ASSUME NEW j \in DOMAIN new.items, NEW k \in DOMAIN new.items,
               new.items[j].id = new.items[k].id
        PROVE  j = k
    <3>1. at(j) = at(k)
      BY <2>2, <1>12 DEF ListOK
    <3>2. j \in 1..n /\ k \in 1..n
      BY <1>7, <1>10
    <3> QED
      BY <3>1, <3>2, <1>5
  <2> QED
    BY <2>1, <2>2
<1>14. Kin(new, ts)
  BY <1>1, <1>10, <1>12 DEF Kin
<1> QED
  BY <1>10, <1>11, <1>13, <1>14 DEF ListOK, new

LEMMA ClearedOK ==
    ASSUME NEW ts, ListOK(ts)
    PROVE  /\ ListOK(Cleared(ts)) /\ Kin(Cleared(ts), ts)
           /\ IdleTabs(ts) => IdleTabs(Cleared(ts))
<1> DEFINE new == Cleared(ts)
           items == [i \in DOMAIN ts.items |-> [ts.items[i] EXCEPT !.rows = NoRows]]
<1>1. /\ ts \in TabLists /\ ts.items \in Seq(Tab) /\ ts.next \in Nat /\ ts.active \in Nat
      /\ Len(ts.items) \in Nat /\ DOMAIN ts.items = 1..Len(ts.items)
      /\ \A i \in 1..Len(ts.items) : ts.items[i] \in Tab
  BY LenProperties DEF ListOK, TabLists
<1>2. \A i \in DOMAIN ts.items :
        /\ items[i] \in Tab /\ items[i].rows = NoRows
        /\ items[i].id = ts.items[i].id /\ items[i].of = ts.items[i].of
        /\ items[i].seq = ts.items[i].seq
  BY <1>1 DEF Tab
<1>3. items \in Seq(Tab) /\ DOMAIN items = DOMAIN ts.items
  <2>1. items \in [1..Len(ts.items) -> Tab]
    BY <1>1, <1>2
  <2> QED
    BY <2>1, <1>1, SeqDef
<1>4. new = [ts EXCEPT !.items = items]
  BY <1>1 DEF Cleared, TabLists
<1> HIDE DEF new, items
<1>5. new \in TabLists /\ new.items = items /\ new.next = ts.next /\ new.active = ts.active
  BY <1>1, <1>3, <1>4 DEF TabLists
<1>6. HasActive(new) \/ (new.items = <<>> /\ new.active = 1)
  <2>1. ts.items = <<>> => items = <<>>
    <3>1. ts.items = <<>> => Len(items) = 0
      BY <1>1, <1>3, LenProperties
    <3> QED
      BY <3>1, <1>3, EmptySeq
  <2> QED
    BY <2>1, <1>3, <1>5 DEF ListOK, HasActive
<1>7. ListOK(new)
  BY <1>2, <1>3, <1>5, <1>6 DEF ListOK
<1>8. Kin(new, ts)
  BY <1>1, <1>2, <1>3, <1>5 DEF Kin
<1>9. IdleTabs(ts) => IdleTabs(new)
  BY <1>2, <1>3, <1>5 DEF IdleTabs
<1> QED
  BY <1>7, <1>8, <1>9 DEF new

\* A tab of the list is written, under its id.
LEMMA WithTabIs ==
    ASSUME NEW ts, ListOK(ts), NEW tab \in Tab,
           \E i \in DOMAIN ts.items : ts.items[i].id = tab.id
    PROVE  LET new == WithTab(ts, tab)
           IN  /\ ListOK(new)
               /\ new.next = ts.next /\ new.active = ts.active
               /\ DOMAIN new.items = DOMAIN ts.items
               /\ \A i \in DOMAIN ts.items :
                     /\ new.items[i].id = ts.items[i].id
                     /\ ts.items[i].id = tab.id => new.items[i] = tab
                     /\ ts.items[i].id # tab.id => new.items[i] = ts.items[i]
<1> DEFINE new == WithTab(ts, tab)
           items == [i \in DOMAIN ts.items |->
                        IF ts.items[i].id = tab.id THEN tab ELSE ts.items[i]]
<1>1. /\ ts \in TabLists /\ ts.items \in Seq(Tab) /\ ts.next \in Nat /\ ts.active \in Nat
      /\ Len(ts.items) \in Nat /\ DOMAIN ts.items = 1..Len(ts.items)
      /\ \A i \in 1..Len(ts.items) : ts.items[i] \in Tab
  BY LenProperties DEF ListOK, TabLists
<1>2. \A i \in DOMAIN ts.items :
        /\ items[i] \in Tab /\ items[i].id = ts.items[i].id
        /\ ts.items[i].id = tab.id => items[i] = tab
        /\ ts.items[i].id # tab.id => items[i] = ts.items[i]
  BY <1>1
<1>3. items \in Seq(Tab) /\ DOMAIN items = DOMAIN ts.items
  <2>1. items \in [1..Len(ts.items) -> Tab]
    BY <1>1, <1>2
  <2> QED
    BY <2>1, <1>1, SeqDef
<1>4. new = [ts EXCEPT !.items = items]
  BY <1>1 DEF WithTab, TabLists
<1> HIDE DEF new, items
<1>5. new \in TabLists /\ new.items = items /\ new.next = ts.next /\ new.active = ts.active
  BY <1>1, <1>3, <1>4 DEF TabLists
<1>6. HasActive(new)
  BY <1>1, <1>3, <1>5, EmptySeq DEF ListOK, HasActive
<1>7. ListOK(new)
  BY <1>2, <1>3, <1>5, <1>6 DEF ListOK
<1> QED
  BY <1>2, <1>3, <1>5, <1>7 DEF new

-----------------------------------------------------------------------------
(* What the parts of a handler keep: first, the tabs moved, and each list is  *)
(* kin to the one before.                                                     *)

LEMMA TabIsTyped ==
    ASSUME NEW ts, ListOK(ts), NEW i \in DOMAIN ts.items
    PROVE  /\ ts.items[i] \in Tab
           /\ ts.items[i].id \in Ids /\ ts.items[i].id \in Nat /\ ts.items[i].seq \in Nat
           /\ ts.items[i].of \in Tables \cup {Query}
           /\ ts.items[i].rows \in Asked \cup {NoRows}
           /\ ts.next \in Nat
<1>1. ts.items \in Seq(Tab) /\ ts.next \in Nat
  BY DEF ListOK, TabLists
<1>2. ts.items[i] \in Tab
  BY <1>1, LenProperties
<1> QED
  BY <1>1, <1>2 DEF Tab, Ids

LEMMA AskedIsTyped ==
    ASSUME NEW a \in Asked
    PROVE  /\ a # NoRows /\ a.of \in Tables \cup {Query} /\ a.tab \in Ids /\ a.tab \in Nat
           /\ a.list[1] \in Conns /\ a.list[2] \in Nat /\ a.list = <<a.list[1], a.list[2]>>
           /\ a.seq \in Nat /\ a.seq >= 1
<1>1. a.list \in Lists /\ a.seq \in 1..MaxSeq /\ a.of \in Tables \cup {Query} /\ a.tab \in Ids
  BY DEF Asked
<1>2. a.list[1] \in Conns /\ a.list[2] \in Nat /\ a.list = <<a.list[1], a.list[2]>>
  BY <1>1, Bounds DEF Lists
<1>3. a # NoRows
  BY <1>1, <1>2, Bounds DEF NoRows
<1> QED
  BY <1>1, <1>2, <1>3, Bounds DEF Ids

LEMMA BehindMoved ==
    ASSUME NEW ts, ListOK(ts), NEW new, ListOK(new), Kin(new, ts),
           NEW a \in Asked, NotAhead(ts, a)
    PROVE  NotAhead(new, a)
<1>1. ts.next \in Nat /\ new.next \in Nat /\ a.tab \in Nat
  BY AskedIsTyped DEF ListOK, TabLists
<1>2. a.tab < new.next
  BY <1>1 DEF NotAhead, Kin
<1>3. ASSUME NEW i \in DOMAIN new.items, new.items[i].id = a.tab
      PROVE  a.seq <= new.items[i].seq
  <2>1. CASE \E j \in DOMAIN ts.items :
                /\ new.items[i].id = ts.items[j].id
                /\ new.items[i].seq = ts.items[j].seq
    BY <2>1, <1>3 DEF NotAhead
  <2>2. CASE new.items[i].id >= ts.next
    BY <2>2, <1>1, <1>3 DEF NotAhead
  <2> QED
    BY <2>1, <2>2 DEF Kin
<1> QED
  BY <1>2, <1>3 DEF NotAhead

LEMMA WantedMoved ==
    ASSUME NEW ts, NEW new, Kin(new, ts), NEW a \in Asked, Wanted(new, a)
    PROVE  Wanted(ts, a)
<1>1. PICK i \in DOMAIN new.items : new.items[i].id = a.tab /\ new.items[i].seq = a.seq
  BY DEF Wanted
<1>2. new.items[i].seq # 0
  BY <1>1, AskedIsTyped
<1>3. PICK j \in DOMAIN ts.items :
         new.items[i].id = ts.items[j].id /\ new.items[i].seq = ts.items[j].seq
  BY <1>2 DEF Kin
<1> QED
  BY <1>1, <1>3 DEF Wanted

\* Every list became one that is kin to it, and nothing else changed.
LEMMA ListsMoved ==
    ASSUME NEW ls, ListsOK(ls), NEW new, ListsOK(new),
           \A c \in Conns \cup {NoConn} : Kin(new[c], ls[c]),
           NEW tk, NEW rn, NEW ld, NEW l, NEW e, Asks(tk, l, e),
           Behind(ls, tk, l, e), LastRun(ls, tk, rn, l), LastLoad(ls, tk, ld, l),
           RowsOf(ls, l), Unseen(ls, tk), Idle(ls, e)
    PROVE  /\ Behind(new, tk, l, e) /\ LastRun(new, tk, rn, l) /\ LastLoad(new, tk, ld, l)
           /\ RowsOf(new, l) /\ Unseen(new, tk) /\ Idle(new, e)
<1>1. \A t \in Tasks : tk[t].flies => tk[t].asked \in Asked /\ tk[t].asked.list[1] \in Conns
  BY AskedIsTyped DEF Asks
<1>2. \A c \in Conns \cup {NoConn} : ListOK(ls[c]) /\ ListOK(new[c])
  BY DEF ListsOK
<1>3. Behind(new, tk, l, e)
  BY <1>1, <1>2, BehindMoved DEF Behind
<1>4. LastRun(new, tk, rn, l)
  BY <1>1, <1>2, WantedMoved DEF LastRun
<1>5. LastLoad(new, tk, ld, l)
  <2> SUFFICES ASSUME NEW c \in Conns, NEW i \in DOMAIN new[c].items,
                      new[c].items[i].of # Query, new[c].items[i].seq > 0,
                      ld[<<c, new[c].items[i].id>>] # 0
               PROVE  AskedBy(new[c].items[i], l[c], tk[ld[<<c, new[c].items[i].id>>]].asked)
    BY SMTT(30) DEF LastLoad
  <2>1. Kin(new[c], ls[c])
    BY SMTT(30)
  <2>2. PICK j \in DOMAIN ls[c].items :
           /\ new[c].items[i].id = ls[c].items[j].id
           /\ new[c].items[i].of = ls[c].items[j].of
           /\ new[c].items[i].seq = ls[c].items[j].seq
    BY <2>1 DEF Kin
  <2>3. AskedBy(ls[c].items[j], l[c], tk[ld[<<c, ls[c].items[j].id>>]].asked)
    BY <2>2 DEF LastLoad
  <2> QED
    BY <2>2, <2>3 DEF AskedBy
<1>6. \A c \in Conns : \A i \in DOMAIN new[c].items : new[c].items[i].rows # NoRows =>
         \E j \in DOMAIN ls[c].items :
            /\ new[c].items[i].id = ls[c].items[j].id
            /\ new[c].items[i].of = ls[c].items[j].of
            /\ new[c].items[i].seq = ls[c].items[j].seq
            /\ new[c].items[i].rows = ls[c].items[j].rows
  BY DEF Kin
<1>7. RowsOf(new, l)
  <2> SUFFICES ASSUME NEW c \in Conns, NEW i \in DOMAIN new[c].items,
                      new[c].items[i].rows # NoRows
               PROVE  OwnRows(new[c].items[i], c, l[c])
    BY DEF RowsOf
  <2>1. PICK j \in DOMAIN ls[c].items :
            /\ new[c].items[i].id = ls[c].items[j].id
            /\ new[c].items[i].of = ls[c].items[j].of
            /\ new[c].items[i].seq = ls[c].items[j].seq
            /\ new[c].items[i].rows = ls[c].items[j].rows
    BY <1>6
  <2>2. OwnRows(ls[c].items[j], c, l[c])
    BY <2>1 DEF RowsOf
  <2> QED
    BY <2>1, <2>2 DEF OwnRows
<1>8. Unseen(new, tk)
  BY <1>6 DEF Unseen
<1>9. Idle(new, e)
  <2> SUFFICES ASSUME NEW c \in Conns \cup {NoConn}, c = NoConn \/ e[c] # "saved"
               PROVE  IdleTabs(new[c])
    BY DEF Idle
  <2>1. IdleTabs(ls[c]) /\ Kin(new[c], ls[c])
    BY DEF Idle
  <2> QED
    BY <2>1 DEF Kin, IdleTabs
<1> QED
  BY <1>3, <1>4, <1>5, <1>7, <1>8, <1>9

LEMMA ListSet ==
    ASSUME NEW w \in Windows, NEW c \in Conns \cup {NoConn}, NEW ts \in TabLists
    PROVE  LET v == [w EXCEPT !.tabs[c] = ts]
           IN  /\ v \in Windows
               /\ v.task = w.task /\ v.running = w.running /\ v.loads = w.loads
               /\ v.abandoned = w.abandoned /\ v.inFlight = w.inFlight
               /\ \A d \in Conns \cup {NoConn} : v.tabs[d] = IF d = c THEN ts ELSE w.tabs[d]
BY DEF Windows

\* One list became one that is kin to it.
LEMMA ListMoved ==
    ASSUME NEW w, NEW l, NEW e, WindowOK(w, l, e),
           NEW c \in Conns \cup {NoConn}, NEW ts, ListOK(ts), Kin(ts, w.tabs[c])
    PROVE  WindowOK([w EXCEPT !.tabs[c] = ts], l, e)
<1> DEFINE v == [w EXCEPT !.tabs[c] = ts]
<1>1. w \in Windows /\ ts \in TabLists /\ \A d \in Conns \cup {NoConn} : ListOK(w.tabs[d])
  BY DEF WindowOK, ListsOK, ListOK
<1>2. /\ v \in Windows
      /\ v.task = w.task /\ v.running = w.running /\ v.loads = w.loads
      /\ v.abandoned = w.abandoned /\ v.inFlight = w.inFlight
      /\ \A d \in Conns \cup {NoConn} : v.tabs[d] = IF d = c THEN ts ELSE w.tabs[d]
  BY <1>1, ListSet
<1> HIDE DEF v
<1>3. \A d \in Conns \cup {NoConn} : ListOK(v.tabs[d]) /\ Kin(v.tabs[d], w.tabs[d])
  BY <1>1, <1>2, KinOfItself
<1>4. v.tabs \in [Conns \cup {NoConn} -> TabLists]
  BY <1>2 DEF Windows
<1>5. ListsOK(v.tabs)
  BY <1>3, <1>4 DEF ListsOK
<1>6. /\ Behind(v.tabs, w.task, l, e) /\ LastRun(v.tabs, w.task, w.running, l)
      /\ LastLoad(v.tabs, w.task, w.loads, l)
      /\ RowsOf(v.tabs, l) /\ Unseen(v.tabs, w.task) /\ Idle(v.tabs, e)
  BY <1>3, <1>5, ListsMoved DEF WindowOK
<1>7. WindowOK(v, l, e)
  BY <1>2, <1>5, <1>6 DEF WindowOK
<1> QED
  BY <1>7 DEF v

\* A list is replaced by one whose tabs asked for nothing, and its connection may
\* begin a new one, be made or be removed with it.
Renewed(w, c, l, e, l2, e2) ==
    /\ {l, l2} \subseteq [Conns -> Nat]
    /\ \A d \in Conns : d # c => l2[d] = l[d] /\ e2[d] = e[d]
    /\ c \in Conns => l2[c] >= l[c] /\ (e2[c] = "new" => e[c] = "new")
    /\ c \in Conns /\ e2[c] = "saved" =>
          \A t \in Tasks : w.task[t].flies =>
             w.task[t].asked.list[1] # c \/ w.task[t].asked.list[2] # l2[c]

LEMMA ListRenewed ==
    ASSUME NEW w, NEW l, NEW e, WindowOK(w, l, e),
           NEW c \in Conns \cup {NoConn}, NEW ts, ListOK(ts), IdleTabs(ts),
           NEW l2, NEW e2, Renewed(w, c, l, e, l2, e2)
    PROVE  WindowOK([w EXCEPT !.tabs[c] = ts], l2, e2)
<1>0. /\ l2 \in [Conns -> Nat] /\ l \in [Conns -> Nat]
      /\ \A d \in Conns : d # c => l2[d] = l[d] /\ e2[d] = e[d]
      /\ c \in Conns => l2[c] >= l[c] /\ (e2[c] = "new" => e[c] = "new")
      /\ c \in Conns /\ e2[c] = "saved" =>
            \A t \in Tasks : w.task[t].flies =>
               w.task[t].asked.list[1] # c \/ w.task[t].asked.list[2] # l2[c]
  BY DEF Renewed
<1> USE <1>0
<1> DEFINE v == [w EXCEPT !.tabs[c] = ts]
           tk == w.task
<1>1. w \in Windows /\ ts \in TabLists /\ \A d \in Conns \cup {NoConn} : ListOK(w.tabs[d])
  BY DEF WindowOK, ListsOK, ListOK
<1>2. /\ v \in Windows
      /\ v.task = w.task /\ v.running = w.running /\ v.loads = w.loads
      /\ v.abandoned = w.abandoned /\ v.inFlight = w.inFlight
      /\ \A d \in Conns \cup {NoConn} : v.tabs[d] = IF d = c THEN ts ELSE w.tabs[d]
  BY <1>1, ListSet
<1> DEFINE ls == v.tabs
<1> HIDE DEF v
<1>3. ListsOK(ls)
  BY <1>1, <1>2 DEF ListsOK, Windows
<1>4. /\ Asks(tk, l, e) /\ Behind(w.tabs, tk, l, e) /\ LastRun(w.tabs, tk, w.running, l)
      /\ LastLoad(w.tabs, tk, w.loads, l)
      /\ RowsOf(w.tabs, l) /\ Unseen(w.tabs, tk) /\ Idle(w.tabs, e)
  BY DEF WindowOK
<1>5. \A d \in Conns \cup {NoConn} : d # c => ls[d] = w.tabs[d]
  BY <1>2
<1>6. IdleTabs(ls[c])
  BY <1>2
<1> HIDE DEF ls, tk
<1>7. \A t \in Tasks : tk[t].flies =>
        /\ tk[t].asked \in Asked
        /\ tk[t].asked.list[1] \in Conns /\ tk[t].asked.list[2] \in Nat
        /\ tk[t].asked.seq >= 1
  BY <1>4, AskedIsTyped DEF Asks
<1>8. Asks(tk, l2, e2)
  <2> SUFFICES ASSUME NEW t \in Tasks, tk[t].flies
               PROVE  /\ e2[tk[t].asked.list[1]] # "new"
                      /\ tk[t].asked.list[2] <= l2[tk[t].asked.list[1]]
    BY <1>7 DEF Asks
  <2>1. /\ e[tk[t].asked.list[1]] # "new"
        /\ tk[t].asked.list[2] <= l[tk[t].asked.list[1]]
    BY <1>4 DEF Asks
  <2>2. l[tk[t].asked.list[1]] \in Nat /\ l2[tk[t].asked.list[1]] \in Nat
    BY <1>7
  <2>3. e2[tk[t].asked.list[1]] # "new"
    BY <2>1, <1>7, SMTT(30)
  <2>4. l[tk[t].asked.list[1]] <= l2[tk[t].asked.list[1]]
    BY <2>2, <1>7, SMTT(30)
  <2> QED
    BY <2>1, <2>2, <2>3, <2>4, <1>7
<1>9. Behind(ls, tk, l2, e2)
  <2> SUFFICES ASSUME NEW t \in Tasks, tk[t].flies,
                      e2[tk[t].asked.list[1]] = "saved",
                      tk[t].asked.list[2] = l2[tk[t].asked.list[1]]
               PROVE  NotAhead(ls[tk[t].asked.list[1]], tk[t].asked)
    BY DEF Behind
  <2>1. tk[t].asked.list[1] # c
    BY <1>7 DEF tk
  <2>2. ls[tk[t].asked.list[1]] = w.tabs[tk[t].asked.list[1]]
    BY <2>1, <1>5, <1>7, SMTT(30)
  <2> QED
    BY <2>1, <2>2, <1>4, <1>7 DEF Behind
<1>10. LastRun(ls, tk, w.running, l2)
  <2> SUFFICES ASSUME NEW t \in Tasks, tk[t].flies, ~tk[t].told, tk[t].asked.of = Query,
                      tk[t].asked.list[2] = l2[tk[t].asked.list[1]],
                      Wanted(ls[tk[t].asked.list[1]], tk[t].asked)
               PROVE  w.running[<<tk[t].asked.list[1], tk[t].asked.tab>>] = t
    BY Zenon DEF LastRun
  <2>1. tk[t].asked.list[1] # c
    <3>1. PICK i \in DOMAIN ls[tk[t].asked.list[1]].items :
             ls[tk[t].asked.list[1]].items[i].seq = tk[t].asked.seq
      BY ZenonT(40) DEF Wanted
    <3>2. tk[t].asked.seq # 0
      BY <1>7
    <3> QED
      BY <3>1, <3>2, <1>6, ZenonT(60) DEF IdleTabs
  <2>2. ls[tk[t].asked.list[1]] = w.tabs[tk[t].asked.list[1]]
    BY <2>1, <1>5, <1>7, SMTT(30)
  <2> QED
    BY <2>1, <2>2, <1>4, <1>7, Zenon DEF LastRun
<1>11. LastLoad(ls, tk, w.loads, l2)
  <2> SUFFICES ASSUME NEW d \in Conns, NEW i \in DOMAIN ls[d].items,
                      ls[d].items[i].of # Query, ls[d].items[i].seq > 0,
                      w.loads[<<d, ls[d].items[i].id>>] # 0
               PROVE  AskedBy(ls[d].items[i], l2[d], tk[w.loads[<<d, ls[d].items[i].id>>]].asked)
    BY DEF LastLoad
  <2>1. d # c
    BY <1>6 DEF IdleTabs
  <2>2. ls[d] = w.tabs[d] /\ l2[d] = l[d]
    BY <2>1, <1>5
  <2> QED
    BY <2>2, <1>4, Zenon DEF LastLoad
<1>12. RowsOf(ls, l2) /\ Unseen(ls, tk)
  <2>1. \A d \in Conns : \A i \in DOMAIN ls[d].items : ls[d].items[i].rows # NoRows => d # c
    BY <1>6 DEF IdleTabs
  <2>2. \A d \in Conns : d # c => ls[d] = w.tabs[d] /\ l2[d] = l[d]
    BY <1>5
  <2>3. RowsOf(ls, l2)
    BY <2>1, <2>2, <1>4 DEF RowsOf
  <2>4. Unseen(ls, tk)
    BY <2>1, <2>2, <1>4 DEF Unseen
  <2> QED
    BY <2>3, <2>4
<1>13. Idle(ls, e2)
  BY <1>4, <1>5, <1>6 DEF Idle
<1>14. WindowOK(v, l2, e2)
  BY <1>2, <1>3, <1>8, <1>9, <1>10, <1>11, <1>12, <1>13 DEF WindowOK, tk, ls
<1> QED
  BY <1>14 DEF v

LEMMA ListReplaced ==
    ASSUME NEW w, NEW l, NEW e, WindowOK(w, l, e),
           NEW c \in Conns \cup {NoConn}, NEW ts, ListOK(ts), IdleTabs(ts),
           NEW l2 \in [Conns -> Nat], l \in [Conns -> Nat], NEW e2,
           \A d \in Conns : d # c => l2[d] = l[d] /\ e2[d] = e[d],
           c \in Conns => l2[c] >= l[c] /\ (e2[c] = "new" => e[c] = "new"),
           c \in Conns /\ e2[c] = "saved" =>
              \A t \in Tasks : w.task[t].flies =>
                 w.task[t].asked.list[1] # c \/ w.task[t].asked.list[2] # l2[c]
    PROVE  WindowOK([w EXCEPT !.tabs[c] = ts], l2, e2)
<1>1. Renewed(w, c, l, e, l2, e2)
  BY DEF Renewed
<1> QED
  BY <1>1, ListRenewed

-----------------------------------------------------------------------------
(* A task begins, for the tab in front of c's list.                        *)

NextLoad(w, c) == [ActiveTab(w.tabs[c]) EXCEPT !.seq = @ + 1]

Question(w, c) == [of |-> ActiveTab(w.tabs[c]).of, list |-> ThisList(c),
                   tab |-> ActiveTab(w.tabs[c]).id, seq |-> ActiveTab(w.tabs[c]).seq + 1]

Begins(w, c, t) ==
    LET tab == ActiveTab(w.tabs[c])
        a == Question(w, c)
        v == Begin(w, c, t)
    IN  /\ w.tabs[c].active \in DOMAIN w.tabs[c].items
        /\ tab = w.tabs[c].items[w.tabs[c].active]
        /\ tab \in Tab /\ NextLoad(w, c) \in Tab
        /\ NextLoad(w, c).id = tab.id /\ NextLoad(w, c).of = tab.of
        /\ NextLoad(w, c).seq = tab.seq + 1 /\ NextLoad(w, c).rows = tab.rows
        /\ a \in Asked
        /\ a.of = tab.of /\ a.list[1] = c /\ a.list[2] = list[c] /\ a.tab = tab.id
        /\ a.seq = tab.seq + 1
        /\ v \in Windows
        /\ v.tabs = [w.tabs EXCEPT ![c] = WithTab(w.tabs[c], NextLoad(w, c))]
        /\ v.task = [w.task EXCEPT ![t] = [asked |-> a, flies |-> TRUE, told |-> FALSE]]
        /\ v.running = w.running /\ v.loads = w.loads /\ v.abandoned = w.abandoned
        /\ v.inFlight = w.inFlight + 1

LEMMA BeginIs ==
    ASSUME NEW w, WindowOK(w, list, entry), list \in [Conns -> 0..MaxLists],
           NEW c \in Conns, MayBegin(w, c), NEW t \in Tasks
    PROVE  Begins(w, c, t)
<1> DEFINE tab == ActiveTab(w.tabs[c])
           a == Question(w, c)
           v == Begin(w, c, t)
           f == [asked |-> a, flies |-> TRUE, told |-> FALSE]
<1>1. w \in Windows /\ ListOK(w.tabs[c])
  BY DEF WindowOK, ListsOK
<1>2. /\ w.tabs[c].active \in DOMAIN w.tabs[c].items
      /\ tab = w.tabs[c].items[w.tabs[c].active]
      /\ tab \in Tab /\ tab.seq \in Nat /\ tab.seq < MaxSeq
  BY <1>1, TabIsTyped, SMTT(30) DEF MayBegin, HasActive, ActiveTab
<1>3. /\ NextLoad(w, c) \in Tab
      /\ NextLoad(w, c).id = tab.id /\ NextLoad(w, c).of = tab.of
      /\ NextLoad(w, c).seq = tab.seq + 1 /\ NextLoad(w, c).rows = tab.rows
  BY <1>2, Bounds, SMTT(30) DEF NextLoad, Tab
<1>4. /\ a \in Asked
      /\ a.of = tab.of /\ a.list[1] = c /\ a.list[2] = list[c] /\ a.tab = tab.id
      /\ a.seq = tab.seq + 1
  <2>1. ThisList(c) \in Lists /\ tab.seq + 1 \in 1..MaxSeq
    BY <1>2, Bounds, SMTT(30) DEF ThisList, Lists
  <2> QED
    BY <2>1, <1>2, <1>3 DEF Question, Asked, Tab, ThisList
<1>5. f \in Flights
  BY <1>4, SMTT(30) DEF Flights
<1>6. WithTab(w.tabs[c], NextLoad(w, c)) \in TabLists
  <2> DEFINE old == w.tabs[c]
             next == NextLoad(w, c)
  <2>1. ListOK(old) /\ next \in Tab /\ \E i \in DOMAIN old.items : old.items[i].id = next.id
    BY <1>1, <1>2, <1>3, Zenon
  <2> HIDE DEF old, next
  <2>2. ListOK(WithTab(old, next))
    BY <2>1, WithTabIs
  <2> QED
    BY <2>2 DEF ListOK, old, next
<1>7. /\ w.tabs \in [Conns \cup {NoConn} -> TabLists] /\ w.task \in [Tasks -> Flights]
      /\ w.inFlight \in Nat
  BY <1>1 DEF Windows
<1>8. v = [w EXCEPT !.tabs = [w.tabs EXCEPT ![c] = WithTab(w.tabs[c], NextLoad(w, c))],
                    !.task = [w.task EXCEPT ![t] = f],
                    !.inFlight = w.inFlight + 1]
  <2>1. f = [asked |-> [of |-> NextLoad(w, c).of, list |-> ThisList(c),
                        tab |-> NextLoad(w, c).id, seq |-> NextLoad(w, c).seq],
             flies |-> TRUE, told |-> FALSE]
    BY <1>3 DEF Question
  <2> HIDE DEF f
  <2> QED
    BY <2>1, <1>1 DEF Begin, NextLoad, Windows
<1> HIDE DEF v, f
<1>9. /\ v \in Windows
      /\ v.tabs = [w.tabs EXCEPT ![c] = WithTab(w.tabs[c], NextLoad(w, c))]
      /\ v.task = [w.task EXCEPT ![t] = f]
      /\ v.running = w.running /\ v.loads = w.loads /\ v.abandoned = w.abandoned
      /\ v.inFlight = w.inFlight + 1
  <2> DEFINE tb == [w.tabs EXCEPT ![c] = WithTab(w.tabs[c], NextLoad(w, c))]
             tk == [w.task EXCEPT ![t] = f]
             n == w.inFlight + 1
  <2>1. tb \in [Conns \cup {NoConn} -> TabLists] /\ tk \in [Tasks -> Flights] /\ n \in Nat
    BY <1>5, <1>6, <1>7
  <2>2. v = [w EXCEPT !.tabs = tb, !.task = tk, !.inFlight = n]
    BY <1>8, SMTT(30)
  <2> HIDE DEF tb, tk, n
  <2>3. /\ v \in Windows
        /\ v.tabs = tb /\ v.task = tk /\ v.inFlight = n
        /\ v.running = w.running /\ v.loads = w.loads /\ v.abandoned = w.abandoned
    BY <1>1, <2>1, <2>2 DEF Windows
  <2> QED
    BY <2>3 DEF tb, tk, n
<1> HIDE DEF a, tab
<1> QED
  BY <1>2, <1>3, <1>4, <1>9 DEF Begins, f, v, a, tab

Loads(w, c, t) ==
    /\ WindowOK(w, list, entry) /\ list \in [Conns -> 0..MaxLists]
    /\ c \in Conns /\ IsSaved(c) /\ MayBegin(w, c)
    /\ t \in Tasks /\ ~w.task[t].flies

\* What holds once t flies with the next question of the tab in front of c's list:
\* all but what a handle is needed for.
Began(w, c, t, k, a, ns, nk) ==
    /\ ListsOK(ns) /\ nk \in [Tasks -> Flights]
    /\ \A d \in Conns \cup {NoConn} : d # c => ns[d] = w.tabs[d]
    /\ DOMAIN ns[c].items = DOMAIN w.tabs[c].items /\ ns[c].items[k] = NextLoad(w, c)
    /\ \A i \in DOMAIN w.tabs[c].items : i # k => ns[c].items[i] = w.tabs[c].items[i]
    /\ nk[t].asked = a /\ nk[t].flies /\ ~nk[t].told
    /\ \A u \in Tasks : u # t => nk[u] = w.task[u]
    /\ t \notin w.abandoned
    /\ Asks(nk, list, entry) /\ Held(nk, w.running, w.loads, w.abandoned)
    /\ Gone(nk, w.abandoned)
    /\ Behind(ns, nk, list, entry)
    /\ RowsOf(ns, list) /\ Distinct(nk) /\ Unseen(ns, nk) /\ Idle(ns, entry)

HeldButFor(w, t, nk) ==
    \A u \in Tasks \ {t} : nk[u].flies /\ u \notin w.abandoned /\ nk[u].asked.of # Query
        => w.loads[<<nk[u].asked.list[1], nk[u].asked.tab>>] = u

RunsButFor(w, c, t, a, ns, nk) ==
    \A u \in Tasks \ {t} :
        /\ nk[u].flies /\ ~nk[u].told /\ nk[u].asked.of = Query
        /\ nk[u].asked.list[2] = list[nk[u].asked.list[1]]
        /\ Wanted(ns[nk[u].asked.list[1]], nk[u].asked)
        => /\ w.running[<<nk[u].asked.list[1], nk[u].asked.tab>>] = u
           /\ nk[u].asked.list[1] = c => nk[u].asked.tab # a.tab

LEMMA TaskBegins ==
    ASSUME NEW w, NEW c, NEW t, Loads(w, c, t)
    PROVE  LET k == w.tabs[c].active
               a == Question(w, c)
               ns == Begin(w, c, t).tabs
               nk == Begin(w, c, t).task
           IN  Began(w, c, t, k, a, ns, nk) /\ HeldButFor(w, t, nk) /\ RunsButFor(w, c, t, a, ns, nk)
<1> DEFINE ls == w.tabs
           tk == w.task
           rn == w.running
           ld == w.loads
           ab == w.abandoned
           l == list
           e == entry
           k == w.tabs[c].active
           tab == NextLoad(w, c)
           a == Question(w, c)
           ns == Begin(w, c, t).tabs
           nk == Begin(w, c, t).task
<1>a. /\ ListsOK(ls) /\ tk \in [Tasks -> Flights]
      /\ rn \in [Keys -> Tasks \cup {0}] /\ ld \in [Keys -> Tasks \cup {0}]
      /\ ab \in SUBSET Tasks
      /\ Asks(tk, l, e) /\ Held(tk, rn, ld, ab) /\ Gone(tk, ab) /\ Reached(tk, ld, ab)
      /\ Behind(ls, tk, l, e) /\ LastRun(ls, tk, rn, l) /\ LastLoad(ls, tk, ld, l)
      /\ RowsOf(ls, l) /\ Distinct(tk) /\ Unseen(ls, tk) /\ Idle(ls, e)
  BY DEF Loads, WindowOK, Windows
<1>b. /\ c \in Conns /\ e[c] = "saved" /\ l[c] \in Nat
      /\ t \in Tasks /\ ~tk[t].flies
  BY Bounds DEF Loads, IsSaved
<1>c. /\ k \in DOMAIN ls[c].items /\ tab \in Tab
      /\ tab.id = ls[c].items[k].id /\ tab.of = ls[c].items[k].of
      /\ tab.seq = ls[c].items[k].seq + 1 /\ tab.rows = ls[c].items[k].rows
      /\ a \in Asked /\ a.of = tab.of /\ a.list[1] = c /\ a.list[2] = l[c]
      /\ a.tab = tab.id /\ a.seq = tab.seq
      /\ ns = [ls EXCEPT ![c] = WithTab(ls[c], tab)]
      /\ nk = [tk EXCEPT ![t] = [asked |-> a, flies |-> TRUE, told |-> FALSE]]
  <2>1. Begins(w, c, t)
    BY BeginIs DEF Loads
  <2> QED
    BY <2>1 DEF Begins
<1> HIDE DEF ls, tk, rn, ld, ab, l, e, k, tab, a, ns, nk
<1> USE <1>a, <1>b, <1>c
<1> DEFINE f == [asked |-> a, flies |-> TRUE, told |-> FALSE]
<1>1. \A d \in Conns \cup {NoConn} : ListOK(ls[d])
  BY DEF ListsOK
<1>2. /\ ls[c].items[k].id \in Nat /\ ls[c].items[k].seq \in Nat
      /\ \A i \in DOMAIN ls[c].items : ls[c].items[i].id = ls[c].items[k].id => i = k
      /\ ls[c].items[k].id < ls[c].next
  BY <1>1, TabIsTyped DEF ListOK
<1>3. /\ ListOK(ns[c]) /\ ns[c].next = ls[c].next /\ ns[c].active = ls[c].active
      /\ DOMAIN ns[c].items = DOMAIN ls[c].items /\ ns[c].items[k] = tab
      /\ \A i \in DOMAIN ls[c].items : i # k => ns[c].items[i] = ls[c].items[i]
  <2>1. c \in Conns \cup {NoConn} /\ ns[c] = WithTab(ls[c], tab)
    BY DEF ListsOK
  <2>2. \A i \in DOMAIN ls[c].items : ls[c].items[i].id = tab.id <=> i = k
    BY <1>2
  <2>3. \E i \in DOMAIN ls[c].items : ls[c].items[i].id = tab.id
    OBVIOUS
  <2> DEFINE old == ls[c]
             new == WithTab(old, tab)
  <2>4. /\ ListOK(new) /\ new.next = old.next /\ new.active = old.active
        /\ DOMAIN new.items = DOMAIN old.items
        /\ \A i \in DOMAIN old.items :
              /\ new.items[i].id = old.items[i].id
              /\ old.items[i].id = tab.id => new.items[i] = tab
              /\ old.items[i].id # tab.id => new.items[i] = old.items[i]
    <3>1. ListOK(old) /\ \E i \in DOMAIN old.items : old.items[i].id = tab.id
      BY <2>1, <2>3, <1>1
    <3> HIDE DEF old
    <3> QED
      BY <3>1, WithTabIs
  <2>5. ns[c] = new
    BY <2>1
  <2> HIDE DEF new
  <2> QED
    BY <2>1, <2>2, <2>4, <2>5
<1>4. \A d \in Conns \cup {NoConn} : d # c => ns[d] = ls[d]
  BY DEF ListsOK
<1>5. ListsOK(ns)
  <2>1. ns[c] \in TabLists
    BY <1>3 DEF ListOK
  <2> QED
    BY <2>1, <1>1, <1>3, <1>4 DEF ListsOK
<1>6. f \in Flights
  BY DEF Flights
<1>7. /\ nk \in [Tasks -> Flights] /\ nk[t] = f
      /\ \A u \in Tasks : u # t => nk[u] = tk[u]
  BY <1>6
<1>8. nk[t].asked = a /\ nk[t].flies /\ ~nk[t].told
  BY <1>7
<1>9. t \notin ab
  BY DEF Gone
<1> HIDE DEF f
<1>10. \A u \in Tasks : nk[u].flies => nk[u].asked \in Asked /\ nk[u].asked.list[1] \in Conns
         /\ nk[u].asked.list[2] \in Nat /\ nk[u].asked.seq \in Nat /\ nk[u].asked.tab \in Nat
  BY <1>7, <1>8, AskedIsTyped DEF Asks
<1>11. Asks(nk, l, e)
  BY <1>7, <1>8 DEF Asks
<1>12. Held(nk, rn, ld, ab)
  <2> SUFFICES ASSUME NEW d \in Conns, NEW id \in Ids
               PROVE  /\ rn[<<d, id>>] # 0 => /\ KeptFor(nk, ab, d, id, rn[<<d, id>>])
                                              /\ nk[rn[<<d, id>>]].asked.of = Query
                      /\ ld[<<d, id>>] # 0 => /\ KeptFor(nk, ab, d, id, ld[<<d, id>>])
                                              /\ nk[ld[<<d, id>>]].asked.of # Query
    BY Zenon DEF Held
  <2>1. rn[<<d, id>>] \in Tasks \cup {0} /\ ld[<<d, id>>] \in Tasks \cup {0}
    BY DEF Keys
  <2>2. ASSUME NEW u \in Tasks, KeptFor(tk, ab, d, id, u)
        PROVE  KeptFor(nk, ab, d, id, u) /\ nk[u] = tk[u]
    BY <2>2, <1>7 DEF KeptFor
  <2>3. rn[<<d, id>>] # 0 => /\ KeptFor(tk, ab, d, id, rn[<<d, id>>])
                             /\ tk[rn[<<d, id>>]].asked.of = Query
    BY DEF Held
  <2>4. ld[<<d, id>>] # 0 => /\ KeptFor(tk, ab, d, id, ld[<<d, id>>])
                             /\ tk[ld[<<d, id>>]].asked.of # Query
    BY DEF Held
  <2>5. CASE rn[<<d, id>>] # 0 /\ rn[<<d, id>>] \in Tasks
    BY <2>1, <2>2, <2>3, <2>4, <2>5
  <2>6. CASE rn[<<d, id>>] = 0
    BY <2>1, <2>2, <2>4, <2>6
  <2> QED
    BY <2>1, <2>5, <2>6
<1>13. Gone(nk, ab)
  BY <1>7, <1>9 DEF Gone
<1>14. \A u \in Tasks \ {t} : nk[u].flies /\ u \notin ab /\ nk[u].asked.of # Query
         => ld[<<nk[u].asked.list[1], nk[u].asked.tab>>] = u
  BY <1>7 DEF Reached
<1>15. Behind(ns, nk, l, e)
  <2> SUFFICES ASSUME NEW u \in Tasks, nk[u].flies,
                      e[nk[u].asked.list[1]] = "saved",
                      nk[u].asked.list[2] = l[nk[u].asked.list[1]]
               PROVE  NotAhead(ns[nk[u].asked.list[1]], nk[u].asked)
    BY DEF Behind
  <2>1. CASE u = t
    <3>1. NotAhead(ns[c], a)
      <4>1. \A i \in DOMAIN ns[c].items : ns[c].items[i].id = a.tab => i = k
        BY <1>2, <1>3
      <4>2. a.seq <= a.seq
        BY AskedIsTyped
      <4> QED
        BY <4>1, <4>2, <1>2, <1>3 DEF NotAhead
    <3> QED
      BY <3>1, <2>1, <1>8
  <2>2. CASE u # t
    <3>1. NotAhead(ls[nk[u].asked.list[1]], nk[u].asked)
      BY <2>2, <1>7, SMTT(30) DEF Behind
    <3>2. CASE nk[u].asked.list[1] = c
      <4>1. nk[u].asked.seq \in Nat
        BY <1>10
      <4>2. \A i \in DOMAIN ns[c].items : /\ ns[c].items[i].id = ls[c].items[i].id
                                          /\ ls[c].items[i].seq <= ns[c].items[i].seq
                                          /\ ls[c].items[i].seq \in Nat /\ ns[c].items[i].seq \in Nat
        BY <1>1, <1>2, <1>3, TabIsTyped, SMTT(30)
      <4>3. nk[u].asked.tab < ns[c].next
        BY <3>1, <3>2, <1>3, ZenonT(40) DEF NotAhead
      <4>4. ASSUME NEW i \in DOMAIN ns[c].items, ns[c].items[i].id = nk[u].asked.tab
            PROVE  nk[u].asked.seq <= ns[c].items[i].seq
        <5>1. i \in DOMAIN ls[c].items /\ ls[c].items[i].id = nk[u].asked.tab
          BY <4>2, <4>4, <1>3, SMTT(30)
        <5>2. nk[u].asked.seq <= ls[c].items[i].seq
          BY <5>1, <3>1, <3>2, Zenon DEF NotAhead
        <5> QED
          BY <5>2, <4>1, <4>2
      <4> QED
        BY <4>3, <4>4, <3>2, Zenon DEF NotAhead
    <3>3. CASE nk[u].asked.list[1] # c
      BY <3>1, <3>3, <1>4, <1>10
    <3> QED
      BY <3>2, <3>3
  <2> QED
    BY <2>1, <2>2, SMTT(30)
<1>16. ASSUME NEW u \in Tasks \ {t},
              nk[u].flies, ~nk[u].told, nk[u].asked.of = Query,
              nk[u].asked.list[2] = l[nk[u].asked.list[1]],
              Wanted(ns[nk[u].asked.list[1]], nk[u].asked)
       PROVE  /\ rn[<<nk[u].asked.list[1], nk[u].asked.tab>>] = u
              /\ nk[u].asked.list[1] = c => nk[u].asked.tab # tab.id
  <2>1. nk[u] = tk[u]
    BY <1>7
  <2>2. CASE nk[u].asked.list[1] = c
    <3>0. Wanted(ns[c], nk[u].asked)
      BY <1>16, <2>2
    <3>1. PICK i \in DOMAIN ls[c].items :
             ns[c].items[i].id = nk[u].asked.tab /\ ns[c].items[i].seq = nk[u].asked.seq
      BY <3>0, <1>3 DEF Wanted
    <3>2. NotAhead(ls[c], nk[u].asked)
      BY <1>16, <2>1, <2>2, SMTT(30) DEF Behind
    <3>3. ASSUME i = k PROVE FALSE
      <4>1. nk[u].asked.seq = ns[c].items[k].seq /\ nk[u].asked.tab = ls[c].items[k].id
        BY <3>1, <3>3, <1>2, <1>3
      <4>2. nk[u].asked.seq <= ls[c].items[k].seq
        BY <4>1, <3>1, <3>2, <3>3, Zenon DEF NotAhead
      <4> QED
        BY <4>1, <4>2, <1>2, <1>3
    <3>4. Wanted(ls[c], nk[u].asked)
      BY <3>1, <3>3, <1>3 DEF Wanted
    <3>5. rn[<<nk[u].asked.list[1], nk[u].asked.tab>>] = u
      BY <3>4, <2>1, <2>2, <1>16 DEF LastRun
    <3>6. nk[u].asked.tab # tab.id
      BY <3>1, <3>3, <1>2, <1>3, SMTT(30)
    <3> QED
      BY <3>5, <3>6
  <2>3. CASE nk[u].asked.list[1] # c
    <3>1. Wanted(ls[nk[u].asked.list[1]], nk[u].asked)
      BY <2>3, <1>4, <1>10, <1>16
    <3> QED
      BY <3>1, <2>1, <2>3, <1>16 DEF LastRun
  <2> QED
    BY <2>2, <2>3
<1>17. RowsOf(ns, l)
  <2> SUFFICES ASSUME NEW d \in Conns, NEW i \in DOMAIN ns[d].items,
                      ns[d].items[i].rows # NoRows
               PROVE  OwnRows(ns[d].items[i], d, l[d])
    BY SMTT(30) DEF RowsOf
  <2>1. CASE d = c /\ i = k
    <3>1. OwnRows(ls[c].items[k], c, l[c]) /\ ls[c].items[k].rows \in Asked
      BY <2>1, <1>1, <1>3, TabIsTyped DEF RowsOf
    <3>2. ls[c].items[k].rows.seq \in Nat
      BY <3>1, AskedIsTyped
    <3> QED
      BY <3>1, <3>2, <2>1, <1>2, <1>3 DEF OwnRows
  <2>2. CASE ~(d = c /\ i = k)
    <3>1. ns[d].items[i] = ls[d].items[i] /\ i \in DOMAIN ls[d].items
      BY <2>2, <1>3, <1>4
    <3> QED
      BY <3>1 DEF RowsOf
  <2> QED
    BY <2>1, <2>2
<1>18. ASSUME NEW u \in Tasks, u # t, nk[u].flies, Same(a, nk[u].asked)
       PROVE  FALSE
  <2>1. NotAhead(ls[c], nk[u].asked)
    BY <1>18, <1>7 DEF Behind, Same
  <2>2. nk[u].asked.seq <= ls[c].items[k].seq
    BY <2>1, <1>18 DEF NotAhead, Same
  <2> QED
    BY <2>2, <1>2, <1>18 DEF Same
<1>19. Distinct(nk)
  <2> SUFFICES ASSUME NEW u \in Tasks, NEW v \in Tasks, nk[u].flies, nk[v].flies,
                      Same(nk[u].asked, nk[v].asked), u # v
               PROVE  FALSE
    BY DEF Distinct
  <2>1. CASE u = t
    BY <2>1, <1>8, <1>18
  <2>2. CASE v = t
    <3>1. Same(a, nk[u].asked)
      BY <2>2, <1>8 DEF Same
    <3> QED
      BY <3>1, <2>2, <1>18
  <2>3. CASE u # t /\ v # t
    BY <2>3, <1>7 DEF Distinct
  <2> QED
    BY <2>1, <2>2, <2>3
<1>20. Unseen(ns, nk)
  <2> SUFFICES ASSUME NEW d \in Conns, NEW i \in DOMAIN ns[d].items,
                      ns[d].items[i].rows # NoRows, NEW u \in Tasks, nk[u].flies,
                      Same(nk[u].asked, ns[d].items[i].rows)
               PROVE  FALSE
    BY DEF Unseen
  <2>1. /\ i \in DOMAIN ls[d].items /\ ns[d].items[i].rows = ls[d].items[i].rows
        /\ ns[d].items[i].id = ls[d].items[i].id
    BY <1>3, <1>4
  <2>2. CASE u = t
    <3>1. OwnRows(ls[d].items[i], d, l[d])
      BY <2>1 DEF RowsOf
    <3>2. d = c
      BY <3>1, <2>1, <2>2, <1>8 DEF OwnRows, Same
    <3>3. i = k
      BY <3>1, <3>2, <2>1, <2>2, <1>2, <1>8 DEF OwnRows, Same
    <3>4. ls[c].items[k].rows.seq <= ls[c].items[k].seq
      BY <3>1, <3>2, <3>3 DEF OwnRows
    <3>5. ls[c].items[k].rows.seq = ls[c].items[k].seq + 1
      BY <3>2, <3>3, <2>1, <2>2, <1>8 DEF Same
    <3> QED
      BY <3>4, <3>5, <1>2
  <2>3. CASE u # t
    BY <2>1, <2>3, <1>7 DEF Unseen
  <2> QED
    BY <2>2, <2>3
<1>21. Idle(ns, e)
  <2>1. c # NoConn
    BY NamesAssumption
  <2> QED
    BY <2>1, <1>4 DEF Idle
<1>22. HeldButFor(w, t, nk)
  BY <1>14, SMTT(30) DEF HeldButFor, ld, ab
<1>23. RunsButFor(w, c, t, a, ns, nk)
  BY <1>16, SMTT(30) DEF RunsButFor, rn, l
<1>24. Began(w, c, t, k, a, ns, nk)
  BY <1>3, <1>4, <1>5, <1>7, <1>8, <1>9, <1>11, <1>12, <1>13, <1>15, <1>17,
     <1>19, <1>20, <1>21, Zenon DEF Began, ls, tk, rn, ld, ab, l, e, tab
<1> QED
  BY <1>22, <1>23, <1>24, Zenon DEF k, a, ns, nk

-----------------------------------------------------------------------------
(* A load begins: it is kept for its tab, and the one kept before abandoned. *)

LEMMA SameFlights ==
    ASSUME NEW ls, NEW tk, NEW nk, NEW l, NEW e,
           \A u \in Tasks : nk[u].asked = tk[u].asked /\ nk[u].flies = tk[u].flies,
           Asks(tk, l, e), Behind(ls, tk, l, e), Distinct(tk), Unseen(ls, tk)
    PROVE  Asks(nk, l, e) /\ Behind(ls, nk, l, e) /\ Distinct(nk) /\ Unseen(ls, nk)
<1>1. Asks(nk, l, e)
  BY DEF Asks
<1>2. Behind(ls, nk, l, e)
  BY DEF Behind
<1>3. Distinct(nk)
  BY DEF Distinct
<1>4. Unseen(ls, nk)
  BY DEF Unseen
<1> QED
  BY <1>1, <1>2, <1>3, <1>4

LEMMA MinFree ==
    ASSUME NEW w, w \in Windows, FreeTasks(w) # {}
    PROVE  Min(FreeTasks(w)) \in Tasks /\ ~w.task[Min(FreeTasks(w))].flies
<1>1. FreeTasks(w) \in SUBSET Nat /\ \A t \in FreeTasks(w) : t <= MaxTasks
  BY Bounds DEF FreeTasks, Tasks
<1>2. Min(FreeTasks(w)) \in FreeTasks(w)
  BY <1>1, Bounds, MinIsLeast
<1> QED
  BY <1>2 DEF FreeTasks

\* Abandoning tasks tells them, and counts them out.
LEMMA AbandonIs ==
    ASSUME NEW w \in Windows, NEW os \in SUBSET Tasks
    PROVE  LET v == Abandon(w, os)
           IN  /\ v.tabs = w.tabs /\ v.running = w.running /\ v.loads = w.loads
               /\ v.task \in [Tasks -> Flights]
               /\ \A u \in Tasks : /\ v.task[u].asked = w.task[u].asked
                                   /\ v.task[u].flies = w.task[u].flies
                                   /\ v.task[u].told = (w.task[u].told \/ u \in os)
               /\ v.abandoned = w.abandoned \cup os
               /\ v.inFlight = Less(w.inFlight, Cardinality(os))
               /\ v = [tabs |-> v.tabs, task |-> v.task, running |-> v.running,
                       loads |-> v.loads, abandoned |-> v.abandoned, inFlight |-> v.inFlight]
<1> DEFINE v == Abandon(w, os)
           tk == [t \in Tasks |-> [w.task[t] EXCEPT !.told = w.task[t].told \/ t \in os]]
<1>1. w.task \in [Tasks -> Flights]
  BY DEF Windows
<1>2. /\ tk \in [Tasks -> Flights]
      /\ \A u \in Tasks : /\ tk[u].asked = w.task[u].asked
                          /\ tk[u].flies = w.task[u].flies
                          /\ tk[u].told = (w.task[u].told \/ u \in os)
  <2>1. \A u \in Tasks : w.task[u] \in Flights
    BY <1>1
  <2>2. ASSUME NEW u \in Tasks
        PROVE  /\ tk[u] \in Flights /\ tk[u].asked = w.task[u].asked
               /\ tk[u].flies = w.task[u].flies
               /\ tk[u].told = (w.task[u].told \/ u \in os)
    <3> DEFINE f == w.task[u]
               told == w.task[u].told \/ u \in os
    <3>1. told \in BOOLEAN /\ f \in Flights /\ tk[u] = [f EXCEPT !.told = told]
      BY <2>1
    <3> HIDE DEF f, told
    <3>2. [f EXCEPT !.told = told] \in Flights
          /\ [f EXCEPT !.told = told].asked = f.asked
          /\ [f EXCEPT !.told = told].flies = f.flies
          /\ [f EXCEPT !.told = told].told = told
      BY <3>1 DEF Flights
    <3> HIDE DEF tk
    <3> QED
      BY <3>1, <3>2 DEF f, told
  <2> QED
    BY <2>2
<1>3. v = [w EXCEPT !.task = tk, !.abandoned = w.abandoned \cup os,
                    !.inFlight = Less(w.inFlight, Cardinality(os))]
  <2>1. Told(w.task, os) = tk
    BY DEF Told
  <2> HIDE DEF tk
  <2> QED
    BY <2>1 DEF Abandon
<1> HIDE DEF tk, v
<1> QED
  BY <1>2, <1>3 DEF Windows, v

\* load_table of a table's tab of a saved connection.
LEMMA LoadTableKeeps ==
    ASSUME NEW w, WindowOK(w, list, entry), list \in [Conns -> 0..MaxLists],
           NEW c \in Conns, IsSaved(c), MayBegin(w, c), ActiveTab(w.tabs[c]).of # Query
    PROVE  /\ WindowOK(LoadTable(w, c), list, entry)
           /\ LoadTable(w, c).tabs = [w.tabs EXCEPT ![c] = WithTab(w.tabs[c], NextLoad(w, c))]
<1> DEFINE ls == w.tabs
           tk == w.task
           rn == w.running
           ld == w.loads
           ab == w.abandoned
           l == list
           e == entry
           k == w.tabs[c].active
           t == Min(FreeTasks(w))
           tab == NextLoad(w, c)
           a == Question(w, c)
           b == Begin(w, c, t)
           ns == b.tabs
           nk == b.task
           key == <<c, tab.id>>
           os == {ld[key]} \ {0}
           nl == [ld EXCEPT ![key] = t]
           kept == [b EXCEPT !.loads[key] = t]
           v == LoadTable(w, c)
           mk == v.task
<1>a. Loads(w, c, t)
  BY MinFree DEF Loads, MayBegin, WindowOK
<1>f. v = Abandon([b EXCEPT !.loads[<<c, ActiveTab(w.tabs[c]).id>>] = t],
                  {w.loads[<<c, ActiveTab(w.tabs[c]).id>>]} \ {0})
  BY DEF LoadTable
<1> HIDE DEF t, v
<1>b. /\ ListsOK(ls) /\ tk \in [Tasks -> Flights]
      /\ rn \in [Keys -> Tasks \cup {0}] /\ ld \in [Keys -> Tasks \cup {0}]
      /\ ab \in SUBSET Tasks /\ w.inFlight \in Nat
      /\ w.inFlight = Cardinality(Waited(tk, ab))
      /\ Held(tk, rn, ld, ab) /\ LastLoad(ls, tk, ld, l)
  BY DEF WindowOK, Windows
<1>c. /\ k \in DOMAIN ls[c].items /\ tab \in Tab /\ tab.of # Query
      /\ tab.id = ActiveTab(w.tabs[c]).id
      /\ tab.id = ls[c].items[k].id
      /\ a.of = tab.of /\ a.list[1] = c /\ a.list[2] = l[c]
      /\ a.tab = tab.id /\ a.seq = tab.seq
      /\ t \in Tasks /\ ~tk[t].flies
  <2>1. t \in Tasks /\ ~tk[t].flies
    BY <1>a DEF Loads
  <2>2. Begins(w, c, t)
    BY <2>1, BeginIs
  <2> QED
    BY <2>1, <2>2 DEF Begins
<1>d. /\ b \in Windows
      /\ b.running = rn /\ b.loads = ld /\ b.abandoned = ab /\ b.inFlight = w.inFlight + 1
      /\ ns = [w.tabs EXCEPT ![c] = WithTab(w.tabs[c], NextLoad(w, c))]
  <2>1. Begins(w, c, t)
    BY <1>c, BeginIs, SMTT(30)
  <2> QED
    BY <2>1 DEF Begins
<1>e. Began(w, c, t, k, a, ns, nk) /\ HeldButFor(w, t, nk) /\ RunsButFor(w, c, t, a, ns, nk)
  BY <1>a, TaskBegins, SMTT(30)
<1>4. tab.id \in Ids /\ key \in Keys /\ ld[key] \in Tasks \cup {0}
  BY <1>b, <1>c, SMTT(30) DEF Tab, Keys
<1>j. v = Abandon(kept, os)
  BY <1>c, <1>f, Zenon
<1> HIDE DEF b, tab
<1>g. /\ kept \in Windows /\ kept.loads = nl
      /\ kept.tabs = ns /\ kept.task = nk /\ kept.running = rn /\ kept.abandoned = ab
      /\ kept.inFlight = w.inFlight + 1
  <2>1. key \in Keys /\ t \in Tasks \cup {0}
    BY <1>4, <1>c
  <2> HIDE DEF key, t, rn, ld, ab
  <2> QED
    BY <2>1, <1>d DEF Windows
<1>h. os \in SUBSET Tasks
  BY <1>4
<1> HIDE DEF kept, os, nl, mk
<1>k. /\ v.tabs = kept.tabs /\ v.running = kept.running /\ v.loads = kept.loads
      /\ v.task \in [Tasks -> Flights]
      /\ \A u \in Tasks : /\ v.task[u].asked = kept.task[u].asked
                          /\ v.task[u].flies = kept.task[u].flies
                          /\ v.task[u].told = (kept.task[u].told \/ u \in os)
      /\ v.abandoned = kept.abandoned \cup os
      /\ v.inFlight = Less(kept.inFlight, Cardinality(os))
      /\ v = [tabs |-> v.tabs, task |-> v.task, running |-> v.running,
              loads |-> v.loads, abandoned |-> v.abandoned, inFlight |-> v.inFlight]
  BY <1>g, <1>h, <1>j, AbandonIs
<1>i. /\ v.tabs = ns /\ v.running = rn /\ v.loads = nl
      /\ mk \in [Tasks -> Flights]
      /\ \A u \in Tasks : /\ mk[u].asked = nk[u].asked /\ mk[u].flies = nk[u].flies
                          /\ mk[u].told = (nk[u].told \/ u \in os)
      /\ v.abandoned = ab \cup os
      /\ v.inFlight = Less(w.inFlight + 1, Cardinality(os))
      /\ v = [tabs |-> v.tabs, task |-> v.task, running |-> v.running,
              loads |-> v.loads, abandoned |-> v.abandoned, inFlight |-> v.inFlight]
  BY <1>g, <1>k DEF mk
<1>1. /\ ListsOK(ns) /\ nk \in [Tasks -> Flights]
      /\ \A d \in Conns \cup {NoConn} : d # c => ns[d] = ls[d]
      /\ DOMAIN ns[c].items = DOMAIN ls[c].items /\ ns[c].items[k] = tab
      /\ \A i \in DOMAIN ls[c].items : i # k => ns[c].items[i] = ls[c].items[i]
      /\ nk[t].asked = a /\ nk[t].flies /\ ~nk[t].told
      /\ \A u \in Tasks : u # t => nk[u] = tk[u]
      /\ t \notin ab
      /\ Asks(nk, l, e) /\ Held(nk, rn, ld, ab) /\ Gone(nk, ab)
      /\ RowsOf(ns, l) /\ Distinct(nk) /\ Unseen(ns, nk) /\ Idle(ns, e)
      /\ Behind(ns, nk, l, e)
  BY <1>e DEF Began, tab
<1>2. \A u \in Tasks \ {t} : nk[u].flies /\ u \notin ab /\ nk[u].asked.of # Query
         => ld[<<nk[u].asked.list[1], nk[u].asked.tab>>] = u
  BY <1>e, SMTT(30) DEF HeldButFor
<1>3. \A u \in Tasks \ {t} :
         /\ nk[u].flies /\ ~nk[u].told /\ nk[u].asked.of = Query
         /\ nk[u].asked.list[2] = l[nk[u].asked.list[1]]
         /\ Wanted(ns[nk[u].asked.list[1]], nk[u].asked)
         => /\ rn[<<nk[u].asked.list[1], nk[u].asked.tab>>] = u
            /\ nk[u].asked.list[1] = c => nk[u].asked.tab # tab.id
  BY <1>c, <1>e, Zenon DEF RunsButFor
<1> HIDE DEF ls, tk, rn, ld, ab, l, e, k, a, ns, nk
<1> USE <1>b, <1>c
<1>5. /\ nl \in [Keys -> Tasks \cup {0}] /\ nl[key] = t
      /\ \A d \in Conns, id \in Ids : <<d, id>> # key => nl[<<d, id>>] = ld[<<d, id>>]
  BY <1>4 DEF Keys, nl
<1>6. \A u \in os : /\ u \in Tasks /\ u = ld[key] /\ u # 0
                    /\ KeptFor(tk, ab, c, tab.id, u) /\ tk[u].asked.of # Query
  BY <1>4 DEF Held, os
<1>7. t \notin os /\ os \subseteq Waited(tk, ab) /\ t \notin Waited(tk, ab)
  BY <1>6 DEF KeptFor, Waited
<1>8. /\ Asks(mk, l, e) /\ Behind(ns, mk, l, e) /\ Distinct(mk) /\ Unseen(ns, mk)
  <2>1. \A u \in Tasks : mk[u].asked = nk[u].asked /\ mk[u].flies = nk[u].flies
    BY <1>i
  <2>2. Asks(nk, l, e) /\ Behind(ns, nk, l, e) /\ Distinct(nk) /\ Unseen(ns, nk)
    BY <1>1
  <2> QED
    BY <2>1, <2>2, SameFlights
<1>9. Waited(mk, ab \cup os) = (Waited(tk, ab) \cup {t}) \ os
  <2>1. \A u \in Tasks : mk[u].flies <=> (tk[u].flies \/ u = t)
    BY <1>1, <1>i
  <2> QED
    BY <2>1, <1>1, <1>7 DEF Waited
<1>10. \A u \in Tasks : u # t => mk[u].asked = tk[u].asked /\ mk[u].flies = tk[u].flies
  BY <1>1, <1>i
<1>11. Held(mk, rn, nl, ab \cup os)
  <2> SUFFICES ASSUME NEW d \in Conns, NEW id \in Ids
               PROVE  /\ rn[<<d, id>>] # 0 => /\ KeptFor(mk, ab \cup os, d, id, rn[<<d, id>>])
                                              /\ mk[rn[<<d, id>>]].asked.of = Query
                      /\ nl[<<d, id>>] # 0 => /\ KeptFor(mk, ab \cup os, d, id, nl[<<d, id>>])
                                              /\ mk[nl[<<d, id>>]].asked.of # Query
    BY Zenon DEF Held
  <2>1. rn[<<d, id>>] \in Tasks \cup {0} /\ ld[<<d, id>>] \in Tasks \cup {0}
    BY DEF Keys
  <2>2. ASSUME rn[<<d, id>>] # 0
        PROVE  /\ KeptFor(mk, ab \cup os, d, id, rn[<<d, id>>])
               /\ mk[rn[<<d, id>>]].asked.of = Query
    <3>1. PICK u \in Tasks : u = rn[<<d, id>>]
      BY <2>1, <2>2
    <3>2. KeptFor(tk, ab, d, id, u) /\ tk[u].asked.of = Query
      BY <2>2, <3>1 DEF Held
    <3>3. u # t /\ u \notin os
      BY <3>2, <1>6 DEF KeptFor
    <3> QED
      BY <3>1, <3>2, <3>3, <1>10 DEF KeptFor
  <2>3. ASSUME nl[<<d, id>>] # 0, <<d, id>> # key
        PROVE  /\ KeptFor(mk, ab \cup os, d, id, nl[<<d, id>>])
               /\ mk[nl[<<d, id>>]].asked.of # Query
    <3>1. PICK u \in Tasks : u = ld[<<d, id>>] /\ u = nl[<<d, id>>] /\ u # 0
      BY <2>1, <2>3, <1>5
    <3>2. KeptFor(tk, ab, d, id, u) /\ tk[u].asked.of # Query
      BY <3>1 DEF Held
    <3>3. u # t /\ u \notin os
      BY <3>2, <2>3, <1>6 DEF KeptFor
    <3> QED
      BY <3>1, <3>2, <3>3, <1>10 DEF KeptFor
  <2>4. ASSUME <<d, id>> = key
        PROVE  /\ KeptFor(mk, ab \cup os, d, id, nl[<<d, id>>])
               /\ mk[nl[<<d, id>>]].asked.of # Query
    <3>1. nl[<<d, id>>] = t /\ d = c /\ id = tab.id
      BY <2>4, <1>5
    <3>2. mk[t].asked = a /\ mk[t].flies
      BY <1>1, <1>i
    <3> QED
      BY <3>1, <3>2, <1>1, <1>7 DEF KeptFor
  <2> QED
    BY <2>2, <2>3, <2>4
<1>12. Gone(mk, ab \cup os)
  <2>1. ASSUME NEW u \in ab
        PROVE  mk[u].flies /\ mk[u].told
    BY <1>1, <1>i DEF Gone
  <2>2. ASSUME NEW u \in os
        PROVE  mk[u].flies /\ mk[u].told
    BY <1>6, <1>7, <1>10, <1>i DEF KeptFor
  <2> QED
    BY <2>1, <2>2 DEF Gone
<1>13. Reached(mk, nl, ab \cup os)
  <2> SUFFICES ASSUME NEW u \in Tasks, mk[u].flies, u \notin ab, u \notin os,
                      mk[u].asked.of # Query
               PROVE  nl[<<mk[u].asked.list[1], mk[u].asked.tab>>] = u
    BY DEF Reached
  <2>1. CASE u = t
    BY <2>1, <1>1, <1>5, <1>i, SMTT(30)
  <2>2. CASE u # t
    <3>1. ld[<<mk[u].asked.list[1], mk[u].asked.tab>>] = u
      BY <2>2, <1>2, <1>i
    <3>2. mk[u].asked.list[1] \in Conns /\ mk[u].asked.tab \in Ids
      BY <1>8, AskedIsTyped DEF Asks
    <3>3. <<mk[u].asked.list[1], mk[u].asked.tab>> # key
      <4>1. u # 0
        BY Bounds, SMTT(30) DEF Tasks
      <4> QED
        BY <4>1, <3>1 DEF os
    <3> QED
      BY <3>1, <3>2, <3>3, <1>5
  <2> QED
    BY <2>1, <2>2
<1>14. LastRun(ns, mk, rn, l)
  <2> SUFFICES ASSUME NEW u \in Tasks, mk[u].flies, ~mk[u].told, mk[u].asked.of = Query,
                      mk[u].asked.list[2] = l[mk[u].asked.list[1]],
                      Wanted(ns[mk[u].asked.list[1]], mk[u].asked)
               PROVE  rn[<<mk[u].asked.list[1], mk[u].asked.tab>>] = u
    BY DEF LastRun
  <2>1. u # t
    BY <1>1, <1>i
  <2>2. u \in Tasks \ {t} /\ nk[u].flies /\ ~nk[u].told /\ nk[u].asked = mk[u].asked
    BY <2>1, <1>i
  <2> QED
    BY <2>2, <1>3, ZenonT(60)
<1>15. LastLoad(ns, mk, nl, l)
  <2> SUFFICES ASSUME NEW d \in Conns, NEW i \in DOMAIN ns[d].items,
                      ns[d].items[i].of # Query, ns[d].items[i].seq > 0,
                      nl[<<d, ns[d].items[i].id>>] # 0
               PROVE  AskedBy(ns[d].items[i], l[d], mk[nl[<<d, ns[d].items[i].id>>]].asked)
    BY DEF LastLoad
  <2>1. CASE d = c /\ i = k
    <3>1. ns[d].items[i] = tab /\ nl[<<d, ns[d].items[i].id>>] = t /\ mk[t].asked = a
      BY <2>1, <1>1, <1>5, <1>i, Zenon
    <3> QED
      BY <3>1, <2>1 DEF AskedBy
  <2>2. CASE ~(d = c /\ i = k)
    <3>1. ns[d].items[i] = ls[d].items[i] /\ i \in DOMAIN ls[d].items
      BY <2>2, <1>1
    <3>2. ls[d].items[i].id \in Ids
      BY <3>1, TabIsTyped DEF ListsOK
    <3>3. <<d, ls[d].items[i].id>> # key
      BY <2>2, <3>1 DEF ListsOK, ListOK
    <3>4. PICK u \in Tasks : u = ld[<<d, ls[d].items[i].id>>] /\ u # 0
      BY <3>1, <3>2, <3>3, <1>5 DEF Keys
    <3>5. u = nl[<<d, ns[d].items[i].id>>]
      BY <3>1, <3>2, <3>3, <3>4, <1>5
    <3>6. AskedBy(ls[d].items[i], l[d], tk[u].asked)
      BY <3>1, <3>4 DEF LastLoad
    <3>7. u # t
      BY <3>2, <3>4 DEF Held, KeptFor
    <3> QED
      BY <3>1, <3>5, <3>6, <3>7, <1>10, Zenon
  <2> QED
    BY <2>1, <2>2, SMTT(30)
<1>16. v.inFlight = Cardinality(Waited(mk, ab \cup os)) /\ v.inFlight \in Nat
  <2> DEFINE W == Waited(tk, ab)
  <2>1. IsFiniteSet(W) /\ Cardinality(W) \in Nat
    <3>1. W \in SUBSET Tasks /\ IsFiniteSet(Tasks)
      BY Bounds, FS_Interval DEF Waited, Tasks
    <3> QED
      BY <3>1, FS_Subset, FS_CardinalityType
  <2>2. t \notin W /\ os \subseteq W /\ Waited(mk, ab \cup os) = (W \cup {t}) \ os
    BY <1>7, <1>9
  <2>3. w.inFlight = Cardinality(W)
    OBVIOUS
  <2> HIDE DEF W
  <2> DEFINE n == w.inFlight
             m == Cardinality(W)
             off == Cardinality(os)
  <2>7. n = m /\ m \in Nat /\ v.inFlight = Less(n + 1, off)
    BY <2>1, <2>3, <1>i
  <2>4. IsFiniteSet(W \cup {t}) /\ Cardinality(W \cup {t}) = m + 1
    BY <2>1, <2>2, FS_AddElement
  <2>5. CASE os = {}
    <3>1. off = 0 /\ (W \cup {t}) \ os = W \cup {t}
      BY <2>5, FS_EmptySet
    <3>2. Waited(mk, ab \cup os) = W \cup {t}
      BY <3>1, <2>2
    <3>3. Cardinality(Waited(mk, ab \cup os)) = m + 1
      BY <3>2, <2>4
    <3> HIDE DEF m, n, off
    <3>4. v.inFlight = m + 1
      BY <3>1, <2>7 DEF Less
    <3> QED
      BY <3>3, <3>4, <2>7
  <2>6. CASE os # {}
    <3>1. os = {ld[key]} /\ ld[key] \in W \cup {t}
      BY <2>2, <2>6 DEF os
    <3>2. Cardinality(os) = 1
      BY <3>1, FS_Singleton
    <3>3. Cardinality((W \cup {t}) \ os) = Cardinality(W)
      <4>1. Cardinality((W \cup {t}) \ {ld[key]}) = Cardinality(W \cup {t}) - 1
        <5> DEFINE more == W \cup {t}
                   x == ld[key]
        <5>1. x \in more /\ IsFiniteSet(more)
          BY <3>1, <2>4
        <5> HIDE DEF more, x
        <5>2. Cardinality(more \ {x}) = Cardinality(more) - 1
          BY <5>1, FS_RemoveElement
        <5> QED
          BY <5>2 DEF more, x
      <4> QED
        BY <4>1, <3>1, <2>1, <2>4
    <3>4. v.inFlight = m
      BY <3>2, <2>7 DEF Less
    <3> QED
      BY <3>3, <3>4, <2>2, <2>7
  <2> QED
    BY <2>5, <2>6
<1>17. v \in Windows
  <2>1. ns \in [Conns \cup {NoConn} -> TabLists]
    BY <1>1 DEF ListsOK
  <2>2. ab \cup os \in SUBSET Tasks
    BY <1>h
  <2> QED
    BY <2>1, <2>2, <1>5, <1>16, <1>i DEF Windows, mk
<1>18. WindowOK(v, l, e)
  BY <1>1, <1>8, <1>11, <1>12, <1>13, <1>14, <1>15, <1>16, <1>17, <1>i DEF WindowOK, mk
<1> QED
  BY <1>18, <1>d, <1>i DEF v, l, e, ns

-----------------------------------------------------------------------------
(* A run begins: Stop means it from now on.                                 *)

LEMMA RunKeeps ==
    ASSUME NEW w, NEW c, NEW t, Loads(w, c, t), ActiveTab(w.tabs[c]).of = Query
    PROVE  LET v == [Begin(w, c, t) EXCEPT !.running[<<c, ActiveTab(w.tabs[c]).id>>] = t]
           IN  /\ WindowOK(v, list, entry)
               /\ v.tabs = [w.tabs EXCEPT ![c] = WithTab(w.tabs[c], NextLoad(w, c))]
<1> DEFINE ls == w.tabs
           tk == w.task
           rn == w.running
           ld == w.loads
           ab == w.abandoned
           l == list
           e == entry
           k == w.tabs[c].active
           tab == NextLoad(w, c)
           a == Question(w, c)
           b == Begin(w, c, t)
           ns == b.tabs
           nk == b.task
           key == <<c, tab.id>>
           nr == [rn EXCEPT ![key] = t]
           v == [b EXCEPT !.running[<<c, ActiveTab(w.tabs[c]).id>>] = t]
<1>a. /\ WindowOK(w, list, entry) /\ list \in [Conns -> 0..MaxLists]
      /\ c \in Conns /\ t \in Tasks /\ ~tk[t].flies /\ MayBegin(w, c)
  BY DEF Loads
<1>b. /\ ListsOK(ls) /\ tk \in [Tasks -> Flights]
      /\ rn \in [Keys -> Tasks \cup {0}] /\ ld \in [Keys -> Tasks \cup {0}]
      /\ ab \in SUBSET Tasks /\ w.inFlight \in Nat
      /\ w.inFlight = Cardinality(Waited(tk, ab))
      /\ Held(tk, rn, ld, ab) /\ LastLoad(ls, tk, ld, l)
  BY <1>a DEF WindowOK, Windows
<1>2. Begins(w, c, t)
  BY <1>a, BeginIs
<1>c. /\ k \in DOMAIN ls[c].items /\ tab \in Tab /\ tab.of = Query
      /\ tab.id = ActiveTab(w.tabs[c]).id
      /\ tab.id = ls[c].items[k].id
      /\ a.of = tab.of /\ a.list[1] = c /\ a.list[2] = l[c]
      /\ a.tab = tab.id /\ a.seq = tab.seq
  BY <1>2 DEF Begins
<1>d. /\ b \in Windows
      /\ b.running = rn /\ b.loads = ld /\ b.abandoned = ab /\ b.inFlight = w.inFlight + 1
      /\ ns = [w.tabs EXCEPT ![c] = WithTab(w.tabs[c], NextLoad(w, c))]
  BY <1>2 DEF Begins
<1>e. Began(w, c, t, k, a, ns, nk) /\ HeldButFor(w, t, nk) /\ RunsButFor(w, c, t, a, ns, nk)
  BY TaskBegins
<1>4. tab.id \in Ids /\ key \in Keys
  BY <1>a, <1>c DEF Tab, Keys
<1>5. v = [b EXCEPT !.running[key] = t]
  BY <1>c
<1> HIDE DEF b, tab, v
<1>6. /\ v \in Windows /\ v.running = nr
      /\ v.tabs = ns /\ v.task = nk /\ v.loads = ld /\ v.abandoned = ab
      /\ v.inFlight = w.inFlight + 1
  <2>1. key \in Keys /\ t \in Tasks \cup {0}
    BY <1>4, <1>a
  <2> HIDE DEF key, rn, ld, ab
  <2> QED
    BY <2>1, <1>5, <1>d DEF Windows
<1>7. /\ ListsOK(ns)
      /\ \A d \in Conns \cup {NoConn} : d # c => ns[d] = ls[d]
      /\ DOMAIN ns[c].items = DOMAIN ls[c].items /\ ns[c].items[k] = tab
      /\ \A i \in DOMAIN ls[c].items : i # k => ns[c].items[i] = ls[c].items[i]
      /\ nk[t].asked = a /\ nk[t].flies /\ ~nk[t].told
      /\ \A u \in Tasks : u # t => nk[u] = tk[u]
      /\ t \notin ab
      /\ Asks(nk, l, e) /\ Held(nk, rn, ld, ab) /\ Gone(nk, ab)
      /\ RowsOf(ns, l) /\ Distinct(nk) /\ Unseen(ns, nk) /\ Idle(ns, e)
      /\ Behind(ns, nk, l, e)
  BY <1>e DEF Began, tab
<1>8. \A u \in Tasks \ {t} : nk[u].flies /\ u \notin ab /\ nk[u].asked.of # Query
         => ld[<<nk[u].asked.list[1], nk[u].asked.tab>>] = u
  BY <1>e, SMTT(30) DEF HeldButFor
<1>9. \A u \in Tasks \ {t} :
         /\ nk[u].flies /\ ~nk[u].told /\ nk[u].asked.of = Query
         /\ nk[u].asked.list[2] = l[nk[u].asked.list[1]]
         /\ Wanted(ns[nk[u].asked.list[1]], nk[u].asked)
         => /\ rn[<<nk[u].asked.list[1], nk[u].asked.tab>>] = u
            /\ nk[u].asked.list[1] = c => nk[u].asked.tab # tab.id
  BY <1>c, <1>e, Zenon DEF RunsButFor
<1> HIDE DEF ls, tk, rn, ld, ab, l, e, k, a, ns, nk
<1>10. /\ nr[key] = t
       /\ \A d \in Conns, id \in Ids : <<d, id>> # key => nr[<<d, id>>] = rn[<<d, id>>]
  BY <1>4, <1>b DEF Keys
<1> HIDE DEF nr
<1>11. Held(nk, nr, ld, ab)
  <2> SUFFICES ASSUME NEW d \in Conns, NEW id \in Ids
               PROVE  /\ nr[<<d, id>>] # 0 => /\ KeptFor(nk, ab, d, id, nr[<<d, id>>])
                                              /\ nk[nr[<<d, id>>]].asked.of = Query
                      /\ ld[<<d, id>>] # 0 => /\ KeptFor(nk, ab, d, id, ld[<<d, id>>])
                                              /\ nk[ld[<<d, id>>]].asked.of # Query
    BY Zenon DEF Held
  <2>1. CASE <<d, id>> = key
    <3>1. KeptFor(nk, ab, d, id, t) /\ nk[t].asked.of = Query
      BY <2>1, <1>7, <1>c DEF KeptFor
    <3> QED
      BY <3>1, <2>1, <1>7, <1>10 DEF Held
  <2>2. CASE <<d, id>> # key
    BY <2>2, <1>7, <1>10 DEF Held
  <2> QED
    BY <2>1, <2>2
<1>12. Reached(nk, ld, ab)
  BY <1>7, <1>8, <1>c DEF Reached
<1>13. LastRun(ns, nk, nr, l)
  <2> SUFFICES ASSUME NEW u \in Tasks, nk[u].flies, ~nk[u].told, nk[u].asked.of = Query,
                      nk[u].asked.list[2] = l[nk[u].asked.list[1]],
                      Wanted(ns[nk[u].asked.list[1]], nk[u].asked)
               PROVE  nr[<<nk[u].asked.list[1], nk[u].asked.tab>>] = u
    BY DEF LastRun
  <2>1. CASE u = t
    BY <2>1, <1>7, <1>10, <1>c
  <2>2. CASE u # t
    <3>1. /\ rn[<<nk[u].asked.list[1], nk[u].asked.tab>>] = u
          /\ <<nk[u].asked.list[1], nk[u].asked.tab>> # key
      BY <2>2, <1>9
    <3>2. nk[u].asked.list[1] \in Conns /\ nk[u].asked.tab \in Ids
      BY <1>7, AskedIsTyped, SMTT(30) DEF Asks
    <3> QED
      BY <3>1, <3>2, <1>10
  <2> QED
    BY <2>1, <2>2
<1>14. LastLoad(ns, nk, ld, l)
  <2> SUFFICES ASSUME NEW d \in Conns, NEW i \in DOMAIN ns[d].items,
                      ns[d].items[i].of # Query, ns[d].items[i].seq > 0,
                      ld[<<d, ns[d].items[i].id>>] # 0
               PROVE  AskedBy(ns[d].items[i], l[d], nk[ld[<<d, ns[d].items[i].id>>]].asked)
    BY DEF LastLoad
  <2>1. ~(d = c /\ i = k)
    BY <1>7, <1>c
  <2>2. ns[d].items[i] = ls[d].items[i] /\ i \in DOMAIN ls[d].items
    BY <2>1, <1>7
  <2>3. ls[d].items[i].id \in Ids
    BY <2>2, <1>b, TabIsTyped DEF ListsOK
  <2>4. PICK u \in Tasks : u = ld[<<d, ls[d].items[i].id>>] /\ u # 0
    BY <2>2, <2>3, <1>b DEF Keys
  <2>5. AskedBy(ls[d].items[i], l[d], tk[u].asked)
    BY <2>2, <2>4, <1>b DEF LastLoad
  <2>6. u # t
    BY <2>3, <2>4, <1>a, <1>b DEF Held, KeptFor, tk
  <2> QED
    BY <2>2, <2>4, <2>5, <2>6, <1>7, ZenonT(60)
<1>15. v.inFlight = Cardinality(Waited(nk, ab))
  <2> DEFINE W == Waited(tk, ab)
  <2>1. IsFiniteSet(W)
    <3>1. W \in SUBSET Tasks /\ IsFiniteSet(Tasks)
      BY Bounds, FS_Interval DEF Waited, Tasks
    <3> QED
      BY <3>1, FS_Subset
  <2>2. t \notin W
    BY <1>a DEF Waited, tk
  <2>3. Waited(nk, ab) = W \cup {t}
    <3>1. \A u \in Tasks : nk[u].flies <=> (tk[u].flies \/ u = t)
      BY <1>7
    <3> QED
      BY <3>1, <1>7, <1>a DEF Waited
  <2>4. w.inFlight = Cardinality(W)
    BY <1>b
  <2> HIDE DEF W
  <2>5. Cardinality(W \cup {t}) = Cardinality(W) + 1
    BY <2>1, <2>2, FS_AddElement
  <2> QED
    BY <2>3, <2>4, <2>5, <1>6
<1>16. WindowOK(v, l, e)
  BY <1>6, <1>7, <1>11, <1>12, <1>13, <1>14, <1>15 DEF WindowOK
<1> QED
  BY <1>16, <1>d, <1>6 DEF v, l, e, ns, b

-----------------------------------------------------------------------------
(* Stop tells the run, and forgets it.                                      *)

LEMMA StopKeeps ==
    ASSUME NEW w, NEW l, NEW e, WindowOK(w, l, e), NEW key \in Keys, w.running[key] # 0
    PROVE  LET v == [w EXCEPT !.task[w.running[key]].told = TRUE, !.running[key] = 0]
           IN  WindowOK(v, l, e) /\ v.tabs = w.tabs
<1> DEFINE ls == w.tabs
           tk == w.task
           rn == w.running
           ld == w.loads
           ab == w.abandoned
           t == w.running[key]
           f == [tk[t] EXCEPT !.told = TRUE]
           nk == [tk EXCEPT ![t] = f]
           nr == [rn EXCEPT ![key] = 0]
           v == [w EXCEPT !.task[w.running[key]].told = TRUE, !.running[key] = 0]
<1>a. /\ w \in Windows /\ ListsOK(ls) /\ tk \in [Tasks -> Flights]
      /\ rn \in [Keys -> Tasks \cup {0}] /\ ld \in [Keys -> Tasks \cup {0}]
      /\ ab \in SUBSET Tasks
      /\ Asks(tk, l, e) /\ Held(tk, rn, ld, ab) /\ Gone(tk, ab) /\ Reached(tk, ld, ab)
      /\ Behind(ls, tk, l, e) /\ LastRun(ls, tk, rn, l) /\ LastLoad(ls, tk, ld, l)
      /\ RowsOf(ls, l) /\ Distinct(tk) /\ Unseen(ls, tk) /\ Idle(ls, e)
      /\ w.inFlight = Cardinality(Waited(tk, ab))
  BY DEF WindowOK, Windows
<1>b. t \in Tasks /\ rn[key] = t
  BY <1>a
<1>c. /\ f \in Flights /\ f.asked = tk[t].asked /\ f.flies = tk[t].flies /\ f.told
  <2>1. tk[t] \in Flights
    BY <1>a, <1>b
  <2> QED
    BY <2>1 DEF Flights
<1>d. v = [w EXCEPT !.task = nk, !.running = nr]
  BY <1>a DEF Windows
<1> HIDE DEF f
<1>1. /\ nk \in [Tasks -> Flights] /\ nr \in [Keys -> Tasks \cup {0}]
      /\ \A u \in Tasks : /\ nk[u].asked = tk[u].asked /\ nk[u].flies = tk[u].flies
                          /\ tk[u].told => nk[u].told
                          /\ nk[u].told => tk[u].told \/ u = t
      /\ nr[key] = 0 /\ nk[t].told
      /\ \A d \in Keys : d # key => nr[d] = rn[d]
  BY <1>a, <1>b, <1>c
<1> HIDE DEF nk, nr
<1>2. /\ v \in Windows /\ v.tabs = ls /\ v.task = nk /\ v.running = nr /\ v.loads = ld
      /\ v.abandoned = ab /\ v.inFlight = w.inFlight
  BY <1>1, <1>a, <1>d DEF Windows
<1> HIDE DEF v, ls, tk, rn, ld, ab, t
<1>3. Asks(nk, l, e) /\ Behind(ls, nk, l, e) /\ Distinct(nk) /\ Unseen(ls, nk)
  BY <1>1, <1>a, SameFlights
<1>4. Held(nk, nr, ld, ab)
  <2> SUFFICES ASSUME NEW d \in Conns, NEW id \in Ids
               PROVE  /\ nr[<<d, id>>] # 0 => /\ KeptFor(nk, ab, d, id, nr[<<d, id>>])
                                              /\ nk[nr[<<d, id>>]].asked.of = Query
                      /\ ld[<<d, id>>] # 0 => /\ KeptFor(nk, ab, d, id, ld[<<d, id>>])
                                              /\ nk[ld[<<d, id>>]].asked.of # Query
    BY Zenon DEF Held
  <2>1. <<d, id>> \in Keys
    BY DEF Keys
  <2>2. ASSUME NEW u \in Tasks, KeptFor(tk, ab, d, id, u)
        PROVE  KeptFor(nk, ab, d, id, u) /\ nk[u].asked.of = tk[u].asked.of
    BY <2>2, <1>1 DEF KeptFor
  <2>3. nr[<<d, id>>] # 0 => nr[<<d, id>>] = rn[<<d, id>>] /\ nr[<<d, id>>] \in Tasks
    BY <2>1, <1>1, <1>a
  <2>4. ld[<<d, id>>] # 0 => ld[<<d, id>>] \in Tasks
    BY <2>1, <1>a
  <2>5. /\ rn[<<d, id>>] # 0 => /\ KeptFor(tk, ab, d, id, rn[<<d, id>>])
                                /\ tk[rn[<<d, id>>]].asked.of = Query
        /\ ld[<<d, id>>] # 0 => /\ KeptFor(tk, ab, d, id, ld[<<d, id>>])
                                /\ tk[ld[<<d, id>>]].asked.of # Query
    BY <1>a DEF Held
  <2>6. nr[<<d, id>>] # 0 => /\ KeptFor(nk, ab, d, id, nr[<<d, id>>])
                             /\ nk[nr[<<d, id>>]].asked.of = Query
    BY <2>2, <2>3, <2>5
  <2>7. ld[<<d, id>>] # 0 => /\ KeptFor(nk, ab, d, id, ld[<<d, id>>])
                             /\ nk[ld[<<d, id>>]].asked.of # Query
    BY <2>2, <2>4, <2>5
  <2> QED
    BY <2>6, <2>7
<1>5. Gone(nk, ab)
  BY <1>1, <1>a DEF Gone
<1>6. Reached(nk, ld, ab)
  BY <1>1, <1>a DEF Reached
<1>7. LastRun(ls, nk, nr, l)
  <2> SUFFICES ASSUME NEW u \in Tasks, nk[u].flies, ~nk[u].told, nk[u].asked.of = Query,
                      nk[u].asked.list[2] = l[nk[u].asked.list[1]],
                      Wanted(ls[nk[u].asked.list[1]], nk[u].asked)
               PROVE  nr[<<nk[u].asked.list[1], nk[u].asked.tab>>] = u
    BY DEF LastRun
  <2>1. rn[<<nk[u].asked.list[1], nk[u].asked.tab>>] = u
    BY <1>1, <1>a DEF LastRun
  <2>2. <<nk[u].asked.list[1], nk[u].asked.tab>> \in Keys
    BY <1>3, AskedIsTyped DEF Asks, Keys
  <2>3. <<nk[u].asked.list[1], nk[u].asked.tab>> # key
    BY <2>1, <1>1, <1>b, SMTT(30)
  <2> QED
    BY <2>1, <2>2, <2>3, <1>1
<1>8. LastLoad(ls, nk, ld, l)
  <2> SUFFICES ASSUME NEW d \in Conns, NEW i \in DOMAIN ls[d].items,
                      ls[d].items[i].of # Query, ls[d].items[i].seq > 0,
                      ld[<<d, ls[d].items[i].id>>] # 0
               PROVE  AskedBy(ls[d].items[i], l[d], nk[ld[<<d, ls[d].items[i].id>>]].asked)
    BY DEF LastLoad
  <2>1. ls[d].items[i].id \in Ids
    BY <1>a, TabIsTyped DEF ListsOK
  <2>2. PICK u \in Tasks : u = ld[<<d, ls[d].items[i].id>>]
    BY <2>1, <1>a DEF Keys
  <2>3. AskedBy(ls[d].items[i], l[d], tk[u].asked)
    BY <2>2, <1>a DEF LastLoad
  <2> QED
    BY <2>2, <2>3, <1>1
<1>9. Waited(nk, ab) = Waited(tk, ab)
  BY <1>1 DEF Waited
<1>10. v.inFlight = Cardinality(Waited(nk, ab))
  BY <1>2, <1>9, <1>a
<1>11. WindowOK(v, l, e)
  BY <1>2, <1>3, <1>4, <1>5, <1>6, <1>7, <1>8, <1>10, <1>a DEF WindowOK
<1> QED
  BY <1>11, <1>2 DEF v, ls

-----------------------------------------------------------------------------
(* The handles of a tab are given up, and what they were for is abandoned.  *)

GivenUp(w, key) ==
    Abandon([w EXCEPT !.running[key] = 0, !.loads[key] = 0],
            {w.running[key], w.loads[key]} \ {0})

LEMMA GivenUpKeeps ==
    ASSUME NEW w, NEW l, NEW e, WindowOK(w, l, e), NEW key \in Keys
    PROVE  WindowOK(GivenUp(w, key), l, e) /\ GivenUp(w, key).tabs = w.tabs
<1> DEFINE ls == w.tabs
           tk == w.task
           rn == w.running
           ld == w.loads
           ab == w.abandoned
           os == {rn[key], ld[key]} \ {0}
           nr == [rn EXCEPT ![key] = 0]
           nl == [ld EXCEPT ![key] = 0]
           mid == [w EXCEPT !.running[key] = 0, !.loads[key] = 0]
           v == GivenUp(w, key)
           mk == v.task
<1>a. /\ w \in Windows /\ ListsOK(ls) /\ tk \in [Tasks -> Flights]
      /\ rn \in [Keys -> Tasks \cup {0}] /\ ld \in [Keys -> Tasks \cup {0}]
      /\ ab \in SUBSET Tasks
      /\ Asks(tk, l, e) /\ Held(tk, rn, ld, ab) /\ Gone(tk, ab) /\ Reached(tk, ld, ab)
      /\ Behind(ls, tk, l, e) /\ LastRun(ls, tk, rn, l) /\ LastLoad(ls, tk, ld, l)
      /\ RowsOf(ls, l) /\ Distinct(tk) /\ Unseen(ls, tk) /\ Idle(ls, e)
      /\ w.inFlight = Cardinality(Waited(tk, ab)) /\ w.inFlight \in Nat
  BY DEF WindowOK, Windows
<1>b. v = Abandon(mid, os)
  BY DEF GivenUp
<1>c. os \in SUBSET Tasks
  BY <1>a
<1>1. /\ mid \in Windows /\ mid.running = nr /\ mid.loads = nl
      /\ mid.tabs = ls /\ mid.task = tk /\ mid.abandoned = ab /\ mid.inFlight = w.inFlight
  <2>1. nr \in [Keys -> Tasks \cup {0}] /\ nl \in [Keys -> Tasks \cup {0}]
    BY <1>a
  <2>2. mid = [w EXCEPT !.running = nr, !.loads = nl]
    BY <1>a DEF Windows
  <2> HIDE DEF nr, nl, mid
  <2> QED
    BY <2>1, <2>2, <1>a DEF Windows
<1>2. /\ nr[key] = 0 /\ nl[key] = 0
      /\ \A d \in Keys : d # key => nr[d] = rn[d] /\ nl[d] = ld[d]
  BY <1>a
<1> HIDE DEF mid, v, os, nr, nl, mk
<1>3. /\ v.tabs = mid.tabs /\ v.running = mid.running /\ v.loads = mid.loads
      /\ v.task \in [Tasks -> Flights]
      /\ \A u \in Tasks : /\ v.task[u].asked = mid.task[u].asked
                          /\ v.task[u].flies = mid.task[u].flies
                          /\ v.task[u].told = (mid.task[u].told \/ u \in os)
      /\ v.abandoned = mid.abandoned \cup os
      /\ v.inFlight = Less(mid.inFlight, Cardinality(os))
      /\ v = [tabs |-> v.tabs, task |-> v.task, running |-> v.running,
              loads |-> v.loads, abandoned |-> v.abandoned, inFlight |-> v.inFlight]
  BY <1>b, <1>c, <1>1, AbandonIs
<1>4. /\ v.tabs = ls /\ v.running = nr /\ v.loads = nl
      /\ mk \in [Tasks -> Flights]
      /\ \A u \in Tasks : /\ mk[u].asked = tk[u].asked /\ mk[u].flies = tk[u].flies
                          /\ mk[u].told = (tk[u].told \/ u \in os)
      /\ v.abandoned = ab \cup os
      /\ v.inFlight = Less(w.inFlight, Cardinality(os))
      /\ v = [tabs |-> v.tabs, task |-> v.task, running |-> v.running,
              loads |-> v.loads, abandoned |-> v.abandoned, inFlight |-> v.inFlight]
  BY <1>1, <1>3 DEF mk
<1>5. PICK c \in Conns, id \in Ids : key = <<c, id>>
  BY DEF Keys
<1>6. \A u \in os : u \in Tasks /\ u \in {rn[key], ld[key]} /\ KeptFor(tk, ab, c, id, u)
  BY <1>5, <1>a, <1>c DEF Held, os
<1>7. os \subseteq Waited(tk, ab)
  BY <1>6 DEF KeptFor, Waited
<1> HIDE DEF ls, tk, rn, ld, ab
<1>8. Asks(mk, l, e) /\ Behind(ls, mk, l, e) /\ Distinct(mk) /\ Unseen(ls, mk)
  BY <1>4, <1>a, SameFlights
<1>9. Held(mk, nr, nl, ab \cup os)
  <2> SUFFICES ASSUME NEW d \in Conns, NEW n \in Ids
               PROVE  /\ nr[<<d, n>>] # 0 => /\ KeptFor(mk, ab \cup os, d, n, nr[<<d, n>>])
                                             /\ mk[nr[<<d, n>>]].asked.of = Query
                      /\ nl[<<d, n>>] # 0 => /\ KeptFor(mk, ab \cup os, d, n, nl[<<d, n>>])
                                             /\ mk[nl[<<d, n>>]].asked.of # Query
    BY Zenon DEF Held
  <2>1. <<d, n>> \in Keys
    BY DEF Keys
  <2>2. ASSUME <<d, n>> # key, NEW u \in Tasks, KeptFor(tk, ab, d, n, u)
        PROVE  KeptFor(mk, ab \cup os, d, n, u) /\ mk[u].asked.of = tk[u].asked.of
    <3>1. u \notin os
      BY <2>2, <1>5, <1>6 DEF KeptFor
    <3> QED
      BY <3>1, <2>2, <1>4 DEF KeptFor
  <2>3. nr[<<d, n>>] # 0 => /\ <<d, n>> # key
                            /\ nr[<<d, n>>] = rn[<<d, n>>] /\ rn[<<d, n>>] \in Tasks
    BY <2>1, <1>2, <1>a
  <2>4. nl[<<d, n>>] # 0 => /\ <<d, n>> # key
                            /\ nl[<<d, n>>] = ld[<<d, n>>] /\ ld[<<d, n>>] \in Tasks
    BY <2>1, <1>2, <1>a
  <2>5. /\ rn[<<d, n>>] # 0 => /\ KeptFor(tk, ab, d, n, rn[<<d, n>>])
                               /\ tk[rn[<<d, n>>]].asked.of = Query
        /\ ld[<<d, n>>] # 0 => /\ KeptFor(tk, ab, d, n, ld[<<d, n>>])
                               /\ tk[ld[<<d, n>>]].asked.of # Query
    BY <1>a DEF Held
  <2>6. nr[<<d, n>>] # 0 => /\ KeptFor(mk, ab \cup os, d, n, nr[<<d, n>>])
                            /\ mk[nr[<<d, n>>]].asked.of = Query
    BY <2>2, <2>3, <2>5
  <2>7. nl[<<d, n>>] # 0 => /\ KeptFor(mk, ab \cup os, d, n, nl[<<d, n>>])
                            /\ mk[nl[<<d, n>>]].asked.of # Query
    BY <2>2, <2>4, <2>5
  <2> QED
    BY <2>6, <2>7
<1>10. Gone(mk, ab \cup os)
  <2>1. ASSUME NEW u \in ab
        PROVE  mk[u].flies /\ mk[u].told
    BY <1>4, <1>a DEF Gone
  <2>2. ASSUME NEW u \in os
        PROVE  mk[u].flies /\ mk[u].told
    BY <1>6, <1>4 DEF KeptFor
  <2> QED
    BY <2>1, <2>2 DEF Gone
<1>11. \A u \in Tasks : mk[u].flies => <<mk[u].asked.list[1], mk[u].asked.tab>> \in Keys
  BY <1>8, AskedIsTyped DEF Asks, Keys
<1>12. Reached(mk, nl, ab \cup os)
  <2> SUFFICES ASSUME NEW u \in Tasks, mk[u].flies, u \notin ab, u \notin os,
                      mk[u].asked.of # Query
               PROVE  nl[<<mk[u].asked.list[1], mk[u].asked.tab>>] = u
    BY DEF Reached
  <2>1. ld[<<mk[u].asked.list[1], mk[u].asked.tab>>] = u
    BY <1>4, <1>a DEF Reached
  <2>2. <<mk[u].asked.list[1], mk[u].asked.tab>> # key
    <3>1. u # 0
      BY Bounds DEF Tasks
    <3> QED
      BY <3>1, <2>1 DEF os
  <2> QED
    BY <2>1, <2>2, <1>2, <1>11
<1>13. LastRun(ls, mk, nr, l)
  <2> SUFFICES ASSUME NEW u \in Tasks, mk[u].flies, ~mk[u].told, mk[u].asked.of = Query,
                      mk[u].asked.list[2] = l[mk[u].asked.list[1]],
                      Wanted(ls[mk[u].asked.list[1]], mk[u].asked)
               PROVE  nr[<<mk[u].asked.list[1], mk[u].asked.tab>>] = u
    BY DEF LastRun
  <2>1. rn[<<mk[u].asked.list[1], mk[u].asked.tab>>] = u /\ u \notin os
    BY <1>4, <1>a DEF LastRun
  <2>2. <<mk[u].asked.list[1], mk[u].asked.tab>> # key
    <3>1. u # 0
      BY Bounds, SMTT(30) DEF Tasks
    <3> QED
      BY <3>1, <2>1 DEF os
  <2> QED
    BY <2>1, <2>2, <1>2, <1>11
<1>14. LastLoad(ls, mk, nl, l)
  <2> SUFFICES ASSUME NEW d \in Conns, NEW i \in DOMAIN ls[d].items,
                      ls[d].items[i].of # Query, ls[d].items[i].seq > 0,
                      nl[<<d, ls[d].items[i].id>>] # 0
               PROVE  AskedBy(ls[d].items[i], l[d], mk[nl[<<d, ls[d].items[i].id>>]].asked)
    BY DEF LastLoad
  <2>1. <<d, ls[d].items[i].id>> \in Keys
    BY <1>a, TabIsTyped DEF ListsOK, Keys
  <2>2. PICK u \in Tasks : u = nl[<<d, ls[d].items[i].id>>] /\ u = ld[<<d, ls[d].items[i].id>>]
                           /\ u # 0
    BY <2>1, <1>2, <1>a
  <2>3. AskedBy(ls[d].items[i], l[d], tk[u].asked)
    BY <2>2, <1>a DEF LastLoad
  <2> QED
    BY <2>2, <2>3, <1>4, Zenon
<1>15. v.inFlight = Cardinality(Waited(mk, ab \cup os)) /\ v.inFlight \in Nat
  <2> DEFINE W == Waited(tk, ab)
  <2>1. IsFiniteSet(W) /\ W \cap os = os
    <3>1. W \in SUBSET Tasks /\ IsFiniteSet(Tasks)
      BY Bounds, FS_Interval DEF Waited, Tasks
    <3> QED
      BY <3>1, <1>7, FS_Subset
  <2>2. Waited(mk, ab \cup os) = W \ os
    BY <1>4 DEF Waited
  <2>3. w.inFlight = Cardinality(W) /\ os \subseteq W
    BY <1>7, <1>a
  <2> HIDE DEF W
  <2>4. Cardinality(W \ os) = Cardinality(W) - Cardinality(os)
    BY <2>1, FS_Difference
  <2>5. IsFiniteSet(os) /\ Cardinality(os) <= Cardinality(W)
    BY <2>1, <2>3, FS_Subset
  <2>6. Cardinality(os) \in Nat /\ Cardinality(W) \in Nat
    BY <2>1, <2>5, FS_CardinalityType
  <2> QED
    <3> DEFINE n == w.inFlight
               m == Cardinality(W)
               off == Cardinality(os)
               k == Cardinality(Waited(mk, ab \cup os))
    <3>1. /\ n = m /\ m \in Nat /\ off \in Nat /\ off <= m
          /\ v.inFlight = Less(n, off) /\ k = m - off
      BY <2>2, <2>3, <2>4, <2>5, <2>6, <1>4
    <3> HIDE DEF n, m, off, k
    <3>2. v.inFlight = k /\ k \in Nat
      BY <3>1 DEF Less
    <3> QED
      BY <3>2 DEF k
<1>16. v \in Windows
  <2>1. ls \in [Conns \cup {NoConn} -> TabLists] /\ ab \cup os \in SUBSET Tasks
    BY <1>a, <1>c DEF ListsOK
  <2>2. nr \in [Keys -> Tasks \cup {0}] /\ nl \in [Keys -> Tasks \cup {0}]
    BY <1>1 DEF Windows
  <2> QED
    BY <2>1, <2>2, <1>4, <1>15 DEF Windows, mk
<1>17. WindowOK(v, l, e)
  BY <1>4, <1>8, <1>9, <1>10, <1>12, <1>13, <1>14, <1>15, <1>16, <1>a DEF WindowOK, mk
<1> QED
  BY <1>17, <1>4 DEF v, ls

-----------------------------------------------------------------------------
(* A task comes back.                                                       *)

Ended(w, t) ==
    LET a   == w.task[t].asked
        key == <<a.list[1], a.tab>>
    IN  [w EXCEPT !.task[t] = NoFlight,
                  !.running[key] = IF a.of = Query /\ Holds(@, t) THEN 0 ELSE @,
                  !.loads[key] = IF a.of # Query /\ Holds(@, t) THEN 0 ELSE @]

CountedOut(w, t) ==
    IF t \in w.abandoned THEN [Ended(w, t) EXCEPT !.abandoned = @ \ {t}]
                         ELSE [Ended(w, t) EXCEPT !.inFlight = Less(@, 1)]

LEMMA EndedTyped ==
    ASSUME NEW w, NEW l, NEW e, WindowOK(w, l, e), NEW t \in Tasks, w.task[t].flies
    PROVE  Ended(w, t) \in Windows
<1> DEFINE a == w.task[t].asked
           key == <<a.list[1], a.tab>>
           r0 == IF a.of = Query /\ w.running[key] = t THEN 0 ELSE w.running[key]
           l0 == IF a.of # Query /\ w.loads[key] = t THEN 0 ELSE w.loads[key]
           nk == [w.task EXCEPT ![t] = NoFlight]
           nr == [w.running EXCEPT ![key] = r0]
           nl == [w.loads EXCEPT ![key] = l0]
<1>1. /\ w \in Windows /\ w.task \in [Tasks -> Flights]
      /\ w.running \in [Keys -> Tasks \cup {0}] /\ w.loads \in [Keys -> Tasks \cup {0}]
  BY DEF WindowOK, Windows
<1>2. key \in Keys
  BY AskedIsTyped DEF WindowOK, Asks, Keys
<1>3. NoFlight \in Flights
  BY DEF NoFlight, Flights
<1>4. nk \in [Tasks -> Flights]
  BY <1>1, <1>3
<1>5. nr \in [Keys -> Tasks \cup {0}] /\ nl \in [Keys -> Tasks \cup {0}]
  <2>1. r0 \in Tasks \cup {0} /\ l0 \in Tasks \cup {0}
    BY <1>1, <1>2
  <2> HIDE DEF r0, l0, key
  <2> QED
    BY <2>1, <1>1
<1>6. Ended(w, t) = [w EXCEPT !.task = nk, !.running = nr, !.loads = nl]
  <2>1. Ended(w, t) = [w EXCEPT !.task = [w.task EXCEPT ![t] = NoFlight],
                                !.running = [w.running EXCEPT ![key] = r0],
                                !.loads = [w.loads EXCEPT ![key] = l0]]
    BY <1>1 DEF Ended, Holds, Windows
  <2> QED
    BY <2>1
<1> HIDE DEF nk, nr, nl
<1> QED
  BY <1>1, <1>4, <1>5, <1>6 DEF Windows

LEMMA CountedOutKeeps ==
    ASSUME NEW w, NEW l, NEW e, WindowOK(w, l, e), NEW t \in Tasks, w.task[t].flies
    PROVE  LET v == CountedOut(w, t)
           IN  /\ WindowOK(v, l, e) /\ v.tabs = w.tabs /\ ~v.task[t].flies
               /\ \A u \in Tasks : u # t => v.task[u] = w.task[u]
<1> DEFINE ls == w.tabs
           tk == w.task
           rn == w.running
           ld == w.loads
           ab == w.abandoned
           a == tk[t].asked
           key == <<a.list[1], a.tab>>
           r0 == IF a.of = Query /\ rn[key] = t THEN 0 ELSE rn[key]
           l0 == IF a.of # Query /\ ld[key] = t THEN 0 ELSE ld[key]
           nk == [tk EXCEPT ![t] = NoFlight]
           nr == [rn EXCEPT ![key] = r0]
           nl == [ld EXCEPT ![key] = l0]
           nab == ab \ {t}
           off == IF t \in ab THEN w.inFlight ELSE Less(w.inFlight, 1)
           mid == Ended(w, t)
           v == CountedOut(w, t)
<1>a. /\ w \in Windows /\ ListsOK(ls) /\ tk \in [Tasks -> Flights]
      /\ rn \in [Keys -> Tasks \cup {0}] /\ ld \in [Keys -> Tasks \cup {0}]
      /\ ab \in SUBSET Tasks
      /\ Asks(tk, l, e) /\ Held(tk, rn, ld, ab) /\ Gone(tk, ab) /\ Reached(tk, ld, ab)
      /\ Behind(ls, tk, l, e) /\ LastRun(ls, tk, rn, l) /\ LastLoad(ls, tk, ld, l)
      /\ RowsOf(ls, l) /\ Distinct(tk) /\ Unseen(ls, tk) /\ Idle(ls, e)
      /\ w.inFlight = Cardinality(Waited(tk, ab)) /\ w.inFlight \in Nat
  BY DEF WindowOK, Windows
<1>b. a \in Asked /\ key \in Keys /\ a.list[1] \in Conns /\ a.tab \in Ids
  BY <1>a, AskedIsTyped DEF Asks, Keys
<1>c. NoFlight \in Flights /\ ~NoFlight.flies
  BY DEF NoFlight, Flights
<1>1. /\ nk \in [Tasks -> Flights] /\ nk[t] = NoFlight
      /\ \A u \in Tasks : u # t => nk[u] = tk[u]
      /\ \A u \in Tasks : nk[u].flies => u # t /\ tk[u].flies /\ nk[u] = tk[u]
  BY <1>a, <1>c
<1>2. /\ nr \in [Keys -> Tasks \cup {0}] /\ nl \in [Keys -> Tasks \cup {0}]
      /\ nr[key] = r0 /\ nl[key] = l0
      /\ \A d \in Keys : d # key => nr[d] = rn[d] /\ nl[d] = ld[d]
  <2>1. rn[key] \in Tasks \cup {0} /\ ld[key] \in Tasks \cup {0}
    BY <1>a, <1>b
  <2>2. r0 \in Tasks \cup {0} /\ l0 \in Tasks \cup {0}
    BY <2>1, SMTT(30)
  <2> HIDE DEF r0, l0, key
  <2> QED
    BY <2>2, <1>a, <1>b
<1>3. /\ mid \in Windows /\ mid.tabs = ls /\ mid.task = nk /\ mid.running = nr
      /\ mid.loads = nl /\ mid.abandoned = ab /\ mid.inFlight = w.inFlight
  <2>1. mid = [w EXCEPT !.task = nk, !.running = nr, !.loads = nl]
    <3>1. mid = [w EXCEPT !.task = [w.task EXCEPT ![t] = NoFlight],
                          !.running = [w.running EXCEPT ![key] = r0],
                          !.loads = [w.loads EXCEPT ![key] = l0]]
      BY <1>a DEF Ended, Holds, Windows
    <3> QED
      BY <3>1
  <2> HIDE DEF nk, nr, nl, mid
  <2> QED
    BY <2>1, <1>1, <1>2, <1>a DEF Windows
<1> HIDE DEF mid, nk, nr, nl
<1>4. /\ v \in Windows /\ v.tabs = ls /\ v.task = nk /\ v.running = nr
      /\ v.loads = nl /\ v.abandoned = nab /\ v.inFlight = off
  <2>1. CASE t \in ab
    <3>1. v = [mid EXCEPT !.abandoned = mid.abandoned \ {t}]
      BY <2>1 DEF CountedOut, mid
    <3> HIDE DEF v
    <3> QED
      BY <3>1, <2>1, <1>3, <1>a DEF Windows
  <2>2. CASE t \notin ab
    <3>1. v = [mid EXCEPT !.inFlight = Less(mid.inFlight, 1)]
      BY <2>2 DEF CountedOut, mid
    <3>2. nab = ab
      BY <2>2
    <3>3. Less(w.inFlight, 1) \in Nat
      BY <1>a DEF Less
    <3> HIDE DEF v, nab
    <3> QED
      BY <3>1, <3>2, <3>3, <2>2, <1>3, <1>a DEF Windows
  <2> QED
    BY <2>1, <2>2
<1> HIDE DEF v, ls, tk, rn, ld, ab
<1>5. Asks(nk, l, e)
  BY <1>1, <1>a DEF Asks
<1>6. Behind(ls, nk, l, e)
  BY <1>1, <1>a DEF Behind
<1>7. Distinct(nk)
  BY <1>1, <1>a DEF Distinct
<1>8. Unseen(ls, nk)
  BY <1>1, <1>a DEF Unseen
<1>9. Gone(nk, nab)
  BY <1>1, <1>a DEF Gone
<1>10. \A d \in Keys : /\ nr[d] \in {rn[d], 0} /\ nl[d] \in {ld[d], 0}
                       /\ rn[d] # t => nr[d] = rn[d]
                       /\ ld[d] # t => nl[d] = ld[d]
  BY <1>2
<1>11. t # 0
  BY Bounds DEF Tasks
<1>12. Held(nk, nr, nl, nab)
  <2> SUFFICES ASSUME NEW d \in Conns, NEW n \in Ids
               PROVE  /\ nr[<<d, n>>] # 0 => /\ KeptFor(nk, nab, d, n, nr[<<d, n>>])
                                             /\ nk[nr[<<d, n>>]].asked.of = Query
                      /\ nl[<<d, n>>] # 0 => /\ KeptFor(nk, nab, d, n, nl[<<d, n>>])
                                             /\ nk[nl[<<d, n>>]].asked.of # Query
    BY Zenon DEF Held
  <2>1. <<d, n>> \in Keys
    BY DEF Keys
  <2>2. ASSUME NEW u \in Tasks, KeptFor(tk, ab, d, n, u), u # t
        PROVE  KeptFor(nk, nab, d, n, u) /\ nk[u] = tk[u]
    BY <2>2, <1>1 DEF KeptFor
  <2>3. /\ rn[<<d, n>>] # 0 => /\ KeptFor(tk, ab, d, n, rn[<<d, n>>])
                               /\ tk[rn[<<d, n>>]].asked.of = Query
        /\ ld[<<d, n>>] # 0 => /\ KeptFor(tk, ab, d, n, ld[<<d, n>>])
                               /\ tk[ld[<<d, n>>]].asked.of # Query
    BY <1>a DEF Held
  <2>4. rn[<<d, n>>] = t => nr[<<d, n>>] = 0
    <3> SUFFICES ASSUME rn[<<d, n>>] = t
                 PROVE  nr[<<d, n>>] = 0
      OBVIOUS
    <3>1. a.list[1] = d /\ a.tab = n /\ a.of = Query
      BY <2>3, <1>11 DEF KeptFor
    <3> QED
      BY <3>1, <1>2
  <2>5. ld[<<d, n>>] = t => nl[<<d, n>>] = 0
    <3> SUFFICES ASSUME ld[<<d, n>>] = t
                 PROVE  nl[<<d, n>>] = 0
      OBVIOUS
    <3>1. a.list[1] = d /\ a.tab = n /\ a.of # Query
      BY <2>3, <1>11 DEF KeptFor
    <3> QED
      BY <3>1, <1>2
  <2>6. /\ nr[<<d, n>>] # 0 => /\ nr[<<d, n>>] = rn[<<d, n>>]
                               /\ rn[<<d, n>>] \in Tasks /\ rn[<<d, n>>] # t
        /\ nl[<<d, n>>] # 0 => /\ nl[<<d, n>>] = ld[<<d, n>>]
                               /\ ld[<<d, n>>] \in Tasks /\ ld[<<d, n>>] # t
    BY <2>1, <2>4, <2>5, <1>10, <1>a
  <2> HIDE DEF a
  <2>7. nr[<<d, n>>] # 0 => /\ KeptFor(nk, nab, d, n, nr[<<d, n>>])
                            /\ nk[nr[<<d, n>>]].asked.of = Query
    BY <2>2, <2>3, <2>6
  <2>8. nl[<<d, n>>] # 0 => /\ KeptFor(nk, nab, d, n, nl[<<d, n>>])
                            /\ nk[nl[<<d, n>>]].asked.of # Query
    BY <2>2, <2>3, <2>6
  <2> QED
    BY <2>7, <2>8
<1>13. \A u \in Tasks : nk[u].flies => <<nk[u].asked.list[1], nk[u].asked.tab>> \in Keys
  BY <1>5, AskedIsTyped DEF Asks, Keys
<1>14. Reached(nk, nl, nab)
  <2> SUFFICES ASSUME NEW u \in Tasks, nk[u].flies, u \notin nab, nk[u].asked.of # Query
               PROVE  nl[<<nk[u].asked.list[1], nk[u].asked.tab>>] = u
    BY DEF Reached
  <2>1. u # t /\ tk[u].flies /\ nk[u] = tk[u] /\ u \notin ab
    BY <1>1
  <2>2. ld[<<nk[u].asked.list[1], nk[u].asked.tab>>] = u
    BY <2>1, <1>a DEF Reached
  <2> QED
    BY <2>1, <2>2, <1>10, <1>13
<1>15. LastRun(ls, nk, nr, l)
  <2> SUFFICES ASSUME NEW u \in Tasks, nk[u].flies, ~nk[u].told, nk[u].asked.of = Query,
                      nk[u].asked.list[2] = l[nk[u].asked.list[1]],
                      Wanted(ls[nk[u].asked.list[1]], nk[u].asked)
               PROVE  nr[<<nk[u].asked.list[1], nk[u].asked.tab>>] = u
    BY DEF LastRun
  <2>1. u # t /\ tk[u].flies /\ nk[u] = tk[u]
    BY <1>1
  <2>2. rn[<<nk[u].asked.list[1], nk[u].asked.tab>>] = u
    BY <2>1, <1>a, SMTT(30) DEF LastRun
  <2> QED
    BY <2>1, <2>2, <1>10, <1>13
<1>16. LastLoad(ls, nk, nl, l)
  <2> SUFFICES ASSUME NEW d \in Conns, NEW i \in DOMAIN ls[d].items,
                      ls[d].items[i].of # Query, ls[d].items[i].seq > 0,
                      nl[<<d, ls[d].items[i].id>>] # 0
               PROVE  AskedBy(ls[d].items[i], l[d], nk[nl[<<d, ls[d].items[i].id>>]].asked)
    BY DEF LastLoad
  <2>1. d \in Conns /\ ls[d].items[i].id \in Ids
    BY <1>a, TabIsTyped DEF ListsOK
  <2>2. <<d, ls[d].items[i].id>> \in Keys
    BY <2>1 DEF Keys
  <2>3. PICK u \in Tasks : u = nl[<<d, ls[d].items[i].id>>] /\ u = ld[<<d, ls[d].items[i].id>>]
                           /\ u # 0
    BY <2>2, <1>2, <1>10
  <2>4. KeptFor(nk, nab, d, ls[d].items[i].id, u)
    BY <2>1, <2>3, <1>12 DEF Held
  <2>5. nk[u] = tk[u]
    BY <2>4, <1>1 DEF KeptFor
  <2>6. AskedBy(ls[d].items[i], l[d], tk[u].asked)
    BY <2>3, <1>a DEF LastLoad
  <2> QED
    BY <2>3, <2>5, <2>6
<1>17. v.inFlight = Cardinality(Waited(nk, nab))
  <2> DEFINE W == Waited(tk, ab)
  <2>1. IsFiniteSet(W)
    <3>1. W \in SUBSET Tasks /\ IsFiniteSet(Tasks)
      BY Bounds, FS_Interval DEF Waited, Tasks
    <3> QED
      BY <3>1, FS_Subset
  <2>2. Waited(nk, nab) = W \ {t}
    BY <1>1, <1>c DEF Waited
  <2>3. t \in W <=> t \notin ab
    BY <1>a DEF Waited, tk
  <2>4. w.inFlight = Cardinality(W)
    BY <1>a
  <2> HIDE DEF W
  <2>5. CASE t \in ab
    <3>1. W \ {t} = W
      BY <2>3, <2>5
    <3> QED
      BY <3>1, <2>2, <2>4, <2>5, <1>4
  <2>6. CASE t \notin ab
    <3>1. Cardinality(W \ {t}) = Cardinality(W) - 1 /\ Cardinality(W) \in Nat
      BY <2>1, <2>3, <2>6, FS_RemoveElement, FS_CardinalityType
    <3>2. Cardinality(W) > 0
      BY <2>1, <2>3, <2>6, <3>1, FS_EmptySet
    <3> DEFINE m == Cardinality(W)
               n == w.inFlight
               left == Cardinality(Waited(nk, nab))
    <3>3. n = m /\ left = m - 1 /\ m \in Nat /\ m > 0 /\ v.inFlight = Less(n, 1)
      BY <3>1, <3>2, <2>2, <2>4, <2>6, <1>4
    <3> HIDE DEF m, n, left
    <3>4. v.inFlight = left
      BY <3>3 DEF Less
    <3> QED
      BY <3>4 DEF left
  <2> QED
    BY <2>5, <2>6
<1>18. WindowOK(v, l, e)
  BY <1>4, <1>5, <1>6, <1>7, <1>8, <1>9, <1>12, <1>14, <1>15, <1>16, <1>17, <1>a DEF WindowOK
<1> QED
  BY <1>18, <1>1, <1>4, <1>c DEF v, ls, tk

\* The rows a flight comes back with are shown on the tab they were asked for.
Shown(w, c, k, a) == WithTab(w.tabs[c], [w.tabs[c].items[k] EXCEPT !.rows = a])

LEMMA ShownKeeps ==
    ASSUME NEW w, NEW l, NEW e, WindowOK(w, l, e), NEW c \in Conns,
           NEW k \in DOMAIN w.tabs[c].items, NEW a \in Asked,
           a.list[1] = c, a.tab = w.tabs[c].items[k].id, a.seq = w.tabs[c].items[k].seq,
           w.tabs[c].items[k].of # Query => a.of = w.tabs[c].items[k].of /\ a.list[2] = l[c],
           \A u \in Tasks : w.task[u].flies => ~Same(w.task[u].asked, a)
    PROVE  LET v == [w EXCEPT !.tabs[c] = Shown(w, c, k, a)]
           IN  /\ WindowOK(v, l, e)
               /\ \A d \in Conns \cup {NoConn} : d # c => v.tabs[d] = w.tabs[d]
               /\ DOMAIN v.tabs[c].items = DOMAIN w.tabs[c].items
               /\ v.tabs[c].items[k].rows = a
               /\ v.tabs[c].items[k].id = w.tabs[c].items[k].id
               /\ \A i \in DOMAIN w.tabs[c].items : i # k =>
                     v.tabs[c].items[i] = w.tabs[c].items[i]
<1> DEFINE ls == w.tabs
           tk == w.task
           tab == [w.tabs[c].items[k] EXCEPT !.rows = a]
           ts == Shown(w, c, k, a)
           v == [w EXCEPT !.tabs[c] = Shown(w, c, k, a)]
           ns == v.tabs
<1>a. /\ w \in Windows /\ ListsOK(ls) /\ \A d \in Conns \cup {NoConn} : ListOK(ls[d])
      /\ c \in Conns \cup {NoConn}
      /\ Behind(ls, tk, l, e) /\ LastRun(ls, tk, w.running, l) /\ LastLoad(ls, tk, w.loads, l)
      /\ RowsOf(ls, l) /\ Unseen(ls, tk) /\ Idle(ls, e) /\ Asks(tk, l, e)
  BY DEF WindowOK, ListsOK
<1>b. /\ ListOK(ls[c]) /\ ls[c].items[k] \in Tab
      /\ \A i \in DOMAIN ls[c].items : ls[c].items[i].id = ls[c].items[k].id => i = k
  BY <1>a, TabIsTyped DEF ListOK
<1>c. /\ tab \in Tab /\ tab.id = ls[c].items[k].id /\ tab.of = ls[c].items[k].of
      /\ tab.seq = ls[c].items[k].seq /\ tab.rows = a
  BY <1>b DEF Tab
<1> HIDE DEF tab
<1>1. /\ ListOK(ts) /\ ts.next = ls[c].next /\ DOMAIN ts.items = DOMAIN ls[c].items
      /\ ts.items[k] = tab
      /\ \A i \in DOMAIN ls[c].items : i # k => ts.items[i] = ls[c].items[i]
  <2>1. \E i \in DOMAIN ls[c].items : ls[c].items[i].id = tab.id
    BY <1>c
  <2> DEFINE old == ls[c]
             new == WithTab(old, tab)
  <2>2. /\ ListOK(new) /\ new.next = old.next
        /\ DOMAIN new.items = DOMAIN old.items
        /\ \A i \in DOMAIN old.items :
              /\ old.items[i].id = tab.id => new.items[i] = tab
              /\ old.items[i].id # tab.id => new.items[i] = old.items[i]
    <3>1. ListOK(old) /\ \E i \in DOMAIN old.items : old.items[i].id = tab.id
      BY <2>1, <1>b
    <3> HIDE DEF old
    <3> QED
      BY <3>1, <1>c, WithTabIs
  <2>3. ts = new
    BY DEF Shown, tab
  <2> HIDE DEF new, ts
  <2> QED
    BY <2>2, <2>3, <1>b, <1>c
<1> HIDE DEF ts
<1>2. /\ v \in Windows
      /\ v.task = tk /\ v.running = w.running /\ v.loads = w.loads
      /\ v.abandoned = w.abandoned /\ v.inFlight = w.inFlight
      /\ \A d \in Conns \cup {NoConn} : ns[d] = IF d = c THEN ts ELSE ls[d]
  <2>1. ts \in TabLists
    BY <1>1 DEF ListOK
  <2> QED
    BY <2>1, <1>a, ListSet DEF ts
<1> HIDE DEF v, ns, ls, tk
<1>3. /\ ns[c] = ts /\ \A d \in Conns \cup {NoConn} : d # c => ns[d] = ls[d]
  BY <1>2, <1>a
<1>4. ListsOK(ns)
  <2>1. ns \in [Conns \cup {NoConn} -> TabLists]
    BY <1>2 DEF Windows, ns
  <2> QED
    BY <2>1, <1>1, <1>3, <1>a DEF ListsOK
<1>5. \A d \in Conns \cup {NoConn} :
         /\ ns[d].next = ls[d].next /\ DOMAIN ns[d].items = DOMAIN ls[d].items
         /\ \A i \in DOMAIN ls[d].items :
               /\ ns[d].items[i].id = ls[d].items[i].id
               /\ ns[d].items[i].of = ls[d].items[i].of
               /\ ns[d].items[i].seq = ls[d].items[i].seq
               /\ ns[d].items[i].rows = ls[d].items[i].rows \/ (d = c /\ i = k)
  BY <1>1, <1>3, <1>c
<1>6. \A u \in Tasks : tk[u].flies => tk[u].asked.list[1] \in Conns \cup {NoConn}
  BY <1>a, AskedIsTyped DEF Asks
<1>15. ASSUME NEW d \in Conns \cup {NoConn}, NEW x
       PROVE  /\ NotAhead(ls[d], x) => NotAhead(ns[d], x)
              /\ Wanted(ns[d], x) => Wanted(ls[d], x)
  <2>1. /\ ns[d].next = ls[d].next /\ DOMAIN ns[d].items = DOMAIN ls[d].items
        /\ \A i \in DOMAIN ls[d].items : /\ ns[d].items[i].id = ls[d].items[i].id
                                         /\ ns[d].items[i].seq = ls[d].items[i].seq
    BY <1>5
  <2> QED
    BY <2>1 DEF NotAhead, Wanted
<1>7. Behind(ns, tk, l, e)
  BY <1>6, <1>15, <1>a, Zenon DEF Behind
<1>8. LastRun(ns, tk, w.running, l)
  BY <1>6, <1>15, <1>a, Zenon DEF LastRun
<1>9. LastLoad(ns, tk, w.loads, l)
  <2> SUFFICES ASSUME NEW d \in Conns, NEW i \in DOMAIN ns[d].items,
                      ns[d].items[i].of # Query, ns[d].items[i].seq > 0,
                      w.loads[<<d, ns[d].items[i].id>>] # 0
               PROVE  AskedBy(ns[d].items[i], l[d],
                              tk[w.loads[<<d, ns[d].items[i].id>>]].asked)
    BY DEF LastLoad
  <2>1. i \in DOMAIN ls[d].items /\ ns[d].items[i].id = ls[d].items[i].id
        /\ ns[d].items[i].of = ls[d].items[i].of /\ ns[d].items[i].seq = ls[d].items[i].seq
    BY <1>5, SMTT(30)
  <2>2. AskedBy(ls[d].items[i], l[d], tk[w.loads[<<d, ls[d].items[i].id>>]].asked)
    BY <2>1, <1>a, Zenon DEF LastLoad
  <2> DEFINE q == tk[w.loads[<<d, ls[d].items[i].id>>]].asked
  <2>3. tk[w.loads[<<d, ns[d].items[i].id>>]].asked = q
    BY <2>1, Zenon
  <2>4. q.of = ls[d].items[i].of /\ q.list[2] = l[d] /\ q.seq = ls[d].items[i].seq
    BY <2>2, Zenon DEF AskedBy
  <2> HIDE DEF q
  <2>5. q.of = ns[d].items[i].of /\ q.list[2] = l[d] /\ q.seq = ns[d].items[i].seq
    BY <2>1, <2>4, Zenon
  <2> QED
    BY <2>3, <2>5, Zenon DEF AskedBy
<1>10. ns[c].items[k].rows = a
  BY <1>1, <1>3, <1>c
<1>11. RowsOf(ns, l)
  <2> SUFFICES ASSUME NEW d \in Conns, NEW i \in DOMAIN ns[d].items,
                      ns[d].items[i].rows # NoRows
               PROVE  OwnRows(ns[d].items[i], d, l[d])
    BY DEF RowsOf
  <2>1. CASE d = c /\ i = k
    <3>1. ns[d].items[i] = tab
      BY <2>1, <1>1, <1>3
    <3>2. tab.rows.seq <= tab.seq
      BY <1>c, AskedIsTyped DEF ls
    <3> QED
      BY <3>1, <3>2, <2>1, <1>c DEF OwnRows, ls
  <2>2. CASE ~(d = c /\ i = k)
    <3>1. i \in DOMAIN ls[d].items /\ ns[d].items[i].rows = ls[d].items[i].rows
          /\ ns[d].items[i].id = ls[d].items[i].id
          /\ ns[d].items[i].of = ls[d].items[i].of
          /\ ns[d].items[i].seq = ls[d].items[i].seq
      BY <2>2, <1>5
    <3>2. OwnRows(ls[d].items[i], d, l[d])
      BY <3>1, <1>a DEF RowsOf
    <3> QED
      BY <3>1, <3>2 DEF OwnRows
  <2> QED
    BY <2>1, <2>2
<1>12. Unseen(ns, tk)
  <2> SUFFICES ASSUME NEW d \in Conns, NEW i \in DOMAIN ns[d].items,
                      ns[d].items[i].rows # NoRows, NEW u \in Tasks, tk[u].flies
               PROVE  ~Same(tk[u].asked, ns[d].items[i].rows)
    BY DEF Unseen
  <2>1. CASE d = c /\ i = k
    BY <2>1, <1>10 DEF tk
  <2>2. CASE ~(d = c /\ i = k)
    <3>1. i \in DOMAIN ls[d].items /\ ns[d].items[i].rows = ls[d].items[i].rows
      BY <2>2, <1>5
    <3> QED
      BY <3>1, <1>a DEF Unseen
  <2> QED
    BY <2>1, <2>2
<1>13. Idle(ns, e)
  <2>1. ~IdleTabs(ls[c])
    <3>1. a.seq >= 1 /\ a.seq = ls[c].items[k].seq
      BY AskedIsTyped DEF ls
    <3> QED
      BY <3>1 DEF IdleTabs, ls
  <2> QED
    BY <2>1, <1>3, <1>a DEF Idle
<1>14. WindowOK(v, l, e)
  BY <1>2, <1>4, <1>7, <1>8, <1>9, <1>11, <1>12, <1>13 DEF WindowOK, ns, tk
<1> QED
  BY <1>14, <1>1, <1>3, <1>10, <1>c DEF v, ns, ls, ts

-----------------------------------------------------------------------------
(* The steps.  First, what a handler leaves behind is a window, and which of *)
(* the rows on show were there before.                                       *)

\* What a tab shows after a step it showed before, or it shows nothing.
StillShown(new, old) == \A i \in DOMAIN new.items :
    \/ new.items[i].rows = NoRows
    \/ \E j \in DOMAIN old.items : /\ new.items[i].id = old.items[j].id
                                   /\ new.items[i].rows = old.items[j].rows

NothingNew == \A c \in Conns : StillShown(tabs'[c], tabs[c])

LEMMA BecomesIs ==
    ASSUME NEW w \in Windows, Becomes(w)
    PROVE  Window' = w
BY DEF Becomes, Window, Windows

LEMMA KinShown ==
    ASSUME NEW ts, NEW new, Kin(new, ts)
    PROVE  StillShown(new, ts)
BY DEF Kin, StillShown

LEMMA ItselfShown == \A ts : StillShown(ts, ts)
BY DEF StillShown

LEMMA IdleShown ==
    ASSUME NEW ts, NEW new, IdleTabs(new)
    PROVE  StillShown(new, ts)
BY DEF IdleTabs, StillShown

LEMMA ShownSince ==
    ASSUME NEW a, NEW b, NEW c, StillShown(a, b), StillShown(b, c)
    PROVE  StillShown(a, c)
<1> SUFFICES ASSUME NEW i \in DOMAIN a.items, a.items[i].rows # NoRows
             PROVE  \E j \in DOMAIN c.items : /\ a.items[i].id = c.items[j].id
                                              /\ a.items[i].rows = c.items[j].rows
  BY DEF StillShown
<1>1. PICK k \in DOMAIN b.items : /\ a.items[i].id = b.items[k].id
                                  /\ a.items[i].rows = b.items[k].rows
  BY DEF StillShown
<1>2. PICK j \in DOMAIN c.items : /\ b.items[k].id = c.items[j].id
                                  /\ b.items[k].rows = c.items[j].rows
  BY <1>1 DEF StillShown
<1> QED
  BY <1>1, <1>2

\* A window after a handler's first part, and the one after the load it may end with.
Loaded(w, v, c) ==
    /\ WindowOK(v, list, entry)
    /\ \A d \in Conns \cup {NoConn} : d # c => v.tabs[d] = w.tabs[d]
    /\ StillShown(v.tabs[c], w.tabs[c])

LEMMA BeginShows ==
    ASSUME NEW w, WindowOK(w, list, entry), list \in [Conns -> 0..MaxLists],
           NEW c \in Conns, MayBegin(w, c)
    PROVE  StillShown(WithTab(w.tabs[c], NextLoad(w, c)), w.tabs[c])
<1> DEFINE ts == w.tabs[c]
           tab == NextLoad(w, c)
           k == w.tabs[c].active
           new == WithTab(ts, tab)
<1>1. ListOK(ts) /\ w \in Windows
  BY DEF WindowOK, ListsOK
<1>2. k \in DOMAIN ts.items /\ ts.items[k] \in Tab /\ ActiveTab(ts) = ts.items[k]
      /\ ts.items[k].seq \in Nat /\ ts.items[k].seq < MaxSeq
  BY <1>1, TabIsTyped, SMTT(30) DEF MayBegin, HasActive, ActiveTab
<1>3. tab \in Tab /\ tab.id = ts.items[k].id /\ tab.rows = ts.items[k].rows
  BY <1>2, Bounds DEF NextLoad, Tab
<1> HIDE DEF ts, tab, k
<1>4. \E i \in DOMAIN ts.items : ts.items[i].id = tab.id
  BY <1>2, <1>3
<1>5. /\ DOMAIN new.items = DOMAIN ts.items
      /\ \A i \in DOMAIN ts.items :
            /\ new.items[i].id = ts.items[i].id
            /\ ts.items[i].id = tab.id => new.items[i] = tab
            /\ ts.items[i].id # tab.id => new.items[i] = ts.items[i]
  BY <1>1, <1>3, <1>4, WithTabIs
<1> HIDE DEF new
<1>6. StillShown(new, ts)
  BY <1>2, <1>3, <1>5 DEF StillShown
<1> QED
  BY <1>6 DEF new, ts, tab

LEMMA LoadedTable ==
    ASSUME NEW w, WindowOK(w, list, entry), list \in [Conns -> 0..MaxLists],
           NEW c \in Conns, IsSaved(c), MayBegin(w, c), ActiveTab(w.tabs[c]).of # Query
    PROVE  Loaded(w, LoadTable(w, c), c)
<1> DEFINE v == LoadTable(w, c)
<1>1. /\ WindowOK(v, list, entry)
      /\ v.tabs = [w.tabs EXCEPT ![c] = WithTab(w.tabs[c], NextLoad(w, c))]
  BY LoadTableKeeps
<1>2. w.tabs \in [Conns \cup {NoConn} -> TabLists]
  BY DEF WindowOK, Windows
<1> HIDE DEF v
<1>3. /\ \A d \in Conns \cup {NoConn} : d # c => v.tabs[d] = w.tabs[d]
      /\ v.tabs[c] = WithTab(w.tabs[c], NextLoad(w, c))
  BY <1>1, <1>2
<1>4. StillShown(v.tabs[c], w.tabs[c])
  BY <1>3, BeginShows
<1>5. Loaded(w, v, c)
  BY <1>1, <1>3, <1>4 DEF Loaded
<1> QED
  BY <1>5 DEF v

\* What load_active_table, and load_active_table_if_empty, leave behind.
LEMMA LoadIs ==
    ASSUME NEW w, WindowOK(w, list, entry), list \in [Conns -> 0..MaxLists],
           NEW c, NEW connected, connected => c \in Conns /\ IsSaved(c),
           connected => ActiveTab(w.tabs[c]).of # Query,
           Load(w, c, connected)
    PROVE  Loaded(w, Window', c)
<1>1. CASE connected
  <2>1. MayBegin(w, c) /\ Becomes(LoadTable(w, c))
    BY <1>1 DEF Load
  <2>2. Loaded(w, LoadTable(w, c), c)
    BY <1>1, <2>1, LoadedTable
  <2>3. LoadTable(w, c) \in Windows
    BY <2>2 DEF Loaded, WindowOK
  <2>4. Window' = LoadTable(w, c)
    BY <2>1, <2>3, BecomesIs
  <2> QED
    BY <2>2, <2>4
<1>2. CASE ~connected
  <2>1. Becomes(w) /\ w \in Windows
    BY <1>2 DEF Load, WindowOK
  <2>2. Window' = w
    BY <2>1, BecomesIs
  <2> QED
    BY <2>2, ItselfShown DEF Loaded
<1> QED
  BY <1>1, <1>2

LEMMA LoadIfEmptyIs ==
    ASSUME NEW w, WindowOK(w, list, entry), list \in [Conns -> 0..MaxLists],
           NEW c, NEW connected, connected => c \in Conns /\ IsSaved(c),
           LoadIfEmpty(w, c, connected)
    PROVE  Loaded(w, Window', c)
<1> DEFINE empty == /\ HasActive(w.tabs[c])
                    /\ ActiveTab(w.tabs[c]).of # Query
                    /\ ActiveTab(w.tabs[c]).rows = NoRows
           both == connected /\ empty
<1>1. Load(w, c, both) /\ (both => c \in Conns /\ IsSaved(c))
      /\ (both => ActiveTab(w.tabs[c]).of # Query)
  BY DEF LoadIfEmpty
<1> HIDE DEF both
<1> QED
  BY <1>1, LoadIs

-----------------------------------------------------------------------------
(* A list put away beside the load of another.                              *)

LEMMA LoadCommutes ==
    ASSUME NEW w \in Windows, NEW c \in Conns, NEW ts \in TabLists, NEW d \in Conns, d # c
    PROVE  LET v == [w EXCEPT !.tabs[c] = ts]
           IN  /\ LoadTable(v, d) = [LoadTable(w, d) EXCEPT !.tabs[c] = ts]
               /\ MayBegin(v, d) <=> MayBegin(w, d)
<1> DEFINE v == [w EXCEPT !.tabs[c] = ts]
           tb == w.tabs
           t == Min(FreeTasks(w))
           tab == [ActiveTab(tb[d]) EXCEPT !.seq = ActiveTab(tb[d]).seq + 1]
           ns == WithTab(tb[d], tab)
           f == [asked |-> [of |-> tab.of, list |-> ThisList(d), tab |-> tab.id, seq |-> tab.seq],
                 flies |-> TRUE, told |-> FALSE]
           tk == [w.task EXCEPT ![t] = f]
           key == <<d, ActiveTab(tb[d]).id>>
           ld == [w.loads EXCEPT ![key] = t]
           os == {w.loads[key]} \ {0}
           n == Less(w.inFlight + 1, Cardinality(os))
           After(tabs_) == [tabs |-> tabs_, task |-> Told(tk, os), running |-> w.running,
                            loads |-> ld, abandoned |-> w.abandoned \cup os, inFlight |-> n]
<1>1. tb \in [Conns \cup {NoConn} -> TabLists]
  BY DEF Windows
<1>2. v \in Windows /\ v = [w EXCEPT !.tabs = [tb EXCEPT ![c] = ts]] /\ v.task = w.task
      /\ v.tabs = [tb EXCEPT ![c] = ts] /\ v.loads = w.loads /\ v.inFlight = w.inFlight
      /\ v.running = w.running /\ v.abandoned = w.abandoned /\ v.tabs[d] = tb[d]
  <2>1. v \in Windows
    BY ListSet
  <2> QED
    BY <2>1, <1>1 DEF Windows
<1> HIDE DEF v
<1>3. FreeTasks(v) = FreeTasks(w)
  BY <1>2 DEF FreeTasks
<1>4. MayBegin(v, d) <=> MayBegin(w, d)
  BY <1>2, <1>3 DEF MayBegin
<1>5. ASSUME NEW u \in Windows, u.task = w.task, u.loads = w.loads, u.inFlight = w.inFlight,
             u.running = w.running, u.abandoned = w.abandoned, u.tabs[d] = tb[d]
      PROVE  LoadTable(u, d) = After([u.tabs EXCEPT ![d] = ns])
  <2>1. FreeTasks(u) = FreeTasks(w)
    BY <1>5 DEF FreeTasks
  <2>2. Begin(u, d, t) = [u EXCEPT !.tabs = [u.tabs EXCEPT ![d] = ns], !.task = tk,
                                   !.inFlight = w.inFlight + 1]
    <3>1. Begin(u, d, t) = [u EXCEPT !.tabs = [u.tabs EXCEPT ![d] = WithTab(u.tabs[d], tab)],
                                     !.task = [u.task EXCEPT ![t] = f],
                                     !.inFlight = u.inFlight + 1]
      <4> HIDE DEF t
      <4> QED
        BY <1>5 DEF Begin, Windows
    <3> QED
      BY <3>1, <1>5
  <2>3. LoadTable(u, d) = Abandon([Begin(u, d, t) EXCEPT !.loads[key] = t], os)
    BY <1>5, <2>1 DEF LoadTable
  <2> DEFINE mid == [Begin(u, d, t) EXCEPT !.loads[key] = t]
             new == [u.tabs EXCEPT ![d] = ns]
             more == w.inFlight + 1
  <2> HIDE DEF t, tk, key, new, os, more
  <2>4. mid = [tabs |-> new, task |-> tk, running |-> w.running, loads |-> ld,
               abandoned |-> w.abandoned, inFlight |-> more]
    <3>1. Begin(u, d, t) = [u EXCEPT !.tabs = new, !.task = tk, !.inFlight = more]
      BY <2>2 DEF new, more
    <3>2. Begin(u, d, t) = [tabs |-> new, task |-> tk, running |-> w.running,
                            loads |-> w.loads, abandoned |-> w.abandoned, inFlight |-> more]
      BY <3>1, <1>5 DEF Windows
    <3> QED
      BY <3>2
  <2> HIDE DEF mid, ld
  <2>5. Abandon(mid, os) = [mid EXCEPT !.task = Told(mid.task, os),
                                       !.abandoned = mid.abandoned \cup os,
                                       !.inFlight = Less(mid.inFlight, Cardinality(os))]
    BY <2>4 DEF Abandon
  <2>6. Abandon(mid, os) = [tabs |-> new, task |-> Told(tk, os), running |-> w.running,
                            loads |-> ld, abandoned |-> w.abandoned \cup os,
                            inFlight |-> Less(more, Cardinality(os))]
    BY <2>4, <2>5
  <2> QED
    BY <2>3, <2>6 DEF mid, new, more
<1>6. LoadTable(w, d) = After([tb EXCEPT ![d] = ns])
  BY <1>5
<1>7. LoadTable(v, d) = After([v.tabs EXCEPT ![d] = ns])
  BY <1>2, <1>5
<1> HIDE DEF ns, tk, ld, os, n, tb
<1>8. [After([tb EXCEPT ![d] = ns]) EXCEPT !.tabs[c] = ts]
         = After([[tb EXCEPT ![d] = ns] EXCEPT ![c] = ts])
  OBVIOUS
<1>9. [[tb EXCEPT ![d] = ns] EXCEPT ![c] = ts] = [[tb EXCEPT ![c] = ts] EXCEPT ![d] = ns]
  BY <1>1
<1>10. LoadTable(v, d) = [LoadTable(w, d) EXCEPT !.tabs[c] = ts]
  BY <1>2, <1>6, <1>7, <1>8, <1>9
<1> QED
  BY <1>4, <1>10 DEF v

LEMMA LoadBeside ==
    ASSUME NEW w, WindowOK(w, list, entry), list \in [Conns -> 0..MaxLists],
           NEW c \in Conns, NEW d, d # c, NEW connected, connected => d \in Conns /\ IsSaved(d),
           LoadIfEmpty([w EXCEPT !.tabs[c] = NoTabs], d, connected)
    PROVE  \E u : Loaded(w, u, d) /\ Window' = [u EXCEPT !.tabs[c] = NoTabs]
                  /\ Window' \in Windows
<1> DEFINE v == [w EXCEPT !.tabs[c] = NoTabs]
<1>1. w \in Windows /\ NoTabs \in TabLists /\ c \in Conns \cup {NoConn}
  BY NoTabsOK DEF WindowOK, ListOK
<1>2. v \in Windows /\ \A x \in Conns \cup {NoConn} : x # c => v.tabs[x] = w.tabs[x]
  BY <1>1, ListSet
<1>3. CASE Becomes(v)
  <2>1. Window' = v
    BY <1>2, <1>3, BecomesIs
  <2>2. Loaded(w, w, d)
    BY ItselfShown DEF Loaded
  <2> QED
    BY <2>1, <2>2, <1>2
<1>4. CASE connected /\ MayBegin(v, d) /\ ActiveTab(v.tabs[d]).of # Query
           /\ Becomes(LoadTable(v, d))
  <2>1. d \in Conns /\ IsSaved(d) /\ v.tabs[d] = w.tabs[d]
    BY <1>2, <1>4
  <2>2. MayBegin(w, d) /\ LoadTable(v, d) = [LoadTable(w, d) EXCEPT !.tabs[c] = NoTabs]
    BY <2>1, <1>1, <1>4, LoadCommutes
  <2>3. Loaded(w, LoadTable(w, d), d)
    BY <2>1, <2>2, <1>2, <1>4, LoadedTable
  <2> DEFINE u == LoadTable(w, d)
  <2>4. u \in Windows
    BY <2>3 DEF Loaded, WindowOK
  <2>5. Becomes([u EXCEPT !.tabs[c] = NoTabs])
    BY <2>2, <1>4
  <2> HIDE DEF u
  <2>6. [u EXCEPT !.tabs[c] = NoTabs] \in Windows
    BY <2>4, <1>1, ListSet
  <2>7. Window' = [u EXCEPT !.tabs[c] = NoTabs]
    BY <2>5, <2>6, BecomesIs
  <2> QED
    BY <2>3, <2>6, <2>7 DEF u
<1> HIDE DEF v
<1>5. \/ Becomes(v)
      \/ connected /\ MayBegin(v, d) /\ ActiveTab(v.tabs[d]).of # Query
         /\ Becomes(LoadTable(v, d))
  BY DEF LoadIfEmpty, Load, v
<1> QED
  BY <1>3, <1>4, <1>5

-----------------------------------------------------------------------------
(* The connection bar.                                                      *)

LEMMA OpenWithoutIs ==
    ASSUME open \in Seq(Conns), IsInjective(open), NEW c \in Conns
    PROVE  /\ OpenWithout(c) \in Seq(Conns) /\ IsInjective(OpenWithout(c))
           /\ \A d : d \in ToSet(OpenWithout(c)) <=> d \in ToSet(open) /\ d # c
<1> DEFINE n == Len(open)
           p == PlaceOf(c)
           rest == RemoveAt(open, p)
<1>1. n \in Nat /\ DOMAIN open = 1..n
  BY LenProperties
<1>2. CASE ~IsOpen(c)
  BY <1>2 DEF OpenWithout, IsOpen, ToSet
<1>3. CASE IsOpen(c)
  <2>1. p \in DOMAIN open /\ open[p] = c
    BY <1>3 DEF PlaceOf, IsOpen, ToSet
  <2>2. /\ rest \in Seq(Conns) /\ Len(rest) = n - 1
        /\ \A j \in 1..n - 1 : rest[j] = IF j < p THEN open[j] ELSE open[j + 1]
    BY <2>1, RemoveAtIs
  <2>3. OpenWithout(c) = rest
    BY <1>3 DEF OpenWithout
  <2> HIDE DEF rest, p, n
  <2>4. DOMAIN rest = 1..n - 1
    BY <2>2, LenProperties
  <2>5. \A j \in 1..n - 1 : \E i \in 1..n : /\ i # p /\ rest[j] = open[i]
                                            /\ i = IF j < p THEN j ELSE j + 1
    BY <2>1, <2>2, <1>1
  <2>6. \A i \in 1..n : i # p => \E j \in 1..n - 1 : rest[j] = open[i]
    <3> SUFFICES ASSUME NEW i \in 1..n, i # p
                 PROVE  \E j \in 1..n - 1 : rest[j] = open[i]
      OBVIOUS
    <3>1. CASE i < p
      <4>1. i \in 1..n - 1
        BY <3>1, <2>1, <1>1
      <4> QED
        BY <4>1, <3>1, <2>2
    <3>2. CASE ~(i < p)
      <4>1. i - 1 \in 1..n - 1 /\ ~(i - 1 < p) /\ (i - 1) + 1 = i
        BY <3>2, <2>1, <1>1
      <4> QED
        BY <4>1, <2>2
    <3> QED
      BY <3>1, <3>2
  <2>7. IsInjective(rest)
    <3> SUFFICES ASSUME NEW x \in 1..n - 1, NEW y \in 1..n - 1, rest[x] = rest[y]
                 PROVE  x = y
      BY <2>4 DEF IsInjective
    <3>1. PICK i \in 1..n : rest[x] = open[i] /\ i = IF x < p THEN x ELSE x + 1
      BY <2>5
    <3>2. PICK j \in 1..n : rest[y] = open[j] /\ j = IF y < p THEN y ELSE y + 1
      BY <2>5
    <3>3. i = j
      BY <3>1, <3>2, <1>1 DEF IsInjective
    <3> QED
      BY <3>1, <3>2, <3>3, <2>1, <1>1
  <2>8. \A i \in 1..n : open[i] = c => i = p
    BY <2>1, <1>1 DEF IsInjective
  <2>9. \A d : d \in ToSet(rest) <=> d \in ToSet(open) /\ d # c
    <3>1. \A d : d \in ToSet(rest) <=> \E j \in 1..n - 1 : d = rest[j]
      BY <2>4 DEF ToSet
    <3>2. \A d : d \in ToSet(open) <=> \E i \in 1..n : d = open[i]
      BY <1>1 DEF ToSet
    <3>3. ASSUME NEW d, d \in ToSet(rest)
          PROVE  d \in ToSet(open) /\ d # c
      BY <3>1, <3>2, <3>3, <2>5, <2>8
    <3>4. ASSUME NEW d, d \in ToSet(open), d # c
          PROVE  d \in ToSet(rest)
      BY <3>1, <3>2, <3>4, <2>1, <2>6
    <3> QED
      BY <3>3, <3>4
  <2> QED
    BY <2>2, <2>3, <2>7, <2>9
<1> QED
  BY <1>2, <1>3

LEMMA PromotedIs ==
    ASSUME open \in Seq(Conns), IsInjective(open), NEW c \in Conns
    PROVE  /\ \/ Promoted(c) = NoConn /\ OpenWithout(c) = <<>>
              \/ Promoted(c) \in Conns /\ Promoted(c) \in ToSet(OpenWithout(c))
           /\ Promoted(c) # c
<1> DEFINE rest == OpenWithout(c)
<1>1. rest \in Seq(Conns) /\ \A d : d \in ToSet(rest) <=> d \in ToSet(open) /\ d # c
  BY OpenWithoutIs
<1> HIDE DEF rest
<1>2. Len(rest) \in Nat /\ DOMAIN rest = 1..Len(rest) /\ \A i \in 1..Len(rest) : rest[i] \in Conns
  BY <1>1, LenProperties
<1>3. CASE rest = <<>>
  <2>1. Promoted(c) = NoConn
    BY <1>3 DEF Promoted, rest
  <2>2. Promoted(c) # c
    BY <2>1, NamesAssumption
  <2> QED
    BY <2>1, <2>2, <1>3 DEF rest
<1>4. CASE rest # <<>> /\ PlaceOf(c) \in DOMAIN rest
  <2>1. Promoted(c) = rest[PlaceOf(c)]
    BY <1>4 DEF Promoted, rest
  <2>2. Promoted(c) \in ToSet(rest) /\ Promoted(c) \in Conns
    BY <2>1, <1>2, <1>4 DEF ToSet
  <2> QED
    BY <2>2, <1>1 DEF rest
<1>5. CASE rest # <<>> /\ PlaceOf(c) \notin DOMAIN rest
  <2>1. Promoted(c) = rest[Len(rest)]
    BY <1>5 DEF Promoted, rest, Last
  <2>2. Len(rest) \in DOMAIN rest
    BY <1>1, <1>2, <1>5, EmptySeq
  <2>3. Promoted(c) \in ToSet(rest) /\ Promoted(c) \in Conns
    BY <2>1, <2>2, <1>2 DEF ToSet
  <2> QED
    BY <2>3, <1>1 DEF rest
<1> QED
  BY <1>3, <1>4, <1>5

LEMMA OpenWithIs ==
    ASSUME open \in Seq(Conns), IsInjective(open), NEW c \in Conns, ~IsOpen(c)
    PROVE  /\ Append(open, c) \in Seq(Conns) /\ IsInjective(Append(open, c))
           /\ \A d : d \in ToSet(Append(open, c)) <=> d \in ToSet(open) \/ d = c
<1> DEFINE n == Len(open)
           more == Append(open, c)
<1>1. n \in Nat /\ DOMAIN open = 1..n
  BY LenProperties
<1>2. /\ more \in Seq(Conns) /\ Len(more) = n + 1
      /\ \A i \in 1..n : more[i] = open[i]
      /\ more[n + 1] = c
  BY AppendProperties
<1> HIDE DEF more, n
<1>3. DOMAIN more = 1..n + 1
  BY <1>2, LenProperties
<1>4. \A i \in 1..n : open[i] # c
  BY <1>1 DEF IsOpen, ToSet
<1>5. IsInjective(more)
  <2> SUFFICES ASSUME NEW x \in 1..n + 1, NEW y \in 1..n + 1, more[x] = more[y]
               PROVE  x = y
    BY <1>3 DEF IsInjective
  <2>1. CASE x \in 1..n /\ y \in 1..n
    BY <2>1, <1>1, <1>2 DEF IsInjective
  <2>2. CASE x = n + 1 \/ y = n + 1
    BY <2>2, <1>1, <1>2, <1>4
  <2> QED
    BY <2>1, <2>2, <1>1
<1>6. \A d : d \in ToSet(more) <=> d \in ToSet(open) \/ d = c
  <2>1. 1..n + 1 = 1..n \cup {n + 1}
    BY <1>1
  <2> QED
    BY <2>1, <1>1, <1>2, <1>3 DEF ToSet
<1> QED
  BY <1>2, <1>5, <1>6 DEF more

-----------------------------------------------------------------------------
(* Steps on the tabs in front.                                              *)

Stepped == Fronts' /\ WindowOK(Window', list', entry') /\ NothingNew

LEMMA FrontTabsMove ==
    ASSUME Fronts, UNCHANGED <<entry, front, open, status, dialing, list>>,
           \A d \in Conns : d # front => tabs'[d] = tabs[d]
    PROVE  Fronts'
<1>1. \A c \in Conns : entry[c] = "new" \/ (IsSaved(c) /\ ~IsOpen(c)) => c # front
  BY DEF Fronts
<1>2. \A c \in Conns : entry[c] = "new" \/ (IsSaved(c) /\ ~IsOpen(c)) => tabs'[c] = NoTabs
  BY <1>1 DEF Fronts
<1> QED
  BY <1>2 DEF Fronts, IsSaved, IsOpen

LEMMA FrontLoads ==
    ASSUME IInv, UNCHANGED <<entry, front, open, status, dialing, list>>, NEW w,
           \A d \in Conns \cup {NoConn} : d # front => w.tabs[d] = tabs[d],
           StillShown(w.tabs[front], tabs[front]), Loaded(w, Window', front)
    PROVE  Stepped
<1>1. Window'.tabs = tabs'
  BY DEF Window
<1>2. /\ \A d \in Conns : d # front => tabs'[d] = tabs[d]
      /\ StillShown(tabs'[front], w.tabs[front])
      /\ WindowOK(Window', list, entry)
  BY <1>1 DEF Loaded
<1>3. Fronts'
  BY <1>2, FrontTabsMove DEF IInv
<1>4. StillShown(tabs'[front], tabs[front])
  BY <1>2, ShownSince
<1>5. NothingNew
  BY <1>2, <1>4, ItselfShown DEF NothingNew
<1> QED
  BY <1>2, <1>3, <1>5 DEF Stepped

LEMMA FrontStays ==
    ASSUME IInv, UNCHANGED <<entry, front, open, status, dialing, list>>, NEW w,
           WindowOK(w, list, entry), Becomes(w),
           \A d \in Conns \cup {NoConn} : d # front => w.tabs[d] = tabs[d],
           StillShown(w.tabs[front], tabs[front])
    PROVE  Stepped
<1>1. Window' = w
  BY BecomesIs DEF WindowOK
<1>2. Loaded(w, Window', front)
  BY <1>1, ItselfShown DEF Loaded
<1> QED
  BY <1>2, FrontLoads

LEMMA FrontIs ==
    ASSUME IInv
    PROVE  /\ front \in Conns \cup {NoConn} /\ ListOK(tabs[front])
           /\ WindowOK(Window, list, entry) /\ Window.tabs = tabs /\ Window \in Windows
           /\ list \in [Conns -> 0..MaxLists] /\ NoConn \notin Conns
           /\ Connected(front) => front \in Conns /\ IsSaved(front)
<1>1. Window.tabs = tabs
  BY DEF Window
<1>2. front \in Conns \cup {NoConn} /\ list \in [Conns -> 0..MaxLists]
      /\ (Connected(front) => front \in Conns /\ IsSaved(front))
  BY DEF IInv, Fronts, Connected
<1>3. WindowOK(Window, list, entry)
  BY DEF IInv
<1>4. ListsOK(tabs) /\ Window \in Windows
  BY <1>1, <1>3 DEF WindowOK
<1>5. ListOK(tabs[front])
  BY <1>2, <1>4 DEF ListsOK
<1> QED
  BY <1>1, <1>2, <1>3, <1>4, <1>5, NamesAssumption

\* A part of a handler puts another list of tabs in front, kin to the one before.
LEMMA WindowSet ==
    ASSUME IInv, NEW c \in Conns \cup {NoConn}, NEW ts \in TabLists
    PROVE  LET v == [Window EXCEPT !.tabs[c] = ts]
           IN  /\ v.task = Window.task
               /\ \A d \in Conns \cup {NoConn} : v.tabs[d] = IF d = c THEN ts ELSE tabs[d]
<1>1. ASSUME NEW w \in Windows
      PROVE  /\ [w EXCEPT !.tabs[c] = ts].task = w.task
             /\ \A d \in Conns \cup {NoConn} :
                   [w EXCEPT !.tabs[c] = ts].tabs[d] = IF d = c THEN ts ELSE w.tabs[d]
  BY ListSet
<1> QED
  BY <1>1, FrontIs

LEMMA FrontMoved ==
    ASSUME IInv, NEW w, WindowOK(w, list, entry), w.tabs = tabs,
           NEW ts, ListOK(ts), Kin(ts, tabs[front])
    PROVE  LET v == [w EXCEPT !.tabs[front] = ts]
           IN  /\ WindowOK(v, list, entry) /\ v.tabs[front] = ts
               /\ \A d \in Conns \cup {NoConn} : d # front => v.tabs[d] = tabs[d]
               /\ StillShown(v.tabs[front], tabs[front])
<1> DEFINE v == [w EXCEPT !.tabs[front] = ts]
<1>1. front \in Conns \cup {NoConn} /\ w \in Windows /\ ts \in TabLists
  BY FrontIs DEF WindowOK, ListOK
<1>2. WindowOK(v, list, entry)
  BY <1>1, ListMoved
<1>3. /\ v.tabs[front] = ts
      /\ \A d \in Conns \cup {NoConn} : d # front => v.tabs[d] = tabs[d]
  <2>1. \A d \in Conns \cup {NoConn} : v.tabs[d] = IF d = front THEN ts ELSE w.tabs[d]
    BY <1>1, ListSet
  <2> HIDE DEF v
  <2> QED
    BY <2>1, <1>1
<1> HIDE DEF v
<1>4. StillShown(v.tabs[front], tabs[front])
  BY <1>3, KinShown
<1> QED
  BY <1>2, <1>3, <1>4 DEF v

LEMMA OpenTableSteps ==
    ASSUME IInv, NEW t \in Tables, OpenTable(t)
    PROVE  Stepped
<1> DEFINE ts == FocusOrPush(tabs[front], NewTab(t))
           w == [Window EXCEPT !.tabs[front] = ts]
<1>1. /\ ts.next <= MaxTabs /\ Load(w, front, Connected(front))
      /\ UNCHANGED <<entry, front, open, status, dialing, list>>
  BY DEF OpenTable
<1>2. t \in Tables \cup {Query} /\ t # Query
  BY NamesAssumption
<1>3. ListOK(ts) /\ Kin(ts, tabs[front]) /\ ActiveTab(ts).of = t
  BY <1>1, <1>2, FrontIs, FocusOrPushOK
<1> HIDE DEF ts
<1>4. /\ WindowOK(w, list, entry) /\ w.tabs[front] = ts
      /\ \A d \in Conns \cup {NoConn} : d # front => w.tabs[d] = tabs[d]
      /\ StillShown(w.tabs[front], tabs[front])
  BY <1>3, FrontIs, FrontMoved
<1> HIDE DEF w
<1>5. ActiveTab(w.tabs[front]).of # Query
  BY <1>2, <1>3, <1>4
<1>6. Loaded(w, Window', front)
  BY <1>1, <1>4, <1>5, FrontIs, LoadIs
<1> QED
  BY <1>1, <1>4, <1>6, FrontLoads

LEMMA OpenSqlSteps ==
    ASSUME IInv, OpenSql
    PROVE  Stepped
<1> DEFINE ts == FocusOrPush(tabs[front], NewTab(Query))
           w == [Window EXCEPT !.tabs[front] = ts]
<1>1. /\ ts.next <= MaxTabs /\ Becomes(w)
      /\ UNCHANGED <<entry, front, open, status, dialing, list>>
  BY DEF OpenSql
<1>2. Query \in Tables \cup {Query}
  OBVIOUS
<1>3. ListOK(ts) /\ Kin(ts, tabs[front])
  BY <1>1, <1>2, FrontIs, FocusOrPushOK
<1> HIDE DEF ts
<1>4. /\ WindowOK(w, list, entry)
      /\ \A d \in Conns \cup {NoConn} : d # front => w.tabs[d] = tabs[d]
      /\ StillShown(w.tabs[front], tabs[front])
  BY <1>3, FrontIs, FrontMoved
<1> QED
  BY <1>1, <1>4, FrontStays

LEMMA ActivateTabSteps ==
    ASSUME IInv, NEW i, ActivateTab(i)
    PROVE  Stepped
<1> DEFINE ts == Activated(tabs[front], i)
           w == [Window EXCEPT !.tabs[front] = ts]
<1>1. /\ i \in DOMAIN tabs[front].items
      /\ LoadIfEmpty(w, front, Connected(front))
      /\ UNCHANGED <<entry, front, open, status, dialing, list>>
  BY DEF ActivateTab, Window
<1>2. ListOK(ts) /\ Kin(ts, tabs[front])
  BY <1>1, FrontIs, ActivatedOK
<1> HIDE DEF ts
<1>3. /\ WindowOK(w, list, entry)
      /\ \A d \in Conns \cup {NoConn} : d # front => w.tabs[d] = tabs[d]
      /\ StillShown(w.tabs[front], tabs[front])
  BY <1>2, FrontIs, FrontMoved
<1> HIDE DEF w
<1>4. Loaded(w, Window', front)
  BY <1>1, <1>3, FrontIs, LoadIfEmptyIs
<1> QED
  BY <1>1, <1>3, <1>4, FrontLoads

LEMMA DragTabSteps ==
    ASSUME IInv, NEW from, NEW to, DragTab(from, to)
    PROVE  Stepped
<1> DEFINE ts == Reordered(tabs[front], from, to)
           w == [Window EXCEPT !.tabs[front] = ts]
<1>1. /\ from \in DOMAIN tabs[front].items /\ to \in DOMAIN tabs[front].items
      /\ Becomes(w)
      /\ UNCHANGED <<entry, front, open, status, dialing, list>>
  BY DEF DragTab, Window
<1>2. ListOK(ts) /\ Kin(ts, tabs[front])
  BY <1>1, FrontIs, ReorderedOK
<1> HIDE DEF ts
<1>3. /\ WindowOK(w, list, entry)
      /\ \A d \in Conns \cup {NoConn} : d # front => w.tabs[d] = tabs[d]
      /\ StillShown(w.tabs[front], tabs[front])
  BY <1>2, FrontIs, FrontMoved
<1> QED
  BY <1>1, <1>3, FrontStays

LEMMA AbandonNone ==
    ASSUME NEW w \in Windows
    PROVE  Abandon(w, {}) = w
<1>1. w.task \in [Tasks -> Flights] /\ w.inFlight \in Nat
  BY DEF Windows
<1>2. Told(w.task, {}) = w.task
  <2>1. \A t \in Tasks : [w.task[t] EXCEPT !.told = w.task[t].told \/ t \in {}] = w.task[t]
    <3> SUFFICES ASSUME NEW t \in Tasks
                 PROVE  [w.task[t] EXCEPT !.told = w.task[t].told \/ t \in {}] = w.task[t]
      OBVIOUS
    <3>1. w.task[t] \in Flights
      BY <1>1
    <3>2. (w.task[t].told \/ t \in {}) = w.task[t].told
      BY <3>1 DEF Flights
    <3> QED
      BY <3>1, <3>2 DEF Flights
  <2> QED
    BY <2>1, <1>1 DEF Told
<1>3. Less(w.inFlight, Cardinality({})) = w.inFlight
  BY <1>1, FS_EmptySet DEF Less
<1>4. w.abandoned \cup {} = w.abandoned
  BY SMTT(30)
<1> QED
  BY <1>2, <1>3, <1>4 DEF Abandon, Windows

LEMMA CloseTabSteps ==
    ASSUME IInv, NEW i, CloseTab(i)
    PROVE  Stepped
<1> DEFINE key == <<front, tabs[front].items[i].id>>
           u == IF front = NoConn THEN Window ELSE GivenUp(Window, key)
           ts == CloseAt(tabs[front], i)
           w == [u EXCEPT !.tabs[front] = ts]
<1>1. /\ i \in DOMAIN tabs[front].items
      /\ UNCHANGED <<entry, front, open, status, dialing, list>>
  BY Zenon DEF CloseTab
<1>2. WindowOK(u, list, entry) /\ u.tabs = tabs
  <2>1. CASE front = NoConn
    BY <2>1, FrontIs
  <2>2. CASE front # NoConn
    <3>1. key \in Keys
      BY <1>1, <2>2, FrontIs, TabIsTyped DEF Keys
    <3> HIDE DEF key
    <3> QED
      BY <3>1, <2>2, FrontIs, GivenUpKeeps
  <2> QED
    BY <2>1, <2>2
<1>3. LoadIfEmpty(w, front, Connected(front))
  <2>1. CASE front = NoConn
    <3>1. LoadIfEmpty([Abandon(Window, {}) EXCEPT !.tabs[front] = CloseAt(@, i)],
                      front, Connected(front))
      BY <2>1 DEF CloseTab
    <3>2. Abandon(Window, {}) = Window
      BY FrontIs, AbandonNone, SMTT(30)
    <3>3. LoadIfEmpty([Window EXCEPT !.tabs[front] = CloseAt(@, i)],
                      front, Connected(front))
      BY <3>1, <3>2, SMTT(30)
    <3> QED
      BY <3>3, <2>1, <1>2
  <2>2. CASE front # NoConn
    <3>1. LoadIfEmpty([GivenUp(Window, key) EXCEPT !.tabs[front] = CloseAt(@, i)],
                      front, Connected(front))
      BY <2>2, Zenon DEF CloseTab, GivenUp, Window
    <3> HIDE DEF key
    <3> QED
      BY <3>1, <2>2, <1>2, SMTT(30)
  <2> QED
    BY <2>1, <2>2
<1>4. ListOK(ts) /\ Kin(ts, tabs[front])
  BY <1>1, FrontIs, CloseAtOK
<1> HIDE DEF ts, u
<1>5. /\ WindowOK(w, list, entry)
      /\ \A d \in Conns \cup {NoConn} : d # front => w.tabs[d] = tabs[d]
      /\ StillShown(w.tabs[front], tabs[front])
  BY <1>2, <1>4, FrontMoved
<1> HIDE DEF w
<1>6. Loaded(w, Window', front)
  BY <1>3, <1>5, FrontIs, LoadIfEmptyIs
<1> QED
  BY <1>1, <1>5, <1>6, FrontLoads, SMTT(30)

LEMMA ReloadSteps ==
    ASSUME IInv, Reload
    PROVE  Stepped
<1>1. /\ Connected(front) /\ ActiveTab(Window.tabs[front]).of # Query
      /\ Load(Window, front, TRUE)
      /\ UNCHANGED <<entry, front, open, status, dialing, list>>
  BY FrontIs DEF Reload
<1>2. Loaded(Window, Window', front)
  BY <1>1, FrontIs, LoadIs
<1> QED
  BY <1>1, <1>2, FrontIs, FrontLoads, ItselfShown

LEMMA RunSteps ==
    ASSUME IInv, Run
    PROVE  Stepped
<1> DEFINE t == Min(FreeTasks(Window))
           w == [Begin(Window, front, t) EXCEPT
                   !.running[<<front, ActiveTab(Window.tabs[front]).id>>] = t]
<1>1. /\ Connected(front) /\ MayBegin(Window, front)
      /\ ActiveTab(Window.tabs[front]).of = Query /\ Becomes(w)
      /\ UNCHANGED <<entry, front, open, status, dialing, list>>
  BY FrontIs DEF Run
<1>2. Loads(Window, front, t)
  BY <1>1, FrontIs, MinFree DEF Loads, MayBegin
<1>3. /\ WindowOK(w, list, entry)
      /\ w.tabs = [Window.tabs EXCEPT ![front] =
                     WithTab(Window.tabs[front], NextLoad(Window, front))]
  BY <1>1, <1>2, RunKeeps
<1> HIDE DEF w, t
<1>4. StillShown(WithTab(Window.tabs[front], NextLoad(Window, front)), Window.tabs[front])
  BY <1>1, FrontIs, BeginShows
<1>5. tabs \in [Conns \cup {NoConn} -> TabLists]
  BY FrontIs DEF Windows
<1>6. /\ \A d \in Conns \cup {NoConn} : d # front => w.tabs[d] = tabs[d]
      /\ StillShown(w.tabs[front], tabs[front])
  BY <1>3, <1>4, <1>5, FrontIs
<1> QED
  BY <1>1, <1>3, <1>6, FrontStays

LEMMA StopQuerySteps ==
    ASSUME IInv, StopQuery
    PROVE  Stepped
<1> DEFINE key == <<front, ActiveTab(tabs[front]).id>>
           w == [Window EXCEPT !.task[Window.running[key]].told = TRUE, !.running[key] = 0]
<1>1. /\ front # NoConn /\ HasActive(tabs[front]) /\ Window.running[key] # 0
      /\ Becomes(w)
      /\ UNCHANGED <<entry, front, open, status, dialing, list>>
  BY SMTT(30) DEF StopQuery, Window
<1>2. key \in Keys
  BY <1>1, FrontIs, TabIsTyped, Zenon DEF Keys, HasActive, ActiveTab
<1> HIDE DEF key
<1>3. WindowOK(w, list, entry) /\ w.tabs = tabs
  BY <1>1, <1>2, FrontIs, StopKeeps, Zenon
<1> HIDE DEF w
<1> QED
  BY <1>1, <1>3, FrontStays, ItselfShown

-----------------------------------------------------------------------------
(* An answer lands.                                                         *)

\* Of two tabs, before and after a step: the later rows are not of an earlier question.
NotOlder(new, now) == \/ new = now \/ new = NoRows
                      \/ new.list = now.list => new.seq > now.seq

NothingOlder == \A c \in Conns :
    \A i \in DOMAIN tabs'[c].items : \A j \in DOMAIN tabs[c].items :
        tabs'[c].items[i].id = tabs[c].items[j].id
        => NotOlder(tabs'[c].items[i].rows, tabs[c].items[j].rows)

LEMMA NewIsNotOlder ==
    ASSUME IInv, NothingNew
    PROVE  NothingOlder
<1> SUFFICES ASSUME NEW c \in Conns, NEW i \in DOMAIN tabs'[c].items,
                    NEW j \in DOMAIN tabs[c].items,
                    tabs'[c].items[i].id = tabs[c].items[j].id
             PROVE  NotOlder(tabs'[c].items[i].rows, tabs[c].items[j].rows)
  BY DEF NothingOlder
<1>1. ListOK(tabs[c])
  BY FrontIs DEF WindowOK, ListsOK
<1>2. CASE tabs'[c].items[i].rows = NoRows
  BY <1>2 DEF NotOlder
<1>3. CASE tabs'[c].items[i].rows # NoRows
  <2>1. PICK k \in DOMAIN tabs[c].items :
           /\ tabs'[c].items[i].id = tabs[c].items[k].id
           /\ tabs'[c].items[i].rows = tabs[c].items[k].rows
    BY <1>3 DEF NothingNew, StillShown
  <2>2. k = j
    BY <2>1, <1>1, Zenon DEF ListOK
  <2> QED
    BY <2>1, <2>2 DEF NotOlder
<1> QED
  BY <1>2, <1>3

\* What is needed to show the rows of a flight on the tab in place k.
Fits(t, k) ==
    LET a == task[t].asked
        c == a.list[1]
    IN  /\ task[t].flies /\ t \notin abandoned
        /\ c = front /\ c \in Conns /\ a \in Asked
        /\ k \in DOMAIN tabs[c].items
        /\ a.tab = tabs[c].items[k].id /\ a.seq = tabs[c].items[k].seq
        /\ tabs[c].items[k].of = Query <=> a.of = Query

LandsOn(t, k) == [CountedOut(Window, t) EXCEPT
    !.tabs[front] = Shown(CountedOut(Window, t), front, k, task[t].asked)]

LEMMA LandsIs ==
    ASSUME IInv, NEW t \in Tasks, NEW ok, Lands(t, ok)
    PROVE  \/ Becomes(CountedOut(Window, t))
           \/ \E k : Fits(t, k) /\ Becomes(LandsOn(t, k))
<1> DEFINE a == task[t].asked
           c == a.list[1]
           tab == TabOf(tabs[front], a.tab)
           w == Ended(Window, t)
           v == CountedOut(Window, t)
           shown == /\ ok
                    /\ InFront(c)
                    /\ LoadIsCurrent(front, a.tab, a.seq)
                    /\ tab.of = Query <=> a.of = Query
<1>1. /\ task[t].flies
      /\ Becomes(IF t \in abandoned
                 THEN [w EXCEPT !.abandoned = @ \ {t}]
                 ELSE [w EXCEPT !.inFlight = Less(@, 1),
                                !.tabs[front] = IF shown
                                                THEN WithTab(@, [tab EXCEPT !.rows = a])
                                                ELSE @])
  BY Zenon DEF Lands, Ended, Window
<1>2. /\ v \in Windows /\ v.tabs = tabs /\ w.tabs = tabs
      /\ Window.abandoned = abandoned /\ Window.task = task
  <2>1. Window.task[t].flies /\ Window.abandoned = abandoned /\ Window.task = task
    BY <1>1 DEF Window
  <2>2. v \in Windows /\ v.tabs = Window.tabs
    BY <2>1, FrontIs, CountedOutKeeps DEF WindowOK
  <2>3. w.tabs = Window.tabs
    BY FrontIs DEF Ended, Windows
  <2> QED
    BY <2>1, <2>2, <2>3, FrontIs
<1>3. CASE t \in abandoned
  <2>1. v = [w EXCEPT !.abandoned = @ \ {t}]
    BY <1>2, <1>3 DEF CountedOut
  <2> QED
    BY <2>1, <1>1, <1>3
<1>4. ASSUME t \notin abandoned
      PROVE  v = [w EXCEPT !.inFlight = Less(@, 1)]
  BY <1>2, <1>4 DEF CountedOut
<1> DEFINE ts == WithTab(tabs[front], [tab EXCEPT !.rows = a])
<1> HIDE DEF v, w
<1>5. CASE t \notin abandoned /\ ~shown
  <2>1. Becomes([w EXCEPT !.inFlight = Less(@, 1), !.tabs[front] = @])
    BY <1>1, <1>5
  <2>2. tabs \in [Conns \cup {NoConn} -> TabLists] /\ [tabs EXCEPT ![front] = tabs[front]] = tabs
    BY <1>2 DEF Windows
  <2>3. /\ v.tabs = tabs /\ v.task = w.task /\ v.running = w.running /\ v.loads = w.loads
        /\ v.abandoned = w.abandoned /\ v.inFlight = Less(w.inFlight, 1)
    <3>1. w \in Windows
      BY <1>1, <1>2, FrontIs, EndedTyped DEF w
    <3> QED
      BY <3>1, <1>2, <1>4, <1>5 DEF Windows
  <2>4. Becomes(v)
    BY <2>1, <2>2, <2>3, <1>2 DEF Becomes
  <2> QED
    BY <2>4 DEF v
<1>6. CASE t \notin abandoned /\ shown
  <2>1. Becomes([w EXCEPT !.inFlight = Less(@, 1), !.tabs[front] = ts])
    BY <1>1, <1>2, <1>6
  <2>2. c = front /\ a \in Asked /\ c \in Conns
    <3>1. c = front
      BY <1>6 DEF InFront
    <3>2. a \in Asked
      BY <1>1, <1>2, FrontIs DEF WindowOK, Asks
    <3> QED
      BY <3>1, <3>2, AskedIsTyped
  <2>3. PICK k \in Places(tabs[front], a.tab) : tabs[front].items[k].seq = a.seq
    BY <1>6 DEF LoadIsCurrent
  <2>4. /\ k \in DOMAIN tabs[front].items /\ tabs[front].items[k].id = a.tab
        /\ \A i \in Places(tabs[front], a.tab) : i = k
    BY <2>3, FrontIs DEF Places, ListOK
  <2>5. tab = tabs[front].items[k]
    BY <2>3, <2>4 DEF TabOf
  <2>6. Fits(t, k)
    BY <2>2, <2>3, <2>4, <2>5, <1>1, <1>6 DEF Fits
  <2>7. ts = Shown(v, front, k, a)
    BY <2>5, <1>2 DEF Shown
  <2> HIDE DEF ts, a, c, tab
  <2>8. [w EXCEPT !.inFlight = Less(@, 1), !.tabs[front] = ts] = [v EXCEPT !.tabs[front] = ts]
    <3>1. w \in Windows
      BY <1>1, <1>2, FrontIs, EndedTyped DEF w
    <3>2. v = [w EXCEPT !.inFlight = Less(w.inFlight, 1)]
      BY <1>4, <1>6
    <3> HIDE DEF ts
    <3> QED
      BY <3>1, <3>2 DEF Windows
  <2>9. LandsOn(t, k) = [v EXCEPT !.tabs[front] = ts]
    BY <2>7 DEF LandsOn, v, a
  <2>10. Becomes(LandsOn(t, k))
    BY <2>1, <2>8, <2>9
  <2> QED
    BY <2>6, <2>10
<1> QED
  BY <1>3, <1>5, <1>6, SMTT(30)

LEMMA LandsSteps ==
    ASSUME IInv, NEW t \in Tasks, NEW ok, Lands(t, ok)
    PROVE  Fronts' /\ WindowOK(Window', list', entry') /\ NothingOlder
<1> DEFINE a == task[t].asked
           v == CountedOut(Window, t)
<1>1. task[t].flies /\ UNCHANGED <<entry, front, open, status, dialing, list>>
  BY DEF Lands
<1>2. Window.task = task /\ Window.loads = loads /\ Window.abandoned = abandoned
  BY DEF Window
<1>3. /\ WindowOK(v, list, entry) /\ v.tabs = tabs /\ ~v.task[t].flies
      /\ \A u \in Tasks : u # t => v.task[u] = task[u]
  BY <1>1, <1>2, FrontIs, CountedOutKeeps
<1> HIDE DEF v
<1>4. CASE Becomes(v)
  <2>1. Stepped
    BY <1>1, <1>3, <1>4, FrontStays, ItselfShown
  <2> QED
    BY <2>1, NewIsNotOlder DEF Stepped
<1>5. CASE \E k : Fits(t, k) /\ Becomes(LandsOn(t, k))
  <2>1. PICK k : Fits(t, k) /\ Becomes(LandsOn(t, k))
    BY <1>5
  <2> DEFINE c == front
             tab == tabs[c].items[k]
             u == [v EXCEPT !.tabs[c] = Shown(v, c, k, a)]
  <2>2. /\ t \notin abandoned /\ a.list[1] = c /\ c \in Conns /\ a \in Asked
        /\ k \in DOMAIN tabs[c].items /\ a.tab = tab.id /\ a.seq = tab.seq
        /\ tab.of = Query <=> a.of = Query
    BY <2>1 DEF Fits
  <2>3. u = LandsOn(t, k)
    BY DEF LandsOn, v
  <2>4. /\ Reached(task, loads, abandoned) /\ LastLoad(tabs, task, loads, list)
        /\ Distinct(task) /\ Unseen(tabs, task) /\ RowsOf(tabs, list)
    BY <1>2, FrontIs DEF WindowOK
  <2>5. a.seq \in Nat /\ a.seq >= 1 /\ a.list = <<a.list[1], a.list[2]>>
    BY <2>2, AskedIsTyped
  <2>6. tab.of # Query => a.of = tab.of /\ a.list[2] = list[c]
    <3> SUFFICES ASSUME tab.of # Query
                 PROVE  a.of = tab.of /\ a.list[2] = list[c]
      OBVIOUS
    <3>1. loads[<<c, tab.id>>] = t
      BY <2>2, <2>4, <1>1 DEF Reached
    <3>2. t # 0
      BY Bounds DEF Tasks
    <3>3. AskedBy(tab, list[c], a)
      BY <3>1, <3>2, <2>2, <2>4, <2>5 DEF LastLoad
    <3> QED
      BY <3>3 DEF AskedBy
  <2>7. \A x \in Tasks : v.task[x].flies => ~Same(v.task[x].asked, a)
    BY <2>4, <1>1, <1>3 DEF Distinct
  <2>8. /\ WindowOK(u, list, entry)
        /\ \A d \in Conns \cup {NoConn} : d # c => u.tabs[d] = tabs[d]
        /\ DOMAIN u.tabs[c].items = DOMAIN tabs[c].items
        /\ u.tabs[c].items[k].rows = a
        /\ u.tabs[c].items[k].id = tab.id
        /\ \A i \in DOMAIN tabs[c].items : i # k => u.tabs[c].items[i] = tabs[c].items[i]
    <3> HIDE DEF a, c
    <3>1. c \in Conns /\ k \in DOMAIN v.tabs[c].items /\ a \in Asked
      BY <2>2, <1>3
    <3>2. /\ a.list[1] = c /\ a.tab = v.tabs[c].items[k].id /\ a.seq = v.tabs[c].items[k].seq
          /\ v.tabs[c].items[k].of # Query => a.of = v.tabs[c].items[k].of /\ a.list[2] = list[c]
      BY <2>2, <2>6, <1>3
    <3>a. \A y \in Tasks : v.task[y].flies => ~Same(v.task[y].asked, a)
      BY <2>7
    <3>b. WindowOK(v, list, entry)
      BY <1>3
    <3>3. LET x == [v EXCEPT !.tabs[c] = Shown(v, c, k, a)]
          IN  /\ WindowOK(x, list, entry)
              /\ \A d \in Conns \cup {NoConn} : d # c => x.tabs[d] = v.tabs[d]
              /\ DOMAIN x.tabs[c].items = DOMAIN v.tabs[c].items
              /\ x.tabs[c].items[k].rows = a
              /\ x.tabs[c].items[k].id = v.tabs[c].items[k].id
              /\ \A i \in DOMAIN v.tabs[c].items : i # k =>
                    x.tabs[c].items[i] = v.tabs[c].items[i]
      BY <3>1, <3>2, <3>a, <3>b, ShownKeeps, SMTT(60)
    <3> QED
      BY <3>3, <1>3
  <2> HIDE DEF u
  <2>9. Window' = u /\ tabs' = u.tabs
    <3>1. Becomes(u) /\ u \in Windows
      BY <2>1, <2>3, <2>8 DEF WindowOK
    <3> QED
      BY <3>1, BecomesIs DEF Becomes
  <2>10. Fronts'
    BY <2>8, <2>9, <1>1, FrontTabsMove DEF IInv
  <2>11. WindowOK(Window', list', entry')
    BY <2>8, <2>9, <1>1
  <2>12. NothingOlder
    <3> SUFFICES ASSUME NEW d \in Conns, NEW i \in DOMAIN tabs'[d].items,
                        NEW j \in DOMAIN tabs[d].items,
                        tabs'[d].items[i].id = tabs[d].items[j].id
                 PROVE  NotOlder(tabs'[d].items[i].rows, tabs[d].items[j].rows)
      BY DEF NothingOlder
    <3>1. ListOK(tabs[d])
      BY FrontIs DEF WindowOK, ListsOK
    <3>2. CASE d = c /\ i = k
      <4>1. tabs'[d].items[i].rows = a /\ tabs'[d].items[i].id = tab.id
        BY <3>2, <2>8, <2>9
      <4>2. j = k
        BY <4>1, <3>1, <3>2, <2>2 DEF ListOK
      <4> DEFINE now == tabs[d].items[j].rows
      <4>3. tabs[d].items[j] = tab
        BY <4>2, <3>2
      <4>4. now \in Asked \cup {NoRows}
        BY <3>1, TabIsTyped
      <4>5. CASE now = NoRows
        <5>1. a.list # now.list
          BY <4>5, <2>2, <2>5, NamesAssumption DEF NoRows
        <5> QED
          BY <5>1, <4>1 DEF NotOlder
      <4>6. CASE now # NoRows
        <5>1. OwnRows(tab, c, list[c]) /\ ~Same(a, now)
          BY <4>3, <4>6, <3>2, <2>2, <2>4, <1>1 DEF RowsOf, Unseen
        <5>2. now.seq \in Nat
          BY <4>4, <4>6, AskedIsTyped
        <5>3. now.tab = a.tab /\ now.seq <= a.seq
          BY <5>1, <4>3, <2>2 DEF OwnRows
        <5>4. a.list = now.list => a.seq > now.seq
          BY <5>1, <5>2, <5>3, <2>5 DEF Same
        <5> QED
          BY <5>4, <4>1 DEF NotOlder
      <4> QED
        BY <4>5, <4>6
    <3>3. CASE ~(d = c /\ i = k)
      <4>1. tabs'[d].items[i] = tabs[d].items[i] /\ i \in DOMAIN tabs[d].items
        BY <3>3, <2>8, <2>9
      <4>2. i = j
        BY <4>1, <3>1 DEF ListOK
      <4> QED
        BY <4>1, <4>2 DEF NotOlder
    <3> QED
      BY <3>2, <3>3
  <2> QED
    BY <2>10, <2>11, <2>12
<1> QED
  BY <1>4, <1>5, LandsIs DEF v

-----------------------------------------------------------------------------
(* Steps of connections.                                                    *)

LEMMA FrontsNext ==
    ASSUME entry' \in [Conns -> {"new", "saved", "removed"}],
           front' \in Conns \cup {NoConn},
           open' \in Seq(Conns), IsInjective(open)',
           status' \in [Conns -> Statuses], dialing' \in [Conns -> 0..MaxDials],
           list' \in [Conns -> 0..MaxLists],
           \A d \in ToSet(open)' : d \in Conns /\ entry'[d] = "saved",
           front' = NoConn => open' = <<>>,
           front' \in Conns /\ entry'[front'] = "saved" => front' \in ToSet(open)',
           \A d \in Conns :
              /\ status'[d] # "disconnected" => entry'[d] = "saved"
              /\ status'[d] = "connecting" => dialing'[d] > 0
              /\ entry'[d] = "new" => tabs'[d] = NoTabs /\ dialing'[d] = 0 /\ front' # d
              /\ entry'[d] = "saved" /\ d \notin ToSet(open)' => tabs'[d] = NoTabs
    PROVE  Fronts'
BY DEF Fronts, IsSaved, IsOpen, ToSet

LEMMA FrontsNow ==
    ASSUME Fronts
    PROVE  /\ \A d \in ToSet(open) : d \in Conns /\ entry[d] = "saved"
           /\ front \in Conns /\ entry[front] = "saved" => front \in ToSet(open)
           /\ \A d \in Conns :
                /\ status[d] # "disconnected" => entry[d] = "saved"
                /\ entry[d] = "saved" /\ d \notin ToSet(open) => tabs[d] = NoTabs
BY DEF Fronts, IsSaved, IsOpen, ToSet

LEMMA DialIs ==
    ASSUME Fronts, NEW c \in Conns, Dial(c) \/ UNCHANGED <<status, dialing>>
    PROVE  /\ status' \in [Conns -> Statuses] /\ dialing' \in [Conns -> 0..MaxDials]
           /\ \A d \in Conns :
                /\ status'[d] # "disconnected" => d = c \/ status[d] # "disconnected"
                /\ status'[d] = "connecting" => dialing'[d] > 0
                /\ d # c => dialing'[d] = dialing[d]
<1>1. CASE UNCHANGED <<status, dialing>>
  BY <1>1 DEF Fronts
<1>2. CASE Dial(c)
  <2>1. /\ dialing[c] < MaxDials /\ dialing[c] \in Nat /\ dialing[c] + 1 \in 0..MaxDials
        /\ status' = [status EXCEPT ![c] = "connecting"]
        /\ dialing' = [dialing EXCEPT ![c] = dialing[c] + 1]
    BY <1>2, Bounds DEF Dial, Fronts
  <2>2. /\ status' \in [Conns -> Statuses] /\ dialing' \in [Conns -> 0..MaxDials]
    BY <2>1 DEF Fronts, Statuses
  <2>3. \A d \in Conns :
           /\ d # c => status'[d] = status[d] /\ dialing'[d] = dialing[d]
           /\ d = c => dialing'[d] = dialing[c] + 1
    BY <2>1 DEF Fronts
  <2> QED
    BY <2>1, <2>2, <2>3 DEF Fronts
<1> QED
  BY <1>1, <1>2

LEMMA ActivatesIs ==
    ASSUME Fronts, NEW c \in Conns, Activates(c)
    PROVE  /\ front' = c /\ open' \in Seq(Conns) /\ IsInjective(open)'
           /\ \A d : d \in ToSet(open)' <=> d \in ToSet(open) \/ (d = c /\ entry[c] = "saved")
<1>1. open \in Seq(Conns) /\ IsInjective(open)
  BY DEF Fronts
<1>2. CASE IsOpen(c) \/ ~IsSaved(c)
  <2>1. open' = open /\ front' = c
    BY <1>2 DEF Activates
  <2>2. IsInjective(open)' /\ ToSet(open)' = ToSet(open)
    BY <2>1, <1>1 DEF IsInjective, ToSet
  <2> QED
    BY <2>1, <2>2, <1>1, <1>2 DEF IsOpen, IsSaved
<1>3. CASE ~IsOpen(c) /\ IsSaved(c)
  <2>1. open' = Append(open, c) /\ front' = c
    BY <1>3 DEF Activates
  <2>2. /\ Append(open, c) \in Seq(Conns) /\ IsInjective(Append(open, c))
        /\ \A d : d \in ToSet(Append(open, c)) <=> d \in ToSet(open) \/ d = c
    BY <1>1, <1>3, OpenWithIs
  <2>3. IsInjective(open)' /\ ToSet(open)' = ToSet(Append(open, c))
    BY <2>1, <2>2 DEF IsInjective, ToSet
  <2> QED
    BY <2>1, <2>2, <2>3, <1>3 DEF IsSaved
<1> QED
  BY <1>2, <1>3

LEMMA EditConnectionSteps ==
    ASSUME IInv, NEW c \in Conns, EditConnection(c)
    PROVE  Stepped
<1>1. Dial(c) /\ Becomes(Window) /\ UNCHANGED <<entry, front, open, list>> /\ entry[c] = "saved"
  BY DEF EditConnection, IsSaved
<1>2. Window' = Window /\ tabs' = tabs
  BY <1>1, FrontIs, BecomesIs DEF Becomes
<1>3. NothingNew
  BY <1>2, ItselfShown DEF NothingNew
<1>4. WindowOK(Window', list', entry')
  BY <1>1, <1>2, FrontIs
<1>5. Fronts
  BY DEF IInv
<1>6. IsInjective(open)' /\ ToSet(open)' = ToSet(open)
  BY <1>1, <1>5 DEF Fronts, IsInjective, ToSet
<1>7. Fronts'
  BY <1>1, <1>2, <1>5, <1>6, DialIs, FrontsNow, FrontsNext DEF Fronts
<1> QED
  BY <1>3, <1>4, <1>7 DEF Stepped

LEMMA ConnectFrontSteps ==
    ASSUME IInv, ConnectFront
    PROVE  Stepped
<1>1. /\ Dial(front) /\ Becomes(Window) /\ UNCHANGED <<entry, front, open, list>>
      /\ front \in Conns /\ entry[front] = "saved"
  BY DEF ConnectFront, IsSaved
<1>2. Window' = Window /\ tabs' = tabs
  BY <1>1, FrontIs, BecomesIs DEF Becomes
<1>3. NothingNew
  BY <1>2, ItselfShown DEF NothingNew
<1>4. WindowOK(Window', list', entry')
  BY <1>1, <1>2, FrontIs
<1>5. Fronts
  BY DEF IInv
<1>6. IsInjective(open)' /\ ToSet(open)' = ToSet(open)
  BY <1>1, <1>5 DEF Fronts, IsInjective, ToSet
<1>7. Fronts'
  BY <1>1, <1>2, <1>5, <1>6, DialIs, FrontsNow, FrontsNext DEF Fronts
<1> QED
  BY <1>3, <1>4, <1>7 DEF Stepped

LEMMA ConnectFailsSteps ==
    ASSUME IInv, NEW c \in Conns, ConnectFails(c)
    PROVE  Stepped
<1>1. /\ dialing[c] > 0 /\ Becomes(Window) /\ UNCHANGED <<entry, front, open, list>>
      /\ status' = IF entry[c] = "saved" THEN [status EXCEPT ![c] = "failed"] ELSE status
      /\ dialing' = [dialing EXCEPT ![c] = dialing[c] - 1]
  BY DEF ConnectFails, IsSaved
<1>2. Window' = Window /\ tabs' = tabs
  BY <1>1, FrontIs, BecomesIs DEF Becomes
<1>3. NothingNew
  BY <1>2, ItselfShown DEF NothingNew
<1>4. WindowOK(Window', list', entry')
  BY <1>1, <1>2, FrontIs
<1>5. Fronts
  BY DEF IInv
<1>6. IsInjective(open)' /\ ToSet(open)' = ToSet(open)
  BY <1>1, <1>5 DEF Fronts, IsInjective, ToSet
<1>7. /\ status' \in [Conns -> Statuses] /\ dialing' \in [Conns -> 0..MaxDials]
      /\ \A d \in Conns :
           /\ d # c => status'[d] = status[d] /\ dialing'[d] = dialing[d]
           /\ status'[c] # "connecting" \/ entry[c] # "saved"
           /\ status'[c] # "disconnected" => entry[c] = "saved"
  <2>1. dialing[c] - 1 \in 0..MaxDials
    BY <1>1, <1>5, Bounds DEF Fronts
  <2> QED
    BY <2>1, <1>1, <1>5, FrontsNow DEF Fronts, Statuses
<1>8. entry[c] # "new"
  BY <1>1, <1>5 DEF Fronts
<1>9. \A d \in Conns :
         /\ status'[d] # "disconnected" => entry'[d] = "saved"
         /\ status'[d] = "connecting" => dialing'[d] > 0
         /\ entry'[d] = "new" => tabs'[d] = NoTabs /\ dialing'[d] = 0 /\ front' # d
         /\ entry'[d] = "saved" /\ d \notin ToSet(open)' => tabs'[d] = NoTabs
  <2> SUFFICES ASSUME NEW d \in Conns
               PROVE  /\ status'[d] # "disconnected" => entry'[d] = "saved"
                      /\ status'[d] = "connecting" => dialing'[d] > 0
                      /\ entry'[d] = "new" => tabs'[d] = NoTabs /\ dialing'[d] = 0 /\ front' # d
                      /\ entry'[d] = "saved" /\ d \notin ToSet(open)' => tabs'[d] = NoTabs
    OBVIOUS
  <2>1. CASE d = c
    BY <2>1, <1>1, <1>2, <1>5, <1>6, <1>7, <1>8, FrontsNow
  <2>2. CASE d # c
    BY <2>2, <1>1, <1>2, <1>5, <1>6, <1>7, FrontsNow DEF Fronts
  <2> QED
    BY <2>1, <2>2
<1>10. Fronts'
  BY <1>1, <1>5, <1>6, <1>7, <1>9, FrontsNow, FrontsNext DEF Fronts
<1> QED
  BY <1>3, <1>4, <1>10 DEF Stepped

LEMMA DisconnectSteps ==
    ASSUME IInv, NEW c \in Conns, Disconnect(c)
    PROVE  Stepped
<1> DEFINE ts == Cleared(tabs[c])
           w == [Window EXCEPT !.tabs[c] = ts]
<1>1. /\ entry[c] = "saved" /\ Becomes(w) /\ UNCHANGED <<entry, front, open, dialing, list>>
      /\ status' = [status EXCEPT ![c] = "disconnected"]
  BY DEF Disconnect, IsSaved, Window
<1>2. ListOK(tabs[c]) /\ c \in Conns \cup {NoConn}
  BY FrontIs DEF WindowOK, ListsOK
<1>3. ListOK(ts) /\ Kin(ts, tabs[c])
  BY <1>2, ClearedOK
<1>4. tabs[c] = NoTabs => ts = NoTabs
  BY EmptySeq DEF Cleared, NoTabs
<1> HIDE DEF ts
<1>5. WindowOK(w, list, entry)
  BY <1>2, <1>3, FrontIs, ListMoved
<1>6. \A d \in Conns \cup {NoConn} : w.tabs[d] = IF d = c THEN ts ELSE tabs[d]
  <2>1. ts \in TabLists
    BY <1>3 DEF ListOK
  <2> QED
    BY <2>1, <1>2, WindowSet
<1>7. Window' = w /\ tabs' = w.tabs
  BY <1>1, <1>5, BecomesIs DEF Becomes, WindowOK
<1> HIDE DEF w
<1>8. NothingNew
  <2>1. \A d \in Conns : StillShown(w.tabs[d], tabs[d])
    BY <1>3, <1>6, KinShown, ItselfShown
  <2> QED
    BY <2>1, <1>7 DEF NothingNew
<1>9. WindowOK(Window', list', entry')
  BY <1>1, <1>5, <1>7
<1>10. Fronts
  BY DEF IInv
<1>11. IsInjective(open)' /\ ToSet(open)' = ToSet(open)
  BY <1>1, <1>10 DEF Fronts, IsInjective, ToSet
<1>12. /\ status' \in [Conns -> Statuses] /\ status'[c] = "disconnected"
       /\ \A d \in Conns : d # c => status'[d] = status[d]
  BY <1>1, <1>10 DEF Fronts, Statuses
<1>13. \A d \in Conns : tabs[d] = NoTabs => tabs'[d] = NoTabs
  BY <1>4, <1>6, <1>7
<1>14. Fronts'
  BY <1>1, <1>10, <1>11, <1>12, <1>13, FrontsNow, FrontsNext DEF Fronts
<1> QED
  BY <1>8, <1>9, <1>14 DEF Stepped

LEMMA PutAway ==
    ASSUME IInv
    PROVE  LET w == [Window EXCEPT !.tabs[NoConn] = NoTabs]
           IN  /\ WindowOK(w, list, entry) /\ w.task = task
               /\ w.tabs[NoConn] = NoTabs /\ \A d \in Conns : w.tabs[d] = tabs[d]
<1> DEFINE w == [Window EXCEPT !.tabs[NoConn] = NoTabs]
<1>1. list \in [Conns -> Nat] /\ NoConn \in Conns \cup {NoConn}
  BY FrontIs, Bounds
<1>2. ListOK(NoTabs) /\ IdleTabs(NoTabs) /\ NoTabs \in TabLists
  BY NoTabsOK DEF ListOK
<1>3. WindowOK(w, list, entry)
  BY <1>1, <1>2, FrontIs, ListReplaced
<1>4. /\ w.task = Window.task
      /\ \A d \in Conns \cup {NoConn} :
            w.tabs[d] = IF d = NoConn THEN NoTabs ELSE tabs[d]
  BY <1>1, <1>2, WindowSet
<1> HIDE DEF w
<1>5. w.task = task
  BY <1>4 DEF Window
<1> QED
  BY <1>3, <1>4, <1>5, FrontIs DEF w

LEMMA AddConnectionSteps ==
    ASSUME IInv, NEW c \in Conns, AddConnection(c)
    PROVE  Stepped
<1> DEFINE w == [Window EXCEPT !.tabs[NoConn] = NoTabs]
<1>1. /\ entry[c] = "new" /\ Dial(c) /\ Becomes(w) /\ list' = list
      /\ entry' = [entry EXCEPT ![c] = "saved"]
      /\ front' = c /\ open' = Append(open, c)
  BY DEF AddConnection
<1>2. /\ WindowOK(w, list, entry) /\ w.task = task
      /\ w.tabs[NoConn] = NoTabs /\ \A d \in Conns : w.tabs[d] = tabs[d]
  BY PutAway
<1> HIDE DEF w
<1>3. Fronts
  BY DEF IInv
<1>4. w \in Windows /\ tabs[c] = NoTabs
  BY <1>1, <1>2, <1>3 DEF WindowOK, Fronts
<1>5. Window' = w /\ tabs' = w.tabs
  BY <1>1, <1>4, BecomesIs DEF Becomes
<1>6. entry' \in [Conns -> {"new", "saved", "removed"}] /\ entry'[c] = "saved"
      /\ \A d \in Conns : d # c => entry'[d] = entry[d]
  BY <1>1, <1>3 DEF Fronts
<1>7. WindowOK(w, list, entry')
  <2>1. [w EXCEPT !.tabs[c] = NoTabs] = w
    <3>1. w.tabs \in [Conns \cup {NoConn} -> TabLists] /\ w.tabs[c] = NoTabs
      BY <1>2, <1>4 DEF Windows
    <3>2. [w.tabs EXCEPT ![c] = NoTabs] = w.tabs
      BY <3>1
    <3> QED
      BY <3>2, <1>4 DEF Windows
  <2>2. ListOK(NoTabs) /\ IdleTabs(NoTabs) /\ list \in [Conns -> Nat] /\ c \in Conns \cup {NoConn}
    BY NoTabsOK, FrontIs, Bounds
  <2>3. \A t \in Tasks : w.task[t].flies => w.task[t].asked.list[1] # c
    BY <1>1, <1>2 DEF WindowOK, Asks
  <2>4. c \in Conns => list[c] >= list[c] /\ (entry'[c] = "new" => entry[c] = "new")
    BY <1>6, <2>2
  <2>5. WindowOK([w EXCEPT !.tabs[c] = NoTabs], list, entry')
    BY <2>2, <2>3, <2>4, <1>2, <1>6, ListReplaced, SMTT(30)
  <2> QED
    BY <2>1, <2>5
<1>8. NothingNew
  BY <1>2, <1>5, ItselfShown DEF NothingNew
<1>9. ~IsOpen(c)
  BY <1>1, <1>3, FrontsNow DEF IsOpen
<1>10. /\ open' \in Seq(Conns) /\ IsInjective(open)'
       /\ \A d : d \in ToSet(open)' <=> d \in ToSet(open) \/ d = c
  <2>1. /\ Append(open, c) \in Seq(Conns) /\ IsInjective(Append(open, c))
        /\ \A d : d \in ToSet(Append(open, c)) <=> d \in ToSet(open) \/ d = c
    BY <1>3, <1>9, OpenWithIs DEF Fronts
  <2>2. IsInjective(open)' = IsInjective(Append(open, c)) /\ ToSet(open)' = ToSet(Append(open, c))
    BY <1>1 DEF IsInjective, ToSet
  <2> QED
    BY <2>1, <2>2, <1>1
<1>11. /\ front' \in Conns /\ list' \in [Conns -> 0..MaxLists]
       /\ \A d \in Conns : tabs'[d] = tabs[d]
  BY <1>1, <1>2, <1>3, <1>5 DEF Fronts
<1>12. \A d \in ToSet(open)' : d \in Conns /\ entry'[d] = "saved"
  BY <1>3, <1>6, <1>10, FrontsNow
<1>13. \A d \in Conns :
         /\ status'[d] # "disconnected" => entry'[d] = "saved"
         /\ status'[d] = "connecting" => dialing'[d] > 0
         /\ entry'[d] = "new" => tabs'[d] = NoTabs /\ dialing'[d] = 0 /\ front' # d
         /\ entry'[d] = "saved" /\ d \notin ToSet(open)' => tabs'[d] = NoTabs
  <2> SUFFICES ASSUME NEW d \in Conns
               PROVE  /\ status'[d] # "disconnected" => entry'[d] = "saved"
                      /\ status'[d] = "connecting" => dialing'[d] > 0
                      /\ entry'[d] = "new" => tabs'[d] = NoTabs /\ dialing'[d] = 0 /\ front' # d
                      /\ entry'[d] = "saved" /\ d \notin ToSet(open)' => tabs'[d] = NoTabs
    OBVIOUS
  <2>1. /\ status'[d] # "disconnected" => d = c \/ status[d] # "disconnected"
        /\ status'[d] = "connecting" => dialing'[d] > 0
        /\ d # c => dialing'[d] = dialing[d]
    BY <1>1, <1>3, DialIs
  <2>2. CASE d = c
    BY <2>1, <2>2, <1>6, <1>10
  <2>3. CASE d # c
    BY <2>1, <2>3, <1>1, <1>3, <1>6, <1>10, <1>11, FrontsNow DEF Fronts
  <2> QED
    BY <2>2, <2>3
<1>14. Fronts'
  BY <1>1, <1>3, <1>6, <1>10, <1>11, <1>12, <1>13, NamesAssumption, DialIs, FrontsNext
<1> QED
  BY <1>1, <1>5, <1>7, <1>8, <1>14 DEF Stepped

LEMMA OpenConnectionSteps ==
    ASSUME IInv, NEW c \in Conns, OpenConnection(c)
    PROVE  Stepped
<1> DEFINE w == [Window EXCEPT !.tabs[NoConn] = NoTabs]
<1>1. /\ entry[c] = "saved" /\ Activates(c) /\ UNCHANGED <<entry, list>>
      /\ Dial(c) \/ UNCHANGED <<status, dialing>>
      /\ front = c => Becomes(Window)
      /\ front # c => LoadIfEmpty(w, c, Connected(c))
  BY DEF OpenConnection, IsSaved, ConnectUnlessBusy
<1>2. /\ WindowOK(w, list, entry)
      /\ \A d \in Conns : w.tabs[d] = tabs[d]
  BY PutAway
<1> HIDE DEF w
<1>3. Fronts
  BY DEF IInv
<1>4. /\ WindowOK(Window', list, entry)
      /\ \A d \in Conns : d # c => tabs'[d] = tabs[d]
      /\ StillShown(tabs'[c], tabs[c])
  <2>1. CASE front = c
    <3>1. Window' = Window /\ tabs' = tabs
      BY <2>1, <1>1, FrontIs, BecomesIs DEF Becomes
    <3> QED
      BY <3>1, FrontIs, ItselfShown
  <2>2. CASE front # c
    <3>1. IsSaved(c)
      BY <1>1 DEF IsSaved
    <3>2. Loaded(w, Window', c)
      BY <2>2, <3>1, <1>1, <1>2, FrontIs, LoadIfEmptyIs
    <3>3. Window'.tabs = tabs'
      BY DEF Window
    <3> QED
      BY <3>2, <3>3, <1>2 DEF Loaded
  <2> QED
    BY <2>1, <2>2
<1>5. NothingNew
  BY <1>4, ItselfShown DEF NothingNew
<1>6. /\ front' = c /\ open' \in Seq(Conns) /\ IsInjective(open)'
      /\ \A d : d \in ToSet(open)' <=> d \in ToSet(open) \/ d = c
  BY <1>1, <1>3, ActivatesIs
<1>7. \A d \in Conns :
         /\ status'[d] # "disconnected" => entry'[d] = "saved"
         /\ status'[d] = "connecting" => dialing'[d] > 0
         /\ entry'[d] = "new" => tabs'[d] = NoTabs /\ dialing'[d] = 0 /\ front' # d
         /\ entry'[d] = "saved" /\ d \notin ToSet(open)' => tabs'[d] = NoTabs
  <2> SUFFICES ASSUME NEW d \in Conns
               PROVE  /\ status'[d] # "disconnected" => entry'[d] = "saved"
                      /\ status'[d] = "connecting" => dialing'[d] > 0
                      /\ entry'[d] = "new" => tabs'[d] = NoTabs /\ dialing'[d] = 0 /\ front' # d
                      /\ entry'[d] = "saved" /\ d \notin ToSet(open)' => tabs'[d] = NoTabs
    OBVIOUS
  <2>1. /\ status'[d] # "disconnected" => d = c \/ status[d] # "disconnected"
        /\ status'[d] = "connecting" => dialing'[d] > 0
        /\ d # c => dialing'[d] = dialing[d]
    BY <1>1, <1>3, DialIs
  <2>2. CASE d = c
    BY <2>1, <2>2, <1>1, <1>6
  <2>3. CASE d # c
    BY <2>1, <2>3, <1>1, <1>3, <1>4, <1>6, FrontsNow DEF Fronts
  <2> QED
    BY <2>2, <2>3
<1>8. \A d \in ToSet(open)' : d \in Conns /\ entry'[d] = "saved"
  BY <1>1, <1>3, <1>6, FrontsNow
<1>9. /\ entry' \in [Conns -> {"new", "saved", "removed"}] /\ list' \in [Conns -> 0..MaxLists]
      /\ status' \in [Conns -> Statuses] /\ dialing' \in [Conns -> 0..MaxDials]
  BY <1>1, <1>3, DialIs DEF Fronts
<1>10. Fronts'
  BY <1>6, <1>7, <1>8, <1>9, NamesAssumption, FrontsNext
<1> QED
  BY <1>1, <1>4, <1>5, <1>10 DEF Stepped

LEMMA ConnectSucceedsSteps ==
    ASSUME IInv, NEW c \in Conns, ConnectSucceeds(c)
    PROVE  Stepped
<1>1. /\ dialing[c] > 0 /\ UNCHANGED <<entry, list>>
      /\ status' = IF entry[c] = "saved" THEN [status EXCEPT ![c] = "connected"] ELSE status
      /\ dialing' = [dialing EXCEPT ![c] = dialing[c] - 1]
  BY DEF ConnectSucceeds, IsSaved
<1>2. Fronts
  BY DEF IInv
<1>3. /\ status' \in [Conns -> Statuses] /\ dialing' \in [Conns -> 0..MaxDials]
      /\ entry[c] # "new"
      /\ status'[c] # "connecting" /\ (status'[c] # "disconnected" => entry[c] = "saved")
      /\ \A d \in Conns : d # c => status'[d] = status[d] /\ dialing'[d] = dialing[d]
  <2>1. dialing[c] - 1 \in 0..MaxDials /\ entry[c] # "new"
    BY <1>1, <1>2, Bounds DEF Fronts
  <2>2. status' \in [Conns -> Statuses] /\ dialing' \in [Conns -> 0..MaxDials]
        /\ \A d \in Conns : d # c => status'[d] = status[d] /\ dialing'[d] = dialing[d]
    BY <2>1, <1>1, <1>2 DEF Fronts, Statuses
  <2>3. CASE entry[c] = "saved"
    <3>1. status'[c] = "connected"
      BY <2>3, <1>1, <1>2 DEF Fronts
    <3> QED
      BY <3>1, <2>1, <2>2, <2>3
  <2>4. CASE entry[c] # "saved"
    <3>1. status'[c] = status[c]
      BY <2>4, <1>1
    <3>2. status'[c] = "disconnected"
      BY <3>1, <2>4, <1>2, FrontsNow
    <3> QED
      BY <3>2, <2>1, <2>2
  <2> QED
    BY <2>3, <2>4
<1>4. entry' \in [Conns -> {"new", "saved", "removed"}] /\ list' \in [Conns -> 0..MaxLists]
  BY <1>1, <1>2 DEF Fronts
<1>5. /\ front' \in Conns \cup {NoConn} /\ open' \in Seq(Conns) /\ IsInjective(open)'
      /\ front' = IF front = NoConn THEN c ELSE front
      /\ \A d : d \in ToSet(open)' <=> d \in ToSet(open) \/ (front = NoConn /\ d = c /\ entry[c] = "saved")
      /\ front = NoConn => open = <<>>
      /\ front # NoConn => open' = open
  <2>1. CASE front = NoConn
    <3>1. Activates(c)
      BY <2>1 DEF ConnectSucceeds
    <3> QED
      BY <3>1, <2>1, <1>2, ActivatesIs DEF Fronts
  <2>2. CASE front # NoConn
    <3>1. UNCHANGED <<front, open>>
      BY <2>2 DEF ConnectSucceeds
    <3>2. IsInjective(open)' /\ ToSet(open)' = ToSet(open)
      BY <3>1, <1>2 DEF Fronts, IsInjective, ToSet
    <3> QED
      BY <3>1, <3>2, <2>2, <1>2 DEF Fronts
  <2> QED
    BY <2>1, <2>2
<1>6. /\ WindowOK(Window', list, entry)
      /\ \A d \in Conns : d # c => tabs'[d] = tabs[d]
      /\ StillShown(tabs'[c], tabs[c])
      /\ c # front' => tabs'[c] = tabs[c]
  <2>0. Window'.tabs = tabs'
    BY DEF Window
  <2>1. CASE front = NoConn
    <3> DEFINE w1 == [Window EXCEPT !.tabs[c] = tabs[NoConn]]
               w == [w1 EXCEPT !.tabs[NoConn] = NoTabs]
    <3>1. front' = c
      BY <2>1, <1>5
    <3>2. LoadIfEmpty(w, c, IsSaved(c))
      BY <2>1, <3>1 DEF ConnectSucceeds
    <3>3. ListOK(tabs[NoConn]) /\ IdleTabs(tabs[NoConn]) /\ tabs[NoConn] \in TabLists
      <4>1. ListsOK(tabs) /\ Idle(tabs, entry) /\ NoConn \in Conns \cup {NoConn}
        BY FrontIs DEF WindowOK
      <4> QED
        BY <4>1 DEF ListsOK, Idle, ListOK
    <3>4. list \in [Conns -> Nat] /\ c \in Conns \cup {NoConn} /\ c # NoConn
      BY FrontIs, Bounds
    <3>5. entry[c] = "saved" => \A t \in Tasks : Window.task[t].flies =>
             Window.task[t].asked.list[1] # c \/ Window.task[t].asked.list[2] # list[c]
      <4> SUFFICES ASSUME entry[c] = "saved", NEW t \in Tasks, Window.task[t].flies,
                          Window.task[t].asked.list[1] = c, Window.task[t].asked.list[2] = list[c]
                   PROVE  FALSE
        OBVIOUS
      <4>1. c \notin ToSet(open)
        BY <2>1, <1>5 DEF ToSet
      <4>2. tabs[c] = NoTabs
        BY <4>1, <1>2, FrontsNow
      <4>3. NotAhead(Window.tabs[c], Window.task[t].asked)
        BY FrontIs DEF WindowOK, Behind
      <4>4. Window.task[t].asked.tab \in Nat
        BY FrontIs, AskedIsTyped DEF WindowOK, Asks
      <4> QED
        BY <4>2, <4>3, <4>4, FrontIs DEF NotAhead, NoTabs
    <3>6. WindowOK(w1, list, entry)
      BY <3>3, <3>4, <3>5, FrontIs, ListReplaced, SMTT(30)
    <3>7. \A d \in Conns \cup {NoConn} : w1.tabs[d] = IF d = c THEN tabs[NoConn] ELSE tabs[d]
      BY <3>3, <3>4, WindowSet
    <3> HIDE DEF w1
    <3>8. ListOK(NoTabs) /\ IdleTabs(NoTabs) /\ NoTabs \in TabLists
      BY NoTabsOK DEF ListOK
    <3>9. WindowOK(w, list, entry)
      <4>1. NoConn \in Conns \cup {NoConn} /\ NoConn \notin Conns
        BY NamesAssumption
      <4> QED
        BY <4>1, <3>4, <3>6, <3>8, ListReplaced
    <3>10. \A d \in Conns \cup {NoConn} : w.tabs[d] = IF d = NoConn THEN NoTabs ELSE w1.tabs[d]
      <4>1. w1 \in Windows /\ NoConn \in Conns \cup {NoConn}
        BY <3>6 DEF WindowOK
      <4> QED
        BY <4>1, <3>8, ListSet
    <3> HIDE DEF w
    <3>11. Loaded(w, Window', c)
      BY <3>2, <3>9, FrontIs, LoadIfEmptyIs
    <3>12. w.tabs[c] = tabs[NoConn] /\ \A d \in Conns : d # c => w.tabs[d] = tabs[d]
      BY <3>4, <3>7, <3>10, FrontIs
    <3>13. StillShown(w.tabs[c], tabs[c])
      BY <3>3, <3>12, IdleShown
    <3>14. StillShown(tabs'[c], tabs[c])
      BY <3>11, <3>13, <2>0, ShownSince DEF Loaded
    <3> QED
      BY <3>1, <3>11, <3>12, <3>14, <2>0 DEF Loaded
  <2>2. CASE front # NoConn /\ front = c
    <3>1. LoadIfEmpty(Window, c, IsSaved(c))
      BY <2>2, <1>5 DEF ConnectSucceeds
    <3>2. Loaded(Window, Window', c)
      BY <3>1, FrontIs, LoadIfEmptyIs
    <3> QED
      BY <3>2, <2>0, <2>2, <1>5, FrontIs DEF Loaded
  <2>3. CASE front # NoConn /\ front # c
    <3>1. Becomes(Window)
      BY <2>3, <1>5 DEF ConnectSucceeds
    <3>2. Window' = Window /\ tabs' = tabs
      BY <3>1, FrontIs, BecomesIs DEF Becomes
    <3> QED
      BY <3>2, FrontIs, ItselfShown
  <2> QED
    BY <2>1, <2>2, <2>3
<1>7. NothingNew
  BY <1>6, ItselfShown DEF NothingNew
<1>8. \A d \in Conns :
         /\ status'[d] # "disconnected" => entry'[d] = "saved"
         /\ status'[d] = "connecting" => dialing'[d] > 0
         /\ entry'[d] = "new" => tabs'[d] = NoTabs /\ dialing'[d] = 0 /\ front' # d
         /\ entry'[d] = "saved" /\ d \notin ToSet(open)' => tabs'[d] = NoTabs
  <2> SUFFICES ASSUME NEW d \in Conns
               PROVE  /\ status'[d] # "disconnected" => entry'[d] = "saved"
                      /\ status'[d] = "connecting" => dialing'[d] > 0
                      /\ entry'[d] = "new" => tabs'[d] = NoTabs /\ dialing'[d] = 0 /\ front' # d
                      /\ entry'[d] = "saved" /\ d \notin ToSet(open)' => tabs'[d] = NoTabs
    OBVIOUS
  <2>1. CASE d = c
    <3>1. entry[c] = "saved" /\ c \notin ToSet(open)' => front' # c
      BY <1>2, <1>5, FrontsNow
    <3> QED
      BY <3>1, <2>1, <1>1, <1>2, <1>3, <1>5, <1>6, FrontsNow
  <2>2. CASE d # c
    <3>1. entry[d] = "new" => front' # d
      BY <2>2, <1>2, <1>5 DEF Fronts
    <3> QED
      BY <3>1, <2>2, <1>1, <1>2, <1>3, <1>5, <1>6, FrontsNow DEF Fronts
  <2> QED
    BY <2>1, <2>2
<1>9. \A d \in ToSet(open)' : d \in Conns /\ entry'[d] = "saved"
  BY <1>1, <1>2, <1>5, FrontsNow
<1>10. front' = NoConn => open' = <<>>
  BY <1>5, NamesAssumption
<1>11. front' \in Conns /\ entry'[front'] = "saved" => front' \in ToSet(open)'
  BY <1>1, <1>2, <1>5, FrontsNow
<1>12. Fronts'
  BY <1>3, <1>4, <1>5, <1>8, <1>9, <1>10, <1>11, FrontsNext
<1> QED
  BY <1>1, <1>6, <1>7, <1>12 DEF Stepped

\* The list of a connection is put away for good, and the connection that comes to
\* the front, if this one was there, may load.
TabsDropped(u, c, l, e) == WindowOK([u EXCEPT !.tabs[c] = NoTabs], l, e)

LEMMA TabsDrop ==
    ASSUME list \in [Conns -> Nat], NEW u, WindowOK(u, list, entry), NEW c \in Conns,
           NEW l \in [Conns -> Nat], NEW e,
           \A d \in Conns : d # c => l[d] = list[d] /\ e[d] = entry[d],
           l[c] >= list[c], e[c] # "new",
           e[c] = "saved" =>
              \A t \in Tasks : u.task[t].flies =>
                 u.task[t].asked.list[1] # c \/ u.task[t].asked.list[2] # l[c]
    PROVE  TabsDropped(u, c, l, e)
<1>1. ListOK(NoTabs) /\ IdleTabs(NoTabs) /\ c \in Conns \cup {NoConn}
  BY NoTabsOK
<1>2. Renewed(u, c, list, entry, l, e)
  BY DEF Renewed
<1>3. WindowOK([u EXCEPT !.tabs[c] = NoTabs], l, e)
  BY <1>1, <1>2, ListRenewed
<1> QED
  BY <1>3 DEF TabsDropped

LEMMA ListDropped ==
    ASSUME IInv, NEW c \in Conns,
           front = c => LoadIfEmpty([Window EXCEPT !.tabs[c] = NoTabs],
                                    Promoted(c), Connected(Promoted(c))),
           front # c => Becomes([Window EXCEPT !.tabs[c] = NoTabs]),
           NEW l \in [Conns -> Nat], NEW e,
           \A d \in Conns : d # c => l[d] = list[d] /\ e[d] = entry[d],
           l[c] >= list[c], e[c] # "new", e[c] = "saved" => l[c] > list[c]
    PROVE  /\ WindowOK(Window', l, e) /\ NothingNew /\ tabs'[c] = NoTabs
           /\ \A d \in Conns : d # c /\ d \notin ToSet(OpenWithout(c)) => tabs'[d] = tabs[d]
<1> DEFINE p == Promoted(c)
<1>1. Window'.tabs = tabs' /\ Fronts
  BY DEF Window, IInv
<1>2. /\ p = NoConn \/ p \in ToSet(OpenWithout(c))
      /\ p # c
      /\ Connected(p) => p \in Conns /\ IsSaved(p)
  <2>1. Connected(p) => p \in Conns /\ IsSaved(p)
    BY <1>1 DEF Connected, Fronts
  <2> HIDE DEF p
  <2> QED
    BY <2>1, <1>1, PromotedIs DEF Fronts, p
<1> HIDE DEF p
<1>3. \E u : Loaded(Window, u, p) /\ Window' = [u EXCEPT !.tabs[c] = NoTabs]
  <2>1. CASE front = c
    <3>1. LoadIfEmpty([Window EXCEPT !.tabs[c] = NoTabs], p, Connected(p))
      BY <2>1 DEF p
    <3>2. \E u : Loaded(Window, u, p) /\ Window' = [u EXCEPT !.tabs[c] = NoTabs]
                 /\ Window' \in Windows
      BY <3>1, <1>2, FrontIs, LoadBeside
    <3> QED
      BY <3>2
  <2>2. CASE front # c
    <3>1. Becomes([Window EXCEPT !.tabs[c] = NoTabs])
      BY <2>2
    <3>2. [Window EXCEPT !.tabs[c] = NoTabs] \in Windows
      <4>1. NoTabs \in TabLists /\ c \in Conns \cup {NoConn}
        BY NoTabsOK DEF ListOK
      <4>2. ASSUME NEW w \in Windows
            PROVE  [w EXCEPT !.tabs[c] = NoTabs] \in Windows
        BY <4>1, ListSet
      <4> QED
        BY <4>2, FrontIs
    <3>3. Window' = [Window EXCEPT !.tabs[c] = NoTabs]
      BY <3>1, <3>2, BecomesIs
    <3>4. Loaded(Window, Window, p)
      BY FrontIs, ItselfShown DEF Loaded
    <3> QED
      BY <3>3, <3>4
  <2> QED
    BY <2>1, <2>2
<1>4. PICK u : Loaded(Window, u, p) /\ Window' = [u EXCEPT !.tabs[c] = NoTabs]
  BY <1>3
<1>5. /\ WindowOK(u, list, entry) /\ u \in Windows
      /\ \A d \in Conns \cup {NoConn} : d # p => u.tabs[d] = tabs[d]
      /\ StillShown(u.tabs[p], tabs[p])
  BY <1>4, FrontIs DEF Loaded, WindowOK
<1>6. /\ ListOK(NoTabs) /\ IdleTabs(NoTabs) /\ NoTabs \in TabLists /\ c \in Conns \cup {NoConn}
      /\ list \in [Conns -> Nat] /\ list[c] \in Nat /\ l[c] \in Nat
  BY NoTabsOK, FrontIs, Bounds DEF ListOK
<1>7. e[c] = "saved" => \A t \in Tasks : u.task[t].flies =>
         u.task[t].asked.list[1] # c \/ u.task[t].asked.list[2] # l[c]
  <2> SUFFICES ASSUME e[c] = "saved", NEW t \in Tasks, u.task[t].flies,
                      u.task[t].asked.list[1] = c, u.task[t].asked.list[2] = l[c]
               PROVE  FALSE
    OBVIOUS
  <2>1. u.task[t].asked.list[2] <= list[c]
    BY <1>5 DEF WindowOK, Asks
  <2> QED
    BY <2>1, <1>6
<1>8. WindowOK([u EXCEPT !.tabs[c] = NoTabs], l, e)
  <2>1. WindowOK(u, list, entry)
    BY <1>5
  <2>2. TabsDropped(u, c, l, e)
    BY <1>6, <1>7, <2>1, TabsDrop
  <2> QED
    BY <2>2 DEF TabsDropped
<1>9. \A d \in Conns \cup {NoConn} : tabs'[d] = IF d = c THEN NoTabs ELSE u.tabs[d]
  <2>1. \A d \in Conns \cup {NoConn} :
           [u EXCEPT !.tabs[c] = NoTabs].tabs[d] = IF d = c THEN NoTabs ELSE u.tabs[d]
    BY <1>5, <1>6, ListSet, ZenonT(60)
  <2> QED
    BY <2>1, <1>1, <1>4
<1>10. NothingNew
  BY <1>5, <1>6, <1>9, ItselfShown, IdleShown DEF NothingNew
<1>11. \A d \in Conns : d # c /\ d \notin ToSet(OpenWithout(c)) => tabs'[d] = tabs[d]
  BY <1>2, <1>5, <1>9, NamesAssumption
<1> QED
  BY <1>4, <1>6, <1>8, <1>9, <1>10, <1>11

LEMMA CloseConnectionSteps ==
    ASSUME IInv, NEW c \in Conns, CloseConnection(c)
    PROVE  Stepped
<1>1. /\ IsOpen(c) /\ list[c] < MaxLists
      /\ status' = [status EXCEPT ![c] = "disconnected"]
      /\ open' = OpenWithout(c)
      /\ front' = IF front = c THEN Promoted(c) ELSE front
      /\ list' = [list EXCEPT ![c] = list[c] + 1]
      /\ front = c => LoadIfEmpty([Window EXCEPT !.tabs[c] = NoTabs],
                                  Promoted(c), Connected(Promoted(c)))
      /\ front # c => Becomes([Window EXCEPT !.tabs[c] = NoTabs])
      /\ UNCHANGED <<entry, dialing>>
  BY DEF CloseConnection
<1>2. Fronts
  BY DEF IInv
<1>3. entry[c] = "saved"
  BY <1>1, <1>2, FrontsNow DEF IsOpen
<1>4. /\ list' \in [Conns -> 0..MaxLists] /\ list' \in [Conns -> Nat]
      /\ list'[c] >= list[c] /\ list'[c] > list[c]
      /\ \A d \in Conns : d # c => list'[d] = list[d]
  <2>1. list[c] \in Nat /\ list[c] + 1 \in 0..MaxLists
    BY <1>1, <1>2, Bounds, SMTT(30) DEF Fronts
  <2>2. list' \in [Conns -> 0..MaxLists] /\ list'[c] = list[c] + 1
        /\ \A d \in Conns : d # c => list'[d] = list[d]
    BY <2>1, <1>1, <1>2 DEF Fronts
  <2> QED
    BY <2>1, <2>2, Bounds
<1>5. /\ WindowOK(Window', list', entry') /\ NothingNew /\ tabs'[c] = NoTabs
      /\ \A d \in Conns : d # c /\ d \notin ToSet(OpenWithout(c)) => tabs'[d] = tabs[d]
  <2>1. /\ \A d \in Conns : d # c => list'[d] = list[d] /\ entry'[d] = entry[d]
        /\ entry'[c] # "new" /\ (entry'[c] = "saved" => list'[c] > list[c])
    BY <1>1, <1>3, <1>4
  <2> QED
    BY <2>1, <1>1, <1>4, ListDropped, ZenonT(60)
<1>6. /\ open' \in Seq(Conns) /\ IsInjective(open)'
      /\ \A d : d \in ToSet(open)' <=> d \in ToSet(open) /\ d # c
      /\ ToSet(open)' = ToSet(OpenWithout(c))
  <2>1. /\ OpenWithout(c) \in Seq(Conns) /\ IsInjective(OpenWithout(c))
        /\ \A d : d \in ToSet(OpenWithout(c)) <=> d \in ToSet(open) /\ d # c
    BY <1>2, OpenWithoutIs DEF Fronts
  <2>2. IsInjective(open)' = IsInjective(OpenWithout(c)) /\ ToSet(open)' = ToSet(OpenWithout(c))
    BY <1>1 DEF IsInjective, ToSet
  <2> QED
    BY <2>1, <2>2, <1>1
<1>7. /\ \/ Promoted(c) = NoConn /\ OpenWithout(c) = <<>>
         \/ Promoted(c) \in Conns /\ Promoted(c) \in ToSet(OpenWithout(c))
  BY <1>2, PromotedIs DEF Fronts
<1>8. /\ front' \in Conns \cup {NoConn}
      /\ front' = NoConn => open' = <<>>
      /\ front' \in Conns /\ entry'[front'] = "saved" => front' \in ToSet(open)'
  <2>1. CASE front = c
    BY <2>1, <1>1, <1>6, <1>7, NamesAssumption
  <2>2. CASE front # c
    <3>1. front # NoConn
      BY <1>1, <1>2 DEF IsOpen, ToSet, Fronts
    <3> QED
      BY <3>1, <2>2, <1>1, <1>2, <1>6, FrontsNow DEF Fronts
  <2> QED
    BY <2>1, <2>2
<1>9. /\ status' \in [Conns -> Statuses] /\ status'[c] = "disconnected"
      /\ \A d \in Conns : d # c => status'[d] = status[d]
  BY <1>1, <1>2 DEF Fronts, Statuses
<1>10. \A d \in Conns :
         /\ status'[d] # "disconnected" => entry'[d] = "saved"
         /\ status'[d] = "connecting" => dialing'[d] > 0
         /\ entry'[d] = "new" => tabs'[d] = NoTabs /\ dialing'[d] = 0 /\ front' # d
         /\ entry'[d] = "saved" /\ d \notin ToSet(open)' => tabs'[d] = NoTabs
  <2> SUFFICES ASSUME NEW d \in Conns
               PROVE  /\ status'[d] # "disconnected" => entry'[d] = "saved"
                      /\ status'[d] = "connecting" => dialing'[d] > 0
                      /\ entry'[d] = "new" => tabs'[d] = NoTabs /\ dialing'[d] = 0 /\ front' # d
                      /\ entry'[d] = "saved" /\ d \notin ToSet(open)' => tabs'[d] = NoTabs
    OBVIOUS
  <2>1. CASE d = c
    BY <2>1, <1>1, <1>3, <1>5, <1>9
  <2>2. CASE d # c
    <3>1. entry[d] = "new" => d \notin ToSet(open)
      BY <1>2, FrontsNow
    <3>2. d \notin ToSet(OpenWithout(c)) => tabs'[d] = tabs[d]
      BY <2>2, <1>5
    <3>3. entry[d] = "new" => front' # d
      BY <3>1, <1>1, <1>2, <1>6, <1>7, NamesAssumption DEF Fronts
    <3> QED
      BY <3>1, <3>2, <3>3, <2>2, <1>1, <1>2, <1>6, <1>9, FrontsNow DEF Fronts
  <2> QED
    BY <2>1, <2>2
<1>11. \A d \in ToSet(open)' : d \in Conns /\ entry'[d] = "saved"
  BY <1>1, <1>2, <1>6, FrontsNow
<1>12. entry' \in [Conns -> {"new", "saved", "removed"}] /\ dialing' \in [Conns -> 0..MaxDials]
  BY <1>1, <1>2 DEF Fronts
<1>13. Fronts'
  BY <1>4, <1>6, <1>8, <1>9, <1>10, <1>11, <1>12, FrontsNext
<1> QED
  BY <1>5, <1>13 DEF Stepped

LEMMA RemoveConnectionSteps ==
    ASSUME IInv, NEW c \in Conns, RemoveConnection(c)
    PROVE  Stepped
<1>1. /\ entry[c] = "saved" /\ entry' = [entry EXCEPT ![c] = "removed"]
      /\ status' = [status EXCEPT ![c] = "disconnected"]
      /\ open' = OpenWithout(c)
      /\ front' = IF front = c THEN Promoted(c) ELSE front
      /\ front = c => LoadIfEmpty([Window EXCEPT !.tabs[c] = NoTabs],
                                  Promoted(c), Connected(Promoted(c)))
      /\ front # c => Becomes([Window EXCEPT !.tabs[c] = NoTabs])
      /\ UNCHANGED <<dialing, list>>
  BY DEF RemoveConnection, IsSaved
<1>2. Fronts
  BY DEF IInv
<1>3. /\ entry' \in [Conns -> {"new", "saved", "removed"}] /\ entry'[c] = "removed"
      /\ \A d \in Conns : d # c => entry'[d] = entry[d]
  BY <1>1, <1>2 DEF Fronts
<1>4. /\ list' \in [Conns -> 0..MaxLists] /\ list' \in [Conns -> Nat] /\ list'[c] >= list[c]
  BY <1>1, <1>2, Bounds DEF Fronts
<1>5. /\ WindowOK(Window', list', entry') /\ NothingNew /\ tabs'[c] = NoTabs
      /\ \A d \in Conns : d # c /\ d \notin ToSet(OpenWithout(c)) => tabs'[d] = tabs[d]
  <2>1. /\ \A d \in Conns : d # c => list'[d] = list[d] /\ entry'[d] = entry[d]
        /\ entry'[c] # "new" /\ (entry'[c] = "saved" => list'[c] > list[c])
    BY <1>1, <1>3
  <2> QED
    BY <2>1, <1>1, <1>4, ListDropped, ZenonT(60)
<1>6. /\ open' \in Seq(Conns) /\ IsInjective(open)'
      /\ \A d : d \in ToSet(open)' <=> d \in ToSet(open) /\ d # c
      /\ ToSet(open)' = ToSet(OpenWithout(c))
  <2>1. /\ OpenWithout(c) \in Seq(Conns) /\ IsInjective(OpenWithout(c))
        /\ \A d : d \in ToSet(OpenWithout(c)) <=> d \in ToSet(open) /\ d # c
    BY <1>2, OpenWithoutIs DEF Fronts
  <2>2. IsInjective(open)' = IsInjective(OpenWithout(c)) /\ ToSet(open)' = ToSet(OpenWithout(c))
    BY <1>1 DEF IsInjective, ToSet
  <2> QED
    BY <2>1, <2>2, <1>1
<1>7. /\ \/ Promoted(c) = NoConn /\ OpenWithout(c) = <<>>
         \/ Promoted(c) \in Conns /\ Promoted(c) \in ToSet(OpenWithout(c))
      /\ Promoted(c) # c
  BY <1>2, PromotedIs DEF Fronts
<1>8. /\ front' \in Conns \cup {NoConn}
      /\ front' = NoConn => open' = <<>>
      /\ front' \in Conns /\ entry'[front'] = "saved" => front' \in ToSet(open)'
  <2>1. CASE front = c
    BY <2>1, <1>1, <1>6, <1>7, NamesAssumption
  <2>2. CASE front # c
    <3>1. front = NoConn => OpenWithout(c) = <<>>
      <4> SUFFICES ASSUME front = NoConn
                   PROVE  OpenWithout(c) = <<>>
        OBVIOUS
      <4>1. open = <<>> /\ ~IsOpen(c)
        BY <1>2 DEF Fronts, IsOpen, ToSet
      <4> QED
        BY <4>1 DEF OpenWithout
    <3> QED
      BY <3>1, <2>2, <1>1, <1>2, <1>3, <1>6, FrontsNow DEF Fronts
  <2> QED
    BY <2>1, <2>2
<1>9. /\ status' \in [Conns -> Statuses] /\ status'[c] = "disconnected"
      /\ \A d \in Conns : d # c => status'[d] = status[d]
  BY <1>1, <1>2 DEF Fronts, Statuses
<1>10. \A d \in Conns :
         /\ status'[d] # "disconnected" => entry'[d] = "saved"
         /\ status'[d] = "connecting" => dialing'[d] > 0
         /\ entry'[d] = "new" => tabs'[d] = NoTabs /\ dialing'[d] = 0 /\ front' # d
         /\ entry'[d] = "saved" /\ d \notin ToSet(open)' => tabs'[d] = NoTabs
  <2> SUFFICES ASSUME NEW d \in Conns
               PROVE  /\ status'[d] # "disconnected" => entry'[d] = "saved"
                      /\ status'[d] = "connecting" => dialing'[d] > 0
                      /\ entry'[d] = "new" => tabs'[d] = NoTabs /\ dialing'[d] = 0 /\ front' # d
                      /\ entry'[d] = "saved" /\ d \notin ToSet(open)' => tabs'[d] = NoTabs
    OBVIOUS
  <2>1. CASE d = c
    BY <2>1, <1>3, <1>9
  <2>2. CASE d # c
    <3>1. entry[d] = "new" => d \notin ToSet(open)
      BY <1>2, FrontsNow
    <3>2. d \notin ToSet(OpenWithout(c)) => tabs'[d] = tabs[d]
      BY <2>2, <1>5
    <3>3. entry[d] = "new" => front' # d
      BY <3>1, <1>1, <1>2, <1>6, <1>7, NamesAssumption DEF Fronts
    <3> QED
      BY <3>1, <3>2, <3>3, <2>2, <1>1, <1>2, <1>3, <1>6, <1>9, FrontsNow DEF Fronts
  <2> QED
    BY <2>1, <2>2
<1>11. \A d \in ToSet(open)' : d \in Conns /\ entry'[d] = "saved"
  BY <1>2, <1>3, <1>6, FrontsNow
<1>12. dialing' \in [Conns -> 0..MaxDials]
  BY <1>1, <1>2 DEF Fronts
<1>13. Fronts'
  BY <1>3, <1>4, <1>6, <1>8, <1>9, <1>10, <1>11, <1>12, FrontsNext
<1> QED
  BY <1>5, <1>13 DEF Stepped

-----------------------------------------------------------------------------
(* The invariant, and what follows from it                                 *)

LEMMA WindowNext == WindowOK(Window', list', entry') => WindowOK(Window, list, entry)'
  OBVIOUS

LEMMA InvariantInit ==
    ASSUME Init
    PROVE  IInv
<1>1. /\ entry \in [Conns -> {"new", "saved"}]
      /\ status = [c \in Conns |-> "disconnected"]
      /\ dialing = [c \in Conns |-> 0]
      /\ tabs = [c \in Conns \cup {NoConn} |-> NoTabs]
      /\ list = [c \in Conns |-> 0]
      /\ task = [t \in Tasks |-> NoFlight]
      /\ running = [k \in Keys |-> 0] /\ loads = [k \in Keys |-> 0]
      /\ abandoned = {} /\ inFlight = 0
  BY DEF Init
<1>2. /\ front \in Conns \cup {NoConn} /\ open \in Seq(Conns) /\ IsInjective(open)
      /\ \A i \in DOMAIN open : IsSaved(open[i])
      /\ front = NoConn => open = <<>>
      /\ IsSaved(front) => IsOpen(front)
      /\ \A c \in Conns : entry[c] = "new" => front # c
  <2>1. CASE \E c \in Conns : IsSaved(c) /\ front = c /\ open = <<c>>
    <3>1. PICK c \in Conns : IsSaved(c) /\ front = c /\ open = <<c>>
      BY <2>1
    <3>2. open \in Seq(Conns) /\ DOMAIN open = {1} /\ open[1] = c
      BY <3>1
    <3> QED
      BY <3>1, <3>2, NamesAssumption DEF IsInjective, IsSaved, IsOpen, ToSet
  <2>2. CASE (\A c \in Conns : ~IsSaved(c)) /\ front = NoConn /\ open = <<>>
    <3>1. open \in Seq(Conns) /\ DOMAIN open = {}
      BY <2>2
    <3> QED
      BY <2>2, <3>1, NamesAssumption DEF IsInjective, IsSaved
  <2> QED
    BY <2>1, <2>2 DEF Init
<1>3. Fronts
  BY <1>1, <1>2, Bounds DEF Fronts, Statuses
<1>4. \A t \in Tasks : task[t] \in Flights /\ ~task[t].flies
  BY <1>1 DEF NoFlight, Flights
<1>5. ListOK(NoTabs) /\ IdleTabs(NoTabs) /\ NoTabs \in TabLists /\ NoTabs.items = <<>>
  BY NoTabsOK DEF ListOK, NoTabs
<1>6. /\ task \in [Tasks -> Flights]
      /\ running \in [Keys -> Tasks \cup {0}] /\ loads \in [Keys -> Tasks \cup {0}]
      /\ \A c \in Conns, id \in Ids : running[<<c, id>>] = 0 /\ loads[<<c, id>>] = 0
  BY <1>1, <1>4 DEF Keys
<1>7. /\ tabs \in [Conns \cup {NoConn} -> TabLists]
      /\ \A c \in Conns \cup {NoConn} : tabs[c] = NoTabs
  BY <1>1, <1>5
<1>8. Waited(task, abandoned) = {} /\ Cardinality({}) = 0
  BY <1>1, <1>4, FS_EmptySet DEF Waited
<1>9. Window \in Windows
  BY <1>1, <1>6, <1>7 DEF Window, Windows
<1>10. /\ ListsOK(tabs) /\ Asks(task, list, entry) /\ Held(task, running, loads, abandoned)
       /\ Gone(task, abandoned) /\ inFlight = Cardinality(Waited(task, abandoned))
       /\ Reached(task, loads, abandoned) /\ Behind(tabs, task, list, entry)
       /\ LastRun(tabs, task, running, list)
  BY <1>1, <1>4, <1>5, <1>6, <1>7, <1>8
     DEF ListsOK, Asks, Held, Gone, Reached, Behind, LastRun
<1>11. /\ LastLoad(tabs, task, loads, list) /\ RowsOf(tabs, list)
       /\ Distinct(task) /\ Unseen(tabs, task) /\ Idle(tabs, entry)
  BY <1>4, <1>5, <1>7 DEF LastLoad, RowsOf, Distinct, Unseen, Idle
<1> QED
  BY <1>3, <1>9, <1>10, <1>11 DEF IInv, WindowOK, Window

LEMMA Stuttering ==
    ASSUME IInv, UNCHANGED vars
    PROVE  IInv' /\ NothingNew
<1>1. Window' = Window /\ list' = list /\ entry' = entry /\ tabs' = tabs
  BY DEF vars, Window
<1>2. Fronts'
  BY DEF IInv, vars, Fronts, IsSaved, IsOpen
<1>3. WindowOK(Window, list, entry)'
  BY <1>1, WindowNext DEF IInv
<1>4. NothingNew
  BY <1>1, ItselfShown DEF NothingNew
<1> QED
  BY <1>2, <1>3, <1>4 DEF IInv

LEMMA ConnectionStep ==
    ASSUME IInv, NEW c \in Conns,
           \/ AddConnection(c) \/ EditConnection(c) \/ RemoveConnection(c)
           \/ OpenConnection(c) \/ CloseConnection(c) \/ Disconnect(c)
           \/ ConnectSucceeds(c) \/ ConnectFails(c)
    PROVE  Stepped
BY AddConnectionSteps, EditConnectionSteps, RemoveConnectionSteps, OpenConnectionSteps,
   CloseConnectionSteps, DisconnectSteps, ConnectSucceedsSteps, ConnectFailsSteps

LEMMA TabStep ==
    ASSUME IInv,
           \/ ConnectFront
           \/ \E t \in Tables : OpenTable(t)
           \/ OpenSql
           \/ \E i \in 1..MaxTabs : ActivateTab(i) \/ CloseTab(i)
           \/ \E from, to \in 1..MaxTabs : DragTab(from, to)
           \/ Reload \/ Run \/ StopQuery
    PROVE  Stepped
BY ConnectFrontSteps, OpenTableSteps, OpenSqlSteps, ActivateTabSteps, CloseTabSteps,
   DragTabSteps, ReloadSteps, RunSteps, StopQuerySteps

\* Every step keeps the invariant, and takes no tab back to older rows.
LEMMA InvariantStep ==
    ASSUME IInv, [Next]_vars
    PROVE  IInv' /\ NothingOlder
<1>1. CASE \E c \in Conns :
              \/ AddConnection(c) \/ EditConnection(c) \/ RemoveConnection(c)
              \/ OpenConnection(c) \/ CloseConnection(c) \/ Disconnect(c)
              \/ ConnectSucceeds(c) \/ ConnectFails(c)
  BY <1>1, ConnectionStep, NewIsNotOlder, WindowNext DEF Stepped, IInv
<1>2. CASE \/ ConnectFront
           \/ \E t \in Tables : OpenTable(t)
           \/ OpenSql
           \/ \E i \in 1..MaxTabs : ActivateTab(i) \/ CloseTab(i)
           \/ \E from, to \in 1..MaxTabs : DragTab(from, to)
           \/ Reload \/ Run \/ StopQuery
  BY <1>2, TabStep, NewIsNotOlder, WindowNext DEF Stepped, IInv
<1>3. CASE \E t \in Tasks, ok \in BOOLEAN : Lands(t, ok)
  BY <1>3, LandsSteps, WindowNext DEF IInv
<1>4. CASE UNCHANGED vars
  BY <1>4, Stuttering, NewIsNotOlder
<1> QED
  BY <1>1, <1>2, <1>3, <1>4 DEF Next

\* Always, and of every step.
LEMMA Always == Spec => []IInv /\ [][NothingOlder]_vars
<1>1. IInv /\ [Next]_vars => NothingOlder
  BY InvariantStep
<1> QED
  BY <1>1, InvariantInit, InvariantStep, PTL DEF Spec

LEMMA WaitedIsFinite ==
    ASSUME IInv
    PROVE  /\ inFlight = Cardinality({t \in Tasks : task[t].flies} \ abandoned)
           /\ inFlight \in 0..MaxTasks
<1>1. Waited(task, abandoned) \subseteq 1..MaxTasks
  BY DEF Waited, Tasks
<1>2. IsFiniteSet(1..MaxTasks) /\ Cardinality(1..MaxTasks) = MaxTasks
  BY FS_Interval, Bounds
<1>3. Cardinality(Waited(task, abandoned)) \in 0..MaxTasks
  BY <1>1, <1>2, FS_Subset, FS_CardinalityType, Bounds
<1> QED
  BY <1>3 DEF IInv, WindowOK, Window, Waited

(***************************************************************************)
(* What the window keeps is what it may keep: every connection's tabs with *)
(* one of them in front, the handles of tasks there are, and a footer that *)
(* counts no more than there can be.                                       *)
(***************************************************************************)
THEOREM TypeCorrect == Spec => []TypeOK
<1>1. ASSUME IInv
      PROVE  TypeOK
  <2>1. /\ Window.tabs = tabs /\ Window.task = task /\ Window.running = running
        /\ Window.loads = loads /\ Window.abandoned = abandoned
    BY DEF Window
  <2>2. /\ task \in [Tasks -> Flights] /\ abandoned \subseteq Tasks
        /\ running \in [Keys -> Tasks \cup {0}] /\ loads \in [Keys -> Tasks \cup {0}]
    BY <1>1, <2>1 DEF IInv, WindowOK, Windows
  <2>3. ASSUME NEW c \in Conns \cup {NoConn}
        PROVE  /\ ToSet(tabs[c].items) \subseteq Tab
               /\ HasActive(tabs[c]) \/ (tabs[c].items = <<>> /\ tabs[c].active = 1)
    <3>1. ListOK(tabs[c])
      BY <1>1, <2>1 DEF IInv, WindowOK, ListsOK
    <3>2. tabs[c].items \in Seq(Tab)
      BY <3>1 DEF ListOK, TabLists
    <3>3. \A i \in DOMAIN tabs[c].items : tabs[c].items[i] \in Tab
      BY <3>2
    <3> QED
      BY <3>1, <3>3 DEF ListOK, ToSet
  <2>4. inFlight \in 0..MaxTasks
    BY <1>1, WaitedIsFinite
  <2> QED
    BY <1>1, <2>2, <2>3, <2>4 DEF TypeOK, IInv, Fronts
<1> QED
  BY <1>1, Always, PTL

(***************************************************************************)
(* No table's tab ever shows the rows of another table, tab or list: an    *)
(* answer finds the tab that asked for it, or none, although ids and load  *)
(* counts start anew in every list (DbUi::finish_tab_load).                *)
(***************************************************************************)
THEOREM RowsCorrect == Spec => []TableRowsAreOwn
<1>1. ASSUME IInv
      PROVE  TableRowsAreOwn
  <2> SUFFICES ASSUME NEW c \in Conns, NEW i \in DOMAIN tabs[c].items,
                      tabs[c].items[i].of # Query, tabs[c].items[i].rows # NoRows
               PROVE  /\ tabs[c].items[i].rows.of = tabs[c].items[i].of
                      /\ tabs[c].items[i].rows.list = ThisList(c)
                      /\ tabs[c].items[i].rows.tab = tabs[c].items[i].id
    BY DEF TableRowsAreOwn
  <2>1. Window.tabs = tabs
    BY DEF Window
  <2>2. OwnRows(tabs[c].items[i], c, list[c])
    BY <1>1, <2>1 DEF IInv, WindowOK, RowsOf
  <2>3. tabs[c].items[i].rows \in Asked
    <3>1. ListOK(tabs[c])
      BY <1>1, <2>1 DEF IInv, WindowOK, ListsOK
    <3>2. tabs[c].items[i] \in Tab
      BY <3>1 DEF ListOK, TabLists
    <3> QED
      BY <3>2 DEF Tab
  <2>4. tabs[c].items[i].rows.list \in Lists
    BY <2>3 DEF Asked
  <2> QED
    BY <2>2, <2>4 DEF OwnRows, ThisList, Lists
<1> QED
  BY <1>1, Always, PTL

(***************************************************************************)
(* "Busy" in the footer counts exactly the tasks somebody waits for, and   *)
(* every abandoned one is under way and told to stop, whatever is closed,  *)
(* replaced, stopped or removed (DbUi::release_load, abandoned).           *)
(***************************************************************************)
THEOREM FooterCorrect == Spec => []FooterCounts
<1>1. ASSUME IInv
      PROVE  FooterCounts
  <2>1. WaitedForIsCounted
    BY <1>1, WaitedIsFinite DEF WaitedForIsCounted
  <2>2. AbandonedWillLand
    BY <1>1 DEF AbandonedWillLand, IInv, WindowOK, Gone, Window
  <2> QED
    BY <2>1, <2>2 DEF FooterCounts
<1> QED
  BY <1>1, Always, PTL

(***************************************************************************)
(* Every load under way that nobody told to stop is the one held for its   *)
(* tab, and the run a SQL tab asked for last is the one Stop means         *)
(* (table_loads, running, close_tab_now, stop_query).                      *)
(***************************************************************************)
THEOREM ReachCorrect == Spec => []HandlesReach
<1>1. ASSUME IInv
      PROVE  HandlesReach
  <2> SUFFICES ASSUME NEW t \in Tasks, task[t].flies, ~task[t].told
               PROVE  LET a == task[t].asked
                          c == a.list[1]
                          key == <<c, a.tab>>
                      IN  /\ a.of # Query => loads[key] = t
                          /\ a.of = Query /\ ThisList(c) = a.list
                             /\ LoadIsCurrent(c, a.tab, a.seq) => running[key] = t
    BY DEF HandlesReach
  <2> DEFINE a == task[t].asked
             c == a.list[1]
  <2>1. /\ Gone(task, abandoned) /\ Reached(task, loads, abandoned)
        /\ LastRun(tabs, task, running, list)
    BY <1>1, SMTT(30) DEF IInv, WindowOK, Window
  <2>2. t \notin abandoned
    BY <2>1 DEF Gone
  <2>3. a.of # Query => loads[<<c, a.tab>>] = t
    BY <2>1, <2>2 DEF Reached
  <2>4. ASSUME a.of = Query, ThisList(c) = a.list, LoadIsCurrent(c, a.tab, a.seq)
        PROVE  running[<<c, a.tab>>] = t
    <3>1. a.list[2] = list[c]
      BY <2>4, SMTT(30) DEF ThisList
    <3>2. Wanted(tabs[c], a)
      BY <2>4, Zenon DEF LoadIsCurrent, Places, Wanted
    <3> QED
      BY <3>1, <3>2, <2>1, <2>4, SMTT(30) DEF LastRun
  <2> QED
    BY <2>3, <2>4
<1> QED
  BY <1>1, Always, PTL

(***************************************************************************)
(* What is held in running and table_loads is under way, and was asked for *)
(* by a tab of that connection and id: Stop, a reload or a close never     *)
(* cancels somebody else's task, nor one that has landed.                  *)
(***************************************************************************)
THEOREM LiveCorrect == Spec => []HandlesAreLive
<1>1. ASSUME IInv
      PROVE  HandlesAreLive
  <2> SUFFICES ASSUME NEW c \in Conns, NEW id \in Ids,
                      NEW t \in {running[<<c, id>>], loads[<<c, id>>]} \ {0}
               PROVE  task[t].flies /\ task[t].asked.list[1] = c /\ task[t].asked.tab = id
    BY DEF HandlesAreLive, Keys
  <2>1. Held(task, running, loads, abandoned)
    BY <1>1 DEF IInv, WindowOK, Window
  <2> QED
    BY <2>1 DEF Held, KeptFor
<1> QED
  BY <1>1, Always, PTL

(***************************************************************************)
(* A connection that says it is connecting has an answer on the way:       *)
(* connect refuses a busy one, so without it nobody could connect it again *)
(* (DbUi::connect, save_connection, remove_connection).                    *)
(***************************************************************************)
THEOREM ConnectingCorrect == Spec => []ConnectingWillEnd
<1>1. IInv => ConnectingWillEnd
  BY DEF IInv, Fronts, ConnectingWillEnd
<1> QED
  BY <1>1, Always, PTL

(***************************************************************************)
(* While a connection is open one is in front, a saved one in front is     *)
(* open, and a saved one that is not open has no tabs, so that opening it  *)
(* starts clean (DbUi::swap_front_tabs, close_connection_tab_now).         *)
(***************************************************************************)
THEOREM FrontCorrect == Spec => []FrontIsOpen
<1>1. IInv => FrontIsOpen
  BY DEF IInv, Fronts, FrontIsOpen
<1> QED
  BY <1>1, Always, PTL

LEMMA TabOfIs ==
    ASSUME NEW ts, NEW id, HoldsTab(ts, id)
    PROVE  \E i \in DOMAIN ts.items : ts.items[i].id = id /\ TabOf(ts, id) = ts.items[i]
<1>1. (CHOOSE i \in Places(ts, id) : TRUE) \in Places(ts, id)
  BY DEF HoldsTab
<1> QED
  BY <1>1 DEF TabOf, Places

(***************************************************************************)
(* Answers land in the order they were asked for, or not at all: no tab    *)
(* goes back to the rows of an earlier load or run of its own              *)
(* (Tabs::load_is_current, DbUi::finish_tab_load).                         *)
(***************************************************************************)
THEOREM NewestCorrect == Spec => NewestWins
<1> DEFINE Newer ==
        \A c \in Conns : list'[c] = list[c] =>
            \A id \in Ids : HoldsTab(tabs[c], id) /\ HoldsTab(tabs'[c], id) =>
                LET now == TabOf(tabs[c], id).rows
                    new == TabOf(tabs'[c], id).rows
                IN  new # now /\ new.list = now.list => new.seq > now.seq
<1>1. ASSUME IInv, IInv', NothingOlder
      PROVE  Newer
  <2> SUFFICES ASSUME NEW c \in Conns, NEW id \in Ids,
                      HoldsTab(tabs[c], id), HoldsTab(tabs'[c], id),
                      TabOf(tabs'[c], id).rows # TabOf(tabs[c], id).rows,
                      TabOf(tabs'[c], id).rows.list = TabOf(tabs[c], id).rows.list
               PROVE  TabOf(tabs'[c], id).rows.seq > TabOf(tabs[c], id).rows.seq
    OBVIOUS
  <2>1. PICK j \in DOMAIN tabs[c].items :
           tabs[c].items[j].id = id /\ TabOf(tabs[c], id) = tabs[c].items[j]
    BY TabOfIs
  <2>2. PICK i \in DOMAIN tabs'[c].items :
           tabs'[c].items[i].id = id /\ TabOf(tabs'[c], id) = tabs'[c].items[i]
    BY TabOfIs
  <2>3. NotOlder(tabs'[c].items[i].rows, tabs[c].items[j].rows)
    BY <1>1, <2>1, <2>2 DEF NothingOlder
  <2>4. tabs[c].items[j].rows = NoRows \/ tabs[c].items[j].rows.list \in Lists
    <3>1. ListOK(tabs[c])
      BY <1>1 DEF IInv, WindowOK, ListsOK, Window
    <3>2. tabs[c].items[j] \in Tab
      BY <3>1 DEF ListOK, TabLists
    <3> QED
      BY <3>2 DEF Tab, Asked
  <2>5. NoRows.list \notin Lists
    BY NamesAssumption DEF NoRows, Lists
  <2> QED
    BY <2>1, <2>2, <2>3, <2>4, <2>5 DEF NotOlder
<1>2. []IInv /\ [][NothingOlder]_vars => [][Newer]_vars
  BY <1>1, PTL
<1> HIDE DEF Newer
<1> QED
  BY <1>2, Always DEF NewestWins, Newer
================================================================================

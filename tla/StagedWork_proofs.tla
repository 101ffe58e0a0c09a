--------------------------- MODULE StagedWork_proofs ---------------------------
(***************************************************************************)
(* Theorems about StagedWork, for any connections, tables and bounds and   *)
(* any finitely many rows of a page: the variables keep their types, a tab *)
(* that says it is committing has a commit on its way, no question counts  *)
(* less than what a yes to it takes, no tab with work on it goes unasked,  *)
(* what is typed is staged when the front moves on; and, while no          *)
(* connection is closed over a commit of its own, nothing is sent twice    *)
(* nor to production uncounted.                                            *)
(***************************************************************************)
EXTENDS StagedWork, FiniteSetTheorems, SequenceTheorems, TLAPS

\* A tab whose sidebar shows one of its own new rows, if any.
GoodTabs == {tab \in Tab : tab.form <= Len(tab.inserts)}

TabLists == [items : Seq(GoodTabs), active : Nat, next : 0..MaxTabs]

\* A list of tabs with one in front, under ids given out before and never twice.
ListOK(ts) ==
    /\ ts \in TabLists
    /\ HasActive(ts) \/ ts.items = <<>>
    /\ \A i \in DOMAIN ts.items : ts.items[i].id < ts.next
    /\ \A i, j \in DOMAIN ts.items : ts.items[i].id = ts.items[j].id => i = j

\* The list has a tab of this id that says it is committing.
Saves(ts, id) == \E i \in DOMAIN ts.items : ts.items[i].id = id /\ ts.items[i].saving

Fronts ==
    /\ open \subseteq Conns /\ up \subseteq open
    /\ front \in open \cup {NoConn}
    /\ list \in [Conns -> 0..MaxLists]
    /\ cell \in Boxes \cup {None}
    /\ guard = None \/ guard \in Guards
    /\ question \in Nat \cup {None}

ListsOK ==
    /\ tabs \in [Conns \cup {NoConn} -> TabLists]
    /\ \A c \in Conns \cup {NoConn} : ListOK(tabs[c])

Core ==
    /\ Fronts /\ ListsOK
    /\ question # None => HasActive(FrontTabs)
    /\ commits \subseteq Commits

Saving == \A c \in Conns, id \in Ids :
    Saves(tabs[c], id) => \E k \in commits : k.list[1] = c /\ k.tab = id

\* Staging the draft of a tab again stages nothing else.
Merged(tab) ==
    tab.draft # None /\ tab.shown /\ tab.draft.text # Bad =>
        tab.edits[tab.draft.row] \in {Stored, Stashed(tab).edits[tab.draft.row]}

\* ... and nothing at all.
Folds(tab) ==
    tab.draft # None /\ tab.shown /\ tab.draft.text # Bad =>
        tab.edits[tab.draft.row] = Stashed(tab).edits[tab.draft.row]

\* What a yes takes of the list in front, for a question about it.
TakenOf(g, f, ts) ==
    CASE g.kind = "connection" -> IdsOf(ts)
      [] g.kind = "tab" -> IF g.of = f THEN {g.id} \cap IdsOf(ts) ELSE {}
      [] OTHER -> InScope(ts, g.kind, g.id)

\* The list once the draft in front is folded in, if its tab is to go.
Refolded(ts, ids) ==
    IF HasActive(ts) /\ ActiveTab(ts).id \in ids THEN WithTab(ts, Stashed(ActiveTab(ts))) ELSE ts

Reads(ts, ids) == Cardinality(StagedOn(Refolded(ts, ids), ids))

\* No more goes than n with these tabs, and nothing typed is yet to be counted.
Counted(ts, ids, box, n) ==
    /\ \A i \in DOMAIN ts.items :
          i = ts.active /\ ts.items[i].id \in ids => box = None /\ Merged(ts.items[i])
    /\ Reads(ts, ids) <= n

Quoted == guard # None =>
    /\ guard.kind = "connection" => guard.of \in Conns
    /\ IF guard.kind = "connection" /\ guard.of # front
       THEN Cardinality(StagedOn(tabs[guard.of], IdsOf(tabs[guard.of]))) <= guard.changes
       ELSE Counted(FrontTabs, TakenOf(guard, front, FrontTabs), cell, guard.changes)

\* The tab that a question about production is about.
Target == IF guard = None THEN ActiveTab(FrontTabs).id ELSE guard.id

Asking == question # None =>
    /\ guard # None => guard.kind = "tab" /\ guard.of = front
    /\ \E i \in DOMAIN FrontTabs.items :
          /\ FrontTabs.items[i].id = Target
          /\ ~FrontTabs.items[i].saving
          /\ question = Cardinality(Staged(FrontTabs.items[i]))
          /\ i = FrontTabs.active => cell = None /\ Folds(FrontTabs.items[i])

\* A commit is of a tab of the list its connection has, or had, and alone of it.
Current ==
    /\ \A k \in commits : k.list = ThisList(k.list[1]) /\ k.tab < tabs[k.list[1]].next
    /\ \A j, k \in commits : j.list = k.list /\ j.tab = k.tab => j = k

IInv == Core /\ Saving /\ Quoted

\* What holds besides while no connection is closed over a commit of it.
Sent == Current /\ SentOnce /\ Asking /\ ProductionAgreed

-----------------------------------------------------------------------------
(* The helpers *)

\* A set of naturals that is not empty has a least member, and Min is it.
LEMMA MinIsLeast ==
    ASSUME NEW S \in SUBSET Nat, NEW n \in Nat, \A x \in S : x <= n, S # {}
    PROVE  Min(S) \in S /\ \A x \in S : Min(S) <= x
<1> DEFINE Below(x) == {y \in S : y < x}
           Cuts == {Below(x) : x \in S}
<1>1. IsFiniteSet(S)
  BY FS_BoundedSetOfNaturals
<1>2. IsWellFoundedOn(StrictSubsetOrdering(S), SUBSET S)
  BY <1>1, FS_StrictSubsetOrderingWellFounded, FS_FiniteSubsetsOfFinite
<1>3. Cuts \in SUBSET (SUBSET S) /\ Cuts # {}
  OBVIOUS
<1>4. PICK cut \in Cuts : \A other \in Cuts : <<other, cut>> \notin StrictSubsetOrdering(S)
  BY <1>2, <1>3, WFMin
<1>5. PICK x \in S : cut = Below(x)
  BY <1>4
<1>6. ASSUME NEW y \in S, y < x
      PROVE  FALSE
  <2>1. Below(y) \in Cuts
    OBVIOUS
  <2>2. \A z \in Below(y) : z \in Below(x)
    BY <1>6
  <2>3. y \in Below(x) /\ y \notin Below(y)
    BY <1>6
  <2> QED
    BY <2>1, <2>2, <2>3, <1>3, <1>4, <1>5 DEF StrictSubsetOrdering
<1>7. \A y \in S : x <= y
  BY <1>6
<1> QED
  BY <1>7 DEF Min

LEMMA RemoveAtIs ==
    ASSUME NEW S, NEW s \in Seq(S), NEW i \in DOMAIN s
    PROVE  /\ RemoveAt(s, i) \in Seq(S)
           /\ Len(RemoveAt(s, i)) = Len(s) - 1
           /\ \A j \in 1..Len(s) - 1 : RemoveAt(s, i)[j] = IF j < i THEN s[j] ELSE s[j + 1]
<1> DEFINE left == SubSeq(s, 1, i - 1)
           right == SubSeq(s, i + 1, Len(s))
<1>1. Len(s) \in Nat /\ DOMAIN s = 1..Len(s) /\ i \in 1..Len(s) /\ \A j \in 1..Len(s) : s[j] \in S
  BY LenProperties
<1>2. left \in Seq(S) /\ Len(left) = i - 1 /\ \A j \in 1..i - 1 : left[j] = s[j]
  <2>1. \A j \in 1..i - 1 : s[j] \in S
    BY <1>1
  <2> QED
    BY <2>1, <1>1, SubSeqProperties, Z3
<1>3. right \in Seq(S) /\ Len(right) = Len(s) - i
      /\ \A j \in 1..Len(s) - i : right[j] = s[j + i]
  <2>1. \A j \in i + 1..Len(s) : s[j] \in S
    BY <1>1
  <2>2. /\ right \in Seq(S)
        /\ Len(right) = IF i + 1 <= Len(s) THEN Len(s) - (i + 1) + 1 ELSE 0
        /\ \A j \in 1 .. Len(s) - (i + 1) + 1 : right[j] = s[i + 1 + j - 1]
    BY <2>1, <1>1, SubSeqProperties
  <2>3. \A j \in 1..Len(s) - i : j \in 1 .. Len(s) - (i + 1) + 1 /\ i + 1 + j - 1 = j + i
    BY <1>1
  <2> QED
    BY <2>2, <2>3, <1>1
<1> HIDE DEF left, right
<1>4. RemoveAt(s, i) = left \o right
  BY DEF RemoveAt, left, right
<1>5. /\ left \o right \in Seq(S)
      /\ Len(left \o right) = Len(left) + Len(right)
      /\ \A j \in 1 .. Len(left) + Len(right) : (left \o right)[j] =
            IF j <= Len(left) THEN left[j] ELSE right[j - Len(left)]
  BY <1>2, <1>3, ConcatProperties
<1>6. ASSUME NEW j \in 1..Len(s) - 1
      PROVE  (left \o right)[j] = IF j < i THEN s[j] ELSE s[j + 1]
  <2>1. CASE j < i
    <3>1. j \in 1..i - 1 /\ j \in 1 .. Len(left) + Len(right) /\ j <= Len(left)
      BY <2>1, <1>1, <1>2, <1>3
    <3> QED
      BY <3>1, <2>1, <1>2, <1>5
  <2>2. CASE ~(j < i)
    <3>1. j - (i - 1) \in 1..Len(s) - i /\ j \in 1 .. Len(left) + Len(right) /\ ~(j <= Len(left))
      BY <2>2, <1>1, <1>2, <1>3
    <3>2. (j - (i - 1)) + i = j + 1
      BY <1>1
    <3> QED
      BY <3>1, <3>2, <2>2, <1>2, <1>3, <1>5
  <2> QED
    BY <2>1, <2>2
<1> QED
  BY <1>1, <1>2, <1>3, <1>4, <1>5, <1>6


-----------------------------------------------------------------------------
(* What the handlers do to one tab *)

NewRow == [row : NewRows, parses : BOOLEAN]

LEMMA Bounds ==
    /\ MaxTabs \in Nat /\ MaxTabs >= 1 /\ MaxInserts \in Nat /\ MaxInserts >= 1
    /\ MaxCommits \in Nat /\ MaxLists \in Nat /\ MaxWorked \in Nat
    /\ NoConn \notin Conns /\ Production \subseteq Conns /\ None \notin Rows
    /\ Boxed \subseteq Typed /\ IsFiniteSet(Rows)
BY StagedConstants DEF Typed

LEMMA BoundedIs ==
    ASSUME NEW s
    PROVE  s \in BoundedSeq(NewRow, MaxInserts) <=> s \in Seq(NewRow) /\ Len(s) <= MaxInserts
<1>1. ASSUME s \in BoundedSeq(NewRow, MaxInserts)
      PROVE  s \in Seq(NewRow) /\ Len(s) <= MaxInserts
  <2>1. PICK m \in 0..MaxInserts : s \in [1..m -> NewRow]
    BY <1>1, Bounds DEF BoundedSeq, SeqOf
  <2>2. m \in Nat
    BY Bounds
  <2> QED
    BY <2>1, <2>2, Bounds, SeqDef, LenProperties
<1>2. ASSUME s \in Seq(NewRow), Len(s) <= MaxInserts
      PROVE  s \in BoundedSeq(NewRow, MaxInserts)
  <2>1. Len(s) \in 0..MaxInserts /\ s \in [1..Len(s) -> NewRow]
    BY <1>2, Bounds, LenProperties
  <2> QED
    BY <2>1 DEF BoundedSeq, SeqOf
<1> QED
  BY <1>1, <1>2

\* The fields of a tab of a list.
LEMMA TabIs ==
    ASSUME NEW tab \in GoodTabs
    PROVE  /\ tab \in Tab
           /\ tab.id \in Ids /\ tab.of \in Tables /\ tab.shown \in BOOLEAN
           /\ tab.loading \in BOOLEAN /\ tab.saving \in BOOLEAN
           /\ tab.row \in Rows \cup {None} /\ tab.draft \in Drafts \cup {None}
           /\ tab.refused \in BOOLEAN /\ tab.edits \in [Rows -> Texts \cup {Stored}]
           /\ tab.deletes \in SUBSET Rows
           /\ tab.inserts \in BoundedSeq(NewRow, MaxInserts)
           /\ tab.inserts \in Seq(NewRow) /\ Len(tab.inserts) \in Nat
           /\ Len(tab.inserts) <= MaxInserts
           /\ tab.form \in 0..Len(tab.inserts)
<1>1. tab \in Tab /\ tab.form <= Len(tab.inserts)
  BY DEF GoodTabs
<1>2. /\ tab.id \in Ids /\ tab.of \in Tables /\ tab.shown \in BOOLEAN
      /\ tab.loading \in BOOLEAN /\ tab.saving \in BOOLEAN
      /\ tab.row \in Rows \cup {None} /\ tab.draft \in Drafts \cup {None}
      /\ tab.refused \in BOOLEAN /\ tab.edits \in [Rows -> Texts \cup {Stored}]
      /\ tab.deletes \in SUBSET Rows
      /\ tab.inserts \in BoundedSeq(NewRow, MaxInserts) /\ tab.form \in 0..MaxInserts
  BY <1>1 DEF Tab, NewRow
<1>3. tab.inserts \in Seq(NewRow) /\ Len(tab.inserts) <= MaxInserts
  BY <1>2, BoundedIs
<1>4. tab.form \in 0..Len(tab.inserts)
  BY <1>1, <1>2, <1>3, Bounds, LenProperties
<1> QED
  BY <1>1, <1>2, <1>3, <1>4, LenProperties

\* What is staged and shown of a tab is written, and its new rows kept.
LEMMA TabWith ==
    ASSUME NEW tab \in GoodTabs, NEW new \in Tab,
           new.inserts = tab.inserts, new.form \in {0, tab.form}
    PROVE  new \in GoodTabs
BY TabIs DEF GoodTabs

\* ... or its new rows are others.
LEMMA TabWithRows ==
    ASSUME NEW tab \in GoodTabs, NEW rows \in Seq(NewRow), Len(rows) <= MaxInserts,
           NEW form \in Nat, form <= Len(rows)
    PROVE  [tab EXCEPT !.inserts = rows, !.form = form] \in GoodTabs
<1>1. rows \in BoundedSeq(NewRow, MaxInserts) /\ form \in 0..MaxInserts
  BY BoundedIs, Bounds, LenProperties
<1>2. [tab EXCEPT !.inserts = rows, !.form = form] \in Tab
  BY <1>1, TabIs DEF Tab, NewRow
<1>3. /\ [tab EXCEPT !.inserts = rows, !.form = form].inserts = rows
      /\ [tab EXCEPT !.inserts = rows, !.form = form].form = form
  BY TabIs DEF Tab
<1> DEFINE new == [tab EXCEPT !.inserts = rows, !.form = form]
<1> HIDE DEF new
<1>4. new \in Tab /\ new.form <= Len(new.inserts)
  BY <1>2, <1>3 DEF new
<1>5. new \in GoodTabs
  BY <1>4 DEF GoodTabs
<1> QED
  BY <1>5 DEF new

\* Another state of the same tab, which commits if and only if the other did.
Alike(new, tab) == new.id = tab.id /\ new.of = tab.of /\ new.saving = tab.saving

\* ... with the same work staged.
SameWork(new, tab) ==
    new.edits = tab.edits /\ new.deletes = tab.deletes /\ new.inserts = tab.inserts

LEMMA CellFinishedIs ==
    ASSUME NEW tab \in GoodTabs, cell \in Boxes \cup {None}
    PROVE  LET new == CellFinished(tab)
           IN  /\ new \in GoodTabs /\ Alike(new, tab) /\ SameWork(new, tab)
               /\ new.shown = tab.shown /\ new.form = tab.form
               /\ tab.draft \in Drafts => new.draft \in Drafts
               /\ cell = None => new = tab
<1>1. CASE cell # None /\ tab.draft # None /\ cell.row = tab.draft.row
  <2> DEFINE draft == [tab.draft EXCEPT !.text = cell.text]
  <2>1. draft \in Drafts
    BY <1>1, TabIs DEF Boxes, Drafts
  <2> HIDE DEF draft
  <2>2. CellFinished(tab) = [tab EXCEPT !.draft = draft]
    BY <1>1, TabIs DEF CellFinished, draft
  <2>3. CellFinished(tab) \in Tab
    BY <2>1, <2>2, TabIs DEF Tab
  <2>4. /\ Alike(CellFinished(tab), tab) /\ SameWork(CellFinished(tab), tab)
        /\ CellFinished(tab).draft = draft
        /\ CellFinished(tab).shown = tab.shown /\ CellFinished(tab).form = tab.form
    BY <2>2, TabIs DEF Alike, SameWork, Tab
  <2> QED
    BY <2>1, <2>3, <2>4, <1>1, TabWith DEF SameWork
<1>2. CASE ~(cell # None /\ tab.draft # None /\ cell.row = tab.draft.row)
  BY <1>2 DEF CellFinished, Alike, SameWork
<1> QED
  BY <1>1, <1>2

\* The draft is folded into what is staged.
Merges(tab) == tab.draft # None /\ tab.shown /\ tab.draft.text # Bad

LEMMA StashedIs ==
    ASSUME NEW tab \in GoodTabs
    PROVE  LET new == Stashed(tab)
           IN  /\ new \in GoodTabs /\ Alike(new, tab)
               /\ new.shown = tab.shown /\ new.form = tab.form /\ new.loading = tab.loading
               /\ new.draft = tab.draft /\ new.row = tab.row
               /\ new.deletes = tab.deletes /\ new.inserts = tab.inserts
               /\ new.edits = IF Merges(tab)
                              THEN [tab.edits EXCEPT ![tab.draft.row] =
                                      IF tab.draft.row \in tab.deletes THEN Stored
                                      ELSE tab.draft.text]
                              ELSE tab.edits
<1> DEFINE text == IF tab.draft.row \in tab.deletes THEN Stored ELSE tab.draft.text
           edits == [tab.edits EXCEPT ![tab.draft.row] = text]
<1>1. CASE tab.draft = None \/ ~tab.shown
  BY <1>1 DEF Stashed, Alike, Merges
<1>2. CASE tab.draft # None /\ tab.shown /\ tab.draft.text = Bad
  <2>1. Stashed(tab) = [tab EXCEPT !.refused = TRUE]
    BY <1>2 DEF Stashed
  <2>2. Stashed(tab) \in Tab
    BY <2>1, TabIs DEF Tab
  <2>3. /\ Alike(Stashed(tab), tab) /\ SameWork(Stashed(tab), tab)
        /\ Stashed(tab).shown = tab.shown /\ Stashed(tab).form = tab.form
        /\ Stashed(tab).loading = tab.loading /\ Stashed(tab).row = tab.row
        /\ Stashed(tab).draft = tab.draft
    BY <2>1, TabIs DEF Alike, SameWork, Tab
  <2>4. Stashed(tab) \in GoodTabs /\ ~Merges(tab)
    BY <2>2, <2>3, <1>2, TabWith DEF Merges, SameWork
  <2> QED
    BY <2>3, <2>4 DEF SameWork
<1>3. CASE tab.draft # None /\ tab.shown /\ tab.draft.text # Bad
  <2>1. tab.draft.row \in Rows /\ tab.draft.text \in Texts \cup {Stored}
    BY <1>3, TabIs DEF Drafts, Typed
  <2>2. edits \in [Rows -> Texts \cup {Stored}]
    BY <2>1, TabIs
  <2>3. Stashed(tab) = [tab EXCEPT !.refused = FALSE, !.edits = edits]
    BY <1>3, TabIs DEF Stashed
  <2> HIDE DEF edits
  <2>4. Merges(tab)
    BY <1>3 DEF Merges
  <2>5. edits = IF Merges(tab)
                THEN [tab.edits EXCEPT ![tab.draft.row] =
                        IF tab.draft.row \in tab.deletes THEN Stored ELSE tab.draft.text]
                ELSE tab.edits
    BY <2>4 DEF edits
  <2>6. Stashed(tab) \in Tab
    BY <2>2, <2>3, TabIs DEF Tab
  <2>7. /\ Stashed(tab).edits = edits /\ Alike(Stashed(tab), tab)
        /\ Stashed(tab).shown = tab.shown /\ Stashed(tab).form = tab.form
        /\ Stashed(tab).loading = tab.loading /\ Stashed(tab).row = tab.row
        /\ Stashed(tab).draft = tab.draft /\ Stashed(tab).deletes = tab.deletes
        /\ Stashed(tab).inserts = tab.inserts
    BY <2>3, TabIs DEF Alike, Tab
  <2> QED
    BY <2>5, <2>6, <2>7, TabWith
<1> QED
  BY <1>1, <1>2, <1>3

\* leave_front_tab, of the tab
LEMMA FinishedIs ==
    ASSUME NEW tab \in GoodTabs, cell \in Boxes \cup {None}
    PROVE  LET new == Stashed(CellFinished(tab))
           IN  /\ new \in GoodTabs /\ Alike(new, tab)
               /\ new.shown = tab.shown /\ new.form = tab.form
               /\ new.deletes = tab.deletes /\ new.inserts = tab.inserts
<1> DEFINE mid == CellFinished(tab)
<1>1. /\ mid \in GoodTabs /\ Alike(mid, tab) /\ mid.shown = tab.shown /\ mid.form = tab.form
      /\ mid.deletes = tab.deletes /\ mid.inserts = tab.inserts
  BY CellFinishedIs DEF SameWork
<1> HIDE DEF mid
<1>2. LET new == Stashed(mid)
      IN  /\ new \in GoodTabs /\ Alike(new, mid) /\ new.shown = mid.shown /\ new.form = mid.form
          /\ new.deletes = mid.deletes /\ new.inserts = mid.inserts
  BY <1>1, StashedIs
<1> QED
  BY <1>1, <1>2, Zenon DEF Alike, mid

LEMMA UnselectedIs ==
    ASSUME NEW tab \in GoodTabs
    PROVE  LET new == Unselected(tab)
           IN  /\ new \in GoodTabs /\ Alike(new, tab) /\ SameWork(new, tab)
               /\ new.draft = None /\ new.shown = tab.shown /\ new.form = tab.form
<1>1. Unselected(tab) \in Tab
  BY TabIs DEF Unselected, Tab
<1>2. LET new == Unselected(tab)
      IN  /\ Alike(new, tab) /\ SameWork(new, tab)
          /\ new.draft = None /\ new.shown = tab.shown /\ new.form = tab.form
  BY TabIs DEF Unselected, Tab, Alike, SameWork
<1> QED
  BY <1>1, <1>2, TabWith DEF SameWork

LEMMA SelectedIs ==
    ASSUME NEW tab \in GoodTabs, NEW r \in Rows
    PROVE  LET new == Selected(tab, r)
           IN  new \in GoodTabs /\ Alike(new, tab) /\ new.draft \in Drafts
<1> DEFINE kept == Stashed(tab)
           draft == [row |-> r, text |-> kept.edits[r]]
<1>1. kept \in GoodTabs /\ Alike(kept, tab)
  BY StashedIs
<1> HIDE DEF kept
<1>2. draft \in Drafts
  BY <1>1, TabIs DEF Drafts, Typed
<1> HIDE DEF draft
<1>3. Selected(tab, r) = [kept EXCEPT !.row = r, !.refused = FALSE, !.draft = draft]
  BY DEF Selected, kept, draft
<1> HIDE DEF kept
<1>4. /\ [kept EXCEPT !.row = r, !.refused = FALSE, !.draft = draft] \in Tab
      /\ Alike([kept EXCEPT !.row = r, !.refused = FALSE, !.draft = draft], tab)
      /\ [kept EXCEPT !.row = r, !.refused = FALSE, !.draft = draft].draft = draft
      /\ [kept EXCEPT !.row = r, !.refused = FALSE, !.draft = draft].inserts = kept.inserts
      /\ [kept EXCEPT !.row = r, !.refused = FALSE, !.draft = draft].form = kept.form
  BY <1>1, <1>2, TabIs DEF Alike, Tab
<1> QED
  BY <1>1, <1>2, <1>3, <1>4, TabWith

LEMMA TypedIs ==
    ASSUME NEW tab \in GoodTabs, tab.draft \in Drafts, NEW text \in Typed
    PROVE  LET new == [tab EXCEPT !.draft.text = text]
           IN  new \in GoodTabs /\ Alike(new, tab)
<1> DEFINE draft == [tab.draft EXCEPT !.text = text]
<1>1. draft \in Drafts
  BY TabIs DEF Drafts
<1> HIDE DEF draft
<1>2. [tab EXCEPT !.draft.text = text] = [tab EXCEPT !.draft = draft]
  BY TabIs DEF draft
<1>3. /\ [tab EXCEPT !.draft = draft] \in Tab /\ Alike([tab EXCEPT !.draft = draft], tab)
      /\ [tab EXCEPT !.draft = draft].inserts = tab.inserts
      /\ [tab EXCEPT !.draft = draft].form = tab.form
  BY <1>1, TabIs DEF Alike, Tab
<1> QED
  BY <1>2, <1>3, TabWith

LEMMA ClearedIs ==
    ASSUME NEW tab \in GoodTabs
    PROVE  LET new == Cleared(tab)
           IN  /\ new \in GoodTabs /\ Alike(new, tab)
               /\ new.edits = [r \in Rows |-> Stored] /\ new.deletes = {} /\ new.inserts = <<>>
               /\ new.draft = tab.draft /\ new.shown = tab.shown
<1> DEFINE edits == [r \in Rows |-> Stored]
<1>1. edits \in [Rows -> Texts \cup {Stored}]
  OBVIOUS
<1> HIDE DEF edits
<1>2. <<>> \in Seq(NewRow) /\ Len(<<>>) <= MaxInserts /\ 0 \in Nat /\ 0 <= Len(<<>>)
  BY Bounds
<1> DEFINE bare == [tab EXCEPT !.edits = edits, !.deletes = {}]
<1>3. /\ bare \in Tab /\ Alike(bare, tab) /\ bare.edits = edits /\ bare.deletes = {}
      /\ bare.inserts = tab.inserts /\ bare.form = tab.form
      /\ bare.draft = tab.draft /\ bare.shown = tab.shown
  BY <1>1, TabIs DEF Alike, Tab
<1>4. Cleared(tab) = [bare EXCEPT !.inserts = <<>>, !.form = 0]
  BY TabIs DEF Cleared, edits, Tab
<1> HIDE DEF bare
<1>5. bare \in GoodTabs
  BY <1>3, TabWith
<1>6. Cleared(tab) \in GoodTabs
  BY <1>2, <1>4, <1>5, TabWithRows
<1>7. /\ Alike(Cleared(tab), bare) /\ Cleared(tab).edits = bare.edits
      /\ Cleared(tab).deletes = bare.deletes /\ Cleared(tab).inserts = <<>>
      /\ Cleared(tab).draft = bare.draft /\ Cleared(tab).shown = bare.shown
  BY <1>3, <1>4 DEF Alike, Tab
<1> QED
  BY <1>3, <1>6, <1>7 DEF edits, Alike

LEMMA InsertRemovedIs ==
    ASSUME NEW tab \in GoodTabs, NEW i \in DOMAIN tab.inserts
    PROVE  LET new == InsertRemoved(tab, i)
           IN  new \in GoodTabs /\ Alike(new, tab)
<1> DEFINE rest == RemoveAt(tab.inserts, i)
           form == CASE tab.form = i -> 0 [] tab.form > i -> tab.form - 1 [] OTHER -> tab.form
<1>1. /\ tab.inserts \in Seq(NewRow) /\ Len(tab.inserts) \in Nat /\ i \in 1..Len(tab.inserts)
      /\ Len(tab.inserts) <= MaxInserts /\ tab.form \in 0..Len(tab.inserts)
  BY TabIs, LenProperties
<1>2. rest \in Seq(NewRow) /\ Len(rest) = Len(tab.inserts) - 1
  BY <1>1, RemoveAtIs
<1>3. form \in 0..Len(tab.inserts) - 1
  BY <1>1
<1> HIDE DEF rest, form
<1>4. InsertRemoved(tab, i) = [tab EXCEPT !.inserts = rest, !.form = form]
  BY TabIs DEF InsertRemoved, rest, form
<1>5. Len(rest) <= MaxInserts /\ form \in Nat /\ form <= Len(rest)
  BY <1>1, <1>2, <1>3, Bounds
<1>6. [tab EXCEPT !.inserts = rest, !.form = form] \in GoodTabs
  BY <1>2, <1>5, TabWithRows
<1>7. Alike(InsertRemoved(tab, i), tab)
  BY <1>4, TabIs DEF Alike, Tab
<1> QED
  BY <1>4, <1>6, <1>7

\* There are names left for the new rows.
LEMMA NamesLeft ==
    ASSUME NEW tab \in GoodTabs, NEW n \in NewRows, Len(tab.inserts) + n <= MaxInserts
    PROVE  \E new \in [1..n -> NewRows \ {tab.inserts[i].row : i \in DOMAIN tab.inserts}] :
              IsInjective(new)
<1> DEFINE m == Len(tab.inserts)
           added == {tab.inserts[i].row : i \in DOMAIN tab.inserts}
           free == NewRows \ added
           name == [i \in 1..m |-> tab.inserts[i].row]
<1>1. m \in Nat /\ DOMAIN tab.inserts = 1..m /\ n \in Nat /\ n >= 1 /\ MaxInserts \in Nat
  BY TabIs, Bounds, LenProperties DEF NewRows
<1>2. IsFiniteSet(1..m) /\ Cardinality(1..m) = m
  BY <1>1, FS_Interval
<1>3. name \in Surjection(1..m, added)
  BY <1>1 DEF Surjection
<1>4. IsFiniteSet(added) /\ Cardinality(added) <= m /\ Cardinality(added) \in Nat
  BY <1>2, <1>3, FS_Surjection, FS_CardinalityType
<1>5. IsFiniteSet(NewRows) /\ Cardinality(NewRows) = MaxInserts
  BY <1>1, FS_Interval DEF NewRows
<1> HIDE DEF added, m
<1>6. Cardinality(NewRows \cap added) <= Cardinality(added)
  BY <1>4, FS_Intersection
<1>7. /\ IsFiniteSet(free)
      /\ Cardinality(free) = Cardinality(NewRows) - Cardinality(NewRows \cap added)
  BY <1>5, FS_Difference
<1>8. Cardinality(NewRows \cap added) \in Nat
  BY <1>5, FS_Intersection, FS_CardinalityType
<1> HIDE DEF free
<1>9. Cardinality(free) \in Nat /\ n <= Cardinality(free)
  BY <1>1, <1>4, <1>5, <1>6, <1>7, <1>8 DEF m
<1>10. PICK all \in Bijection(1..Cardinality(free), free) : TRUE
  BY <1>7, FS_CardinalityType DEF ExistsBijection
<1>11. all \in [1..Cardinality(free) -> free] /\ \A i, j \in 1..Cardinality(free) : all[i] = all[j] => i = j
  BY <1>10 DEF Bijection, Injection, IsInjective
<1> DEFINE new == [i \in 1..n |-> all[i]]
<1>12. \A i \in 1..n : i \in 1..Cardinality(free)
  BY <1>1, <1>9
<1>13. new \in [1..n -> free] /\ IsInjective(new)
  BY <1>11, <1>12 DEF IsInjective
<1> QED
  BY <1>13 DEF free, added

LEMMA RowsAddedIs ==
    ASSUME NEW tab \in GoodTabs, NEW n \in NewRows, Len(tab.inserts) + n <= MaxInserts
    PROVE  LET new == RowsAdded(tab, n)
           IN  new \in GoodTabs /\ Alike(new, tab)
<1> DEFINE added == {tab.inserts[i].row : i \in DOMAIN tab.inserts}
           names == CHOOSE new \in [1..n -> NewRows \ added] : IsInjective(new)
           more == [i \in 1..n |-> [row |-> names[i], parses |-> TRUE]]
           bare == Unselected(tab)
           rows == tab.inserts \o more
<1>1. /\ tab.inserts \in Seq(NewRow) /\ Len(tab.inserts) \in Nat /\ n \in Nat /\ n >= 1
      /\ MaxInserts \in Nat
  BY TabIs, Bounds DEF NewRows
<1>2. names \in [1..n -> NewRows \ added]
  <2> DEFINE P(new) == new \in [1..n -> NewRows \ added] /\ IsInjective(new)
  <2>1. \E new : P(new)
    BY NamesLeft
  <2>2. names = CHOOSE new : P(new)
    OBVIOUS
  <2>3. P(CHOOSE new : P(new))
    <3> HIDE DEF P
    <3> QED
      BY <2>1
  <2> QED
    BY <2>2, <2>3
<1> HIDE DEF names
<1>3. more \in [1..n -> NewRow]
  BY <1>2 DEF NewRow
<1> HIDE DEF more
<1>4. more \in Seq(NewRow) /\ Len(more) = n
  BY <1>1, <1>3, SeqDef, LenProperties
<1>5. rows \in Seq(NewRow) /\ Len(rows) = Len(tab.inserts) + n
  BY <1>1, <1>4, ConcatProperties
<1>6. bare \in GoodTabs /\ Alike(bare, tab) /\ bare.inserts = tab.inserts
  BY UnselectedIs DEF SameWork
<1>7. /\ Len(rows) <= MaxInserts /\ Len(tab.inserts) + 1 \in Nat
      /\ Len(tab.inserts) + 1 <= Len(rows)
  BY <1>1, <1>5
<1>8. RowsAdded(tab, n) = [bare EXCEPT !.inserts = bare.inserts \o more, !.form = Len(tab.inserts) + 1]
  BY <1>6, TabIs DEF RowsAdded, names, more, Tab
<1> HIDE DEF bare, rows
<1>9. [bare EXCEPT !.inserts = rows, !.form = Len(tab.inserts) + 1] \in GoodTabs
  BY <1>5, <1>6, <1>7, TabWithRows
<1>10. Alike([bare EXCEPT !.inserts = rows, !.form = Len(tab.inserts) + 1], bare)
  BY <1>6, TabIs DEF Alike, Tab
<1>11. RowsAdded(tab, n) = [bare EXCEPT !.inserts = rows, !.form = Len(tab.inserts) + 1]
  BY <1>6, <1>8 DEF rows
<1> QED
  BY <1>6, <1>9, <1>10, <1>11 DEF Alike

\* What a step says of a tab besides its work.
LEMMA FlagsAre ==
    ASSUME NEW tab \in GoodTabs, NEW b \in BOOLEAN
    PROVE  /\ [tab EXCEPT !.loading = b] \in GoodTabs /\ Alike([tab EXCEPT !.loading = b], tab)
           /\ SameWork([tab EXCEPT !.loading = b], tab)
           /\ [tab EXCEPT !.loading = b].draft = tab.draft
           /\ [tab EXCEPT !.loading = b].shown = tab.shown
           /\ [tab EXCEPT !.shown = b] \in GoodTabs /\ Alike([tab EXCEPT !.shown = b], tab)
           /\ SameWork([tab EXCEPT !.shown = b], tab)
           /\ [tab EXCEPT !.shown = b].draft = tab.draft
           /\ [tab EXCEPT !.saving = b] \in GoodTabs
           /\ [tab EXCEPT !.saving = b].id = tab.id /\ [tab EXCEPT !.saving = b].saving = b
           /\ [tab EXCEPT !.saving = b].of = tab.of
           /\ SameWork([tab EXCEPT !.saving = b], tab)
           /\ [tab EXCEPT !.saving = b].draft = tab.draft
           /\ [tab EXCEPT !.saving = b].shown = tab.shown
<1>1. /\ [tab EXCEPT !.loading = b] \in Tab /\ Alike([tab EXCEPT !.loading = b], tab)
      /\ SameWork([tab EXCEPT !.loading = b], tab)
      /\ [tab EXCEPT !.loading = b].form = tab.form
      /\ [tab EXCEPT !.loading = b].draft = tab.draft
      /\ [tab EXCEPT !.loading = b].shown = tab.shown
  BY TabIs DEF Tab, Alike, SameWork
<1>2. /\ [tab EXCEPT !.shown = b] \in Tab /\ Alike([tab EXCEPT !.shown = b], tab)
      /\ SameWork([tab EXCEPT !.shown = b], tab)
      /\ [tab EXCEPT !.shown = b].form = tab.form
      /\ [tab EXCEPT !.shown = b].draft = tab.draft
  BY TabIs DEF Tab, Alike, SameWork
<1>3. /\ [tab EXCEPT !.saving = b] \in Tab
      /\ [tab EXCEPT !.saving = b].id = tab.id /\ [tab EXCEPT !.saving = b].saving = b
      /\ [tab EXCEPT !.saving = b].of = tab.of
      /\ SameWork([tab EXCEPT !.saving = b], tab)
      /\ [tab EXCEPT !.saving = b].form = tab.form
      /\ [tab EXCEPT !.saving = b].draft = tab.draft
      /\ [tab EXCEPT !.saving = b].shown = tab.shown
  BY TabIs DEF Tab, SameWork
<1>4. /\ [tab EXCEPT !.loading = b] \in GoodTabs /\ [tab EXCEPT !.shown = b] \in GoodTabs
      /\ [tab EXCEPT !.saving = b] \in GoodTabs
  BY <1>1, <1>2, <1>3, TabWith DEF SameWork
<1> QED
  BY <1>1, <1>2, <1>3, <1>4

LEMMA NewTabIs ==
    ASSUME NEW t \in Tables
    PROVE  NewTab(t) \in GoodTabs /\ NewTab(t).of = t /\ ~NewTab(t).saving
<1> DEFINE edits == [r \in Rows |-> Stored]
<1>1. /\ edits \in [Rows -> Texts \cup {Stored}]
      /\ <<>> \in BoundedSeq(NewRow, MaxInserts) /\ Len(<<>>) = 0
      /\ 0 \in Ids /\ 0 \in 0..MaxInserts
  <2>1. <<>> \in Seq(NewRow) /\ Len(<<>>) = 0 /\ Len(<<>>) <= MaxInserts
    BY Bounds
  <2>2. <<>> \in BoundedSeq(NewRow, MaxInserts)
    BY <2>1, BoundedIs
  <2>3. 0 \in Ids /\ 0 \in 0..MaxInserts
    BY Bounds DEF Ids
  <2> QED
    BY <2>1, <2>2, <2>3
<1> HIDE DEF edits
<1>2. NewTab(t) = [id |-> 0, of |-> t, shown |-> FALSE, loading |-> FALSE, saving |-> FALSE,
                   row |-> None, draft |-> None, refused |-> FALSE,
                   edits |-> edits, deletes |-> {}, inserts |-> <<>>, form |-> 0]
  BY DEF NewTab, edits
<1>3. NewTab(t) \in Tab
  BY <1>1, <1>2 DEF Tab, NewRow
<1>4. NewTab(t).form <= Len(NewTab(t).inserts) /\ NewTab(t).of = t /\ ~NewTab(t).saving
  BY <1>1, <1>2
<1> QED
  BY <1>3, <1>4 DEF GoodTabs

-----------------------------------------------------------------------------
(* What they do to a list of tabs.  Calm: each tab was there before and     *)
(* commits as it did, or is new, under a new id, and does not.  Same: the   *)
(* tabs are those of before, in order, whatever is staged on them.          *)

Calm(new, old) ==
    /\ ListOK(new)
    /\ old.next <= new.next
    /\ \A i \in DOMAIN new.items :
          \/ \E j \in DOMAIN old.items : /\ new.items[i].id = old.items[j].id
                                         /\ new.items[i].saving = old.items[j].saving
          \/ new.items[i].id >= old.next /\ ~new.items[i].saving

Same(new, old) ==
    /\ new.active = old.active /\ new.next = old.next
    /\ DOMAIN new.items = DOMAIN old.items
    /\ \A i \in DOMAIN old.items : new.items[i].id = old.items[i].id

\* The tabs there were are there as they were.
Grown(new, old) ==
    \A i \in DOMAIN old.items : i \in DOMAIN new.items /\ new.items[i] = old.items[i]

LEMMA ListIs ==
    ASSUME NEW ts, ListOK(ts)
    PROVE  /\ ts \in TabLists /\ ts.items \in Seq(GoodTabs)
           /\ ts.next \in Nat /\ ts.next \in 0..MaxTabs /\ ts.active \in Nat
           /\ Len(ts.items) \in Nat /\ DOMAIN ts.items = 1..Len(ts.items)
           /\ \A i \in DOMAIN ts.items : ts.items[i] \in GoodTabs /\ ts.items[i].id \in Nat
<1>1. ts \in TabLists
  BY DEF ListOK
<1>2. ts.items \in Seq(GoodTabs) /\ ts.next \in 0..MaxTabs /\ ts.active \in Nat
  BY <1>1 DEF TabLists
<1>3. \A i \in DOMAIN ts.items : ts.items[i] \in GoodTabs
  BY <1>2, LenProperties
<1>4. \A i \in DOMAIN ts.items : ts.items[i].id \in Nat
  BY <1>3, TabIs, Bounds DEF Ids
<1> QED
  BY <1>1, <1>2, <1>3, <1>4, Bounds, LenProperties

LEMMA CalmItself ==
    ASSUME NEW ts, ListOK(ts)
    PROVE  Calm(ts, ts) /\ Same(ts, ts)
BY ListIs DEF Calm, Same

LEMMA CalmSince ==
    ASSUME NEW new, NEW mid, NEW old, ListOK(old), Calm(new, mid), Calm(mid, old)
    PROVE  Calm(new, old)
<1>1. /\ ListOK(new) /\ ListOK(mid)
      /\ new.next \in Nat /\ mid.next \in Nat /\ old.next \in Nat
      /\ mid.next <= new.next /\ old.next <= mid.next
  BY ListIs DEF Calm
<1>2. \A i \in DOMAIN new.items : new.items[i].id \in Nat
  BY <1>1, ListIs
<1>3. ASSUME NEW i \in DOMAIN new.items
      PROVE  \/ \E j \in DOMAIN old.items : /\ new.items[i].id = old.items[j].id
                                            /\ new.items[i].saving = old.items[j].saving
             \/ new.items[i].id >= old.next /\ ~new.items[i].saving
  <2>1. CASE \E j \in DOMAIN mid.items : /\ new.items[i].id = mid.items[j].id
                                        /\ new.items[i].saving = mid.items[j].saving
    BY <2>1 DEF Calm
  <2>2. CASE new.items[i].id >= mid.next /\ ~new.items[i].saving
    BY <2>2, <1>1, <1>2
  <2> QED
    BY <2>1, <2>2 DEF Calm
<1>4. old.next <= new.next
  BY <1>1
<1> QED
  BY <1>1, <1>3, <1>4 DEF Calm

LEMMA CalmSaves ==
    ASSUME NEW new, NEW old, Calm(new, old), NEW id, Saves(new, id)
    PROVE  Saves(old, id)
BY DEF Calm, Saves

LEMMA SameSince ==
    ASSUME NEW new, NEW mid, NEW old, Same(new, mid), Same(mid, old)
    PROVE  Same(new, old)
BY DEF Same

LEMMA NoTabsOK ==
    ListOK(NoTabs) /\ \A id : ~Saves(NoTabs, id)
<1>1. NoTabs.items = <<>> /\ NoTabs.active = 1 /\ NoTabs.next = 0
  BY DEF NoTabs
<1>2. <<>> \in Seq(GoodTabs) /\ DOMAIN <<>> = {}
  OBVIOUS
<1>3. NoTabs \in TabLists
  BY <1>2, Bounds DEF TabLists, NoTabs
<1> QED
  BY <1>1, <1>2, <1>3 DEF ListOK, Saves

\* The tabs at their places are others with the same ids.
LEMMA ItemsSet ==
    ASSUME NEW ts, ListOK(ts), NEW items \in [DOMAIN ts.items -> GoodTabs],
           \A i \in DOMAIN ts.items : items[i].id = ts.items[i].id
    PROVE  LET new == [ts EXCEPT !.items = items]
           IN  ListOK(new) /\ new.items = items /\ Same(new, ts)
<1> DEFINE new == [ts EXCEPT !.items = items]
<1>1. items \in Seq(GoodTabs)
  <2>1. items \in [1..Len(ts.items) -> GoodTabs]
    BY ListIs
  <2> QED
    BY <2>1, ListIs, SeqDef
<1>2. new \in TabLists /\ new.items = items /\ new.next = ts.next /\ new.active = ts.active
  BY <1>1, ListIs DEF TabLists
<1> HIDE DEF new
<1>3. HasActive(new) \/ new.items = <<>>
  <2>1. ts.items = <<>> => items = <<>>
    <3>1. ts.items = <<>> => Len(items) = 0
      BY <1>1, ListIs, LenProperties
    <3> QED
      BY <3>1, <1>1, EmptySeq
  <2> QED
    BY <2>1, <1>2 DEF ListOK, HasActive
<1>4. /\ DOMAIN new.items = DOMAIN ts.items
      /\ \A i \in DOMAIN ts.items : new.items[i].id = ts.items[i].id
  BY <1>2
<1>5. /\ \A i \in DOMAIN new.items : new.items[i].id < new.next
      /\ \A i, j \in DOMAIN new.items : new.items[i].id = new.items[j].id => i = j
  <2>1. /\ \A i \in DOMAIN ts.items : ts.items[i].id < ts.next
        /\ \A i, j \in DOMAIN ts.items : ts.items[i].id = ts.items[j].id => i = j
    BY DEF ListOK
  <2> QED
    BY <2>1, <1>2, <1>4
<1>6. ListOK(new)
  BY <1>2, <1>3, <1>5 DEF ListOK
<1> QED
  BY <1>2, <1>4, <1>6 DEF Same, new

\* A tab of the list is written, under its id.
LEMMA WithTabIs ==
    ASSUME NEW ts, ListOK(ts), NEW tab \in GoodTabs
    PROVE  LET new == WithTab(ts, tab)
           IN  /\ ListOK(new) /\ Same(new, ts)
               /\ \A i \in DOMAIN ts.items :
                     new.items[i] = IF ts.items[i].id = tab.id THEN tab ELSE ts.items[i]
               /\ \A id : Saves(new, id) => Saves(ts, id) \/ (id = tab.id /\ tab.saving)
<1> DEFINE new == WithTab(ts, tab)
           items == [i \in DOMAIN ts.items |->
                        IF ts.items[i].id = tab.id THEN tab ELSE ts.items[i]]
<1>1. /\ items \in [DOMAIN ts.items -> GoodTabs]
      /\ \A i \in DOMAIN ts.items :
            /\ items[i].id = ts.items[i].id
            /\ items[i] = IF ts.items[i].id = tab.id THEN tab ELSE ts.items[i]
  BY ListIs
<1>2. new = [ts EXCEPT !.items = items]
  BY ListIs DEF WithTab, TabLists
<1> HIDE DEF items, new
<1>3. ListOK(new) /\ new.items = items /\ Same(new, ts)
  BY <1>1, <1>2, ItemsSet
<1>4. \A id : Saves(new, id) => Saves(ts, id) \/ (id = tab.id /\ tab.saving)
  BY <1>1, <1>3 DEF Saves
<1> QED
  BY <1>1, <1>3, <1>4 DEF new

\* ... and it commits only if it did.
LEMMA WithTabCalm ==
    ASSUME NEW ts, ListOK(ts), NEW i \in DOMAIN ts.items, NEW tab \in GoodTabs,
           Alike(tab, ts.items[i])
    PROVE  Calm(WithTab(ts, tab), ts) /\ Same(WithTab(ts, tab), ts)
<1> DEFINE new == WithTab(ts, tab)
<1>1. /\ ListOK(new) /\ Same(new, ts)
      /\ \A j \in DOMAIN ts.items :
            new.items[j] = IF ts.items[j].id = tab.id THEN tab ELSE ts.items[j]
  BY WithTabIs
<1> HIDE DEF new
<1>2. ts.next <= new.next /\ DOMAIN new.items = DOMAIN ts.items
  BY <1>1, ListIs DEF Same
<1>3. \A j \in DOMAIN ts.items : ts.items[j].id = tab.id => j = i
  BY DEF Alike, ListOK
<1>4. \A j \in DOMAIN new.items : /\ new.items[j].id = ts.items[j].id
                                 /\ new.items[j].saving = ts.items[j].saving
  BY <1>1, <1>2, <1>3 DEF Alike
<1> QED
  BY <1>1, <1>2, <1>4 DEF Calm, new

LEMMA ActiveIs ==
    ASSUME NEW ts, ListOK(ts), HasActive(ts)
    PROVE  /\ ts.active \in DOMAIN ts.items /\ ActiveTab(ts) = ts.items[ts.active]
           /\ ActiveTab(ts) \in GoodTabs
BY ListIs DEF HasActive, ActiveTab

\* The tab in front is written.
LEMMA ActiveSet ==
    ASSUME NEW ts, ListOK(ts), HasActive(ts), NEW tab \in GoodTabs, Alike(tab, ActiveTab(ts))
    PROVE  LET new == WithTab(ts, tab)
           IN  /\ Calm(new, ts) /\ Same(new, ts)
               /\ HasActive(new) /\ ActiveTab(new) = tab
               /\ \A i \in DOMAIN ts.items :
                     new.items[i] = IF i = ts.active THEN tab ELSE ts.items[i]
<1> DEFINE new == WithTab(ts, tab)
<1>1. /\ ts.active \in DOMAIN ts.items /\ Alike(tab, ts.items[ts.active])
      /\ tab.id = ts.items[ts.active].id
  BY ActiveIs DEF Alike
<1>2. Calm(new, ts) /\ Same(new, ts)
  BY <1>1, WithTabCalm
<1>3. \A i \in DOMAIN ts.items : new.items[i] = IF ts.items[i].id = tab.id THEN tab ELSE ts.items[i]
  BY WithTabIs
<1> HIDE DEF new
<1>4. \A i \in DOMAIN ts.items : ts.items[i].id = tab.id <=> i = ts.active
  BY <1>1 DEF ListOK
<1>5. \A i \in DOMAIN ts.items : new.items[i] = IF i = ts.active THEN tab ELSE ts.items[i]
  BY <1>3, <1>4
<1>6. HasActive(new) /\ ActiveTab(new) = tab
  BY <1>1, <1>2, <1>5 DEF Same, HasActive, ActiveTab
<1> QED
  BY <1>2, <1>5, <1>6 DEF new

LEMMA LeftIs ==
    ASSUME NEW ts, ListOK(ts), cell \in Boxes \cup {None}
    PROVE  Calm(Left(ts), ts) /\ Same(Left(ts), ts)
<1>1. CASE HasActive(ts)
  <2>1. ActiveTab(ts) \in GoodTabs
    BY <1>1, ActiveIs
  <2>2. /\ Stashed(CellFinished(ActiveTab(ts))) \in GoodTabs
        /\ Alike(Stashed(CellFinished(ActiveTab(ts))), ActiveTab(ts))
    BY <2>1, FinishedIs
  <2>3. Left(ts) = WithTab(ts, Stashed(CellFinished(ActiveTab(ts))))
    BY <1>1 DEF Left, OnFront
  <2> QED
    BY <1>1, <2>2, <2>3, ActiveSet
<1>2. CASE ~HasActive(ts)
  <2>1. Left(ts) = ts
    BY <1>2 DEF Left, OnFront
  <2> QED
    BY <2>1, CalmItself
<1> QED
  BY <1>1, <1>2

LEMMA LoadingIs ==
    ASSUME NEW ts, ListOK(ts), NEW c
    PROVE  /\ Calm(Loading(ts, c), ts) /\ Same(Loading(ts, c), ts)
           /\ Calm(LoadingIfEmpty(ts, c), ts) /\ Same(LoadingIfEmpty(ts, c), ts)
<1>1. ASSUME HasActive(ts)
      PROVE  LET new == WithTab(ts, [ActiveTab(ts) EXCEPT !.loading = TRUE])
             IN  Calm(new, ts) /\ Same(new, ts)
  BY <1>1, ActiveIs, FlagsAre, ActiveSet
<1>2. Calm(Loading(ts, c), ts) /\ Same(Loading(ts, c), ts)
  BY <1>1, CalmItself DEF Loading
<1> QED
  BY <1>2, CalmItself DEF LoadingIfEmpty

LEMMA ActivatedOK ==
    ASSUME NEW ts, ListOK(ts), NEW i \in DOMAIN ts.items
    PROVE  LET new == Activated(ts, i)
           IN  Calm(new, ts) /\ HasActive(new) /\ Grown(new, ts)
<1>1. ts \in TabLists /\ i \in Nat
  BY ListIs
<1>2. /\ Activated(ts, i) \in TabLists
      /\ Activated(ts, i).items = ts.items /\ Activated(ts, i).next = ts.next
      /\ Activated(ts, i).active = i
  BY <1>1 DEF Activated, TabLists
<1>3. ListOK(Activated(ts, i))
  BY <1>2 DEF ListOK, HasActive
<1> QED
  BY <1>2, <1>3, ListIs DEF Calm, HasActive, Grown

LEMMA PushedOK ==
    ASSUME NEW ts, ListOK(ts), NEW t \in Tables, ts.next < MaxTabs
    PROVE  LET new == Pushed(ts, NewTab(t))
           IN  Calm(new, ts) /\ HasActive(new) /\ Grown(new, ts)
<1> DEFINE tab == [NewTab(t) EXCEPT !.id = ts.next]
           new == Pushed(ts, NewTab(t))
<1>1. /\ ts \in TabLists /\ ts.items \in Seq(GoodTabs) /\ ts.next \in Nat
      /\ Len(ts.items) \in Nat /\ DOMAIN ts.items = 1..Len(ts.items)
      /\ \A i \in 1..Len(ts.items) : ts.items[i] \in GoodTabs /\ ts.items[i].id \in Nat
  BY ListIs
<1>2. tab \in GoodTabs /\ tab.id = ts.next /\ ~tab.saving
  <2> DEFINE fresh == NewTab(t)
  <2>1. fresh \in GoodTabs /\ fresh \in Tab /\ ~fresh.saving
    BY NewTabIs, TabIs
  <2> HIDE DEF fresh
  <2>2. ts.next \in Ids
    BY <1>1, Bounds DEF Ids
  <2>3. /\ [fresh EXCEPT !.id = ts.next] \in Tab
        /\ [fresh EXCEPT !.id = ts.next].inserts = fresh.inserts
        /\ [fresh EXCEPT !.id = ts.next].form = fresh.form
        /\ [fresh EXCEPT !.id = ts.next].id = ts.next
        /\ ~[fresh EXCEPT !.id = ts.next].saving
    BY <2>1, <2>2 DEF Tab
  <2>4. [fresh EXCEPT !.id = ts.next] \in GoodTabs
    BY <2>1, <2>3, TabWith
  <2> QED
    BY <2>3, <2>4 DEF fresh
<1> HIDE DEF tab
<1>3. /\ Append(ts.items, tab) \in Seq(GoodTabs)
      /\ Len(Append(ts.items, tab)) = Len(ts.items) + 1
      /\ \A i \in 1..Len(ts.items) : Append(ts.items, tab)[i] = ts.items[i]
      /\ Append(ts.items, tab)[Len(ts.items) + 1] = tab
  BY <1>1, <1>2, AppendProperties
<1>4. DOMAIN Append(ts.items, tab) = 1..Len(ts.items) + 1
  BY <1>1, <1>3, LenProperties
<1>5. /\ new \in TabLists
      /\ new.items = Append(ts.items, tab)
      /\ new.active = Len(ts.items) + 1
      /\ new.next = ts.next + 1
  <2>1. new = [ts EXCEPT !.next = ts.next + 1, !.items = Append(ts.items, tab),
                         !.active = Len(ts.items) + 1]
    BY <1>1 DEF Pushed, NextTab, TabLists, tab
  <2>2. ts.next + 1 \in 0..MaxTabs /\ Len(ts.items) + 1 \in Nat
    BY <1>1, Bounds
  <2> HIDE DEF new
  <2> QED
    BY <2>1, <2>2, <1>1, <1>3 DEF TabLists
<1> HIDE DEF new
<1>6. HasActive(new)
  BY <1>1, <1>4, <1>5 DEF HasActive
<1>7. /\ \A i \in 1..Len(ts.items) : new.items[i] = ts.items[i]
      /\ new.items[Len(ts.items) + 1] = tab
      /\ \A i \in DOMAIN new.items : i \in 1..Len(ts.items) \/ i = Len(ts.items) + 1
  BY <1>1, <1>3, <1>4, <1>5
<1>8. \A i \in 1..Len(ts.items) : ts.items[i].id < ts.next
  BY <1>1 DEF ListOK
<1>9. \A i \in DOMAIN new.items : new.items[i].id < new.next
  <2> SUFFICES ASSUME NEW i \in DOMAIN new.items
               PROVE  new.items[i].id < new.next
    OBVIOUS
  <2>1. CASE i \in 1..Len(ts.items)
    <3>1. ts.items[i].id < ts.next /\ ts.items[i].id \in Nat /\ new.items[i].id = ts.items[i].id
      BY <2>1, <1>1, <1>7, <1>8
    <3> QED
      BY <3>1, <1>1, <1>5
  <2>2. CASE i = Len(ts.items) + 1
    BY <2>2, <1>1, <1>2, <1>5, <1>7
  <2> QED
    BY <2>1, <2>2, <1>7
<1>10. \A i, j \in DOMAIN new.items : new.items[i].id = new.items[j].id => i = j
  <2> SUFFICES ASSUME NEW i \in DOMAIN new.items, NEW j \in DOMAIN new.items,
                      new.items[i].id = new.items[j].id
               PROVE  i = j
    OBVIOUS
  <2>1. \A k \in 1..Len(ts.items) : new.items[k].id = ts.items[k].id /\ ts.items[k].id # ts.next
    BY <1>1, <1>7, <1>8
  <2>2. new.items[Len(ts.items) + 1].id = ts.next
    BY <1>2, <1>7
  <2>3. \A k, m \in 1..Len(ts.items) : ts.items[k].id = ts.items[m].id => k = m
    BY <1>1 DEF ListOK
  <2> QED
    BY <2>1, <2>2, <2>3, <1>7
<1>11. ListOK(new)
  BY <1>5, <1>6, <1>9, <1>10 DEF ListOK
<1>12. tab.id >= ts.next /\ ts.next <= new.next
  BY <1>1, <1>2, <1>5
<1>13. Calm(new, ts)
  BY <1>1, <1>2, <1>7, <1>11, <1>12 DEF Calm
<1>14. Grown(new, ts)
  BY <1>1, <1>3, <1>4, <1>5 DEF Grown
<1> QED
  BY <1>6, <1>13, <1>14 DEF new

LEMMA FocusOrPushOK ==
    ASSUME NEW ts, ListOK(ts), NEW t \in Tables,
           FocusOrPush(ts, NewTab(t)).next <= MaxTabs
    PROVE  LET new == FocusOrPush(ts, NewTab(t))
           IN  Calm(new, ts) /\ HasActive(new) /\ Grown(new, ts)
<1> DEFINE wanted == {i \in DOMAIN ts.items : ts.items[i].of = NewTab(t).of}
<1>1. Len(ts.items) \in Nat /\ DOMAIN ts.items = 1..Len(ts.items) /\ ts \in TabLists
      /\ ts.next \in Nat
  BY ListIs
<1>2. CASE wanted = {}
  <2>1. FocusOrPush(ts, NewTab(t)) = Pushed(ts, NewTab(t))
    BY <1>2 DEF FocusOrPush
  <2>2. Pushed(ts, NewTab(t)).next = ts.next + 1
    BY <1>1 DEF Pushed, NextTab, TabLists
  <2>3. ts.next < MaxTabs
    BY <2>1, <2>2, <1>1, Bounds
  <2> QED
    BY <2>1, <2>3, PushedOK
<1>3. CASE wanted # {}
  <2>1. FocusOrPush(ts, NewTab(t)) = Activated(ts, Min(wanted))
    BY <1>3 DEF FocusOrPush
  <2>2. wanted \in SUBSET Nat /\ \A x \in wanted : x <= Len(ts.items)
    BY <1>1
  <2> HIDE DEF wanted
  <2>3. Min(wanted) \in wanted
    BY <2>2, <1>1, <1>3, MinIsLeast
  <2>4. Min(wanted) \in DOMAIN ts.items
    BY <2>3 DEF wanted
  <2> QED
    BY <2>1, <2>4, ActivatedOK
<1> QED
  BY <1>2, <1>3

\* The others are left, and in front is one of them.
LEMMA CloseAtOK ==
    ASSUME NEW ts, ListOK(ts), NEW i \in DOMAIN ts.items
    PROVE  LET new == CloseAt(ts, i)
           IN  /\ Calm(new, ts)
               /\ ToSet(new.items) = {ts.items[j] : j \in DOMAIN ts.items \ {i}}
               /\ i # ts.active => HasActive(new) /\ ActiveTab(new) = ActiveTab(ts)
<1> DEFINE new == CloseAt(ts, i)
           n == Len(ts.items)
           at(j) == IF j < i THEN j ELSE j + 1
<1>1. /\ ts \in TabLists /\ ts.items \in Seq(GoodTabs) /\ ts.next \in Nat /\ ts.active \in Nat
      /\ n \in Nat /\ DOMAIN ts.items = 1..n /\ i \in 1..n
  BY ListIs
<1>2. /\ RemoveAt(ts.items, i) \in Seq(GoodTabs)
      /\ Len(RemoveAt(ts.items, i)) = n - 1
      /\ \A j \in 1..n - 1 : RemoveAt(ts.items, i)[j] = ts.items[at(j)]
  BY <1>1, RemoveAtIs
<1>3. DOMAIN RemoveAt(ts.items, i) = 1..n - 1
  BY <1>1, <1>2, LenProperties
<1>4. ts.active \in 1..n
  BY <1>1 DEF ListOK, HasActive
<1>5. RemoveAt(ts.items, i) = <<>> <=> n = 1
  <2> DEFINE rest == RemoveAt(ts.items, i)
  <2>1. rest \in Seq(GoodTabs) /\ Len(rest) = n - 1
    BY <1>2
  <2> HIDE DEF rest
  <2>2. rest = <<>> <=> Len(rest) = 0
    BY <2>1, EmptySeq
  <2>3. rest = <<>> <=> n = 1
    BY <2>1, <2>2, <1>1
  <2> QED
    BY <2>3 DEF rest
<1> DEFINE ahead == CASE RemoveAt(ts.items, i) = <<>> -> 1
                      [] RemoveAt(ts.items, i) # <<>> /\ ts.active > n - 1 -> n - 1
                      [] OTHER -> IF i < ts.active THEN ts.active - 1 ELSE ts.active
<1>6. ahead \in Nat /\ (n > 1 => ahead \in 1..n - 1)
  BY <1>1, <1>4, <1>5
<1>7. new = [ts EXCEPT !.items = RemoveAt(ts.items, i), !.active = ahead]
  BY <1>1, <1>2 DEF CloseAt, TabLists
<1> HIDE DEF new, ahead
<1>8. /\ new \in TabLists /\ new.next = ts.next /\ new.active = ahead
      /\ new.items = RemoveAt(ts.items, i)
  BY <1>1, <1>2, <1>6, <1>7 DEF TabLists
<1>9. HasActive(new) \/ new.items = <<>>
  BY <1>1, <1>3, <1>5, <1>6, <1>8 DEF HasActive
<1>10. \A j \in DOMAIN new.items :
         new.items[j] = ts.items[at(j)] /\ at(j) \in DOMAIN ts.items /\ at(j) # i
  BY <1>1, <1>2, <1>3, <1>8, SMTT(30)
<1>11. \A j, k \in DOMAIN new.items : at(j) = at(k) => j = k
  BY <1>1, <1>3, <1>8
<1>12. \A k \in DOMAIN ts.items \ {i} : \E j \in DOMAIN new.items : at(j) = k
  <2> SUFFICES ASSUME NEW k \in 1..n, k # i
               PROVE  \E j \in 1..n - 1 : at(j) = k
    BY <1>1, <1>3, <1>8
  <2>1. CASE k < i
    BY <2>1, <1>1
  <2>2. CASE k > i
    <3>1. k - 1 \in 1..n - 1 /\ at(k - 1) = k
      BY <2>2, <1>1
    <3> QED
      BY <3>1
  <2> QED
    BY <2>1, <2>2, <1>1
<1> HIDE DEF at
<1>13. \A j \in DOMAIN new.items : new.items[j].id < new.next
  BY <1>8, <1>10 DEF ListOK
<1>14. \A j, k \in DOMAIN new.items : new.items[j].id = new.items[k].id => j = k
  <2>1. \A j, k \in DOMAIN ts.items : ts.items[j].id = ts.items[k].id => j = k
    BY DEF ListOK
  <2> QED
    BY <2>1, <1>10, <1>11
<1>15. ListOK(new)
  BY <1>8, <1>9, <1>13, <1>14 DEF ListOK
<1>16. Calm(new, ts)
  BY <1>1, <1>8, <1>10, <1>15 DEF Calm
<1>17. ToSet(new.items) = {ts.items[j] : j \in DOMAIN ts.items \ {i}}
  BY <1>10, <1>12 DEF ToSet
<1>18. i # ts.active => HasActive(new) /\ ActiveTab(new) = ActiveTab(ts)
  <2> SUFFICES ASSUME i # ts.active
               PROVE  ahead \in 1..n - 1 /\ at(ahead) = ts.active
    BY <1>3, <1>8, <1>10 DEF HasActive, ActiveTab
  <2>1. n > 1
    BY <1>1, <1>4
  <2> DEFINE rest == RemoveAt(ts.items, i)
  <2>2. rest # <<>>
    <3>0. n \in Nat
      BY <1>1
    <3> HIDE DEF n
    <3>1. ~(n = 1)
      BY <2>1, <3>0
    <3> QED
      BY <3>1, <1>5, Zenon
  <2>3. ahead = CASE rest = <<>> -> 1
                  [] rest # <<>> /\ ts.active > n - 1 -> n - 1
                  [] OTHER -> IF i < ts.active THEN ts.active - 1 ELSE ts.active
    BY DEF ahead
  <2> HIDE DEF rest
  <2>4. ahead = IF ts.active > n - 1 THEN n - 1
                ELSE IF i < ts.active THEN ts.active - 1 ELSE ts.active
    BY <2>2, <2>3
  <2> QED
    BY <2>1, <2>4, <1>1, <1>4 DEF at
<1> QED
  BY <1>16, <1>17, <1>18 DEF new

\* The place of a tab that is there.
LEMMA PlaceIs ==
    ASSUME NEW ts, ListOK(ts), NEW id, HoldsTab(ts, id)
    PROVE  /\ Min(Places(ts, id)) \in DOMAIN ts.items
           /\ ts.items[Min(Places(ts, id))].id = id
<1>1. /\ Places(ts, id) \in SUBSET Nat /\ Len(ts.items) \in Nat
      /\ \A x \in Places(ts, id) : x <= Len(ts.items)
  BY ListIs DEF Places
<1>2. Min(Places(ts, id)) \in Places(ts, id)
  BY <1>1, MinIsLeast DEF HoldsTab
<1> QED
  BY <1>2 DEF Places

\* A number that a property of 0..n does not hold of, and that is the least.
LEMMA LeastOf ==
    ASSUME NEW n \in Nat, NEW S \in SUBSET (0..n), S # {}
    PROVE  \E m \in S : m = 0 \/ (m > 0 /\ m - 1 \in 0..n \ S)
<1>1. S \in SUBSET Nat /\ \A x \in S : x <= n
  OBVIOUS
<1>2. Min(S) \in S /\ \A x \in S : Min(S) <= x
  BY <1>1, MinIsLeast
<1>3. Min(S) \in 0..n
  BY <1>2
<1>4. Min(S) > 0 => Min(S) - 1 \in 0..n /\ Min(S) - 1 \notin S
  BY <1>2, <1>3
<1> QED
  BY <1>2, <1>3, <1>4

\* close_tab_scope_now: after it the tabs are there that were not to go.
LEMMA ClosedTabsOK ==
    ASSUME NEW ts, ListOK(ts), NEW ids
    PROVE  LET new == ClosedTabs(ts, ids)
           IN  /\ Calm(new, ts)
               /\ ToSet(new.items) = {tab \in ToSet(ts.items) : tab.id \notin ids}
               /\ HasActive(ts) /\ ActiveTab(ts).id \notin ids =>
                     HasActive(new) /\ ActiveTab(new) = ActiveTab(ts)
<1> DEFINE n == Len(ts.items)
           Step(f, i) == IF i > 0 /\ ts.items[i].id \in ids
                         THEN CloseAt(f[i - 1], Min(Places(f[i - 1], ts.items[i].id)))
                         ELSE IF i > 0 THEN f[i - 1] ELSE ts
           Runs(f, m) == f = [i \in 0..m |-> Step(f, i)]
           upto == CHOOSE f : Runs(f, n)
<1>1. n \in Nat /\ DOMAIN ts.items = 1..n
  BY ListIs
<1>2. ClosedTabs(ts, ids) = upto[n]
  BY DEF ClosedTabs
<1>3. \A f, g, i : (i > 0 => f[i - 1] = g[i - 1]) => Step(f, i) = Step(g, i)
  BY Zenon
<1>4. \E f : Runs(f, n)
  <2> DEFINE Bad0 == {m \in 0..n : ~\E f : Runs(f, m)}
  <2>1. SUFFICES ASSUME Bad0 # {} PROVE FALSE
    BY <1>1
  <2>2. PICK m \in Bad0 : m = 0 \/ (m > 0 /\ m - 1 \in 0..n \ Bad0)
    BY <2>1, <1>1, LeastOf
  <2>3. CASE m = 0
    <3> DEFINE f == [i \in 0..0 |-> ts]
    <3>1. \A i \in 0..0 : Step(f, i) = ts
      OBVIOUS
    <3> HIDE DEF Step
    <3>2. Runs(f, 0)
      BY <3>1
    <3> QED
      BY <3>2, <2>2, <2>3
  <2>4. CASE m > 0 /\ m - 1 \in 0..n \ Bad0
    <3>1. PICK f : Runs(f, m - 1)
      BY <2>4
    <3> DEFINE g == [i \in 0..m |-> IF i < m THEN f[i] ELSE Step(f, m)]
    <3> HIDE DEF Step
    <3>2. m \in Nat
      BY <2>2, <1>1
    <3>3. \A i \in 0..m : i > 0 => g[i - 1] = f[i - 1]
      BY <3>2
    <3>4. \A i \in 0..m - 1 : f[i] = Step(f, i)
      BY <3>1
    <3>5. \A i \in 0..m : g[i] = Step(f, i)
      BY <3>2, <3>4
    <3>6. \A i \in 0..m : g[i] = Step(g, i)
      BY <3>3, <3>5, <1>3
    <3>7. Runs(g, m)
      BY <3>6
    <3> QED
      BY <3>7, <2>2
  <2> QED
    BY <2>2, <2>3, <2>4
<1>5. \A i \in 0..n : upto[i] = Step(upto, i)
  <2>1. Runs(upto, n)
    <3> HIDE DEF Runs
    <3> QED
      BY <1>4
  <2> HIDE DEF Step, upto
  <2> QED
    BY <2>1
<1>6. upto[0] = ts
  BY <1>1, <1>5
<1>7. \A i \in 1..n : upto[i] = IF ts.items[i].id \in ids
                               THEN CloseAt(upto[i - 1], Min(Places(upto[i - 1], ts.items[i].id)))
                               ELSE upto[i - 1]
  BY <1>1, <1>5
<1> HIDE DEF upto, Step, Runs
<1> DEFINE Stay(i) == {ts.items[j] : j \in {k \in 1..n : k > i \/ ts.items[k].id \notin ids}}
           Fore(i) == HasActive(ts) /\ ActiveTab(ts).id \notin ids =>
                         HasActive(upto[i]) /\ ActiveTab(upto[i]) = ActiveTab(ts)
           Good(i) == Calm(upto[i], ts) /\ ToSet(upto[i].items) = Stay(i) /\ Fore(i)
<1>8. Good(0)
  <2>1. ToSet(ts.items) = Stay(0)
    BY <1>1 DEF ToSet
  <2> QED
    BY <2>1, <1>6, CalmItself
<1>9. ASSUME NEW i \in 1..n, Good(i - 1)
      PROVE  Good(i)
  <2> DEFINE was == upto[i - 1]
             id == ts.items[i].id
  <2>1. i \in Nat /\ i >= 1 /\ \A j, k \in 1..n : ts.items[j].id = ts.items[k].id => j = k
    BY <1>1 DEF ListOK
  <2>2. CASE id \in ids
    <3> DEFINE p == Min(Places(was, id))
    <3>1. ListOK(was) /\ ToSet(was.items) = Stay(i - 1)
      BY <1>9 DEF Calm
    <3>2. ts.items[i] \in Stay(i - 1)
      BY <2>1
    <3>3. HoldsTab(was, id)
      BY <3>1, <3>2 DEF HoldsTab, Places, ToSet
    <3>4. p \in DOMAIN was.items /\ was.items[p].id = id
      BY <3>1, <3>3, PlaceIs
    <3>5. upto[i] = CloseAt(was, p)
      BY <2>2, <1>7
    <3> HIDE DEF p, was
    <3>6. Calm(upto[i], was) /\ ToSet(upto[i].items) = {was.items[j] : j \in DOMAIN was.items \ {p}}
          /\ (p # was.active => HasActive(upto[i]) /\ ActiveTab(upto[i]) = ActiveTab(was))
      BY <3>1, <3>4, <3>5, CloseAtOK
    <3>7. {was.items[j] : j \in DOMAIN was.items \ {p}} = {tab \in ToSet(was.items) : tab.id # id}
      <4>1. \A j \in DOMAIN was.items : was.items[j].id = id <=> j = p
        BY <3>1, <3>4 DEF ListOK
      <4> HIDE DEF id
      <4> QED
        BY <4>1 DEF ToSet
    <3>8. {tab \in Stay(i - 1) : tab.id # id} = Stay(i)
      <4>1. \A k \in 1..n : ts.items[k].id # id <=> k # i
        BY <2>1
      <4>2. \A k \in 1..n : (k > i - 1 \/ ts.items[k].id \notin ids) /\ k # i
                            <=> k > i \/ ts.items[k].id \notin ids
        BY <2>1, <2>2, <1>1
      <4> QED
        BY <4>1, <4>2
    <3>9. Calm(was, ts)
      BY <1>9 DEF was
    <3>10. Calm(upto[i], ts)
      BY <3>6, <3>9, CalmSince
    <3>11. Fore(i)
      <4>1. Fore(i - 1)
        BY <1>9
      <4>2. ActiveTab(was).id \notin ids => p # was.active
        BY <2>2, <3>4 DEF ActiveTab
      <4> QED
        BY <4>1, <4>2, <3>6 DEF was
    <3> QED
      BY <3>1, <3>6, <3>7, <3>8, <3>10, <3>11
  <2>3. CASE id \notin ids
    <3>1. upto[i] = was
      BY <2>3, <1>7
    <3>2. Stay(i) = Stay(i - 1)
      <4>1. \A k \in 1..n : (k > i - 1 \/ ts.items[k].id \notin ids)
                            <=> k > i \/ ts.items[k].id \notin ids
        BY <2>1, <2>3, <1>1
      <4> QED
        BY <4>1
    <3> QED
      BY <3>1, <3>2, <1>9
  <2> QED
    BY <2>2, <2>3
<1>10. Good(n)
  <2> DEFINE Bad0 == {m \in 0..n : ~Good(m)}
  <2> HIDE DEF Good
  <2>1. SUFFICES ASSUME Bad0 # {} PROVE FALSE
    BY <1>1
  <2>2. PICK m \in Bad0 : m = 0 \/ (m > 0 /\ m - 1 \in 0..n \ Bad0)
    BY <2>1, <1>1, LeastOf
  <2>3. CASE m = 0
    BY <2>2, <2>3, <1>8
  <2>4. CASE m > 0 /\ m - 1 \in 0..n \ Bad0
    <3>1. m \in 1..n /\ Good(m - 1)
      BY <2>2, <2>4, <1>1
    <3> QED
      BY <3>1, <2>2, <1>9
  <2> QED
    BY <2>2, <2>3, <2>4
<1>12. Fore(n)
  BY <1>10
<1>11. Stay(n) = {tab \in ToSet(ts.items) : tab.id \notin ids}
  BY <1>1 DEF ToSet
<1> QED
  BY <1>2, <1>10, <1>11, <1>12

-----------------------------------------------------------------------------
(* The steps.  Moves: each connection's list is calm, or was closed with    *)
(* its connection, and no commit is sent or comes back.                     *)

Moves ==
    /\ ListsOK'
    /\ commits' = commits
    /\ \A c \in Conns :
          \/ list'[c] = list[c] /\ Calm(tabs'[c], tabs[c])
          \/ /\ list'[c] = list[c] + 1 /\ tabs'[c] = NoTabs
             /\ Hasty \/ \A k \in commits : k.list[1] # c

\* ... with no question up after it.
Quiet == Fronts' /\ Moves /\ guard' = None /\ question' = None

LEMMA FrontIs ==
    ASSUME Core
    PROVE  /\ front \in Conns \cup {NoConn} /\ ListOK(FrontTabs) /\ FrontTabs = tabs[front]
           /\ cell \in Boxes \cup {None}
           /\ \A c \in Conns : c \in Conns \cup {NoConn} /\ ListOK(tabs[c])
BY DEF Core, Fronts, ListsOK, FrontTabs

LEMMA ListSet ==
    ASSUME Core, NEW c \in Conns \cup {NoConn}, NEW ts, Calm(ts, tabs[c]),
           tabs' = [tabs EXCEPT ![c] = ts], list' = list, commits' = commits
    PROVE  Moves
<1>1. ts \in TabLists /\ ListOK(ts)
  BY DEF Calm, ListOK
<1>2. tabs \in [Conns \cup {NoConn} -> TabLists] /\ \A d \in Conns \cup {NoConn} : ListOK(tabs[d])
  BY DEF Core, ListsOK
<1>3. /\ tabs' \in [Conns \cup {NoConn} -> TabLists]
      /\ \A d \in Conns \cup {NoConn} : tabs'[d] = IF d = c THEN ts ELSE tabs[d]
  BY <1>1, <1>2
<1>4. \A d \in Conns \cup {NoConn} : Calm(tabs'[d], tabs[d])
  BY <1>2, <1>3, CalmItself
<1>5. ListsOK'
  BY <1>3, <1>4 DEF ListsOK, Calm
<1> QED
  BY <1>4, <1>5 DEF Moves

LEMMA ListsStay ==
    ASSUME Core, tabs' = tabs, list' = list, commits' = commits
    PROVE  Moves
<1>1. ListsOK'
  BY DEF Core, ListsOK
<1> QED
  BY <1>1, CalmItself DEF Moves, Core, ListsOK

LEMMA FrontsAtTab ==
    ASSUME Core, AtTab, cell' \in Boxes \cup {None}
    PROVE  /\ Fronts' /\ guard' = None /\ question' = None
           /\ list' = list /\ commits' = commits
           /\ ActiveTab(FrontTabs) \in GoodTabs
<1>1. ActiveTab(FrontTabs) \in GoodTabs
  BY FrontIs, ActiveIs DEF AtTab
<1> QED
  BY <1>1 DEF Core, Fronts, AtTab, Free

\* The tab in front is written, and nothing else of any list.
LEMMA ShowsTab ==
    ASSUME Core, AtTab, cell' \in Boxes \cup {None},
           NEW tab \in GoodTabs, Alike(tab, ActiveTab(FrontTabs)), Shows(tab)
    PROVE  Quiet
<1>1. Fronts' /\ guard' = None /\ question' = None /\ list' = list /\ commits' = commits
  BY FrontsAtTab
<1>2. Calm(WithTab(FrontTabs, tab), FrontTabs)
  BY FrontIs, ActiveSet DEF AtTab
<1>3. tabs' = [tabs EXCEPT ![front] = WithTab(FrontTabs, tab)]
  BY DEF Shows, FrontTabs
<1>4. Moves
  BY <1>1, <1>2, <1>3, FrontIs, ListSet
<1> QED
  BY <1>1, <1>4 DEF Quiet

LEMMA SelectingSteps ==
    ASSUME Core, NEW r \in Rows, SelectRow(r) \/ BeginCellEdit(r)
    PROVE  Quiet
<1> DEFINE tab == Selected(ActiveTab(FrontTabs), r)
<1>1. AtTab /\ ActiveTab(FrontTabs) \in GoodTabs
  BY FrontIs, ActiveIs DEF SelectRow, BeginCellEdit, AtWork, AtTab
<1>2. tab \in GoodTabs /\ Alike(tab, ActiveTab(FrontTabs)) /\ tab.draft \in Boxes
  BY <1>1, SelectedIs DEF Boxes
<1>3. Shows(tab) /\ cell' \in {cell, tab.draft}
  BY DEF SelectRow, BeginCellEdit
<1> HIDE DEF tab
<1> QED
  BY <1>1, <1>2, <1>3, FrontIs, ShowsTab

LEMMA TypeFieldSteps ==
    ASSUME Core, NEW text \in Typed, TypeField(text)
    PROVE  Quiet
<1> DEFINE was == ActiveTab(FrontTabs)
           mid == CellFinished(was)
           tab == [mid EXCEPT !.draft.text = text]
<1>1. AtTab /\ was \in GoodTabs /\ was.draft # None
  BY FrontIs, ActiveIs DEF TypeField, AtTab
<1>2. mid \in GoodTabs /\ Alike(mid, was)
  BY <1>1, FrontIs, CellFinishedIs
<1>3. Shows(tab) /\ cell' = None
  BY DEF TypeField
<1>4. tab \in GoodTabs /\ Alike(tab, mid)
  <2>1. mid.draft \in Drafts
    BY <1>1, FrontIs, TabIs, CellFinishedIs
  <2> HIDE DEF mid
  <2> QED
    BY <2>1, <1>2, TypedIs
<1> HIDE DEF mid, tab
<1>5. Alike(tab, was)
  BY <1>2, <1>4 DEF Alike
<1> QED
  BY <1>1, <1>3, <1>4, <1>5, ShowsTab

LEMMA CellSteps ==
    ASSUME Core, (\E text \in Boxed : TypeCell(text)) \/ CancelCell \/ FinishCell
    PROVE  Quiet
<1> DEFINE tab == CellFinished(ActiveTab(FrontTabs))
<1>1. AtTab /\ ActiveTab(FrontTabs) \in GoodTabs
  BY FrontIs, ActiveIs DEF TypeCell, CancelCell, FinishCell, AtTab
<1>2. cell' \in Boxes \cup {None}
  <2>1. CASE \E text \in Boxed : TypeCell(text)
    BY <2>1, Bounds, FrontIs DEF TypeCell, Boxes, Drafts
  <2>2. CASE CancelCell \/ FinishCell
    BY <2>2 DEF CancelCell, FinishCell
  <2> QED
    BY <2>1, <2>2
<1>3. CASE tabs' = tabs
  BY <1>1, <1>2, <1>3, FrontsAtTab, ListsStay DEF Quiet
<1>4. CASE FinishCell
  <2>1. tab \in GoodTabs /\ Alike(tab, ActiveTab(FrontTabs))
    BY <1>1, FrontIs, CellFinishedIs
  <2>2. Shows(tab)
    BY <1>4 DEF FinishCell
  <2> HIDE DEF tab
  <2> QED
    BY <1>1, <1>2, <2>1, <2>2, ShowsTab
<1> QED
  BY <1>3, <1>4 DEF TypeCell, CancelCell

LEMMA RowSteps ==
    ASSUME Core, NEW n \in NewRows, AddRows(n) \/ PasteRows(n)
    PROVE  Quiet
<1> DEFINE was == ActiveTab(FrontTabs)
           kept == Stashed(was)
<1>1. AtTab /\ was \in GoodTabs /\ cell' \in Boxes \cup {None} /\ Len(was.inserts) + n <= MaxInserts
  <2>1. AtTab /\ cell' = cell /\ Len(was.inserts) + n <= MaxInserts
    BY DEF AddRows, PasteRows, RoomFor, AtWork
  <2> QED
    BY <2>1, FrontIs, ActiveIs DEF AtTab
<1>2. kept \in GoodTabs /\ Alike(kept, was) /\ kept.inserts = was.inserts
  BY <1>1, StashedIs
<1>3. Shows(RowsAdded(kept, n)) \/ Shows(RowsAdded(was, n))
  BY DEF AddRows, PasteRows
<1> HIDE DEF was, kept
<1>4. /\ RowsAdded(was, n) \in GoodTabs /\ Alike(RowsAdded(was, n), was)
      /\ RowsAdded(kept, n) \in GoodTabs /\ Alike(RowsAdded(kept, n), kept)
  BY <1>1, <1>2, RowsAddedIs
<1>5. Alike(RowsAdded(kept, n), was)
  BY <1>2, <1>4 DEF Alike
<1> QED
  BY <1>1, <1>3, <1>4, <1>5, ShowsTab DEF was

LEMMA InsertSteps ==
    ASSUME Core, NEW n \in NewRows, EditInsert(n) \/ RemoveInsert(n)
    PROVE  Quiet
<1> DEFINE was == ActiveTab(FrontTabs)
           kept == Stashed(was)
           bare == Unselected(kept)
           opened == [bare EXCEPT !.form = n]
<1>1. AtTab /\ was \in GoodTabs /\ cell' \in Boxes \cup {None} /\ n \in DOMAIN was.inserts
  <2>1. AtTab /\ cell' = cell /\ n \in DOMAIN was.inserts
    BY DEF EditInsert, RemoveInsert
  <2> QED
    BY <2>1, FrontIs, ActiveIs DEF AtTab
<1>2. CASE RemoveInsert(n)
  <2>1. Shows(InsertRemoved(was, n))
    BY <1>2 DEF RemoveInsert
  <2> HIDE DEF was
  <2>2. InsertRemoved(was, n) \in GoodTabs /\ Alike(InsertRemoved(was, n), was)
    BY <1>1, InsertRemovedIs
  <2> QED
    BY <1>1, <2>1, <2>2, ShowsTab DEF was
<1>3. CASE EditInsert(n)
  <2>1. Shows(opened)
    BY <1>3 DEF EditInsert
  <2>2. kept \in GoodTabs /\ Alike(kept, was) /\ kept.inserts = was.inserts
    BY <1>1, StashedIs
  <2> HIDE DEF kept, was
  <2>3. bare \in GoodTabs /\ Alike(bare, kept) /\ bare.inserts = kept.inserts
    BY <2>2, UnselectedIs DEF SameWork
  <2> HIDE DEF bare
  <2>4. n \in 1..Len(bare.inserts) /\ n \in 0..MaxInserts
    BY <1>1, <2>2, <2>3, TabIs, LenProperties, Bounds
  <2>5. opened \in Tab /\ opened.form = n /\ opened.inserts = bare.inserts /\ Alike(opened, bare)
    BY <2>3, <2>4, TabIs DEF Tab, Alike
  <2> HIDE DEF opened
  <2>6. opened \in GoodTabs
    BY <2>3, <2>4, <2>5, TabIs DEF GoodTabs
  <2>7. Alike(opened, was)
    BY <2>2, <2>3, <2>5 DEF Alike
  <2> QED
    BY <1>1, <2>1, <2>6, <2>7, ShowsTab DEF was
<1> QED
  BY <1>2, <1>3

LEMMA TypeInsertSteps ==
    ASSUME Core, NEW parses \in BOOLEAN, TypeInsert(parses)
    PROVE  Quiet
<1> DEFINE was == ActiveTab(FrontTabs)
           rows == [was.inserts EXCEPT ![was.form].parses = parses]
           tab == [was EXCEPT !.inserts[was.form].parses = parses]
<1>1. AtTab /\ was \in GoodTabs /\ cell' \in Boxes \cup {None} /\ was.form # 0
  <2>1. AtTab /\ cell' = cell /\ was.form # 0
    BY DEF TypeInsert
  <2> QED
    BY <2>1, FrontIs, ActiveIs DEF AtTab
<1>2. Shows(tab)
  BY DEF TypeInsert
<1> HIDE DEF was
<1>3. /\ was.inserts \in Seq(NewRow) /\ Len(was.inserts) \in Nat /\ Len(was.inserts) <= MaxInserts
      /\ was.form \in 1..Len(was.inserts)
  BY <1>1, TabIs
<1>4. rows \in [1..Len(was.inserts) -> NewRow]
  <2> DEFINE typed == [was.inserts[was.form] EXCEPT !.parses = parses]
  <2>1. was.inserts \in [1..Len(was.inserts) -> NewRow]
    BY <1>3, LenProperties
  <2>2. typed \in NewRow
    BY <2>1, <1>3 DEF NewRow
  <2>3. rows = [was.inserts EXCEPT ![was.form] = typed]
    OBVIOUS
  <2> HIDE DEF typed, rows
  <2> QED
    BY <2>1, <2>2, <2>3
<1>5. rows \in Seq(NewRow) /\ Len(rows) = Len(was.inserts)
  <2> HIDE DEF rows
  <2> QED
    BY <1>3, <1>4, SeqDef, LenProperties
<1>6. tab = [was EXCEPT !.inserts = rows, !.form = was.form]
  BY <1>1, TabIs DEF Tab
<1> HIDE DEF tab, rows
<1>7. [was EXCEPT !.inserts = rows, !.form = was.form] \in GoodTabs
  <2>1. was.form \in Nat /\ was.form <= Len(rows) /\ Len(rows) <= MaxInserts
    BY <1>3, <1>5
  <2> QED
    BY <1>1, <1>5, <2>1, TabWithRows
<1>8. Alike([was EXCEPT !.inserts = rows, !.form = was.form], was)
  BY <1>1, TabIs DEF Alike, Tab
<1> QED
  BY <1>1, <1>2, <1>6, <1>7, <1>8, ShowsTab DEF was

LEMMA DeleteSelectedSteps ==
    ASSUME Core, DeleteSelected
    PROVE  Quiet
<1> DEFINE was == ActiveTab(FrontTabs)
           kept == Stashed(was)
           edits == [kept.edits EXCEPT ![was.row] = Stored]
           tab == [kept EXCEPT !.edits[was.row] = Stored, !.deletes = @ \cup {was.row}]
<1>1. AtTab /\ was \in GoodTabs /\ cell' \in Boxes \cup {None}
      /\ (was.form # 0 \/ was.row # None)
  <2>1. AtTab /\ cell' = cell /\ (was.form # 0 \/ was.row # None)
    BY DEF DeleteSelected
  <2> QED
    BY <2>1, FrontIs, ActiveIs DEF AtTab
<1>2. CASE was.form # 0
  <2>1. Shows(InsertRemoved(was, was.form))
    BY <1>2 DEF DeleteSelected
  <2> HIDE DEF was
  <2>2. was.form \in DOMAIN was.inserts
    BY <1>1, <1>2, TabIs, LenProperties
  <2>3. /\ InsertRemoved(was, was.form) \in GoodTabs
        /\ Alike(InsertRemoved(was, was.form), was)
    BY <1>1, <2>2, InsertRemovedIs
  <2> QED
    BY <1>1, <2>1, <2>3, ShowsTab DEF was
<1>3. CASE ~(was.form # 0)
  <2>1. Shows(tab)
    BY <1>3 DEF DeleteSelected
  <2>2. kept \in GoodTabs /\ Alike(kept, was)
    BY <1>1, StashedIs
  <2> HIDE DEF was, kept
  <2>3. was.row \in Rows
    BY <1>1, <1>3, TabIs
  <2>4. edits \in [Rows -> Texts \cup {Stored}] /\ kept.deletes \cup {was.row} \in SUBSET Rows
    BY <2>2, <2>3, TabIs
  <2>5. tab = [kept EXCEPT !.edits = edits, !.deletes = kept.deletes \cup {was.row}]
    BY <2>2, TabIs DEF Tab
  <2> HIDE DEF edits, tab
  <2>6. /\ tab \in Tab /\ tab.inserts = kept.inserts /\ tab.form = kept.form
        /\ Alike(tab, kept)
    BY <2>2, <2>4, <2>5, TabIs DEF Tab, Alike
  <2>7. tab \in GoodTabs /\ Alike(tab, was)
    BY <2>2, <2>6, TabWith DEF Alike
  <2> QED
    BY <1>1, <2>1, <2>7, ShowsTab DEF was
<1> QED
  BY <1>2, <1>3

LEMMA DiscardSteps ==
    ASSUME Core, DiscardPendingEdits
    PROVE  Quiet
<1> DEFINE was == ActiveTab(FrontTabs)
           bare == Cleared(was)
           draft == [was.draft EXCEPT !.text = Stored]
           tab == [bare EXCEPT !.draft.text = Stored, !.refused = FALSE]
<1>1. AtTab /\ was \in GoodTabs /\ cell' \in Boxes \cup {None}
  <2>1. AtTab /\ cell' = cell
    BY DEF DiscardPendingEdits
  <2> QED
    BY <2>1, FrontIs, ActiveIs DEF AtTab
<1>2. bare \in GoodTabs /\ Alike(bare, was) /\ bare.draft = was.draft
  BY <1>1, ClearedIs
<1>3. Shows(bare) \/ (was.draft # None /\ Shows(tab))
  BY DEF DiscardPendingEdits
<1> HIDE DEF was, bare
<1>4. ASSUME was.draft # None
      PROVE  tab \in GoodTabs /\ Alike(tab, was)
  <2>1. draft \in Drafts
    BY <1>1, <1>4, TabIs DEF Drafts, Typed
  <2>2. tab = [bare EXCEPT !.draft = draft, !.refused = FALSE]
    BY <1>2, TabIs DEF Tab
  <2> HIDE DEF draft, tab
  <2>3. tab \in Tab /\ tab.inserts = bare.inserts /\ tab.form = bare.form /\ Alike(tab, bare)
    BY <1>2, <2>1, <2>2, TabIs DEF Tab, Alike
  <2> QED
    BY <1>2, <2>3, TabWith DEF Alike
<1> HIDE DEF tab
<1> QED
  BY <1>1, <1>2, <1>3, <1>4, ShowsTab DEF was

-----------------------------------------------------------------------------
(* Tabs and connections *)

\* With no question up, the list in front becomes another that is calm.
LEMMA ListSteps ==
    ASSUME Core, Free, NEW ts, Calm(ts, FrontTabs), tabs' = [tabs EXCEPT ![front] = ts],
           cell' \in Boxes \cup {None},
           UNCHANGED <<open, front, up, list, guard, question, commits>>
    PROVE  Quiet
<1>1. Moves
  BY FrontIs, ListSet
<1>2. Fronts' /\ guard' = None /\ question' = None
  BY DEF Core, Fronts, Free
<1> QED
  BY <1>1, <1>2 DEF Quiet

LEMMA OpenTableSteps ==
    ASSUME Core, NEW t \in Tables, OpenTable(t)
    PROVE  Quiet
<1> DEFINE left == Left(FrontTabs)
           wide == FocusOrPush(left, NewTab(t))
           last == Left(wide)
           new  == Loading(last, front)
<1>1. ListOK(FrontTabs) /\ cell \in Boxes \cup {None} /\ FrontTabs = tabs[front]
  BY FrontIs
<1>2. Calm(left, FrontTabs) /\ ListOK(left)
  BY <1>1, LeftIs DEF Calm
<1>3. wide.next <= MaxTabs /\ cell' = None /\ Free
      /\ tabs' = [tabs EXCEPT ![front] = new]
      /\ UNCHANGED <<open, front, up, list, guard, question, commits>>
  BY DEF OpenTable
<1> HIDE DEF left
<1>4. Calm(wide, left) /\ ListOK(wide)
  BY <1>2, <1>3, FocusOrPushOK DEF Calm
<1> HIDE DEF wide
<1>5. Calm(last, wide) /\ ListOK(last)
  BY <1>1, <1>4, LeftIs DEF Calm
<1> HIDE DEF last
<1>6. Calm(new, last)
  BY <1>5, LoadingIs
<1> HIDE DEF new
<1>7. Calm(new, FrontTabs)
  BY <1>1, <1>2, <1>4, <1>5, <1>6, CalmSince
<1> QED
  BY <1>3, <1>7, ListSteps

LEMMA ReloadSteps ==
    ASSUME Core, Reload
    PROVE  Quiet
<1> DEFINE left == Left(FrontTabs)
           new  == Loading(left, front)
<1>1. ListOK(FrontTabs) /\ cell \in Boxes \cup {None} /\ FrontTabs = tabs[front]
  BY FrontIs
<1>2. Calm(left, FrontTabs) /\ ListOK(left)
  BY <1>1, LeftIs DEF Calm
<1>3. /\ cell' = None /\ Free /\ tabs' = [tabs EXCEPT ![front] = new]
      /\ UNCHANGED <<open, front, up, list, guard, question, commits>>
  BY <1>1 DEF Reload, AtTab, Core, ListsOK
<1> HIDE DEF left
<1>4. Calm(new, left)
  BY <1>2, LoadingIs
<1> HIDE DEF new
<1>5. Calm(new, FrontTabs)
  BY <1>1, <1>2, <1>4, CalmSince
<1> QED
  BY <1>3, <1>5, ListSteps

LEMMA ActivateTabSteps ==
    ASSUME Core, NEW i \in 1..MaxTabs, ActivateTab(i)
    PROVE  Quiet
<1> DEFINE left == Left(FrontTabs)
           mid  == Activated(left, i)
           new  == LoadingIfEmpty(mid, front)
<1>1. ListOK(FrontTabs) /\ cell \in Boxes \cup {None} /\ FrontTabs = tabs[front]
  BY FrontIs
<1>2. Calm(left, FrontTabs) /\ ListOK(left) /\ Same(left, FrontTabs)
  BY <1>1, LeftIs DEF Calm
<1>3. /\ cell' = None /\ Free /\ i \in DOMAIN FrontTabs.items
      /\ UNCHANGED <<open, front, up, list, guard, question, commits>>
  BY DEF ActivateTab, AtTab, ToFront
<1>4. tabs' = [tabs EXCEPT ![front] = LoadingIfEmpty(mid, front)]
  BY DEF ActivateTab, ToFront
<1>5. i \in DOMAIN left.items
  BY <1>2, <1>3 DEF Same
<1> HIDE DEF left
<1>6. Calm(mid, left) /\ ListOK(mid)
  BY <1>2, <1>5, ActivatedOK DEF Calm
<1> HIDE DEF mid
<1>7. Calm(new, mid)
  BY <1>6, LoadingIs
<1>8. tabs' = [tabs EXCEPT ![front] = new]
  BY <1>4
<1> HIDE DEF new
<1>9. Calm(new, FrontTabs)
  BY <1>1, <1>2, <1>6, <1>7, CalmSince
<1> QED
  BY <1>3, <1>8, <1>9, ListSteps

\* Every tab of the list loses its draft and what it shows.
LEMMA DroppedIs ==
    ASSUME NEW ts, ListOK(ts)
    PROVE  LET new == [ts EXCEPT !.items =
                          [i \in DOMAIN @ |-> [Unselected(@[i]) EXCEPT !.shown = FALSE]]]
           IN  Calm(new, ts) /\ Same(new, ts)
<1> DEFINE items == [i \in DOMAIN ts.items |-> [Unselected(ts.items[i]) EXCEPT !.shown = FALSE]]
           new   == [ts EXCEPT !.items = items]
<1>1. ASSUME NEW i \in DOMAIN ts.items
      PROVE  /\ items[i] \in GoodTabs /\ Alike(items[i], ts.items[i])
  <2> DEFINE bare == Unselected(ts.items[i])
  <2>1. bare \in GoodTabs /\ Alike(bare, ts.items[i])
    BY ListIs, UnselectedIs
  <2>2. items[i] = [bare EXCEPT !.shown = FALSE]
    OBVIOUS
  <2> HIDE DEF bare, items
  <2>3. /\ [bare EXCEPT !.shown = FALSE] \in GoodTabs
        /\ Alike([bare EXCEPT !.shown = FALSE], bare)
    BY <2>1, FlagsAre
  <2> QED
    BY <2>1, <2>2, <2>3 DEF Alike
<1>2. items \in [DOMAIN ts.items -> GoodTabs]
  <2>1. items = [i \in DOMAIN ts.items |-> items[i]]
    OBVIOUS
  <2> QED
    BY <1>1
<1> HIDE DEF items
<1>3. ListOK(new) /\ new.items = items /\ Same(new, ts)
  BY <1>1, <1>2, ItemsSet DEF Alike
<1> HIDE DEF new
<1>4. Calm(new, ts)
  BY <1>1, <1>3, ListIs DEF Calm, Same, Alike
<1> QED
  BY <1>3, <1>4 DEF new, items

LEMMA DisconnectSteps ==
    ASSUME Core, NEW c \in Conns, Disconnect(c)
    PROVE  Quiet
<1> DEFINE new == [tabs[c] EXCEPT !.items =
                      [i \in DOMAIN @ |-> [Unselected(@[i]) EXCEPT !.shown = FALSE]]]
<1>1. Calm(new, tabs[c])
  BY FrontIs, DroppedIs
<1>2. tabs' = [tabs EXCEPT ![c] = new]
  BY DEF Disconnect
<1> HIDE DEF new
<1>3. /\ Free /\ UNCHANGED <<open, front, list, cell, guard, question, commits>>
      /\ up' = up \ {c}
  BY DEF Disconnect
<1>4. Moves
  BY <1>1, <1>2, <1>3, ListSet
<1>5. Fronts' /\ guard' = None /\ question' = None
  BY <1>3 DEF Core, Fronts, Free
<1> QED
  BY <1>4, <1>5 DEF Quiet

LEMMA SelectConnectionSteps ==
    ASSUME Core, NEW c \in Conns, SelectConnection(c)
    PROVE  Quiet
<1> DEFINE left == Left(FrontTabs)
           there == LoadingIfEmpty(tabs[c], c)
<1>1. /\ Free /\ c # front /\ open' = open \cup {c} /\ front' = c /\ cell' = None
      /\ tabs' = Swapped(c) /\ UNCHANGED <<up, list, guard, question, commits>>
  BY DEF SelectConnection
<1>2. Fronts' /\ guard' = None /\ question' = None
  BY <1>1 DEF Core, Fronts, Free
<1>3. Calm(left, FrontTabs)
  BY FrontIs, LeftIs
<1>4. Calm(there, tabs[c])
  BY FrontIs, LoadingIs
<1>5. tabs' = [tabs EXCEPT ![front] = left, ![c] = there]
  BY <1>1, FrontIs DEF Swapped, Core, ListsOK
<1> HIDE DEF left, there
<1>6. left \in TabLists /\ there \in TabLists
  BY <1>3, <1>4 DEF Calm, ListOK
<1>7. tabs \in [Conns \cup {NoConn} -> TabLists] /\ \A d \in Conns \cup {NoConn} : ListOK(tabs[d])
  BY DEF Core, ListsOK
<1>8. /\ tabs' \in [Conns \cup {NoConn} -> TabLists]
      /\ \A d \in Conns \cup {NoConn} :
            tabs'[d] = IF d = c THEN there ELSE IF d = front THEN left ELSE tabs[d]
  BY <1>1, <1>5, <1>6, <1>7, FrontIs
<1>9. \A d \in Conns \cup {NoConn} : Calm(tabs'[d], tabs[d])
  BY <1>3, <1>4, <1>7, <1>8, FrontIs, CalmItself
<1>10. ListsOK'
  BY <1>8, <1>9 DEF ListsOK, Calm
<1>11. Moves
  BY <1>1, <1>9, <1>10 DEF Moves
<1> QED
  BY <1>2, <1>11 DEF Quiet

-----------------------------------------------------------------------------
(* How much is staged *)

NewNames(tab) == {tab.inserts[i].row : i \in DOMAIN tab.inserts}

LEMMA StagedIs ==
    ASSUME NEW tab \in GoodTabs
    PROVE  /\ IsFiniteSet(Edited(tab)) /\ IsFiniteSet(tab.deletes) /\ IsFiniteSet(NewNames(tab))
           /\ IsFiniteSet(Staged(tab)) /\ Cardinality(Staged(tab)) \in Nat
           /\ Cardinality(Staged(tab)) = Cardinality(Edited(tab)) + Cardinality(tab.deletes)
                                         + Cardinality(NewNames(tab))
<1> DEFINE E == {"edit"} \X Edited(tab)
           D == {"delete"} \X tab.deletes
           I == {"insert"} \X NewNames(tab)
<1>1. IsFiniteSet(Edited(tab)) /\ IsFiniteSet(tab.deletes)
  <2>1. Edited(tab) \in SUBSET Rows /\ tab.deletes \in SUBSET Rows
    BY TabIs DEF Edited
  <2> QED
    BY <2>1, Bounds, FS_Subset
<1>2. IsFiniteSet(NewNames(tab))
  <2>1. NewNames(tab) \in SUBSET NewRows
    <3>1. \A i \in DOMAIN tab.inserts : tab.inserts[i] \in NewRow
      BY TabIs, LenProperties
    <3> QED
      BY <3>1 DEF NewNames, NewRow
  <2>2. IsFiniteSet(NewRows)
    BY Bounds, FS_Interval DEF NewRows
  <2> QED
    BY <2>1, <2>2, FS_Subset
<1>3. ASSUME NEW S, IsFiniteSet(S), NEW x
      PROVE  IsFiniteSet({x} \X S) /\ Cardinality({x} \X S) = Cardinality(S) /\ Cardinality(S) \in Nat
  <2>1. IsFiniteSet({x}) /\ Cardinality({x}) = 1 /\ Cardinality(S) \in Nat
    BY <1>3, FS_Singleton, FS_CardinalityType
  <2>2. IsFiniteSet({x} \X S) /\ Cardinality({x} \X S) = Cardinality({x}) * Cardinality(S)
    BY <1>3, <2>1, FS_Product
  <2> QED
    BY <2>1, <2>2
<1>4. /\ IsFiniteSet(E) /\ Cardinality(E) = Cardinality(Edited(tab)) /\ Cardinality(E) \in Nat
      /\ IsFiniteSet(D) /\ Cardinality(D) = Cardinality(tab.deletes) /\ Cardinality(D) \in Nat
      /\ IsFiniteSet(I) /\ Cardinality(I) = Cardinality(NewNames(tab)) /\ Cardinality(I) \in Nat
  BY <1>1, <1>2, <1>3
<1>5. E \cap D = {} /\ (E \cup D) \cap I = {}
  OBVIOUS
<1>6. Staged(tab) = (E \cup D) \cup I
  BY DEF Staged, NewNames
<1> HIDE DEF E, D, I
<1>7. IsFiniteSet(E \cup D) /\ Cardinality(E \cup D) = Cardinality(E) + Cardinality(D)
  <2>1. Cardinality(E \cup D) = Cardinality(E) + Cardinality(D) - Cardinality(E \cap D)
        /\ IsFiniteSet(E \cup D)
    BY <1>4, FS_Union
  <2>2. Cardinality(E \cap D) = 0
    BY <1>5, FS_EmptySet
  <2> QED
    BY <2>1, <2>2, <1>4
<1>8. /\ IsFiniteSet((E \cup D) \cup I)
      /\ Cardinality((E \cup D) \cup I) = Cardinality(E \cup D) + Cardinality(I)
  <2>1. Cardinality((E \cup D) \cup I) = Cardinality(E \cup D) + Cardinality(I)
                                         - Cardinality((E \cup D) \cap I)
        /\ IsFiniteSet((E \cup D) \cup I)
    BY <1>4, <1>7, FS_Union
  <2>2. Cardinality((E \cup D) \cap I) = 0
    BY <1>5, FS_EmptySet
  <2> QED
    BY <2>1, <2>2, <1>4, <1>7
<1> QED
  BY <1>1, <1>2, <1>4, <1>6, <1>7, <1>8

\* What is staged tells the tabs apart, and nothing else does.
LEMMA SameStaged ==
    ASSUME NEW new, NEW tab, SameWork(new, tab)
    PROVE  Staged(new) = Staged(tab)
BY DEF SameWork, Staged, Edited

LEMMA MoreStaged ==
    ASSUME NEW new \in GoodTabs, NEW tab \in GoodTabs, Staged(new) \subseteq Staged(tab)
    PROVE  Cardinality(Staged(new)) <= Cardinality(Staged(tab))
BY StagedIs, FS_Subset

\* The draft folded in, of a tab whose work and draft are the same.
LEMMA SameDraft ==
    ASSUME NEW new \in GoodTabs, NEW tab \in GoodTabs, SameWork(new, tab),
           new.draft = tab.draft, new.shown = tab.shown
    PROVE  /\ Staged(Stashed(new)) = Staged(Stashed(tab))
           /\ Stashed(new).edits = Stashed(tab).edits
           /\ Merged(new) <=> Merged(tab)
           /\ Folds(new) <=> Folds(tab)
<1>1. Merges(new) <=> Merges(tab)
  BY DEF Merges
<1>2. Stashed(new).edits = Stashed(tab).edits
  <2>1. CASE Merges(tab)
    <3>1. Stashed(new).edits = [new.edits EXCEPT ![new.draft.row] =
            IF new.draft.row \in new.deletes THEN Stored ELSE new.draft.text]
      BY <2>1, <1>1, StashedIs, Zenon
    <3>2. Stashed(tab).edits = [tab.edits EXCEPT ![tab.draft.row] =
            IF tab.draft.row \in tab.deletes THEN Stored ELSE tab.draft.text]
      BY <2>1, StashedIs, Zenon
    <3>3. new.edits = tab.edits /\ new.deletes = tab.deletes
      BY DEF SameWork
    <3> QED
      BY <3>1, <3>2, <3>3
  <2>2. CASE ~Merges(tab)
    BY <2>2, <1>1, StashedIs, Zenon DEF SameWork
  <2> QED
    BY <2>1, <2>2
<1>3. SameWork(Stashed(new), Stashed(tab))
  BY <1>2, StashedIs DEF SameWork
<1> QED
  BY <1>2, <1>3, SameStaged DEF Merged, Folds, SameWork

\* Folded in once, it is folded in for good.
LEMMA StashedTwice ==
    ASSUME NEW tab \in GoodTabs
    PROVE  /\ Folds(Stashed(tab)) /\ Merged(Stashed(tab))
           /\ Staged(Stashed(Stashed(tab))) = Staged(Stashed(tab))
<1> DEFINE new == Stashed(tab)
           value == IF tab.draft.row \in tab.deletes THEN Stored ELSE tab.draft.text
<1>1. /\ new \in GoodTabs /\ new.draft = tab.draft /\ new.shown = tab.shown
      /\ new.deletes = tab.deletes /\ new.inserts = tab.inserts
      /\ new.edits = IF Merges(tab) THEN [tab.edits EXCEPT ![tab.draft.row] = value] ELSE tab.edits
  BY StashedIs
<1>2. Merges(new) <=> Merges(tab)
  BY <1>1 DEF Merges
<1>3. Merges(tab) => tab.draft.row \in Rows
  BY TabIs DEF Merges, Drafts
<1>4. /\ Stashed(new).deletes = new.deletes /\ Stashed(new).inserts = new.inserts
      /\ Stashed(new).edits = IF Merges(new) THEN [new.edits EXCEPT ![tab.draft.row] = value]
                              ELSE new.edits
  <2> HIDE DEF new
  <2> QED
    BY <1>1, StashedIs
<1>5. tab.edits \in [Rows -> Texts \cup {Stored}]
  BY TabIs
<1> HIDE DEF new, value
<1>6. Merges(tab) => new.edits[tab.draft.row] = value
  BY <1>1, <1>3, <1>5
<1>7. Merges(tab) => [new.edits EXCEPT ![tab.draft.row] = value] = new.edits
  BY <1>1, <1>3, <1>5
<1>8. Stashed(new).edits = new.edits
  BY <1>2, <1>4, <1>7
<1>9. SameWork(Stashed(new), new)
  BY <1>4, <1>8 DEF SameWork
<1> QED
  BY <1>8, <1>9, SameStaged DEF Folds, Merged, new

\* With nothing staged but the draft, folding it in counts as much as without.
LEMMA MergedCounts ==
    ASSUME NEW tab \in GoodTabs, Merged(tab)
    PROVE  Cardinality(Staged(tab)) <= Cardinality(Staged(Stashed(tab)))
<1> DEFINE new == Stashed(tab)
<1>1. /\ new \in GoodTabs /\ new.deletes = tab.deletes /\ new.inserts = tab.inserts
      /\ new.edits = IF Merges(tab)
                     THEN [tab.edits EXCEPT ![tab.draft.row] =
                             IF tab.draft.row \in tab.deletes THEN Stored ELSE tab.draft.text]
                     ELSE tab.edits
  BY StashedIs
<1>2. Merges(tab) => tab.edits[tab.draft.row] \in {Stored, new.edits[tab.draft.row]}
  BY DEF Merged, Merges
<1>3. tab.edits \in [Rows -> Texts \cup {Stored}]
  BY TabIs
<1> HIDE DEF new
<1>4. \A r \in Rows : tab.edits[r] # Stored => new.edits[r] # Stored
  BY <1>1, <1>2, <1>3
<1>5. Staged(tab) \subseteq Staged(new)
  BY <1>1, <1>4 DEF Staged, Edited
<1> QED
  BY <1>1, <1>5, MoreStaged DEF new

LEMMA FoldsCounts ==
    ASSUME NEW tab \in GoodTabs, Folds(tab)
    PROVE  Staged(Stashed(tab)) = Staged(tab) /\ Merged(tab)
<1> DEFINE new == Stashed(tab)
           value == IF tab.draft.row \in tab.deletes THEN Stored ELSE tab.draft.text
<1>1. /\ new.deletes = tab.deletes /\ new.inserts = tab.inserts
      /\ new.edits = IF Merges(tab) THEN [tab.edits EXCEPT ![tab.draft.row] = value] ELSE tab.edits
  BY StashedIs
<1>2. Merges(tab) => tab.edits[tab.draft.row] = new.edits[tab.draft.row] /\ tab.draft.row \in Rows
  BY TabIs DEF Folds, Merges, Drafts
<1>3. tab.edits \in [Rows -> Texts \cup {Stored}]
  BY TabIs
<1> HIDE DEF new, value
<1>4. new.edits = tab.edits
  BY <1>1, <1>2, <1>3
<1>5. SameWork(new, tab)
  BY <1>1, <1>4 DEF SameWork
<1>6. Merged(tab)
  BY DEF Folds, Merged
<1> QED
  BY <1>5, <1>6, SameStaged DEF new

\* After a commit only the draft is left, which was counted before.
LEMMA ClearedCounts ==
    ASSUME NEW tab \in GoodTabs, NEW new \in GoodTabs,
           new.edits = [r \in Rows |-> Stored], new.deletes = {}, new.inserts = <<>>,
           new.draft = tab.draft, new.shown = tab.shown
    PROVE  /\ Staged(new) = {} /\ Merged(new)
           /\ Cardinality(Staged(Stashed(new))) <= Cardinality(Staged(Stashed(tab)))
<1>1. Staged(new) = {}
  BY DEF Staged, Edited
<1>2. Merged(new)
  BY TabIs DEF Merged, Drafts
<1>3. Merges(new) <=> Merges(tab)
  BY DEF Merges
<1>4. /\ Stashed(new) \in GoodTabs /\ Stashed(new).deletes = {} /\ Stashed(new).inserts = <<>>
      /\ Stashed(new).edits = IF Merges(tab) THEN [new.edits EXCEPT ![tab.draft.row] = tab.draft.text]
                              ELSE new.edits
  BY <1>3, StashedIs
<1>5. /\ Stashed(tab) \in GoodTabs /\ Stashed(tab).deletes = tab.deletes
      /\ Merges(tab) => Stashed(tab).edits = [tab.edits EXCEPT ![tab.draft.row] =
                             IF tab.draft.row \in tab.deletes THEN Stored ELSE tab.draft.text]
  BY StashedIs
<1>6. Cardinality(Staged(Stashed(tab))) \in Nat /\ IsFiniteSet(Staged(Stashed(tab)))
  BY <1>5, StagedIs
<1>7. CASE ~Merges(tab)
  <2>1. Staged(Stashed(new)) = {}
    BY <1>4, <1>7 DEF Staged, Edited
  <2> QED
    BY <1>1, <1>2, <1>6, <2>1, FS_EmptySet
<1>8. CASE Merges(tab) /\ tab.draft.text = Stored
  <2>1. tab.draft.row \in Rows
    BY <1>8, TabIs DEF Merges, Drafts
  <2>2. \A r \in Rows : Stashed(new).edits[r] = Stored
    BY <1>4, <1>8, <2>1
  <2>3. Staged(Stashed(new)) = {}
    BY <1>4, <2>2 DEF Staged, Edited
  <2> QED
    BY <1>1, <1>2, <1>6, <2>3, FS_EmptySet
<1>9. CASE Merges(tab) /\ tab.draft.text # Stored
  <2>1. tab.draft.row \in Rows /\ tab.edits \in [Rows -> Texts \cup {Stored}]
    BY <1>9, TabIs DEF Merges, Drafts
  <2>2. \A r \in Rows : Stashed(new).edits[r] # Stored <=> r = tab.draft.row
    BY <1>4, <1>9, <2>1
  <2>3. Staged(Stashed(new)) = {<<"edit", tab.draft.row>>}
    <3>1. Edited(Stashed(new)) = {tab.draft.row}
      BY <2>1, <2>2 DEF Edited
    <3> QED
      BY <3>1, <1>4 DEF Staged
  <2>4. Cardinality(Staged(Stashed(new))) = 1
    BY <2>3, FS_Singleton
  <2>5. Staged(Stashed(tab)) # {}
    <3>1. CASE tab.draft.row \in tab.deletes
      <4>1. <<"delete", tab.draft.row>> \in Staged(Stashed(tab))
        BY <3>1, <1>5 DEF Staged
      <4> QED
        BY <4>1
    <3>2. CASE tab.draft.row \notin tab.deletes
      <4>1. Stashed(tab).edits[tab.draft.row] = tab.draft.text
        BY <3>2, <2>1, <1>5, <1>9
      <4>2. <<"edit", tab.draft.row>> \in Staged(Stashed(tab))
        BY <4>1, <2>1, <1>9 DEF Staged, Edited
      <4> QED
        BY <4>2
    <3> QED
      BY <3>1, <3>2
  <2>6. Cardinality(Staged(Stashed(tab))) # 0
    BY <2>5, <1>6, FS_EmptySet
  <2> QED
    BY <1>1, <1>2, <1>6, <2>4, <2>6
<1> QED
  BY <1>7, <1>8, <1>9

LEMMA StagedOnFinite ==
    ASSUME NEW ts, ListOK(ts), NEW ids
    PROVE  IsFiniteSet(StagedOn(ts, ids)) /\ Cardinality(StagedOn(ts, ids)) \in Nat
<1> DEFINE n == Len(ts.items)
           part == [i \in 1..n |-> {ts.items[i].id} \X Staged(ts.items[i])]
           all == {part[i] : i \in 1..n}
<1>1. n \in Nat /\ DOMAIN ts.items = 1..n /\ \A i \in 1..n : ts.items[i] \in GoodTabs
  BY ListIs
<1>2. IsFiniteSet(1..n)
  BY <1>1, FS_Interval
<1>3. part \in Surjection(1..n, all)
  BY DEF Surjection
<1>4. IsFiniteSet(all)
  BY <1>2, <1>3, FS_Surjection
<1>5. \A S \in all : IsFiniteSet(S)
  <2> SUFFICES ASSUME NEW i \in 1..n PROVE IsFiniteSet(part[i])
    OBVIOUS
  <2>1. IsFiniteSet({ts.items[i].id}) /\ IsFiniteSet(Staged(ts.items[i]))
    BY <1>1, StagedIs, FS_Singleton
  <2> QED
    BY <2>1, FS_Product
<1>6. IsFiniteSet(UNION all)
  BY <1>4, <1>5, FS_UNION
<1>7. StagedOn(ts, ids) \in SUBSET (UNION all)
  <2> SUFFICES ASSUME NEW x \in StagedOn(ts, ids) PROVE x \in UNION all
    OBVIOUS
  <2>1. PICK tab \in ToSet(ts.items) : x \in {tab.id} \X Staged(tab)
    BY DEF StagedOn
  <2>2. PICK i \in 1..n : tab = ts.items[i]
    BY <2>1, <1>1 DEF ToSet
  <2>3. x \in part[i]
    BY <2>1, <2>2
  <2> QED
    BY <2>3
<1> QED
  BY <1>6, <1>7, FS_Subset, FS_CardinalityType

\* One tab of a list has no more staged than it had, the others the same.
LEMMA OneLess ==
    ASSUME NEW old, ListOK(old), NEW new, ListOK(new), Same(new, old), NEW ids,
           NEW p \in DOMAIN old.items,
           \A i \in DOMAIN old.items : i # p => Staged(new.items[i]) = Staged(old.items[i]),
           Cardinality(Staged(new.items[p])) <= Cardinality(Staged(old.items[p]))
    PROVE  Cardinality(StagedOn(new, ids)) <= Cardinality(StagedOn(old, ids))
<1> DEFINE at(ts, i) == {ts.items[i].id} \X Staged(ts.items[i])
           kept == {i \in DOMAIN old.items : i # p /\ old.items[i].id \in ids}
           rest == UNION {at(old, i) : i \in kept}
<1>1. /\ old.items[p] \in GoodTabs /\ new.items[p] \in GoodTabs
      /\ new.items[p].id = old.items[p].id /\ DOMAIN new.items = DOMAIN old.items
  BY ListIs DEF Same
<1>2. \A i \in kept : at(new, i) = at(old, i)
  BY DEF Same
<1>3. \A ts \in {old, new} : StagedOn(ts, ids) =
         UNION {at(ts, i) : i \in {j \in DOMAIN ts.items : ts.items[j].id \in ids}}
  BY DEF StagedOn, ToSet
<1>4. \A ts \in {old, new} : DOMAIN ts.items = DOMAIN old.items
         /\ \A i \in DOMAIN ts.items : ts.items[i].id = old.items[i].id
  BY DEF Same
<1>5. \A ts \in {old, new} : StagedOn(ts, ids) =
         rest \cup (IF old.items[p].id \in ids THEN at(ts, p) ELSE {})
  <2> SUFFICES ASSUME NEW ts \in {old, new}
               PROVE  StagedOn(ts, ids) =
                        rest \cup (IF old.items[p].id \in ids THEN at(ts, p) ELSE {})
    OBVIOUS
  <2>1. \A i \in kept : at(ts, i) = at(old, i)
    BY <1>2
  <2>2. rest = UNION {at(ts, i) : i \in kept}
    BY <2>1
  <2>3. {j \in DOMAIN ts.items : ts.items[j].id \in ids}
           = kept \cup (IF old.items[p].id \in ids THEN {p} ELSE {})
    BY <1>4
  <2>4. StagedOn(ts, ids) =
          UNION {at(ts, i) : i \in kept \cup (IF old.items[p].id \in ids THEN {p} ELSE {})}
    BY <1>3, <2>3
  <2> HIDE DEF at, kept, rest
  <2> QED
    BY <2>2, <2>4
<1>6. CASE old.items[p].id \notin ids
  <2>1. StagedOn(new, ids) = StagedOn(old, ids)
    BY <1>5, <1>6
  <2> QED
    BY <2>1, StagedOnFinite
<1>7. CASE old.items[p].id \in ids
  <2> DEFINE A == at(old, p)
             B == at(new, p)
  <2>1. StagedOn(old, ids) = rest \cup A /\ StagedOn(new, ids) = rest \cup B
    BY <1>5, <1>7
  <2>2. \A x \in rest : x[1] # old.items[p].id
    <3>1. \A i \in kept : old.items[i].id # old.items[p].id
      BY DEF ListOK
    <3> QED
      BY <3>1
  <2>3. rest \cap A = {} /\ rest \cap B = {}
    BY <1>1, <2>2
  <2>4. /\ IsFiniteSet(A) /\ Cardinality(A) = Cardinality(Staged(old.items[p]))
        /\ IsFiniteSet(B) /\ Cardinality(B) = Cardinality(Staged(new.items[p]))
        /\ Cardinality(A) \in Nat /\ Cardinality(B) \in Nat
    <3>1. ASSUME NEW S, IsFiniteSet(S), NEW x
          PROVE  /\ IsFiniteSet({x} \X S) /\ Cardinality({x} \X S) = Cardinality(S)
                 /\ Cardinality(S) \in Nat
      <4>1. IsFiniteSet({x}) /\ Cardinality({x}) = 1 /\ Cardinality(S) \in Nat
        BY <3>1, FS_Singleton, FS_CardinalityType
      <4>2. IsFiniteSet({x} \X S) /\ Cardinality({x} \X S) = Cardinality({x}) * Cardinality(S)
        BY <3>1, <4>1, FS_Product
      <4> QED
        BY <4>1, <4>2
    <3> QED
      BY <1>1, <3>1, StagedIs
  <2>5. IsFiniteSet(rest)
    <3>1. rest \in SUBSET StagedOn(old, ids)
      BY <2>1
    <3> QED
      BY <3>1, StagedOnFinite, FS_Subset
  <2> HIDE DEF rest, A, B
  <2>6. Cardinality(rest) \in Nat /\ Cardinality(rest \cap A) = 0 /\ Cardinality(rest \cap B) = 0
    BY <2>3, <2>5, FS_CardinalityType, FS_EmptySet
  <2>7. /\ Cardinality(rest \cup A) = Cardinality(rest) + Cardinality(A) - Cardinality(rest \cap A)
        /\ Cardinality(rest \cup B) = Cardinality(rest) + Cardinality(B) - Cardinality(rest \cap B)
    BY <2>4, <2>5, FS_Union
  <2> QED
    BY <2>1, <2>4, <2>6, <2>7
<1> QED
  BY <1>6, <1>7

\* The tab as it counts: with its draft folded in, if it is the one in front.
Weighed(tab, going) == IF going THEN Stashed(tab) ELSE tab

LEMMA RefoldedIs ==
    ASSUME NEW ts, ListOK(ts), NEW ids
    PROVE  LET new == Refolded(ts, ids)
           IN  /\ ListOK(new) /\ Same(new, ts)
               /\ \A i \in DOMAIN ts.items : new.items[i] =
                     Weighed(ts.items[i], i = ts.active /\ ts.items[i].id \in ids)
<1>1. CASE HasActive(ts) /\ ActiveTab(ts).id \in ids
  <2> DEFINE tab == Stashed(ActiveTab(ts))
  <2>1. /\ ts.active \in DOMAIN ts.items /\ ActiveTab(ts) = ts.items[ts.active]
        /\ tab \in GoodTabs /\ Alike(tab, ActiveTab(ts))
    BY <1>1, ActiveIs, StashedIs
  <2>2. Refolded(ts, ids) = WithTab(ts, tab)
    BY <1>1 DEF Refolded
  <2> HIDE DEF tab
  <2>3. /\ Calm(WithTab(ts, tab), ts) /\ Same(WithTab(ts, tab), ts)
        /\ \A i \in DOMAIN ts.items :
              WithTab(ts, tab).items[i] = IF i = ts.active THEN tab ELSE ts.items[i]
    BY <1>1, <2>1, ActiveSet
  <2>4. \A i \in DOMAIN ts.items :
          (IF i = ts.active THEN tab ELSE ts.items[i])
            = Weighed(ts.items[i], i = ts.active /\ ts.items[i].id \in ids)
    BY <1>1, <2>1 DEF Weighed, tab
  <2> QED
    BY <2>2, <2>3, <2>4 DEF Calm
<1>2. CASE ~(HasActive(ts) /\ ActiveTab(ts).id \in ids)
  <2>1. Refolded(ts, ids) = ts
    BY <1>2 DEF Refolded
  <2>2. \A i \in DOMAIN ts.items : ~(i = ts.active /\ ts.items[i].id \in ids)
    BY <1>2 DEF HasActive, ActiveTab
  <2> QED
    BY <2>1, <2>2, CalmItself DEF Weighed
<1> QED
  BY <1>1, <1>2

LEMMA ReadsLess ==
    ASSUME NEW old, ListOK(old), NEW new, ListOK(new), Same(new, old), NEW ids,
           NEW p \in DOMAIN old.items,
           \A i \in DOMAIN old.items : i # p => new.items[i] = old.items[i],
           LET going == p = old.active /\ old.items[p].id \in ids
           IN  Cardinality(Staged(Weighed(new.items[p], going)))
                  <= Cardinality(Staged(Weighed(old.items[p], going)))
    PROVE  Reads(new, ids) <= Reads(old, ids)
<1> DEFINE was == Refolded(old, ids)
           is  == Refolded(new, ids)
           going(i) == i = old.active /\ old.items[i].id \in ids
<1>1. ListOK(was) /\ Same(was, old) /\ \A i \in DOMAIN old.items : was.items[i] = Weighed(old.items[i], going(i))
  BY RefoldedIs
<1>2. /\ ListOK(is) /\ Same(is, new)
      /\ \A i \in DOMAIN old.items : is.items[i] = Weighed(new.items[i], going(i))
  BY RefoldedIs DEF Same
<1> HIDE DEF was, is
<1>3. Same(is, was) /\ DOMAIN was.items = DOMAIN old.items
  BY <1>1, <1>2 DEF Same
<1>4. \A i \in DOMAIN was.items : i # p => Staged(is.items[i]) = Staged(was.items[i])
  BY <1>1, <1>2, <1>3
<1>5. Cardinality(Staged(is.items[p])) <= Cardinality(Staged(was.items[p]))
  BY <1>1, <1>2
<1>6. Cardinality(StagedOn(is, ids)) <= Cardinality(StagedOn(was, ids))
  BY <1>1, <1>2, <1>3, <1>4, <1>5, OneLess
<1> QED
  BY <1>6 DEF Reads, was, is

\* With nothing to fold in, it counts as it stands.
LEMMA ReadsFolded ==
    ASSUME NEW ts, ListOK(ts), NEW ids,
           \A i \in DOMAIN ts.items : i = ts.active /\ ts.items[i].id \in ids => Folds(ts.items[i])
    PROVE  Reads(ts, ids) <= Cardinality(StagedOn(ts, ids))
<1> DEFINE new == Refolded(ts, ids)
<1>1. /\ ListOK(new) /\ Same(new, ts)
      /\ \A i \in DOMAIN ts.items : new.items[i] =
            Weighed(ts.items[i], i = ts.active /\ ts.items[i].id \in ids)
  BY RefoldedIs
<1>2. \A i \in DOMAIN ts.items : Staged(new.items[i]) = Staged(ts.items[i])
  BY <1>1, ListIs, FoldsCounts DEF Weighed
<1> HIDE DEF new
<1>3. CASE DOMAIN ts.items = {}
  <2>1. StagedOn(ts, ids) = {} /\ StagedOn(new, ids) = {}
    BY <1>1, <1>3 DEF StagedOn, ToSet, Same
  <2> QED
    BY <2>1, FS_EmptySet DEF Reads, new
<1>4. CASE DOMAIN ts.items # {}
  <2>1. PICK p \in DOMAIN ts.items : TRUE
    BY <1>4
  <2>2. Cardinality(Staged(new.items[p])) <= Cardinality(Staged(ts.items[p]))
    BY <1>1, <1>2, ListIs, StagedIs
  <2>3. Cardinality(StagedOn(new, ids)) <= Cardinality(StagedOn(ts, ids))
    BY <1>1, <1>2, <2>2, OneLess
  <2> QED
    BY <2>3 DEF Reads, new
<1> QED
  BY <1>3, <1>4

-----------------------------------------------------------------------------
(* Questions about tabs that are to go *)

\* The tabs of two lists that are the same are named the same.
LEMMA SameTaken ==
    ASSUME NEW new, NEW old, Same(new, old)
    PROVE  /\ IdsOf(new) = IdsOf(old)
           /\ \A id : HoldsTab(new, id) <=> HoldsTab(old, id)
           /\ \A kind, id : InScope(new, kind, id) = InScope(old, kind, id)
           /\ \A g, f : TakenOf(g, f, new) = TakenOf(g, f, old)
<1>1. DOMAIN new.items = DOMAIN old.items /\ \A i \in DOMAIN old.items : new.items[i].id = old.items[i].id
  BY DEF Same
<1>2. IdsOf(new) = IdsOf(old)
  BY <1>1 DEF IdsOf, ToSet
<1>3. \A id : Places(new, id) = Places(old, id)
  BY <1>1 DEF Places
<1>4. \A id : HoldsTab(new, id) <=> HoldsTab(old, id)
  BY <1>3, Zenon DEF HoldsTab
<1>5. \A id : {new.items[i].id : i \in {j \in DOMAIN new.items : j > Min(Places(new, id))}}
              = {old.items[i].id : i \in {j \in DOMAIN old.items : j > Min(Places(old, id))}}
  BY <1>1, <1>3
<1>6. ASSUME NEW kind, NEW id
      PROVE  InScope(new, kind, id) = InScope(old, kind, id)
  BY <1>2, <1>4, <1>5 DEF InScope
<1>7. ASSUME NEW g, NEW f
      PROVE  TakenOf(g, f, new) = TakenOf(g, f, old)
  BY <1>2, <1>6, Zenon DEF TakenOf
<1> QED
  BY <1>2, <1>4, <1>6, <1>7

\* The tab in front is left if it is to go, and then counts as it stands.
LEMMA GoingIs ==
    ASSUME NEW ts, ListOK(ts), cell \in Boxes \cup {None}, NEW ids
    PROVE  LET new == LeftIfGoing(ts, ids)
           IN  /\ Calm(new, ts) /\ Same(new, ts)
               /\ \A i \in DOMAIN new.items :
                     i = new.active /\ new.items[i].id \in ids => Folds(new.items[i])
<1>1. CASE HasActive(ts) /\ ActiveTab(ts).id \in ids
  <2> DEFINE mid == CellFinished(ActiveTab(ts))
             tab == Stashed(mid)
             new == WithTab(ts, tab)
  <2>1. ActiveTab(ts) \in GoodTabs
    BY <1>1, ActiveIs
  <2>2. mid \in GoodTabs /\ Alike(mid, ActiveTab(ts))
    BY <2>1, CellFinishedIs
  <2>3. tab \in GoodTabs /\ Alike(tab, ActiveTab(ts))
    BY <2>1, FinishedIs
  <2>4. LeftIfGoing(ts, ids) = new
    BY <1>1 DEF LeftIfGoing, Left, OnFront
  <2> HIDE DEF mid
  <2>5. Folds(tab)
    BY <2>2, StashedTwice
  <2> HIDE DEF tab
  <2>6. /\ Calm(new, ts) /\ Same(new, ts)
        /\ \A i \in DOMAIN ts.items : new.items[i] = IF i = ts.active THEN tab ELSE ts.items[i]
    BY <1>1, <2>3, ActiveSet
  <2> HIDE DEF new
  <2>7. \A i \in DOMAIN new.items : i = new.active => new.items[i] = tab
    BY <2>6 DEF Same
  <2> QED
    BY <2>4, <2>5, <2>6, <2>7
<1>2. CASE ~(HasActive(ts) /\ ActiveTab(ts).id \in ids)
  <2>1. LeftIfGoing(ts, ids) = ts
    BY <1>2 DEF LeftIfGoing
  <2>2. \A i \in DOMAIN ts.items : ~(i = ts.active /\ ts.items[i].id \in ids)
    BY <1>2 DEF HasActive, ActiveTab
  <2> QED
    BY <2>1, <2>2, CalmItself
<1> QED
  BY <1>1, <1>2

\* A question asked now counts what would go.
LEMMA AskedCounts ==
    ASSUME NEW ts, ListOK(ts), cell \in Boxes \cup {None}, NEW ids, NEW box,
           HasActive(ts) /\ ActiveTab(ts).id \in ids => box = None
    PROVE  Counted(LeftIfGoing(ts, ids), ids, box, Cardinality(Asked(ts, ids)))
<1> DEFINE new == LeftIfGoing(ts, ids)
<1>1. /\ ListOK(new) /\ Same(new, ts)
      /\ \A i \in DOMAIN new.items : i = new.active /\ new.items[i].id \in ids => Folds(new.items[i])
  BY GoingIs DEF Calm
<1>2. Asked(ts, ids) = StagedOn(new, ids)
  BY DEF Asked
<1> HIDE DEF new
<1>3. Reads(new, ids) <= Cardinality(StagedOn(new, ids))
  BY <1>1, ReadsFolded
<1>4. \A i \in DOMAIN new.items : new.items[i] \in GoodTabs
  BY <1>1, ListIs
<1>5. \A i \in DOMAIN new.items : i = new.active /\ new.items[i].id \in ids => Merged(new.items[i])
  BY <1>1, <1>4, FoldsCounts
<1>6. ASSUME NEW i \in DOMAIN new.items, i = new.active /\ new.items[i].id \in ids
      PROVE  box = None
  <2>1. HasActive(ts) /\ ActiveTab(ts).id \in ids
    BY <1>1, <1>6 DEF Same, HasActive, ActiveTab
  <2> QED
    BY <2>1
<1> QED
  BY <1>2, <1>3, <1>5, <1>6 DEF Counted, new

\* What a question counts is what it was counted to be, folded in or not.
LEMMA AskedReads ==
    ASSUME NEW ts, ListOK(ts), cell \in Boxes \cup {None}, NEW ids, NEW n,
           Counted(ts, ids, cell, n)
    PROVE  Cardinality(Asked(ts, ids)) <= n
<1>1. CASE HasActive(ts) /\ ActiveTab(ts).id \in ids
  <2>1. ts.active \in DOMAIN ts.items /\ ActiveTab(ts) = ts.items[ts.active]
        /\ ActiveTab(ts) \in GoodTabs
    BY <1>1, ActiveIs
  <2>2. cell = None
    BY <1>1, <2>1 DEF Counted
  <2>3. CellFinished(ActiveTab(ts)) = ActiveTab(ts)
    BY <2>2 DEF CellFinished
  <2>4. LeftIfGoing(ts, ids) = Refolded(ts, ids)
    BY <1>1, <2>3 DEF LeftIfGoing, Left, OnFront, Refolded
  <2> QED
    BY <2>4 DEF Asked, Counted, Reads
<1>2. CASE ~(HasActive(ts) /\ ActiveTab(ts).id \in ids)
  <2>1. LeftIfGoing(ts, ids) = ts /\ Refolded(ts, ids) = ts
    BY <1>2 DEF LeftIfGoing, Refolded
  <2> QED
    BY <2>1 DEF Asked, Counted, Reads
<1> QED
  BY <1>1, <1>2

LEMMA QuotedIsCount ==
    ASSUME Core, Quoted
    PROVE  QuotedCount
<1> SUFFICES ASSUME guard # None
             PROVE  LET taken == CASE guard.kind # "connection" -> Asked(FrontTabs, GuardedIds)
                                   [] guard.kind = "connection" /\ guard.of = front ->
                                        Asked(FrontTabs, IdsOf(FrontTabs))
                                   [] OTHER -> StagedOn(tabs[guard.of], IdsOf(tabs[guard.of]))
                    IN  Cardinality(taken) <= guard.changes
  BY DEF QuotedCount
<1>1. ListOK(FrontTabs) /\ cell \in Boxes \cup {None}
  BY FrontIs
<1>2. CASE guard.kind # "connection"
  <2>1. Counted(FrontTabs, TakenOf(guard, front, FrontTabs), cell, guard.changes)
    BY <1>2 DEF Quoted
  <2>2. TakenOf(guard, front, FrontTabs) = GuardedIds
    BY <1>2 DEF TakenOf, GuardedIds
  <2>3. Cardinality(Asked(FrontTabs, GuardedIds)) <= guard.changes
    BY <1>1, <2>1, <2>2, AskedReads
  <2> QED
    BY <1>2, <2>3
<1>3. CASE guard.kind = "connection" /\ guard.of = front
  <2>1. Counted(FrontTabs, TakenOf(guard, front, FrontTabs), cell, guard.changes)
    BY <1>3 DEF Quoted
  <2>2. TakenOf(guard, front, FrontTabs) = IdsOf(FrontTabs)
    BY <1>3 DEF TakenOf
  <2>3. Cardinality(Asked(FrontTabs, IdsOf(FrontTabs))) <= guard.changes
    BY <1>1, <2>1, <2>2, AskedReads
  <2> QED
    BY <1>3, <2>3
<1>4. CASE guard.kind = "connection" /\ guard.of # front
  BY <1>4 DEF Quoted
<1> QED
  BY <1>2, <1>3, <1>4

\* What a step that asks leaves: the question about closing counts what goes.
Settled == Fronts' /\ Moves /\ question' = None /\ Quoted'

LEMMA QuietSettles ==
    ASSUME Quiet
    PROVE  Settled
BY DEF Quiet, Settled, Quoted

LEMMA CloseTabsMoves ==
    ASSUME Core, NEW ids, CloseTabsNow(ids), list' = list, commits' = commits
    PROVE  Moves /\ cell' \in {cell, None}
<1> DEFINE left == LeftIfGoing(FrontTabs, ids)
           mid  == ClosedTabs(left, ids)
           new  == LoadingIfEmpty(mid, front)
<1>1. ListOK(FrontTabs) /\ cell \in Boxes \cup {None} /\ FrontTabs = tabs[front]
      /\ front \in Conns \cup {NoConn}
  BY FrontIs
<1>2. Calm(left, FrontTabs) /\ ListOK(left)
  BY <1>1, GoingIs DEF Calm
<1>3. tabs' = [tabs EXCEPT ![front] = new]
  BY <1>1 DEF CloseTabsNow, Core, ListsOK
<1> HIDE DEF left
<1>4. Calm(mid, left) /\ ListOK(mid)
  BY <1>2, ClosedTabsOK DEF Calm
<1> HIDE DEF mid
<1>5. Calm(new, mid)
  BY <1>4, LoadingIs
<1> HIDE DEF new
<1>6. Calm(new, tabs[front])
  BY <1>1, <1>2, <1>4, <1>5, CalmSince
<1>7. Moves
  BY <1>1, <1>3, <1>6, ListSet
<1> QED
  BY <1>7 DEF CloseTabsNow, CellIfStays

LEMMA CloseConnectionMoves ==
    ASSUME Core, NEW c \in Conns, CloseConnectionNow(c), commits' = commits,
           guard' = None, question' = None
    PROVE  Quiet
<1>1. /\ list[c] < MaxLists /\ (Hasty \/ \A k \in commits : k.list[1] # c)
      /\ open' = open \ {c} /\ up' = up \ {c} /\ list' = [list EXCEPT ![c] = @ + 1]
  BY DEF CloseConnectionNow
<1>2. /\ tabs \in [Conns \cup {NoConn} -> TabLists]
      /\ \A d \in Conns \cup {NoConn} : ListOK(tabs[d])
      /\ list \in [Conns -> 0..MaxLists] /\ cell \in Boxes \cup {None}
      /\ open \subseteq Conns /\ up \subseteq open /\ front \in open \cup {NoConn}
  BY DEF Core, Fronts, ListsOK
<1>3. list[c] + 1 \in 0..MaxLists
  BY <1>1, <1>2, Bounds
<1>4. list' \in [Conns -> 0..MaxLists]
      /\ \A d \in Conns : list'[d] = IF d = c THEN list[c] + 1 ELSE list[d]
  BY <1>1, <1>2, <1>3
<1>5. front' \in open' \cup {NoConn} /\ front' # c /\ cell' \in {cell, None}
  BY <1>1, <1>2, Bounds DEF CloseConnectionNow
<1> DEFINE there == LoadingIfEmpty(tabs[front'], front')
<1>6. /\ tabs' = [tabs EXCEPT ![c] = NoTabs] \/ tabs' = [tabs EXCEPT ![c] = NoTabs, ![front'] = there]
  <2>1. CASE c = front
    <3>1. tabs' = [tabs EXCEPT ![c] = NoTabs, ![front'] = LoadingIfEmpty(@, front')]
      BY <2>1 DEF CloseConnectionNow
    <3>2. [tabs EXCEPT ![c] = NoTabs][front'] = tabs[front']
      BY <1>2, <1>5, Bounds
    <3> QED
      BY <3>1, <3>2
  <2>2. CASE c # front
    BY <2>2 DEF CloseConnectionNow
  <2> QED
    BY <2>1, <2>2
<1>7. front' \in Conns \cup {NoConn} /\ Calm(there, tabs[front']) /\ there \in TabLists
  <2>1. front' \in Conns \cup {NoConn}
    BY <1>1, <1>2, <1>5
  <2>2. Calm(there, tabs[front'])
    BY <2>1, <1>2, LoadingIs
  <2> QED
    BY <2>1, <2>2 DEF Calm, ListOK
<1> HIDE DEF there
<1>8. ListOK(NoTabs) /\ NoTabs \in TabLists
  BY NoTabsOK DEF ListOK
<1>9. /\ tabs' \in [Conns \cup {NoConn} -> TabLists]
      /\ \A d \in Conns \cup {NoConn} : tabs'[d] =
            IF d = c THEN NoTabs
            ELSE IF d = front' THEN tabs'[front'] ELSE tabs[d]
      /\ tabs'[front'] \in {there, tabs[front']}
  BY <1>2, <1>5, <1>6, <1>7, <1>8
<1>10. \A d \in Conns \cup {NoConn} : d # c => Calm(tabs'[d], tabs[d])
  BY <1>2, <1>7, <1>9, CalmItself
<1>11. ListsOK'
  BY <1>8, <1>9, <1>10 DEF ListsOK, Calm
<1>12. Moves
  BY <1>1, <1>4, <1>9, <1>10, <1>11 DEF Moves
<1>13. Fronts'
  BY <1>1, <1>2, <1>4, <1>5 DEF Fronts
<1> QED
  BY <1>12, <1>13 DEF Quiet

LEMMA CloseSteps ==
    ASSUME Core, NEW kind \in {"tab"} \cup Groups, NEW id \in Ids, Close(kind, id)
    PROVE  Settled
<1> DEFINE ids  == IF kind = "tab" THEN {id} \cap IdsOf(FrontTabs)
                   ELSE InScope(FrontTabs, kind, id)
           held == Asked(FrontTabs, ids)
           new  == LeftIfGoing(FrontTabs, ids)
<1>1. ListOK(FrontTabs) /\ cell \in Boxes \cup {None} /\ FrontTabs = tabs[front]
      /\ front \in Conns \cup {NoConn}
  BY FrontIs
<1>2. Free /\ UNCHANGED <<open, front, up, list, question, commits>>
  BY DEF Close
<1>3. CASE held = {}
  <2>1. CloseTabsNow(ids) /\ guard' = guard
    BY <1>3 DEF Close
  <2>2. Moves /\ cell' \in {cell, None}
    BY <1>2, <2>1, CloseTabsMoves
  <2>3. Fronts'
    BY <2>1, <2>2, <1>1, <1>2 DEF Core, Fronts
  <2> QED
    BY <1>2, <2>1, <2>2, <2>3, QuietSettles DEF Quiet, Free
<1>4. CASE held # {}
  <2>1. /\ tabs' = [tabs EXCEPT ![front] = LeftIfGoing(@, ids)]
        /\ cell' = CellIfStays(FrontTabs, ids)
        /\ guard' = [kind |-> kind, of |-> IF kind = "tab" THEN front ELSE None,
                     id |-> IF kind = "all" THEN None ELSE id, changes |-> Cardinality(held)]
    BY <1>4 DEF Close
  <2>2. tabs' = [tabs EXCEPT ![front] = new]
    BY <2>1, <1>1 DEF Core, ListsOK
  <2>3. Calm(new, FrontTabs) /\ Same(new, FrontTabs)
    BY <1>1, GoingIs
  <2>4. Counted(new, ids, cell', Cardinality(held))
    BY <1>1, <2>1, AskedCounts DEF CellIfStays
  <2>5. Cardinality(held) \in Nat
    BY <1>1, <2>3, StagedOnFinite DEF Asked, Calm
  <2> HIDE DEF held, new
  <2>6. Moves
    BY <1>1, <1>2, <2>2, <2>3, ListSet
  <2>7. Fronts'
    <3>1. cell' \in Boxes \cup {None}
      BY <2>1, <1>1 DEF CellIfStays
    <3>2. guard' \in Guards
      BY <2>1, <2>5, <1>1 DEF Guards
    <3> QED
      BY <3>1, <3>2, <1>2 DEF Core, Fronts
  <2>8. FrontTabs' = new /\ front' = front
    BY <1>1, <1>2, <2>2 DEF FrontTabs, Core, ListsOK
  <2>9. TakenOf(guard', front', new) = ids
    <3>1. TakenOf(guard', front, new) = TakenOf(guard', front, FrontTabs)
      BY <2>3, SameTaken
    <3>2. CASE kind = "tab"
      BY <3>1, <3>2, <2>1, <2>8 DEF TakenOf
    <3>3. CASE kind = "all"
      BY <3>1, <3>3, <2>1, <2>8 DEF TakenOf, InScope
    <3>4. CASE kind \in {"others", "right"}
      BY <3>1, <3>4, <2>1, <2>8 DEF TakenOf
    <3> QED
      BY <3>2, <3>3, <3>4 DEF Groups
  <2>10. guard'.kind # "connection" /\ guard'.changes = Cardinality(held)
    BY <2>1 DEF Groups
  <2>11. Quoted'
    BY <2>4, <2>8, <2>9, <2>10 DEF Quoted
  <2> QED
    BY <1>2, <2>6, <2>7, <2>11 DEF Settled, Free
<1> QED
  BY <1>3, <1>4

LEMMA CloseConnectionSteps ==
    ASSUME Core, NEW c \in Conns, CloseConnection(c)
    PROVE  Settled
<1> DEFINE left == IF c = front THEN Left(FrontTabs) ELSE tabs[c]
           held == StagedOn(left, IdsOf(left))
           ids  == IdsOf(FrontTabs)
<1>1. ListOK(FrontTabs) /\ cell \in Boxes \cup {None} /\ FrontTabs = tabs[front]
      /\ front \in Conns \cup {NoConn} /\ ListOK(tabs[c])
  BY FrontIs
<1>2. Free /\ c \in open /\ UNCHANGED <<question, commits>>
  BY DEF CloseConnection
<1>3. CASE held = {}
  <2>1. CloseConnectionNow(c) /\ guard' = guard
    BY <1>3 DEF CloseConnection
  <2> QED
    BY <1>2, <2>1, CloseConnectionMoves, QuietSettles DEF Free
<1>4. CASE held # {}
  <2>1. /\ tabs' = [tabs EXCEPT ![c] = left]
        /\ cell' = IF c = front THEN None ELSE cell
        /\ guard' = [kind |-> "connection", of |-> c, id |-> None, changes |-> Cardinality(held)]
        /\ UNCHANGED <<open, front, up, list>>
    BY <1>4 DEF CloseConnection
  <2>2. Calm(left, tabs[c]) /\ Same(left, tabs[c])
    BY <1>1, LeftIs, CalmItself
  <2>3. Cardinality(held) \in Nat
    BY <2>2, StagedOnFinite DEF Calm
  <2>4. c = front => Counted(left, IdsOf(left), None, Cardinality(held))
    <3> SUFFICES ASSUME c = front PROVE Counted(left, IdsOf(left), None, Cardinality(held))
      OBVIOUS
    <3>1. HasActive(FrontTabs) => ActiveTab(FrontTabs).id \in ids
      BY DEF IdsOf, ToSet, HasActive, ActiveTab
    <3>2. left = LeftIfGoing(FrontTabs, ids)
      BY <3>1 DEF LeftIfGoing, Left, OnFront
    <3>3. IdsOf(left) = ids
      BY <1>1, <2>2, SameTaken
    <3>4. Counted(LeftIfGoing(FrontTabs, ids), ids, None, Cardinality(Asked(FrontTabs, ids)))
      BY <1>1, AskedCounts
    <3>5. Asked(FrontTabs, ids) = held
      BY <3>2, <3>3 DEF Asked
    <3> HIDE DEF left, ids, held
    <3> QED
      BY <3>2, <3>3, <3>4, <3>5
  <2>5. held = StagedOn(left, IdsOf(left))
    OBVIOUS
  <2> HIDE DEF held, left
  <2>6. Moves
    BY <1>1, <1>2, <2>1, <2>2, ListSet
  <2>7. Fronts'
    <3>1. guard' \in Guards
      BY <2>1, <2>3 DEF Guards
    <3> QED
      BY <3>1, <2>1, <1>1, <1>2 DEF Core, Fronts
  <2>8. tabs'[c] = left /\ FrontTabs' = (IF c = front THEN left ELSE tabs[front])
    BY <1>1, <2>1 DEF FrontTabs, Core, ListsOK
  <2>9. guard'.kind = "connection" /\ guard'.changes = Cardinality(held) /\ guard'.of = c
    BY <2>1
  <2>10. CASE c = front
    <3>1. TakenOf(guard', front', left) = IdsOf(left)
      BY <2>9 DEF TakenOf
    <3> QED
      BY <3>1, <1>2, <2>1, <2>4, <2>6, <2>7, <2>8, <2>9, <2>10 DEF Settled, Quoted, Free
  <2>11. CASE c # front
    <3>1. Cardinality(StagedOn(left, IdsOf(left))) <= Cardinality(held)
      BY <2>3, <2>5
    <3>2. Quoted'
      BY <3>1, <2>1, <2>8, <2>9, <2>11 DEF Quoted
    <3> QED
      BY <3>2, <1>2, <2>6, <2>7 DEF Settled, Free
  <2> QED
    BY <2>10, <2>11
<1> QED
  BY <1>3, <1>4

LEMMA AnsweredSteps ==
    ASSUME Core, Quoted, ConfirmClose \/ CancelClose
    PROVE  Quiet
<1>1. guard # None /\ question = None /\ guard' = None /\ question' = None /\ commits' = commits
  BY DEF ConfirmClose, CancelClose
<1>2. CASE CancelClose
  <2>1. UNCHANGED <<open, front, up, tabs, list, cell>>
    BY <1>2 DEF CancelClose
  <2>2. Moves
    BY <1>1, <2>1, ListsStay
  <2> QED
    BY <1>1, <2>1, <2>2 DEF Quiet, Core, Fronts
<1>3. CASE ConfirmClose /\ guard.kind = "connection"
  <2>1. CloseConnectionNow(guard.of) /\ guard.of \in Conns
    BY <1>1, <1>3 DEF ConfirmClose, Quoted
  <2> QED
    BY <1>1, <2>1, CloseConnectionMoves
<1>4. CASE ConfirmClose /\ guard.kind # "connection"
  <2>1. CloseTabsNow(GuardedIds) /\ UNCHANGED <<open, front, up, list>>
    BY <1>4 DEF ConfirmClose
  <2>2. Moves /\ cell' \in {cell, None}
    BY <1>1, <2>1, CloseTabsMoves
  <2> QED
    BY <1>1, <2>1, <2>2 DEF Quiet, Core, Fronts
<1> QED
  BY <1>2, <1>3, <1>4

-----------------------------------------------------------------------------
(* Answers that land under a question *)

\* The tab, written over another state of it, counts no more than that did.
Less(new, tab) ==
    /\ new.id = tab.id
    /\ Cardinality(Staged(new)) <= Cardinality(Staged(tab))
    /\ Merged(tab) => /\ Merged(new)
                      /\ Cardinality(Staged(Stashed(new))) <= Cardinality(Staged(Stashed(tab)))

\* ... with the very same staged on it.
Kept(new, tab) ==
    Alike(new, tab) /\ Less(new, tab) /\ Staged(new) = Staged(tab) /\ (Folds(tab) => Folds(new))

\* One tab of a connection is written so.
Written == \E c \in Conns : \E p \in DOMAIN tabs[c].items, tab \in GoodTabs :
    Kept(tab, tabs[c].items[p]) /\ tabs' = [tabs EXCEPT ![c] = WithTab(tabs[c], tab)]

\* A connect or a load answers: one tab of some connection is written so, or none.
Landing ==
    /\ tabs' = tabs \/ Written
    /\ Fronts' /\ cell' \in {cell, None}
    /\ UNCHANGED <<front, list, guard, question, commits>>

LEMMA DraftKept ==
    ASSUME NEW new \in GoodTabs, NEW tab \in GoodTabs, Alike(new, tab), SameWork(new, tab),
           new.draft = tab.draft, new.shown = tab.shown
    PROVE  Kept(new, tab)
<1>1. Staged(new) = Staged(tab) /\ Cardinality(Staged(tab)) \in Nat
  BY SameStaged, StagedIs
<1>2. /\ Staged(Stashed(new)) = Staged(Stashed(tab))
      /\ Merged(new) <=> Merged(tab)
      /\ Folds(new) <=> Folds(tab)
  BY SameDraft
<1>3. Cardinality(Staged(Stashed(tab))) \in Nat
  BY StashedIs, StagedIs
<1> QED
  BY <1>1, <1>2, <1>3 DEF Kept, Less, Alike

LEMMA DraftDropped ==
    ASSUME NEW new \in GoodTabs, NEW tab \in GoodTabs, Alike(new, tab), SameWork(new, tab),
           new.draft = None
    PROVE  Kept(new, tab)
<1>1. Staged(new) = Staged(tab) /\ Cardinality(Staged(tab)) \in Nat
  BY SameStaged, StagedIs
<1>2. Merged(new) /\ Folds(new)
  BY DEF Merged, Folds
<1>3. Staged(Stashed(new)) = Staged(new)
  BY <1>2, FoldsCounts
<1>4. Merged(tab) => Cardinality(Staged(Stashed(new))) <= Cardinality(Staged(Stashed(tab)))
  BY <1>1, <1>3, MergedCounts
<1> QED
  BY <1>1, <1>2, <1>4 DEF Kept, Less, Alike

LEMMA LandingIs ==
    ASSUME Core, NEW c \in Conns,
           Connects(c) \/ \E i \in 1..MaxTabs, ok \in BOOLEAN : LoadLands(c, i, ok)
    PROVE  Landing
<1>1. ListOK(tabs[c])
  BY FrontIs
<1>2. CASE Connects(c)
  <2> DEFINE tab == [ActiveTab(tabs[c]) EXCEPT !.loading = TRUE]
  <2>1. /\ c \in open /\ up' = up \cup {c} /\ cell' \in {cell, None}
        /\ UNCHANGED <<open, front, list, guard, question, commits>>
    BY <1>2 DEF Connects
  <2>2. CASE tabs' = tabs
    BY <2>1, <2>2 DEF Core, Fronts, Landing
  <2>3. CASE tabs' # tabs
    <3>1. HasActive(tabs[c]) /\ tabs' = [tabs EXCEPT ![c] = WithTab(tabs[c], tab)]
      BY <1>2, <2>3 DEF Connects, Core, ListsOK
    <3>2. tabs[c].active \in DOMAIN tabs[c].items /\ ActiveTab(tabs[c]) = tabs[c].items[tabs[c].active]
          /\ ActiveTab(tabs[c]) \in GoodTabs
      BY <1>1, <3>1, ActiveIs
    <3>3. tab \in GoodTabs /\ Kept(tab, ActiveTab(tabs[c]))
      <4>1. /\ tab \in GoodTabs /\ Alike(tab, ActiveTab(tabs[c]))
            /\ SameWork(tab, ActiveTab(tabs[c])) /\ tab.draft = ActiveTab(tabs[c]).draft
        BY <3>2, FlagsAre
      <4>2. tab.shown = ActiveTab(tabs[c]).shown
        BY <3>2, FlagsAre
      <4> HIDE DEF tab
      <4> QED
        BY <3>2, <4>1, <4>2, DraftKept
    <3> HIDE DEF tab
    <3> QED
      BY <2>1, <3>1, <3>2, <3>3 DEF Core, Fronts, Written, Landing
  <2> QED
    BY <2>2, <2>3
<1>3. ASSUME NEW i \in 1..MaxTabs, NEW ok \in BOOLEAN, LoadLands(c, i, ok)
      PROVE  Written
  <2> DEFINE was == tabs[c].items[i]
             tab == [was EXCEPT !.loading = FALSE]
             bare == Unselected(tab)
             new == [bare EXCEPT !.shown = TRUE]
  <2>1. i \in DOMAIN tabs[c].items /\ was \in GoodTabs
    BY <1>1, <1>3, ListIs DEF LoadLands
  <2>2. tabs' = [tabs EXCEPT ![c] = WithTab(tabs[c], new)]
        \/ tabs' = [tabs EXCEPT ![c] = WithTab(tabs[c], tab)]
    BY <1>3 DEF LoadLands, Core, ListsOK
  <2> HIDE DEF was
  <2>3. /\ tab \in GoodTabs /\ Alike(tab, was) /\ SameWork(tab, was)
        /\ tab.draft = was.draft /\ tab.shown = was.shown
    BY <2>1, FlagsAre
  <2> HIDE DEF tab
  <2>4. bare \in GoodTabs /\ Alike(bare, tab) /\ SameWork(bare, tab) /\ bare.draft = None
    BY <2>3, UnselectedIs
  <2> HIDE DEF bare
  <2>5. new \in GoodTabs /\ Alike(new, bare) /\ SameWork(new, bare) /\ new.draft = bare.draft
    BY <2>4, FlagsAre
  <2> HIDE DEF new
  <2>6. Kept(tab, was)
    BY <2>1, <2>3, DraftKept
  <2>7. Kept(new, was)
    BY <2>1, <2>3, <2>4, <2>5, DraftDropped DEF Alike, SameWork
  <2> QED
    BY <2>1, <2>2, <2>3, <2>5, <2>6, <2>7 DEF Written, was
<1>4. CASE \E i \in 1..MaxTabs, ok \in BOOLEAN : LoadLands(c, i, ok)
  <2>1. Written
    BY <1>3, <1>4
  <2>2. UNCHANGED <<open, front, up, list, cell, guard, question, commits>>
    BY <1>4 DEF LoadLands
  <2> QED
    BY <2>1, <2>2 DEF Core, Fronts, Landing
<1> QED
  BY <1>2, <1>4

\* A tab of some connection is written, and counts no more: no more goes.
LEMMA LessQuoted ==
    ASSUME Core, Quoted, NEW c \in Conns, NEW p \in DOMAIN tabs[c].items, NEW tab \in GoodTabs,
           Less(tab, tabs[c].items[p]), tabs' = [tabs EXCEPT ![c] = WithTab(tabs[c], tab)],
           front' = front, guard' = guard, cell' \in {cell, None}
    PROVE  Quoted'
<1> DEFINE old == tabs[c]
           new == WithTab(tabs[c], tab)
<1>1. /\ ListOK(old) /\ ListOK(FrontTabs) /\ FrontTabs = tabs[front]
      /\ front \in Conns \cup {NoConn} /\ old.items[p] \in GoodTabs
  BY FrontIs, ListIs
<1>2. tab.id = old.items[p].id
  BY DEF Less
<1>3. /\ ListOK(new) /\ Same(new, old)
      /\ \A i \in DOMAIN old.items :
            new.items[i] = IF old.items[i].id = tab.id THEN tab ELSE old.items[i]
  BY <1>1, WithTabIs
<1>4. tabs' = [tabs EXCEPT ![c] = new] /\ tabs \in [Conns \cup {NoConn} -> TabLists]
  BY DEF Core, ListsOK
<1> HIDE DEF new
<1>5. new.items[p] = tab /\ \A i \in DOMAIN old.items : i # p => new.items[i] = old.items[i]
  <2>1. \A i \in DOMAIN old.items : old.items[i].id = old.items[p].id => i = p
    BY <1>1 DEF ListOK
  <2> QED
    BY <2>1, <1>2, <1>3
<1>6. \A d \in Conns \cup {NoConn} : tabs'[d] = IF d = c THEN new ELSE tabs[d]
  BY <1>4
<1>7. FrontTabs' = IF front = c THEN new ELSE FrontTabs
  BY <1>1, <1>6 DEF FrontTabs
<1>8. IdsOf(new) = IdsOf(old) /\ \A g, f : TakenOf(g, f, new) = TakenOf(g, f, old)
  BY <1>3, SameTaken
<1>9. SUFFICES ASSUME guard # None PROVE Quoted'
  BY DEF Quoted
<1>10. guard.kind = "connection" => guard.of \in Conns
  BY <1>9 DEF Quoted
<1>11. CASE guard.kind = "connection" /\ guard.of # front
  <2>1. Cardinality(StagedOn(tabs[guard.of], IdsOf(tabs[guard.of]))) <= guard.changes
    BY <1>9, <1>11 DEF Quoted
  <2>2. CASE guard.of # c
    <3>1. tabs'[guard.of] = tabs[guard.of]
      BY <2>2, <1>6, <1>10, <1>11
    <3> QED
      BY <3>1, <2>1, <1>10, <1>11 DEF Quoted
  <2>3. CASE guard.of = c
    <3>1. tabs'[guard.of] = new
      BY <2>3, <1>6
    <3>2. Cardinality(StagedOn(new, IdsOf(old))) <= Cardinality(StagedOn(old, IdsOf(old)))
      <4>1. Cardinality(Staged(new.items[p])) <= Cardinality(Staged(old.items[p]))
        BY <1>5 DEF Less
      <4>2. \A i \in DOMAIN old.items : i # p => Staged(new.items[i]) = Staged(old.items[i])
        BY <1>5
      <4> QED
        BY <4>1, <4>2, <1>1, <1>3, OneLess
    <3>3. /\ Cardinality(StagedOn(new, IdsOf(old))) \in Nat
          /\ Cardinality(StagedOn(old, IdsOf(old))) \in Nat /\ guard.changes \in Nat
      BY <1>1, <1>3, <1>9, StagedOnFinite DEF Core, Fronts, Guards
    <3>4. Cardinality(StagedOn(new, IdsOf(new))) <= guard.changes
      BY <3>2, <3>3, <2>1, <2>3, <1>8
    <3> QED
      BY <3>1, <3>4, <1>10, <1>11 DEF Quoted
  <2> QED
    BY <2>2, <2>3
<1>12. CASE ~(guard.kind = "connection" /\ guard.of # front)
  <2> DEFINE ids == TakenOf(guard, front, FrontTabs)
  <2>1. Counted(FrontTabs, ids, cell, guard.changes)
    BY <1>9, <1>12 DEF Quoted
  <2>2. TakenOf(guard, front, FrontTabs') = ids
    BY <1>1, <1>7, <1>8
  <2> HIDE DEF ids
  <2>3. CASE front # c
    <3>1. FrontTabs' = FrontTabs
      BY <2>3, <1>7
    <3>2. Counted(FrontTabs, ids, cell', guard.changes)
      BY <2>1 DEF Counted
    <3> QED
      BY <3>1, <3>2, <2>2, <1>10, <1>12 DEF Quoted
  <2>4. CASE front = c
    <3>1. FrontTabs' = new /\ FrontTabs = old
      BY <2>4, <1>1, <1>7
    <3>2. \A i \in DOMAIN old.items : i = old.active /\ old.items[i].id \in ids =>
             cell' = None /\ Merged(old.items[i])
      BY <2>1, <3>1 DEF Counted
    <3>3. DOMAIN new.items = DOMAIN old.items /\ new.active = old.active
          /\ \A i \in DOMAIN old.items : new.items[i].id = old.items[i].id
      BY <1>3 DEF Same
    <3>4. \A i \in DOMAIN new.items : i = new.active /\ new.items[i].id \in ids =>
             cell' = None /\ Merged(new.items[i])
      BY <3>2, <3>3, <1>5 DEF Less
    <3>5. LET going == p = old.active /\ old.items[p].id \in ids
          IN  Cardinality(Staged(Weighed(new.items[p], going)))
                 <= Cardinality(Staged(Weighed(old.items[p], going)))
      BY <3>2, <1>5 DEF Less, Weighed
    <3>6. Reads(new, ids) <= Reads(old, ids)
      BY <3>5, <1>1, <1>3, <1>5, ReadsLess
    <3>7. Reads(new, ids) \in Nat /\ Reads(old, ids) \in Nat /\ guard.changes \in Nat
      <4>1. ListOK(Refolded(new, ids)) /\ ListOK(Refolded(old, ids))
        BY <1>1, <1>3, RefoldedIs
      <4> QED
        BY <4>1, <1>9, StagedOnFinite DEF Reads, Core, Fronts, Guards
    <3>8. Reads(new, ids) <= guard.changes
      BY <3>1, <3>6, <3>7, <2>1 DEF Counted
    <3>9. Counted(new, ids, cell', guard.changes)
      BY <3>4, <3>8 DEF Counted
    <3> QED
      BY <3>1, <3>9, <2>2, <1>10, <1>12 DEF Quoted
  <2> QED
    BY <2>3, <2>4
<1> QED
  BY <1>11, <1>12

\* What such a step leaves.
Lands == Fronts' /\ Moves /\ Quoted' /\ (question' # None => HasActive(FrontTabs'))

LEMMA LandingSteps ==
    ASSUME Core, Quoted, Landing
    PROVE  Lands
<1>1. /\ tabs' = tabs \/ Written
      /\ Fronts' /\ cell' \in {cell, None}
      /\ UNCHANGED <<front, list, guard, question, commits>>
  BY DEF Landing
<1>2. ListOK(FrontTabs) /\ front \in Conns \cup {NoConn} /\ (question # None => HasActive(FrontTabs))
  BY FrontIs DEF Core
<1>3. CASE tabs' = tabs
  <2>1. Moves
    BY <1>1, <1>3, ListsStay
  <2>2. Quoted'
    BY <1>1, <1>3 DEF Quoted, Counted, FrontTabs
  <2> QED
    BY <2>1, <2>2, <1>1, <1>2, <1>3 DEF Lands, FrontTabs
<1>4. CASE Written
  <2>1. PICK d \in Conns : \E p \in DOMAIN tabs[d].items, tab \in GoodTabs :
           Kept(tab, tabs[d].items[p]) /\ tabs' = [tabs EXCEPT ![d] = WithTab(tabs[d], tab)]
    BY <1>4 DEF Written
  <2>2. PICK p \in DOMAIN tabs[d].items, tab \in GoodTabs :
           Kept(tab, tabs[d].items[p]) /\ tabs' = [tabs EXCEPT ![d] = WithTab(tabs[d], tab)]
    BY <2>1
  <2> DEFINE new == WithTab(tabs[d], tab)
  <2>3. ListOK(tabs[d]) /\ d \in Conns \cup {NoConn}
    BY FrontIs
  <2>4. Calm(new, tabs[d]) /\ Same(new, tabs[d])
    BY <2>2, <2>3, WithTabCalm DEF Kept
  <2>5. Quoted'
    BY <2>2, <1>1, LessQuoted DEF Kept
  <2>6. tabs' = [tabs EXCEPT ![d] = new]
    BY <2>2
  <2> HIDE DEF new
  <2>7. Moves
    BY <2>3, <2>4, <2>6, <1>1, ListSet
  <2>8. question' # None => HasActive(FrontTabs')
    BY <2>4, <2>6, <1>1, <1>2 DEF FrontTabs, HasActive, Same, Core, ListsOK
  <2> QED
    BY <2>5, <2>7, <2>8, <1>1 DEF Lands
<1> QED
  BY <1>1, <1>3, <1>4

-----------------------------------------------------------------------------
(* Commits *)

LEMMA TabOfIs ==
    ASSUME NEW ts, ListOK(ts), NEW id, HoldsTab(ts, id)
    PROVE  \E p \in DOMAIN ts.items :
              TabOf(ts, id) = ts.items[p] /\ ts.items[p].id = id /\ ts.items[p] \in GoodTabs
<1> DEFINE p == CHOOSE i \in Places(ts, id) : TRUE
<1>1. p \in Places(ts, id)
  BY DEF HoldsTab
<1>2. TabOf(ts, id) = ts.items[p]
  BY DEF TabOf
<1> HIDE DEF p
<1> QED
  BY <1>1, <1>2, ListIs DEF Places

LEMMA FoldedIs ==
    ASSUME Core, NEW id, HasActive(FrontTabs)
    PROVE  /\ Calm(Folded(id), FrontTabs) /\ Same(Folded(id), FrontTabs)
           /\ ActiveTab(FrontTabs).id = id => Folded(id) = LeftIfGoing(FrontTabs, {id})
<1>1. ListOK(FrontTabs) /\ cell \in Boxes \cup {None}
  BY FrontIs
<1> QED
  BY <1>1, LeftIs, CalmItself DEF Folded, LeftIfGoing

LEMMA TargetIs ==
    ASSUME Core, HasActive(FrontTabs), NEW id \in CommitTarget
    PROVE  /\ HoldsTab(FrontTabs, id) /\ id = Target
           /\ guard # None => guard.kind = "tab" /\ guard.of = front
<1>1. \A i \in IdsOf(FrontTabs) : HoldsTab(FrontTabs, i)
  BY DEF IdsOf, ToSet, HoldsTab, Places
<1>2. CASE guard = None
  <2>1. id = ActiveTab(FrontTabs).id /\ ActiveTab(FrontTabs).id \in IdsOf(FrontTabs)
    BY <1>2 DEF CommitTarget, IdsOf, ToSet, HasActive, ActiveTab
  <2> QED
    BY <2>1, <1>1, <1>2 DEF Target
<1>3. CASE guard # None
  <2>1. guard.kind = "tab" /\ id \in GuardedIds
    BY <1>3 DEF CommitTarget
  <2>2. guard.of = front /\ id \in {guard.id} \cap IdsOf(FrontTabs)
    BY <2>1 DEF GuardedIds
  <2> QED
    BY <2>1, <2>2, <1>1, <1>3 DEF Target
<1> QED
  BY <1>2, <1>3

\* A batch is sent: of a tab that did not commit, with the box and the draft in
\* front folded in if they are of it.
Sends(agreed) == \E p \in DOMAIN FrontTabs.items, k \in Commits :
    LET id  == FrontTabs.items[p].id
        ts  == Folded(id)
        tab == ts.items[p]
    IN  /\ id = Target /\ ~FrontTabs.items[p].saving
        /\ front \in Conns
        /\ tabs' = [tabs EXCEPT ![front] = WithTab(ts, [tab EXCEPT !.saving = TRUE])]
        /\ commits' = commits \cup {k} /\ guard' = None /\ question' = None
        /\ UNCHANGED <<open, front, up, list>> /\ cell' \in {cell, None}
        /\ k.list = ThisList(front) /\ k.tab = id
        /\ k.asked = IF agreed = None THEN 0 ELSE agreed
        /\ k.edits = tab.edits /\ k.deletes = tab.deletes /\ k.inserts = NewNames(tab)
        /\ agreed = None => front \notin Production

\* ... or it is not, and a question is asked or taken back.
Keeps == \E p \in DOMAIN FrontTabs.items :
    LET id  == FrontTabs.items[p].id
        ts  == Folded(id)
        tab == ts.items[p]
    IN  /\ id = Target /\ ~FrontTabs.items[p].saving
        /\ guard # None => guard.kind = "tab" /\ guard.of = front
        /\ tabs' = [tabs EXCEPT ![front] = ts]
        /\ cell' = IF ActiveTab(FrontTabs).id = id THEN None ELSE cell
        /\ question' \in {None, Cardinality(Staged(tab))}
        /\ UNCHANGED <<open, front, up, list, guard, commits>>

LEMMA SaveIs ==
    ASSUME Core, HasActive(FrontTabs), NEW agreed \in Nat \cup {None}, Save(agreed)
    PROVE  Sends(agreed) \/ Keeps
<1>1. PICK id \in CommitTarget :
        LET ts   == Folded(id)
            tab  == TabOf(ts, id)
            mine == ActiveTab(FrontTabs).id = id
            size == Cardinality(Staged(tab))
            goes == /\ ~(mine /\ tab.refused)
                    /\ \A i \in DOMAIN tab.inserts : tab.inserts[i].parses
                    /\ size > 0
                    /\ front \in up
        IN  /\ ~TabOf(FrontTabs, id).saving
            /\ cell' = IF mine THEN None ELSE cell
            /\ CASE goes /\ Held(agreed) ->
                      /\ question' = size
                      /\ tabs' = [tabs EXCEPT ![front] = ts]
                      /\ UNCHANGED <<guard, commits>>
                 [] goes /\ ~Held(agreed) ->
                      /\ question' = None
                      /\ guard' = None
                      /\ tabs' = [tabs EXCEPT ![front] = WithTab(ts, [tab EXCEPT !.saving = TRUE])]
                      /\ Cardinality(commits) < MaxCommits
                      /\ commits' = commits \cup
                            {[list |-> ThisList(front), tab |-> id, edits |-> tab.edits,
                              asked |-> IF agreed = None THEN 0 ELSE agreed,
                              deletes |-> tab.deletes,
                              inserts |-> {tab.inserts[i].row : i \in DOMAIN tab.inserts}]}
                 [] OTHER ->
                      /\ question' = None
                      /\ tabs' = [tabs EXCEPT ![front] = ts]
                      /\ UNCHANGED <<guard, commits>>
            /\ UNCHANGED <<open, front, up, list>>
  BY DEF Save
<1>2. /\ HoldsTab(FrontTabs, id) /\ id = Target
      /\ guard # None => guard.kind = "tab" /\ guard.of = front
  BY TargetIs
<1>3. ListOK(FrontTabs) /\ cell \in Boxes \cup {None}
  BY FrontIs
<1>4. PICK p \in DOMAIN FrontTabs.items :
        TabOf(FrontTabs, id) = FrontTabs.items[p] /\ FrontTabs.items[p].id = id
  BY <1>2, <1>3, TabOfIs
<1> DEFINE ts == Folded(id)
           tab == TabOf(ts, id)
           mine == ActiveTab(FrontTabs).id = id
           size == Cardinality(Staged(tab))
           goes == /\ ~(mine /\ tab.refused)
                   /\ \A i \in DOMAIN tab.inserts : tab.inserts[i].parses
                   /\ size > 0
                   /\ front \in up
           k == [list |-> ThisList(front), tab |-> id, edits |-> tab.edits,
                 asked |-> IF agreed = None THEN 0 ELSE agreed,
                 deletes |-> tab.deletes,
                 inserts |-> {tab.inserts[i].row : i \in DOMAIN tab.inserts}]
<1>5. ListOK(ts) /\ Same(ts, FrontTabs)
  BY FoldedIs DEF Calm
<1>6. p \in DOMAIN ts.items /\ ts.items[p].id = id /\ tab = ts.items[p] /\ tab \in GoodTabs
  <2>1. p \in DOMAIN ts.items /\ ts.items[p].id = id
    BY <1>4, <1>5 DEF Same
  <2>2. HoldsTab(ts, id)
    BY <1>2, <1>5, SameTaken
  <2> HIDE DEF ts
  <2>3. PICK q \in DOMAIN ts.items : TabOf(ts, id) = ts.items[q] /\ ts.items[q].id = id
    BY <2>2, <1>5, TabOfIs
  <2>4. q = p
    BY <2>1, <2>3, <1>5 DEF ListOK
  <2> QED
    BY <2>1, <2>3, <2>4, <1>5, ListIs
<1>7. CASE goes /\ ~Held(agreed)
  <2>1. /\ question' = None /\ guard' = None
        /\ tabs' = [tabs EXCEPT ![front] = WithTab(ts, [tab EXCEPT !.saving = TRUE])]
        /\ commits' = commits \cup {k} /\ UNCHANGED <<open, front, up, list>>
        /\ cell' \in {cell, None} /\ ~FrontTabs.items[p].saving /\ front \in up
    BY <1>1, <1>4, <1>7
  <2>2. front \in Conns /\ list[front] \in 0..MaxLists
    BY <2>1 DEF Core, Fronts
  <2>3. agreed = None => front \notin Production
    BY <1>7 DEF Held
  <2>4. tab.edits \in [Rows -> Texts \cup {Stored}] /\ tab.deletes \in SUBSET Rows
        /\ tab.id \in Ids /\ tab.inserts \in Seq(NewRow)
    BY <1>6, TabIs
  <2>5. NewNames(tab) \in SUBSET NewRows
    <3>1. \A i \in DOMAIN tab.inserts : tab.inserts[i] \in NewRow
      BY <2>4, LenProperties
    <3> QED
      BY <3>1 DEF NewNames, NewRow
  <2>6. /\ k.list = ThisList(front) /\ k.tab = id
        /\ k.asked = IF agreed = None THEN 0 ELSE agreed
        /\ k.edits = tab.edits /\ k.deletes = tab.deletes /\ k.inserts = NewNames(tab)
    BY DEF NewNames
  <2>7. k \in Commits
    <3>1. ThisList(front) \in Conns \X (0..MaxLists)
      BY <2>2 DEF ThisList
    <3>2. (IF agreed = None THEN 0 ELSE agreed) \in Nat
      OBVIOUS
    <3>3. id \in Ids
      BY <2>4, <1>6
    <3>4. k = [list |-> ThisList(front), tab |-> id, edits |-> tab.edits,
               asked |-> IF agreed = None THEN 0 ELSE agreed,
               deletes |-> tab.deletes, inserts |-> NewNames(tab)]
      BY DEF NewNames
    <3> HIDE DEF k, tab
    <3> QED
      BY <3>1, <3>2, <3>3, <3>4, <2>4, <2>5 DEF Commits
  <2>8. tab = Folded(FrontTabs.items[p].id).items[p] /\ ts = Folded(FrontTabs.items[p].id)
    BY <1>4, <1>6
  <2> HIDE DEF k, tab, ts
  <2>9. Sends(agreed)
    BY <1>2, <1>4, <2>1, <2>2, <2>3, <2>6, <2>7, <2>8 DEF Sends
  <2> QED
    BY <2>9
<1>8. CASE ~(goes /\ ~Held(agreed))
  <2>1. /\ question' \in {None, size}
        /\ tabs' = [tabs EXCEPT ![front] = ts]
        /\ UNCHANGED <<open, front, up, list, guard, commits>>
        /\ cell' = (IF mine THEN None ELSE cell)
        /\ ~FrontTabs.items[p].saving
    BY <1>1, <1>4, <1>8
  <2>2. tab = Folded(FrontTabs.items[p].id).items[p] /\ ts = Folded(FrontTabs.items[p].id)
    BY <1>4, <1>6
  <2> HIDE DEF tab, ts
  <2>3. Keeps
    BY <1>2, <1>4, <2>1, <2>2 DEF Keeps
  <2> QED
    BY <2>3
<1> QED
  BY <1>7, <1>8

LEMMA KeepsLands ==
    ASSUME Core, Quoted, HasActive(FrontTabs), Keeps
    PROVE  Lands
<1>1. PICK p \in DOMAIN FrontTabs.items :
        LET id  == FrontTabs.items[p].id
            ts  == Folded(id)
            tab == ts.items[p]
        IN  /\ id = Target /\ ~FrontTabs.items[p].saving
            /\ guard # None => guard.kind = "tab" /\ guard.of = front
            /\ tabs' = [tabs EXCEPT ![front] = ts]
            /\ cell' = IF ActiveTab(FrontTabs).id = id THEN None ELSE cell
            /\ question' \in {None, Cardinality(Staged(tab))}
            /\ UNCHANGED <<open, front, up, list, guard, commits>>
  BY DEF Keeps
<1> DEFINE id == FrontTabs.items[p].id
           ts == Folded(id)
<1>2. /\ front \in Conns \cup {NoConn} /\ ListOK(FrontTabs) /\ FrontTabs = tabs[front]
      /\ cell \in Boxes \cup {None}
  BY FrontIs
<1>3. Calm(ts, FrontTabs) /\ Same(ts, FrontTabs) /\ ListOK(ts)
  BY FoldedIs DEF Calm
<1>4. Moves
  BY <1>1, <1>2, <1>3, ListSet
<1>5. FrontTabs' = ts /\ front' = front /\ guard' = guard
  BY <1>1, <1>2 DEF FrontTabs, Core, ListsOK
<1>6. Fronts'
  <2>1. ts.items[p] \in GoodTabs
    BY <1>3, ListIs DEF Same
  <2>2. question' \in Nat \cup {None}
    BY <1>1, <2>1, StagedIs
  <2>3. cell' \in Boxes \cup {None}
    BY <1>1, <1>2
  <2> QED
    BY <1>1, <2>2, <2>3 DEF Core, Fronts
<1>7. HasActive(FrontTabs')
  BY <1>3, <1>5 DEF Same, HasActive
<1>8. ASSUME guard # None
      PROVE  Quoted'
  <2>1. guard.kind = "tab" /\ guard.of = front /\ guard.id = id
    BY <1>1, <1>8 DEF Target
  <2>2. TakenOf(guard, front, FrontTabs) = {id} /\ TakenOf(guard, front, ts) = {id}
    <3>1. id \in IdsOf(FrontTabs)
      BY DEF IdsOf, ToSet
    <3>2. TakenOf(guard, front, FrontTabs) = {id}
      BY <2>1, <3>1 DEF TakenOf
    <3> QED
      BY <3>2, <1>3, SameTaken
  <2>3. Counted(FrontTabs, {id}, cell, guard.changes)
    BY <2>1, <2>2, <1>8 DEF Quoted
  <2>4. Counted(ts, {id}, cell', guard.changes)
    <3>1. CASE ActiveTab(FrontTabs).id = id
      <4>1. ts = LeftIfGoing(FrontTabs, {id}) /\ cell' = None
        BY <1>1, <3>1, FoldedIs
      <4>2. Counted(ts, {id}, None, Cardinality(Asked(FrontTabs, {id})))
        BY <4>1, <1>2, AskedCounts
      <4>3. Cardinality(Asked(FrontTabs, {id})) <= guard.changes
        BY <2>3, <1>2, AskedReads
      <4>4. Asked(FrontTabs, {id}) = StagedOn(ts, {id})
        BY <4>1 DEF Asked
      <4>5. /\ Reads(ts, {id}) \in Nat /\ Cardinality(Asked(FrontTabs, {id})) \in Nat
            /\ guard.changes \in Nat
        <5>1. ListOK(Refolded(ts, {id}))
          BY <1>3, RefoldedIs
        <5> QED
          BY <5>1, <4>4, <1>3, <1>8, StagedOnFinite DEF Reads, Core, Fronts, Guards
      <4> QED
        BY <4>1, <4>2, <4>3, <4>5 DEF Counted
    <3>2. CASE ActiveTab(FrontTabs).id # id
      <4>1. ts = FrontTabs /\ cell' = cell
        BY <1>1, <3>2 DEF Folded
      <4> QED
        BY <4>1, <2>3
    <3> QED
      BY <3>1, <3>2
  <2> QED
    BY <2>1, <2>2, <2>4, <1>5 DEF Quoted
<1>9. guard = None => Quoted'
  BY <1>5 DEF Quoted
<1> QED
  BY <1>4, <1>6, <1>7, <1>8, <1>9 DEF Lands

\* A question about production goes, and nothing else happens.
Drops == UNCHANGED <<open, front, up, tabs, list, cell, guard, commits>> /\ question' = None

LEMMA DropsLands ==
    ASSUME Core, Quoted, Drops
    PROVE  Lands
<1>1. Moves
  BY ListsStay DEF Drops
<1>2. Quoted'
  BY DEF Quoted, Counted, FrontTabs, Drops
<1> QED
  BY <1>1, <1>2 DEF Lands, Core, Fronts, Drops

LEMMA CommitSteps ==
    ASSUME Core, CommitChanges \/ ConfirmProduction \/ CancelProduction
    PROVE  \/ Drops
           \/ HasActive(FrontTabs) /\ (Keeps \/ \E agreed \in {None, question} : Sends(agreed))
<1>1. CASE CommitChanges
  BY <1>1, SaveIs DEF CommitChanges
<1>2. CASE ConfirmProduction
  <2>1. question \in Nat /\ HasActive(FrontTabs)
    BY <1>2 DEF ConfirmProduction, Core, Fronts
  <2>2. CASE Save(question)
    BY <2>1, <2>2, SaveIs
  <2> QED
    BY <2>2, <1>2 DEF ConfirmProduction, Drops
<1>3. CASE CancelProduction
  BY <1>3 DEF CancelProduction, Drops
<1> QED
  BY <1>1, <1>2, <1>3

\* The answer to a commit writes its tab, wherever it is, or finds it gone.
LEMMA AnswerIs ==
    ASSUME Core, NEW k \in commits, NEW outcome, CommitLands(k, outcome)
    PROVE  /\ k \in Commits /\ k.list[1] \in Conns
           /\ \/ tabs' = tabs /\ ~HoldsTab(tabs[k.list[1]], k.tab)
              \/ \E p \in DOMAIN tabs[k.list[1]].items, tab \in GoodTabs :
                    /\ tabs[k.list[1]].items[p].id = k.tab
                    /\ ~tab.saving /\ Less(tab, tabs[k.list[1]].items[p])
                    /\ tabs' = [tabs EXCEPT ![k.list[1]] = WithTab(tabs[k.list[1]], tab)]
           /\ commits' = commits \ {k}
           /\ UNCHANGED <<open, front, up, list, cell, guard, question>>
<1> DEFINE c    == k.list[1]
           was  == TabOf(tabs[c], k.tab)
           tab  == [was EXCEPT !.saving = FALSE]
           bare == Cleared(tab)
           done == [bare EXCEPT !.row = None, !.refused = FALSE,
                                !.loading = @ \/ (c = front /\ c \in up)]
<1>1. k \in Commits /\ c \in Conns
  <2>1. k \in Commits
    BY DEF Core
  <2> QED
    BY <2>1 DEF Commits
<1>2. /\ commits' = commits \ {k} /\ UNCHANGED <<open, front, up, list, cell, guard, question>>
  BY DEF CommitLands
<1>3. ListOK(tabs[c])
  BY <1>1, FrontIs
<1>4. CASE ~HoldsTab(tabs[c], k.tab)
  <2>1. tabs' = tabs
    BY <1>4 DEF CommitLands, Reaches
  <2> QED
    BY <2>1, <1>1, <1>2, <1>4
<1>5. CASE HoldsTab(tabs[c], k.tab)
  <2>1. PICK p \in DOMAIN tabs[c].items :
           was = tabs[c].items[p] /\ tabs[c].items[p].id = k.tab /\ was \in GoodTabs
    BY <1>3, <1>5, TabOfIs
  <2>2. tabs' = [tabs EXCEPT ![c] = WithTab(tabs[c], done)]
        \/ tabs' = [tabs EXCEPT ![c] = WithTab(tabs[c], tab)]
    BY <1>1, <1>5 DEF CommitLands, Reaches, Core, ListsOK
  <2> HIDE DEF was
  <2>3. /\ tab \in GoodTabs /\ ~tab.saving /\ tab.id = was.id /\ SameWork(tab, was)
        /\ tab.draft = was.draft /\ tab.shown = was.shown
    <3>1. /\ tab \in Tab /\ ~tab.saving /\ tab.id = was.id /\ SameWork(tab, was)
          /\ tab.draft = was.draft /\ tab.shown = was.shown /\ tab.form = was.form
      BY <2>1, TabIs DEF Tab, SameWork
    <3> HIDE DEF tab
    <3> QED
      BY <3>1, <2>1, TabWith DEF SameWork
  <2>4. Less(tab, was)
    <3> HIDE DEF tab
    <3>1. Staged(tab) = Staged(was) /\ Cardinality(Staged(was)) \in Nat
      BY <2>1, <2>3, SameStaged, StagedIs
    <3>2. /\ Staged(Stashed(tab)) = Staged(Stashed(was))
          /\ Merged(tab) <=> Merged(was)
      BY <2>1, <2>3, SameDraft
    <3>3. Cardinality(Staged(Stashed(was))) \in Nat
      BY <2>1, StashedIs, StagedIs
    <3> QED
      BY <2>3, <3>1, <3>2, <3>3 DEF Less
  <2> HIDE DEF tab
  <2>5. /\ bare \in GoodTabs /\ Alike(bare, tab)
        /\ bare.edits = [r \in Rows |-> Stored] /\ bare.deletes = {} /\ bare.inserts = <<>>
        /\ bare.draft = tab.draft /\ bare.shown = tab.shown
    BY <2>3, ClearedIs
  <2> HIDE DEF bare
  <2>6. /\ done \in GoodTabs /\ Alike(done, bare)
        /\ done.edits = bare.edits /\ done.deletes = {} /\ done.inserts = <<>>
        /\ done.draft = bare.draft /\ done.shown = bare.shown
    <3> DEFINE b == bare.loading \/ (c = front /\ c \in up)
    <3>1. b \in BOOLEAN
      BY <2>5, TabIs
    <3>2. done = [bare EXCEPT !.row = None, !.refused = FALSE, !.loading = b]
      BY <2>5, TabIs DEF Tab
    <3> HIDE DEF b, done
    <3>3. /\ done \in Tab /\ Alike(done, bare) /\ done.form = bare.form
          /\ done.edits = bare.edits /\ done.deletes = bare.deletes
          /\ done.inserts = bare.inserts
          /\ done.draft = bare.draft /\ done.shown = bare.shown
      BY <2>5, <3>1, <3>2, TabIs DEF Tab, Alike
    <3> QED
      BY <2>5, <3>3, TabWith
  <2> HIDE DEF done
  <2>7. /\ Staged(done) = {} /\ Merged(done)
        /\ Cardinality(Staged(Stashed(done))) <= Cardinality(Staged(Stashed(was)))
    <3>1. /\ done.edits = [r \in Rows |-> Stored] /\ done.deletes = {} /\ done.inserts = <<>>
          /\ done.draft = was.draft /\ done.shown = was.shown
      BY <2>3, <2>5, <2>6
    <3> QED
      BY <3>1, <2>1, <2>6, ClearedCounts
  <2>8. Less(done, was)
    <3>1. Cardinality(Staged(done)) = 0
      BY <2>7, FS_EmptySet
    <3>2. Cardinality(Staged(was)) \in Nat
      BY <2>1, StagedIs
    <3>3. done.id = was.id
      BY <2>3, <2>5, <2>6 DEF Alike
    <3> QED
      BY <3>1, <3>2, <3>3, <2>7 DEF Less
  <2>9. ~done.saving
    BY <2>3, <2>5, <2>6 DEF Alike
  <2> QED
    BY <1>1, <1>2, <2>1, <2>2, <2>3, <2>4, <2>6, <2>8, <2>9
<1> QED
  BY <1>4, <1>5

LEMMA AnswerKeeps ==
    ASSUME IInv, NEW k \in commits, NEW outcome, CommitLands(k, outcome)
    PROVE  IInv'
<1> DEFINE c == k.list[1]
<1>1. /\ k \in Commits /\ c \in Conns
      /\ \/ tabs' = tabs /\ ~HoldsTab(tabs[c], k.tab)
         \/ \E p \in DOMAIN tabs[c].items, tab \in GoodTabs :
               /\ tabs[c].items[p].id = k.tab
               /\ ~tab.saving /\ Less(tab, tabs[c].items[p])
               /\ tabs' = [tabs EXCEPT ![c] = WithTab(tabs[c], tab)]
      /\ commits' = commits \ {k}
      /\ UNCHANGED <<open, front, up, list, cell, guard, question>>
  BY AnswerIs DEF IInv
<1>2. Core /\ Saving /\ Quoted
  BY DEF IInv
<1>3. /\ ListOK(tabs[c]) /\ tabs \in [Conns \cup {NoConn} -> TabLists]
      /\ \A d \in Conns \cup {NoConn} : ListOK(tabs[d])
      /\ front \in Conns \cup {NoConn}
  BY <1>1, <1>2, FrontIs DEF Core, ListsOK
<1> HIDE DEF c
<1>4. Fronts' /\ commits' \subseteq Commits
  BY <1>1, <1>2 DEF Core, Fronts
<1>5. ASSUME NEW d \in Conns, NEW id \in Ids, Saves(tabs[d], id), ~(d = c /\ id = k.tab)
      PROVE  \E other \in commits' : other.list[1] = d /\ other.tab = id
  <2>1. PICK other \in commits : other.list[1] = d /\ other.tab = id
    BY <1>2, <1>5 DEF Saving
  <2> QED
    BY <2>1, <1>1, <1>5 DEF c
<1>6. CASE tabs' = tabs /\ ~HoldsTab(tabs[c], k.tab)
  <2>1. ~Saves(tabs[c], k.tab)
    BY <1>6 DEF Saves, HoldsTab, Places
  <2>2. Saving'
    BY <1>5, <1>6, <2>1 DEF Saving
  <2>3. Quoted'
    BY <1>1, <1>2, <1>6 DEF Quoted, Counted, FrontTabs
  <2>4. Core'
    BY <1>1, <1>2, <1>4, <1>6 DEF Core, ListsOK, FrontTabs
  <2> QED
    BY <2>2, <2>3, <2>4 DEF IInv
<1>7. CASE ~(tabs' = tabs /\ ~HoldsTab(tabs[c], k.tab))
  <2>1. PICK p \in DOMAIN tabs[c].items, tab \in GoodTabs :
           /\ tabs[c].items[p].id = k.tab
           /\ ~tab.saving /\ Less(tab, tabs[c].items[p])
           /\ tabs' = [tabs EXCEPT ![c] = WithTab(tabs[c], tab)]
    BY <1>1, <1>7
  <2> DEFINE new == WithTab(tabs[c], tab)
  <2>2. tab.id = k.tab
    BY <2>1 DEF Less
  <2>3. /\ ListOK(new) /\ Same(new, tabs[c])
        /\ \A i \in DOMAIN tabs[c].items :
              new.items[i] = IF tabs[c].items[i].id = tab.id THEN tab ELSE tabs[c].items[i]
        /\ \A id : Saves(new, id) => Saves(tabs[c], id) \/ (id = tab.id /\ tab.saving)
    BY <1>3, WithTabIs
  <2>4. Quoted'
    BY <1>1, <1>2, <2>1, LessQuoted
  <2>5. tabs' = [tabs EXCEPT ![c] = new]
    BY <2>1
  <2> HIDE DEF new
  <2>6. \A d \in Conns \cup {NoConn} : tabs'[d] = IF d = c THEN new ELSE tabs[d]
    BY <1>3, <2>5
  <2>7. ~Saves(new, k.tab)
    <3>1. \A i \in DOMAIN new.items : new.items[i].id = k.tab => new.items[i] = tab
      BY <2>2, <2>3 DEF Same
    <3> QED
      BY <3>1, <2>1 DEF Saves
  <2>8. \A id : Saves(new, id) => Saves(tabs[c], id)
    BY <2>1, <2>3
  <2>9. Saving'
    <3> SUFFICES ASSUME NEW d \in Conns, NEW id \in Ids, Saves(tabs'[d], id)
                 PROVE  \E other \in commits' : other.list[1] = d /\ other.tab = id
      BY DEF Saving
    <3>1. Saves(tabs[d], id) /\ ~(d = c /\ id = k.tab)
      BY <2>6, <2>7, <2>8
    <3> QED
      BY <3>1, <1>5
  <2>10. ListsOK'
    <3>1. new \in TabLists
      BY <2>3 DEF ListOK
    <3>2. tabs' \in [Conns \cup {NoConn} -> TabLists]
      BY <3>1, <2>5, <1>3
    <3> QED
      BY <3>2, <2>3, <2>6, <1>3 DEF ListsOK
  <2>11. question' # None => HasActive(FrontTabs')
    <3>1. question # None => HasActive(FrontTabs)
      BY <1>2 DEF Core
    <3>2. HasActive(tabs[c]) => HasActive(new)
      BY <2>3 DEF Same, HasActive
    <3> QED
      BY <3>1, <3>2, <2>6, <1>1, <1>3 DEF FrontTabs
  <2>12. Core'
    BY <1>4, <2>10, <2>11 DEF Core
  <2> QED
    BY <2>4, <2>9, <2>12 DEF IInv
<1> QED
  BY <1>6, <1>7

LEMMA SendsKeeps ==
    ASSUME Core, Saving, HasActive(FrontTabs), NEW agreed, Sends(agreed)
    PROVE  IInv'
<1>1. PICK p \in DOMAIN FrontTabs.items, k \in Commits :
        LET id  == FrontTabs.items[p].id
            ts  == Folded(id)
            tab == ts.items[p]
        IN  /\ front \in Conns
            /\ tabs' = [tabs EXCEPT ![front] = WithTab(ts, [tab EXCEPT !.saving = TRUE])]
            /\ commits' = commits \cup {k} /\ guard' = None /\ question' = None
            /\ UNCHANGED <<open, front, up, list>> /\ cell' \in {cell, None}
            /\ k.list = ThisList(front) /\ k.tab = id
  BY DEF Sends
<1> DEFINE id  == FrontTabs.items[p].id
           ts  == Folded(id)
           tab == ts.items[p]
           sent == [tab EXCEPT !.saving = TRUE]
           new == WithTab(ts, sent)
<1>2. /\ front \in Conns /\ tabs' = [tabs EXCEPT ![front] = new]
      /\ commits' = commits \cup {k} /\ guard' = None /\ question' = None
      /\ UNCHANGED <<open, front, up, list>> /\ cell' \in {cell, None}
      /\ k.list = ThisList(front) /\ k.tab = id
  BY <1>1
<1>3. /\ FrontTabs = tabs[front] /\ tabs \in [Conns \cup {NoConn} -> TabLists]
      /\ \A d \in Conns \cup {NoConn} : ListOK(tabs[d])
  BY FrontIs DEF Core, ListsOK
<1>4. Calm(ts, FrontTabs) /\ Same(ts, FrontTabs) /\ ListOK(ts)
  BY FoldedIs DEF Calm
<1>5. tab \in GoodTabs /\ tab.id = id
  BY <1>4, ListIs DEF Same
<1> HIDE DEF ts
<1>6. sent \in GoodTabs /\ sent.id = id
  <2> HIDE DEF tab
  <2>1. /\ sent \in Tab /\ sent.id = tab.id /\ sent.inserts = tab.inserts /\ sent.form = tab.form
    BY <1>5, TabIs DEF Tab
  <2> HIDE DEF sent
  <2> QED
    BY <2>1, <1>5, TabWith
<1> HIDE DEF tab, sent
<1>7. ListOK(new) /\ \A i : Saves(new, i) => Saves(ts, i) \/ i = id
  BY <1>4, <1>6, WithTabIs
<1> HIDE DEF new
<1>8. \A d \in Conns \cup {NoConn} : tabs'[d] = IF d = front THEN new ELSE tabs[d]
  BY <1>2, <1>3
<1>9. ListsOK'
  <2>1. tabs' \in [Conns \cup {NoConn} -> TabLists]
    BY <1>2, <1>3, <1>7 DEF ListOK
  <2> QED
    BY <2>1, <1>3, <1>7, <1>8 DEF ListsOK
<1>10. Core'
  BY <1>2, <1>9 DEF Core, Fronts
<1>11. Saving'
  <2> SUFFICES ASSUME NEW d \in Conns, NEW i \in Ids, Saves(tabs'[d], i)
               PROVE  \E other \in commits' : other.list[1] = d /\ other.tab = i
    BY DEF Saving
  <2>1. CASE d = front /\ i = id
    BY <2>1, <1>2 DEF ThisList
  <2>2. CASE ~(d = front /\ i = id)
    <3>1. Saves(tabs[d], i)
      BY <2>2, <1>3, <1>4, <1>7, <1>8, CalmSaves
    <3>2. PICK other \in commits : other.list[1] = d /\ other.tab = i
      BY <3>1 DEF Saving
    <3> QED
      BY <3>2, <1>2
  <2> QED
    BY <2>1, <2>2
<1> QED
  BY <1>2, <1>10, <1>11 DEF IInv, Quoted

LEMMA LandsKeeps ==
    ASSUME Core, Saving, Lands
    PROVE  IInv'
<1>1. Core'
  BY DEF Core, Lands, Moves
<1>2. Saving'
  <2> SUFFICES ASSUME NEW c \in Conns, NEW id \in Ids, Saves(tabs'[c], id)
               PROVE  \E k \in commits' : k.list[1] = c /\ k.tab = id
    BY DEF Saving
  <2>1. Saves(tabs[c], id)
    BY CalmSaves, NoTabsOK DEF Lands, Moves
  <2> QED
    BY <2>1 DEF Saving, Lands, Moves
<1> QED
  BY <1>1, <1>2 DEF IInv, Lands

-----------------------------------------------------------------------------
(* The specification *)

LEMMA InitIInv == Init => IInv
<1> SUFFICES ASSUME Init PROVE IInv
  OBVIOUS
<1>1. ListOK(NoTabs) /\ NoTabs \in TabLists /\ \A id : ~Saves(NoTabs, id)
  BY NoTabsOK DEF ListOK
<1>2. PICK c \in Conns : open = {c} /\ front = c /\ up = {c}
  BY DEF Init
<1>3. Fronts
  BY <1>2, Bounds DEF Fronts, Init
<1>4. ListsOK
  BY <1>1 DEF ListsOK, Init
<1>5. Core
  BY <1>3, <1>4 DEF Core, Init
<1>6. Saving /\ Quoted
  BY <1>1 DEF Saving, Quoted, Init
<1> QED
  BY <1>5, <1>6 DEF IInv

\* The steps of one tab and of the lists that leave no question behind.
LEMMA WorkSteps ==
    ASSUME Core,
           \/ \E r \in Rows : SelectRow(r) \/ BeginCellEdit(r)
           \/ \E text \in Typed : TypeField(text)
           \/ \E text \in Boxed : TypeCell(text)
           \/ CancelCell \/ FinishCell
           \/ \E n \in NewRows : AddRows(n) \/ PasteRows(n) \/ EditInsert(n) \/ RemoveInsert(n)
           \/ \E parses \in BOOLEAN : TypeInsert(parses)
           \/ DeleteSelected \/ DiscardPendingEdits \/ Reload
           \/ \E t \in Tables : OpenTable(t)
           \/ \E i \in 1..MaxTabs : ActivateTab(i)
           \/ \E c \in Conns : SelectConnection(c) \/ Disconnect(c)
    PROVE  Quiet
<1>1. CASE \E r \in Rows : SelectRow(r) \/ BeginCellEdit(r)
  BY <1>1, SelectingSteps
<1>2. CASE \E text \in Typed : TypeField(text)
  BY <1>2, TypeFieldSteps
<1>3. CASE (\E text \in Boxed : TypeCell(text)) \/ CancelCell \/ FinishCell
  BY <1>3, CellSteps
<1>4. CASE \E n \in NewRows : AddRows(n) \/ PasteRows(n) \/ EditInsert(n) \/ RemoveInsert(n)
  BY <1>4, RowSteps, InsertSteps
<1>5. CASE \E parses \in BOOLEAN : TypeInsert(parses)
  BY <1>5, TypeInsertSteps
<1>6. CASE DeleteSelected \/ DiscardPendingEdits \/ Reload
  BY <1>6, DeleteSelectedSteps, DiscardSteps, ReloadSteps
<1>7. CASE \E t \in Tables : OpenTable(t)
  BY <1>7, OpenTableSteps
<1>8. CASE \E i \in 1..MaxTabs : ActivateTab(i)
  BY <1>8, ActivateTabSteps
<1>9. CASE \E c \in Conns : SelectConnection(c) \/ Disconnect(c)
  BY <1>9, SelectConnectionSteps, DisconnectSteps
<1> QED
  BY <1>1, <1>2, <1>3, <1>4, <1>5, <1>6, <1>7, <1>8, <1>9

\* Every step is one of these, or stutters.
LEMMA StepIs ==
    ASSUME IInv, [Next]_vars
    PROVE  \/ UNCHANGED vars
           \/ Settled
           \/ Landing
           \/ Drops
           \/ HasActive(FrontTabs) /\ (Keeps \/ \E agreed \in {None, question} : Sends(agreed))
           \/ \E k \in commits, outcome \in {"committed", "rolled back"} : CommitLands(k, outcome)
<1>1. Core /\ Quoted
  BY DEF IInv
<1>2. CASE UNCHANGED vars
  BY <1>2
<1>3. CASE \/ \E r \in Rows : SelectRow(r) \/ BeginCellEdit(r)
           \/ \E text \in Typed : TypeField(text)
           \/ \E text \in Boxed : TypeCell(text)
           \/ CancelCell \/ FinishCell
           \/ \E n \in NewRows : AddRows(n) \/ PasteRows(n) \/ EditInsert(n) \/ RemoveInsert(n)
           \/ \E parses \in BOOLEAN : TypeInsert(parses)
           \/ DeleteSelected \/ DiscardPendingEdits \/ Reload
           \/ \E t \in Tables : OpenTable(t)
           \/ \E i \in 1..MaxTabs : ActivateTab(i)
           \/ \E c \in Conns : SelectConnection(c) \/ Disconnect(c)
  BY <1>1, <1>3, WorkSteps, QuietSettles
<1>4. CASE \E kind \in {"tab"} \cup Groups, id \in Ids : Close(kind, id)
  BY <1>1, <1>4, CloseSteps
<1>5. CASE \E c \in Conns : CloseConnection(c)
  BY <1>1, <1>5, CloseConnectionSteps
<1>6. CASE ConfirmClose \/ CancelClose
  BY <1>1, <1>6, AnsweredSteps, QuietSettles
<1>7. CASE (\E c \in Conns : Connects(c))
           \/ \E c \in Conns, i \in 1..MaxTabs, ok \in BOOLEAN : LoadLands(c, i, ok)
  BY <1>1, <1>7, LandingIs
<1>8. CASE CommitChanges \/ ConfirmProduction \/ CancelProduction
  BY <1>1, <1>8, CommitSteps
<1> QED
  BY <1>2, <1>3, <1>4, <1>5, <1>6, <1>7, <1>8 DEF Next

LEMMA StutterKeeps ==
    ASSUME IInv, UNCHANGED vars
    PROVE  IInv'
<1>1. Core'
  BY DEF IInv, vars, Core, Fronts, ListsOK, FrontTabs
<1>2. Saving' /\ Quoted'
  BY DEF IInv, vars, Saving, Quoted, Counted, FrontTabs
<1> QED
  BY <1>1, <1>2 DEF IInv

LEMMA StepKeeps ==
    ASSUME IInv, [Next]_vars
    PROVE  IInv'
<1>1. Core /\ Saving /\ Quoted
  BY DEF IInv
<1>2. CASE UNCHANGED vars
  BY <1>2, StutterKeeps
<1>3. CASE Settled
  BY <1>1, <1>3, LandsKeeps DEF Settled, Lands
<1>4. CASE Landing \/ Drops \/ (HasActive(FrontTabs) /\ Keeps)
  BY <1>1, <1>4, LandingSteps, DropsLands, KeepsLands, LandsKeeps
<1>5. CASE HasActive(FrontTabs) /\ \E agreed \in {None, question} : Sends(agreed)
  BY <1>1, <1>5, SendsKeeps
<1>6. CASE \E k \in commits, outcome \in {"committed", "rolled back"} : CommitLands(k, outcome)
  BY <1>6, AnswerKeeps
<1> QED
  BY <1>2, <1>3, <1>4, <1>5, <1>6, StepIs

LEMMA Invariance == Spec => []IInv
<1>1. Init => IInv
  BY InitIInv
<1>2. IInv /\ [Next]_vars => IInv'
  BY StepKeeps
<1> QED
  BY <1>1, <1>2, PTL DEF Spec

\* The variables keep their types: the list of tabs of every connection is of
\* tabs, one of them in front unless it is empty, and the sidebar shows a new
\* row that its tab has (DbUi's fields, Tabs, WorkspaceTab).
THEOREM TypeCorrect == Spec => []TypeOK
<1>1. ASSUME IInv
      PROVE  TypeOK
  <2>1. Core
    BY <1>1 DEF IInv
  <2>2. ASSUME NEW c \in Conns \cup {NoConn}
        PROVE  /\ ToSet(tabs[c].items) \subseteq Tab
               /\ \A tab \in ToSet(tabs[c].items) : tab.form \in 0..Len(tab.inserts)
               /\ HasActive(tabs[c]) \/ tabs[c].items = <<>>
    <3>1. ListOK(tabs[c])
      BY <2>1 DEF Core, ListsOK
    <3>2. \A tab \in ToSet(tabs[c].items) : tab \in GoodTabs
      BY <3>1, ListIs DEF ToSet
    <3> QED
      BY <3>1, <3>2, TabIs DEF ListOK
  <2> QED
    BY <2>1, <2>2 DEF TypeOK, Core, Fronts
<1>2. IInv => TypeOK
  BY <1>1
<1> QED
  BY <1>2, Invariance, PTL

\* A tab that says it is committing has a commit in flight, wherever its list is
\* kept (Table::saving, DbUi::connection_tabs_mut).
THEOREM SavingCorrect == Spec => []SavingWillEnd
<1>1. ASSUME IInv
      PROVE  SavingWillEnd
  <2> SUFFICES ASSUME NEW c \in Conns, NEW tab \in ToSet(tabs[c].items), tab.saving
               PROVE  \E k \in commits : k.list[1] = c /\ k.tab = tab.id
    BY DEF SavingWillEnd
  <2>1. ListOK(tabs[c])
    BY <1>1, FrontIs DEF IInv
  <2>2. PICK i \in DOMAIN tabs[c].items : tab = tabs[c].items[i]
    BY DEF ToSet
  <2>3. tab.id \in Ids
    BY <2>1, <2>2, ListIs, TabIs
  <2>4. Saves(tabs[c], tab.id)
    BY <2>2 DEF Saves
  <2> QED
    BY <1>1, <2>3, <2>4 DEF IInv, Saving
<1>2. IInv => SavingWillEnd
  BY <1>1
<1> QED
  BY <1>2, Invariance, PTL

\* What a question about closing reads out is never less than what a yes throws
\* away, with loads and commits landing under it (CloseGuard::changes,
\* DbUi::confirm_close).
THEOREM QuotedCorrect == Spec => []QuotedCount
<1>1. IInv => QuotedCount
  BY QuotedIsCount DEF IInv
<1> QED
  BY <1>1, Invariance, PTL

-----------------------------------------------------------------------------
(* What goes to production, while no connection is closed over a commit     *)

\* Without a commit of a list lost from sight, what is in flight stays told of.
LEMMA MovesCurrent ==
    ASSUME ~Hasty, Core, Current, SentOnce, Moves
    PROVE  Current' /\ SentOnce'
<1>1. ASSUME NEW k \in commits
      PROVE  /\ k.list[1] \in Conns
             /\ list'[k.list[1]] = list[k.list[1]] /\ Calm(tabs'[k.list[1]], tabs[k.list[1]])
             /\ ListOK(tabs[k.list[1]]) /\ k.tab \in Nat
  <2>1. k.list[1] \in Conns /\ k.tab \in Nat
    BY Bounds DEF Core, Commits, Ids
  <2> QED
    BY <2>1, FrontIs DEF Moves
<1>2. commits' = commits
  BY DEF Moves
<1>3. ASSUME NEW k \in commits
      PROVE  k.list = <<k.list[1], list'[k.list[1]]>> /\ k.tab < tabs'[k.list[1]].next
  <2>1. k.list = ThisList(k.list[1]) /\ k.tab < tabs[k.list[1]].next
    BY DEF Current
  <2>2. /\ tabs[k.list[1]].next <= tabs'[k.list[1]].next
        /\ tabs[k.list[1]].next \in Nat /\ tabs'[k.list[1]].next \in Nat
    BY <1>1, ListIs DEF Calm
  <2> QED
    BY <1>1, <2>1, <2>2 DEF ThisList
<1>4. Current'
  BY <1>2, <1>3 DEF Current, ThisList
<1>5. ASSUME NEW k \in commits, NEW tab \in ToSet(tabs'[k.list[1]].items),
             k.tab = tab.id
      PROVE  tab.saving
  <2> DEFINE new == tabs'[k.list[1]]
             old == tabs[k.list[1]]
  <2>1. PICK i \in DOMAIN new.items : tab = new.items[i]
    BY DEF ToSet
  <2>2. k.tab < old.next /\ k.list = ThisList(k.list[1])
    BY DEF Current
  <2>3. Calm(new, old) /\ old.next \in Nat /\ k.tab \in Nat
    BY <1>1, ListIs
  <2>4. \E j \in DOMAIN old.items : tab.id = old.items[j].id /\ tab.saving = old.items[j].saving
    <3>1. ~(tab.id >= old.next)
      BY <1>5, <2>2, <2>3
    <3> HIDE DEF new, old
    <3> QED
      BY <2>1, <2>3, <3>1 DEF Calm
  <2>5. PICK j \in DOMAIN old.items : tab.id = old.items[j].id /\ tab.saving = old.items[j].saving
    BY <2>4
  <2>6. old.items[j] \in ToSet(old.items)
    BY DEF ToSet
  <2> QED
    BY <1>5, <2>2, <2>5, <2>6 DEF SentOnce
<1>6. SentOnce'
  BY <1>2, <1>5 DEF SentOnce
<1> QED
  BY <1>4, <1>6

\* A question about production stays about what it counted.
LEMMA LandingAsks ==
    ASSUME Core, Asking, Landing
    PROVE  Asking'
<1>1. /\ tabs' = tabs \/ Written
      /\ cell' \in {cell, None}
      /\ UNCHANGED <<front, list, guard, question, commits>>
  BY DEF Landing
<1>2. SUFFICES ASSUME question # None PROVE Asking'
  BY <1>1 DEF Asking
<1>3. /\ guard # None => guard.kind = "tab" /\ guard.of = front
      /\ \E i \in DOMAIN FrontTabs.items :
            /\ FrontTabs.items[i].id = Target
            /\ ~FrontTabs.items[i].saving
            /\ question = Cardinality(Staged(FrontTabs.items[i]))
            /\ i = FrontTabs.active => cell = None /\ Folds(FrontTabs.items[i])
  BY <1>2 DEF Asking
<1>4. PICK i \in DOMAIN FrontTabs.items :
        /\ FrontTabs.items[i].id = Target
        /\ ~FrontTabs.items[i].saving
        /\ question = Cardinality(Staged(FrontTabs.items[i]))
        /\ i = FrontTabs.active => cell = None /\ Folds(FrontTabs.items[i])
  BY <1>3
<1>5. /\ FrontTabs = tabs[front] /\ front \in Conns \cup {NoConn} /\ ListOK(FrontTabs)
      /\ HasActive(FrontTabs) /\ tabs \in [Conns \cup {NoConn} -> TabLists]
  BY <1>2, FrontIs DEF Core, ListsOK
<1>6. CASE FrontTabs' = FrontTabs
  <2>1. Target' = Target
    BY <1>1, <1>6 DEF Target
  <2> QED
    BY <1>1, <1>3, <1>4, <1>6, <2>1 DEF Asking
<1>7. CASE FrontTabs' # FrontTabs
  <2>1. Written
    BY <1>1, <1>5, <1>7 DEF FrontTabs
  <2>2. PICK c \in Conns : \E p \in DOMAIN tabs[c].items, tab \in GoodTabs :
           Kept(tab, tabs[c].items[p]) /\ tabs' = [tabs EXCEPT ![c] = WithTab(tabs[c], tab)]
    BY <2>1 DEF Written
  <2>3. PICK p \in DOMAIN tabs[c].items, tab \in GoodTabs :
           Kept(tab, tabs[c].items[p]) /\ tabs' = [tabs EXCEPT ![c] = WithTab(tabs[c], tab)]
    BY <2>2
  <2> DEFINE new == WithTab(tabs[c], tab)
  <2>4. c = front /\ tabs[c] = FrontTabs /\ FrontTabs' = new
    BY <2>3, <1>1, <1>5, <1>7 DEF FrontTabs
  <2>5. /\ Same(new, FrontTabs)
        /\ \A j \in DOMAIN FrontTabs.items :
              new.items[j] = IF FrontTabs.items[j].id = tab.id THEN tab ELSE FrontTabs.items[j]
    BY <2>4, <1>5, WithTabIs
  <2> HIDE DEF new
  <2>6. /\ new.items[i].id = FrontTabs.items[i].id
        /\ new.items[i].saving = FrontTabs.items[i].saving
        /\ Staged(new.items[i]) = Staged(FrontTabs.items[i])
        /\ Folds(FrontTabs.items[i]) => Folds(new.items[i])
    <3>1. CASE FrontTabs.items[i].id = tab.id
      <4>1. i = p
        BY <3>1, <2>3, <2>4, <1>5 DEF Kept, Alike, ListOK
      <4> QED
        BY <4>1, <3>1, <2>3, <2>4, <2>5 DEF Kept, Alike
    <3>2. CASE FrontTabs.items[i].id # tab.id
      BY <3>2, <2>5
    <3> QED
      BY <3>1, <3>2
  <2>7. new.active = FrontTabs.active /\ i \in DOMAIN new.items
    BY <2>5 DEF Same
  <2>8. Target' = Target
    <3>1. ActiveTab(new).id = ActiveTab(FrontTabs).id
      BY <2>5, <1>5 DEF Same, ActiveTab, HasActive
    <3> QED
      BY <3>1, <2>4, <1>1 DEF Target
  <2>9. \E j \in DOMAIN new.items :
           /\ new.items[j].id = Target
           /\ ~new.items[j].saving
           /\ question = Cardinality(Staged(new.items[j]))
           /\ j = new.active => cell' = None /\ Folds(new.items[j])
    BY <2>6, <2>7, <1>1, <1>4
  <2> QED
    BY <2>4, <2>8, <2>9, <1>1, <1>3 DEF Asking
<1> QED
  BY <1>6, <1>7

\* The tab whose batch is saved, as it stands once it is folded in.
LEMMA FoldedTab ==
    ASSUME Core, HasActive(FrontTabs), NEW p \in DOMAIN FrontTabs.items
    PROVE  LET id  == FrontTabs.items[p].id
               ts  == Folded(id)
               was == FrontTabs.items[p]
           IN  /\ ListOK(ts) /\ Calm(ts, FrontTabs) /\ Same(ts, FrontTabs)
               /\ p \in DOMAIN ts.items /\ ts.items[p] \in GoodTabs
               /\ Alike(ts.items[p], was)
               /\ p = FrontTabs.active <=> ActiveTab(FrontTabs).id = id
               /\ p = FrontTabs.active => Folds(ts.items[p])
               /\ p = FrontTabs.active /\ cell = None => ts.items[p] = Stashed(was)
               /\ p # FrontTabs.active => ts = FrontTabs
<1> DEFINE id  == FrontTabs.items[p].id
           ts  == Folded(id)
           was == FrontTabs.items[p]
           left == Stashed(CellFinished(ActiveTab(FrontTabs)))
<1>1. ListOK(FrontTabs) /\ cell \in Boxes \cup {None}
  BY FrontIs
<1>2. FrontTabs.active \in DOMAIN FrontTabs.items
      /\ ActiveTab(FrontTabs) = FrontTabs.items[FrontTabs.active]
      /\ ActiveTab(FrontTabs) \in GoodTabs
  BY <1>1, ActiveIs
<1>3. p = FrontTabs.active <=> ActiveTab(FrontTabs).id = id
  BY <1>1, <1>2 DEF ListOK
<1>4. /\ Calm(ts, FrontTabs) /\ Same(ts, FrontTabs)
      /\ ActiveTab(FrontTabs).id = id => ts = LeftIfGoing(FrontTabs, {id})
  BY FoldedIs
<1>5. p \in DOMAIN ts.items /\ ListOK(ts) /\ ts.items[p].id = id
  BY <1>4 DEF Same, Calm
<1>6. ts.items[p] \in GoodTabs
  BY <1>5, ListIs
<1>7. CASE p = FrontTabs.active
  <2>1. was = ActiveTab(FrontTabs)
    BY <1>2, <1>7
  <2>2. left \in GoodTabs /\ Alike(left, ActiveTab(FrontTabs))
    BY <1>1, <1>2, FinishedIs
  <2>3. ts = WithTab(FrontTabs, left)
    BY <1>3, <1>7 DEF Folded, Left, OnFront
  <2>4. cell = None => left = Stashed(was)
    BY <2>1 DEF CellFinished
  <2> HIDE DEF left, ts, was
  <2>5. ts.items[p] = left
    BY <2>2, <2>3, <1>1, <1>7, ActiveSet
  <2>6. Folds(ts.items[p])
    <3>1. ts = LeftIfGoing(FrontTabs, {id})
      BY <1>3, <1>4, <1>7
    <3>2. \A i \in DOMAIN ts.items : i = ts.active /\ ts.items[i].id \in {id} => Folds(ts.items[i])
      BY <3>1, <1>1, GoingIs
    <3>3. p = ts.active
      BY <1>4, <1>7 DEF Same
    <3> QED
      BY <3>2, <3>3, <1>5
  <2> QED
    BY <2>1, <2>2, <2>4, <2>5, <2>6, <1>3, <1>4, <1>5, <1>6, <1>7 DEF ts, was
<1>8. CASE p # FrontTabs.active
  <2>1. ts = FrontTabs
    BY <1>3, <1>8 DEF Folded
  <2> QED
    BY <2>1, <1>3, <1>4, <1>5, <1>6, <1>8 DEF Alike
<1> QED
  BY <1>7, <1>8

LEMMA KeepsAsks ==
    ASSUME Core, HasActive(FrontTabs), Keeps
    PROVE  Asking'
<1>1. PICK p \in DOMAIN FrontTabs.items :
        LET id  == FrontTabs.items[p].id
            ts  == Folded(id)
            tab == ts.items[p]
        IN  /\ id = Target /\ ~FrontTabs.items[p].saving
            /\ guard # None => guard.kind = "tab" /\ guard.of = front
            /\ tabs' = [tabs EXCEPT ![front] = ts]
            /\ cell' = IF ActiveTab(FrontTabs).id = id THEN None ELSE cell
            /\ question' \in {None, Cardinality(Staged(tab))}
            /\ UNCHANGED <<open, front, up, list, guard, commits>>
  BY DEF Keeps
<1> DEFINE id == FrontTabs.items[p].id
           ts == Folded(id)
<1>2. front \in Conns \cup {NoConn} /\ tabs \in [Conns \cup {NoConn} -> TabLists]
  BY FrontIs DEF Core, ListsOK
<1>3. /\ Same(ts, FrontTabs) /\ p \in DOMAIN ts.items
      /\ Alike(ts.items[p], FrontTabs.items[p])
      /\ p = FrontTabs.active <=> ActiveTab(FrontTabs).id = id
      /\ p = FrontTabs.active => Folds(ts.items[p])
  BY FoldedTab
<1>4. FrontTabs' = ts /\ front' = front /\ guard' = guard
  BY <1>1, <1>2 DEF FrontTabs
<1>5. Target' = Target
  <2>1. ActiveTab(ts).id = ActiveTab(FrontTabs).id
    BY <1>3 DEF Same, ActiveTab, HasActive
  <2> QED
    BY <2>1, <1>4 DEF Target
<1>6. /\ ts.items[p].id = Target /\ ~ts.items[p].saving
      /\ p = ts.active => cell' = None /\ Folds(ts.items[p])
      /\ question' \in {None, Cardinality(Staged(ts.items[p]))}
      /\ guard # None => guard.kind = "tab" /\ guard.of = front
  BY <1>1, <1>3 DEF Alike, Same
<1> HIDE DEF ts
<1> QED
  BY <1>3, <1>4, <1>5, <1>6 DEF Asking

LEMMA AnswerSent ==
    ASSUME Core, Sent, NEW k \in commits, NEW outcome, CommitLands(k, outcome)
    PROVE  Sent'
<1> DEFINE c == k.list[1]
<1>1. /\ k \in Commits /\ c \in Conns
      /\ \/ tabs' = tabs /\ ~HoldsTab(tabs[c], k.tab)
         \/ \E p \in DOMAIN tabs[c].items, tab \in GoodTabs :
               /\ tabs[c].items[p].id = k.tab
               /\ ~tab.saving /\ Less(tab, tabs[c].items[p])
               /\ tabs' = [tabs EXCEPT ![c] = WithTab(tabs[c], tab)]
      /\ commits' = commits \ {k}
      /\ UNCHANGED <<open, front, up, list, cell, guard, question>>
  BY AnswerIs
<1>2. Current /\ SentOnce /\ Asking /\ ProductionAgreed
  BY DEF Sent
<1>3. /\ ListOK(tabs[c]) /\ tabs \in [Conns \cup {NoConn} -> TabLists]
      /\ front \in Conns \cup {NoConn} /\ FrontTabs = tabs[front] /\ ListOK(FrontTabs)
  BY <1>1, FrontIs DEF Core, ListsOK
<1>4. k.list = ThisList(c)
  BY <1>2 DEF Current
<1> HIDE DEF c
<1>5. ProductionAgreed'
  BY <1>1, <1>2 DEF ProductionAgreed
<1>6. CASE tabs' = tabs
  <2>1. Current'
    BY <1>1, <1>2, <1>6 DEF Current, ThisList
  <2>2. SentOnce'
    BY <1>1, <1>2, <1>6 DEF SentOnce, ThisList
  <2>3. Asking'
    BY <1>1, <1>2, <1>6 DEF Asking, Target, FrontTabs
  <2> QED
    BY <1>5, <2>1, <2>2, <2>3 DEF Sent
<1>7. CASE tabs' # tabs
  <2>1. PICK p \in DOMAIN tabs[c].items, tab \in GoodTabs :
           /\ tabs[c].items[p].id = k.tab
           /\ ~tab.saving /\ Less(tab, tabs[c].items[p])
           /\ tabs' = [tabs EXCEPT ![c] = WithTab(tabs[c], tab)]
    BY <1>1, <1>7
  <2> DEFINE new == WithTab(tabs[c], tab)
             old == tabs[c]
  <2>2. tab.id = k.tab
    BY <2>1 DEF Less
  <2>3. /\ ListOK(new) /\ Same(new, old)
        /\ \A i \in DOMAIN old.items :
              new.items[i] = IF old.items[i].id = tab.id THEN tab ELSE old.items[i]
    BY <1>3, WithTabIs
  <2>4. \A d \in Conns \cup {NoConn} : tabs'[d] = IF d = c THEN new ELSE tabs[d]
    BY <1>3, <2>1
  <2> HIDE DEF new
  <2>5. \A d \in Conns \cup {NoConn} : tabs'[d].next = tabs[d].next
    BY <2>3, <2>4 DEF Same
  <2>6. \A other \in commits : other.list[1] \in Conns
    BY DEF Core, Commits
  <2>7. Current'
    <3>1. \A other \in commits : other.list = <<other.list[1], list'[other.list[1]]>>
                                 /\ other.tab < tabs'[other.list[1]].next
      BY <1>1, <1>2, <2>5, <2>6 DEF Current, ThisList
    <3> QED
      BY <3>1, <1>1, <1>2 DEF Current, ThisList
  <2>8. SentOnce'
    <3> SUFFICES ASSUME NEW other \in commits, other # k, NEW t \in ToSet(tabs'[other.list[1]].items),
                        other.tab = t.id
                 PROVE  t.saving
      BY <1>1 DEF SentOnce
    <3>1. other.list = ThisList(other.list[1])
      BY <1>2 DEF Current
    <3>2. CASE other.list[1] # c
      <4>1. tabs'[other.list[1]] = tabs[other.list[1]]
        BY <3>2, <2>4, <2>6
      <4> QED
        BY <3>1, <4>1, <1>2 DEF SentOnce
    <3>3. CASE other.list[1] = c
      <4>1. PICK i \in DOMAIN new.items : t = new.items[i]
        BY <3>3, <2>4, <2>6 DEF ToSet
      <4>2. other.tab # k.tab
        BY <3>1, <3>3, <1>2, <1>4 DEF Current
      <4>3. i \in DOMAIN old.items /\ t = old.items[i]
        BY <4>1, <4>2, <2>2, <2>3 DEF Same
      <4>4. t \in ToSet(old.items)
        BY <4>3 DEF ToSet
      <4> QED
        BY <4>4, <3>1, <3>3, <1>2 DEF SentOnce
    <3> QED
      BY <3>2, <3>3
  <2>9. Asking'
    <3>1. CASE question = None
      BY <3>1, <1>1 DEF Asking
    <3>2. CASE c # front
      <4>1. FrontTabs' = FrontTabs
        BY <3>2, <2>4, <1>1, <1>3 DEF FrontTabs
      <4> QED
        BY <4>1, <1>1, <1>2 DEF Asking, Target
    <3>3. CASE question # None /\ c = front
      <4>1. FrontTabs' = new /\ FrontTabs = old
        BY <3>3, <2>4, <1>1, <1>3 DEF FrontTabs
      <4>2. guard # None => guard.kind = "tab" /\ guard.of = front
        BY <3>3, <1>2 DEF Asking
      <4>3. PICK i \in DOMAIN FrontTabs.items :
               /\ FrontTabs.items[i].id = Target
               /\ ~FrontTabs.items[i].saving
               /\ question = Cardinality(Staged(FrontTabs.items[i]))
               /\ i = FrontTabs.active => cell = None /\ Folds(FrontTabs.items[i])
        BY <3>3, <1>2 DEF Asking
      <4>4. old.items[p].saving
        <5>1. old.items[p] \in ToSet(old.items)
          BY DEF ToSet
        <5> QED
          BY <5>1, <2>1, <1>2, <1>4 DEF SentOnce, c
      <4>5. old.items[i].id # tab.id
        <5>1. i # p
          BY <4>1, <4>3, <4>4
        <5> QED
          BY <5>1, <4>1, <2>1, <2>2, <1>3 DEF ListOK
      <4>6. new.items[i] = old.items[i] /\ i \in DOMAIN new.items /\ new.active = old.active
        BY <4>1, <4>5, <2>3 DEF Same
      <4>7. Target' = Target
        <5>1. HasActive(FrontTabs)
          BY <3>3 DEF Core
        <5>2. ActiveTab(new).id = ActiveTab(old).id
          BY <5>1, <4>1, <2>3 DEF Same, ActiveTab, HasActive
        <5> QED
          BY <5>2, <4>1, <1>1 DEF Target
      <4>8. \E j \in DOMAIN new.items :
               /\ new.items[j].id = Target
               /\ ~new.items[j].saving
               /\ question = Cardinality(Staged(new.items[j]))
               /\ j = new.active => cell = None /\ Folds(new.items[j])
        BY <4>1, <4>3, <4>6
      <4> QED
        BY <4>1, <4>2, <4>7, <4>8, <1>1 DEF Asking
    <3> QED
      BY <3>1, <3>2, <3>3
  <2> QED
    BY <1>5, <2>7, <2>8, <2>9 DEF Sent
<1> QED
  BY <1>6, <1>7

LEMMA SendsSent ==
    ASSUME Core, Sent, HasActive(FrontTabs), NEW agreed \in {None, question}, Sends(agreed)
    PROVE  Sent'
<1>1. PICK p \in DOMAIN FrontTabs.items, k \in Commits :
        LET id  == FrontTabs.items[p].id
            ts  == Folded(id)
            tab == ts.items[p]
        IN  /\ id = Target /\ ~FrontTabs.items[p].saving
            /\ front \in Conns
            /\ tabs' = [tabs EXCEPT ![front] = WithTab(ts, [tab EXCEPT !.saving = TRUE])]
            /\ commits' = commits \cup {k} /\ guard' = None /\ question' = None
            /\ UNCHANGED <<open, front, up, list>> /\ cell' \in {cell, None}
            /\ k.list = ThisList(front) /\ k.tab = id
            /\ k.asked = IF agreed = None THEN 0 ELSE agreed
            /\ k.edits = tab.edits /\ k.deletes = tab.deletes /\ k.inserts = NewNames(tab)
            /\ agreed = None => front \notin Production
  BY DEF Sends
<1> DEFINE id  == FrontTabs.items[p].id
           ts  == Folded(id)
           tab == ts.items[p]
           sent == [tab EXCEPT !.saving = TRUE]
           new == WithTab(ts, sent)
<1>2. /\ id = Target /\ ~FrontTabs.items[p].saving /\ front \in Conns
      /\ tabs' = [tabs EXCEPT ![front] = new]
      /\ commits' = commits \cup {k} /\ question' = None
      /\ UNCHANGED <<front, list>>
      /\ k.list = ThisList(front) /\ k.list[1] = front /\ k.tab = id
      /\ k.asked = IF agreed = None THEN 0 ELSE agreed
      /\ k.edits = tab.edits /\ k.deletes = tab.deletes /\ k.inserts = NewNames(tab)
      /\ agreed = None => front \notin Production
  BY <1>1 DEF ThisList
<1>3. Current /\ SentOnce /\ Asking /\ ProductionAgreed
  BY DEF Sent
<1>4. /\ FrontTabs = tabs[front] /\ tabs \in [Conns \cup {NoConn} -> TabLists] /\ ListOK(FrontTabs)
  BY FrontIs DEF Core, ListsOK
<1>5. /\ ListOK(ts) /\ Calm(ts, FrontTabs) /\ Same(ts, FrontTabs)
      /\ p \in DOMAIN ts.items /\ tab \in GoodTabs
      /\ Alike(tab, FrontTabs.items[p])
      /\ p = FrontTabs.active <=> ActiveTab(FrontTabs).id = id
      /\ p = FrontTabs.active /\ cell = None => tab = Stashed(FrontTabs.items[p])
      /\ p # FrontTabs.active => ts = FrontTabs
  BY FoldedTab
<1> HIDE DEF ts
<1>6. sent \in GoodTabs /\ sent.id = id /\ sent.saving
  <2>1. tab.id = id
    BY <1>5 DEF Alike
  <2> HIDE DEF tab, id
  <2> QED
    BY <1>5, <2>1, FlagsAre
<1>7. p # FrontTabs.active => tab = FrontTabs.items[p]
  BY <1>5
<1> HIDE DEF tab, sent
<1>8. /\ ListOK(new) /\ Same(new, ts)
      /\ \A i \in DOMAIN ts.items :
            new.items[i] = IF ts.items[i].id = sent.id THEN sent ELSE ts.items[i]
  BY <1>5, <1>6, WithTabIs
<1> HIDE DEF new
<1>9. \A d \in Conns \cup {NoConn} : tabs'[d] = IF d = front THEN new ELSE tabs[d]
  BY <1>2, <1>4
<1>10. \A d \in Conns \cup {NoConn} : tabs'[d].next = tabs[d].next
  BY <1>4, <1>5, <1>8, <1>9 DEF Same
<1>11. \A other \in commits : other.list[1] \in Conns
  BY DEF Core, Commits
<1>12. \A other \in commits : ~(other.list = k.list /\ other.tab = k.tab)
  <2> SUFFICES ASSUME NEW other \in commits, other.list = k.list, other.tab = k.tab
               PROVE  FALSE
    OBVIOUS
  <2>1. FrontTabs.items[p] \in ToSet(FrontTabs.items)
    BY DEF ToSet
  <2>2. other.list[1] = front /\ other.list = ThisList(front) /\ other.tab = FrontTabs.items[p].id
    BY <1>2
  <2>3. FrontTabs.items[p].saving
    BY <2>1, <2>2, <1>3, <1>4 DEF SentOnce
  <2> QED
    BY <2>3, <1>2
<1>13. Current'
  <2>1. \A other \in commits' : other.list = <<other.list[1], list'[other.list[1]]>>
                                /\ other.tab < tabs'[other.list[1]].next
    <3>1. CASE commits' = commits
      BY <3>1, <1>2, <1>3, <1>10, <1>11 DEF Current, ThisList
    <3>2. id < FrontTabs.next
      BY <1>4 DEF ListOK
    <3> QED
      BY <3>2, <1>2, <1>3, <1>4, <1>10, <1>11 DEF Current, ThisList
  <2>2. \A i, j \in commits' : i.list = j.list /\ i.tab = j.tab => i = j
    BY <1>2, <1>3, <1>12 DEF Current
  <2> QED
    BY <2>1, <2>2 DEF Current, ThisList
<1>14. SentOnce'
  <2> SUFFICES ASSUME NEW other \in commits', NEW t \in ToSet(tabs'[other.list[1]].items),
                      other.list = ThisList(other.list[1]), other.tab = t.id
               PROVE  t.saving
    BY <1>2 DEF SentOnce, ThisList
  <2>1. CASE other.list[1] = front
    <3>1. PICK i \in DOMAIN new.items : t = new.items[i]
      BY <2>1, <1>2, <1>9 DEF ToSet
    <3>2. i \in DOMAIN ts.items /\ i \in DOMAIN FrontTabs.items
          /\ ts.items[i].id = FrontTabs.items[i].id
      BY <3>1, <1>5, <1>8 DEF Same
    <3>3. CASE ts.items[i].id = sent.id
      BY <3>1, <3>2, <3>3, <1>6, <1>8
    <3>4. CASE ts.items[i].id # sent.id
      <4>1. t = ts.items[i] /\ other # k /\ other \in commits
        BY <3>1, <3>2, <3>4, <1>2, <1>6, <1>8
      <4>2. PICK j \in DOMAIN FrontTabs.items :
               t.id = FrontTabs.items[j].id /\ t.saving = FrontTabs.items[j].saving
        <5>1. FrontTabs.items[i].id < FrontTabs.next
          BY <3>2, <1>4 DEF ListOK
        <5>2. FrontTabs.items[i].id \in Nat /\ FrontTabs.next \in Nat
          BY <3>2, <1>4, ListIs
        <5>3. ~(ts.items[i].id >= FrontTabs.next)
          BY <5>1, <5>2, <3>2
        <5> QED
          BY <5>3, <4>1, <3>2, <1>5 DEF Calm
      <4>3. FrontTabs.items[j] \in ToSet(FrontTabs.items)
        BY DEF ToSet
      <4> QED
        BY <4>1, <4>2, <4>3, <2>1, <1>3, <1>4 DEF SentOnce
    <3> QED
      BY <3>3, <3>4
  <2>2. CASE other.list[1] # front
    <3>1. other \in commits
      BY <2>2, <1>2
    <3>2. tabs'[other.list[1]] = tabs[other.list[1]]
      BY <2>2, <3>1, <1>9, <1>11
    <3> QED
      BY <3>1, <3>2, <1>3 DEF SentOnce
  <2> QED
    BY <2>1, <2>2
<1>15. ProductionAgreed'
  <2>1. ASSUME front \in Production
        PROVE  k.asked = Cardinality({r \in Rows : k.edits[r] # Stored})
                         + Cardinality(k.deletes) + Cardinality(k.inserts)
    <3>1. question # None /\ k.asked = question
      BY <2>1, <1>2
    <3>2. PICK i \in DOMAIN FrontTabs.items :
             /\ FrontTabs.items[i].id = Target
             /\ question = Cardinality(Staged(FrontTabs.items[i]))
             /\ i = FrontTabs.active => cell = None /\ Folds(FrontTabs.items[i])
      BY <3>1, <1>3 DEF Asking
    <3>3. i = p
      BY <3>2, <1>2, <1>4 DEF ListOK
    <3>4. Staged(tab) = Staged(FrontTabs.items[p])
      <4>1. CASE p = FrontTabs.active
        BY <4>1, <3>2, <3>3, <1>4, <1>5, ListIs, FoldsCounts
      <4>2. CASE p # FrontTabs.active
        BY <4>2, <1>7
      <4> QED
        BY <4>1, <4>2
    <3>5. Cardinality(Staged(tab)) = Cardinality(Edited(tab)) + Cardinality(tab.deletes)
                                     + Cardinality(NewNames(tab))
      BY <1>5, StagedIs
    <3>6. Edited(tab) = {r \in Rows : k.edits[r] # Stored}
      BY <1>2 DEF Edited
    <3> QED
      BY <3>1, <3>2, <3>3, <3>4, <3>5, <3>6, <1>2
  <2> QED
    BY <2>1, <1>2, <1>3 DEF ProductionAgreed
<1>16. Asking'
  BY <1>2 DEF Asking
<1> QED
  BY <1>13, <1>14, <1>15, <1>16 DEF Sent

LEMMA SentSteps ==
    ASSUME ~Hasty, IInv, Sent, [Next]_vars
    PROVE  Sent'
<1>1. Core /\ Quoted /\ Current /\ SentOnce /\ Asking /\ ProductionAgreed
  BY DEF IInv, Sent
<1>2. ASSUME Moves, Asking'
      PROVE  Sent'
  <2>1. Current' /\ SentOnce'
    BY <1>1, <1>2, MovesCurrent
  <2>2. ProductionAgreed'
    BY <1>1, <1>2 DEF Moves, ProductionAgreed
  <2> QED
    BY <1>2, <2>1, <2>2 DEF Sent
<1>3. CASE UNCHANGED vars
  <2>1. Current' /\ SentOnce'
    BY <1>1, <1>3 DEF vars, Current, SentOnce, ThisList
  <2>2. Asking' /\ ProductionAgreed'
    BY <1>1, <1>3 DEF vars, Asking, Target, FrontTabs, ProductionAgreed
  <2> QED
    BY <2>1, <2>2 DEF Sent
<1>4. CASE Settled
  BY <1>2, <1>4 DEF Settled, Asking
<1>5. CASE Landing
  BY <1>1, <1>2, <1>5, LandingSteps, LandingAsks DEF Lands
<1>6. CASE Drops
  BY <1>1, <1>2, <1>6, DropsLands DEF Lands, Drops, Asking
<1>7. CASE HasActive(FrontTabs) /\ Keeps
  BY <1>1, <1>2, <1>7, KeepsLands, KeepsAsks DEF Lands
<1>8. CASE HasActive(FrontTabs) /\ \E agreed \in {None, question} : Sends(agreed)
  BY <1>1, <1>8, SendsSent
<1>9. CASE \E k \in commits, outcome \in {"committed", "rolled back"} : CommitLands(k, outcome)
  BY <1>1, <1>9, AnswerSent
<1> QED
  BY <1>3, <1>4, <1>5, <1>6, <1>7, <1>8, <1>9, StepIs

\* What a question counts is what a yes to it throws away or sends: nothing goes
\* to production but what was agreed to, by count, while no connection is closed
\* over a commit of its own (DbUi::hold_for_production,
\* confirm_production_write; CloseGuard::changes).
THEOREM AgreedCorrect == ~Hasty => (Spec => []AgreedCounts)
<1> SUFFICES ASSUME ~Hasty PROVE Spec => []AgreedCounts
  OBVIOUS
<1>1. Init => Sent
  BY DEF Init, Sent, Current, SentOnce, Asking, ProductionAgreed
<1>2. IInv /\ Sent /\ [Next]_vars => Sent'
  BY SentSteps
<1>3. IInv /\ Sent => AgreedCounts
  BY QuotedIsCount DEF IInv, Sent, AgreedCounts
<1> QED
  BY <1>1, <1>2, <1>3, Invariance, PTL DEF Spec

\* ... and no batch is sent twice: while a commit of a tab is in flight the tab
\* says so (Table::saving, DbUi::save_pending_edits).
THEOREM SentOnceCorrect == ~Hasty => (Spec => []SentOnce)
<1> SUFFICES ASSUME ~Hasty PROVE Spec => []SentOnce
  OBVIOUS
<1>1. Init => Sent
  BY DEF Init, Sent, Current, SentOnce, Asking, ProductionAgreed
<1>2. IInv /\ Sent /\ [Next]_vars => Sent'
  BY SentSteps
<1>3. Sent => SentOnce
  BY DEF Sent
<1> QED
  BY <1>1, <1>2, <1>3, Invariance, PTL DEF Spec

-----------------------------------------------------------------------------
(* Tabs with work on them, from one state to the next *)

\* No tab comes, goes or is brought to the front.
Still ==
    /\ front' = front /\ list' = list
    /\ \A c \in Conns \cup {NoConn} : Same(tabs'[c], tabs[c])

\* No tab of a connection goes.
Stay(c) == list'[c] = list[c] /\ \A id : HoldsTab(tabs[c], id) => HoldsTab(tabs'[c], id)

\* What AskedFirst and TypedIsStaged say of a step.
AskedStep ==
    \A c \in Conns, id \in Ids :
        IsHere(c, id) /\ ~StaysHere(c, id) /\ WorkOn(c, id) # {} =>
            /\ guard # None /\ guard' = None
            /\ guard.of \in {c, None}
            /\ guard.kind = "tab" => guard.id = id

TypedStep ==
    LET tab == ActiveTab(FrontTabs)
        was == CellFinished(tab)
    IN  /\ HasActive(FrontTabs) /\ was.draft # None /\ tab.shown
        /\ was.draft.text # Bad /\ was.draft.row \notin tab.deletes
        /\ front # NoConn /\ StaysHere(front, tab.id)
        /\ front' # front \/ ActiveTab(tabs'[front]).id # tab.id
        => TabOf(tabs'[front], tab.id).edits[was.draft.row] = was.draft.text

LEMMA StayAsks ==
    ASSUME \A c \in Conns : Stay(c)
    PROVE  AskedStep
BY DEF AskedStep, Stay, IsHere, StaysHere

LEMMA StillTells ==
    ASSUME Core, Still
    PROVE  AskedStep /\ TypedStep
<1>1. AskedStep
  <2>1. \A c \in Conns : Stay(c)
    BY SameTaken DEF Still, Stay
  <2> QED
    BY <2>1, StayAsks
<1>2. HasActive(FrontTabs) => ActiveTab(tabs'[front]).id = ActiveTab(FrontTabs).id
  <2>1. Same(tabs'[front], FrontTabs)
    BY FrontIs DEF Still
  <2> QED
    BY <2>1 DEF Same, HasActive, ActiveTab
<1>3. TypedStep
  BY <1>2 DEF TypedStep, Still
<1> QED
  BY <1>1, <1>3

LEMMA SameWithTab ==
    ASSUME NEW ts, ListOK(ts), NEW tab
    PROVE  Same(WithTab(ts, tab), ts)
<1> DEFINE items == [i \in DOMAIN ts.items |->
                        IF ts.items[i].id = tab.id THEN tab ELSE ts.items[i]]
<1>1. ts \in TabLists
  BY ListIs
<1>2. WithTab(ts, tab) = [ts EXCEPT !.items = items]
  BY DEF WithTab
<1>3. /\ DOMAIN items = DOMAIN ts.items
      /\ \A i \in DOMAIN ts.items : items[i].id = ts.items[i].id
  OBVIOUS
<1> HIDE DEF items
<1>4. /\ WithTab(ts, tab).items = items /\ WithTab(ts, tab).active = ts.active
      /\ WithTab(ts, tab).next = ts.next
  BY <1>1, <1>2 DEF TabLists
<1> QED
  BY <1>3, <1>4 DEF Same

LEMMA ListStill ==
    ASSUME Core, NEW c \in Conns \cup {NoConn}, NEW ts, Same(ts, tabs[c]),
           tabs' = [tabs EXCEPT ![c] = ts], front' = front, list' = list
    PROVE  Still
<1>1. \A d \in Conns \cup {NoConn} : tabs'[d] = IF d = c THEN ts ELSE tabs[d]
  BY DEF Core, ListsOK
<1> QED
  BY <1>1, CalmItself DEF Still, Core, ListsOK

LEMMA NoneStill ==
    ASSUME Core, tabs' = tabs, front' = front, list' = list
    PROVE  Still
BY CalmItself DEF Still, Core, ListsOK

LEMMA TabStill ==
    ASSUME Core, AtTab, tabs' = tabs \/ \E tab : Shows(tab)
    PROVE  Still
<1>1. front' = front /\ list' = list
  BY DEF AtTab
<1>2. ASSUME NEW tab, Shows(tab)
      PROVE  Still
  <2>1. tabs' = [tabs EXCEPT ![front] = WithTab(FrontTabs, tab)]
    BY <1>2 DEF Shows, FrontTabs
  <2>2. Same(WithTab(FrontTabs, tab), tabs[front]) /\ front \in Conns \cup {NoConn}
    BY FrontIs, SameWithTab
  <2> QED
    BY <1>1, <2>1, <2>2, ListStill
<1> QED
  BY <1>1, <1>2, NoneStill

\* The steps of the tab in front.
LEMMA WorkStill ==
    ASSUME Core,
           \/ \E r \in Rows : SelectRow(r) \/ BeginCellEdit(r)
           \/ \E text \in Typed : TypeField(text)
           \/ \E text \in Boxed : TypeCell(text)
           \/ CancelCell \/ FinishCell
           \/ \E n \in NewRows : AddRows(n) \/ PasteRows(n) \/ EditInsert(n) \/ RemoveInsert(n)
           \/ \E parses \in BOOLEAN : TypeInsert(parses)
           \/ DeleteSelected \/ DiscardPendingEdits
    PROVE  Still
<1>1. CASE \E r \in Rows : SelectRow(r) \/ BeginCellEdit(r)
  BY <1>1, TabStill DEF SelectRow, BeginCellEdit, AtWork
<1>2. CASE \E text \in Typed : TypeField(text)
  BY <1>2, TabStill DEF TypeField
<1>3. CASE (\E text \in Boxed : TypeCell(text)) \/ CancelCell \/ FinishCell
  BY <1>3, TabStill DEF TypeCell, CancelCell, FinishCell
<1>4. CASE \E n \in NewRows : AddRows(n) \/ PasteRows(n) \/ EditInsert(n) \/ RemoveInsert(n)
  BY <1>4, TabStill DEF AddRows, PasteRows, EditInsert, RemoveInsert, RoomFor, AtWork
<1>5. CASE \E parses \in BOOLEAN : TypeInsert(parses)
  BY <1>5, TabStill DEF TypeInsert
<1>6. CASE DeleteSelected \/ DiscardPendingEdits
  BY <1>6, TabStill DEF DeleteSelected, DiscardPendingEdits
<1> QED
  BY <1>1, <1>2, <1>3, <1>4, <1>5, <1>6

LEMMA ReloadStill ==
    ASSUME Core, Reload
    PROVE  Still
<1> DEFINE left == Left(FrontTabs)
           new  == Loading(left, front)
<1>1. ListOK(FrontTabs) /\ cell \in Boxes \cup {None} /\ FrontTabs = tabs[front]
      /\ front \in Conns \cup {NoConn}
  BY FrontIs
<1>2. Same(left, FrontTabs) /\ ListOK(left)
  BY <1>1, LeftIs DEF Calm
<1>3. tabs' = [tabs EXCEPT ![front] = new] /\ front' = front /\ list' = list
  BY <1>1 DEF Reload, AtTab, Core, ListsOK
<1> HIDE DEF left
<1>4. Same(new, left)
  BY <1>2, LoadingIs
<1> HIDE DEF new
<1>5. Same(new, tabs[front])
  BY <1>1, <1>2, <1>4, SameSince
<1> QED
  BY <1>1, <1>3, <1>5, ListStill

LEMMA DisconnectStill ==
    ASSUME Core, NEW c \in Conns, Disconnect(c)
    PROVE  Still
<1> DEFINE new == [tabs[c] EXCEPT !.items =
                      [i \in DOMAIN @ |-> [Unselected(@[i]) EXCEPT !.shown = FALSE]]]
<1>1. Same(new, tabs[c])
  BY FrontIs, DroppedIs
<1>2. tabs' = [tabs EXCEPT ![c] = new] /\ front' = front /\ list' = list
  BY DEF Disconnect
<1> HIDE DEF new
<1> QED
  BY <1>1, <1>2, ListStill

\* Answers, and commits that are sent or held.
LEMMA LandingStill ==
    ASSUME Core,
           \/ \E c \in Conns : Connects(c)
           \/ \E c \in Conns, i \in 1..MaxTabs, ok \in BOOLEAN : LoadLands(c, i, ok)
    PROVE  Still
<1>1. Landing
  BY LandingIs
<1>2. CASE tabs' = tabs
  BY <1>1, <1>2, NoneStill DEF Landing
<1>3. CASE Written
  <2>1. PICK c \in Conns : \E tab \in GoodTabs : tabs' = [tabs EXCEPT ![c] = WithTab(tabs[c], tab)]
    BY <1>3 DEF Written
  <2>2. PICK tab \in GoodTabs : tabs' = [tabs EXCEPT ![c] = WithTab(tabs[c], tab)]
    BY <2>1
  <2>3. Same(WithTab(tabs[c], tab), tabs[c])
    BY FrontIs, SameWithTab
  <2> QED
    BY <1>1, <2>2, <2>3, ListStill DEF Landing
<1> QED
  BY <1>1, <1>2, <1>3 DEF Landing

LEMMA CommitStill ==
    ASSUME Core, CommitChanges \/ ConfirmProduction \/ CancelProduction
    PROVE  Still
<1>1. CASE Drops
  BY <1>1, NoneStill DEF Drops
<1>2. ASSUME HasActive(FrontTabs), NEW id, NEW ts \in {Folded(id)}, NEW tab,
             tabs' = [tabs EXCEPT ![front] = ts] \/ tabs' = [tabs EXCEPT ![front] = WithTab(ts, tab)],
             front' = front, list' = list
      PROVE  Still
  <2>1. ListOK(ts) /\ Same(ts, tabs[front]) /\ front \in Conns \cup {NoConn}
    BY <1>2, FoldedIs, FrontIs DEF Calm
  <2>2. Same(WithTab(ts, tab), ts)
    BY <2>1, SameWithTab
  <2>3. Same(WithTab(ts, tab), tabs[front])
    BY <2>1, <2>2, SameSince
  <2> QED
    BY <1>2, <2>1, <2>3, ListStill
<1>3. CASE HasActive(FrontTabs) /\ Keeps
  <2>1. PICK p \in DOMAIN FrontTabs.items :
           tabs' = [tabs EXCEPT ![front] = Folded(FrontTabs.items[p].id)]
           /\ UNCHANGED <<front, list>>
    BY <1>3 DEF Keeps
  <2> QED
    BY <1>2, <1>3, <2>1
<1>4. CASE HasActive(FrontTabs) /\ \E agreed \in {None, question} : Sends(agreed)
  <2>1. PICK p \in DOMAIN FrontTabs.items : \E tab :
           tabs' = [tabs EXCEPT ![front] = WithTab(Folded(FrontTabs.items[p].id), tab)]
           /\ UNCHANGED <<front, list>>
    BY <1>4 DEF Sends
  <2> QED
    BY <1>2, <1>4, <2>1
<1> QED
  BY <1>1, <1>3, <1>4, CommitSteps

LEMMA AnswerStill ==
    ASSUME Core, NEW k \in commits, NEW outcome, CommitLands(k, outcome)
    PROVE  Still
<1>1. k.list[1] \in Conns
  BY DEF Core, Commits
<1>2. front' = front /\ list' = list
  BY DEF CommitLands
<1>3. CASE tabs' = tabs
  BY <1>2, <1>3, NoneStill
<1>4. CASE tabs' # tabs
  <2>1. \E tab : tabs' = [tabs EXCEPT ![k.list[1]] = WithTab(@, tab)]
    BY <1>4 DEF CommitLands
  <2>2. PICK tab : tabs' = [tabs EXCEPT ![k.list[1]] = WithTab(tabs[k.list[1]], tab)]
    BY <2>1, <1>1 DEF Core, ListsOK
  <2>3. Same(WithTab(tabs[k.list[1]], tab), tabs[k.list[1]])
    BY <1>1, FrontIs, SameWithTab
  <2> QED
    BY <1>1, <1>2, <2>2, <2>3, ListStill
<1> QED
  BY <1>3, <1>4

\* A list shown as loading has the same staged on its tabs.
SameEdits(new, old) ==
    Same(new, old) /\ \A i \in DOMAIN old.items : new.items[i].edits = old.items[i].edits

LEMMA LoadingEdits ==
    ASSUME NEW ts, ListOK(ts), NEW c
    PROVE  SameEdits(Loading(ts, c), ts) /\ SameEdits(LoadingIfEmpty(ts, c), ts)
<1>1. SameEdits(ts, ts)
  BY CalmItself DEF SameEdits
<1>2. ASSUME HasActive(ts)
      PROVE  SameEdits(WithTab(ts, [ActiveTab(ts) EXCEPT !.loading = TRUE]), ts)
  <2> DEFINE tab == [ActiveTab(ts) EXCEPT !.loading = TRUE]
  <2>1. /\ tab \in GoodTabs /\ Alike(tab, ActiveTab(ts)) /\ tab.edits = ActiveTab(ts).edits
        /\ ActiveTab(ts) = ts.items[ts.active]
    BY <1>2, ActiveIs, FlagsAre DEF SameWork
  <2> HIDE DEF tab
  <2>2. /\ Same(WithTab(ts, tab), ts)
        /\ \A i \in DOMAIN ts.items :
              WithTab(ts, tab).items[i] = IF i = ts.active THEN tab ELSE ts.items[i]
    BY <1>2, <2>1, ActiveSet
  <2> QED
    BY <2>1, <2>2 DEF SameEdits, tab
<1> QED
  BY <1>1, <1>2 DEF Loading, LoadingIfEmpty

\* What is typed on the tab in front is staged on it, and the others are let be.
LEMMA LeftKeeps ==
    ASSUME NEW ts, ListOK(ts), cell \in Boxes \cup {None}
    PROVE  /\ \A i \in DOMAIN ts.items : i # ts.active => Left(ts).items[i] = ts.items[i]
           /\ LET was == CellFinished(ActiveTab(ts))
              IN  HasActive(ts) /\ Merges(was) /\ was.draft.row \notin ActiveTab(ts).deletes =>
                     Left(ts).items[ts.active].edits[was.draft.row] = was.draft.text
<1>1. CASE HasActive(ts)
  <2> DEFINE was == CellFinished(ActiveTab(ts))
             tab == Stashed(was)
  <2>1. /\ ActiveTab(ts) \in GoodTabs /\ was \in GoodTabs /\ was.deletes = ActiveTab(ts).deletes
        /\ tab \in GoodTabs /\ Alike(tab, ActiveTab(ts))
    BY <1>1, ActiveIs, CellFinishedIs, FinishedIs DEF SameWork
  <2>2. Left(ts) = WithTab(ts, tab)
    BY <1>1 DEF Left, OnFront
  <2> HIDE DEF was
  <2>3. Merges(was) /\ was.draft.row \notin was.deletes =>
           tab.edits = [was.edits EXCEPT ![was.draft.row] = was.draft.text]
    BY <2>1, StashedIs
  <2> HIDE DEF tab
  <2>4. \A i \in DOMAIN ts.items : Left(ts).items[i] = IF i = ts.active THEN tab ELSE ts.items[i]
    BY <1>1, <2>1, <2>2, ActiveSet
  <2>5. Merges(was) => was.draft.row \in Rows /\ was.edits \in [Rows -> Texts \cup {Stored}]
    BY <2>1, TabIs DEF Merges, Drafts
  <2>6. Merges(was) /\ was.draft.row \notin was.deletes =>
           tab.edits[was.draft.row] = was.draft.text
    BY <2>3, <2>5
  <2>7. Left(ts).items[ts.active] = tab
    BY <1>1, <2>4 DEF HasActive
  <2> QED
    BY <2>1, <2>4, <2>6, <2>7 DEF was
<1>2. CASE ~HasActive(ts)
  BY <1>2 DEF Left, OnFront
<1> QED
  BY <1>1, <1>2

\* The draft of the tab in front, as TypedIsStaged has it.
Was == CellFinished(ActiveTab(FrontTabs))

LEMMA TypedAt ==
    ASSUME Core, HasActive(FrontTabs),
           Merges(Was) /\ Was.draft.row \notin ActiveTab(FrontTabs).deletes
              /\ (front' # front \/ ActiveTab(tabs'[front]).id # ActiveTab(FrontTabs).id) =>
              /\ ListOK(tabs'[front])
              /\ \E i \in DOMAIN tabs'[front].items :
                    /\ tabs'[front].items[i].id = ActiveTab(FrontTabs).id
                    /\ tabs'[front].items[i].edits[Was.draft.row] = Was.draft.text
    PROVE  TypedStep
<1> DEFINE tab == ActiveTab(FrontTabs)
           new == tabs'[front]
<1>1. Was.shown = tab.shown
  BY FrontIs, ActiveIs, CellFinishedIs DEF Was
<1> SUFFICES ASSUME Was.draft # None, tab.shown, Was.draft.text # Bad,
                    Was.draft.row \notin tab.deletes, StaysHere(front, tab.id),
                    front' # front \/ ActiveTab(new).id # tab.id
             PROVE  TabOf(new, tab.id).edits[Was.draft.row] = Was.draft.text
  BY DEF TypedStep, Was
<1>2. Merges(Was)
  BY <1>1 DEF Merges
<1>3. /\ ListOK(new)
      /\ \E i \in DOMAIN new.items :
            new.items[i].id = tab.id /\ new.items[i].edits[Was.draft.row] = Was.draft.text
  BY <1>2
<1>4. PICK i \in DOMAIN new.items :
         new.items[i].id = tab.id /\ new.items[i].edits[Was.draft.row] = Was.draft.text
  BY <1>3
<1>5. HoldsTab(new, tab.id)
  BY DEF StaysHere
<1> HIDE DEF new, tab
<1>6. PICK p \in DOMAIN new.items : TabOf(new, tab.id) = new.items[p] /\ new.items[p].id = tab.id
  BY <1>3, <1>5, TabOfIs
<1>7. p = i
  BY <1>3, <1>4, <1>6 DEF ListOK
<1> QED
  BY <1>4, <1>6, <1>7

LEMMA NotActive ==
    ASSUME ~HasActive(FrontTabs)
    PROVE  TypedStep
BY DEF TypedStep

LEMMA OpenTableTells ==
    ASSUME Core, NEW t \in Tables, OpenTable(t)
    PROVE  AskedStep /\ TypedStep
<1> DEFINE left == Left(FrontTabs)
           wide == FocusOrPush(left, NewTab(t))
           last == Left(wide)
           new  == Loading(last, front)
           a    == FrontTabs.active
<1>1. ListOK(FrontTabs) /\ cell \in Boxes \cup {None} /\ FrontTabs = tabs[front]
      /\ front \in Conns \cup {NoConn}
  BY FrontIs
<1>2. Same(left, FrontTabs) /\ ListOK(left)
  BY <1>1, LeftIs DEF Calm
<1>3. wide.next <= MaxTabs /\ tabs' = [tabs EXCEPT ![front] = new] /\ front' = front /\ list' = list
  BY DEF OpenTable
<1>4. HasActive(FrontTabs) /\ Merges(Was) /\ Was.draft.row \notin ActiveTab(FrontTabs).deletes =>
         left.items[a].edits[Was.draft.row] = Was.draft.text
  BY <1>1, LeftKeeps DEF Was
<1> HIDE DEF left
<1>5. Grown(wide, left) /\ ListOK(wide)
  BY <1>2, <1>3, FocusOrPushOK DEF Calm
<1> HIDE DEF wide
<1>6. /\ Same(last, wide) /\ ListOK(last)
      /\ \A i \in DOMAIN wide.items : i # wide.active => last.items[i] = wide.items[i]
  BY <1>1, <1>5, LeftIs, LeftKeeps DEF Calm
<1> HIDE DEF last
<1>7. SameEdits(new, last) /\ ListOK(new)
  BY <1>6, LoadingEdits, LoadingIs DEF Calm
<1> HIDE DEF new
<1>8. \A c \in Conns \cup {NoConn} : tabs'[c] = IF c = front THEN new ELSE tabs[c]
  BY <1>1, <1>3 DEF Core, ListsOK
<1>9. \A i \in DOMAIN FrontTabs.items : i \in DOMAIN new.items /\ new.items[i].id = FrontTabs.items[i].id
  BY <1>2, <1>5, <1>6, <1>7 DEF Same, SameEdits, Grown
<1>10. \A c \in Conns : Stay(c)
  <2>1. \A id : HoldsTab(FrontTabs, id) => HoldsTab(new, id)
    BY <1>9 DEF HoldsTab, Places
  <2> QED
    BY <2>1, <1>1, <1>3, <1>8 DEF Stay
<1>11. ASSUME HasActive(FrontTabs), Merges(Was), Was.draft.row \notin ActiveTab(FrontTabs).deletes,
              ActiveTab(new).id # ActiveTab(FrontTabs).id
       PROVE  /\ a \in DOMAIN new.items /\ new.items[a].id = ActiveTab(FrontTabs).id
              /\ new.items[a].edits[Was.draft.row] = Was.draft.text
  <2>1. a \in DOMAIN FrontTabs.items /\ ActiveTab(FrontTabs) = FrontTabs.items[a]
    BY <1>1, <1>11, ActiveIs
  <2>2. a \in DOMAIN left.items /\ a \in DOMAIN wide.items /\ a \in DOMAIN last.items
        /\ wide.items[a] = left.items[a]
    BY <2>1, <1>2, <1>5, <1>6 DEF Same, Grown
  <2>3. new.active = wide.active
    BY <1>6, <1>7 DEF Same, SameEdits
  <2>4. a # wide.active
    BY <2>1, <2>3, <1>9, <1>11 DEF ActiveTab
  <2>5. new.items[a].edits = left.items[a].edits
    BY <2>2, <2>4, <1>6, <1>7 DEF SameEdits
  <2> QED
    BY <2>1, <2>5, <1>4, <1>9, <1>11
<1>12. TypedStep
  BY <1>1, <1>3, <1>7, <1>8, <1>11, TypedAt, NotActive
<1> QED
  BY <1>10, <1>12, StayAsks

LEMMA ActivateTabTells ==
    ASSUME Core, NEW i \in 1..MaxTabs, ActivateTab(i)
    PROVE  AskedStep /\ TypedStep
<1> DEFINE left == Left(FrontTabs)
           mid  == Activated(left, i)
           new  == LoadingIfEmpty(mid, front)
           a    == FrontTabs.active
<1>1. ListOK(FrontTabs) /\ cell \in Boxes \cup {None} /\ FrontTabs = tabs[front]
      /\ front \in Conns \cup {NoConn}
  BY FrontIs
<1>2. Same(left, FrontTabs) /\ ListOK(left)
  BY <1>1, LeftIs DEF Calm
<1>3. i \in DOMAIN FrontTabs.items /\ front' = front /\ list' = list /\ HasActive(FrontTabs)
      /\ tabs' = [tabs EXCEPT ![front] = new]
  BY DEF ActivateTab, AtTab, ToFront
<1>4. Merges(Was) /\ Was.draft.row \notin ActiveTab(FrontTabs).deletes =>
         left.items[a].edits[Was.draft.row] = Was.draft.text
  BY <1>1, <1>3, LeftKeeps DEF Was
<1> HIDE DEF left
<1>5. Grown(mid, left) /\ ListOK(mid)
  BY <1>2, <1>3, ActivatedOK DEF Calm, Same
<1> HIDE DEF mid
<1>6. SameEdits(new, mid) /\ ListOK(new)
  BY <1>5, LoadingEdits, LoadingIs DEF Calm
<1> HIDE DEF new
<1>7. \A c \in Conns \cup {NoConn} : tabs'[c] = IF c = front THEN new ELSE tabs[c]
  BY <1>1, <1>3 DEF Core, ListsOK
<1>8. \A j \in DOMAIN FrontTabs.items :
         /\ j \in DOMAIN new.items /\ new.items[j].id = FrontTabs.items[j].id
         /\ new.items[j].edits = left.items[j].edits
  BY <1>2, <1>5, <1>6 DEF Same, SameEdits, Grown
<1>9. \A c \in Conns : Stay(c)
  <2>1. \A id : HoldsTab(FrontTabs, id) => HoldsTab(new, id)
    BY <1>8 DEF HoldsTab, Places
  <2> QED
    BY <2>1, <1>1, <1>3, <1>7 DEF Stay
<1>10. a \in DOMAIN FrontTabs.items /\ ActiveTab(FrontTabs) = FrontTabs.items[a]
  BY <1>1, <1>3, ActiveIs
<1>11. TypedStep
  BY <1>1, <1>3, <1>4, <1>6, <1>7, <1>8, <1>10, TypedAt
<1> QED
  BY <1>9, <1>11, StayAsks

LEMMA SelectConnectionTells ==
    ASSUME Core, NEW c \in Conns, SelectConnection(c)
    PROVE  AskedStep /\ TypedStep
<1> DEFINE left == Left(FrontTabs)
           there == LoadingIfEmpty(tabs[c], c)
           a == FrontTabs.active
<1>1. ListOK(FrontTabs) /\ cell \in Boxes \cup {None} /\ FrontTabs = tabs[front]
      /\ front \in Conns \cup {NoConn} /\ tabs \in [Conns \cup {NoConn} -> TabLists]
  BY FrontIs DEF Core, ListsOK
<1>2. c # front /\ tabs' = [tabs EXCEPT ![front] = left, ![c] = there] /\ list' = list
  BY <1>1 DEF SelectConnection, Swapped
<1>3. Same(left, FrontTabs) /\ ListOK(left)
  BY <1>1, LeftIs DEF Calm
<1>4. Same(there, tabs[c])
  BY FrontIs, LoadingIs
<1>5. HasActive(FrontTabs) /\ Merges(Was) /\ Was.draft.row \notin ActiveTab(FrontTabs).deletes =>
         left.items[a].edits[Was.draft.row] = Was.draft.text
  BY <1>1, LeftKeeps DEF Was
<1> HIDE DEF left, there
<1>6. \A d \in Conns \cup {NoConn} :
         tabs'[d] = IF d = c THEN there ELSE IF d = front THEN left ELSE tabs[d]
  BY <1>1, <1>2
<1>7. \A d \in Conns : Same(tabs'[d], tabs[d])
  BY <1>1, <1>3, <1>4, <1>6, FrontIs, CalmItself
<1>8. \A d \in Conns : Stay(d)
  BY <1>2, <1>7, SameTaken DEF Stay
<1>9. HasActive(FrontTabs) => /\ a \in DOMAIN left.items
                              /\ left.items[a].id = ActiveTab(FrontTabs).id
  BY <1>3 DEF HasActive, ActiveTab, Same
<1>10. tabs'[front] = left
  BY <1>1, <1>2, <1>6
<1>11. TypedStep
  BY <1>3, <1>5, <1>9, <1>10, TypedAt, NotActive
<1> QED
  BY <1>8, <1>11, StayAsks
\* What pairs with nothing is empty.
LEMMA NothingPaired ==
    ASSUME NEW x, NEW S, {x} \X S \subseteq {}
    PROVE  S = {}
<1> SUFFICES ASSUME NEW s \in S
             PROVE  FALSE
  OBVIOUS
<1>1. <<x, s>> \in {x} \X S
  OBVIOUS
<1> QED
  BY <1>1

\* Where the active tab goes, or stays in front, nothing is asked of what is typed.
LEMMA TypedOfTheGone ==
    ASSUME ~StaysHere(front, ActiveTab(FrontTabs).id)
    PROVE  TypedStep
BY DEF TypedStep

LEMMA TypedOfTheFront ==
    ASSUME front' = front, ActiveTab(tabs'[front]).id = ActiveTab(FrontTabs).id
    PROVE  TypedStep
BY DEF TypedStep


\* Where nothing is counted of some tabs, none of them has work on it.
LEMMA WorkTaken ==
    ASSUME Core, NEW ids, NEW id \in ids, HoldsTab(FrontTabs, id), Asked(FrontTabs, ids) = {}
    PROVE  WorkOn(front, id) = {}
<1> DEFINE ts == FrontTabs
           new == LeftIfGoing(ts, ids)
           left == Stashed(CellFinished(ActiveTab(ts)))
<1>1. ListOK(ts) /\ cell \in Boxes \cup {None} /\ ts = tabs[front]
  BY FrontIs
<1>2. PICK p \in DOMAIN ts.items : TabOf(ts, id) = ts.items[p] /\ ts.items[p].id = id
  BY <1>1, TabOfIs
<1>3. HasActive(ts) /\ ActiveTab(ts) = ts.items[ts.active] /\ ActiveTab(ts) \in GoodTabs
  <2>1. HasActive(ts)
    BY <1>1, <1>2 DEF ListOK
  <2> QED
    BY <1>1, <2>1, ActiveIs
<1>4. ActiveTab(ts).id = id <=> p = ts.active
  BY <1>1, <1>2, <1>3 DEF ListOK, HasActive
<1>5. Same(new, ts)
  BY <1>1, GoingIs
<1>6. new.items[p] = IF ActiveTab(ts).id = id THEN left ELSE ts.items[p]
  <2>1. CASE ActiveTab(ts).id \in ids
    <3>1. new = WithTab(ts, left)
      BY <1>3, <2>1 DEF LeftIfGoing, Left, OnFront
    <3>2. left \in GoodTabs /\ Alike(left, ActiveTab(ts))
      BY <1>1, <1>3, FinishedIs
    <3> HIDE DEF left, new
    <3>3. new.items[p] = IF p = ts.active THEN left ELSE ts.items[p]
      BY <1>1, <1>2, <1>3, <3>1, <3>2, ActiveSet
    <3> QED
      BY <3>3, <1>4
  <2>2. CASE ActiveTab(ts).id \notin ids
    BY <2>2 DEF LeftIfGoing
  <2> QED
    BY <2>1, <2>2
<1>7. WorkOn(front, id) = Staged(new.items[p])
  <2>1. WorkOn(front, id) = Staged(IF ActiveTab(ts).id = id
                                   THEN Stashed(CellFinished(ts.items[p])) ELSE ts.items[p])
    BY <1>1, <1>2 DEF WorkOn
  <2>2. ActiveTab(ts).id = id => ts.items[p] = ActiveTab(ts)
    BY <1>3, <1>4
  <2> QED
    BY <2>1, <2>2, <1>6
<1>8. StagedOn(new, ids) = {}
  BY DEF Asked
<1> HIDE DEF new
<1>9. {new.items[p].id} \X Staged(new.items[p]) \subseteq StagedOn(new, ids)
  BY <1>2, <1>5 DEF StagedOn, ToSet, Same
<1> QED
  BY <1>7, <1>8, <1>9, NothingPaired

\* The tabs that are to go are those that go.
LEMMA CloseTabsTells ==
    ASSUME Core, NEW ids, CloseTabsNow(ids), front' = front, list' = list
    PROVE  /\ TypedStep
           /\ \A c \in Conns : \A id : IsHere(c, id) /\ ~StaysHere(c, id) => c = front /\ id \in ids
<1> DEFINE left == LeftIfGoing(FrontTabs, ids)
           mid  == ClosedTabs(left, ids)
           new  == LoadingIfEmpty(mid, front)
<1>1. ListOK(FrontTabs) /\ cell \in Boxes \cup {None} /\ FrontTabs = tabs[front]
      /\ front \in Conns \cup {NoConn}
  BY FrontIs
<1>2. Same(left, FrontTabs) /\ ListOK(left)
  BY <1>1, GoingIs DEF Calm
<1>3. tabs' = [tabs EXCEPT ![front] = new]
  BY <1>1 DEF CloseTabsNow, Core, ListsOK
<1>4. HasActive(FrontTabs) /\ ActiveTab(FrontTabs).id \notin ids => left = FrontTabs
  BY DEF LeftIfGoing
<1> HIDE DEF left
<1>5. /\ ToSet(mid.items) = {tab \in ToSet(left.items) : tab.id \notin ids}
      /\ HasActive(left) /\ ActiveTab(left).id \notin ids =>
            HasActive(mid) /\ ActiveTab(mid) = ActiveTab(left)
      /\ ListOK(mid)
  BY <1>2, ClosedTabsOK DEF Calm
<1> HIDE DEF mid
<1>6. Same(new, mid)
  BY <1>5, LoadingIs
<1> HIDE DEF new
<1>7. \A c \in Conns \cup {NoConn} : tabs'[c] = IF c = front THEN new ELSE tabs[c]
  BY <1>1, <1>3 DEF Core, ListsOK
<1>8. \A id : HoldsTab(new, id) <=> HoldsTab(FrontTabs, id) /\ id \notin ids
  <2>1. \A id : HoldsTab(new, id) <=> HoldsTab(mid, id)
    BY <1>6, SameTaken
  <2>2. \A id : HoldsTab(left, id) <=> HoldsTab(FrontTabs, id)
    BY <1>2, SameTaken
  <2>3. \A ts, id : HoldsTab(ts, id) <=> \E tab \in ToSet(ts.items) : tab.id = id
    BY DEF HoldsTab, Places, ToSet
  <2> QED
    BY <2>1, <2>2, <2>3, <1>5
<1>9. \A c \in Conns : \A id : IsHere(c, id) /\ ~StaysHere(c, id) => c = front /\ id \in ids
  BY <1>1, <1>7, <1>8 DEF IsHere, StaysHere
<1>10. ASSUME HasActive(FrontTabs), ActiveTab(FrontTabs).id \in ids
       PROVE  TypedStep
  <2>1. ~StaysHere(front, ActiveTab(FrontTabs).id)
    BY <1>1, <1>7, <1>8, <1>10 DEF StaysHere
  <2> QED
    BY <2>1, TypedOfTheGone
<1>11. ASSUME HasActive(FrontTabs), ActiveTab(FrontTabs).id \notin ids
       PROVE  TypedStep
  <2>1. HasActive(mid) /\ ActiveTab(mid) = ActiveTab(FrontTabs)
    BY <1>4, <1>5, <1>11
  <2>2. ActiveTab(new).id = ActiveTab(FrontTabs).id
    BY <2>1, <1>6 DEF Same, HasActive, ActiveTab
  <2>3. tabs'[front] = new
    BY <1>1, <1>7
  <2> QED
    BY <2>2, <2>3, TypedOfTheFront
<1> QED
  BY <1>9, <1>10, <1>11, NotActive

\* Only the tabs of a connection that is closed go with it.
LEMMA CloseConnectionTells ==
    ASSUME Core, NEW c \in Conns, CloseConnectionNow(c)
    PROVE  TypedStep /\ \A d \in Conns : d # c => Stay(d)
<1>1. /\ list' = [list EXCEPT ![c] = @ + 1] /\ list \in [Conns -> 0..MaxLists]
      /\ open \subseteq Conns /\ NoConn \notin Conns
      /\ tabs \in [Conns \cup {NoConn} -> TabLists]
      /\ front \in Conns \cup {NoConn}
  BY FrontIs, Bounds DEF CloseConnectionNow, Core, Fronts, ListsOK
<1>2. /\ list'[c] # list[c]
      /\ \A d \in Conns : d # c => list'[d] = list[d]
  BY <1>1, Bounds
<1>3. CASE c = front
  <2> DEFINE there == LoadingIfEmpty(tabs[front'], front')
  <2>1. front' \in (Conns \cup {NoConn}) \ {c}
    BY <1>1, <1>3 DEF CloseConnectionNow
  <2>2. tabs' = [tabs EXCEPT ![c] = NoTabs, ![front'] = there]
    <3>1. tabs' = [tabs EXCEPT ![c] = NoTabs, ![front'] = LoadingIfEmpty(@, front')]
      BY <1>3 DEF CloseConnectionNow
    <3>2. [tabs EXCEPT ![c] = NoTabs][front'] = tabs[front']
      BY <1>1, <2>1
    <3> QED
      BY <3>1, <3>2
  <2>3. Same(there, tabs[front'])
    BY <2>1, LoadingIs DEF Core, ListsOK
  <2> HIDE DEF there
  <2>4. \A d \in Conns : d # c => Same(tabs'[d], tabs[d])
    <3>1. \A d \in Conns : d # c => tabs'[d] = IF d = front' THEN there ELSE tabs[d]
      BY <1>1, <2>1, <2>2
    <3> QED
      BY <3>1, <2>3, FrontIs, CalmItself
  <2>5. \A d \in Conns : d # c => Stay(d)
    BY <1>2, <2>4, SameTaken DEF Stay
  <2>6. TypedStep
    BY <1>2, <1>3 DEF TypedStep, StaysHere
  <2> QED
    BY <2>5, <2>6
<1>4. CASE c # front
  <2>1. tabs' = [tabs EXCEPT ![c] = NoTabs] /\ front' = front
    BY <1>4 DEF CloseConnectionNow
  <2>2. \A d \in Conns \cup {NoConn} : d # c => tabs'[d] = tabs[d]
    BY <1>1, <2>1
  <2>3. \A d \in Conns : d # c => Stay(d)
    BY <1>2, <2>2 DEF Stay
  <2>4. TypedStep
    BY <1>1, <1>4, <2>1, <2>2 DEF TypedStep, FrontTabs
  <2> QED
    BY <2>3, <2>4
<1> QED
  BY <1>3, <1>4

LEMMA CloseTells ==
    ASSUME Core, NEW kind \in {"tab"} \cup Groups, NEW id \in Ids, Close(kind, id)
    PROVE  AskedStep /\ TypedStep
<1> DEFINE ids == IF kind = "tab" THEN {id} \cap IdsOf(FrontTabs) ELSE InScope(FrontTabs, kind, id)
           new == LeftIfGoing(FrontTabs, ids)
<1>1. front' = front /\ list' = list
  BY DEF Close
<1>2. ListOK(FrontTabs) /\ cell \in Boxes \cup {None} /\ FrontTabs = tabs[front]
      /\ front \in Conns \cup {NoConn}
  BY FrontIs
<1>3. CASE Asked(FrontTabs, ids) = {}
  <2>1. CloseTabsNow(ids)
    BY <1>3 DEF Close
  <2> HIDE DEF ids
  <2>2. TypedStep /\ \A c \in Conns : \A i : IsHere(c, i) /\ ~StaysHere(c, i) => c = front /\ i \in ids
    BY <1>1, <2>1, CloseTabsTells
  <2>3. ASSUME NEW i \in ids, IsHere(front, i)
        PROVE  WorkOn(front, i) = {}
    BY <1>2, <1>3, <2>3, WorkTaken DEF IsHere
  <2>4. AskedStep
    BY <2>2, <2>3 DEF AskedStep
  <2> QED
    BY <2>2, <2>4
<1>4. CASE Asked(FrontTabs, ids) # {}
  <2>1. tabs' = [tabs EXCEPT ![front] = new]
    BY <1>2, <1>4 DEF Close, Core, ListsOK
  <2>2. Same(new, tabs[front])
    BY <1>2, GoingIs
  <2> HIDE DEF new
  <2> QED
    BY <1>1, <1>2, <2>1, <2>2, ListStill, StillTells
<1> QED
  BY <1>3, <1>4

LEMMA CloseConnectionAsks ==
    ASSUME Core, NEW c \in Conns, CloseConnection(c)
    PROVE  AskedStep /\ TypedStep
<1> DEFINE left == IF c = front THEN Left(FrontTabs) ELSE tabs[c]
           held == StagedOn(left, IdsOf(left))
           ids  == IdsOf(FrontTabs)
<1>1. ListOK(FrontTabs) /\ cell \in Boxes \cup {None} /\ FrontTabs = tabs[front]
      /\ ListOK(tabs[c])
  BY FrontIs
<1>2. Same(left, tabs[c])
  BY <1>1, LeftIs, CalmItself
<1>3. CASE held = {}
  <2>1. CloseConnectionNow(c)
    BY <1>3 DEF CloseConnection
  <2>2. TypedStep /\ \A d \in Conns : d # c => Stay(d)
    BY <2>1, CloseConnectionTells
  <2>3. ASSUME NEW id, IsHere(c, id), c = front
        PROVE  WorkOn(c, id) = {}
    <3>1. HasActive(FrontTabs) => ActiveTab(FrontTabs).id \in ids
      BY DEF IdsOf, ToSet, HasActive, ActiveTab
    <3>2. left = LeftIfGoing(FrontTabs, ids)
      BY <2>3, <3>1 DEF LeftIfGoing, Left, OnFront
    <3>3. IdsOf(left) = ids
      BY <1>1, <1>2, <2>3, SameTaken
    <3>4. Asked(FrontTabs, ids) = held
      BY <3>2, <3>3 DEF Asked
    <3>5. id \in ids /\ HoldsTab(FrontTabs, id)
      BY <1>1, <2>3 DEF IsHere, HoldsTab, Places, IdsOf, ToSet
    <3> HIDE DEF left, held, ids
    <3> QED
      BY <1>3, <2>3, <3>4, <3>5, WorkTaken
  <2>4. ASSUME NEW id, IsHere(c, id), c # front
        PROVE  WorkOn(c, id) = {}
    <3>1. PICK p \in DOMAIN tabs[c].items : TabOf(tabs[c], id) = tabs[c].items[p]
      BY <1>1, <2>4, TabOfIs DEF IsHere
    <3>2. WorkOn(c, id) = Staged(tabs[c].items[p])
      BY <2>4, <3>1 DEF WorkOn
    <3>3. StagedOn(tabs[c], IdsOf(tabs[c])) = {}
      BY <1>3, <2>4
    <3>4. {tabs[c].items[p].id} \X Staged(tabs[c].items[p]) \subseteq StagedOn(tabs[c], IdsOf(tabs[c]))
      BY DEF StagedOn, IdsOf, ToSet
    <3> QED
      BY <3>2, <3>3, <3>4, NothingPaired
  <2>5. AskedStep
    BY <2>2, <2>3, <2>4 DEF AskedStep, Stay, IsHere, StaysHere
  <2> QED
    BY <2>2, <2>5
<1>4. CASE held # {}
  <2>1. tabs' = [tabs EXCEPT ![c] = left] /\ front' = front /\ list' = list
    BY <1>4 DEF CloseConnection
  <2> HIDE DEF left, held
  <2> QED
    BY <1>2, <2>1, ListStill, StillTells
<1> QED
  BY <1>3, <1>4

\* A question about a group is about whatever tabs are in front.
Grouped == guard # None /\ guard.kind \in Groups => guard.of = None

LEMMA AnsweredTells ==
    ASSUME Core, Quoted, Grouped, ConfirmClose \/ CancelClose
    PROVE  AskedStep /\ TypedStep
<1>1. guard # None /\ guard' = None /\ guard.kind \in {"tab"} \cup Groups \cup {"connection"}
  BY DEF ConfirmClose, CancelClose, Core, Fronts, Guards
<1>2. CASE CancelClose
  BY <1>2, NoneStill, StillTells DEF CancelClose
<1>3. CASE ConfirmClose /\ guard.kind = "connection"
  <2>1. CloseConnectionNow(guard.of) /\ guard.of \in Conns
    BY <1>1, <1>3 DEF ConfirmClose, Quoted
  <2>2. TypedStep /\ \A d \in Conns : d # guard.of => Stay(d)
    BY <2>1, CloseConnectionTells
  <2>3. AskedStep
    BY <1>1, <1>3, <2>2 DEF AskedStep, Stay, IsHere, StaysHere
  <2> QED
    BY <2>2, <2>3
<1>4. CASE ConfirmClose /\ guard.kind # "connection"
  <2>1. CloseTabsNow(GuardedIds) /\ front' = front /\ list' = list
    BY <1>4 DEF ConfirmClose
  <2>2. /\ TypedStep
        /\ \A c \in Conns : \A id : IsHere(c, id) /\ ~StaysHere(c, id) => c = front /\ id \in GuardedIds
    BY <2>1, CloseTabsTells
  <2>3. guard.kind = "tab" => \A id \in GuardedIds : guard.of = front /\ guard.id = id
    BY DEF GuardedIds
  <2>4. guard.kind # "tab" => guard.of = None
    BY <1>1, <1>4 DEF Grouped
  <2>5. AskedStep
    BY <1>1, <2>2, <2>3, <2>4 DEF AskedStep
  <2> QED
    BY <2>2, <2>5
<1> QED
  BY <1>2, <1>3, <1>4

LEMMA StepTells ==
    ASSUME IInv, Grouped, [Next]_vars
    PROVE  AskedStep /\ TypedStep
<1>1. Core /\ Quoted
  BY DEF IInv
<1>2. CASE UNCHANGED vars
  BY <1>1, <1>2, NoneStill, StillTells DEF vars
<1>3. CASE \/ \E r \in Rows : SelectRow(r) \/ BeginCellEdit(r)
           \/ \E text \in Typed : TypeField(text)
           \/ \E text \in Boxed : TypeCell(text)
           \/ CancelCell \/ FinishCell
           \/ \E n \in NewRows : AddRows(n) \/ PasteRows(n) \/ EditInsert(n) \/ RemoveInsert(n)
           \/ \E parses \in BOOLEAN : TypeInsert(parses)
           \/ DeleteSelected \/ DiscardPendingEdits
  BY <1>1, <1>3, WorkStill, StillTells
<1>4. CASE Reload \/ \E c \in Conns : Disconnect(c)
  BY <1>1, <1>4, ReloadStill, DisconnectStill, StillTells
<1>5. CASE (\E t \in Tables : OpenTable(t)) \/ (\E i \in 1..MaxTabs : ActivateTab(i))
           \/ (\E c \in Conns : SelectConnection(c))
  BY <1>1, <1>5, OpenTableTells, ActivateTabTells, SelectConnectionTells
<1>6. CASE (\E kind \in {"tab"} \cup Groups, id \in Ids : Close(kind, id))
           \/ (\E c \in Conns : CloseConnection(c))
  BY <1>1, <1>6, CloseTells, CloseConnectionAsks
<1>7. CASE ConfirmClose \/ CancelClose
  BY <1>1, <1>7, AnsweredTells
<1>8. CASE (\E c \in Conns : Connects(c))
           \/ \E c \in Conns, i \in 1..MaxTabs, ok \in BOOLEAN : LoadLands(c, i, ok)
  BY <1>1, <1>8, LandingStill, StillTells
<1>9. CASE CommitChanges \/ ConfirmProduction \/ CancelProduction
  BY <1>1, <1>9, CommitStill, StillTells
<1>10. CASE \E k \in commits, outcome \in {"committed", "rolled back"} : CommitLands(k, outcome)
  BY <1>1, <1>10, AnswerStill, StillTells
<1> QED
  BY <1>2, <1>3, <1>4, <1>5, <1>6, <1>7, <1>8, <1>9, <1>10 DEF Next

LEMMA GroupedStep ==
    ASSUME IInv, Grouped, [Next]_vars
    PROVE  Grouped'
<1>1. Core /\ Quoted
  BY DEF IInv
<1>2. CASE guard' \in {guard, None}
  BY <1>2 DEF Grouped
<1>3. CASE \E kind \in {"tab"} \cup Groups, id \in Ids : Close(kind, id)
  <2>1. PICK kind \in {"tab"} \cup Groups : \E id \in Ids : Close(kind, id)
    BY <1>3
  <2>2. guard' = guard \/ (guard'.kind = kind /\ guard'.of = IF kind = "tab" THEN front ELSE None)
    BY <2>1 DEF Close
  <2> QED
    BY <2>2 DEF Grouped, Groups
<1>4. CASE \E c \in Conns : CloseConnection(c)
  <2>1. guard' = guard \/ guard'.kind = "connection"
    BY <1>4 DEF CloseConnection
  <2> QED
    BY <2>1 DEF Grouped, Groups
<1>5. CASE \/ \E r \in Rows : SelectRow(r) \/ BeginCellEdit(r)
           \/ \E text \in Typed : TypeField(text)
           \/ \E text \in Boxed : TypeCell(text)
           \/ CancelCell \/ FinishCell
           \/ \E n \in NewRows : AddRows(n) \/ PasteRows(n) \/ EditInsert(n) \/ RemoveInsert(n)
           \/ \E parses \in BOOLEAN : TypeInsert(parses)
           \/ DeleteSelected \/ DiscardPendingEdits \/ Reload
           \/ \E t \in Tables : OpenTable(t)
           \/ \E i \in 1..MaxTabs : ActivateTab(i)
           \/ \E c \in Conns : SelectConnection(c) \/ Disconnect(c)
  BY <1>1, <1>2, <1>5, WorkSteps DEF Quiet
<1>6. CASE ConfirmClose \/ CancelClose
  BY <1>2, <1>6 DEF ConfirmClose, CancelClose
<1>7. CASE (\E c \in Conns : Connects(c))
           \/ \E c \in Conns, i \in 1..MaxTabs, ok \in BOOLEAN : LoadLands(c, i, ok)
  BY <1>1, <1>2, <1>7, LandingIs DEF Landing
<1>8. CASE CommitChanges \/ ConfirmProduction \/ CancelProduction
  BY <1>1, <1>2, <1>8, CommitSteps DEF Drops, Keeps, Sends
<1>9. CASE \E k \in commits, outcome \in {"committed", "rolled back"} : CommitLands(k, outcome)
  BY <1>2, <1>9 DEF CommitLands
<1>10. CASE UNCHANGED vars
  BY <1>2, <1>10 DEF vars
<1> QED
  BY <1>3, <1>4, <1>5, <1>6, <1>7, <1>8, <1>9, <1>10 DEF Next

\* No tab goes with staged work on it, alone, in a group or with its connection,
\* but by the answer to a question that was about it, and that had counted what
\* was typed and not staged yet (DbUi::close_tab, close_tab_scope,
\* close_connection_tab).
THEOREM AskedCorrect == Spec => AskedFirst
<1>1. Init => Grouped
  BY DEF Init, Grouped
<1>2. IInv /\ Grouped /\ [Next]_vars => Grouped' /\ AskedStep
  BY GroupedStep, StepTells
<1>3. AskedFirst <=> [][AskedStep]_vars
  BY DEF AskedFirst, AskedStep
<1> QED
  BY <1>1, <1>2, <1>3, Invariance, PTL DEF Spec

\* What is typed in front, in the box or in the sidebar, is staged on its tab
\* when another tab or connection comes to the front (DbUi::leave_front_tab).
THEOREM TypedCorrect == Spec => TypedIsStaged
<1>1. Init => Grouped
  BY DEF Init, Grouped
<1>2. IInv /\ Grouped /\ [Next]_vars => Grouped' /\ TypedStep
  BY GroupedStep, StepTells
<1>3. TypedIsStaged <=> [][TypedStep]_vars
  BY DEF TypedIsStaged, TypedStep
<1> QED
  BY <1>1, <1>2, <1>3, Invariance, PTL DEF Spec

================================================================================

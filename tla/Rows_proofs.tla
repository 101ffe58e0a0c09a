------------------------------ MODULE Rows_proofs ------------------------------
(***************************************************************************)
(* Theorems about the rows and columns of a table. RowDrafts, for any      *)
(* page, columns and texts: what a save would write is what was last typed *)
(* over each row. RowCommits, for any table, batch and other clients: a    *)
(* commit of a table whose keys are not NULL is atomic as AtomicTable      *)
(* says, and what landed is not staged any more. TableView, for any        *)
(* tables, pages and filters: the grid shows what was asked last, and each *)
(* column once. QueryResults, for any runs, rows and columns: a            *)
(* statement's rows are in one place, under its heading and in the order   *)
(* the arrow says. Dumps, for any dumps, paths and schemas: what is under  *)
(* the name the user gave is a whole dump.                                 *)
(***************************************************************************)
EXTENDS RowDrafts, RowCommits, TableView, QueryResults, Dumps, FiniteSetTheorems,
        SequenceTheorems, WellFoundedInduction, NaturalsInduction, TLAPS

-----------------------------------------------------------------------------
(* What is typed and staged *)

(***************************************************************************)
(* What is typed or staged is never what the row holds already, so a field *)
(* that all rows agree on says for each of them whether anything is staged *)
(* for it; and a box is over the only row of the draft, so that finishing  *)
(* it speaks for that row alone.                                           *)
(***************************************************************************)
Untouched == stored \in [Rows -> [Cols -> Texts]] /\ meant \in Edits
NewText(staged) == \A r \in Rows, c \in Cols : staged[r][c] # stored[r][c]
BoxOverDraft == box # None => draft # None /\ draft.rows = {box.row}

Shape == TypeOK /\ Untouched
DraftsInv  == Shape /\ NewText(edits) /\ BoxOverDraft /\ BatchIsMeant

-----------------------------------------------------------------------------
\* A set of numbers has a first one.
LEMMA FirstOf ==
  ASSUME NEW S \in SUBSET Nat, S # {}
  PROVE  \E n \in S : \A m \in S : n <= m
<1> DEFINE R == OpToRel(<, Nat)
<1>1. IsWellFoundedOn(R, Nat)
  BY NatLessThanWellFounded, Zenon
<1>2. \A x, y \in Nat : x < y => <<x, y>> \in R
  BY DEF OpToRel
<1> HIDE DEF R
<1>3. PICK n \in S : \A m \in S : ~ (<<m, n>> \in R)
  BY <1>1, WFMin, Zenon
<1>4. \A m \in S : ~ (m < n)
  BY <1>2, <1>3, Zenon
<1>5. \A m \in S : n <= m
  BY <1>4
<1> QED
  BY <1>5

LEMMA LeastRow ==
  ASSUME NEW rows \in SUBSET Rows, rows # {}
  PROVE  \E n \in rows : \A y \in rows : n <= y
<1>1. rows \in SUBSET Nat
  BY RowDraftsAssumption DEF Rows
<1> QED
  BY <1>1, FirstOf

LEMMA FirstIn ==
  ASSUME NEW rows \in SUBSET Rows, rows # {}
  PROVE  First(rows) \in rows
BY LeastRow DEF First

\* ... and a last one.
LEMMA FinalIn ==
  ASSUME NEW rows \in SUBSET Rows, rows # {}
  PROVE  Final(rows) \in rows
<1> DEFINE mirror == {Last - r : r \in rows}
<1>1. \A r \in rows : r \in Int /\ 0 <= r /\ r <= Last
  BY RowDraftsAssumption DEF Rows
<1>2. mirror \in SUBSET Rows
  BY <1>1, RowDraftsAssumption DEF Rows
<1>3. mirror # {}
  OBVIOUS
<1>4. PICK n \in mirror : \A y \in mirror : n <= y
  <2> HIDE DEF mirror
  <2> QED
    BY <1>2, <1>3, LeastRow
<1>5. PICK q \in rows : n = Last - q
  BY <1>4
<1>6. \A r \in rows : Last - q <= Last - r
  BY <1>4, <1>5
<1>7. \A r \in rows : r <= q
  BY <1>1, <1>6, RowDraftsAssumption
<1> QED
  BY <1>7 DEF Final

\* Every row between two rows is a row, and moving stays on the page.
LEMMA InRows ==
  ASSUME Shape, NEW r \in Rows
  PROVE  /\ Between(r) \in SUBSET Rows
         /\ \A by \in {-1, 1} : Moved(r, by) \in Rows
<1>1. Between(r) \in SUBSET Rows
  BY RowDraftsAssumption DEF Shape, TypeOK, Between, Rows
<1>2. \A by \in {-1, 1} : Moved(r, by) \in Rows
  BY RowDraftsAssumption DEF Moved, Rows
<1> QED
  BY <1>1, <1>2

-----------------------------------------------------------------------------
\* A field's text is what each of its rows reads, or the token.
LEMMA AgreedReads ==
  ASSUME Untouched, NEW rows \in SUBSET Rows, NEW staged \in Edits, NEW c \in Cols
  PROVE  /\ Agreed(rows, staged, c) \in Fields
         /\ Agreed(rows, staged, c) # MIXED => \A r \in rows : Reads(staged, r, c) = Agreed(rows, staged, c)
BY DEF Agreed, Fields

LEMMA DraftOfRows ==
  ASSUME Untouched, NEW rows \in SUBSET Rows, NEW staged \in Edits
  PROVE  /\ FromRows(rows, staged) \in Drafts \cup {None}
         /\ rows # {} => FromRows(rows, staged) # None /\ FromRows(rows, staged).rows = rows
         /\ FromRows(rows, staged) # None =>
              \A c \in Cols : FromRows(rows, staged).texts[c] = Agreed(rows, staged, c)
<1>1. [c \in Cols |-> Agreed(rows, staged, c)] \in [Cols -> Fields]
  BY AgreedReads
<1>2. rows # {} => FromRows(rows, staged) \in Drafts
  BY <1>1 DEF FromRows, Drafts
<1> QED
  BY <1>1, <1>2, RowDraftsAssumption DEF FromRows

\* Folding a draft in keeps the types, and stages nothing a row holds already.
LEMMA EndsNew ==
  ASSUME Shape, NewText(edits), NEW r \in Rows, NEW c \in Cols, NEW text \in Fields
  PROVE  /\ Ends(r, c, text) \in Texts \cup {AsStored}
         /\ Ends(r, c, text) # stored[r][c]
<1>1. edits[r][c] \in Texts \cup {AsStored} /\ edits[r][c] # stored[r][c]
  BY DEF Shape, TypeOK, Edits, NewText
<1>2. stored[r][c] \in Texts
  BY DEF Shape, Untouched
<1> QED
  BY <1>1, <1>2, RowDraftsAssumption DEF Ends, Fields

LEMMA StashedNew ==
  ASSUME Shape, NewText(edits), NEW d \in Drafts \cup {None}
  PROVE  Stashed(d) \in Edits /\ NewText(Stashed(d))
<1>1. \A r \in Rows : stored[r] \in [Cols -> Texts] /\ edits[r] \in [Cols -> Texts \cup {AsStored}]
  BY DEF Shape, TypeOK, Edits, Untouched
<1>2. NoEdit \in [Cols -> Texts \cup {AsStored}] /\ \A r \in Rows, c \in Cols : NoEdit[c] # stored[r][c]
  BY <1>1, RowDraftsAssumption DEF NoEdit, Fields
<1>3. ASSUME NEW r \in Rows
      PROVE  /\ Stashed(d)[r] \in [Cols -> Texts \cup {AsStored}]
             /\ \A c \in Cols : Stashed(d)[r][c] # stored[r][c]
  <2>1. CASE r \in deletes
    <3>1. Stashed(d)[r] = NoEdit
      BY <2>1 DEF Stashed
    <3> QED
      BY <3>1, <1>2
  <2>2. CASE r \notin deletes /\ d # None /\ r \in d.rows
    <3>1. d \in Drafts
      BY <2>2
    <3>2. \A c \in Cols : d.texts[c] \in Fields
      BY <3>1 DEF Drafts
    <3>3. Stashed(d)[r] = [c \in Cols |-> Ends(r, c, d.texts[c])]
      BY <2>2 DEF Stashed
    <3> QED
      BY <3>2, <3>3, EndsNew
  <2>3. CASE r \notin deletes /\ ~(d # None /\ r \in d.rows)
    <3>1. Stashed(d)[r] = edits[r]
      BY <2>3 DEF Stashed
    <3> QED
      BY <3>1, <1>1 DEF NewText
  <2> QED
    BY <2>1, <2>2, <2>3
<1>4. Stashed(d) = [r \in Rows |-> Stashed(d)[r]]
  BY DEF Stashed
<1> HIDE DEF Stashed
<1>5. Stashed(d) \in [Rows -> [Cols -> Texts \cup {AsStored}]]
  BY <1>3, <1>4
<1> QED
  BY <1>3, <1>5 DEF Edits, NewText

\* Finishing the box keeps the draft one, over the same rows.
LEMMA CommittedDraft ==
  ASSUME Shape
  PROVE  /\ Committed \in Drafts \cup {None}
         /\ Committed = None <=> draft = None
         /\ draft # None => Committed.rows = draft.rows
<1>1. CASE box # None /\ draft # None /\ draft.rows = {box.row}
  <2>1. draft \in Drafts /\ box \in Boxes
    BY <1>1 DEF Shape, TypeOK
  <2>2. Committed = [draft EXCEPT !.texts[box.col] = box.text]
    BY <1>1 DEF Committed
  <2>3. Committed \in Drafts /\ Committed.rows = draft.rows
    BY <2>1, <2>2 DEF Drafts, Boxes
  <2> QED
    BY <1>1, <2>3, RowDraftsAssumption
<1>2. CASE ~(box # None /\ draft # None /\ draft.rows = {box.row})
  BY <1>2 DEF Committed, Shape, TypeOK
<1> QED
  BY <1>1, <1>2

-----------------------------------------------------------------------------
\* A draft just opened changes nothing: what its rows agree on is what is staged
\* for them or what they hold.
LEMMA FreshDraft ==
  ASSUME Untouched, Untouched', stored' = stored, deletes' = deletes,
         NEW rows \in SUBSET Rows, edits' \in Edits, NewText(edits'),
         draft' = FromRows(rows, edits'),
         NEW r \in Rows \ deletes
  PROVE  Batch'[r] = edits'[r]
<1>1. edits'[r] \in [Cols -> Texts \cup {AsStored}] /\ stored[r] \in [Cols -> Texts]
  BY DEF Edits, Untouched
<1>2. CASE draft' = None \/ r \notin draft'.rows
  BY <1>2 DEF Batch, Stashed
<1>3. CASE draft' # None /\ r \in draft'.rows
  <2>1. rows # {} /\ r \in rows
    BY <1>3, DraftOfRows DEF FromRows
  <2>2. Batch'[r] = [c \in Cols |-> Ends(r, c, draft.texts[c])']
    BY <1>3 DEF Batch, Stashed
  <2>3. ASSUME NEW c \in Cols
        PROVE  Ends(r, c, draft.texts[c])' = edits'[r][c]
    <3>1. draft'.texts[c] = Agreed(rows, edits', c)
      BY <1>3, DraftOfRows
    <3>2. draft'.texts[c] # MIXED => Reads(edits', r, c) = draft'.texts[c]
      BY <2>1, <3>1, AgreedReads
    <3>3. edits'[r][c] # stored[r][c]
      BY DEF NewText
    <3>4. stored[r][c] # MIXED
      BY <1>1, RowDraftsAssumption
    <3> QED
      BY <3>2, <3>3, <3>4 DEF Ends, Reads
  <2> QED
    BY <1>1, <2>2, <2>3
<1> QED
  BY <1>2, <1>3

\* What the box means is a text, too.
LEMMA BoxMeantType ==
  ASSUME Shape, NewText(edits)
  PROVE  BoxMeant \in Edits
<1>1. CASE box = None
  BY <1>1 DEF BoxMeant, Shape, Untouched
<1>2. CASE box # None
  <2>1. box \in Boxes
    BY <1>2 DEF Shape, TypeOK
  <2>2. Ends(box.row, box.col, box.text) \in Texts \cup {AsStored}
    BY <2>1, EndsNew DEF Boxes
  <2> QED
    BY <1>2, <2>1, <2>2 DEF BoxMeant, Typing, Shape, Untouched, Edits, Boxes
<1> QED
  BY <1>1, <1>2

\* What finishing the box and folding the draft in stages is what was meant.
LEMMA StashedMeant ==
  ASSUME DraftsInv, NEW r \in Rows \ deletes
  PROVE  Stashed(Committed)[r] = BoxMeant[r]
<1>1. CASE box = None
  BY <1>1 DEF DraftsInv, BatchIsMeant, Batch, Committed, BoxMeant
<1>2. CASE box # None
  <2>1. box \in Boxes /\ draft \in Drafts /\ draft # None /\ draft.rows = {box.row}
    BY <1>2 DEF DraftsInv, Shape, TypeOK, BoxOverDraft
  <2>2. Committed = [draft EXCEPT !.texts[box.col] = box.text]
    BY <1>2, <2>1 DEF Committed
  <2>3. BoxMeant = [meant EXCEPT ![box.row][box.col] = Ends(box.row, box.col, box.text)]
    BY <1>2 DEF BoxMeant, Typing
  <2>5. meant \in [Rows -> [Cols -> Texts \cup {AsStored}]]
    BY DEF DraftsInv, Shape, Untouched, Edits
  <2>6. box.row \in Rows /\ box.col \in Cols
    BY <2>1 DEF Boxes
  <2>7. BoxMeant \in Edits
    BY BoxMeantType DEF DraftsInv
  <2>8. meant[r] = Stashed(draft)[r]
    BY DEF DraftsInv, BatchIsMeant, Batch
  <2>9. Committed.rows = {box.row} /\ Committed # None
    BY <2>1, <2>2, CommittedDraft DEF DraftsInv
  <2>10. CASE r # box.row
    <3>1. Stashed(Committed)[r] = edits[r] /\ Stashed(draft)[r] = edits[r]
      BY <2>1, <2>9, <2>10 DEF Stashed
    <3> QED
      BY <2>3, <2>5, <2>7, <2>8, <2>10, <3>1
  <2>11. CASE r = box.row
    <3>1. Stashed(Committed)[r] = [c \in Cols |-> Ends(r, c, Committed.texts[c])]
      BY <2>9, <2>11 DEF Stashed
    <3>2. Stashed(draft)[r] = [c \in Cols |-> Ends(r, c, draft.texts[c])]
      BY <2>1, <2>11 DEF Stashed
    <3>3. Committed.texts = [draft.texts EXCEPT ![box.col] = box.text] /\ draft.texts \in [Cols -> Fields]
      BY <2>1, <2>2 DEF Drafts
    <3>4. BoxMeant[r] = [meant[r] EXCEPT ![box.col] = Ends(r, box.col, box.text)]
      BY <2>3, <2>5, <2>6, <2>11
    <3>5. \A c \in Cols : Stashed(Committed)[r][c] = BoxMeant[r][c]
      BY <2>6, <2>8, <3>1, <3>2, <3>3, <3>4
    <3>6. BoxMeant[r] \in [Cols -> Texts \cup {AsStored}]
      BY <2>7 DEF Edits
    <3> QED
      BY <2>7, <3>1, <3>5, <3>6
  <2> QED
    BY <2>7, <2>10, <2>11
<1> QED
  BY <1>1, <1>2

-----------------------------------------------------------------------------
\* Every way of selecting rows keeps the invariant.
LEMMA PicksKeeps ==
  ASSUME DraftsInv, NEW rows \in SUBSET Rows, NEW anchored \in Rows \cup {None},
         NEW about \in Rows \cup {None},
         Picks(rows, anchored, about), drag' \in Rows \cup {None}
  PROVE  DraftsInv'
<1> DEFINE staged == Stashed(Committed)
<1>1. staged \in Edits /\ NewText(staged)
  BY CommittedDraft, StashedNew DEF DraftsInv
<1>2. /\ edits' = staged /\ draft' = FromRows(rows, staged) /\ meant' = BoxMeant /\ box' = None
      /\ selection' = rows /\ anchor' = anchored /\ deletes' = deletes /\ stored' = stored
      /\ lead' = IF about \in rows THEN about ELSE IF rows = {} THEN None ELSE First(rows)
  BY DEF Picks
<1> HIDE DEF staged
<1>3. Untouched'
  BY <1>2, BoxMeantType DEF DraftsInv, Shape, Untouched
<1>4. lead' \in Rows \cup {None}
  BY <1>2, FirstIn
<1>5. draft' \in Drafts \cup {None}
  BY <1>1, <1>2, DraftOfRows DEF DraftsInv, Shape
<1>6. TypeOK'
  BY <1>1, <1>2, <1>4, <1>5 DEF DraftsInv, Shape, TypeOK
<1>7. NewText(edits)'
  BY <1>1, <1>2 DEF NewText
<1>8. BatchIsMeant'
  <2> SUFFICES ASSUME NEW r \in Rows \ deletes PROVE Batch'[r] = meant'[r]
    BY <1>2 DEF BatchIsMeant
  <2>1. Batch'[r] = edits'[r]
    BY <1>1, <1>2, <1>3, <1>7, FreshDraft DEF DraftsInv, Shape, NewText
  <2> QED
    BY <1>2, <2>1, StashedMeant DEF staged
<1>9. BoxOverDraft'
  BY <1>2 DEF BoxOverDraft
<1> QED
  BY <1>3, <1>6, <1>7, <1>8, <1>9 DEF DraftsInv, Shape
-----------------------------------------------------------------------------
\* Typing into a field: every row of the draft is to end with the text.
LEMMA TypeFieldKeeps ==
  ASSUME DraftsInv, NEW c \in Cols, NEW text \in Fields, TypeField(c, text)
  PROVE  DraftsInv'
<1>1. /\ draft \in Drafts /\ Committed \in Drafts /\ Committed.rows = draft.rows
      /\ draft' = [Committed EXCEPT !.texts[c] = text]
  BY CommittedDraft DEF TypeField, DraftsInv, Shape, TypeOK
<1>2. /\ draft' \in Drafts /\ draft' # None /\ draft'.rows = draft.rows
      /\ draft'.texts = [Committed.texts EXCEPT ![c] = text] /\ Committed.texts \in [Cols -> Fields]
  <2>1. Committed.rows \in SUBSET Rows /\ Committed.texts \in [Cols -> Fields]
    BY <1>1 DEF Drafts
  <2>2. /\ draft'.rows = draft.rows
        /\ draft'.texts = [Committed.texts EXCEPT ![c] = text]
    BY <1>1 DEF Drafts
  <2>3. draft' \in Drafts
    BY <1>1, <2>1 DEF Drafts
  <2> QED
    BY <2>1, <2>2, <2>3, RowDraftsAssumption
<1>3. BoxMeant \in Edits
  BY BoxMeantType DEF DraftsInv
<1>4. meant' = [r \in Rows |-> IF r \in draft.rows
                               THEN [BoxMeant[r] EXCEPT ![c] = Ends(r, c, text)] ELSE BoxMeant[r]]
  BY DEF TypeField
<1>5. \A r \in Rows : Ends(r, c, text) \in Texts \cup {AsStored}
  BY EndsNew DEF DraftsInv
<1>6. meant' \in Edits
  BY <1>3, <1>4, <1>5 DEF Edits
<1>7. Shape' /\ NewText(edits)' /\ BoxOverDraft'
  BY <1>2, <1>6 DEF TypeField, DraftsInv, Shape, TypeOK, Untouched, NewText, BoxOverDraft
<1>8. BatchIsMeant'
  <2> SUFFICES ASSUME NEW r \in Rows \ deletes PROVE Batch'[r] = meant'[r]
    BY DEF TypeField, BatchIsMeant
  <2>1. Stashed(Committed)[r] = BoxMeant[r]
    BY StashedMeant
  <2>2. edits' = edits /\ stored' = stored /\ deletes' = deletes
    BY DEF TypeField
  <2>3. CASE r \notin draft.rows
    BY <1>1, <1>2, <1>4, <2>1, <2>2, <2>3, RowDraftsAssumption DEF Batch, Stashed
  <2>4. CASE r \in draft.rows
    <3>1. Batch'[r] = [k \in Cols |-> Ends(r, k, draft'.texts[k])]
      BY <1>2, <2>2, <2>4 DEF Batch, Stashed, Ends
    <3>2. Stashed(Committed)[r] = [k \in Cols |-> Ends(r, k, Committed.texts[k])]
      BY <1>1, <2>4, RowDraftsAssumption DEF Stashed
    <3>3. meant'[r] = [BoxMeant[r] EXCEPT ![c] = Ends(r, c, text)]
      BY <1>4, <2>4
    <3>4. BoxMeant[r] \in [Cols -> Texts \cup {AsStored}] /\ meant'[r] \in [Cols -> Texts \cup {AsStored}]
      BY <1>3, <1>6 DEF Edits
    <3>5. \A k \in Cols : Ends(r, k, draft'.texts[k]) = meant'[r][k]
      BY <1>2, <2>1, <3>2, <3>3, <3>4, ZenonT(60)
    <3> QED
      BY <3>1, <3>4, <3>5
  <2> QED
    BY <2>3, <2>4
<1> QED
  BY <1>7, <1>8 DEF DraftsInv

\* The token from the menu takes back what was staged for the column.
LEMMA PickMixedKeeps ==
  ASSUME DraftsInv, NEW c \in Cols, PickMixed(c)
  PROVE  DraftsInv'
<1>1. draft \in Drafts /\ draft # None
  BY DEF PickMixed, DraftsInv, Shape, TypeOK
<1>2. /\ draft' \in Drafts /\ draft' # None /\ draft'.rows = draft.rows
      /\ draft'.texts = [draft.texts EXCEPT ![c] = MIXED] /\ draft.texts \in [Cols -> Fields]
  BY <1>1, RowDraftsAssumption DEF PickMixed, Drafts, Fields
<1>3. /\ edits' = [r \in Rows |-> IF r \in draft.rows THEN [edits[r] EXCEPT ![c] = AsStored] ELSE edits[r]]
      /\ meant' = [r \in Rows |-> IF r \in draft.rows THEN [meant[r] EXCEPT ![c] = AsStored] ELSE meant[r]]
      /\ stored' = stored /\ deletes' = deletes /\ box' = box /\ box = None
  BY DEF PickMixed
<1>4. edits \in Edits /\ meant \in Edits
  BY DEF DraftsInv, Shape, TypeOK, Untouched
<1>5. edits' \in Edits /\ meant' \in Edits
  BY <1>3, <1>4 DEF Edits
<1>6. NewText(edits)'
  BY <1>3, <1>4, RowDraftsAssumption DEF DraftsInv, NewText, Shape, Untouched, Edits, Fields
<1>7. Shape' /\ BoxOverDraft'
  BY <1>2, <1>3, <1>5 DEF PickMixed, DraftsInv, Shape, TypeOK, Untouched, BoxOverDraft
<1>8. BatchIsMeant'
  <2> SUFFICES ASSUME NEW r \in Rows \ deletes PROVE Batch'[r] = meant'[r]
    BY <1>3 DEF BatchIsMeant
  <2>1. Stashed(draft)[r] = meant[r]
    BY DEF DraftsInv, BatchIsMeant, Batch
  <2>2. CASE r \notin draft.rows
    BY <1>1, <1>2, <1>3, <2>1, <2>2 DEF Batch, Stashed
  <2>3. CASE r \in draft.rows
    <3>1. Batch'[r] = [k \in Cols |-> Ends(r, k, draft.texts[k])']
      BY <1>2, <1>3, <2>3 DEF Batch, Stashed
    <3>2. Stashed(draft)[r] = [k \in Cols |-> Ends(r, k, draft.texts[k])]
      BY <1>1, <2>3 DEF Stashed
    <3>3. /\ edits[r] \in [Cols -> Texts \cup {AsStored}] /\ meant[r] \in [Cols -> Texts \cup {AsStored}]
          /\ edits'[r] = [edits[r] EXCEPT ![c] = AsStored] /\ meant'[r] = [meant[r] EXCEPT ![c] = AsStored]
      BY <1>3, <1>4, <2>3 DEF Edits
    <3>4. ASSUME NEW k \in Cols
          PROVE  Ends(r, k, draft.texts[k])' = meant'[r][k]
      <4>1. CASE k = c
        BY <1>2, <3>3, <4>1 DEF Ends
      <4>2. CASE k # c
        <5>1. Ends(r, k, draft.texts[k])' = Ends(r, k, draft.texts[k])
          BY <1>2, <1>3, <3>3, <4>2 DEF Ends
        <5> QED
          BY <2>1, <3>2, <3>3, <4>2, <5>1, ZenonT(60)
      <4> QED
        BY <4>1, <4>2
    <3>5. meant'[r] = [k \in Cols |-> meant'[r][k]]
      BY <3>3
    <3> QED
      BY <3>1, <3>4, <3>5
  <2> QED
    BY <2>2, <2>3
<1> QED
  BY <1>6, <1>7, <1>8 DEF DraftsInv

\* Opening the box over a cell selects its row alone.
LEMMA BeginCellEditKeeps ==
  ASSUME DraftsInv, NEW r \in Rows, NEW c \in Cols, BeginCellEdit(r, c)
  PROVE  DraftsInv'
<1> DEFINE staged == Stashed(draft)
<1>1. staged \in Edits /\ NewText(staged)
  BY StashedNew DEF DraftsInv, Shape, TypeOK
<1>2. /\ edits' = staged /\ draft' = FromRows({r}, staged) /\ meant' = meant
      /\ box' = [row |-> r, col |-> c, text |-> draft'.texts[c]]
      /\ selection' = {r} /\ anchor' = r /\ lead' = r /\ drag' = drag
      /\ stored' = stored /\ deletes' = deletes
  BY DEF BeginCellEdit
<1> HIDE DEF staged
<1>3. Untouched'
  BY <1>2 DEF DraftsInv, Shape, Untouched
<1>4. draft' \in Drafts /\ draft' # None /\ draft'.rows = {r}
  BY <1>1, <1>2, DraftOfRows DEF DraftsInv, Shape
<1>5. box' \in Boxes /\ box'.row = r
  BY <1>2, <1>4 DEF Boxes, Drafts
<1>6. TypeOK' /\ NewText(edits)' /\ BoxOverDraft'
  BY <1>1, <1>2, <1>4, <1>5 DEF DraftsInv, Shape, TypeOK, NewText, BoxOverDraft
<1>7. BatchIsMeant'
  <2> SUFFICES ASSUME NEW q \in Rows \ deletes PROVE Batch'[q] = meant'[q]
    BY <1>2 DEF BatchIsMeant
  <2>1. Batch'[q] = edits'[q]
    BY <1>1, <1>2, <1>3, FreshDraft DEF DraftsInv, Shape, NewText
  <2> QED
    BY <1>2, <2>1 DEF staged, DraftsInv, BatchIsMeant, Batch
<1> QED
  BY <1>3, <1>6, <1>7 DEF DraftsInv, Shape

\* Finishing the box puts its text into the draft.
LEMMA CommitCellKeeps ==
  ASSUME DraftsInv, CommitCell
  PROVE  DraftsInv'
<1>1. Committed \in Drafts \cup {None} /\ BoxMeant \in Edits
  BY CommittedDraft, BoxMeantType DEF DraftsInv
<1>2. Shape' /\ NewText(edits)' /\ BoxOverDraft'
  BY <1>1 DEF CommitCell, DraftsInv, Shape, TypeOK, Untouched, NewText, BoxOverDraft
<1>3. ASSUME NEW r \in Rows \ deletes
      PROVE  Batch'[r] = meant'[r]
  <2>1. Stashed(Committed)[r] = BoxMeant[r]
    BY StashedMeant
  <2>2. Batch'[r] = Stashed(Committed)[r]
    BY DEF CommitCell, Batch, Stashed, Ends
  <2> QED
    BY <2>1, <2>2 DEF CommitCell
<1> QED
  BY <1>2, <1>3 DEF DraftsInv, BatchIsMeant, CommitCell

\* A row that is to be deleted has no edits of its own any more.
LEMMA DeleteSelectedKeeps ==
  ASSUME DraftsInv, DeleteSelected
  PROVE  DraftsInv'
<1> DEFINE staged == Stashed(draft)
<1>1. staged \in Edits /\ NewText(staged)
  BY StashedNew DEF DraftsInv, Shape, TypeOK
<1>2. NoEdit \in [Cols -> Texts \cup {AsStored}]
  BY DEF NoEdit
<1>3. /\ edits' = [r \in Rows |-> IF r \in selection THEN NoEdit ELSE staged[r]]
      /\ deletes' = deletes \cup selection /\ draft' = draft /\ meant' = meant /\ stored' = stored
      /\ box' = box /\ box = None
  BY DEF DeleteSelected
<1>4. edits' \in Edits
  BY <1>1, <1>2, <1>3 DEF Edits
<1>5. NewText(edits)'
  <2>1. \A r \in Rows, c \in Cols : NoEdit[c] # stored[r][c]
    BY RowDraftsAssumption DEF NoEdit, DraftsInv, Shape, Untouched, Fields
  <2> QED
    BY <1>1, <1>3, <2>1 DEF NewText
<1>6. Shape' /\ BoxOverDraft'
  BY <1>3, <1>4 DEF DeleteSelected, DraftsInv, Shape, TypeOK, Untouched, BoxOverDraft
<1>7. ASSUME NEW r \in Rows \ deletes'
      PROVE  Batch'[r] = meant'[r]
  <2>1. r \in Rows \ deletes /\ edits'[r] = staged[r]
    BY <1>3
  <2>2. staged[r] = meant[r]
    BY <2>1 DEF DraftsInv, BatchIsMeant, Batch
  <2>3. CASE draft = None \/ r \notin draft.rows
    BY <1>3, <2>1, <2>2, <2>3 DEF Batch, Stashed
  <2>4. CASE draft # None /\ r \in draft.rows
    <3>1. Batch'[r] = [c \in Cols |-> Ends(r, c, draft.texts[c])']
      BY <1>3, <1>7, <2>4 DEF Batch, Stashed
    <3>2. staged[r] = [c \in Cols |-> Ends(r, c, draft.texts[c])]
      BY <2>1, <2>4 DEF Stashed
    <3>3. \A c \in Cols : Ends(r, c, draft.texts[c])' = staged[r][c]
      BY <1>3, <2>1, <3>2 DEF Ends
    <3> QED
      BY <1>3, <2>2, <3>1, <3>2, <3>3
  <2> QED
    BY <2>3, <2>4
<1> QED
  BY <1>5, <1>6, <1>7 DEF DraftsInv, BatchIsMeant

\* With everything put back, nothing is meant.
LEMMA DiscardKeeps ==
  ASSUME DraftsInv, Discard
  PROVE  DraftsInv'
<1>1. /\ edits' = [r \in Rows |-> NoEdit] /\ deletes' = {} /\ meant' = edits' /\ stored' = stored
      /\ draft' = IF draft = None THEN None ELSE FromRows(draft.rows, edits')
      /\ box' = box /\ box = None
  BY DEF Discard
<1>2. edits' \in Edits
  BY <1>1 DEF NoEdit, Edits
<1>3. Untouched'
  BY <1>1, <1>2 DEF DraftsInv, Shape, Untouched
<1>4. NewText(edits)' /\ NewText(edits')
  BY <1>1, RowDraftsAssumption DEF NewText, NoEdit, DraftsInv, Shape, Untouched, Fields
<1>5. draft # None => draft.rows \in SUBSET Rows
  BY DEF DraftsInv, Shape, TypeOK, Drafts
<1>6. draft' \in Drafts \cup {None}
  BY <1>1, <1>2, <1>5, DraftOfRows DEF DraftsInv, Shape
<1>7. TypeOK' /\ BoxOverDraft'
  BY <1>1, <1>2, <1>6 DEF Discard, DraftsInv, Shape, TypeOK, BoxOverDraft
<1>8. ASSUME NEW r \in Rows
      PROVE  Batch'[r] = meant'[r]
  <2>1. CASE draft = None
    BY <1>1, <2>1 DEF Batch, Stashed
  <2>2. CASE draft # None
    <3>1. draft' = FromRows(draft.rows, edits')
      BY <1>1, <2>2
    <3>2. CASE draft' = None \/ r \notin draft'.rows
      BY <1>1, <3>2 DEF Batch, Stashed
    <3>3. CASE draft' # None /\ r \in draft'.rows
      <4>1. r \in draft.rows
        BY <3>1, <3>3 DEF FromRows
      <4>2. Batch'[r] = [c \in Cols |-> Ends(r, c, draft.texts[c])']
        BY <1>1, <3>3 DEF Batch, Stashed
      <4>3. ASSUME NEW c \in Cols
            PROVE  Ends(r, c, draft.texts[c])' = AsStored
        <5>1. draft'.texts[c] = Agreed(draft.rows, edits', c)
          BY <1>2, <1>5, <2>2, <3>1, <3>3, DraftOfRows DEF DraftsInv, Shape
        <5>2. draft'.texts[c] # MIXED => Reads(edits', r, c) = draft'.texts[c]
          BY <1>2, <1>5, <2>2, <4>1, <5>1, AgreedReads DEF DraftsInv, Shape
        <5>3. edits'[r][c] = AsStored
          BY <1>1 DEF NoEdit
        <5> QED
          BY <1>1, <5>2, <5>3 DEF Ends, Reads
      <4> QED
        BY <1>1, <4>2, <4>3 DEF NoEdit
    <3> QED
      BY <3>2, <3>3
  <2> QED
    BY <2>1, <2>2
<1> QED
  BY <1>3, <1>4, <1>7, <1>8 DEF DraftsInv, Shape, BatchIsMeant

-----------------------------------------------------------------------------
LEMMA InitDraftsInv == Init => DraftsInv
<1> SUFFICES ASSUME Init PROVE DraftsInv
  OBVIOUS
<1>1. stored \in [Rows -> [Cols -> Texts]]
  BY RowDraftsAssumption DEF Init
<1>2. edits \in Edits
  BY DEF Init, Edits
<1>3. Shape /\ BoxOverDraft
  BY <1>1, <1>2, RowDraftsAssumption DEF Init, Shape, TypeOK, Untouched, BoxOverDraft
<1>4. NewText(edits)
  BY <1>1, RowDraftsAssumption DEF Init, NewText, Fields
<1>5. BatchIsMeant
  BY DEF Init, BatchIsMeant, Batch, Stashed
<1> QED
  BY <1>3, <1>4, <1>5 DEF DraftsInv

LEMMA NextDraftsInv == DraftsInv /\ [Next]_vars => DraftsInv'
<1> SUFFICES ASSUME DraftsInv, [Next]_vars PROVE DraftsInv'
  OBVIOUS
<1> USE RowDraftsAssumption
<1>1. ASSUME NEW r \in Rows, Click(r) PROVE DraftsInv'
  BY <1>1, PicksKeeps DEF Click
<1>2. ASSUME NEW r \in Rows, ShiftClick(r) PROVE DraftsInv'
  <2>1. Between(r) \in SUBSET Rows /\ anchor \in Rows \cup {None}
    BY InRows DEF DraftsInv, Shape, TypeOK
  <2> QED
    BY <1>2, <2>1, PicksKeeps DEF ShiftClick
<1>3. ASSUME NEW r \in Rows, CommandClick(r) PROVE DraftsInv'
  <2>1. selection \in SUBSET Rows /\ drag \in Rows \cup {None}
    BY DEF DraftsInv, Shape, TypeOK
  <2>2. (IF r \in selection THEN selection \ {r} ELSE selection \cup {r}) \in SUBSET Rows
    BY <2>1
  <2> HIDE DEF Rows
  <2> QED
    BY <1>3, <2>1, <2>2, PicksKeeps DEF CommandClick
<1>4. ASSUME NEW r \in Rows, DragOver(r) PROVE DraftsInv'
  <2>1. Between(r) \in SUBSET Rows
    BY InRows DEF DraftsInv
  <2> QED
    BY <1>4, <2>1 DEF DragOver, DraftsInv, Shape, TypeOK, Untouched, NewText, BoxOverDraft,
       BatchIsMeant, Batch, Stashed, Ends
<1>5. ASSUME Release PROVE DraftsInv'
  <2>1. selection \in SUBSET Rows /\ anchor \in Rows \cup {None}
    BY DEF DraftsInv, Shape, TypeOK
  <2> QED
    BY <1>5, <2>1, PicksKeeps DEF Release
<1>6. ASSUME SelectAll PROVE DraftsInv'
  <2>1. (IF anchor = None THEN 0 ELSE anchor) \in Rows \cup {None} /\ drag \in Rows \cup {None}
    BY DEF DraftsInv, Shape, TypeOK, Rows
  <2> QED
    BY <1>6, <2>1, PicksKeeps DEF SelectAll, ByKey
<1>7. ASSUME ClearSelection PROVE DraftsInv'
  <2>1. drag \in Rows \cup {None}
    BY DEF DraftsInv, Shape, TypeOK
  <2> QED
    BY <1>7, <2>1, PicksKeeps DEF ClearSelection, ByKey
<1>8. ASSUME NEW by \in {-1, 1}, MoveRow(by) PROVE DraftsInv'
  <2> DEFINE next == IF lead = None THEN 0 ELSE Moved(lead, by)
  <2>1. next \in Rows /\ drag \in Rows \cup {None}
    <3>1. lead \in Rows \cup {None} /\ drag \in Rows \cup {None} /\ 0 \in Rows
      BY DEF DraftsInv, Shape, TypeOK, Rows
    <3>2. lead \in Rows => Moved(lead, by) \in Rows
      BY InRows DEF DraftsInv
    <3> HIDE DEF Rows
    <3> QED
      BY <3>1, <3>2
  <2>2. Picks({next}, next, next) /\ drag' = drag
    BY <1>8 DEF MoveRow, ByKey
  <2> HIDE DEF next
  <2> QED
    BY <2>1, <2>2, PicksKeeps
<1>9. ASSUME NEW by \in {-1, 1}, ExtendSelection(by) PROVE DraftsInv'
  <2> DEFINE from == CASE selection # {} -> Final(selection)
                      [] selection = {} /\ anchor # None -> anchor
                      [] OTHER -> 0
             next == Moved(from, by)
  <2>1. from \in Rows /\ drag \in Rows \cup {None} /\ anchor \in Rows \cup {None}
    BY FinalIn DEF DraftsInv, Shape, TypeOK, Rows
  <2>2. ByKey /\ Picks(Between(next), IF anchor = None THEN next ELSE anchor, next)
    BY <1>9 DEF ExtendSelection
  <2> HIDE DEF from
  <2>3. next \in Rows
    BY <2>1, InRows DEF DraftsInv
  <2> HIDE DEF next
  <2>4. Between(next) \in SUBSET Rows /\ drag' = drag
    BY <2>2, <2>3, InRows DEF DraftsInv, ByKey
  <2> QED
    BY <2>1, <2>2, <2>3, <2>4, PicksKeeps
<1>10. ASSUME NEW text \in Fields, TypeCell(text) PROVE DraftsInv'
  <2>1. box' \in Boxes /\ box'.row = box.row
    BY <1>10 DEF TypeCell, DraftsInv, Shape, TypeOK, Boxes
  <2> QED
    BY <1>10, <2>1 DEF TypeCell, DraftsInv, Shape, TypeOK, Untouched, NewText, BoxOverDraft,
       BatchIsMeant, Batch, Stashed, Ends
<1>11. ASSUME CancelCell PROVE DraftsInv'
  BY <1>11 DEF CancelCell, DraftsInv, Shape, TypeOK, Untouched, NewText, BoxOverDraft,
     BatchIsMeant, Batch, Stashed, Ends
<1>12. ASSUME UNCHANGED vars PROVE DraftsInv'
  BY <1>12 DEF vars, DraftsInv, Shape, TypeOK, Untouched, NewText, BoxOverDraft,
     BatchIsMeant, Batch, Stashed, Ends
<1> QED
  BY <1>1, <1>2, <1>3, <1>4, <1>5, <1>6, <1>7, <1>8, <1>9, <1>10, <1>11, <1>12,
     TypeFieldKeeps, PickMixedKeeps, BeginCellEditKeeps, CommitCellKeeps, DeleteSelectedKeeps,
     DiscardKeeps DEF Next

\* The variables keep their types, however many rows and columns a page has:
\* the token of a field whose rows differ, say, is never staged for a row.
THEOREM TypeCorrect == Spec => []TypeOK
<1>1. DraftsInv => TypeOK
  BY DEF DraftsInv, Shape
<1> QED
  BY <1>1, InitDraftsInv, NextDraftsInv, PTL DEF Spec

\* What a save would write is what was last typed over each row that is not to
\* be deleted, by whatever ways its rows were selected before and after
\* (stash_current_draft, to_pending_batch, commit_cell_edit, begin_cell_edit).
THEOREM BatchCorrect == Spec => []BatchIsMeant
<1>1. DraftsInv => BatchIsMeant
  BY DEF DraftsInv
<1> QED
  BY <1>1, InitDraftsInv, NextDraftsInv, PTL DEF Spec

-----------------------------------------------------------------------------
(* What is sent and committed *)

USE RowCommitsAssumption

(***************************************************************************)
(* What is staged names a row once for each thing to be done to it, and a  *)
(* new row once.                                                           *)
(***************************************************************************)
Clear(S) == \A s, t \in S :
  /\ s.verb = "update" /\ t.verb = "update" /\ s.key = t.key => s = t
  /\ s.verb = "insert" /\ t.verb = "insert" /\ s.mark = t.mark => s = t

Definite ==
  /\ Clear(pending) /\ Clear(batch)
  /\ \A s \in pending \cup batch : s.verb = "insert" => s.mark <= marks

(***************************************************************************)
(* What the stages of a commit say of it, and the order its statements run *)
(* in.                                                                     *)
(***************************************************************************)
Done == batch \ left

Stages ==
  /\ stage \in {"idle", "landed", "refused"} => batch = {} /\ touched = {} /\ steady = {}
  /\ stage = "sent" => batch # {} /\ left = batch /\ touched = {}
  /\ stage = "open" => batch # {}

Ordered == \A d \in Done, r \in left :
  /\ d.verb = "delete" => r.verb = "delete"
  /\ d.verb = "update" => r.verb # "insert"

(***************************************************************************)
(* What the transaction has made of each row it wrote follows from the     *)
(* statements that ran; the rows of the batch's own are there once; and a  *)
(* row that stayed as it was and was not written was named by none.        *)
(***************************************************************************)
DeletedBy(i)   == \E d \in Done : d.verb = "delete" /\ d.key = table[i].key
ChangedBy(i)   == \E u \in Done : /\ u.verb = "update" /\ u.key = table[i].key
                                  /\ work[i] = [table[i] EXCEPT !.value = ValueOf(u)]

Rewritten == \A i \in touched : table[i] # Absent =>
  IF DeletedBy(i) THEN work[i] = Absent ELSE ChangedBy(i)

Own(i) == i \in touched /\ table[i] = Absent /\ work[i] # Absent

IsOf(line, s)  == line.from = s.mark /\ s.key \in {line.key, Default}
TakenBack(d, s) == d.verb = "delete" /\ s.key \in {d.key, Default}

Owned ==
  /\ \A i \in touched : Own(i) =>
       \E s \in Done : s.verb = "insert" /\ IsOf(work[i], s)
  /\ \A i, j \in touched : Own(i) /\ Own(j) /\ work[i].from = work[j].from => i = j
  /\ \A s \in Done : s.verb = "insert" =>
       \/ \E d \in Done : TakenBack(d, s)
       \/ \E i \in touched : Own(i) /\ work[i].from = s.mark

Missed == \A i \in steady :
  /\ table[i] # Absent
  /\ i \in touched \/ \A s \in Done : s.verb # "insert" => s.key # table[i].key

Alone == Keyed(table) /\ Keyed(Seen)

(***************************************************************************)
(* The marks of the rows the server was given, of those still staged, and  *)
(* of those of the table, no two of which have one while no answer to a    *)
(* COMMIT was lost.                                                        *)
(***************************************************************************)
Sent ==
  /\ \A m \in landed : m <= marks
  /\ ~lost /\ stage # "landed" => \A s \in pending \cup batch : s.mark \notin landed

Once ==
  /\ \A i \in Present(table) : table[i].from # 0 => table[i].from \in landed
  /\ RowsLandOnce

Transaction == Stages /\ Ordered /\ Rewritten /\ Owned /\ Missed /\ Alone
CommitsInv == CommitsTypeOK /\ Definite /\ Transaction /\ Sent /\ Once

core == <<table, steady, stage, batch, left, touched, work>>

-----------------------------------------------------------------------------
LEMMA InitCommitsInv == CommitsInit => CommitsInv
<1> SUFFICES ASSUME CommitsInit PROVE CommitsInv
  OBVIOUS
<1> USE DEF CommitsInit
<1>1. CommitsTypeOK
  <2>1. marks \in 0..MaxInserts /\ saves \in 0..MaxSaves /\ others \in 0..MaxOthers
    OBVIOUS
  <2>2. work \in [Ids -> Lines \cup {Absent}]
    BY DEF NoWork
  <2> QED
    BY <2>1, <2>2 DEF CommitsTypeOK
<1>2. Definite
  BY DEF Definite, Clear
<1>3. Stages /\ Ordered /\ Rewritten /\ Owned /\ Missed
  BY DEF Stages, Ordered, Rewritten, Owned, Missed, Done
<1>4. Alone
  BY DEF Alone, Keyed, Seen, Over, Present
<1>5. Sent /\ Once
  BY DEF Sent, Once, RowsLandOnce, Present
<1> QED
  BY <1>1, <1>2, <1>3, <1>4, <1>5 DEF CommitsInv, Transaction

(***************************************************************************)
(* A step leaves the transaction alone when it leaves its variables alone. *)
(***************************************************************************)
LEMMA CoreStays ==
    ASSUME Transaction, UNCHANGED core
    PROVE  Transaction'
BY SMTT(30) DEF core, Transaction, Stages, Ordered, Rewritten, Owned, Missed, Alone, Done,
       DeletedBy, ChangedBy, Own, Keyed, Seen, Over, Present, ValueOf

(***************************************************************************)
(* Types.                                                                  *)
(***************************************************************************)
LEMMA SeenType ==
    ASSUME CommitsTypeOK
    PROVE  Seen \in [Ids -> Lines \cup {Absent}]
BY DEF CommitsTypeOK, Seen, Over

LEMMA ValueType ==
    ASSUME NEW s \in Statements
    PROVE  ValueOf(s) \in Values
BY DEF Statements, Inserts, Updates, Deletes, ValueOf

LEMMA WritesType ==
    ASSUME CommitsTypeOK, NEW rows \in SUBSET Ids,
           NEW now \in [rows -> Lines \cup {Absent}], Writes(rows, now)
    PROVE  touched' \subseteq Ids /\ work' \in [Ids -> Lines \cup {Absent}]
BY DEF CommitsTypeOK, Writes

LEMMA ExecuteType ==
    ASSUME CommitsTypeOK, NEW s \in Statements,
           \/ s.verb = "insert" /\ Insert(s)
           \/ s.verb = "update" /\ Update(s)
           \/ s.verb = "delete" /\ Delete(s)
    PROVE  touched' \subseteq Ids /\ work' \in [Ids -> Lines \cup {Absent}]
<1> DEFINE rows == Having(Seen, s.key)
<1>1. rows \subseteq Ids /\ \A j \in rows : Seen[j] \in Lines
  BY SeenType DEF Having, Present
<1>2. ValueOf(s) \in Values
  BY ValueType
<1>3. CASE s.verb = "insert" /\ Insert(s)
  <2>1. PICK i \in Ids, k \in KeysFor(s) :
          Writes({i}, [j \in {i} |-> [key |-> k, value |-> ValueOf(s), from |-> s.mark]])
    BY <1>3 DEF Insert
  <2>2. k \in AllKeys
    BY <1>3 DEF KeysFor, AllKeys, Statements, Inserts, Updates, Deletes
  <2>3. s.mark \in Marks
    BY <1>3 DEF Statements, Inserts, Updates, Deletes
  <2>4. [j \in {i} |-> [key |-> k, value |-> ValueOf(s), from |-> s.mark]] \in [{i} -> Lines \cup {Absent}]
    BY <1>2, <2>2, <2>3 DEF Lines
  <2> QED
    BY <2>1, <2>4, WritesType
<1>4. CASE s.verb = "update" /\ Update(s)
  <2>1. [j \in rows |-> [Seen[j] EXCEPT !.value = ValueOf(s)]] \in [rows -> Lines \cup {Absent}]
    BY <1>1, <1>2 DEF Lines
  <2> QED
    BY <1>1, <1>4, <2>1, WritesType DEF Update
<1>5. CASE s.verb = "delete" /\ Delete(s)
  <2>1. [j \in rows |-> Absent] \in [rows -> Lines \cup {Absent}]
    OBVIOUS
  <2> QED
    BY <1>1, <1>5, <2>1, WritesType DEF Delete
<1> QED
  BY <1>3, <1>4, <1>5

LEMMA TypeStep ==
    ASSUME CommitsTypeOK, [CommitsNext]_commitsVars
    PROVE  CommitsTypeOK'
<1> USE DEF CommitsTypeOK, server, tab, commit
<1>1. CASE UNCHANGED commitsVars
  BY <1>1 DEF commitsVars
<1>2. ASSUME NEW i \in Ids, NEW v \in Values \cup {Default}, StageEdit(i, v)
      PROVE  CommitsTypeOK'
  <2>1. known[i] \in Lines
    BY <1>2 DEF StageEdit, Present
  <2>2. pending' \subseteq Statements
    BY <1>2, <2>1 DEF StageEdit, Staging, Without, Lines, Statements, Updates
  <2> QED
    BY <1>2, <2>2 DEF StageEdit, Staging
<1>3. ASSUME NEW i \in Ids, StageDelete(i)
      PROVE  CommitsTypeOK'
  <2>1. known[i] \in Lines
    BY <1>3 DEF StageDelete, Present
  <2>2. pending' \subseteq Statements
    BY <1>3, <2>1 DEF StageDelete, Staging, Without, Lines, Statements, Deletes
  <2> QED
    BY <1>3, <2>2 DEF StageDelete, Staging
<1>4. ASSUME NEW k \in Keys \cup {Default}, NEW v \in Values \cup {Default}, StageInsert(k, v)
      PROVE  CommitsTypeOK'
  <2>1. marks' \in 0..MaxInserts /\ marks' \in Marks
    BY <1>4 DEF StageInsert, Marks
  <2>2. pending' \subseteq Statements
    BY <1>4, <2>1 DEF StageInsert, Staging, Statements, Inserts
  <2> QED
    BY <1>4, <2>1, <2>2 DEF StageInsert, Staging
<1>5. CASE DiscardStaged
  BY <1>5 DEF DiscardStaged, Staging
<1>6. CASE Load
  BY <1>6 DEF Load
<1>7. CASE Save
  <2>1. saves' \in 0..MaxSaves
    BY <1>7 DEF Save
  <2> QED
    BY <1>7, <2>1 DEF Save, Present
<1>8. CASE Begin
  BY <1>8 DEF Begin
<1>9. ASSUME RolledBack, UNCHANGED lost
      PROVE  CommitsTypeOK'
  BY <1>9 DEF RolledBack, NoWork
<1>10. CASE Break
  BY <1>9, <1>10 DEF Break
<1>11. CASE Commit
  <2>1. landed' \subseteq Marks
    BY <1>11 DEF Commit, Statements, Inserts, Updates, Deletes
  <2> QED
    BY <1>11, <2>1, SeenType DEF Commit, NoWork
<1>12. CASE Answer
  BY <1>12 DEF Answer
<1>13. ASSUME NEW s \in Statements, Execute(s)
       PROVE  CommitsTypeOK'
  BY <1>13, ExecuteType DEF Execute
<1>14. ASSUME NEW s \in Statements, Refuse(s)
       PROVE  CommitsTypeOK'
  BY <1>9, <1>14 DEF Refuse
<1>15. ASSUME NEW i \in Ids, NEW now \in Lines \cup {Absent}, OtherWrites(i, now)
       PROVE  CommitsTypeOK'
  <2>1. others' \in 0..MaxOthers
    BY <1>15 DEF OtherWrites
  <2> QED
    BY <1>15, <2>1 DEF OtherWrites
<1> QED
  BY <1>1, <1>2, <1>3, <1>4, <1>5, <1>6, <1>7, <1>8, <1>10, <1>11, <1>12, <1>13, <1>14, <1>15
  DEF CommitsNext

(***************************************************************************)
(* Staging keeps one statement for each thing to be done to a row, and the *)
(* new rows' marks.                                                        *)
(***************************************************************************)
LEMMA DefiniteStep ==
    ASSUME CommitsTypeOK, Definite, Stages, [CommitsNext]_commitsVars
    PROVE  Definite'
<1> USE DEF Definite, Clear, server, tab, commit
<1>1. CASE UNCHANGED commitsVars
  BY <1>1 DEF commitsVars
<1>2. ASSUME NEW i \in Ids, NEW v \in Values \cup {Default}, StageEdit(i, v)
      PROVE  Definite'
  BY <1>2 DEF StageEdit, Staging, Without
<1>3. ASSUME NEW i \in Ids, StageDelete(i)
      PROVE  Definite'
  BY <1>3 DEF StageDelete, Staging, Without
<1>4. ASSUME NEW k \in Keys \cup {Default}, NEW v \in Values \cup {Default}, StageInsert(k, v)
      PROVE  Definite'
  <2> DEFINE new == [verb |-> "insert", key |-> k, value |-> v, mark |-> marks']
  <2>1. pending' = pending \cup {new} /\ batch' = batch /\ new.verb = "insert" /\ new.mark = marks'
    BY <1>4 DEF StageInsert, Staging
  <2>2. marks \in Int /\ marks' = marks + 1
    BY <1>4 DEF StageInsert, CommitsTypeOK
  <2>3. \A s \in pending \cup batch : s.verb = "insert" => s.mark \in Int
    BY DEF CommitsTypeOK, Statements, Inserts, Updates, Deletes, Marks
  <2> HIDE DEF new
  <2>4. \A s \in pending \cup batch : s.verb = "insert" => s.mark # new.mark /\ s.mark <= marks'
    BY <2>1, <2>2, <2>3
  <2>5. Clear(pending) /\ Clear(batch)
    OBVIOUS
  <2>6. Clear(pending)'
    BY <2>1, <2>4, <2>5
  <2>7. \A s \in pending' \cup batch' : s.verb = "insert" => s.mark <= marks'
    BY <2>1, <2>2, <2>4
  <2> QED
    BY <2>1, <2>5, <2>6, <2>7
<1>5. CASE DiscardStaged
  BY <1>5 DEF DiscardStaged, Staging
<1>6. CASE Load
  BY <1>6 DEF Load
<1>7. CASE Save
  BY <1>7 DEF Save
<1>8. CASE Begin
  BY <1>8 DEF Begin
<1>9. ASSUME RolledBack
      PROVE  Definite'
  BY <1>9 DEF RolledBack
<1>10. CASE Break
  BY <1>9, <1>10 DEF Break
<1>11. CASE Commit
  BY <1>11 DEF Commit
<1>12. CASE Answer
  BY <1>12 DEF Answer
<1>13. ASSUME NEW s \in Statements, Execute(s)
       PROVE  Definite'
  BY <1>13 DEF Execute
<1>14. ASSUME NEW s \in Statements, Refuse(s)
       PROVE  Definite'
  BY <1>9, <1>14 DEF Refuse
<1>15. ASSUME NEW i \in Ids, NEW now \in Lines \cup {Absent}, OtherWrites(i, now)
       PROVE  Definite'
  BY <1>15 DEF OtherWrites
<1> QED
  BY <1>1, <1>2, <1>3, <1>4, <1>5, <1>6, <1>7, <1>8, <1>10, <1>11, <1>12, <1>13, <1>14, <1>15
  DEF CommitsNext

(***************************************************************************)
(* What landed is off the list when the answer is in.                      *)
(***************************************************************************)
LEMMA SentStep ==
    ASSUME CommitsInv, [CommitsNext]_commitsVars
    PROVE  Sent'
<1> USE DEF CommitsInv, Sent, server, tab, commit
<1>1. CASE UNCHANGED commitsVars
  BY <1>1 DEF commitsVars
<1>2. 0 \notin landed /\ \A m \in landed : m \in Int
  BY DEF CommitsTypeOK, Marks
<1>3. ASSUME NEW now, Staging(now), marks' = marks,
             \A s \in now \ pending : s.mark = 0
      PROVE  Sent'
  BY <1>2, <1>3 DEF Staging
<1>4. ASSUME NEW i \in Ids, NEW v \in Values \cup {Default}, StageEdit(i, v)
      PROVE  Sent'
  BY <1>3, <1>4 DEF StageEdit, Without
<1>5. ASSUME NEW i \in Ids, StageDelete(i)
      PROVE  Sent'
  BY <1>3, <1>5 DEF StageDelete, Without
<1>6. ASSUME NEW k \in Keys \cup {Default}, NEW v \in Values \cup {Default}, StageInsert(k, v)
      PROVE  Sent'
  <2> DEFINE new == [verb |-> "insert", key |-> k, value |-> v, mark |-> marks']
  <2>1. pending' = pending \cup {new} /\ new.mark = marks'
    BY <1>6 DEF StageInsert, Staging
  <2>2. marks \in Int /\ marks' = marks + 1
    BY <1>6 DEF StageInsert, CommitsTypeOK
  <2> HIDE DEF new
  <2>3. UNCHANGED <<batch, stage, landed, lost>>
    BY <1>6 DEF StageInsert, Staging
  <2>4. \A m \in landed : m <= marks' /\ m # marks'
    BY <1>2, <2>2
  <2> QED
    BY <2>1, <2>3, <2>4
<1>7. CASE DiscardStaged
  BY <1>3, <1>7 DEF DiscardStaged
<1>8. CASE Load
  BY <1>8 DEF Load
<1>9. CASE Save
  BY <1>9 DEF Save
<1>10. CASE Begin
  BY <1>10 DEF Begin
<1>11. ASSUME RolledBack, UNCHANGED lost, stage # "landed"
       PROVE  Sent'
  BY <1>11 DEF RolledBack
<1>12. CASE Break
  BY <1>11, <1>12 DEF Break
<1>13. CASE Commit
  <2>1. \A s \in batch : s.verb = "insert" => s.mark <= marks
    BY DEF Definite
  <2>2. \A m \in landed' : m <= marks'
    BY <1>13, <2>1 DEF Commit
  <2>3. lost' \/ stage' = "landed"
    BY <1>13 DEF Commit
  <2> QED
    BY <2>2, <2>3
<1>14. CASE Answer
  BY <1>14 DEF Answer, Transaction, Stages
<1>15. ASSUME NEW s \in Statements, Execute(s)
       PROVE  Sent'
  BY <1>15 DEF Execute
<1>16. ASSUME NEW s \in Statements, Refuse(s)
       PROVE  Sent'
  BY <1>11, <1>16 DEF Refuse
<1>17. ASSUME NEW i \in Ids, NEW now \in Lines \cup {Absent}, OtherWrites(i, now)
       PROVE  Sent'
  BY <1>17 DEF OtherWrites
<1> QED
  BY <1>1, <1>4, <1>5, <1>6, <1>7, <1>8, <1>9, <1>10, <1>12, <1>13, <1>14, <1>15, <1>16, <1>17
  DEF CommitsNext

(***************************************************************************)
(* A statement that runs: what it makes of the rows it names.              *)
(***************************************************************************)
Runs(s) ==
  /\ stage = "open" /\ s \in left /\ Turn(s) /\ left' = left \ {s}
  /\ UNCHANGED <<table, steady, stage, batch>>

LEMMA RanToo ==
    ASSUME CommitsTypeOK, NEW s, Runs(s)
    PROVE  Done' = Done \cup {s} /\ s \in batch /\ s \notin Done
BY DEF CommitsTypeOK, Runs, Done

LEMMA AsCommitted ==
    ASSUME CommitsTypeOK
    PROVE  \A j \in Ids : Seen[j] = IF j \in touched THEN work[j] ELSE table[j]
BY DEF CommitsTypeOK, Seen, Over

LEMMA InsertTransaction ==
    ASSUME CommitsTypeOK, Definite, Transaction,
           NEW s \in Statements, s.verb = "insert", Runs(s), Insert(s)
    PROVE  Transaction'
<1> USE DEF Transaction
<1>1. PICK i \in Ids, k \in KeysFor(s) :
        /\ Seen[i] = Absent /\ i \notin touched
        /\ k = NullKey \/ Having(Seen, k) = {}
        /\ Writes({i}, [j \in {i} |-> [key |-> k, value |-> ValueOf(s), from |-> s.mark]])
  BY DEF Insert
<1> DEFINE line == [key |-> k, value |-> ValueOf(s), from |-> s.mark]
<1>2. /\ touched' = touched \cup {i}
      /\ \A j \in Ids : work'[j] = IF j = i THEN line ELSE work[j]
  BY <1>1 DEF Writes, CommitsTypeOK
<1>3. k \in AllKeys /\ s.mark \in Marks
  BY DEF KeysFor, AllKeys, Statements, Inserts, Updates, Deletes
<1>4. line \in Lines /\ line # Absent /\ line.key = k /\ IsOf(line, s)
  BY <1>3, ValueType DEF Lines, IsOf, KeysFor
<1> HIDE DEF line
<1>5. Done' = Done \cup {s} /\ s \in batch /\ s \notin Done
  BY RanToo
<1>6. table[i] = Absent /\ touched \subseteq Ids
  BY <1>1, AsCommitted DEF CommitsTypeOK
<1>7. Stages'
  BY DEF Stages, Runs
<1>8. Ordered'
  BY <1>5 DEF Ordered, Runs
<1>9. Rewritten'
  <2> SUFFICES ASSUME NEW j \in touched', table[j] # Absent
               PROVE  IF DeletedBy(j)' THEN work'[j] = Absent ELSE ChangedBy(j)'
    BY DEF Rewritten, Runs
  <2>1. j \in touched /\ j \in Ids /\ work'[j] = work[j]
    BY <1>2, <1>6
  <2>2. DeletedBy(j)' => DeletedBy(j)
    BY <1>5 DEF DeletedBy, Runs
  <2>3. ChangedBy(j) => ChangedBy(j)'
    BY <1>5, <2>1 DEF ChangedBy, Runs, ValueOf
  <2>4. DeletedBy(j) => DeletedBy(j)'
    BY <1>5 DEF DeletedBy, Runs
  <2> QED
    BY <2>1, <2>2, <2>3, <2>4 DEF Rewritten
<1>10. /\ Own(i)'
       /\ \A j \in touched : Own(j)' <=> Own(j)
  <2>1. table' = table /\ work'[i] # Absent
    BY <1>2, <1>4 DEF Runs
  <2>2. Own(i)'
    BY <1>2, <1>6, <2>1 DEF Own
  <2>3. \A j \in touched : j \in touched' /\ work'[j] = work[j]
    BY <1>1, <1>2, <1>6
  <2>4. \A j \in touched : Own(j)' <=> Own(j)
    BY <2>1, <2>3 DEF Own
  <2> QED
    BY <2>2, <2>4
<1>11. \A j \in touched : work'[j] = work[j]
  BY <1>1, <1>2, <1>6
<1>12. IsOf(work'[i], s) /\ work'[i].from = s.mark /\ i \in touched'
  BY <1>2, <1>4 DEF IsOf
<1>13. \A t \in Done : t.verb = "insert" => t.mark # s.mark
  BY <1>5 DEF Definite, Clear, Done
<1>14. Owned'
  <2>1. \A j \in touched' : Own(j)' => \E t \in Done' : t.verb = "insert" /\ IsOf(work'[j], t)
    BY <1>2, <1>5, <1>10, <1>11, <1>12 DEF Owned
  <2>2. \A j \in touched : Own(j) => work[j].from # s.mark
    BY <1>13 DEF Owned, IsOf
  <2>3. \A j, h \in touched' : Own(j)' /\ Own(h)' /\ work'[j].from = work'[h].from => j = h
    BY <1>2, <1>10, <1>11, <1>12, <2>2 DEF Owned
  <2>4. \A t \in Done' : t.verb = "insert" =>
          \/ \E d \in Done' : TakenBack(d, t)
          \/ \E j \in touched' : Own(j)' /\ work'[j].from = t.mark
    <3> SUFFICES ASSUME NEW t \in Done', t.verb = "insert", ~\E d \in Done' : TakenBack(d, t)
                 PROVE  \E j \in touched' : Own(j)' /\ work'[j].from = t.mark
      OBVIOUS
    <3>1. CASE t = s
      BY <3>1, <1>10, <1>12
    <3>2. CASE t # s
      <4>1. PICK j \in touched : Own(j) /\ work[j].from = t.mark
        BY <3>2, <1>5 DEF Owned
      <4> QED
        BY <4>1, <1>2, <1>10, <1>11
    <3> QED
      BY <3>1, <3>2
  <2> QED
    BY <2>1, <2>3, <2>4 DEF Owned
<1>15. Missed'
  BY <1>2, <1>5 DEF Missed, Runs
<1>16. Alone'
  <2>1. \A j \in Ids : Seen'[j] = IF j = i THEN line ELSE Seen[j]
    BY <1>1, <1>2, <1>6, AsCommitted DEF Seen, Over, Runs
  <2>2. Keyed(Seen')
    BY <1>1, <1>4, <2>1 DEF Alone, Keyed, Present, Having
  <2> QED
    BY <2>2 DEF Alone, Runs, Keyed, Present
<1> QED
  BY <1>7, <1>8, <1>9, <1>14, <1>15, <1>16

(***************************************************************************)
(* A row that an UPDATE or a DELETE finds was not deleted before; one that *)
(* was changed has its key still.                                          *)
(***************************************************************************)
LEMMA FoundKey ==
    ASSUME CommitsTypeOK, Rewritten, NEW j \in Ids, Seen[j] # Absent, table[j] # Absent
    PROVE  Seen[j].key = table[j].key /\ (j \in touched => ~DeletedBy(j) /\ ChangedBy(j))
<1>1. table[j] \in Lines
  BY DEF CommitsTypeOK
<1>2. CASE j \in touched
  <2>1. ~DeletedBy(j) /\ ChangedBy(j)
    BY <1>2, AsCommitted DEF Rewritten
  <2>2. work[j].key = table[j].key
    BY <1>1, <2>1 DEF ChangedBy, Lines
  <2> QED
    BY <1>2, <2>1, <2>2, AsCommitted
<1>3. CASE j \notin touched
  BY <1>3, AsCommitted
<1> QED
  BY <1>2, <1>3

(***************************************************************************)
(* What an UPDATE and a DELETE have in common: they write the rows of one  *)
(* key, and every row the transaction added has the mark it had.           *)
(***************************************************************************)
LEMMA NamedRows ==
    ASSUME CommitsTypeOK, Rewritten, NEW s \in Statements, s.verb # "insert",
           NEW now, Writes(Having(Seen, s.key), now), Runs(s)
    PROVE  /\ touched' = touched \cup Having(Seen, s.key) /\ touched' \subseteq Ids
           /\ \A j \in Ids : work'[j] = IF j \in Having(Seen, s.key) THEN now[j] ELSE work[j]
           /\ \A j \in Ids : j \in Having(Seen, s.key) <=> Seen[j] # Absent /\ Seen[j].key = s.key
           /\ Missed => Missed'
<1> DEFINE rows == Having(Seen, s.key)
<1>1. \A j \in Ids : j \in rows <=> Seen[j] # Absent /\ Seen[j].key = s.key
  BY DEF Having, Present
<1>2. touched' = touched \cup rows /\ touched' \subseteq Ids
  BY DEF Writes, Having, Present, CommitsTypeOK
<1>3. \A j \in Ids : work'[j] = IF j \in rows THEN now[j] ELSE work[j]
  BY DEF Writes
<1>4. ASSUME Missed PROVE Missed'
  <2>1. ASSUME NEW j \in steady
        PROVE  /\ table[j] # Absent
               /\ j \in touched' \/ \A t \in Done' : t.verb # "insert" => t.key # table[j].key
    <3>1. j \in Ids /\ table[j] # Absent
      BY <1>4, <2>1 DEF CommitsTypeOK, Missed
    <3>2. CASE j \in touched \/ j \in rows
      BY <1>2, <3>1, <3>2
    <3>3. CASE j \notin touched /\ j \notin rows
      <4>1. Seen[j] = table[j]
        BY <3>1, <3>3, AsCommitted
      <4>2. s.key # table[j].key
        BY <1>1, <3>1, <3>3, <4>1
      <4>3. \A t \in Done : t.verb # "insert" => t.key # table[j].key
        BY <1>4, <2>1, <3>3 DEF Missed
      <4> QED
        BY <3>1, <4>2, <4>3, RanToo
    <3> QED
      BY <3>2, <3>3
  <2> QED
    BY <2>1 DEF Missed, Runs
<1> QED
  BY <1>1, <1>2, <1>3, <1>4

LEMMA UpdateTransaction ==
    ASSUME CommitsTypeOK, Definite, Transaction,
           NEW s \in Statements, s.verb = "update", Runs(s), Update(s)
    PROVE  Transaction'
<1> USE DEF Transaction
<1> DEFINE rows == Having(Seen, s.key)
           now  == [j \in rows |-> [Seen[j] EXCEPT !.value = ValueOf(s)]]
<1> DEFINE SameRow(j) == work'[j].from = work[j].from /\ work'[j].key = work[j].key
<1>1. /\ touched' = touched \cup rows /\ touched' \subseteq Ids
      /\ \A j \in Ids : work'[j] = IF j \in rows THEN now[j] ELSE work[j]
      /\ \A j \in Ids : j \in rows <=> Seen[j] # Absent /\ Seen[j].key = s.key
      /\ Missed'
  BY NamedRows DEF Update
<1>2. Done' = Done \cup {s} /\ s \in batch /\ s \notin Done
  BY RanToo
<1>3. \A j \in rows : /\ Seen[j] \in Lines /\ now[j] \in Lines /\ now[j] # Absent
                      /\ now[j].key = Seen[j].key /\ now[j].from = Seen[j].from
  BY SeenType, ValueType DEF Having, Present, Lines
<1>4. \A j \in rows : table[j] # Absent => j \notin touched
  <2> SUFFICES ASSUME NEW j \in rows, table[j] # Absent, j \in touched PROVE FALSE
    OBVIOUS
  <2>1. ChangedBy(j) /\ table[j].key = s.key
    BY <1>1, FoundKey DEF Having, Present
  <2>2. PICK u \in Done : u.verb = "update" /\ u.key = s.key
    BY <2>1 DEF ChangedBy
  <2> QED
    BY <1>2, <2>2 DEF Definite, Clear, Done
<1>5. \A d \in Done : d.verb # "delete"
  BY DEF Ordered, Runs
<1>6. Stages'
  BY DEF Stages, Runs
<1>7. Ordered'
  BY <1>2 DEF Ordered, Runs, Turn
<1>8. Rewritten'
  <2> SUFFICES ASSUME NEW j \in touched', table[j] # Absent
               PROVE  IF DeletedBy(j)' THEN work'[j] = Absent ELSE ChangedBy(j)'
    BY DEF Rewritten, Runs
  <2>1. ~DeletedBy(j)' /\ ~DeletedBy(j) /\ j \in Ids
    BY <1>1, <1>2, <1>5 DEF DeletedBy
  <2>2. CASE j \in rows
    <3>1. Seen[j] = table[j] /\ table[j].key = s.key
      BY <1>1, <1>4, <2>2, AsCommitted, <2>1
    <3>2. work'[j] = [table[j] EXCEPT !.value = ValueOf(s)]
      BY <1>1, <2>1, <2>2, <3>1
    <3> QED
      BY <1>2, <2>1, <3>1, <3>2 DEF ChangedBy, Runs, ValueOf
  <2>3. CASE j \notin rows
    <3>1. work'[j] = work[j] /\ j \in touched
      BY <1>1, <2>1, <2>3
    <3>2. ChangedBy(j)
      BY <2>1, <3>1 DEF Rewritten
    <3> QED
      BY <1>2, <2>1, <3>1, <3>2 DEF ChangedBy, Runs, ValueOf
  <2> QED
    BY <2>2, <2>3
<1>9. \A j \in Ids : /\ Own(j)' <=> Own(j)
                     /\ Own(j) => j \in touched /\ j \in touched' /\ SameRow(j)
  <2> SUFFICES ASSUME NEW j \in Ids
               PROVE  /\ Own(j)' <=> Own(j)
                      /\ Own(j) => j \in touched /\ j \in touched' /\ SameRow(j)
    OBVIOUS
  <2>1. CASE j \in rows
    <3>1. work'[j] = now[j] /\ now[j] # Absent /\ now[j].from = Seen[j].from /\ now[j].key = Seen[j].key /\ j \in touched'
      BY <1>1, <1>3, <2>1
    <3>2. table[j] = Absent => j \in touched /\ Seen[j] = work[j] /\ work[j] # Absent
      BY <1>1, <2>1, AsCommitted
    <3> QED
      BY <3>1, <3>2 DEF Own, Runs
  <2>2. CASE j \notin rows
    BY <1>1, <2>2 DEF Own, Runs
  <2> QED
    BY <2>1, <2>2
<1> HIDE DEF rows, now
<1>10. Owned'
  <2> USE DEF Owned
  <2>1. \A j \in touched' : Own(j)' => Own(j) /\ j \in touched /\ SameRow(j)
    BY <1>1, <1>9
  <2>2. \A j \in touched : Own(j) => Own(j)' /\ j \in touched' /\ SameRow(j)
    BY <1>1, <1>9
  <2>3. \A j \in touched' : Own(j)' => \E t \in Done' : t.verb = "insert" /\ IsOf(work'[j], t)
    BY <1>2, <2>1 DEF IsOf
  <2>4. \A j, h \in touched' : Own(j)' /\ Own(h)' /\ work'[j].from = work'[h].from => j = h
    BY <2>1
  <2>5. \A t \in Done' : t.verb = "insert" =>
          \/ \E d \in Done' : TakenBack(d, t)
          \/ \E j \in touched' : Own(j)' /\ work'[j].from = t.mark
    BY <1>2, <2>2
  <2> QED
    BY <2>3, <2>4, <2>5
<1>11. Alone'
  <2>1. \A j \in Ids : /\ Seen'[j] = Absent <=> Seen[j] = Absent
                       /\ Seen[j] # Absent => Seen'[j].key = Seen[j].key
    BY <1>1, <1>3, AsCommitted DEF Seen, Over, Runs
  <2>2. ASSUME NEW j \in Ids, NEW h \in Ids, Seen'[j] # Absent, Seen'[h] # Absent,
               Seen'[j].key = Seen'[h].key, Seen'[j].key # NullKey
        PROVE  j = h
    <3>1. /\ Seen[j] # Absent /\ Seen[h] # Absent
          /\ Seen[j].key = Seen[h].key /\ Seen[j].key # NullKey
      BY <2>1, <2>2
    <3> QED
      BY <3>1 DEF Alone, Keyed, Present
  <2>3. Keyed(Seen')
    BY <2>2 DEF Keyed, Present
  <2> QED
    BY <2>3 DEF Alone, Runs, Keyed, Present
<1> QED
  BY <1>1, <1>6, <1>7, <1>8, <1>10, <1>11

LEMMA DeleteTransaction ==
    ASSUME CommitsTypeOK, Definite, Transaction,
           NEW s \in Statements, s.verb = "delete", Runs(s), Delete(s)
    PROVE  Transaction'
<1> USE DEF Transaction
<1> DEFINE rows == Having(Seen, s.key)
<1>1. /\ touched' = touched \cup rows /\ touched' \subseteq Ids
      /\ \A j \in Ids : work'[j] = IF j \in rows THEN Absent ELSE work[j]
      /\ \A j \in Ids : j \in rows <=> Seen[j] # Absent /\ Seen[j].key = s.key
      /\ Missed'
  BY NamedRows DEF Delete
<1>2. Done' = Done \cup {s} /\ s \in batch /\ s \notin Done
  BY RanToo
<1>3. Stages'
  BY DEF Stages, Runs
<1>4. Ordered'
  BY <1>2 DEF Ordered, Runs, Turn
<1>5. Rewritten'
  <2> SUFFICES ASSUME NEW j \in touched', table[j] # Absent
               PROVE  IF DeletedBy(j)' THEN work'[j] = Absent ELSE ChangedBy(j)'
    BY DEF Rewritten, Runs
  <2>0. j \in Ids
    BY <1>1
  <2>1. DeletedBy(j)' <=> DeletedBy(j) \/ s.key = table[j].key
    BY <1>2 DEF DeletedBy, Runs
  <2>2. CASE j \in rows
    <3>1. Seen[j].key = table[j].key /\ Seen[j].key = s.key
      BY <1>1, <2>0, <2>2, FoundKey
    <3> QED
      BY <1>1, <2>0, <2>1, <2>2, <3>1
  <2>3. CASE j \notin rows
    <3>1. work'[j] = work[j] /\ j \in touched /\ Seen[j] = work[j]
      BY <1>1, <2>0, <2>3, AsCommitted
    <3>2. CASE DeletedBy(j)
      BY <2>1, <3>1, <3>2 DEF Rewritten
    <3>3. CASE ~DeletedBy(j) /\ s.key = table[j].key
      <4>1. Seen[j] = Absent
        BY <1>1, <2>0, <2>3, <3>3, FoundKey
      <4> QED
        BY <2>1, <3>1, <3>3, <4>1
    <3>4. CASE ~DeletedBy(j) /\ s.key # table[j].key
      <4>1. ChangedBy(j)
        BY <3>1, <3>4 DEF Rewritten
      <4> QED
        BY <1>2, <2>1, <3>1, <3>4, <4>1 DEF ChangedBy, Runs, ValueOf
    <3> QED
      BY <3>2, <3>3, <3>4
  <2> QED
    BY <2>2, <2>3
<1>6. \A j \in Ids : Own(j)' => j \in touched /\ Own(j) /\ work'[j] = work[j]
  BY <1>1 DEF Own, Runs
<1>7. Owned'
  <2> USE DEF Owned
  <2>1. \A j \in touched' : Own(j)' => \E t \in Done' : t.verb = "insert" /\ IsOf(work'[j], t)
    BY <1>1, <1>2, <1>6
  <2>2. \A j, h \in touched' : Own(j)' /\ Own(h)' /\ work'[j].from = work'[h].from => j = h
    BY <1>1, <1>6
  <2>3. ASSUME NEW t \in Done', t.verb = "insert"
        PROVE  \/ \E d \in Done' : TakenBack(d, t)
               \/ \E j \in touched' : Own(j)' /\ work'[j].from = t.mark
    <3>1. t \in Done
      BY <1>2, <2>3
    <3>2. CASE \E d \in Done : TakenBack(d, t)
      BY <1>2, <3>2
    <3>3. ASSUME NEW j \in touched, Own(j), work[j].from = t.mark
          PROVE  \/ \E d \in Done' : TakenBack(d, t)
                 \/ Own(j)' /\ j \in touched' /\ work'[j].from = t.mark
      <4>1. j \in Ids /\ j \in touched' /\ Seen[j] = work[j]
        BY <1>1, AsCommitted
      <4>2. CASE j \notin rows
        BY <1>1, <3>3, <4>1, <4>2 DEF Own, Runs
      <4>3. CASE j \in rows
        <5>1. PICK r \in Done : r.verb = "insert" /\ IsOf(work[j], r)
          BY <3>3
        <5>2. r = t
          BY <2>3, <3>1, <3>3, <5>1, ZenonT(60) DEF IsOf, Definite, Clear, Done
        <5>3. work[j].key = s.key
          BY <1>1, <4>1, <4>3
        <5>4. TakenBack(s, t)
          BY <5>1, <5>2, <5>3 DEF IsOf, TakenBack
        <5> QED
          BY <1>2, <5>4
      <4> QED
        BY <4>2, <4>3
    <3>4. CASE \E j \in touched : Own(j) /\ work[j].from = t.mark
      BY <3>3, <3>4
    <3> QED
      BY <2>3, <3>1, <3>2, <3>4
  <2> QED
    BY <2>1, <2>2, <2>3
<1>8. Alone'
  <2>1. \A j \in Ids : Seen'[j] # Absent => Seen'[j] = Seen[j]
    BY <1>1, AsCommitted DEF Seen, Over, Runs
  <2>2. Keyed(Seen')
    BY <2>1 DEF Alone, Keyed, Present
  <2> QED
    BY <2>2 DEF Alone, Runs, Keyed, Present
<1> QED
  BY <1>1, <1>3, <1>4, <1>5, <1>7, <1>8

(***************************************************************************)
(* The steps around the statements: a commit that begins or ends has run   *)
(* none of them, and what others write leaves its own rows alone.          *)
(***************************************************************************)
LEMMA EmptyTransaction ==
    ASSUME CommitsTypeOK', Stages', Keyed(table)', touched' = {}, Done' = {},
           \A i \in steady' : (table[i])' # Absent
    PROVE  Transaction'
<1>1. \A i \in Ids : (Seen[i])' = (table[i])'
  BY DEF CommitsTypeOK, Seen, Over
<1>2. Alone'
  BY <1>1 DEF Alone, Keyed, Present
<1> QED
  BY <1>2 DEF Transaction, Ordered, Rewritten, Owned, Missed

LEMMA OthersTransaction ==
    ASSUME CommitsTypeOK, Transaction,
           NEW i \in Ids, NEW now \in Lines \cup {Absent}, OtherWrites(i, now)
    PROVE  Transaction'
<1> USE DEF Transaction
<1>1. /\ UNCHANGED <<stage, batch, left, touched, work>>
      /\ i \notin touched /\ steady' = steady \ {i}
      /\ \A j \in Ids \ {i} : table'[j] = table[j]
  BY DEF OtherWrites, commit, CommitsTypeOK
<1>2. Done' = Done /\ touched \subseteq Ids
  BY <1>1 DEF Done, CommitsTypeOK
<1>3. \A j \in touched : /\ DeletedBy(j)' <=> DeletedBy(j)
                         /\ ChangedBy(j)' <=> ChangedBy(j)
                         /\ Own(j)' <=> Own(j)
  BY <1>1, <1>2 DEF DeletedBy, ChangedBy, Own, ValueOf
<1>4. Stages' /\ Ordered'
  BY <1>1, <1>2 DEF Stages, Ordered
<1>5. Rewritten'
  BY <1>1, <1>2, <1>3 DEF Rewritten
<1>6. Owned'
  BY <1>1, <1>2, <1>3 DEF Owned
<1>7. Missed'
  BY <1>1, <1>2 DEF Missed, CommitsTypeOK
<1>8. Alone'
  <2>1. Keyed(table') /\ Keyed(Over(table'))
    BY DEF OtherWrites
  <2>2. Seen' = Over(table')
    BY <1>1 DEF Seen, Over
  <2> QED
    BY <2>1, <2>2 DEF Alone, Keyed, Present
<1> QED
  BY <1>4, <1>5, <1>6, <1>7, <1>8

LEMMA TransactionStep ==
    ASSUME CommitsInv, [CommitsNext]_commitsVars
    PROVE  Transaction'
<1> USE DEF CommitsInv, server, tab, commit
<1>0. CommitsTypeOK'
  BY TypeStep
<1>1. CASE UNCHANGED commitsVars
  BY <1>1, CoreStays DEF commitsVars, core
<1>2. ASSUME NEW now, Staging(now)
      PROVE  Transaction'
  BY <1>2, CoreStays DEF Staging, core
<1>3. CASE Load
  BY <1>3, CoreStays DEF Load, core
<1>4. Keyed(table) /\ Keyed(Seen)
  BY DEF Transaction, Alone
<1>5. CASE Save
  <2>1. /\ stage = "idle" /\ pending # {}
        /\ batch = {} /\ touched = {} /\ steady = {}
        /\ UNCHANGED <<table, touched, work>>
    BY <1>5 DEF Save, Transaction, Stages
  <2>2. CASE stage' = "refused" /\ UNCHANGED <<batch, left, steady>>
    <3>1. Stages' /\ Done' = {}
      BY <2>1, <2>2 DEF Stages, Done
    <3>2. Keyed(table)'
      BY <1>4, <2>1 DEF Keyed, Present
    <3> QED
      BY <1>0, <2>1, <2>2, <3>1, <3>2, EmptyTransaction
  <2>3. CASE stage' = "sent" /\ batch' = pending /\ left' = pending /\ steady' = Present(table)
    <3>1. Stages' /\ Done' = {}
      BY <2>1, <2>3 DEF Stages, Done
    <3>2. Keyed(table)'
      BY <1>4, <2>1 DEF Keyed, Present
    <3>3. \A i \in steady' : (table[i])' # Absent
      BY <2>1, <2>3 DEF Present
    <3> QED
      BY <1>0, <2>1, <3>1, <3>2, <3>3, EmptyTransaction
  <2> QED
    BY <1>5, <2>2, <2>3 DEF Save
<1>6. CASE Begin
  <2>1. stage = "sent" /\ stage' = "open" /\ UNCHANGED <<table, steady, batch, left, touched, work>>
    BY <1>6 DEF Begin
  <2>2. Stages'
    BY <2>1 DEF Transaction, Stages
  <2>3. Ordered' /\ Rewritten' /\ Owned' /\ Missed' /\ Alone'
    BY <2>1, SMTT(60) DEF Transaction, Ordered, Rewritten, Owned, Missed, Alone, Done, DeletedBy,
                ChangedBy, Own, Keyed, Seen, Over, Present, ValueOf
  <2> QED
    BY <2>2, <2>3 DEF Transaction
<1>7. ASSUME RolledBack
      PROVE  Transaction'
  <2>1. Stages' /\ Done' = {} /\ touched' = {} /\ steady' = {}
    BY <1>7 DEF RolledBack, Stages, Done
  <2>2. Keyed(table)'
    BY <1>4, <1>7 DEF RolledBack, Keyed, Present
  <2> QED
    BY <1>0, <2>1, <2>2, EmptyTransaction
<1>8. CASE Break
  BY <1>7, <1>8 DEF Break
<1>9. CASE Commit
  <2>1. Stages' /\ Done' = {} /\ touched' = {} /\ steady' = {}
    BY <1>9 DEF Commit, Stages, Done
  <2>2. Keyed(table)'
    BY <1>4, <1>9 DEF Commit, Keyed, Present
  <2> QED
    BY <1>0, <2>1, <2>2, EmptyTransaction
<1>10. CASE Answer
  <2>1. Stages' /\ UNCHANGED <<table, steady, batch, left, touched, work>>
    BY <1>10 DEF Answer, Transaction, Stages
  <2>2. Ordered' /\ Rewritten' /\ Owned' /\ Missed' /\ Alone'
    BY <2>1 DEF Transaction, Ordered, Rewritten, Owned, Missed, Alone, Done, DeletedBy,
                ChangedBy, Own, Keyed, Seen, Over, Present, ValueOf
  <2> QED
    BY <2>1, <2>2 DEF Transaction
<1>11. ASSUME NEW s \in Statements, Execute(s)
       PROVE  Transaction'
  <2>1. Runs(s)
    BY <1>11 DEF Execute, Runs
  <2> QED
    BY <1>11, <2>1, InsertTransaction, UpdateTransaction, DeleteTransaction DEF Execute
<1>12. ASSUME NEW s \in Statements, Refuse(s)
       PROVE  Transaction'
  BY <1>7, <1>12 DEF Refuse
<1>13. ASSUME NEW i \in Ids, NEW now \in Lines \cup {Absent}, OtherWrites(i, now)
       PROVE  Transaction'
  BY <1>13, OthersTransaction
<1>14. ASSUME NEW i \in Ids, NEW v \in Values \cup {Default}, StageEdit(i, v)
       PROVE  Transaction'
  BY <1>2, <1>14 DEF StageEdit
<1>15. ASSUME NEW i \in Ids, StageDelete(i)
       PROVE  Transaction'
  BY <1>2, <1>15 DEF StageDelete
<1>16. ASSUME NEW k \in Keys \cup {Default}, NEW v \in Values \cup {Default}, StageInsert(k, v)
       PROVE  Transaction'
  BY <1>2, <1>16 DEF StageInsert
<1>17. CASE DiscardStaged
  BY <1>2, <1>17 DEF DiscardStaged
<1> QED
  BY <1>1, <1>3, <1>5, <1>6, <1>8, <1>9, <1>10, <1>11, <1>12, <1>13, <1>14, <1>15, <1>16, <1>17
  DEF CommitsNext

(***************************************************************************)
(* The rows of a batch that lands are new to the table, each once, and     *)
(* those it changes stay where they came from.                             *)
(***************************************************************************)
LEMMA CommitOnce ==
    ASSUME CommitsInv, Commit
    PROVE  Once'
<1> USE DEF CommitsInv, Transaction
<1>1. /\ left = {} /\ stage = "open" /\ table' = Seen /\ landed \subseteq landed'
      /\ lost => lost'
      /\ \A s \in batch : s.verb = "insert" => s.mark \in landed'
  BY DEF Commit
<1>2. Done = batch /\ touched \subseteq Ids
  BY <1>1 DEF Done, CommitsTypeOK
<1>3. \A i \in Ids : table'[i] = IF i \in touched THEN work[i] ELSE table[i]
  BY <1>1, AsCommitted
<1>4. ASSUME NEW i \in Ids, table[i] # Absent, table'[i] # Absent
      PROVE  table'[i].from = table[i].from
  <2>1. CASE i \notin touched
    BY <1>3, <2>1
  <2>2. CASE i \in touched
    <3>1. ChangedBy(i)
      BY <1>3, <1>4, <2>2 DEF Rewritten
    <3>2. PICK v : work[i] = [table[i] EXCEPT !.value = v]
      BY <3>1 DEF ChangedBy
    <3>3. table[i] \in Lines
      BY <1>4 DEF CommitsTypeOK
    <3> QED
      BY <1>3, <2>2, <3>2, <3>3 DEF Lines
  <2> QED
    BY <2>1, <2>2
<1>5. ASSUME NEW i \in Ids, table[i] = Absent, table'[i] # Absent
      PROVE  /\ i \in touched /\ Own(i) /\ table'[i] = work[i]
             /\ \E s \in batch : s.verb = "insert" /\ table'[i].from = s.mark
  <2>1. i \in touched /\ Own(i) /\ table'[i] = work[i]
    BY <1>3, <1>5 DEF Own
  <2> QED
    BY <1>2, <2>1 DEF Owned, IsOf
<1>6. ASSUME NEW i \in Ids, table'[i] # Absent, table'[i].from # 0
      PROVE  table'[i].from \in landed'
  <2>1. CASE table[i] # Absent
    BY <1>1, <1>4, <1>6, <2>1 DEF Once, Present
  <2>2. CASE table[i] = Absent
    BY <1>1, <1>5, <1>6, <2>2
  <2> QED
    BY <2>1, <2>2
<1>7. ASSUME ~lost, NEW i \in Ids, NEW j \in Ids, table'[i] # Absent, table'[j] # Absent,
             table'[i].from # 0, table'[i].from = table'[j].from
      PROVE  i = j
  <2>1. \A s \in batch : s.mark \notin landed
    BY <1>1, <1>7 DEF Sent
  <2>2. CASE table[i] # Absent /\ table[j] # Absent
    BY <1>4, <1>7, <2>2 DEF Once, RowsLandOnce, Present
  <2>3. CASE table[i] = Absent /\ table[j] = Absent
    BY <1>5, <1>7, <2>3 DEF Owned
  <2>4. ASSUME NEW old \in {i, j}, NEW new \in {i, j}, table[old] # Absent, table[new] = Absent
        PROVE  FALSE
    <3>1. table'[old].from \in landed
      BY <1>4, <1>7, <2>4 DEF Once, Present
    <3>2. table'[new].from \notin landed
      BY <1>5, <1>7, <2>1, <2>4
    <3> QED
      BY <1>7, <2>4, <3>1, <3>2
  <2> QED
    BY <2>2, <2>3, <2>4
<1> QED
  BY <1>1, <1>6, <1>7 DEF Once, RowsLandOnce, Present

LEMMA OnceStep ==
    ASSUME CommitsInv, [CommitsNext]_commitsVars
    PROVE  Once'
<1> USE DEF CommitsInv, server, tab, commit
<1>0. ASSUME UNCHANGED <<table, landed, lost>>
      PROVE  Once'
  BY <1>0 DEF Once, RowsLandOnce, Present
<1>1. CASE UNCHANGED commitsVars
  BY <1>0, <1>1 DEF commitsVars
<1>2. ASSUME NEW now, Staging(now)
      PROVE  Once'
  BY <1>0, <1>2 DEF Staging
<1>3. CASE Load \/ Save \/ Begin \/ Answer
  BY <1>0, <1>3 DEF Load, Save, Begin, Answer
<1>4. CASE Break
  BY <1>0, <1>4 DEF Break, RolledBack
<1>5. CASE Commit
  BY <1>5, CommitOnce
<1>6. ASSUME NEW s \in Statements, Execute(s) \/ Refuse(s)
      PROVE  Once'
  BY <1>0, <1>6 DEF Execute, Refuse, RolledBack
<1>7. ASSUME NEW i \in Ids, NEW now \in Lines \cup {Absent}, OtherWrites(i, now)
      PROVE  Once'
  <2>1. /\ table' = [table EXCEPT ![i] = now] /\ UNCHANGED <<landed, lost>>
        /\ now # Absent => now.from = (IF table[i] = Absent THEN 0 ELSE table[i].from)
    BY <1>7 DEF OtherWrites
  <2>2. \A j \in Ids : table'[j] # Absent /\ table'[j].from # 0 =>
          table[j] # Absent /\ table'[j].from = table[j].from
    BY <2>1 DEF CommitsTypeOK
  <2> QED
    BY <2>1, <2>2 DEF Once, RowsLandOnce, Present
<1>8. ASSUME NEW i \in Ids, NEW v \in Values \cup {Default}, StageEdit(i, v)
      PROVE  Once'
  BY <1>2, <1>8 DEF StageEdit
<1>9. ASSUME NEW i \in Ids, StageDelete(i)
      PROVE  Once'
  BY <1>2, <1>9 DEF StageDelete
<1>10. ASSUME NEW k \in Keys \cup {Default}, NEW v \in Values \cup {Default}, StageInsert(k, v)
       PROVE  Once'
  BY <1>2, <1>10 DEF StageInsert
<1>11. CASE DiscardStaged
  BY <1>2, <1>11 DEF DiscardStaged
<1> QED
  BY <1>1, <1>3, <1>4, <1>5, <1>6, <1>7, <1>8, <1>9, <1>10, <1>11 DEF CommitsNext

LEMMA NextCommitsInv ==
    CommitsInv /\ [CommitsNext]_commitsVars => CommitsInv'
<1> SUFFICES ASSUME CommitsInv, [CommitsNext]_commitsVars PROVE CommitsInv'
  OBVIOUS
<1>1. CommitsTypeOK'
  BY TypeStep DEF CommitsInv
<1>2. Definite'
  BY DefiniteStep DEF CommitsInv, Transaction
<1>3. Transaction'
  BY TransactionStep
<1>4. Sent' /\ Once'
  BY SentStep, OnceStep
<1> QED
  BY <1>1, <1>2, <1>3, <1>4 DEF CommitsInv

LEMMA CommitsInvHolds == CommitsSpec => []CommitsInv
BY InitCommitsInv, NextCommitsInv, PTL DEF CommitsSpec

-----------------------------------------------------------------------------
(***************************************************************************)
(* Every variable keeps its type, for any rows, keys, values and number of *)
(* commits (apply_changes, save_pending_edits).                            *)
(***************************************************************************)
THEOREM CommitsTypeCorrect == CommitsSpec => []CommitsTypeOK
<1>1. CommitsInv => CommitsTypeOK
  BY DEF CommitsInv
<1> QED
  BY <1>1, CommitsInvHolds, PTL

(***************************************************************************)
(* A row that was staged once is in the table once at most, for any number *)
(* of saves, whatever was refused, broke off or was staged in between,     *)
(* unless the answer to a COMMIT was lost (save_pending_edits,             *)
(* apply_changes).                                                         *)
(***************************************************************************)
THEOREM OnceCorrect == CommitsSpec => []RowsLandOnce
<1>1. CommitsInv => RowsLandOnce
  BY DEF CommitsInv, Once
<1> QED
  BY <1>1, CommitsInvHolds, PTL

(***************************************************************************)
(* With all of a batch run, what the COMMIT makes of the table is what     *)
(* AtomicTable says: each row it had, each it gained, and one to a key.    *)
(***************************************************************************)
LEMMA AfterAll ==
    ASSUME CommitsInv, left = {}, NEW i \in Ids, table[i] # Absent
    PROVE  /\ i \in touched => Seen[i] = Atomic!After(table[i])
           /\ i \in steady \ touched => Atomic!After(table[i]) = table[i]
<1> USE DEF CommitsInv, Transaction
<1> DEFINE D == Atomic!Named("delete", table[i].key)
           U == Atomic!Named("update", table[i].key)
<1>1. Done = batch
  BY DEF Done
<1>2. Atomic!After(table[i]) =
        IF D # {} THEN Absent ELSE IF U = {} THEN table[i]
        ELSE [table[i] EXCEPT !.value = Atomic!Given((CHOOSE s \in U : TRUE).value)]
  BY DEF Atomic!After
<1>3. D = {s \in batch : s.verb = "delete" /\ s.key = table[i].key}
  BY DEF Atomic!Named
<1>4. U = {s \in batch : s.verb = "update" /\ s.key = table[i].key}
  BY DEF Atomic!Named
<1> HIDE DEF D, U
<1>5. ASSUME i \in touched PROVE Seen[i] = Atomic!After(table[i])
  <2>1. Seen[i] = work[i]
    BY <1>5, AsCommitted
  <2>2. CASE D # {}
    <3>1. DeletedBy(i)
      BY <1>1, <1>3, <2>2 DEF DeletedBy
    <3> QED
      BY <1>2, <1>5, <2>1, <2>2, <3>1 DEF Rewritten
  <2>3. CASE D = {}
    <3>1. ~DeletedBy(i)
      BY <1>1, <1>3, <2>3 DEF DeletedBy
    <3>2. PICK u \in batch : /\ u.verb = "update" /\ u.key = table[i].key
                             /\ work[i] = [table[i] EXCEPT !.value = ValueOf(u)]
      BY <1>1, <1>5, <3>1 DEF Rewritten, ChangedBy
    <3>3. U = {u}
      BY <1>4, <3>2 DEF Definite, Clear
    <3>4. (CHOOSE s \in U : TRUE) = u
      BY <3>3
    <3>5. Atomic!Given(u.value) = ValueOf(u)
      BY DEF Atomic!Given, ValueOf
    <3> QED
      BY <1>2, <2>1, <2>3, <3>2, <3>3, <3>4, <3>5
  <2> QED
    BY <2>2, <2>3
<1>6. ASSUME i \in steady, i \notin touched PROVE Atomic!After(table[i]) = table[i]
  <2>1. \A s \in batch : s.verb # "insert" => s.key # table[i].key
    BY <1>1, <1>6 DEF Missed
  <2>2. D = {} /\ U = {}
    BY <1>3, <1>4, <2>1
  <2> QED
    BY <1>2, <2>2
<1> QED
  BY <1>5, <1>6

LEMMA CommitLands ==
    ASSUME ~Nullable, CommitsInv, Commit
    PROVE  Atomic!Lands
<1> USE DEF CommitsInv, Transaction
<1>1. /\ left = {} /\ batch # {} /\ batch' = {} /\ steady' = {} /\ table' = Seen
  BY DEF Commit, Stages
<1>2. Done = batch /\ touched \subseteq Ids
  BY <1>1 DEF Done, CommitsTypeOK
<1>3. \A i \in Ids : table'[i] = IF i \in touched THEN work[i] ELSE table[i]
  BY <1>1, AsCommitted
<1>4. ASSUME NEW i \in Ids, table[i] # Absent
      PROVE  Atomic!Stored(i, table'[i])
  <2>1. i \in touched => table'[i] = Atomic!After(table[i])
    BY <1>1, <1>4, AfterAll
  <2>2. i \in steady \ touched => table'[i] = Atomic!After(table[i])
    BY <1>1, <1>3, <1>4, AfterAll
  <2>3. i \notin touched => table'[i] = table[i]
    BY <1>3
  <2> QED
    BY <2>1, <2>2, <2>3 DEF Atomic!Stored
<1>5. \A i \in Ids : table[i] = Absent /\ table'[i] # Absent =>
        Own(i) /\ i \in touched /\ table'[i] = work[i]
  BY <1>3 DEF Own
<1>6. ASSUME NEW i \in Ids, table[i] = Absent
      PROVE  Atomic!Free(table'[i])
  BY <1>2, <1>5, <1>6 DEF Atomic!Free, Owned, IsOf
<1>7. ASSUME NEW s \in batch, s.verb = "insert"
      PROVE  Atomic!Inserted(s)
  <2>1. CASE \E d \in batch : TakenBack(d, s)
    BY <2>1 DEF Atomic!Inserted, TakenBack
  <2>2. CASE ~\E d \in batch : TakenBack(d, s)
    <3>1. PICK i \in touched : Own(i) /\ work[i].from = s.mark
      BY <1>2, <1>7, <2>2 DEF Owned
    <3>2. i \in Ids /\ table[i] = Absent /\ table'[i] # Absent /\ table'[i].from = s.mark
      BY <1>2, <1>3, <3>1 DEF Own
    <3>3. ASSUME NEW j \in Ids, table[j] = Absent, table'[j] # Absent, table'[j].from = s.mark
          PROVE  j = i
      <4>1. Own(j) /\ j \in touched /\ work[j].from = s.mark
        BY <1>5, <3>3
      <4> QED
        BY <3>1, <4>1 DEF Owned
    <3> QED
      BY <3>2, <3>3 DEF Atomic!Inserted
  <2> QED
    BY <2>1, <2>2
<1>8. Atomic!OnePerKey
  <2>1. \A i \in Ids : table[i] # Absent => table[i].key # NullKey
    BY DEF CommitsTypeOK, Lines, AllKeys
  <2> QED
    BY <2>1 DEF Atomic!OnePerKey, Alone, Keyed, Present
<1>9. \A i \in Ids : IF table[i] # Absent THEN Atomic!Stored(i, table'[i])
                     ELSE Atomic!Free(table'[i])
  BY <1>4, <1>6
<1> QED
  BY <1>1, <1>7, <1>8, <1>9 DEF Atomic!Lands

(***************************************************************************)
(* Where keys are not NULL, a commit is what AtomicTable says it is: every *)
(* step of apply_changes and of the clients beside it maps to a step of    *)
(* the abstract table or leaves it alone.                                  *)
(***************************************************************************)
THEOREM CommitsCorrect ==
    ASSUME ~Nullable
    PROVE  CommitsSpec => CommitsAreWhole
<1>1. CommitsInit => Atomic!Init
  BY DEF CommitsInit, Atomic!Init
<1>2. ASSUME CommitsInv, [CommitsNext]_commitsVars
      PROVE  [Atomic!Next]_(Atomic!vars)
  <2> USE DEF server, tab, commit
  <2> DEFINE Stutter == UNCHANGED <<table, batch, steady>>
  <2>1. Stutter => [Atomic!Next]_(Atomic!vars)
    BY DEF Atomic!vars
  <2>2. CASE UNCHANGED commitsVars
    BY <2>1, <2>2 DEF commitsVars
  <2>3. ASSUME NEW now, Staging(now)
        PROVE  Stutter
    BY <2>3 DEF Staging
  <2>4. CASE Load \/ Begin \/ Answer
    BY <2>1, <2>4 DEF Load, Begin, Answer
  <2>5. CASE Save
    <3>1. stage = "idle" /\ batch = {} /\ pending \subseteq Statements /\ pending # {}
      BY <1>2, <2>5 DEF Save, CommitsInv, Transaction, Stages, CommitsTypeOK
    <3>2. CASE UNCHANGED <<batch, left, steady>>
      BY <2>1, <2>5, <3>2 DEF Save
    <3>3. CASE batch' = pending /\ steady' = Present(table)
      BY <2>5, <3>1, <3>3 DEF Save, Present, Atomic!Next, Atomic!Send
    <3> QED
      BY <2>5, <3>2, <3>3 DEF Save
  <2>6. ASSUME RolledBack, stage \in {"sent", "open"}
        PROVE  Atomic!Next
    BY <1>2, <2>6 DEF RolledBack, CommitsInv, Transaction, Stages, Atomic!Next, Atomic!GivesUp
  <2>7. CASE Break
    BY <2>6, <2>7 DEF Break
  <2>8. CASE Commit
    BY <1>2, <2>8, CommitLands DEF Atomic!Next
  <2>9. ASSUME NEW s \in Statements, Execute(s)
        PROVE  Stutter
    BY <2>9 DEF Execute
  <2>10. ASSUME NEW s \in Statements, Refuse(s)
         PROVE  Atomic!Next
    BY <2>6, <2>10 DEF Refuse
  <2>11. ASSUME NEW i \in Ids, NEW now \in Lines \cup {Absent}, OtherWrites(i, now)
         PROVE  Atomic!Next
    BY <2>11 DEF OtherWrites, Atomic!Next, Atomic!Other
  <2>12. ASSUME NEW i \in Ids, NEW v \in Values \cup {Default}, StageEdit(i, v)
         PROVE  Stutter
    BY <2>3, <2>12 DEF StageEdit
  <2>13. ASSUME NEW i \in Ids, StageDelete(i)
         PROVE  Stutter
    BY <2>3, <2>13 DEF StageDelete
  <2>14. ASSUME NEW k \in Keys \cup {Default}, NEW v \in Values \cup {Default}, StageInsert(k, v)
         PROVE  Stutter
    BY <2>3, <2>14 DEF StageInsert
  <2>15. CASE DiscardStaged
    BY <2>1, <2>3, <2>15 DEF DiscardStaged
  <2> HIDE DEF Stutter
  <2> QED
    BY <1>2, <2>1, <2>2, <2>4, <2>5, <2>7, <2>8, <2>9, <2>10, <2>11, <2>12, <2>13, <2>14, <2>15
    DEF CommitsNext
<1> QED
  BY <1>1, <1>2, CommitsInvHolds, PTL DEF CommitsSpec, CommitsAreWhole, Atomic!Spec

-----------------------------------------------------------------------------
(* What is left of a sequence *)

\* What holds at the first place and from each to the next holds of all.
LEMMA Ascent ==
    ASSUME NEW n \in Nat, NEW Good, 0 \in Good, \A k \in 0..n - 1 : k \in Good => k + 1 \in Good
    PROVE  \A k \in 0..n : k \in Good
<1> DEFINE Others == {k \in 0..n : k \notin Good}
<1>1. SUFFICES ASSUME Others # {} PROVE FALSE
  OBVIOUS
<1>2. PICK m \in Others : \A k \in Others : ~ (k < m)
  <2>1. Others \in SUBSET Nat
    OBVIOUS
  <2> HIDE DEF Others
  <2>2. PICK m \in Others : \A k \in Others : m <= k
    BY <1>1, <2>1, FirstOf
  <2>3. \A k \in Others : ~ (k < m)
    BY <2>1, <2>2
  <2> QED
    BY <2>3
<1>3. m \in 0..n /\ m # 0
  OBVIOUS
<1>4. m - 1 \in 0..n - 1 /\ m - 1 \notin Others /\ m - 1 + 1 = m
  <2>1. m - 1 \in 0..n - 1 /\ m - 1 + 1 = m /\ m - 1 < m
    BY <1>3
  <2> QED
    BY <2>1, <1>2
<1>5. m - 1 \in Good
  BY <1>4
<1> QED
  BY <1>4, <1>5

\* The parts left of the first k, for each k.
Filters(f, s, K) ==
    /\ f[0] = <<>>
    /\ \A k \in 1..Len(s) :
         f[k] = IF s[k] \in K THEN f[k - 1] ELSE Append(f[k - 1], s[k])

LEMMA OneFilter ==
    ASSUME NEW S, NEW s \in Seq(S), NEW K, NEW f, NEW g, Filters(f, s, K), Filters(g, s, K)
    PROVE  \A k \in 0..Len(s) : f[k] = g[k]
<1> DEFINE Good == {k \in 0..Len(s) : f[k] = g[k]}
<1>1. Len(s) \in Nat
  OBVIOUS
<1>2. 0 \in Good
  BY <1>1 DEF Filters
<1>3. ASSUME NEW k \in 0..Len(s) - 1, k \in Good
      PROVE  k + 1 \in Good
  <2>1. k + 1 \in 1..Len(s) /\ k + 1 - 1 = k /\ k + 1 \in 0..Len(s)
    BY <1>1
  <2>2. /\ f[k + 1] = IF s[k + 1] \in K THEN f[k] ELSE Append(f[k], s[k + 1])
        /\ g[k + 1] = IF s[k + 1] \in K THEN g[k] ELSE Append(g[k], s[k + 1])
    BY <2>1 DEF Filters
  <2>3. f[k] = g[k]
    BY <1>3
  <2> QED
    BY <2>1, <2>2, <2>3
<1> HIDE DEF Good
<1>4. \A k \in 0..Len(s) : k \in Good
  BY <1>1, <1>2, <1>3, Ascent
<1> QED
  BY <1>4 DEF Good

LEMMA SomeFilter ==
    ASSUME NEW S, NEW s \in Seq(S), NEW K
    PROVE  \E f \in [0..Len(s) -> Seq(S)] : Filters(f, s, K)
<1> DEFINE n == Len(s)
           Upto(f, m) == /\ f[0] = <<>>
                         /\ \A k \in 1..m : f[k] = IF s[k] \in K THEN f[k - 1] ELSE Append(f[k - 1], s[k])
           Good == {m \in 0..n : \E f \in [0..m -> Seq(S)] : Upto(f, m)}
<1>1. n \in Nat /\ \A k \in 1..n : s[k] \in S
  OBVIOUS
<1>2. 0 \in Good
  <2> DEFINE f == [k \in 0..0 |-> <<>>]
  <2>1. f \in [0..0 -> Seq(S)] /\ f[0] = <<>>
    OBVIOUS
  <2>2. Upto(f, 0)
    BY <2>1
  <2>3. 0 \in 0..n
    BY <1>1
  <2> HIDE DEF f, Upto, n
  <2>4. \E h \in [0..0 -> Seq(S)] : Upto(h, 0)
    BY <2>1, <2>2
  <2> QED
    BY <2>3, <2>4
<1>3. ASSUME NEW m \in 0..n - 1, m \in Good
      PROVE  m + 1 \in Good
  <2>1. PICK f \in [0..m -> Seq(S)] : Upto(f, m)
    BY <1>3
  <2>2. m + 1 \in 1..n /\ m \in 0..m /\ m + 1 \in 0..n
    BY <1>1
  <2> DEFINE next == IF s[m + 1] \in K THEN f[m] ELSE Append(f[m], s[m + 1])
             g == [k \in 0..m + 1 |-> IF k = m + 1 THEN next ELSE f[k]]
  <2>3. next \in Seq(S)
    <3>1. f[m] \in Seq(S) /\ s[m + 1] \in S
      BY <2>1, <2>2, <1>1
    <3> QED
      BY <3>1
  <2> HIDE DEF next
  <2>4. g \in [0..m + 1 -> Seq(S)]
    <3>1. \A k \in 0..m + 1 : k = m + 1 \/ k \in 0..m
      BY <2>2, <1>1
    <3> QED
      BY <3>1, <2>1, <2>3
  <2>5. (\A k \in 0..m : g[k] = f[k]) /\ g[m + 1] = next
    BY <2>2, <1>1
  <2> HIDE DEF g, n
  <2>6. ASSUME NEW k \in 1..m + 1
        PROVE  g[k] = IF s[k] \in K THEN g[k - 1] ELSE Append(g[k - 1], s[k])
    <3>1. k - 1 \in 0..m /\ g[k - 1] = f[k - 1]
      BY <1>1, <2>2, <2>5
    <3>2. CASE k = m + 1
      <4>1. k - 1 = m
        BY <1>1, <3>2
      <4>2. g[k] = IF s[k] \in K THEN f[m] ELSE Append(f[m], s[k])
        BY <2>5, <3>2 DEF next
      <4> QED
        BY <3>1, <4>1, <4>2
    <3>3. CASE k # m + 1
      <4>1. k \in 1..m /\ k \in 0..m
        BY <1>1, <3>3
      <4> QED
        BY <2>1, <2>5, <3>1, <4>1
    <3> QED
      BY <3>2, <3>3
  <2>7. g[0] = <<>>
    BY <2>1, <2>5, <1>1
  <2> QED
    BY <2>2, <2>4, <2>6, <2>7
<1>4. \A m \in 0..n : m \in Good
  <2> HIDE DEF Good, n
  <2> QED
    BY <1>1, <1>2, <1>3, Ascent
<1>5. \E f \in [0..n -> Seq(S)] : Upto(f, n)
  <2>1. n \in 0..n
    BY <1>1
  <2> QED
    BY <2>1, <1>4
<1> QED
  BY <1>5 DEF Filters

LEMMA LeftOfIs ==
    ASSUME NEW S, NEW s \in Seq(S), NEW K, NEW f, Filters(f, s, K)
    PROVE  LeftOf(s, K) = f[Len(s)]
<1> DEFINE n == Len(s)
           At(g, k) == IF k = 0 THEN <<>>
                       ELSE IF s[k] \in K THEN g[k - 1] ELSE Append(g[k - 1], s[k])
           Fills(g) == g = [k \in 0..n |-> At(g, k)]
           kept == CHOOSE g : Fills(g)
<1>1. LeftOf(s, K) = kept[n]
  BY DEF LeftOf
<1>2. n \in Nat
  OBVIOUS
<1>3. PICK g \in [0..n -> Seq(S)] : Filters(g, s, K)
  BY SomeFilter
<1>4. Fills(g)
  <2>1. ASSUME NEW k \in 0..n PROVE g[k] = At(g, k)
    <3>1. k = 0 \/ (k # 0 /\ k \in 1..n)
      BY <1>2
    <3> QED
      BY <3>1, <1>3 DEF Filters
  <2> HIDE DEF At
  <2> QED
    BY <2>1
<1>5. Fills(kept)
  <2> HIDE DEF Fills
  <2> QED
    BY <1>4
<1>6. \A k \in 0..n : kept[k] = At(kept, k)
  <2> HIDE DEF kept, At
  <2> QED
    BY <1>5
<1> HIDE DEF kept, Fills
<1>7. Filters(kept, s, K)
  <2>1. 0 \in 0..n /\ \A k \in 1..n : k \in 0..n /\ k # 0
    BY <1>2
  <2>2. kept[0] = <<>>
    BY <2>1, <1>6
  <2>3. \A k \in 1..n : kept[k] = IF s[k] \in K THEN kept[k - 1] ELSE Append(kept[k - 1], s[k])
    BY <2>1, <1>6
  <2> QED
    BY <2>2, <2>3 DEF Filters
<1>8. n \in 0..n
  BY <1>2
<1>9. \A k \in 0..n : kept[k] = f[k]
  BY <1>7, OneFilter
<1> QED
  BY <1>1, <1>8, <1>9

LEMMA LeftOfNothing ==
    ASSUME NEW K
    PROVE  LeftOf(<<>>, K) = <<>>
<1> DEFINE e == [k \in 0..0 |-> <<>>]
<1>1. <<>> \in Seq({}) /\ Len(<<>>) = 0 /\ e[0] = <<>>
  OBVIOUS
<1>2. Filters(e, <<>>, K)
  BY <1>1 DEF Filters
<1> HIDE DEF e
<1> QED
  BY <1>1, <1>2, LeftOfIs

\* One part more.
LEMMA LeftOfMore ==
    ASSUME NEW S, NEW s \in Seq(S), NEW p \in S, NEW K
    PROVE  /\ LeftOf(s, K) \in Seq(S)
           /\ LeftOf(Append(s, p), K) =
                IF p \in K THEN LeftOf(s, K) ELSE Append(LeftOf(s, K), p)
<1> DEFINE n == Len(s)
           t == Append(s, p)
<1>1. n \in Nat /\ t \in Seq(S) /\ Len(t) = n + 1 /\ t[n + 1] = p /\ \A k \in 1..n : t[k] = s[k]
  OBVIOUS
<1>2. PICK f \in [0..n -> Seq(S)] : Filters(f, s, K)
  BY SomeFilter
<1>3. PICK g \in [0..n + 1 -> Seq(S)] : Filters(g, t, K)
  BY <1>1, SomeFilter
<1>4. LeftOf(s, K) = f[n] /\ LeftOf(t, K) = g[n + 1]
  BY <1>1, <1>2, <1>3, LeftOfIs
<1>5. g[n] = f[n]
  <2>1. Filters(g, s, K)
    <3>1. \A k \in 1..n : k \in 1..n + 1 /\ t[k] = s[k]
      BY <1>1
    <3> QED
      BY <3>1, <1>1, <1>3 DEF Filters
  <2>2. n \in 0..n
    BY <1>1
  <2> QED
    BY <2>1, <2>2, <1>2, OneFilter
<1>6. g[n + 1] = IF p \in K THEN g[n] ELSE Append(g[n], p)
  <2>1. n \in Nat /\ n + 1 \in 1..Len(t) /\ n + 1 - 1 = n /\ t[n + 1] = p
    BY <1>1
  <2> DEFINE Ahead(k) == IF t[k] \in K THEN g[k - 1] ELSE Append(g[k - 1], t[k])
  <2>2. \A k \in 1..Len(t) : g[k] = Ahead(k)
    BY <1>3 DEF Filters
  <2> HIDE DEF t, n, Ahead
  <2>3. g[n + 1] = Ahead(n + 1)
    BY <2>1, <2>2
  <2> QED
    BY <2>1, <2>3 DEF Ahead
<1>7. f[n] \in Seq(S)
  BY <1>1, <1>2
<1> QED
  BY <1>4, <1>5, <1>6, <1>7

\* What holds of no parts, and of one more than any it holds of, holds of all.
LEMMA Grown ==
    ASSUME NEW S, NEW s \in Seq(S), NEW Good, <<>> \in Good,
           \A t \in Seq(S), p \in S : t \in Good => Append(t, p) \in Good
    PROVE  s \in Good
<1> DEFINE Fore(k) == SubSeq(s, 1, k)
           Upto == {k \in 0..Len(s) : Fore(k) \in Good}
<1>1. Len(s) \in Nat
  OBVIOUS
<1>2. 0 \in Upto
  <2>1. Fore(0) = <<>>
    BY SubSeqEmpty
  <2>2. 0 \in 0..Len(s)
    BY <1>1
  <2> HIDE DEF Fore
  <2> QED
    BY <2>1, <2>2
<1>3. ASSUME NEW k \in 0..Len(s) - 1, k \in Upto
      PROVE  k + 1 \in Upto
  <2> DEFINE t == SubSeq(s, 1, k)
             u == SubSeq(s, 1, k + 1)
  <2>1. k \in Nat /\ k + 1 \in 1..Len(s) /\ k + 1 \in 0..Len(s) /\ s[k + 1] \in S
    BY <1>1
  <2>2. t \in Seq(S) /\ Len(t) = k /\ \A i \in 1..k : t[i] = s[i]
    BY <2>1
  <2>3. u \in Seq(S) /\ Len(u) = k + 1 /\ \A i \in 1..k + 1 : u[i] = s[i]
    BY <2>1
  <2>4. t \in Good
    BY <1>3
  <2> HIDE DEF t, u
  <2> DEFINE v == Append(t, s[k + 1])
  <2>5. /\ v \in Seq(S) /\ Len(v) = k + 1 /\ (\A i \in 1..k : v[i] = t[i])
        /\ v[k + 1] = s[k + 1]
    BY <2>1, <2>2, AppendProperties
  <2>6. \A i \in 1..k + 1 : i \in 1..k \/ i = k + 1
    BY <2>1
  <2>7. v \in Good
    BY <2>1, <2>2, <2>4
  <2> HIDE DEF v
  <2>8. \A i \in 1..k + 1 : u[i] = v[i]
    BY <2>2, <2>3, <2>5, <2>6
  <2>9. u = v
    BY <2>3, <2>5, <2>8, SeqEqual
  <2> QED
    BY <2>1, <2>7, <2>9 DEF u
<1> HIDE DEF Upto
<1>4. \A k \in 0..Len(s) : k \in Upto
  BY <1>1, <1>2, <1>3, Ascent
<1>5. Len(s) \in 0..Len(s)
  BY <1>1
<1>6. SubSeq(s, 1, Len(s)) \in Good
  BY <1>4, <1>5 DEF Upto
<1> QED
  BY <1>6, SubSeqFull

LEMMA LeftOfIn ==
    ASSUME NEW S, NEW s \in Seq(S), NEW K
    PROVE  LeftOf(s, K) \in Seq(S)
<1>1. PICK f \in [0..Len(s) -> Seq(S)] : Filters(f, s, K)
  BY SomeFilter
<1>2. Len(s) \in 0..Len(s)
  OBVIOUS
<1>3. f[Len(s)] \in Seq(S)
  BY <1>1, <1>2
<1> QED
  BY <1>1, <1>3, LeftOfIs

\* LeftOf some and then without others.
LEMMA LeftOfTwice ==
    ASSUME NEW S, NEW s \in Seq(S), NEW K, NEW G
    PROVE  LeftOf(LeftOf(s, K), G) = LeftOf(s, K \cup G)
<1> DEFINE Good == {t \in Seq(S) : LeftOf(LeftOf(t, K), G) = LeftOf(t, K \cup G)}
<1>1. <<>> \in Good
  <2>1. <<>> \in Seq(S)
    OBVIOUS
  <2>2. \A L : LeftOf(<<>>, L) = <<>>
    BY LeftOfNothing
  <2> QED
    BY <2>1, <2>2
<1>2. ASSUME NEW t \in Seq(S), NEW p \in S, t \in Good
      PROVE  Append(t, p) \in Good
  <2> DEFINE a == LeftOf(t, K)
             u == Append(t, p)
  <2>1. a \in Seq(S) /\ u \in Seq(S)
    BY LeftOfMore
  <2>2. LeftOf(u, K) = IF p \in K THEN a ELSE Append(a, p)
    BY LeftOfMore
  <2>3. LeftOf(u, K \cup G) = IF p \in K \cup G THEN LeftOf(t, K \cup G) ELSE Append(LeftOf(t, K \cup G), p)
    BY LeftOfMore
  <2>4. LeftOf(a, G) = LeftOf(t, K \cup G)
    BY <1>2
  <2> HIDE DEF a, u
  <2>5. LeftOf(Append(a, p), G) = IF p \in G THEN LeftOf(a, G) ELSE Append(LeftOf(a, G), p)
    BY <2>1, LeftOfMore
  <2>6. CASE p \in K
    BY <2>1, <2>2, <2>3, <2>4, <2>6 DEF u
  <2>7. CASE p \notin K
    BY <2>1, <2>2, <2>3, <2>4, <2>5, <2>7 DEF u
  <2> QED
    BY <2>6, <2>7
<1> HIDE DEF Good
<1>3. s \in Good
  BY <1>1, <1>2, Grown
<1> QED
  BY <1>3 DEF Good

\* LeftOf what is not there.
LEMMA LeftOfNone ==
    ASSUME NEW S, NEW s \in Seq(S), NEW K, \A i \in 1..Len(s) : s[i] \notin K
    PROVE  LeftOf(s, K) = s
<1> DEFINE Free(t) == \A i \in 1..Len(t) : t[i] \notin K
           Good == {t \in Seq(S) : Free(t) => LeftOf(t, K) = t}
<1>1. <<>> \in Good
  <2>1. <<>> \in Seq(S)
    OBVIOUS
  <2>2. LeftOf(<<>>, K) = <<>>
    BY LeftOfNothing
  <2> QED
    BY <2>1, <2>2
<1>2. ASSUME NEW t \in Seq(S), NEW p \in S, t \in Good
      PROVE  Append(t, p) \in Good
  <2> DEFINE u == Append(t, p)
  <2>1. u \in Seq(S) /\ Len(t) \in Nat /\ Len(u) = Len(t) + 1 /\ u[Len(t) + 1] = p
        /\ \A i \in 1..Len(t) : u[i] = t[i]
    OBVIOUS
  <2>2. LeftOf(u, K) = IF p \in K THEN LeftOf(t, K) ELSE Append(LeftOf(t, K), p)
    BY LeftOfMore
  <2>3. ASSUME Free(u) PROVE LeftOf(u, K) = u
    <3>1. \A i \in 1..Len(t) : i \in 1..Len(u)
      BY <2>1
    <3>2. Len(t) + 1 \in 1..Len(u)
      BY <2>1
    <3> HIDE DEF u
    <3>3. Free(t) /\ p \notin K
      BY <3>1, <3>2, <2>1, <2>3
    <3>4. LeftOf(t, K) = t
      BY <3>3, <1>2
    <3> QED
      BY <3>3, <3>4, <2>2 DEF u
  <2> HIDE DEF Free, u
  <2>4. u \in Good
    BY <2>1, <2>3
  <2> QED
    BY <2>4 DEF u
<1>3. s \in Good
  <2> HIDE DEF Good
  <2> QED
    BY <1>1, <1>2, Grown
<1> QED
  BY <1>3

LEMMA AfterMore ==
    ASSUME NEW S, NEW u \in Seq(S), NEW v \in Seq(S), NEW p \in S
    PROVE  u \o Append(v, p) = Append(u \o v, p)
<1>1. <<p>> \in Seq(S) /\ u \o v \in Seq(S)
  OBVIOUS
<1>2. Append(v, p) = v \o <<p>>
  BY AppendIsConcat
<1>3. Append(u \o v, p) = (u \o v) \o <<p>>
  BY <1>1, AppendIsConcat
<1>4. (u \o v) \o <<p>> = u \o (v \o <<p>>)
  BY <1>1, ConcatAssociative
<1> QED
  BY <1>2, <1>3, <1>4

\* What is left of one after another.
LEMMA LeftOfBoth ==
    ASSUME NEW S, NEW u \in Seq(S), NEW s \in Seq(S), NEW K
    PROVE  LeftOf(u \o s, K) = LeftOf(u, K) \o LeftOf(s, K)
<1> DEFINE a == LeftOf(u, K)
           Good == {t \in Seq(S) : LeftOf(u \o t, K) = a \o LeftOf(t, K)}
<1>1. a \in Seq(S)
  BY LeftOfIn
<1> HIDE DEF a
<1>2. <<>> \in Good
  <2>1. <<>> \in Seq(S) /\ u \o <<>> = u /\ a \o <<>> = a
    BY <1>1, ConcatEmptySeq
  <2>2. LeftOf(<<>>, K) = <<>>
    BY LeftOfNothing
  <2> QED
    BY <2>1, <2>2 DEF a
<1>3. ASSUME NEW t \in Seq(S), NEW p \in S, t \in Good
      PROVE  Append(t, p) \in Good
  <2> DEFINE b == LeftOf(t, K)
             c == u \o t
  <2>1. b \in Seq(S) /\ c \in Seq(S) /\ Append(t, p) \in Seq(S)
    BY LeftOfMore
  <2>2. LeftOf(Append(t, p), K) = IF p \in K THEN b ELSE Append(b, p)
    BY LeftOfMore
  <2>3. LeftOf(c, K) = a \o b
    BY <1>3
  <2>4. u \o Append(t, p) = Append(c, p)
    BY AfterMore
  <2> HIDE DEF b, c
  <2>5. LeftOf(Append(c, p), K) = IF p \in K THEN LeftOf(c, K) ELSE Append(LeftOf(c, K), p)
    BY <2>1, LeftOfMore
  <2>6. a \o Append(b, p) = Append(a \o b, p)
    BY <1>1, <2>1, AfterMore
  <2>7. LeftOf(u \o Append(t, p), K) = a \o LeftOf(Append(t, p), K)
    BY <2>2, <2>3, <2>4, <2>5, <2>6
  <2> QED
    BY <2>1, <2>7
<1> HIDE DEF Good
<1>4. s \in Good
  BY <1>2, <1>3, Grown
<1> QED
  BY <1>4 DEF Good, a

Occurs(x, s) == \E i \in 1..Len(s) : s[i] = x

LEMMA OccursMore ==
    ASSUME NEW S, NEW s \in Seq(S), NEW p \in S, NEW x
    PROVE  Occurs(x, Append(s, p)) <=> Occurs(x, s) \/ x = p
<1> DEFINE t == Append(s, p)
<1>1. Len(s) \in Nat /\ Len(t) = Len(s) + 1 /\ t[Len(s) + 1] = p /\ \A i \in 1..Len(s) : t[i] = s[i]
  OBVIOUS
<1> HIDE DEF t
<1>2. \A i \in 1..Len(t) : i \in 1..Len(s) \/ i = Len(s) + 1
  BY <1>1
<1>3. (\A i \in 1..Len(s) : i \in 1..Len(t)) /\ Len(s) + 1 \in 1..Len(t)
  BY <1>1
<1>4. Occurs(x, t) => Occurs(x, s) \/ x = p
  BY <1>1, <1>2 DEF Occurs
<1>5. Occurs(x, s) => Occurs(x, t)
  BY <1>1, <1>3 DEF Occurs
<1>6. x = p => Occurs(x, t)
  BY <1>1, <1>3 DEF Occurs
<1> QED
  BY <1>4, <1>5, <1>6 DEF t

\* What is left is what was there and is not left out.
LEMMA LeftOfMembers ==
    ASSUME NEW S, NEW s \in Seq(S), NEW K
    PROVE  \A x : Occurs(x, LeftOf(s, K)) <=> Occurs(x, s) /\ x \notin K
<1> DEFINE Same(t) == \A x : Occurs(x, LeftOf(t, K)) <=> Occurs(x, t) /\ x \notin K
           Good == {t \in Seq(S) : Same(t)}
<1>1. <<>> \in Good
  <2>1. <<>> \in Seq(S) /\ \A x : ~ Occurs(x, <<>>)
    BY DEF Occurs
  <2>2. LeftOf(<<>>, K) = <<>>
    BY LeftOfNothing
  <2> QED
    BY <2>1, <2>2
<1>2. ASSUME NEW t \in Seq(S), NEW p \in S, t \in Good
      PROVE  Append(t, p) \in Good
  <2> DEFINE u == Append(t, p)
             w == LeftOf(t, K)
  <2>1. u \in Seq(S) /\ w \in Seq(S)
    BY LeftOfMore
  <2>2. LeftOf(u, K) = IF p \in K THEN w ELSE Append(w, p)
    BY LeftOfMore
  <2>3. \A x : Occurs(x, w) <=> Occurs(x, t) /\ x \notin K
    BY <1>2
  <2>4. \A x : Occurs(x, u) <=> Occurs(x, t) \/ x = p
    BY OccursMore
  <2> HIDE DEF w
  <2>5. \A x : Occurs(x, Append(w, p)) <=> Occurs(x, w) \/ x = p
    BY <2>1, OccursMore
  <2> HIDE DEF u
  <2>6. Same(u)
    BY <2>2, <2>3, <2>4, <2>5
  <2> HIDE DEF Same
  <2> QED
    BY <2>1, <2>6 DEF u
<1>3. s \in Good
  <2> HIDE DEF Good
  <2> QED
    BY <1>1, <1>2, Grown
<1> QED
  BY <1>3

\* What is left is in the order it was in.
LEMMA LeftOfInOrder ==
    ASSUME NEW S, NEW s \in Seq(S), NEW K
    PROVE  \A i, j \in 1..Len(LeftOf(s, K)) : i < j =>
             \E a, b \in 1..Len(s) : a < b /\ LeftOf(s, K)[i] = s[a] /\ LeftOf(s, K)[j] = s[b]
<1> DEFINE Two(x, y, t) == \E a, b \in 1..Len(t) : a < b /\ x = t[a] /\ y = t[b]
           InOrder(v, t) == \A i, j \in 1..Len(v) : i < j => Two(v[i], v[j], t)
           Good == {t \in Seq(S) : InOrder(LeftOf(t, K), t)}
<1>1. <<>> \in Good
  <2>1. <<>> \in Seq(S)
    OBVIOUS
  <2>2. LeftOf(<<>>, K) = <<>>
    BY LeftOfNothing
  <2> QED
    BY <2>1, <2>2
<1>2. ASSUME NEW t \in Seq(S), NEW p \in S, t \in Good
      PROVE  Append(t, p) \in Good
  <2> DEFINE u == Append(t, p)
             w == LeftOf(t, K)
             z == Append(w, p)
  <2>1. /\ u \in Seq(S) /\ Len(t) \in Nat /\ Len(u) = Len(t) + 1 /\ u[Len(t) + 1] = p
        /\ \A i \in 1..Len(t) : u[i] = t[i]
    OBVIOUS
  <2>2. w \in Seq(S) /\ \A x : Occurs(x, w) => Occurs(x, t)
    BY LeftOfMore, LeftOfMembers
  <2>3. LeftOf(u, K) = IF p \in K THEN w ELSE z
    BY LeftOfMore
  <2>4. InOrder(w, t)
    BY <1>2
  <2> HIDE DEF w, u
  <2>5. Len(w) \in Nat /\ Len(z) = Len(w) + 1 /\ z[Len(w) + 1] = p /\ \A i \in 1..Len(w) : z[i] = w[i]
    BY <2>2
  <2> HIDE DEF z
  <2>6. \A i \in 1..Len(t) : i \in 1..Len(u) /\ i < Len(t) + 1 /\ u[i] = t[i]
    BY <2>1
  <2>7. Len(t) + 1 \in 1..Len(u) /\ u[Len(t) + 1] = p
    BY <2>1
  <2>8. \A x, y : Two(x, y, t) => Two(x, y, u)
    BY <2>6
  <2>9. \A x : Occurs(x, t) => Two(x, p, u)
    BY <2>6, <2>7 DEF Occurs
  <2> HIDE DEF Two
  <2>10. InOrder(w, u)
    BY <2>4, <2>8
  <2>11. InOrder(z, u)
    <3> SUFFICES ASSUME NEW i \in 1..Len(z), NEW j \in 1..Len(z), i < j
                 PROVE  Two(z[i], z[j], u)
      OBVIOUS
    <3>1. i \in 1..Len(w) /\ (j \in 1..Len(w) \/ j = Len(w) + 1) /\ z[i] = w[i]
      BY <2>5
    <3>2. CASE j \in 1..Len(w)
      <4>1. Two(w[i], w[j], u)
        BY <3>1, <3>2, <2>10
      <4> QED
        BY <4>1, <3>1, <3>2, <2>5
    <3>3. CASE j = Len(w) + 1
      <4>1. Occurs(w[i], t)
        BY <3>1, <2>2 DEF Occurs
      <4> QED
        BY <4>1, <3>1, <3>3, <2>5, <2>9
    <3> QED
      BY <3>1, <3>2, <3>3
  <2>12. InOrder(LeftOf(u, K), u)
    BY <2>3, <2>10, <2>11
  <2> HIDE DEF InOrder
  <2> QED
    BY <2>1, <2>12 DEF u
<1>3. s \in Good
  <2> HIDE DEF Good
  <2> QED
    BY <1>1, <1>2, Grown
<1> QED
  BY <1>3

LEMMA LeftOfAll ==
    ASSUME NEW S, NEW s \in Seq(S), NEW K, \A i \in 1..Len(s) : s[i] \in K
    PROVE  LeftOf(s, K) = <<>>
<1> DEFINE w == LeftOf(s, K)
<1>1. w \in Seq(S) /\ \A x : Occurs(x, w) => Occurs(x, s) /\ x \notin K
  BY LeftOfIn, LeftOfMembers
<1> HIDE DEF w
<1>2. \A x : Occurs(x, s) => x \in K
  BY DEF Occurs
<1>3. ASSUME w # <<>> PROVE FALSE
  <2>1. 1 \in 1..Len(w)
    <3>1. Len(w) \in Nat \ {0}
      BY <1>1, <1>3, EmptySeq
    <3> QED
      BY <3>1
  <2>2. Occurs(w[1], w)
    BY <2>1 DEF Occurs
  <2> QED
    BY <2>2, <1>1, <1>2
<1> QED
  BY <1>3 DEF w

\* Nothing comes ahead of what it would be left out with.
Apart(s) == \A i, j \in 1..Len(s) : i < j => s[i] \notin Gone(s[j])

LEMMA LeftOfApart ==
    ASSUME NEW S, NEW s \in Seq(S), NEW K, Apart(s)
    PROVE  Apart(LeftOf(s, K))
<1> DEFINE w == LeftOf(s, K)
<1>1. \A i, j \in 1..Len(w) : i < j => \E a, b \in 1..Len(s) : a < b /\ w[i] = s[a] /\ w[j] = s[b]
  BY LeftOfInOrder
<1>2. \A a, b \in 1..Len(s) : a < b => s[a] \notin Gone(s[b])
  BY DEF Apart
<1> HIDE DEF w
<1> SUFFICES ASSUME NEW i \in 1..Len(w), NEW j \in 1..Len(w), i < j
             PROVE  w[i] \notin Gone(w[j])
  BY DEF Apart, w
<1>3. PICK a \in 1..Len(s), b \in 1..Len(s) : a < b /\ w[i] = s[a] /\ w[j] = s[b]
  BY <1>1
<1>4. s[a] \notin Gone(s[b])
  BY <1>2, <1>3
<1> QED
  BY <1>3, <1>4

Distinct(s) == \A i, j \in 1..Len(s) : s[i] = s[j] => i = j

LEMMA LeftOfDistinct ==
    ASSUME NEW S, NEW s \in Seq(S), NEW K, Distinct(s)
    PROVE  Distinct(LeftOf(s, K))
<1> DEFINE w == LeftOf(s, K)
<1>1. \A i, j \in 1..Len(w) : i < j => \E a, b \in 1..Len(s) : a < b /\ w[i] = s[a] /\ w[j] = s[b]
  BY LeftOfInOrder
<1> HIDE DEF w
<1>2. ASSUME NEW i \in 1..Len(w), NEW j \in 1..Len(w), i < j
      PROVE  w[i] # w[j]
  <2>1. PICK a \in 1..Len(s), b \in 1..Len(s) : a < b /\ w[i] = s[a] /\ w[j] = s[b]
    BY <1>1, <1>2
  <2> QED
    BY <2>1 DEF Distinct
<1>3. ASSUME NEW i \in 1..Len(w), NEW j \in 1..Len(w), w[i] = w[j]
      PROVE  i = j
  <2>1. i < j \/ j < i \/ i = j
    OBVIOUS
  <2> QED
    BY <2>1, <1>2, <1>3
<1> QED
  BY <1>3 DEF Distinct, w

-----------------------------------------------------------------------------
(* How the columns of a table are drawn *)

LEMMA MembersAre ==
    ASSUME NEW S, NEW s \in Seq(S)
    PROVE  \A x : x \in Members(s) <=> Occurs(x, s)
<1>1. DOMAIN s = 1..Len(s)
  OBVIOUS
<1> QED
  BY <1>1 DEF Members, Occurs

LEMMA PlaceIs ==
    ASSUME NEW S, NEW s \in Seq(S), NEW x, Occurs(x, s)
    PROVE  PlaceOf(x, s) \in 1..Len(s) /\ s[PlaceOf(x, s)] = x
<1>1. DOMAIN s = 1..Len(s)
  OBVIOUS
<1>2. \E i \in DOMAIN s : s[i] = x
  BY <1>1 DEF Occurs
<1>3. PlaceOf(x, s) \in DOMAIN s /\ s[PlaceOf(x, s)] = x
  BY <1>2 DEF PlaceOf
<1> QED
  BY <1>1, <1>3

LEMMA BothOccur ==
    ASSUME NEW S, NEW s \in Seq(S), NEW t \in Seq(S)
    PROVE  \A x : Occurs(x, s \o t) <=> Occurs(x, s) \/ Occurs(x, t)
<1> DEFINE u == s \o t
<1>1. /\ Len(s) \in Nat /\ Len(t) \in Nat /\ Len(u) = Len(s) + Len(t)
      /\ \A i \in 1..Len(s) + Len(t) : u[i] = IF i <= Len(s) THEN s[i] ELSE t[i - Len(s)]
  BY ConcatProperties
<1> HIDE DEF u
<1>2. \A i \in 1..Len(s) : i \in 1..Len(u) /\ u[i] = s[i]
  BY <1>1
<1>3. \A i \in 1..Len(t) : i + Len(s) \in 1..Len(u) /\ u[i + Len(s)] = t[i]
  <2> TAKE i \in 1..Len(t)
  <2>1. i + Len(s) \in 1..Len(s) + Len(t) /\ ~ (i + Len(s) <= Len(s)) /\ i + Len(s) - Len(s) = i
    BY <1>1
  <2> QED
    BY <2>1, <1>1
<1>4. \A i \in 1..Len(u) : (i \in 1..Len(s) /\ u[i] = s[i]) \/ (i - Len(s) \in 1..Len(t) /\ u[i] = t[i - Len(s)])
  BY <1>1
<1>5. ASSUME NEW x
      PROVE  Occurs(x, u) <=> Occurs(x, s) \/ Occurs(x, t)
  <2>1. Occurs(x, s) => Occurs(x, u)
    BY <1>2 DEF Occurs
  <2>2. Occurs(x, t) => Occurs(x, u)
    BY <1>3 DEF Occurs
  <2>3. Occurs(x, u) => Occurs(x, s) \/ Occurs(x, t)
    BY <1>4 DEF Occurs
  <2> QED
    BY <2>1, <2>2, <2>3
<1> QED
  BY <1>5 DEF u

LEMMA BothDistinct ==
    ASSUME NEW S, NEW s \in Seq(S), NEW t \in Seq(S), Distinct(s), Distinct(t),
           \A x : ~ (Occurs(x, s) /\ Occurs(x, t))
    PROVE  Distinct(s \o t)
<1> DEFINE u == s \o t
<1>1. /\ Len(s) \in Nat /\ Len(t) \in Nat /\ Len(u) = Len(s) + Len(t)
      /\ \A i \in 1..Len(s) + Len(t) : u[i] = IF i <= Len(s) THEN s[i] ELSE t[i - Len(s)]
  BY ConcatProperties
<1> HIDE DEF u
<1>2. \A i \in 1..Len(u) : (i \in 1..Len(s) /\ u[i] = s[i]) \/ (i - Len(s) \in 1..Len(t) /\ u[i] = t[i - Len(s)])
  BY <1>1
<1>3. \A i \in 1..Len(s), j \in 1..Len(t) : s[i] # t[j]
  BY DEF Occurs
<1>4. ASSUME NEW i \in 1..Len(u), NEW j \in 1..Len(u), u[i] = u[j]
      PROVE  i = j
  <2>1. CASE i \in 1..Len(s) /\ u[i] = s[i] /\ j \in 1..Len(s) /\ u[j] = s[j]
    BY <2>1, <1>4 DEF Distinct
  <2>2. CASE i - Len(s) \in 1..Len(t) /\ u[i] = t[i - Len(s)] /\ j - Len(s) \in 1..Len(t) /\ u[j] = t[j - Len(s)]
    <3>1. i - Len(s) = j - Len(s)
      BY <2>2, <1>4 DEF Distinct
    <3> QED
      BY <3>1, <1>1
  <2>3. CASE i \in 1..Len(s) /\ u[i] = s[i] /\ j - Len(s) \in 1..Len(t) /\ u[j] = t[j - Len(s)]
    BY <2>3, <1>3, <1>4
  <2>4. CASE i - Len(s) \in 1..Len(t) /\ u[i] = t[i - Len(s)] /\ j \in 1..Len(s) /\ u[j] = s[j]
    BY <2>4, <1>3, <1>4
  <2> QED
    BY <1>2, <2>1, <2>2, <2>3, <2>4
<1> QED
  BY <1>4 DEF Distinct, u

\* Two of the same, each once, are as long.
LEMMA AsLong ==
    ASSUME NEW S, NEW s \in Seq(S), NEW t \in Seq(S), Distinct(s), Distinct(t),
           \A x : Occurs(x, s) <=> Occurs(x, t)
    PROVE  Len(s) = Len(t)
<1> DEFINE f == [i \in 1..Len(s) |-> PlaceOf(s[i], t)]
<1>1. \A i \in 1..Len(s) : PlaceOf(s[i], t) \in 1..Len(t) /\ t[PlaceOf(s[i], t)] = s[i]
  BY PlaceIs DEF Occurs
<1>2. f \in [1..Len(s) -> 1..Len(t)] /\ \A i \in 1..Len(s) : t[f[i]] = s[i]
  BY <1>1
<1> HIDE DEF f
<1>3. \A i, j \in 1..Len(s) : f[i] = f[j] => i = j
  BY <1>2 DEF Distinct
<1>4. ASSUME NEW j \in 1..Len(t)
      PROVE  \E i \in 1..Len(s) : f[i] = j
  <2>1. PICK i \in 1..Len(s) : s[i] = t[j]
    BY DEF Occurs
  <2>2. f[i] \in 1..Len(t) /\ t[f[i]] = t[j]
    BY <1>2, <2>1
  <2> QED
    BY <2>2 DEF Distinct
<1>5. f \in Bijection(1..Len(s), 1..Len(t))
  BY <1>2, <1>3, <1>4 DEF Bijection, Injection, Surjection, IsInjective
<1>6. ExistsBijection(1..Len(s), 1..Len(t))
  BY <1>5 DEF ExistsBijection
<1>7. /\ IsFiniteSet(1..Len(s)) /\ Cardinality(1..Len(s)) = Len(s)
      /\ Cardinality(1..Len(t)) = Len(t)
  <2>1. \A n \in Nat : IsFiniteSet(1..n) /\ Cardinality(1..n) = n
    <3> TAKE n \in Nat
    <3>1. IsFiniteSet(1..n) /\ Cardinality(1..n) = IF 1 > n THEN 0 ELSE n - 1 + 1
      BY FS_Interval
    <3> QED
      BY <3>1
  <2>2. Len(s) \in Nat /\ Len(t) \in Nat
    OBVIOUS
  <2> QED
    BY <2>1, <2>2
<1>8. Cardinality(1..Len(t)) = Cardinality(1..Len(s))
  BY <1>6, <1>7, FS_Bijection
<1> QED
  BY <1>7, <1>8

\* All of n columns, each once.
IsOrder(o, n) == o \in Seq(1..n) /\ Len(o) = n /\ Distinct(o) /\ \A k \in 1..n : Occurs(k, o)

InOrder(c, o) == [i \in DOMAIN o |-> c[o[i]]]

LEMMA OrderDraws ==
    ASSUME NEW S, NEW c \in Seq(S), Distinct(c), NEW o, IsOrder(o, Len(c))
    PROVE  /\ InOrder(c, o) \in Seq(S) /\ Distinct(InOrder(c, o))
           /\ \A x : Occurs(x, InOrder(c, o)) <=> Occurs(x, c)
<1> DEFINE n == Len(c)
           d == InOrder(c, o)
<1>1. n \in Nat /\ o \in Seq(1..n) /\ Len(o) = n /\ DOMAIN o = 1..n /\ \A i \in 1..n : o[i] \in 1..n
  BY DEF IsOrder
<1>2. \A i \in 1..n : d[i] = c[o[i]] /\ c[o[i]] \in S
  BY <1>1 DEF InOrder
<1>3. d \in Seq(S) /\ Len(d) = n
  BY <1>1, <1>2 DEF InOrder
<1> HIDE DEF d
<1>4. Distinct(d)
  <2> SUFFICES ASSUME NEW i \in 1..n, NEW j \in 1..n, d[i] = d[j]
               PROVE  i = j
    BY <1>3 DEF Distinct
  <2>1. o[i] \in 1..n /\ o[j] \in 1..n /\ c[o[i]] = c[o[j]]
    BY <1>1, <1>2
  <2>2. o[i] = o[j]
    BY <2>1 DEF Distinct
  <2> QED
    BY <1>1, <2>2 DEF IsOrder, Distinct
<1>5. ASSUME NEW x
      PROVE  Occurs(x, d) <=> Occurs(x, c)
  <2>1. ASSUME Occurs(x, d) PROVE Occurs(x, c)
    BY <2>1, <1>1, <1>2, <1>3 DEF Occurs
  <2>2. ASSUME Occurs(x, c) PROVE Occurs(x, d)
    <3>1. PICK k \in 1..n : c[k] = x
      BY <2>2 DEF Occurs
    <3>2. PICK i \in 1..n : o[i] = k
      BY <1>1 DEF IsOrder, Occurs
    <3> QED
      BY <3>1, <3>2, <1>2, <1>3 DEF Occurs
  <2> QED
    BY <2>1, <2>2
<1> QED
  BY <1>3, <1>4, <1>5 DEF d

LEMMA KnownIs ==
    ASSUME NEW S, NEW a \in Seq(S), NEW c \in Seq(S), Distinct(a)
    PROVE  /\ Known(a, c) \in Seq(S) /\ Distinct(Known(a, c))
           /\ \A x : Occurs(x, Known(a, c)) <=> Occurs(x, a) /\ Occurs(x, c)
<1> DEFINE K == Members(a) \ Members(c)
<1>1. \A x : x \in K <=> Occurs(x, a) /\ ~ Occurs(x, c)
  BY MembersAre
<1> HIDE DEF K
<1>2. LeftOf(a, K) \in Seq(S) /\ Distinct(LeftOf(a, K))
  BY LeftOfIn, LeftOfDistinct
<1>3. \A x : Occurs(x, LeftOf(a, K)) <=> Occurs(x, a) /\ x \notin K
  BY LeftOfMembers
<1>4. Known(a, c) = LeftOf(a, K)
  BY DEF Known, K
<1> QED
  BY <1>1, <1>2, <1>3, <1>4

LEMMA LeftOfHalf ==
    ASSUME NEW S, NEW u \in Seq(S), NEW v \in Seq(S), NEW K,
           \A i \in 1..Len(u) : u[i] \notin K, \A i \in 1..Len(v) : v[i] \in K
    PROVE  LeftOf(u \o v, K) = u
<1>1. \A L : LeftOf(u \o v, L) = LeftOf(u, L) \o LeftOf(v, L)
  BY LeftOfBoth
<1>2. LeftOf(u, K) = u
  BY LeftOfNone
<1>3. LeftOf(v, K) = <<>>
  BY LeftOfAll
<1>4. u \o <<>> = u
  BY ConcatEmptySeq
<1> QED
  BY <1>1, <1>2, <1>3, <1>4

\* What a table's columns look like under a layout.
DrawnBy(c, a) == Known(a, c) \o LeftOf(c, Members(a))

LEMMA DrawnByIs ==
    ASSUME NEW S, NEW a \in Seq(S), NEW c \in Seq(S), Distinct(a), Distinct(c)
    PROVE  /\ DrawnBy(c, a) \in Seq(S) /\ Distinct(DrawnBy(c, a))
           /\ \A x : Occurs(x, DrawnBy(c, a)) <=> Occurs(x, c)
           /\ Known(DrawnBy(c, a), a) = Known(a, c)
<1> DEFINE k == Known(a, c)
           r == LeftOf(c, Members(a))
<1>1. k \in Seq(S) /\ Distinct(k) /\ \A x : Occurs(x, k) <=> Occurs(x, a) /\ Occurs(x, c)
  BY KnownIs
<1>2. r \in Seq(S) /\ Distinct(r)
  BY LeftOfIn, LeftOfDistinct
<1>3. \A x : Occurs(x, r) <=> Occurs(x, c) /\ ~ Occurs(x, a)
  <2>1. \A x : Occurs(x, r) <=> Occurs(x, c) /\ x \notin Members(a)
    BY LeftOfMembers
  <2>2. \A x : x \in Members(a) <=> Occurs(x, a)
    BY MembersAre
  <2> QED
    BY <2>1, <2>2
<1>4. DrawnBy(c, a) = k \o r
  BY DEF DrawnBy
<1> HIDE DEF k, r
<1>5. k \o r \in Seq(S)
  BY <1>1, <1>2
<1>6. Distinct(k \o r)
  <2>1. \A x : ~ (Occurs(x, k) /\ Occurs(x, r))
    BY <1>1, <1>3
  <2> QED
    BY <2>1, <1>1, <1>2, BothDistinct
<1>7. \A x : Occurs(x, k \o r) <=> Occurs(x, c)
  <2>1. \A x : Occurs(x, k \o r) <=> Occurs(x, k) \/ Occurs(x, r)
    BY <1>1, <1>2, BothOccur
  <2> QED
    BY <2>1, <1>1, <1>3
<1>8. Known(k \o r, a) = k
  <2> DEFINE d == k \o r
             M == Members(d) \ Members(a)
  <2>1. \A x : x \in M <=> Occurs(x, c) /\ ~ Occurs(x, a)
    <3>1. \A x : x \in Members(d) <=> Occurs(x, d)
      BY <1>5, MembersAre
    <3>2. \A x : x \in Members(a) <=> Occurs(x, a)
      BY MembersAre
    <3> QED
      BY <3>1, <3>2, <1>7
  <2> HIDE DEF M
  <2>2. \A i \in 1..Len(k) : k[i] \notin M
    BY <1>1, <2>1 DEF Occurs
  <2>3. \A i \in 1..Len(r) : r[i] \in M
    <3>1. \A i \in 1..Len(r) : Occurs(r[i], r)
      BY DEF Occurs
    <3> QED
      BY <3>1, <1>3, <2>1
  <2>4. LeftOf(d, M) = k
    BY <1>1, <1>2, <2>2, <2>3, LeftOfHalf
  <2>5. Known(d, a) = LeftOf(d, M)
    BY DEF Known, M
  <2> QED
    BY <2>4, <2>5
<1> QED
  BY <1>4, <1>5, <1>6, <1>7, <1>8 DEF k

LEMMA LaidIs ==
    ASSUME NEW S, NEW a \in Seq(S), NEW c \in Seq(S), Distinct(a), Distinct(c)
    PROVE  IsOrder(Laid(c, a), Len(c)) /\ InOrder(c, Laid(c, a)) = DrawnBy(c, a)
<1> DEFINE d == DrawnBy(c, a)
           o == Laid(c, a)
           n == Len(c)
<1>1. d \in Seq(S) /\ Distinct(d) /\ \A x : Occurs(x, d) <=> Occurs(x, c)
  BY DrawnByIs
<1>2. o = [i \in DOMAIN d |-> PlaceOf(d[i], c)]
  BY DEF Laid, DrawnBy
<1> HIDE DEF d, o
<1>3. n \in Nat /\ Len(d) = n /\ DOMAIN d = 1..n
  <2>1. Len(d) = n
    BY <1>1, AsLong
  <2> QED
    BY <2>1, <1>1
<1>4. \A i \in 1..n : PlaceOf(d[i], c) \in 1..n /\ c[PlaceOf(d[i], c)] = d[i]
  <2>1. \A i \in 1..n : Occurs(d[i], d)
    BY <1>3 DEF Occurs
  <2> QED
    BY <2>1, <1>1, PlaceIs
<1>5. o \in [1..n -> 1..n] /\ \A i \in 1..n : c[o[i]] = d[i]
  BY <1>2, <1>3, <1>4
<1>6. o \in Seq(1..n) /\ Len(o) = n /\ DOMAIN o = 1..n
  BY <1>3, <1>5
<1>7. Distinct(o)
  <2> SUFFICES ASSUME NEW i \in 1..n, NEW j \in 1..n, o[i] = o[j]
               PROVE  i = j
    BY <1>6 DEF Distinct
  <2>1. d[i] = d[j]
    BY <1>5
  <2> QED
    BY <2>1, <1>1, <1>3 DEF Distinct
<1>8. ASSUME NEW k \in 1..n
      PROVE  Occurs(k, o)
  <2>1. Occurs(c[k], d)
    <3>1. Occurs(c[k], c)
      BY DEF Occurs
    <3> QED
      BY <3>1, <1>1
  <2>2. PICK i \in 1..n : d[i] = c[k]
    BY <2>1, <1>3 DEF Occurs
  <2>3. o[i] \in 1..n /\ c[o[i]] = c[k]
    BY <1>5, <2>2
  <2>4. o[i] = k
    BY <2>3 DEF Distinct
  <2> QED
    BY <2>4, <1>6 DEF Occurs
<1>9. InOrder(c, o) = d
  <2>1. Len(d) = n /\ InOrder(c, o) = [i \in 1..n |-> d[i]]
    BY <1>3, <1>5, <1>6 DEF InOrder
  <2> QED
    BY <2>1, <1>1, <1>3
<1> QED
  BY <1>6, <1>7, <1>8, <1>9 DEF IsOrder, o, d

\* A heading taken from p to q.
HeadingAt(o, p, q) == Series!InsertAt(Series!RemoveAt(o, p), q, o[p])

LEMMA HeadingAtIs ==
    ASSUME NEW n \in Nat, NEW o, IsOrder(o, n), NEW p \in 1..n, NEW q \in 1..n
    PROVE  IsOrder(HeadingAt(o, p, q), n)
<1> DEFINE r == SubSeq(o, 1, p - 1) \o SubSeq(o, p + 1, n)
           m == SubSeq(r, 1, q - 1) \o <<o[p]>> \o SubSeq(r, q, n - 1)
<1>1. o \in Seq(1..n) /\ Len(o) = n /\ \A i \in 1..n : o[i] \in 1..n
  BY DEF IsOrder
<1>2. /\ r \in Seq(1..n) /\ Len(r) = n - 1
      /\ \A i \in 1..n - 1 : r[i] = IF i < p THEN o[i] ELSE o[i + 1]
  <2> DEFINE u == SubSeq(o, 1, p - 1)
             v == SubSeq(o, p + 1, n)
  <2>1. u \in Seq(1..n) /\ Len(u) = p - 1 /\ \A i \in 1..p - 1 : u[i] = o[i]
    BY <1>1
  <2>2. v \in Seq(1..n) /\ Len(v) = n - p /\ \A i \in 1..n - p : v[i] = o[p + i]
    BY <1>1
  <2> HIDE DEF u, v
  <2>3. /\ u \o v \in Seq(1..n) /\ Len(u \o v) = n - 1
        /\ \A i \in 1..n - 1 : (u \o v)[i] = IF i <= p - 1 THEN u[i] ELSE v[i - (p - 1)]
    <3>1. /\ u \o v \in Seq(1..n) /\ Len(u \o v) = Len(u) + Len(v)
          /\ \A i \in 1..Len(u) + Len(v) : (u \o v)[i] = IF i <= Len(u) THEN u[i] ELSE v[i - Len(u)]
      <4>1. u \in Seq(1..n) /\ v \in Seq(1..n)
        BY <2>1, <2>2
      <4> QED
        BY <4>1, ConcatProperties
    <3>2. Len(u) = p - 1 /\ Len(u) + Len(v) = n - 1
      BY <2>1, <2>2
    <3> QED
      BY <3>1, <3>2
  <2>4. \A i \in 1..n - 1 : (u \o v)[i] = IF i < p THEN o[i] ELSE o[i + 1]
    <3> TAKE i \in 1..n - 1
    <3>1. CASE i < p
      BY <3>1, <2>1, <2>3
    <3>2. CASE ~ (i < p)
      <4>1. i - (p - 1) \in 1..n - p /\ p + (i - (p - 1)) = i + 1 /\ ~ (i <= p - 1)
        BY <3>2
      <4> QED
        BY <3>2, <4>1, <2>2, <2>3
    <3> QED
      BY <3>1, <3>2
  <2> QED
    BY <2>3, <2>4 DEF u, v
<1> HIDE DEF r
<1>3. /\ m \in Seq(1..n) /\ Len(m) = n
      /\ \A i \in 1..n : m[i] = IF i < q THEN r[i] ELSE IF i = q THEN o[p] ELSE r[i - 1]
  <2> DEFINE u == SubSeq(r, 1, q - 1)
             w == <<o[p]>>
             x == u \o w
             v == SubSeq(r, q, n - 1)
  <2>0. \A i \in 1..n - 1 : r[i] \in 1..n
    BY <1>2
  <2>1. u \in Seq(1..n) /\ Len(u) = q - 1 /\ \A i \in 1..q - 1 : u[i] = r[i]
    BY <1>2, <2>0
  <2>2. v \in Seq(1..n) /\ Len(v) = n - q /\ \A i \in 1..n - q : v[i] = r[q + i - 1]
    BY <1>2, <2>0
  <2>3. w \in Seq(1..n) /\ Len(w) = 1 /\ w[1] = o[p]
    BY <1>1
  <2> HIDE DEF u, v, w
  <2>4. x \in Seq(1..n) /\ Len(x) = q /\ x[q] = o[p] /\ \A i \in 1..q - 1 : x[i] = r[i]
    <3>1. /\ x \in Seq(1..n) /\ Len(x) = Len(u) + Len(w)
          /\ \A i \in 1..Len(u) + Len(w) : x[i] = IF i <= Len(u) THEN u[i] ELSE w[i - Len(u)]
      <4>1. u \in Seq(1..n) /\ w \in Seq(1..n)
        BY <2>1, <2>3
      <4> QED
        BY <4>1, ConcatProperties
    <3>2. q \in 1..Len(u) + Len(w) /\ ~ (q <= Len(u)) /\ q - Len(u) = 1
      BY <2>1, <2>3
    <3> QED
      BY <3>1, <3>2, <2>1, <2>3
  <2> HIDE DEF x
  <2>5. /\ x \o v \in Seq(1..n) /\ Len(x \o v) = n
        /\ \A i \in 1..n : (x \o v)[i] = IF i <= q THEN x[i] ELSE v[i - q]
    <3>1. /\ x \o v \in Seq(1..n) /\ Len(x \o v) = Len(x) + Len(v)
          /\ \A i \in 1..Len(x) + Len(v) : (x \o v)[i] = IF i <= Len(x) THEN x[i] ELSE v[i - Len(x)]
      <4>1. x \in Seq(1..n) /\ v \in Seq(1..n)
        BY <2>2, <2>4
      <4> QED
        BY <4>1, ConcatProperties
    <3>2. Len(x) = q /\ Len(x) + Len(v) = n
      BY <2>2, <2>4
    <3> QED
      BY <3>1, <3>2
  <2>6. \A i \in 1..n : (x \o v)[i] = IF i < q THEN r[i] ELSE IF i = q THEN o[p] ELSE r[i - 1]
    <3> TAKE i \in 1..n
    <3>1. CASE i <= q
      <4>1. (x \o v)[i] = x[i]
        BY <3>1, <2>5
      <4>2. i = q \/ (i # q /\ i < q /\ i \in 1..q - 1)
        BY <3>1
      <4> QED
        BY <4>1, <4>2, <2>4
    <3>2. CASE ~ (i <= q)
      <4>1. i - q \in 1..n - q /\ q + (i - q) - 1 = i - 1
        BY <3>2
      <4>2. v[i - q] = r[i - 1]
        BY <4>1, <2>2
      <4>3. (x \o v)[i] = v[i - q]
        BY <3>2, <2>5
      <4> QED
        BY <3>2, <4>2, <4>3
    <3> QED
      BY <3>1, <3>2
  <2>7. m = x \o v
    BY DEF x, u, v, w
  <2> QED
    BY <2>5, <2>6, <2>7
<1>4. HeadingAt(o, p, q) = m
  <2>1. Series!RemoveAt(o, p) = r
    BY <1>1 DEF Series!RemoveAt, r
  <2> QED
    BY <2>1, <1>2 DEF HeadingAt, Series!InsertAt
<1> HIDE DEF m
<1> DEFINE From(i) == IF i < q THEN (IF i < p THEN i ELSE i + 1)
                      ELSE IF i = q THEN p ELSE (IF i - 1 < p THEN i - 1 ELSE i)
           To(k) == IF k = p THEN q
                    ELSE IF k < p THEN (IF k < q THEN k ELSE k + 1)
                    ELSE (IF k - 1 < q THEN k - 1 ELSE k)
<1>5. \A i \in 1..n : From(i) \in 1..n /\ m[i] = o[From(i)]
  <2> TAKE i \in 1..n
  <2>1. CASE i < q
    <3>1. i \in 1..n - 1 /\ m[i] = r[i]
      BY <1>3, <2>1
    <3> QED
      BY <3>1, <1>2, <2>1
  <2>2. CASE i = q
    BY <1>3, <2>2
  <2>3. CASE i > q
    <3>1. i - 1 \in 1..n - 1 /\ m[i] = r[i - 1] /\ i - 1 + 1 = i
      BY <1>3, <2>3
    <3>2. r[i - 1] = IF i - 1 < p THEN o[i - 1] ELSE o[i - 1 + 1]
      BY <3>1, <1>2
    <3> QED
      BY <3>1, <3>2, <2>3
  <2> QED
    BY <2>1, <2>2, <2>3
<1>6. \A i, j \in 1..n : From(i) = From(j) => i = j
  OBVIOUS
<1>7. \A k \in 1..n : To(k) \in 1..n /\ From(To(k)) = k
  OBVIOUS
<1> HIDE DEF From, To
<1>8. Distinct(m)
  <2> SUFFICES ASSUME NEW i \in 1..n, NEW j \in 1..n, m[i] = m[j]
               PROVE  i = j
    BY <1>3 DEF Distinct
  <2>1. From(i) \in 1..n /\ From(j) \in 1..n /\ o[From(i)] = o[From(j)]
    BY <1>5
  <2>2. From(i) = From(j)
    BY <2>1, <1>1 DEF IsOrder, Distinct
  <2> QED
    BY <2>2, <1>6
<1>9. ASSUME NEW x \in 1..n
      PROVE  Occurs(x, m)
  <2>1. PICK k \in 1..n : o[k] = x
    BY <1>1 DEF IsOrder, Occurs
  <2>2. To(k) \in 1..n /\ m[To(k)] = x
    BY <2>1, <1>5, <1>7
  <2> QED
    BY <2>2, <1>3 DEF Occurs
<1> QED
  BY <1>3, <1>4, <1>8, <1>9 DEF IsOrder

-----------------------------------------------------------------------------
(* What a table's grid shows *)

Shapes  == UNION {r.shapes : r \in Rooms}
Pages   == [limit : UNION {r.limits : r \in Rooms}, offset : Nat]
Clauses == {NoFilter} \cup UNION {r.filters : r \in Rooms}
TableSorts   == {Unset} \cup [column : ColumnNames, up : BOOLEAN]
TableViews   == [page : Pages, where_clause : Clauses, sort : TableSorts, columns : Shapes, order : Seq(Nat)]

TableTypes ==
  /\ room \in Rooms /\ shape \in room.shapes
  /\ page \in Pages /\ where_clause \in Clauses /\ sort \in TableSorts
  /\ load \in Asks \cup {Unset}
  /\ shown \in TableViews \cup {Unset}
  /\ arranged \in Seq(ColumnNames) /\ Distinct(arranged)

AllDrawn ==
  shown # Unset =>
    /\ IsOrder(shown.order, Len(shown.columns))
    /\ Known(arranged, shown.columns) = Known(Drawn(shown), arranged)

\* A new sort is on its way at once; a column is carried only where there are columns.
SortIsAsked == load # Unset => load.sort = sort
CarriedFromGrid == carried # Unset => shown \in TableViews

TableInv == TableTypes /\ AllDrawn /\ SortIsAsked /\ CarriedFromGrid /\ SettledIsAsked

LEMMA AsksAre == Asks = [page : Pages, where_clause : Clauses, sort : TableSorts]
BY DEF Asks, Pages, Clauses, TableSorts

LEMMA ShapesAre ==
    ASSUME NEW c \in Shapes
    PROVE  c \in Seq(ColumnNames) /\ Distinct(c)
<1>1. PICK r \in Rooms : c \in r.shapes
  BY DEF Shapes
<1>2. c \in Seq(ColumnNames) /\ \A i, j \in DOMAIN c : c[i] = c[j] => i = j
  BY <1>1, TableAssumption
<1>3. DOMAIN c = 1..Len(c)
  BY <1>2
<1> QED
  BY <1>2, <1>3 DEF Distinct

LEMMA FromRoom ==
    ASSUME TableTypes
    PROVE  room.shapes \subseteq Shapes /\ room.filters \subseteq Clauses
           /\ \A n \in room.limits, p \in Pages : n \in Nat /\ [p EXCEPT !.limit = n] \in Pages
<1>1. room \in Rooms
  BY DEF TableTypes
<1>2. room.limits \subseteq Nat
  BY <1>1, TableAssumption
<1>3. room.limits \subseteq UNION {r.limits : r \in Rooms}
  BY <1>1
<1>4. \A n \in room.limits, p \in Pages : [p EXCEPT !.limit = n] \in Pages
  BY <1>3 DEF Pages
<1> QED
  BY <1>1, <1>2, <1>4 DEF Shapes, Clauses

LEMMA PagesAre ==
    ASSUME NEW p \in Pages
    PROVE  p.limit \in Nat /\ p.offset \in Nat
           /\ \A n \in Nat : [p EXCEPT !.offset = n] \in Pages
<1>1. UNION {r.limits : r \in Rooms} \subseteq Nat
  BY TableAssumption
<1> QED
  BY <1>1 DEF Pages

LEMMA LoadKeeps ==
    ASSUME TableInv, NEW asked \in Asks, Loads(asked),
           carried' \in {carried, Unset}
    PROVE  TableInv'
<1>1. /\ page' = asked.page /\ where_clause' = asked.where_clause /\ sort' = asked.sort
      /\ load' = asked /\ room' = room /\ shape' = shape /\ shown' = shown /\ arranged' = arranged
  BY DEF Loads
<1>2. asked.page \in Pages /\ asked.where_clause \in Clauses /\ asked.sort \in TableSorts /\ asked # Unset
  BY AsksAre, TableAssumption
<1>3. TableTypes'
  BY <1>1, <1>2 DEF TableInv, TableTypes
<1>4. AllDrawn'
  BY <1>1 DEF TableInv, AllDrawn
<1>5. SortIsAsked' /\ CarriedFromGrid' /\ SettledIsAsked'
  BY <1>1, <1>2 DEF TableInv, SortIsAsked, CarriedFromGrid, SettledIsAsked
<1> QED
  BY <1>3, <1>4, <1>5 DEF TableInv

LEMMA NowAsked ==
    ASSUME TableInv
    PROVE  /\ Asked \in Asks
           /\ \A s \in TableSorts : [FromTheTop EXCEPT !.sort = s] \in Asks
           /\ \A w \in Clauses : [FromTheTop EXCEPT !.where_clause = w] \in Asks
           /\ \A n \in room.limits : [FromTheTop EXCEPT !.page.limit = n] \in Asks
           /\ \A p \in Pages : [Asked EXCEPT !.page = p] \in Asks
<1>1. Asked = [page |-> page, where_clause |-> where_clause, sort |-> sort] /\ Asked \in Asks
  BY AsksAre DEF TableInv, TableTypes, Asked
<1>2. [page EXCEPT !.offset = 0] \in Pages
  BY PagesAre DEF TableInv, TableTypes
<1>3. FromTheTop = [page |-> [page EXCEPT !.offset = 0], where_clause |-> where_clause, sort |-> sort]
  BY <1>1 DEF FromTheTop
<1>4. FromTheTop \in Asks
  BY <1>2, <1>3, AsksAre DEF TableInv, TableTypes
<1>5. \A n \in room.limits : [FromTheTop.page EXCEPT !.limit = n] \in Pages
  BY <1>2, <1>3, FromRoom DEF TableInv
<1>6. \A n \in room.limits : [FromTheTop EXCEPT !.page.limit = n] \in Asks
  BY <1>4, <1>5, AsksAre
<1>7. \A s \in TableSorts : [FromTheTop EXCEPT !.sort = s] \in Asks
  BY <1>4, AsksAre
<1>8. \A w \in Clauses : [FromTheTop EXCEPT !.where_clause = w] \in Asks
  BY <1>4, AsksAre
<1>9. \A p \in Pages : [Asked EXCEPT !.page = p] \in Asks
  BY <1>1, AsksAre
<1> QED
  BY <1>1, <1>6, <1>7, <1>8, <1>9, Zenon

LEMMA SortCycles ==
    ASSUME TableInv, NEW col \in ColumnNames, ToggleSort(col), carried' \in {carried, Unset}
    PROVE  TableInv'
<1>1. Cycled(col) \in TableSorts
  BY DEF Cycled, TableSorts
<1>2. [FromTheTop EXCEPT !.sort = Cycled(col)] \in Asks
  BY <1>1, NowAsked
<1>3. Loads([FromTheTop EXCEPT !.sort = Cycled(col)])
  BY DEF ToggleSort
<1> QED
  BY <1>2, <1>3, LoadKeeps

LEMMA PageTurns ==
    ASSUME TableInv, NEW forward \in BOOLEAN, TurnPage(forward)
    PROVE  TableInv'
<1> DEFINE from == IF shown = Unset THEN page ELSE shown.page
           next == Turned(from, forward)
<1>1. from \in Pages
  BY DEF TableInv, TableTypes, TableViews
<1>2. Loads([Asked EXCEPT !.page = next]) /\ carried' = carried
  BY DEF TurnPage, Kept
<1> HIDE DEF from
<1>3. next \in Pages
  <2> DEFINE by == IF forward THEN from.limit ELSE -from.limit
             to == from.offset + by
             at == IF to < 0 THEN 0 ELSE to
  <2>1. at \in Nat
    BY <1>1, PagesAre
  <2>2. next = [from EXCEPT !.offset = at]
    BY DEF Turned
  <2> HIDE DEF at
  <2> QED
    BY <2>1, <2>2, <1>1, PagesAre
<1>4. [Asked EXCEPT !.page = next] \in Asks
  <2>1. \A p \in Pages : [Asked EXCEPT !.page = p] \in Asks
    BY NowAsked
  <2> HIDE DEF next
  <2> QED
    BY <2>1, <1>3
<1> QED
  BY <1>2, <1>4, LoadKeeps

LEMMA Asking ==
    ASSUME TableInv,
           \/ Refresh \/ ClearSort
           \/ \E clause \in room.filters : ApplyFilters(clause)
           \/ \E limit \in room.limits : ApplyPageSize(limit)
           \/ \E forward \in BOOLEAN : TurnPage(forward)
    PROVE  TableInv'
<1>1. CASE Refresh
  BY <1>1, NowAsked, LoadKeeps DEF Refresh, Kept
<1>2. CASE ClearSort
  <2>1. [FromTheTop EXCEPT !.sort = Unset] \in Asks
    BY NowAsked DEF TableSorts
  <2> QED
    BY <1>2, <2>1, LoadKeeps DEF ClearSort, Kept
<1>3. ASSUME NEW clause \in room.filters, ApplyFilters(clause)
      PROVE  TableInv'
  <2>1. [FromTheTop EXCEPT !.where_clause = clause] \in Asks
    <3>1. \A w \in Clauses : [FromTheTop EXCEPT !.where_clause = w] \in Asks
      BY NowAsked
    <3>2. clause \in Clauses
      BY FromRoom DEF TableInv
    <3> QED
      BY <3>1, <3>2
  <2> QED
    BY <1>3, <2>1, LoadKeeps DEF ApplyFilters, Kept
<1>4. ASSUME NEW limit \in room.limits, ApplyPageSize(limit)
      PROVE  TableInv'
  <2>1. [FromTheTop EXCEPT !.page.limit = limit] \in Asks
    <3>1. \A n \in room.limits : [FromTheTop EXCEPT !.page.limit = n] \in Asks
      BY NowAsked
    <3> QED
      BY <3>1, Zenon
  <2> QED
    BY <1>4, <2>1, LoadKeeps DEF ApplyPageSize
<1> QED
  BY <1>1, <1>2, <1>3, <1>4, PageTurns

\* Only what is drawn in which order is new.
LEMMA RowsStay ==
    ASSUME TableInv, UNCHANGED <<page, where_clause, sort, page_size_draft, load, failed>>,
           shown' \in TableViews, shown \in TableViews,
           shown'.page = shown.page, shown'.where_clause = shown.where_clause, shown'.sort = shown.sort,
           shown # Unset
    PROVE  SettledIsAsked'
BY DEF TableInv, SettledIsAsked

LEMMA Lands ==
    ASSUME TableInv, Land
    PROVE  TableInv'
<1>1. load \in Asks /\ load.sort = sort
  BY DEF Land, TableInv, TableTypes, SortIsAsked
<1>2. load.page \in Pages /\ load.where_clause \in Clauses /\ load.sort \in TableSorts
  BY <1>1, AsksAre
<1>3. shape \in Shapes /\ shape \in Seq(ColumnNames) /\ Distinct(shape)
  BY FromRoom, ShapesAre DEF TableInv, TableTypes
<1>4. arranged \in Seq(ColumnNames) /\ Distinct(arranged)
  BY DEF TableInv, TableTypes
<1> DEFINE o == Laid(shape, arranged)
           v == [page |-> load.page, where_clause |-> load.where_clause, sort |-> load.sort,
                 columns |-> shape, order |-> o]
<1>5. IsOrder(o, Len(shape)) /\ InOrder(shape, o) = DrawnBy(shape, arranged)
  BY <1>3, <1>4, LaidIs
<1>6. /\ shown' = v /\ load' = Unset /\ page' = load.page /\ where_clause' = load.where_clause
      /\ page_size_draft' = load.page.limit
      /\ room' = room /\ shape' = shape /\ sort' = sort /\ arranged' = arranged /\ carried' = carried
  BY DEF Land
<1> HIDE DEF o
<1>7. v \in TableViews
  <2>1. o \in Seq(Nat)
    <3>1. o \in Seq(1..Len(shape)) /\ Len(shape) \in Nat
      BY <1>3, <1>5 DEF IsOrder
    <3> QED
      BY <3>1
  <2> QED
    BY <2>1, <1>2, <1>3 DEF TableViews
<1>8. TableTypes'
  BY <1>2, <1>6, <1>7 DEF TableInv, TableTypes
<1>9. AllDrawn'
  <2>1. Drawn(v) = InOrder(shape, o)
    BY DEF Drawn, InOrder
  <2>2. Known(DrawnBy(shape, arranged), arranged) = Known(arranged, shape)
    BY <1>3, <1>4, DrawnByIs
  <2>3. v.order = o /\ v.columns = shape
    OBVIOUS
  <2> HIDE DEF v
  <2>4. Known(arranged, v.columns) = Known(Drawn(v), arranged)
    BY <1>5, <2>1, <2>2, <2>3
  <2> QED
    BY <1>5, <1>6, <2>3, <2>4 DEF AllDrawn
<1>10. SortIsAsked' /\ CarriedFromGrid'
  BY <1>6, <1>7 DEF SortIsAsked, CarriedFromGrid
<1>11. SettledIsAsked'
  BY <1>1, <1>6 DEF SettledIsAsked
<1> QED
  BY <1>8, <1>9, <1>10, <1>11 DEF TableInv

LEMMA Drags ==
    ASSUME TableInv, shown # Unset, NEW target, DragColumnOver(target)
    PROVE  TableInv'
<1> DEFINE order == shown.order
           col == carried.column
           place(i) == CHOOSE p \in DOMAIN order : order[p] = i
           new == Series!InsertAt(Series!RemoveAt(order, place(col)), place(target), col)
           c == shown.columns
<1>1. UNCHANGED <<room, shape, page, where_clause, sort, page_size_draft, load, failed>>
  BY DEF DragColumnOver
<1>2. shown \in TableViews
  BY DEF TableInv, TableTypes
<1>3. c \in Shapes /\ c \in Seq(ColumnNames) /\ Distinct(c)
  BY <1>2, ShapesAre DEF TableViews
<1>4. IsOrder(order, Len(c))
  BY <1>2 DEF TableInv, AllDrawn
<1>5. CASE target = col
  <2>1. shown' = shown /\ arranged' = arranged
    BY <1>5 DEF DragColumnOver
  <2>2. TableTypes' /\ AllDrawn' /\ SortIsAsked' /\ CarriedFromGrid'
    BY <1>1, <1>2, <2>1 DEF TableInv, TableTypes, AllDrawn, SortIsAsked, CarriedFromGrid
  <2>3. SettledIsAsked'
    BY <1>1, <2>1 DEF TableInv, SettledIsAsked
  <2> QED
    BY <2>2, <2>3 DEF TableInv
<1>6. CASE target # col
  <2>1. shown' = [shown EXCEPT !.order = new] /\ arranged' = Drawn(shown')
    BY <1>6 DEF DragColumnOver
  <2>2. col \in DOMAIN order /\ target \in DOMAIN order
    BY DEF DragColumnOver
  <2>3. IsOrder(new, Len(c))
    <3>1. Len(c) \in Nat /\ DOMAIN order = 1..Len(c)
      BY <1>3, <1>4 DEF IsOrder
    <3>2. \A i \in 1..Len(c) : \E p \in DOMAIN order : order[p] = i
      BY <3>1, <1>4 DEF IsOrder, Occurs
    <3>3. \A i \in 1..Len(c) : place(i) \in 1..Len(c) /\ order[place(i)] = i
      BY <3>1, <3>2
    <3> HIDE DEF place
    <3>4. place(col) \in 1..Len(c) /\ place(target) \in 1..Len(c) /\ order[place(col)] = col
      BY <3>1, <3>3, <2>2
    <3>5. new = HeadingAt(order, place(col), place(target))
      BY <3>4 DEF HeadingAt
    <3> QED
      BY <3>1, <3>4, <3>5, <1>4, HeadingAtIs
  <2> HIDE DEF new
  <2>4. /\ InOrder(c, new) \in Seq(ColumnNames) /\ Distinct(InOrder(c, new))
        /\ \A x : Occurs(x, InOrder(c, new)) <=> Occurs(x, c)
    BY <1>3, <2>3, OrderDraws
  <2>5. shown' \in TableViews /\ shown'.order = new /\ shown'.columns = c /\ shown'.page = shown.page
        /\ shown'.where_clause = shown.where_clause /\ shown'.sort = shown.sort
    <3>1. new \in Seq(Nat)
      <4>1. new \in Seq(1..Len(c)) /\ Len(c) \in Nat
        BY <1>3, <2>3 DEF IsOrder
      <4> QED
        BY <4>1
    <3> QED
      BY <3>1, <2>1, <1>2 DEF TableViews
  <2>6. arranged' = InOrder(c, new)
    BY <2>1, <2>5 DEF Drawn, InOrder
  <2>7. TableTypes'
    BY <1>1, <2>4, <2>5, <2>6 DEF TableInv, TableTypes
  <2>8. AllDrawn'
    <3> DEFINE d == InOrder(c, new)
    <3>1. Drawn(shown') = d
      BY <2>1, <2>6
    <3> HIDE DEF d
    <3>2. \A x : x \in Members(d) <=> Occurs(x, d)
      BY <2>4, MembersAre DEF d
    <3>3. \A x : x \in Members(c) <=> Occurs(x, c)
      BY <1>3, MembersAre
    <3>4. Members(d) \ Members(c) = {} /\ Members(d) \ Members(d) = {}
      BY <3>2, <3>3, <2>4 DEF d
    <3>5. Known(d, c) = LeftOf(d, {}) /\ Known(d, d) = LeftOf(d, {})
      BY <3>4 DEF Known
    <3> QED
      BY <3>1, <3>5, <2>3, <2>5, <2>6 DEF AllDrawn, d
  <2>9. SortIsAsked' /\ CarriedFromGrid'
    BY <1>1, <2>5 DEF TableInv, SortIsAsked, CarriedFromGrid
  <2>10. SettledIsAsked'
    BY <1>1, <1>2, <2>5, RowsStay
  <2> QED
    BY <2>7, <2>8, <2>9, <2>10 DEF TableInv
<1> QED
  BY <1>5, <1>6

LEMMA EndsMove ==
    ASSUME TableInv, EndColumnMove
    PROVE  TableInv'
<1>1. carried' = Unset /\ shown \in TableViews
  BY DEF EndColumnMove, TableInv, CarriedFromGrid
<1>2. CASE ~carried.moved /\ carried.column \in DOMAIN shown.columns
  <2>1. shown.columns \in Seq(ColumnNames)
    BY <1>1, ShapesAre DEF TableViews
  <2>2. shown.columns[carried.column] \in ColumnNames
    BY <1>2, <2>1
  <2>3. ToggleSort(shown.columns[carried.column])
    BY <1>2 DEF EndColumnMove
  <2> QED
    BY <1>1, <2>2, <2>3, SortCycles
<1>3. CASE ~ (~carried.moved /\ carried.column \in DOMAIN shown.columns)
  <2>1. UNCHANGED <<room, shape, page, where_clause, sort, page_size_draft, load, failed, shown, arranged>>
    BY <1>3 DEF EndColumnMove
  <2> QED
    BY <1>1, <2>1 DEF TableInv, TableTypes, AllDrawn, SortIsAsked, CarriedFromGrid, SettledIsAsked, Drawn
<1> QED
  BY <1>2, <1>3

LEMMA Elsewhere ==
    ASSUME TableInv,
           \/ Fail
           \/ shown # Unset /\ \E i \in DOMAIN shown.columns : BeginColumnMove(i)
           \/ \E columns \in room.shapes : AlterTable(columns)
           \/ UNCHANGED tableVars
    PROVE  TableInv'
<1>1. CASE Fail
  BY <1>1 DEF Fail, TableInv, TableTypes, AllDrawn, SortIsAsked, CarriedFromGrid, SettledIsAsked, Drawn
<1>2. ASSUME shown # Unset, NEW i \in DOMAIN shown.columns, BeginColumnMove(i)
      PROVE  TableInv'
  BY <1>2 DEF BeginColumnMove, TableInv, TableTypes, AllDrawn, SortIsAsked, CarriedFromGrid, SettledIsAsked, Drawn
<1>3. ASSUME NEW columns \in room.shapes, AlterTable(columns)
      PROVE  TableInv'
  BY <1>3 DEF AlterTable, TableInv, TableTypes, AllDrawn, SortIsAsked, CarriedFromGrid, SettledIsAsked, Drawn
<1>4. CASE UNCHANGED tableVars
  BY <1>4 DEF tableVars, TableInv, TableTypes, AllDrawn, SortIsAsked, CarriedFromGrid, SettledIsAsked, Drawn
<1> QED
  BY <1>1, <1>2, <1>3, <1>4

LEMMA TableStep ==
    ASSUME TableInv, [TableNext]_tableVars
    PROVE  TableInv'
BY Asking, Lands, Drags, EndsMove, Elsewhere DEF TableNext

LEMMA TableBegins ==
    ASSUME TableInit
    PROVE  TableInv
<1>1. /\ room \in Rooms /\ shape \in room.shapes /\ page \in [limit : room.limits, offset : {0}]
      /\ where_clause = NoFilter /\ sort = Unset /\ load = Unset /\ shown = Unset
      /\ arranged = <<>> /\ carried = Unset
  BY DEF TableInit
<1>2. arranged \in Seq(ColumnNames) /\ Distinct(arranged)
  BY <1>1 DEF Distinct
<1>3. page \in Pages
  BY <1>1 DEF Pages
<1>4. TableTypes
  BY <1>1, <1>2, <1>3 DEF TableTypes, Clauses, TableSorts
<1>5. SortIsAsked /\ CarriedFromGrid /\ SettledIsAsked
  BY <1>1 DEF SortIsAsked, CarriedFromGrid, SettledIsAsked
<1> QED
  BY <1>4, <1>5, <1>1 DEF TableInv, AllDrawn

LEMMA ShowsAsked ==
    ASSUME TableInv
    PROVE  TableShowsAsked
<1>1. ASSUME shown # Unset
      PROVE  /\ Members(shown.order) = DOMAIN shown.columns /\ Len(shown.order) = Len(shown.columns)
             /\ Known(arranged, shown.columns) = Known(Drawn(shown), arranged)
  <2> DEFINE o == shown.order
             n == Len(shown.columns)
  <2>1. shown \in TableViews /\ IsOrder(o, n) /\ Known(arranged, shown.columns) = Known(Drawn(shown), arranged)
    BY <1>1 DEF TableInv, TableTypes, AllDrawn
  <2>2. DOMAIN shown.columns = 1..n
    BY <2>1, ShapesAre DEF TableViews
  <2>3. o \in Seq(1..n) /\ Len(o) = n /\ \A k \in 1..n : Occurs(k, o)
    BY <2>1 DEF IsOrder
  <2>4. \A k : k \in Members(o) <=> Occurs(k, o)
    BY <2>3, MembersAre
  <2> HIDE DEF o, n
  <2>5. \A k : Occurs(k, o) => k \in 1..n
    <3>1. \A i \in 1..Len(o) : o[i] \in 1..n
      BY <2>3
    <3> QED
      BY <3>1 DEF Occurs
  <2>6. Members(o) = 1..n
    BY <2>3, <2>4, <2>5
  <2> QED
    BY <2>1, <2>2, <2>3, <2>6 DEF o, n
<1> QED
  BY <1>1 DEF TableInv, TableShowsAsked, DrawnAsArranged

(***************************************************************************)
(* What a table's grid shows once nothing is in flight is what was asked   *)
(* for last, and its columns are each drawn once, in the order the user    *)
(* gave them: root.rs's load_table and page, tabs.rs's move_column and     *)
(* apply_order, for any tables, pages and filters, whatever columns come   *)
(* and go between two loads.                                               *)
(***************************************************************************)
THEOREM GridCorrect == TableSpec => []TableShowsAsked
<1>1. TableInit => TableInv
  BY TableBegins
<1>2. TableInv /\ [TableNext]_tableVars => TableInv'
  BY TableStep
<1>3. TableInv => TableShowsAsked
  BY ShowsAsked
<1> QED
  BY <1>1, <1>2, <1>3, PTL DEF TableSpec

-----------------------------------------------------------------------------
(* The order of a result's rows *)

StrictOrder(ahead, n) ==
  /\ \A i \in 1..n : <<i, i>> \notin ahead
  /\ \A i, j \in 1..n : i # j => <<i, j>> \in ahead \/ <<j, i>> \in ahead
  /\ \A i, j, k \in 1..n : <<i, j>> \in ahead /\ <<j, k>> \in ahead => <<i, k>> \in ahead

InOrderOf(s, ahead, n) ==
  s \in [1..n -> 1..n] /\ \A i, j \in 1..n : i < j => <<s[i], s[j]>> \in ahead

\* A place is after as many as are ahead of it.
LEMMA SomeOrder ==
    ASSUME NEW n \in Nat, NEW ahead, StrictOrder(ahead, n)
    PROVE  \E s : InOrderOf(s, ahead, n)
<1> DEFINE Before(i) == {j \in 1..n : <<j, i>> \in ahead}
           at == [i \in 1..n |-> Cardinality(Before(i)) + 1]
<1>1. IsFiniteSet(1..n) /\ Cardinality(1..n) = n
  <2>1. IsFiniteSet(1..n) /\ Cardinality(1..n) = IF 1 > n THEN 0 ELSE n - 1 + 1
    BY FS_Interval
  <2> QED
    BY <2>1
<1>2. \A i \in 1..n : Before(i) \subseteq 1..n /\ i \notin Before(i)
  BY DEF StrictOrder
<1>3. \A i, j \in 1..n : <<i, j>> \in ahead => Before(i) \subseteq Before(j) /\ i \in Before(j)
  BY DEF StrictOrder
<1> HIDE DEF Before
<1>4. \A i \in 1..n : IsFiniteSet(Before(i)) /\ Cardinality(Before(i)) \in 0..n - 1
  <2> TAKE i \in 1..n
  <2>1. IsFiniteSet(Before(i)) /\ Cardinality(Before(i)) <= n
    BY <1>1, <1>2, FS_Subset
  <2>2. Cardinality(Before(i)) \in Nat
    BY <2>1, FS_CardinalityType
  <2>3. Cardinality(Before(i)) # n
    <3>1. Cardinality(1..n) = Cardinality(Before(i)) => 1..n = Before(i)
      BY <1>1, <1>2, FS_Subset
    <3> QED
      BY <3>1, <1>1, <1>2
  <2> QED
    BY <2>1, <2>2, <2>3
<1>5. at \in [1..n -> 1..n] /\ \A i \in 1..n : at[i] = Cardinality(Before(i)) + 1
  <2>1. \A i \in 1..n : Cardinality(Before(i)) + 1 \in 1..n
    BY <1>4
  <2> QED
    BY <2>1
<1> HIDE DEF at
<1>6. \A i, j \in 1..n : <<i, j>> \in ahead => at[i] < at[j]
  <2> SUFFICES ASSUME NEW i \in 1..n, NEW j \in 1..n, <<i, j>> \in ahead
               PROVE  at[i] < at[j]
    OBVIOUS
  <2>1. Before(i) \subseteq Before(j) /\ i \in Before(j) /\ i \notin Before(i)
    BY <1>2, <1>3
  <2>2. /\ Cardinality(Before(i)) <= Cardinality(Before(j))
        /\ Cardinality(Before(j)) = Cardinality(Before(i)) => Before(j) = Before(i)
    <3>1. IsFiniteSet(Before(j)) /\ Before(i) \in SUBSET Before(j)
      BY <1>4, <2>1
    <3> QED
      BY <3>1, FS_Subset
  <2>3. Cardinality(Before(j)) # Cardinality(Before(i))
    BY <2>1, <2>2
  <2>4. Cardinality(Before(i)) \in Nat /\ Cardinality(Before(j)) \in Nat
    BY <1>4
  <2> QED
    BY <1>5, <2>2, <2>3, <2>4
<1>7. \A i, j \in 1..n : at[i] = at[j] => i = j
  <2> SUFFICES ASSUME NEW i \in 1..n, NEW j \in 1..n, i # j
               PROVE  at[i] # at[j]
    OBVIOUS
  <2>1. at[i] \in 1..n /\ at[j] \in 1..n
    BY <1>5
  <2>2. <<i, j>> \in ahead \/ <<j, i>> \in ahead
    BY DEF StrictOrder
  <2>3. at[i] < at[j] \/ at[j] < at[i]
    BY <1>6, <2>2
  <2> QED
    BY <2>1, <2>3
<1>8. at \in Injection(1..n, 1..n)
  BY <1>5, <1>7 DEF Injection, IsInjective
<1>9. at \in Surjection(1..n, 1..n)
  BY <1>1, <1>8, FS_Injection
<1>10. \A k \in 1..n : \E i \in 1..n : at[i] = k
  BY <1>9 DEF Surjection
<1> DEFINE s == [k \in 1..n |-> CHOOSE i \in 1..n : at[i] = k]
<1>11. s \in [1..n -> 1..n] /\ \A k \in 1..n : at[s[k]] = k
  <2>1. \A k \in 1..n : (CHOOSE i \in 1..n : at[i] = k) \in 1..n /\ at[CHOOSE i \in 1..n : at[i] = k] = k
    BY <1>10
  <2> QED
    BY <2>1
<1> HIDE DEF s
<1>12. \A i, j \in 1..n : i < j => <<s[i], s[j]>> \in ahead
  <2> SUFFICES ASSUME NEW i \in 1..n, NEW j \in 1..n, i < j
               PROVE  <<s[i], s[j]>> \in ahead
    OBVIOUS
  <2>1. s[i] \in 1..n /\ s[j] \in 1..n /\ at[s[i]] = i /\ at[s[j]] = j
    BY <1>11
  <2>2. s[i] # s[j]
    BY <2>1
  <2>3. <<s[i], s[j]>> \in ahead \/ <<s[j], s[i]>> \in ahead
    BY <2>1, <2>2 DEF StrictOrder
  <2>4. <<s[j], s[i]>> \in ahead => j < i
    <3>1. <<s[j], s[i]>> \in ahead => at[s[j]] < at[s[i]]
      BY <2>1, <1>6
    <3> QED
      BY <3>1, <2>1
  <2> QED
    BY <2>3, <2>4
<1> QED
  BY <1>11, <1>12 DEF InOrderOf

LEMMA SortedIs ==
    ASSUME NEW n \in Nat, NEW ahead, StrictOrder(ahead, n)
    PROVE  /\ InOrderOf(Sorted(n, ahead), ahead, n)
           /\ \A i, j \in 1..n : Sorted(n, ahead)[i] = Sorted(n, ahead)[j] => i = j
<1> DEFINE s == Sorted(n, ahead)
<1>1. \E t \in [1..n -> 1..n] : \A i, j \in 1..n : i < j => <<t[i], t[j]>> \in ahead
  BY SomeOrder DEF InOrderOf
<1>2. s \in [1..n -> 1..n] /\ \A i, j \in 1..n : i < j => <<s[i], s[j]>> \in ahead
  <2> DEFINE Right(t) == \A i, j \in 1..n : i < j => <<t[i], t[j]>> \in ahead
  <2>1. \E t \in [1..n -> 1..n] : Right(t)
    BY <1>1
  <2>2. s = CHOOSE t \in [1..n -> 1..n] : Right(t)
    BY DEF Sorted
  <2> HIDE DEF s, Right
  <2>3. s \in [1..n -> 1..n] /\ Right(s)
    BY <2>1, <2>2
  <2> QED
    BY <2>3 DEF Right
<1> HIDE DEF s
<1>3. \A i, j \in 1..n : s[i] = s[j] => i = j
  <2> SUFFICES ASSUME NEW i \in 1..n, NEW j \in 1..n, i # j
               PROVE  s[i] # s[j]
    OBVIOUS
  <2>1. i < j \/ j < i
    OBVIOUS
  <2>2. <<s[i], s[j]>> \in ahead \/ <<s[j], s[i]>> \in ahead
    BY <1>2, <2>1
  <2>3. s[i] \in 1..n /\ s[j] \in 1..n
    BY <1>2
  <2>4. <<s[i], s[i]>> \notin ahead
    BY <2>3 DEF StrictOrder
  <2> QED
    BY <2>2, <2>4
<1> QED
  BY <1>2, <1>3 DEF InOrderOf, s

Ascending(rows) == \A i, j \in 1..Len(rows) : i < j => rows[i] < rows[j]

\* As the origins go, so go the rows.
Alike(origin, rows) ==
  /\ Len(origin) = Len(rows)
  /\ \A i, j \in 1..Len(rows) : origin[i] < origin[j] <=> rows[i] < rows[j]

ViewOK(view) ==
  /\ view \in Views /\ Distinct(view.rows)
  /\ view.origin = <<>> => Ascending(view.rows)
  /\ view.origin # <<>> => Alike(view.origin, view.rows)

LEMMA PutIs ==
    ASSUME NEW view, ViewOK(view), NEW s \in [1..Len(view.rows) -> 1..Len(view.rows)],
           \A i, j \in 1..Len(view.rows) : s[i] = s[j] => i = j
    PROVE  LET put == Put(view, s) IN
           /\ put \in Views /\ put.of = view.of /\ Len(put.rows) = Len(view.rows)
           /\ \A i \in 1..Len(view.rows) : put.rows[i] = view.rows[s[i]]
           /\ ViewOK(put)
<1> DEFINE n == Len(view.rows)
           put == Put(view, s)
           o == IF view.origin = <<>> THEN [i \in DOMAIN view.rows |-> i] ELSE view.origin
           r == [i \in 1..n |-> view.rows[s[i]]]
           p == [i \in 1..n |-> o[s[i]]]
<1>1. /\ view \in Views /\ view.rows \in Seq(Ranked) /\ view.origin \in Seq(Nat)
      /\ Distinct(view.rows) /\ n \in Nat /\ DOMAIN view.rows = 1..n
      /\ \A i \in 1..n : view.rows[i] \in Ranked /\ view.rows[i] \in Nat
  BY DEF ViewOK, Views, Ranked
<1>2. ASSUME view.origin = <<>> PROVE \A i \in 1..n : o[i] = i
  BY <1>1, <1>2
<1>3. ASSUME view.origin # <<>> PROVE o = view.origin
  BY <1>3
<1>4. put = [view EXCEPT !.rows = r, !.origin = p]
  <2>1. DOMAIN s = 1..n
    OBVIOUS
  <2> QED
    BY <2>1 DEF Put
<1> HIDE DEF o, put
<1>5. /\ \A i \in 1..n : o[i] \in Nat
      /\ \A i, j \in 1..n : o[i] < o[j] <=> view.rows[i] < view.rows[j]
  <2>1. CASE view.origin = <<>>
    <3>1. \A i \in 1..n : o[i] = i
      BY <1>2, <2>1
    <3>2. \A i, j \in 1..n : i < j <=> view.rows[i] < view.rows[j]
      <4> TAKE i, j \in 1..n
      <4>1. \A k, l \in 1..n : k < l => view.rows[k] < view.rows[l]
        BY <2>1 DEF ViewOK, Ascending
      <4>2. i < j \/ j < i \/ i = j
        OBVIOUS
      <4>3. view.rows[i] \in Nat /\ view.rows[j] \in Nat
        BY <1>1
      <4> QED
        BY <4>1, <4>2, <4>3
    <3>3. \A i \in 1..n : o[i] \in Nat
      BY <3>1
    <3>4. ASSUME NEW i \in 1..n, NEW j \in 1..n
          PROVE  o[i] < o[j] <=> view.rows[i] < view.rows[j]
      <4>1. o[i] = i /\ o[j] = j
        BY <3>1
      <4> QED
        BY <4>1, <3>2
    <3> QED
      BY <3>3, <3>4
  <2>2. CASE view.origin # <<>>
    <3>1. o = view.origin /\ Len(o) = n /\ \A i, j \in 1..n : o[i] < o[j] <=> view.rows[i] < view.rows[j]
      BY <1>3, <2>2 DEF ViewOK, Alike
    <3>2. \A i \in 1..n : o[i] \in Nat
      BY <3>1, <1>1
    <3> QED
      BY <3>1, <3>2
  <2> QED
    BY <2>1, <2>2
<1>6. \A i \in 1..n : s[i] \in 1..n
  OBVIOUS
<1>7. r \in Seq(Ranked) /\ Len(r) = n /\ \A i \in 1..n : r[i] = view.rows[s[i]]
  BY <1>1, <1>6
<1>8. p \in Seq(Nat) /\ Len(p) = n /\ \A i \in 1..n : p[i] = o[s[i]]
  <2>1. \A i \in 1..n : o[s[i]] \in Nat
    BY <1>5, <1>6
  <2> QED
    BY <1>1, <2>1
<1> HIDE DEF r, p
<1>9. put \in Views /\ put.of = view.of /\ put.rows = r /\ put.origin = p
  BY <1>1, <1>4, <1>7, <1>8 DEF Views
<1>10. Distinct(r)
  <2> SUFFICES ASSUME NEW i \in 1..n, NEW j \in 1..n, r[i] = r[j]
               PROVE  i = j
    BY <1>7 DEF Distinct
  <2>1. view.rows[s[i]] = view.rows[s[j]]
    BY <1>7
  <2>2. s[i] = s[j]
    BY <2>1, <1>1, <1>6 DEF Distinct
  <2> QED
    BY <2>2
<1>11. Alike(p, r)
  <2>1. ASSUME NEW i \in 1..n, NEW j \in 1..n
        PROVE  p[i] < p[j] <=> r[i] < r[j]
    <3>1. o[s[i]] < o[s[j]] <=> view.rows[s[i]] < view.rows[s[j]]
      BY <1>5, <1>6
    <3> QED
      BY <3>1, <1>7, <1>8
  <2> QED
    BY <2>1, <1>7, <1>8 DEF Alike
<1>12. p = <<>> => Ascending(r)
  <2> SUFFICES ASSUME p = <<>> PROVE Ascending(r)
    OBVIOUS
  <2>1. Len(r) = 0
    BY <1>7, <1>8
  <2> QED
    BY <2>1 DEF Ascending
<1>13. ViewOK(put)
  BY <1>9, <1>10, <1>11, <1>12 DEF ViewOK
<1> QED
  BY <1>7, <1>9, <1>13 DEF put

LEMMA RestoreIs ==
    ASSUME NEW view, ViewOK(view)
    PROVE  LET put == RestoreServerOrder(view) IN
           ViewOK(put) /\ put.of = view.of /\ Ascending(put.rows)
<1> DEFINE n == Len(view.rows)
           ahead == {p \in Places(view) : view.origin[p[1]] < view.origin[p[2]]}
           s == Sorted(n, ahead)
           put == Put(view, s)
<1>1. view \in Views /\ view.rows \in Seq(Ranked) /\ n \in Nat /\ DOMAIN view.rows = 1..n
      /\ Distinct(view.rows)
  BY DEF ViewOK, Views
<1>2. \A i \in 1..n : view.rows[i] \in Nat
  BY <1>1 DEF Ranked
<1>3. view # Nil
  BY <1>1, ResultsAssumption
<1>4. CASE view.origin = <<>>
  BY <1>4 DEF RestoreServerOrder, ViewOK
<1>5. CASE view.origin # <<>>
  <2>1. \A i, j \in 1..n : <<i, j>> \in ahead <=> view.rows[i] < view.rows[j]
    <3>1. \A i, j \in 1..n : view.origin[i] < view.origin[j] <=> view.rows[i] < view.rows[j]
      BY <1>5 DEF ViewOK, Alike
    <3>2. \A i, j \in 1..n : <<i, j>> \in Places(view)
      BY <1>1 DEF Places
    <3> QED
      BY <3>1, <3>2
  <2> HIDE DEF ahead
  <2>2. StrictOrder(ahead, n)
    <3>1. \A i \in 1..n : <<i, i>> \notin ahead
      BY <2>1, <1>2
    <3>2. \A i, j \in 1..n : i # j => <<i, j>> \in ahead \/ <<j, i>> \in ahead
      <4> TAKE i, j \in 1..n
      <4>1. i # j => view.rows[i] # view.rows[j]
        BY <1>1 DEF Distinct
      <4> QED
        BY <4>1, <2>1, <1>2
    <3>3. \A i, j, k \in 1..n : <<i, j>> \in ahead /\ <<j, k>> \in ahead => <<i, k>> \in ahead
      <4> TAKE i, j, k \in 1..n
      <4>1. view.rows[i] \in Nat /\ view.rows[j] \in Nat /\ view.rows[k] \in Nat
        BY <1>2
      <4> QED
        BY <4>1, <2>1
    <3> QED
      BY <3>1, <3>2, <3>3 DEF StrictOrder
  <2>3. /\ s \in [1..n -> 1..n] /\ \A i, j \in 1..n : i < j => <<s[i], s[j]>> \in ahead
        /\ \A i, j \in 1..n : s[i] = s[j] => i = j
    BY <1>1, <2>2, SortedIs DEF InOrderOf
  <2> HIDE DEF s
  <2>4. /\ put \in Views /\ put.of = view.of /\ Len(put.rows) = n
        /\ \A i \in 1..n : put.rows[i] = view.rows[s[i]]
        /\ ViewOK(put)
    BY <2>3, PutIs
  <2>5. RestoreServerOrder(view) = [put EXCEPT !.origin = <<>>]
    BY <1>3, <1>5 DEF RestoreServerOrder, ahead, s
  <2> HIDE DEF put
  <2>6. Ascending(put.rows)
    <3> SUFFICES ASSUME NEW i \in 1..n, NEW j \in 1..n, i < j
                 PROVE  put.rows[i] < put.rows[j]
      BY <2>4 DEF Ascending
    <3>1. s[i] \in 1..n /\ s[j] \in 1..n /\ <<s[i], s[j]>> \in ahead
      BY <2>3
    <3> QED
      BY <3>1, <2>1, <2>4
  <2> DEFINE back == [put EXCEPT !.origin = <<>>]
  <2>7. back \in Views /\ back.of = put.of /\ back.rows = put.rows /\ back.origin = <<>>
    <3>1. <<>> \in Seq(Nat)
      OBVIOUS
    <3>2. put \in [of : Nat \X Nat, rows : Seq(Ranked), origin : Seq(Nat)]
      BY <2>4 DEF Views
    <3>3. back \in [of : Nat \X Nat, rows : Seq(Ranked), origin : Seq(Nat)]
      BY <3>1, <3>2
    <3> QED
      BY <3>2, <3>3 DEF Views
  <2>8. ViewOK(back)
    <3>1. Distinct(put.rows)
      BY <2>4 DEF ViewOK
    <3> HIDE DEF back
    <3> QED
      BY <3>1, <2>6, <2>7 DEF ViewOK
  <2> HIDE DEF back
  <2> QED
    BY <2>4, <2>5, <2>6, <2>7, <2>8 DEF back
<1> QED
  BY <1>4, <1>5

LEMMA SortRowsIs ==
    ASSUME NEW view, ViewOK(view), NEW col \in Columns, NEW up
    PROVE  LET put == SortRows(view, col, up) IN
           /\ ViewOK(put) /\ put.of = view.of
           /\ \A i, j \in 1..Len(put.rows) : i < j => ~Sorts(col, up, put.rows[j], put.rows[i])
<1> DEFINE n == Len(view.rows)
           ahead == {p \in Places(view) :
             LET i == view.rows[p[1]]  j == view.rows[p[2]]
             IN  Sorts(col, up, i, j) \/ (~Sorts(col, up, j, i) /\ p[1] < p[2])}
           s == Sorted(n, ahead)
           put == Put(view, s)
<1>1. view \in Views /\ view.rows \in Seq(Ranked) /\ n \in Nat /\ DOMAIN view.rows = 1..n
  BY DEF ViewOK, Views
<1>2. \A i \in 1..n : Rank[col][view.rows[i]] \in Int
  BY <1>1 DEF Ranked
<1> DEFINE At(i) == IF up THEN Rank[col][view.rows[i]] ELSE -Rank[col][view.rows[i]]
<1>3. \A i, j \in 1..n : At(i) \in Int /\ (Sorts(col, up, view.rows[i], view.rows[j]) <=> At(i) < At(j))
  BY <1>2 DEF Sorts
<1>4. \A i, j \in 1..n : <<i, j>> \in ahead <=> At(i) < At(j) \/ (~(At(j) < At(i)) /\ i < j)
  <2>1. \A i, j \in 1..n : <<i, j>> \in Places(view)
    BY <1>1 DEF Places
  <2>2. \A i, j \in 1..n : <<i, j>> \in ahead <=>
          Sorts(col, up, view.rows[i], view.rows[j])
            \/ (~Sorts(col, up, view.rows[j], view.rows[i]) /\ i < j)
    BY <2>1
  <2> HIDE DEF ahead, At
  <2> QED
    BY <2>2, <1>3
<1> HIDE DEF ahead, At
<1>5. StrictOrder(ahead, n)
  <2>1. \A i \in 1..n : <<i, i>> \notin ahead
    BY <1>3, <1>4
  <2>2. \A i, j \in 1..n : i # j => <<i, j>> \in ahead \/ <<j, i>> \in ahead
    <3> TAKE i, j \in 1..n
    <3>1. At(i) \in Int /\ At(j) \in Int
      BY <1>3
    <3> QED
      BY <3>1, <1>4
  <2>3. \A i, j, k \in 1..n : <<i, j>> \in ahead /\ <<j, k>> \in ahead => <<i, k>> \in ahead
    <3> TAKE i, j, k \in 1..n
    <3>1. At(i) \in Int /\ At(j) \in Int /\ At(k) \in Int
      BY <1>3
    <3> QED
      BY <3>1, <1>4
  <2> QED
    BY <2>1, <2>2, <2>3 DEF StrictOrder
<1>6. /\ s \in [1..n -> 1..n] /\ \A i, j \in 1..n : i < j => <<s[i], s[j]>> \in ahead
      /\ \A i, j \in 1..n : s[i] = s[j] => i = j
  BY <1>1, <1>5, SortedIs DEF InOrderOf
<1>7. SortRows(view, col, up) = put
  BY DEF SortRows, ahead
<1> HIDE DEF s
<1>8. /\ put.of = view.of /\ Len(put.rows) = n
      /\ \A i \in 1..n : put.rows[i] = view.rows[s[i]]
      /\ ViewOK(put)
  BY <1>6, PutIs
<1> HIDE DEF put
<1>9. \A i, j \in 1..n : i < j => ~Sorts(col, up, put.rows[j], put.rows[i])
  <2> SUFFICES ASSUME NEW i \in 1..n, NEW j \in 1..n, i < j
               PROVE  ~Sorts(col, up, put.rows[j], put.rows[i])
    OBVIOUS
  <2>1. s[i] \in 1..n /\ s[j] \in 1..n /\ <<s[i], s[j]>> \in ahead
    BY <1>6
  <2>2. ~(At(s[j]) < At(s[i]))
    <3>1. At(s[i]) \in Int /\ At(s[j]) \in Int
      BY <2>1, <1>3
    <3> QED
      BY <3>1, <2>1, <1>4
  <2>3. ~Sorts(col, up, view.rows[s[j]], view.rows[s[i]])
    BY <2>1, <2>2, <1>3
  <2> QED
    BY <2>3, <1>8
<1> QED
  BY <1>7, <1>8, <1>9
-----------------------------------------------------------------------------
(* The results on a tab *)

Results == [of : Nat \X Nat, has : BOOLEAN, rows : Views \cup {Nil}]

ResultTabs ==
  [results : Seq(Results), active : Nat, shown : Views \cup {Nil},
   sort : [col : Columns, up : BOOLEAN] \cup {Nil}, selected : Nat \cup {Nil},
   pinned : BOOLEAN, lost : SUBSET Nat, clicked : Nat \cup {Nil}]

StripOK(pane) ==
  \A i \in DOMAIN pane.results : pane.results[i].rows # Nil => ViewOK(pane.results[i].rows)

TabOK(pane) ==
  /\ pane \in ResultTabs
  /\ pane.results # <<>> => pane.active \in DOMAIN pane.results
  /\ pane.shown # Nil => ViewOK(pane.shown)
  /\ StripOK(pane)
  /\ HeldOnce(pane)
  /\ SelectedIsClicked(pane)
  /\ pane.pinned \/ ArrowTells(pane)

LEMMA ShownAs ==
    ASSUME NEW pane \in ResultTabs, NEW i \in DOMAIN pane.results, StripOK(pane)
    PROVE  LET new == ShowStatementResult(pane, i) IN
           /\ new \in ResultTabs
           /\ new.active = i /\ new.sort = Nil /\ new.selected = Nil
           /\ new.pinned = pane.pinned /\ new.lost = pane.lost
           /\ new.shown = RestoreServerOrder(pane.results[i].rows)
           /\ DOMAIN new.results = DOMAIN pane.results
           /\ \A j \in DOMAIN pane.results : j # i => new.results[j] = pane.results[j]
           /\ new.results[i] = [pane.results[i] EXCEPT !.rows = Nil]
<1> DEFINE ready == RestoreServerOrder(pane.results[i].rows)
           results == [pane.results EXCEPT ![i] = [pane.results[i] EXCEPT !.rows = Nil]]
           new == [[pane EXCEPT !.selected = Nil, !.clicked = Nil] EXCEPT
                      !.active = i, !.sort = Nil, !.shown = ready, !.results = results]
<1>1. pane.results \in Seq(Results) /\ i \in Nat /\ pane.results[i] \in Results
  BY DEF ResultTabs
<1>2. ready \in Views \cup {Nil}
  <2>1. CASE pane.results[i].rows = Nil
    BY <2>1 DEF RestoreServerOrder
  <2>2. CASE pane.results[i].rows # Nil
    BY <2>2, RestoreIs DEF StripOK, ViewOK
  <2> QED
    BY <2>1, <2>2
<1>3. [pane.results[i] EXCEPT !.rows = Nil] \in Results
  BY <1>1 DEF Results
<1>4. /\ results \in Seq(Results) /\ DOMAIN results = DOMAIN pane.results
      /\ \A j \in DOMAIN pane.results : j # i => results[j] = pane.results[j]
      /\ results[i] = [pane.results[i] EXCEPT !.rows = Nil]
  <2> DEFINE one == [pane.results[i] EXCEPT !.rows = Nil]
  <2> HIDE DEF one
  <2>1. one \in Results
    BY <1>3 DEF one
  <2>2. pane.results = [j \in 1..Len(pane.results) |-> pane.results[j]] /\ DOMAIN pane.results = 1..Len(pane.results)
    BY <1>1
  <2>3. DOMAIN results = DOMAIN pane.results
    BY <2>2
  <2>4. \A j \in DOMAIN pane.results : results[j] = IF j = i THEN one ELSE pane.results[j]
    BY <2>2 DEF one
  <2>5. results \in Seq(Results)
    BY <1>1, <2>1 DEF one
  <2> QED
    BY <2>3, <2>4, <2>5 DEF one
<1>5. ShowStatementResult(pane, i) = new
  BY DEF ShowStatementResult, Unselected
<1> HIDE DEF ready, results
<1>6. /\ new \in ResultTabs /\ new.active = i /\ new.sort = Nil /\ new.selected = Nil
      /\ new.pinned = pane.pinned /\ new.lost = pane.lost /\ new.shown = ready /\ new.results = results
  BY <1>1, <1>2, <1>4 DEF ResultTabs
<1> HIDE DEF new
<1> QED
  BY <1>4, <1>5, <1>6 DEF ready

\* The strip has all the rows there are, and any result of it may be shown.
AllInStrip(pane) ==
  /\ pane \in ResultTabs /\ StripOK(pane)
  /\ \A j \in DOMAIN pane.results :
       /\ pane.results[j].rows # Nil => pane.results[j].rows.of = pane.results[j].of
       /\ pane.results[j].has /\ j \notin pane.lost => pane.results[j].rows # Nil

LEMMA ShowIs ==
    ASSUME NEW pane, AllInStrip(pane), NEW i \in DOMAIN pane.results
    PROVE  TabOK(ShowStatementResult(pane, i))
<1> DEFINE new == ShowStatementResult(pane, i)
           rows == pane.results[i].rows
<1>1. /\ new \in ResultTabs
      /\ new.active = i /\ new.sort = Nil /\ new.selected = Nil
      /\ new.pinned = pane.pinned /\ new.lost = pane.lost
      /\ new.shown = RestoreServerOrder(rows)
      /\ DOMAIN new.results = DOMAIN pane.results
      /\ \A j \in DOMAIN pane.results : j # i => new.results[j] = pane.results[j]
      /\ new.results[i] = [pane.results[i] EXCEPT !.rows = Nil]
  BY ShownAs DEF AllInStrip
<1>2. pane.results[i] \in Results
  BY DEF AllInStrip, ResultTabs
<1>3. /\ new.results[i].rows = Nil /\ new.results[i].of = pane.results[i].of
      /\ new.results[i].has = pane.results[i].has
  BY <1>1, <1>2 DEF Results
<1> HIDE DEF new
<1>4. rows = Nil => new.shown = Nil
  BY <1>1 DEF RestoreServerOrder
<1>5. rows # Nil => /\ ViewOK(new.shown) /\ new.shown.of = pane.results[i].of
                    /\ Ascending(new.shown.rows) /\ new.shown # Nil
  <2> SUFFICES ASSUME rows # Nil
               PROVE  /\ ViewOK(new.shown) /\ new.shown.of = pane.results[i].of
                      /\ Ascending(new.shown.rows) /\ new.shown # Nil
    OBVIOUS
  <2>1. ViewOK(rows) /\ rows.of = pane.results[i].of
    BY DEF AllInStrip, StripOK
  <2>2. ViewOK(new.shown) /\ new.shown.of = rows.of /\ Ascending(new.shown.rows)
    BY <1>1, <2>1, RestoreIs
  <2> QED
    BY <2>1, <2>2, ResultsAssumption DEF ViewOK
<1>6. new.shown # Nil => ViewOK(new.shown)
  BY <1>4, <1>5
<1>7. StripOK(new)
  BY <1>1, <1>3 DEF AllInStrip, StripOK
<1>8. HeldOnce(new)
  <2> SUFFICES ASSUME NEW j \in DOMAIN pane.results
               PROVE  /\ new.results[j].rows # Nil => new.results[j].rows.of = new.results[j].of
                      /\ j = i => /\ new.results[j].rows = Nil
                                  /\ new.shown # Nil => new.shown.of = new.results[j].of
                      /\ new.results[j].has /\ j \notin pane.lost =>
                           (new.results[j].rows # Nil) = ~(j = i /\ new.shown # Nil)
    BY <1>1 DEF HeldOnce
  <2>1. CASE j = i
    <3>1. new.results[j].rows = Nil
      BY <2>1, <1>3
    <3>2. new.shown # Nil => new.shown.of = new.results[j].of
      BY <2>1, <1>3, <1>4, <1>5
    <3>3. new.results[j].has /\ j \notin pane.lost => new.shown # Nil
      BY <2>1, <1>3, <1>5 DEF AllInStrip
    <3> QED
      BY <2>1, <3>1, <3>2, <3>3
  <2>2. CASE j # i
    BY <2>2, <1>1 DEF AllInStrip
  <2> QED
    BY <2>1, <2>2
<1>9. SelectedIsClicked(new)
  BY <1>1 DEF SelectedIsClicked
<1>10. ArrowTells(new)
  <2> SUFFICES ASSUME new.shown # Nil, NEW k \in DOMAIN new.shown.rows, NEW l \in DOMAIN new.shown.rows, k < l
               PROVE  new.shown.rows[k] < new.shown.rows[l]
    BY <1>1 DEF ArrowTells
  <2>1. ViewOK(new.shown) /\ Ascending(new.shown.rows)
    BY <1>4, <1>5
  <2>2. DOMAIN new.shown.rows = 1..Len(new.shown.rows)
    BY <2>1 DEF ViewOK, Views
  <2> QED
    BY <2>1, <2>2 DEF Ascending
<1> QED
  BY <1>1, <1>6, <1>7, <1>8, <1>9, <1>10 DEF TabOK, new

LEMMA SameStrip ==
    ASSUME NEW pane, TabOK(pane), NEW new \in ResultTabs,
           new.results = pane.results, new.active = pane.active, new.lost = pane.lost,
           new.shown = Nil <=> pane.shown = Nil,
           new.shown # Nil => ViewOK(new.shown) /\ new.shown.of = pane.shown.of,
           SelectedIsClicked(new), new.pinned \/ ArrowTells(new)
    PROVE  TabOK(new)
<1>1. StripOK(new)
  BY DEF TabOK, StripOK
<1>2. HeldOnce(new)
  <2> SUFFICES ASSUME NEW i \in DOMAIN pane.results
               PROVE  LET result == pane.results[i] IN
                      /\ result.rows # Nil => result.rows.of = result.of
                      /\ i = pane.active => /\ result.rows = Nil
                                            /\ new.shown # Nil => new.shown.of = result.of
                      /\ result.has /\ i \notin pane.lost =>
                           (result.rows # Nil) = ~(i = pane.active /\ new.shown # Nil)
    BY DEF HeldOnce
  <2>1. LET result == pane.results[i] IN
        /\ result.rows # Nil => result.rows.of = result.of
        /\ i = pane.active => /\ result.rows = Nil
                              /\ pane.shown # Nil => pane.shown.of = result.of
        /\ result.has /\ i \notin pane.lost =>
             (result.rows # Nil) = ~(i = pane.active /\ pane.shown # Nil)
    BY DEF TabOK, HeldOnce
  <2> QED
    BY <2>1
<1> QED
  BY <1>1, <1>2 DEF TabOK

LEMMA ViewIs ==
    ASSUME NEW of \in Nat \X Nat, NEW n \in Nat, 1..n \subseteq Ranked
    PROVE  ViewOK(View(of, n)) /\ View(of, n).of = of
<1> DEFINE rows == [i \in 1..n |-> i]
<1>1. rows \in Seq(Ranked) /\ Len(rows) = n /\ \A i \in 1..n : rows[i] = i
  OBVIOUS
<1> HIDE DEF rows
<1>2. Distinct(rows) /\ Ascending(rows)
  BY <1>1 DEF Distinct, Ascending
<1>3. View(of, n) = [of |-> of, rows |-> rows, origin |-> <<>>]
  BY DEF View, rows
<1>4. [of |-> of, rows |-> rows, origin |-> <<>>] \in Views
  BY <1>1 DEF Views
<1> QED
  BY <1>2, <1>3, <1>4 DEF ViewOK

\* What a run brought back takes the place of what was on the tab.
LEMMA AbsorbedIs ==
    ASSUME NEW pane, TabOK(pane), NEW brought \in Seq(Nat \cup {Nil}), runs \in Nat,
           \A i \in DOMAIN brought : brought[i] # Nil => 1..brought[i] \subseteq Ranked
    PROVE  TabOK(Absorbed(pane, brought))
<1> DEFINE results == [i \in DOMAIN brought |->
                         [of |-> <<runs, i>>, has |-> brought[i] # Nil,
                          rows |-> IF brought[i] = Nil THEN Nil ELSE View(<<runs, i>>, brought[i])]]
           withRows == {i \in DOMAIN brought : brought[i] # Nil}
           at == IF withRows = {} THEN 1 ELSE CHOOSE i \in withRows : \A j \in withRows : i <= j
           mid == [Unselected(pane) EXCEPT !.results = results, !.active = at, !.lost = {}]
<1>1. DOMAIN brought = 1..Len(brought) /\ Len(brought) \in Nat /\ \A i \in DOMAIN brought : brought[i] \in Nat \cup {Nil}
  OBVIOUS
<1>2. \A i \in DOMAIN brought :
        /\ results[i] = [of |-> <<runs, i>>, has |-> brought[i] # Nil,
                         rows |-> IF brought[i] = Nil THEN Nil ELSE View(<<runs, i>>, brought[i])]
  OBVIOUS
<1>3. \A i \in DOMAIN brought :
        /\ results[i] \in Results
        /\ results[i].has <=> brought[i] # Nil
        /\ results[i].rows = Nil <=> brought[i] = Nil
        /\ results[i].rows # Nil => ViewOK(results[i].rows) /\ results[i].rows.of = results[i].of
  <2> TAKE i \in DOMAIN brought
  <2> HIDE DEF results
  <2>1. <<runs, i>> \in Nat \X Nat
    BY <1>1
  <2>2. CASE brought[i] = Nil
    <3>1. results[i] = [of |-> <<runs, i>>, has |-> FALSE, rows |-> Nil]
      BY <1>2, <2>2
    <3>2. results[i] \in Results
      BY <2>1, <3>1 DEF Results
    <3> QED
      BY <2>2, <3>1, <3>2
  <2>3. CASE brought[i] # Nil
    <3>1. ViewOK(View(<<runs, i>>, brought[i])) /\ View(<<runs, i>>, brought[i]).of = <<runs, i>>
      BY <1>1, <2>1, <2>3, ViewIs
    <3>2. View(<<runs, i>>, brought[i]) \in Views /\ View(<<runs, i>>, brought[i]) # Nil
      BY <3>1, ResultsAssumption DEF ViewOK
    <3>3. results[i] = [of |-> <<runs, i>>, has |-> TRUE, rows |-> View(<<runs, i>>, brought[i])]
      BY <1>2, <2>3
    <3>4. results[i] \in Results
      BY <2>1, <3>2, <3>3 DEF Results
    <3>5. /\ results[i].has = TRUE /\ results[i].of = <<runs, i>>
          /\ results[i].rows = View(<<runs, i>>, brought[i])
      BY <3>3
    <3>6. results[i].rows # Nil /\ ViewOK(results[i].rows) /\ results[i].rows.of = results[i].of
      BY <3>1, <3>2, <3>5
    <3> QED
      BY <2>3, <3>4, <3>5, <3>6
  <2> QED
    BY <2>2, <2>3
<1>4. results \in Seq(Results) /\ DOMAIN results = DOMAIN brought
  <2>1. DOMAIN results = 1..Len(brought) /\ results = [i \in DOMAIN results |-> results[i]]
    BY <1>1
  <2> HIDE DEF results
  <2>2. \A i \in 1..Len(brought) : results[i] \in Results
    BY <1>1, <1>3
  <2> QED
    BY <1>1, <2>1, <2>2
<1>5. at \in Nat /\ (brought # <<>> => at \in DOMAIN brought)
  <2>1. CASE withRows = {}
    <3>1. brought # <<>> => 1 \in DOMAIN brought
      BY <1>1
    <3> QED
      BY <2>1, <3>1
  <2>2. CASE withRows # {}
    <3> HIDE DEF withRows
    <3>1. \E i \in withRows : \A j \in withRows : i <= j
      <4>1. withRows \subseteq Nat
        BY <1>1 DEF withRows
      <4> QED
        BY <2>2, <4>1, FirstOf
    <3>2. at \in withRows
      BY <2>2, <3>1
    <3>3. at \in DOMAIN brought
      BY <3>2 DEF withRows
    <3> HIDE DEF at
    <3> QED
      BY <1>1, <3>3
  <2> QED
    BY <2>1, <2>2
<1>6. Absorbed(pane, brought) = ShowStatementResult(mid, at)
  BY DEF Absorbed
<1> HIDE DEF results, at
<1>7. /\ mid \in ResultTabs /\ mid.results = results /\ mid.lost = {}
      /\ mid.active = at /\ mid.selected = Nil /\ mid.pinned = pane.pinned
  BY <1>4, <1>5 DEF TabOK, ResultTabs, Unselected
<1> HIDE DEF mid
<1>8. CASE at \in DOMAIN results
  <2>1. StripOK(mid)
    BY <1>3, <1>4, <1>7 DEF StripOK
  <2>2. AllInStrip(mid)
    BY <1>3, <1>4, <1>7, <2>1 DEF AllInStrip
  <2> QED
    BY <1>4, <1>6, <1>7, <1>8, <2>2, ShowIs
<1>9. CASE at \notin DOMAIN results
  <2> DEFINE new == [mid EXCEPT !.shown = Nil]
  <2>1. Absorbed(pane, brought) = new
    BY <1>6, <1>7, <1>9 DEF ShowStatementResult
  <2>2. results = <<>>
    BY <1>4, <1>5, <1>9
  <2>3. new \in ResultTabs /\ new.results = <<>> /\ new.shown = Nil /\ new.selected = Nil
    BY <1>7, <2>2 DEF ResultTabs
  <2> HIDE DEF new
  <2>4. DOMAIN new.results = {}
    BY <2>3
  <2> QED
    BY <2>1, <2>3, <2>4 DEF TabOK, StripOK, HeldOnce, SelectedIsClicked, ArrowTells
<1> QED
  BY <1>8, <1>9

-----------------------------------------------------------------------------
(* Steps *)

ResultsInv ==
  /\ tabs \in Seq(ResultTabs)
  /\ front \in DOMAIN tabs /\ runs \in Nat /\ budget \in QueryRooms
  /\ \A t \in DOMAIN tabs : TabOK(tabs[t])

LEMMA OneTabIs ==
    ASSUME ResultsInv, NEW t \in DOMAIN tabs, NEW pane, TabOK(pane), tabs' = [tabs EXCEPT ![t] = pane],
           front' = front, runs' \in Nat, budget' = budget
    PROVE  ResultsInv'
<1>1. /\ DOMAIN tabs' = DOMAIN tabs
      /\ \A u \in DOMAIN tabs : tabs'[u] = IF u = t THEN pane ELSE tabs[u]
  BY DEF ResultsInv
<1>2. tabs' \in Seq(ResultTabs)
  BY DEF ResultsInv, TabOK
<1>3. \A u \in DOMAIN tabs' : TabOK(tabs[u])'
  BY <1>1 DEF ResultsInv, TabOK
<1> QED
  BY <1>1, <1>2, <1>3 DEF ResultsInv

LEMMA ShowsIs ==
    ASSUME ResultsInv, NEW pane, TabOK(pane), Shows(pane)
    PROVE  ResultsInv'
BY OneTabIs DEF Shows, ResultsInv

\* What the grid has goes back under the result it is of.
LEMMA BackIs ==
    ASSUME NEW pane, TabOK(pane), NEW i \in DOMAIN pane.results,
           NEW back, back = [pane EXCEPT !.results[pane.active].rows = pane.shown, !.shown = Nil]
    PROVE  /\ pane.results[pane.active].rows = Nil
           /\ AllInStrip(back) /\ DOMAIN back.results = DOMAIN pane.results
<1> DEFINE at == pane.active
           one == [pane.results[at] EXCEPT !.rows = pane.shown]
           results == [pane.results EXCEPT ![at] = one]
<1>1. /\ pane \in ResultTabs /\ pane.results \in Seq(Results) /\ pane.shown \in Views \cup {Nil}
      /\ pane.results # <<>>
  BY DEF TabOK, ResultTabs
<1>2. at \in DOMAIN pane.results
  BY <1>1 DEF TabOK
<1>3. pane.results[at] \in Results
  BY <1>1, <1>2
<1>4. /\ one \in Results /\ one.rows = pane.shown
      /\ one.of = pane.results[at].of /\ one.has = pane.results[at].has
  BY <1>1, <1>3 DEF Results
<1> HIDE DEF one
<1>5. /\ results \in Seq(Results) /\ DOMAIN results = DOMAIN pane.results
      /\ \A j \in DOMAIN pane.results : results[j] = IF j = at THEN one ELSE pane.results[j]
  <2> DEFINE given == pane.results
  <2>1. given \in Seq(Results)
    BY <1>1
  <2> HIDE DEF given
  <2>2. given = [j \in 1..Len(given) |-> given[j]] /\ DOMAIN given = 1..Len(given)
    BY <2>1
  <2>3. DOMAIN results = DOMAIN pane.results
    BY <2>2 DEF given
  <2>4. \A j \in DOMAIN pane.results : results[j] = IF j = at THEN one ELSE pane.results[j]
    BY <2>2 DEF given
  <2>5. results \in Seq(Results)
    <3>1. results = [j \in 1..Len(pane.results) |-> results[j]]
      BY <2>2 DEF given
    <3>2. \A j \in 1..Len(pane.results) : results[j] \in Results
      BY <1>1, <1>4, <2>4
    <3> HIDE DEF results
    <3>3. results \in [1..Len(pane.results) -> Results]
      BY <3>1, <3>2
    <3> QED
      BY <1>1, <3>3
  <2> QED
    BY <2>3, <2>4, <2>5
<1>6. back = [pane EXCEPT !.results = results, !.shown = Nil]
  BY DEF one
<1> HIDE DEF results
<1>7. back \in ResultTabs /\ back.results = results /\ back.lost = pane.lost
  BY <1>1, <1>5, <1>6 DEF ResultTabs
<1> HIDE DEF at
<1>8. \A j \in DOMAIN pane.results : LET result == pane.results[j] IN
        /\ result.rows # Nil => result.rows.of = result.of
        /\ j = at => result.rows = Nil /\ (pane.shown # Nil => pane.shown.of = result.of)
        /\ result.has /\ j \notin pane.lost => (result.rows # Nil) = ~(j = at /\ pane.shown # Nil)
  BY DEF TabOK, HeldOnce, at
<1>9. StripOK(back)
  BY <1>4, <1>5, <1>7 DEF StripOK, TabOK
<1>10. ASSUME NEW j \in DOMAIN pane.results
       PROVE  /\ back.results[j].rows # Nil => back.results[j].rows.of = back.results[j].of
              /\ back.results[j].has /\ j \notin back.lost => back.results[j].rows # Nil
  <2>1. CASE j = at
    <3>1. back.results[j] = one
      BY <2>1, <1>5, <1>7
    <3> QED
      BY <2>1, <3>1, <1>4, <1>7, <1>8
  <2>2. CASE j # at
    <3>1. back.results[j] = pane.results[j]
      BY <2>2, <1>5, <1>7
    <3> QED
      BY <2>2, <3>1, <1>7, <1>8
  <2> QED
    BY <2>1, <2>2
<1> QED
  BY <1>2, <1>5, <1>7, <1>8, <1>9, <1>10 DEF AllInStrip, at

LEMMA SelectIs ==
    ASSUME ResultsInv, NEW i \in DOMAIN InFront.results, SelectStatementResult(i)
    PROVE  ResultsInv'
<1> DEFINE back == [InFront EXCEPT !.results[InFront.active].rows = InFront.shown, !.shown = Nil]
<1>1. TabOK(InFront)
  BY DEF ResultsInv, InFront
<1>2. /\ InFront.results[InFront.active].rows = Nil
      /\ AllInStrip(back) /\ DOMAIN back.results = DOMAIN InFront.results
  <2> HIDE DEF back
  <2>1. back = [InFront EXCEPT !.results[InFront.active].rows = InFront.shown, !.shown = Nil]
    BY DEF back
  <2> QED
    BY <1>1, <2>1, BackIs, Zenon
<1>3. Shows(ShowStatementResult(back, i))
  BY <1>2 DEF SelectStatementResult
<1> HIDE DEF back
<1>4. TabOK(ShowStatementResult(back, i))
  BY <1>2, ShowIs
<1> QED
  BY <1>3, <1>4, ShowsIs

LEMMA SelectRowIs ==
    ASSUME ResultsInv, NEW i, SelectRow(i)
    PROVE  ResultsInv'
<1> DEFINE pane == InFront
           new == [pane EXCEPT !.selected = i, !.clicked = pane.shown.rows[i]]
<1>1. TabOK(pane)
  BY DEF ResultsInv, InFront
<1>2. pane.shown # Nil /\ i \in DOMAIN pane.shown.rows /\ Shows(new)
  BY DEF SelectRow
<1> HIDE DEF pane
<1>3. pane \in ResultTabs /\ ViewOK(pane.shown)
  BY <1>1, <1>2 DEF TabOK
<1>4. i \in Nat /\ pane.shown.rows[i] \in Nat
  <2>1. pane.shown.rows \in Seq(Ranked)
    BY <1>3 DEF ViewOK, Views
  <2> DEFINE rows == pane.shown.rows
  <2>2. i \in 1..Len(rows) /\ rows[i] \in Ranked
    <3> HIDE DEF rows
    <3>1. rows \in Seq(Ranked) /\ i \in DOMAIN rows
      BY <1>2, <2>1 DEF rows
    <3> QED
      BY <3>1
  <2> HIDE DEF rows
  <2> QED
    BY <2>2 DEF Ranked, rows
<1>5. /\ new \in ResultTabs /\ new.results = pane.results /\ new.active = pane.active /\ new.lost = pane.lost
      /\ new.shown = pane.shown /\ new.sort = pane.sort /\ new.pinned = pane.pinned
      /\ new.selected = i /\ new.clicked = pane.shown.rows[i]
  BY <1>3, <1>4 DEF ResultTabs
<1> HIDE DEF new
<1>6. SelectedIsClicked(new)
  BY <1>5 DEF SelectedIsClicked
<1>7. new.pinned \/ ArrowTells(new)
  BY <1>1, <1>5 DEF TabOK, ArrowTells
<1>8. TabOK(new)
  BY <1>1, <1>3, <1>5, <1>6, <1>7, SameStrip
<1> QED
  BY <1>2, <1>8, ShowsIs

\* Rows that were put in another order.
LEMMA OrderedIs ==
    ASSUME ResultsInv, InFront.shown # Nil, NEW next \in [col : Columns, up : BOOLEAN] \cup {Nil},
           NEW ready, ViewOK(ready), ready.of = InFront.shown.of,
           \A i, j \in 1..Len(ready.rows) : i < j =>
             IF next = Nil THEN ready.rows[i] < ready.rows[j]
             ELSE ~Sorts(next.col, next.up, ready.rows[j], ready.rows[i]),
           Shows([Unselected(InFront) EXCEPT !.sort = next, !.shown = ready])
    PROVE  ResultsInv'
<1> DEFINE pane == InFront
           new == [[pane EXCEPT !.selected = Nil, !.clicked = Nil] EXCEPT !.sort = next, !.shown = ready]
<1>1. TabOK(pane) /\ Shows(new)
  BY DEF ResultsInv, InFront, Unselected
<1>2. pane.shown # Nil /\ ready.of = pane.shown.of
  OBVIOUS
<1> HIDE DEF pane
<1>3. pane \in ResultTabs
  BY <1>1 DEF TabOK
<1>4. ready \in Views /\ ready # Nil /\ DOMAIN ready.rows = 1..Len(ready.rows)
  BY ResultsAssumption DEF ViewOK, Views
<1>5. /\ new \in ResultTabs /\ new.results = pane.results /\ new.active = pane.active /\ new.lost = pane.lost
      /\ new.shown = ready /\ new.sort = next /\ new.selected = Nil
  BY <1>3, <1>4 DEF ResultTabs
<1> HIDE DEF new
<1>6. SelectedIsClicked(new)
  BY <1>5 DEF SelectedIsClicked
<1>7. ArrowTells(new)
  BY <1>4, <1>5 DEF ArrowTells
<1>8. TabOK(new)
  BY <1>1, <1>2, <1>4, <1>5, <1>6, <1>7, SameStrip
<1> QED
  BY <1>1, <1>8, ShowsIs

LEMMA SortIs ==
    ASSUME ResultsInv, NEW col \in Columns, SortQueryResult(col)
    PROVE  ResultsInv'
<1> DEFINE next == NextSort(InFront.sort, col)
           view == InFront.shown
           ready == IF next = Nil THEN RestoreServerOrder(view) ELSE SortRows(view, col, next.up)
<1>1. InFront.shown # Nil /\ Shows([Unselected(InFront) EXCEPT !.sort = next, !.shown = ready])
  BY DEF SortQueryResult, Unselected
<1>2. next \in [col : Columns, up : BOOLEAN] \cup {Nil} /\ (next # Nil => next.col = col)
  BY DEF NextSort
<1>3. ViewOK(view)
  BY <1>1 DEF ResultsInv, InFront, TabOK
<1> HIDE DEF next, view
<1>4. /\ ViewOK(ready) /\ ready.of = view.of
      /\ \A i, j \in 1..Len(ready.rows) : i < j =>
           IF next = Nil THEN ready.rows[i] < ready.rows[j]
           ELSE ~Sorts(next.col, next.up, ready.rows[j], ready.rows[i])
  <2>1. CASE next = Nil
    BY <2>1, <1>3, RestoreIs DEF Ascending
  <2>2. CASE next # Nil
    BY <2>2, <1>2, <1>3, SortRowsIs
  <2> QED
    BY <2>1, <2>2
<1> HIDE DEF ready
<1> QED
  BY <1>1, <1>2, <1>4, OrderedIs DEF view

LEMMA ClearSortIs ==
    ASSUME ResultsInv, ClearQuerySort
    PROVE  ResultsInv'
<1> DEFINE view == InFront.shown
           ready == RestoreServerOrder(view)
<1>1. InFront.shown # Nil /\ Shows([Unselected(InFront) EXCEPT !.sort = Nil, !.shown = ready])
  BY DEF ClearQuerySort, Unselected
<1>2. ViewOK(view)
  BY <1>1 DEF ResultsInv, InFront, TabOK
<1> HIDE DEF view
<1>3. ViewOK(ready) /\ ready.of = view.of /\ Ascending(ready.rows)
  BY <1>2, RestoreIs
<1> HIDE DEF ready
<1> QED
  BY <1>1, <1>3, OrderedIs DEF view, Ascending

LEMMA LandIs ==
    ASSUME ResultsInv, NEW t \in DOMAIN tabs, NEW brought \in budget.batches, LandBatch(t, brought)
    PROVE  ResultsInv'
<1>1. brought \in Seq(Nat \cup {Nil}) /\ \A i \in DOMAIN brought : brought[i] # Nil => 1..brought[i] \subseteq Ranked
  BY ResultsAssumption DEF ResultsInv
<1> DEFINE new == Absorbed(tabs[t], brought)
<1>2. TabOK(new)
  BY <1>1, AbsorbedIs DEF ResultsInv
<1>3. tabs' = [tabs EXCEPT ![t] = new] /\ runs' \in Nat /\ UNCHANGED <<front, budget>>
  BY DEF LandBatch, ResultsInv
<1> HIDE DEF new
<1> QED
  BY <1>2, <1>3, OneTabIs

\* t is s with e put in at place i.
Inserted(S, t, s, i, e) ==
  /\ t \in Seq(S) /\ DOMAIN t = 1..Len(s) + 1
  /\ \A k \in 1..Len(s) + 1 : t[k] = IF k < i THEN s[k] ELSE IF k = i THEN e ELSE s[k - 1]

LEMMA InsertIs ==
    ASSUME NEW S, NEW s \in Seq(S), NEW i \in 1..Len(s) + 1, NEW e \in S
    PROVE  Inserted(S, Strips!InsertAt(s, i, e), s, i, e)
<1> DEFINE n == Len(s)
           u == SubSeq(s, 1, i - 1)
           w == <<e>>
           v == SubSeq(s, i, n)
           x == u \o w
           t == x \o v
<1>1. u \in Seq(S) /\ Len(u) = i - 1 /\ \A k \in 1..i - 1 : u[k] = s[k]
  OBVIOUS
<1>2. v \in Seq(S) /\ Len(v) = n + 1 - i /\ \A k \in 1..n + 1 - i : v[k] = s[i + k - 1]
  OBVIOUS
<1>3. w \in Seq(S) /\ Len(w) = 1 /\ w[1] = e
  OBVIOUS
<1>4. Strips!InsertAt(s, i, e) = t
  BY Zenon DEF Strips!InsertAt
<1> HIDE DEF u, v, w
<1>5. x \in Seq(S) /\ Len(x) = i /\ x[i] = e /\ \A k \in 1..i - 1 : x[k] = s[k]
  <2>1. /\ x \in Seq(S) /\ Len(x) = Len(u) + Len(w)
        /\ \A k \in 1..Len(u) + Len(w) : x[k] = IF k <= Len(u) THEN u[k] ELSE w[k - Len(u)]
    <3>1. u \in Seq(S) /\ w \in Seq(S)
      BY <1>1, <1>3
    <3> QED
      BY <3>1, ConcatProperties
  <2> HIDE DEF x
  <2>2. Len(u) + Len(w) = i /\ ~ (i <= Len(u)) /\ i - Len(u) = 1 /\ i \in 1..i
    BY <1>1, <1>3
  <2>3. x \in Seq(S) /\ Len(x) = i
    BY <2>1, <2>2
  <2>4. x[i] = e
    BY <2>1, <2>2, <1>3
  <2>5. \A k \in 1..i - 1 : x[k] = s[k]
    <3> TAKE k \in 1..i - 1
    <3>1. k \in 1..Len(u) + Len(w) /\ k <= Len(u)
      BY <2>2, <1>1
    <3> QED
      BY <3>1, <2>1, <1>1
  <2> QED
    BY <2>3, <2>4, <2>5
<1> HIDE DEF x
<1>6. /\ t \in Seq(S) /\ Len(t) = n + 1
      /\ \A k \in 1..n + 1 : t[k] = IF k <= i THEN x[k] ELSE v[k - i]
  <2>1. /\ t \in Seq(S) /\ Len(t) = Len(x) + Len(v)
        /\ \A k \in 1..Len(x) + Len(v) : t[k] = IF k <= Len(x) THEN x[k] ELSE v[k - Len(x)]
    <3>1. x \in Seq(S) /\ v \in Seq(S)
      BY <1>2, <1>5
    <3> QED
      BY <3>1, ConcatProperties
  <2> HIDE DEF t
  <2>2. Len(x) = i /\ Len(x) + Len(v) = n + 1
    BY <1>2, <1>5
  <2> QED
    BY <2>1, <2>2
<1> HIDE DEF t
<1>7. \A k \in 1..n + 1 : t[k] = IF k < i THEN s[k] ELSE IF k = i THEN e ELSE s[k - 1]
  <2> TAKE k \in 1..n + 1
  <2>1. CASE k < i
    BY <2>1, <1>5, <1>6
  <2>2. CASE k = i
    BY <2>2, <1>5, <1>6
  <2>3. CASE k > i
    <3>1. k - i \in 1..n + 1 - i /\ i + (k - i) - 1 = k - 1 /\ ~ (k <= i)
      BY <2>3
    <3>2. t[k] = v[k - i]
      BY <3>1, <1>6
    <3> QED
      BY <2>3, <3>1, <3>2, <1>2
  <2> QED
    BY <2>1, <2>2, <2>3
<1>8. DOMAIN t = 1..n + 1
  BY <1>6
<1> QED
  BY <1>4, <1>6, <1>7, <1>8 DEF Inserted

LEMMA PinIs ==
    ASSUME ResultsInv, PinActive
    PROVE  ResultsInv'
<1> DEFINE pane == InFront
           pin == [EmptyTab EXCEPT !.results = pane.results, !.active = pane.active,
                                   !.shown = pane.shown, !.pinned = TRUE, !.lost = pane.lost]
           n == Len(tabs)
<1>1. TabOK(pane) /\ tabs \in Seq(ResultTabs) /\ n \in Nat /\ front \in 1..n /\ DOMAIN tabs = 1..n
  BY DEF ResultsInv, InFront
<1>2. pane.shown # Nil /\ tabs' = Strips!InsertAt(tabs, front + 1, pin) /\ UNCHANGED <<front, runs, budget>>
  BY DEF PinActive
<1> HIDE DEF pane
<1>3. TabOK(pin)
  <2>1. pane \in ResultTabs
    BY <1>1 DEF TabOK
  <2>2. /\ pin \in ResultTabs /\ pin.results = pane.results /\ pin.active = pane.active /\ pin.lost = pane.lost
        /\ pin.shown = pane.shown /\ pin.selected = Nil /\ pin.pinned
    BY <2>1 DEF ResultTabs, EmptyTab
  <2> HIDE DEF pin
  <2>3. SelectedIsClicked(pin)
    BY <2>2 DEF SelectedIsClicked
  <2>4. ViewOK(pane.shown)
    BY <1>1, <1>2 DEF TabOK
  <2> QED
    BY <1>1, <2>2, <2>3, <2>4, SameStrip
<1> HIDE DEF pin
<1>4. pin \in ResultTabs /\ front + 1 \in 1..n + 1
  BY <1>1, <1>3 DEF TabOK
<1>5. /\ tabs' \in Seq(ResultTabs) /\ DOMAIN tabs' = 1..n + 1
      /\ \A k \in 1..n + 1 : tabs'[k] =
           IF k < front + 1 THEN tabs[k] ELSE IF k = front + 1 THEN pin ELSE tabs[k - 1]
  <2>1. front + 1 \in 1..Len(tabs) + 1
    BY <1>4
  <2>2. Inserted(ResultTabs, Strips!InsertAt(tabs, front + 1, pin), tabs, front + 1, pin)
    BY <1>1, <1>4, <2>1, InsertIs, Zenon
  <2>3. Inserted(ResultTabs, tabs', tabs, front + 1, pin)
    BY <1>2, <2>2, Zenon
  <2> QED
    BY <2>3 DEF Inserted
<1>6. \A k \in 1..n + 1 : TabOK(tabs'[k])
  <2> TAKE k \in 1..n + 1
  <2>1. CASE k < front + 1
    BY <2>1, <1>1, <1>5 DEF ResultsInv
  <2>2. CASE k = front + 1
    BY <2>2, <1>1, <1>3, <1>5
  <2>3. CASE k > front + 1
    <3>1. k - 1 \in 1..n /\ ~(k < front + 1) /\ k # front + 1
      BY <2>3, <1>1
    <3> QED
      BY <3>1, <1>1, <1>5 DEF ResultsInv
  <2> QED
    BY <2>1, <2>2, <2>3, <1>1
<1>7. \A k \in DOMAIN tabs' : TabOK(tabs[k])'
  BY <1>5, <1>6 DEF TabOK
<1>8. front' \in DOMAIN tabs'
  BY <1>1, <1>2, <1>5
<1> QED
  BY <1>2, <1>5, <1>7, <1>8 DEF ResultsInv

\* The rows in the grids go with the connection.
LEMMA ClearIs ==
    ASSUME ResultsInv, ClearResults
    PROVE  ResultsInv'
<1> DEFINE Cleared(pane) ==
             [Unselected(pane) EXCEPT !.shown = Nil,
                !.lost = IF pane.results = <<>> THEN @ ELSE @ \cup {pane.active}]
<1>1. tabs' = [t \in DOMAIN tabs |-> Cleared(tabs[t])] /\ UNCHANGED <<front, runs, budget>>
  BY DEF ClearResults
<1>2. ASSUME NEW pane, TabOK(pane)
      PROVE  TabOK(Cleared(pane))
  <2> DEFINE new == Cleared(pane)
             gone == IF pane.results = <<>> THEN pane.lost ELSE pane.lost \cup {pane.active}
  <2>1. pane \in ResultTabs
    BY <1>2 DEF TabOK
  <2>2. gone \in SUBSET Nat /\ pane.lost \subseteq gone /\ (pane.results # <<>> => pane.active \in gone)
    BY <2>1 DEF ResultTabs
  <2>3. new = [[pane EXCEPT !.selected = Nil, !.clicked = Nil] EXCEPT !.shown = Nil, !.lost = gone]
    BY <2>1 DEF Unselected, ResultTabs
  <2> HIDE DEF gone
  <2>4. /\ new \in ResultTabs /\ new.results = pane.results /\ new.active = pane.active
        /\ new.lost = gone /\ new.shown = Nil /\ new.selected = Nil
    BY <2>1, <2>2, <2>3 DEF ResultTabs
  <2> HIDE DEF new
  <2>5. StripOK(new)
    BY <1>2, <2>4 DEF TabOK, StripOK
  <2>6. HeldOnce(new)
    <3> SUFFICES ASSUME NEW i \in DOMAIN pane.results
                 PROVE  LET result == pane.results[i] IN
                        /\ result.rows # Nil => result.rows.of = result.of
                        /\ i = pane.active => result.rows = Nil
                        /\ result.has /\ i \notin gone => result.rows # Nil
      BY <2>4 DEF HeldOnce
    <3>1. pane.results # <<>>
      BY <2>1 DEF ResultTabs
    <3>2. LET result == pane.results[i] IN
          /\ result.rows # Nil => result.rows.of = result.of
          /\ i = pane.active => result.rows = Nil
          /\ result.has /\ i \notin pane.lost =>
               (result.rows # Nil) = ~(i = pane.active /\ pane.shown # Nil)
      BY <1>2 DEF TabOK, HeldOnce
    <3> QED
      BY <2>2, <3>1, <3>2
  <2>7. SelectedIsClicked(new) /\ ArrowTells(new)
    BY <2>4 DEF SelectedIsClicked, ArrowTells
  <2>8. new.results # <<>> => new.active \in DOMAIN new.results
    BY <1>2, <2>4 DEF TabOK
  <2> QED
    BY <2>4, <2>5, <2>6, <2>7, <2>8 DEF TabOK, new
<1> HIDE DEF Cleared
<1>3. DOMAIN tabs' = DOMAIN tabs /\ \A t \in DOMAIN tabs : tabs'[t] = Cleared(tabs[t])
  BY <1>1
<1>4. \A t \in DOMAIN tabs : TabOK(tabs'[t])
  BY <1>2, <1>3 DEF ResultsInv
<1>5. tabs' \in Seq(ResultTabs)
  <2>1. DOMAIN tabs = 1..Len(tabs) /\ Len(tabs) \in Nat
    BY DEF ResultsInv
  <2>2. \A t \in 1..Len(tabs) : Cleared(tabs[t]) \in ResultTabs
    BY <2>1, <1>3, <1>4 DEF TabOK
  <2> QED
    BY <2>1, <2>2, <1>1
<1>6. \A t \in DOMAIN tabs' : TabOK(tabs[t])'
  BY <1>3, <1>4 DEF TabOK
<1> QED
  BY <1>1, <1>3, <1>5, <1>6 DEF ResultsInv

(***************************************************************************)
(* However results are selected, sorted, pinned and lost with the          *)
(* connection, the rows of each statement are in one place and under its   *)
(* own heading, the arrow over a column says how they are, and the sidebar *)
(* describes the row that was clicked (absorb_batch_result,                *)
(* show_statement_result, sort_query_result, pin_active).                  *)
(***************************************************************************)
THEOREM ResultsCorrect == ResultsSpec => []ResultsTell
<1>1. ResultsInit => ResultsInv
  <2> SUFFICES ASSUME ResultsInit PROVE ResultsInv
    OBVIOUS
  <2>1. tabs = <<EmptyTab>> /\ DOMAIN tabs = {1} /\ tabs[1] = EmptyTab
    BY DEF ResultsInit
  <2>2. EmptyTab \in ResultTabs /\ EmptyTab.results = <<>> /\ EmptyTab.shown = Nil /\ EmptyTab.selected = Nil
    BY DEF EmptyTab, ResultTabs
  <2> HIDE DEF EmptyTab
  <2>3. TabOK(EmptyTab)
    BY <2>2 DEF TabOK, StripOK, HeldOnce, SelectedIsClicked, ArrowTells
  <2>4. tabs \in Seq(ResultTabs)
    BY <2>1, <2>2
  <2> QED
    BY <2>1, <2>3, <2>4 DEF ResultsInit, ResultsInv
<1>2. ResultsInv /\ [ResultsNext]_resultVars => ResultsInv'
  <2> SUFFICES ASSUME ResultsInv, [ResultsNext]_resultVars PROVE ResultsInv'
    OBVIOUS
  <2>1. ASSUME NEW t \in DOMAIN tabs, Activate(t) PROVE ResultsInv'
    BY <2>1 DEF Activate, ResultsInv, TabOK
  <2>2. ASSUME NEW t \in DOMAIN tabs, NEW brought \in budget.batches, LandBatch(t, brought) PROVE ResultsInv'
    BY <2>2, LandIs
  <2>3. ASSUME NEW i \in DOMAIN InFront.results, SelectStatementResult(i) PROVE ResultsInv'
    BY <2>3, SelectIs
  <2>4. ASSUME NEW i, SelectRow(i) PROVE ResultsInv'
    BY <2>4, SelectRowIs
  <2>5. ASSUME NEW c \in Columns, SortQueryResult(c) PROVE ResultsInv'
    BY <2>5, SortIs
  <2>6. ASSUME ClearQuerySort PROVE ResultsInv'
    BY <2>6, ClearSortIs
  <2>7. ASSUME PinActive PROVE ResultsInv'
    BY <2>7, PinIs
  <2>8. ASSUME ClearResults PROVE ResultsInv'
    BY <2>8, ClearIs
  <2>9. CASE UNCHANGED resultVars
    BY <2>9 DEF resultVars, ResultsInv, TabOK
  <2> QED
    BY <2>1, <2>2, <2>3, <2>4, <2>5, <2>6, <2>7, <2>8, <2>9 DEF ResultsNext
<1>3. ResultsInv => ResultsTell
  BY DEF ResultsInv, ResultsTell, TabOK
<1> QED
  BY <1>1, <1>2, <1>3, PTL DEF ResultsSpec

-----------------------------------------------------------------------------
(* What a dump under way has written *)

Planned == {Plan[i] : i \in DOMAIN Plan}

Leftover == UNION {Gone(p) : p \in Planned}

Partial(d) == PartialOf[PathOf[d]]

DumpTypes ==
  /\ step \in [Dumps -> {"chosen", "writing", "done", "failed"}]
  /\ unwritten \in [Dumps -> Seq(Planned)]
  /\ missing \in [Dumps -> SUBSET Leftover]
  /\ handle \in [Dumps -> [file : Nat, at : Nat]]
  /\ files \in Seq(Seq(Planned))
  /\ folder \in [Names -> (1..Len(files)) \cup {Nothing}]

\* No two names are of one file.
OneNameEach == \A m, n \in Names : folder[m] # Nothing /\ folder[m] = folder[n] => m = n

\* No two dumps are being written to one partial.
OneWriterEach ==
  \A d, e \in Dumps : step[d] = "writing" /\ step[e] = "writing" /\ Partial(d) = Partial(e) => d = e

NotBegun(d) == step[d] = "chosen" => unwritten[d] = Plan /\ missing[d] = {}

\* What is in the partial, and then what is still to come, is all but what is missing.
SoFar(d) ==
  step[d] = "writing" =>
    /\ handle[d].file \in 1..Len(files)
    /\ folder[Partial(d)] = handle[d].file
    /\ handle[d].at = Len(files[handle[d].file])
    /\ files[handle[d].file] \o unwritten[d] = LeftOf(Plan, missing[d])

WholeAt(p) ==
  folder[p] # Nothing =>
    \E d \in Dumps : /\ PathOf[d] = p /\ step[d] = "done"
                     /\ files[folder[p]] = LeftOf(Plan, missing[d])

DumpInv ==
  /\ DumpTypes
  /\ OneNameEach
  /\ OneWriterEach
  /\ \A d \in Dumps : NotBegun(d) /\ SoFar(d)
  /\ \A p \in Paths : WholeAt(p)

LEMMA PlanIs == Plan \in Seq(Planned) /\ Apart(Plan)
<1>1. Plan \in Seq(Planned)
  BY DumpAssumption, Zenon DEF Planned
<1> HIDE DEF Plan
<1>2. DOMAIN Plan = 1..Len(Plan)
  BY <1>1
<1>3. \A i, j \in DOMAIN Plan : i < j => Plan[i] \notin Gone(Plan[j])
  BY DumpAssumption, Zenon
<1> QED
  BY <1>1, <1>2, <1>3 DEF Apart

LEMMA NamesAre ==
    /\ Paths \subseteq Names
    /\ \A d \in Dumps : PathOf[d] \in Paths /\ Partial(d) \in Names /\ Partial(d) \notin Paths
<1>1. Paths \subseteq Names
  BY DEF Names
<1>2. \A d \in Dumps : PathOf[d] \in Paths
  BY DEF Paths
<1>3. \A d \in Dumps : Partial(d) \in Names
  BY <1>2 DEF Names, Partial
<1>4. \A p \in Paths : PartialOf[p] \notin Paths
  BY DumpAssumption, Zenon
<1> QED
  BY <1>1, <1>2, <1>3, <1>4 DEF Partial

\* What follows what is written is still what follows it.
LEMMA OneWritten ==
    ASSUME NEW S, NEW c \in Seq(S), NEW u \in Seq(S), u # <<>>
    PROVE  /\ Append(c, Head(u)) \o Tail(u) = c \o u
           /\ WrittenAt(c, Len(c) + 1, Head(u)) = Append(c, Head(u))
<1> DEFINE h == Head(u)
           v == Tail(u)
           w == WrittenAt(c, Len(c) + 1, h)
           a == Append(c, h)
<1>1. h \in S /\ v \in Seq(S) /\ Len(c) \in Nat
  OBVIOUS
<1>2. u = <<h>> \o v
  <2>1. Len(u) \in Nat \ {0}
    BY EmptySeq
  <2>2. 1 \in 1..Len(u) /\ Len(u) \in 1..Len(u)
    BY <2>1
  <2>3. SubSeq(u, 1, Len(u)) = <<u[1]>> \o SubSeq(u, 1 + 1, Len(u))
    BY <2>2, SubSeqRecursiveFirst
  <2>4. SubSeq(u, 1, Len(u)) = u
    BY SubSeqFull
  <2>5. v = SubSeq(u, 2, Len(u))
    BY TailIsSubSeq
  <2>6. h = u[1]
    OBVIOUS
  <2> QED
    BY <2>3, <2>4, <2>5, <2>6
<1>3. a = c \o <<h>>
  BY <1>1, AppendIsConcat
<1> HIDE DEF h, v
<1>4. <<h>> \in Seq(S)
  BY <1>1
<1>5. (c \o <<h>>) \o v = c \o (<<h>> \o v)
  BY <1>1, <1>4, ConcatAssociative
<1>6. a \in Seq(S) /\ Len(a) = Len(c) + 1 /\ (\A i \in 1..Len(c) : a[i] = c[i]) /\ a[Len(c) + 1] = h
  BY <1>1, AppendProperties
<1>7. a = [i \in 1..Len(c) + 1 |-> a[i]]
  <2>1. a \in [1..Len(a) -> S]
    BY <1>6, LenProperties, Zenon
  <2> HIDE DEF a
  <2> QED
    BY <2>1, <1>6
<1>8. w = [i \in 1..Len(c) + 1 |-> IF i = Len(c) + 1 THEN h ELSE IF i <= Len(c) THEN c[i] ELSE Part("hole", "hole")]
  <2>1. Len(c) < Len(c) + 1
    BY <1>1
  <2> QED
    BY <2>1 DEF WrittenAt
<1>9. ASSUME NEW i \in 1..Len(c) + 1
      PROVE  a[i] = IF i = Len(c) + 1 THEN h ELSE IF i <= Len(c) THEN c[i] ELSE Part("hole", "hole")
  <2> HIDE DEF a
  <2>1. i = Len(c) + 1 \/ (i # Len(c) + 1 /\ i <= Len(c) /\ i \in 1..Len(c))
    BY <1>1
  <2> QED
    BY <2>1, <1>6
<1>10. w = a
  <2> HIDE DEF w, a
  <2> QED
    BY <1>7, <1>8, <1>9
<1> QED
  BY <1>2, <1>3, <1>5, <1>10 DEF h, v

\* One after the other, they are what is left of some parts.
Makes(c, u, s, K) == c \o u = LeftOf(s, K)

\* What a part takes with it is not among what is written.
LEMMA OneSkipped ==
    ASSUME NEW S, NEW s \in Seq(S), NEW c \in Seq(S), NEW u \in Seq(S), u # <<>>, NEW K,
           Apart(s), Makes(c, u, s, K)
    PROVE  Makes(c, LeftOf(u, Gone(Head(u))), s, K \cup Gone(Head(u)))
<1>1. \A L : LeftOf(c \o u, L) = LeftOf(c, L) \o LeftOf(u, L)
  BY LeftOfBoth
<1>2. c \o u = LeftOf(s, K)
  BY DEF Makes
<1> DEFINE h == Head(u)
           G == Gone(h)
           w == LeftOf(s, K)
<1>3. w \in Seq(S) /\ Apart(w)
  BY LeftOfIn, LeftOfApart
<1>4. Len(c) \in Nat /\ Len(u) \in Nat \ {0} /\ h = u[1]
  BY EmptySeq
<1>5. /\ Len(w) = Len(c) + Len(u)
      /\ \A i \in 1..Len(c) + Len(u) : w[i] = IF i <= Len(c) THEN c[i] ELSE u[i - Len(c)]
  <2>1. /\ Len(c \o u) = Len(c) + Len(u)
        /\ \A i \in 1..Len(c) + Len(u) : (c \o u)[i] = IF i <= Len(c) THEN c[i] ELSE u[i - Len(c)]
    BY ConcatProperties
  <2>2. c \o u = w
    BY <1>2
  <2> HIDE DEF w
  <2> QED
    BY <2>1, <2>2
<1> HIDE DEF w, h
<1>6. Len(c) + 1 \in 1..Len(w) /\ w[Len(c) + 1] = h
  <2>1. Len(c) + 1 \in 1..Len(c) + Len(u) /\ ~ (Len(c) + 1 <= Len(c)) /\ Len(c) + 1 - Len(c) = 1
    BY <1>4
  <2> QED
    BY <2>1, <1>4, <1>5
<1>7. \A i \in 1..Len(c) : i \in 1..Len(w) /\ i < Len(c) + 1 /\ w[i] = c[i]
  BY <1>4, <1>5
<1>8. \A i \in 1..Len(c) : c[i] \notin G
  <2> HIDE DEF G
  <2>1. \A i, j \in 1..Len(w) : i < j => w[i] \notin Gone(w[j])
    BY <1>3 DEF Apart
  <2> SUFFICES ASSUME NEW i \in 1..Len(c) PROVE c[i] \notin G
    OBVIOUS
  <2>2. w[i] \notin Gone(w[Len(c) + 1])
    BY <2>1, <1>6, <1>7
  <2> QED
    BY <2>2, <1>6, <1>7 DEF G
<1> HIDE DEF G
<1>9. LeftOf(c, G) = c
  BY <1>8, LeftOfNone
<1>10. LeftOf(c \o u, G) = LeftOf(c, G) \o LeftOf(u, G)
  BY <1>1
<1>11. LeftOf(w, G) = LeftOf(s, K \cup G)
  BY LeftOfTwice DEF w
<1> QED
  BY <1>2, <1>9, <1>10, <1>11 DEF w, G, h, Makes

-----------------------------------------------------------------------------
(* What a step does to the dumps it is not about *)

\* The file under a name is as it was.
Same(n) == folder'[n] = folder[n] /\ (folder[n] # Nothing => files'[folder[n]] = files[folder[n]])

Others(d) ==
  \A e \in Dumps : e # d =>
    /\ step'[e] = step[e] /\ unwritten'[e] = unwritten[e]
    /\ missing'[e] = missing[e] /\ handle'[e] = handle[e]

LEMMA NotBegunStays ==
    ASSUME DumpInv, NEW d \in Dumps, Others(d), step'[d] # "chosen"
    PROVE  \A e \in Dumps : NotBegun(e)'
BY DEF DumpInv, Others, NotBegun

LEMMA WholeStays ==
    ASSUME DumpInv, NEW d \in Dumps, Others(d), step[d] # "done", NEW p \in Paths, Same(p)
    PROVE  WholeAt(p)'
<1>1. SUFFICES ASSUME folder'[p] # Nothing
               PROVE  \E e \in Dumps : /\ PathOf[e] = p /\ step'[e] = "done"
                                       /\ files'[folder'[p]] = LeftOf(Plan, missing'[e])
  BY DEF WholeAt
<1>2. WholeAt(p)
  BY DEF DumpInv
<1>3. folder[p] # Nothing /\ folder'[p] = folder[p] /\ files'[folder[p]] = files[folder[p]]
  BY <1>1 DEF Same
<1>4. PICK e \in Dumps : /\ PathOf[e] = p /\ step[e] = "done"
                         /\ files[folder[p]] = LeftOf(Plan, missing[e])
  BY <1>2, <1>3 DEF WholeAt
<1>5. step'[e] = "done" /\ missing'[e] = missing[e]
  BY <1>4 DEF Others
<1> QED
  BY <1>3, <1>4, <1>5

LEMMA WriterStays ==
    ASSUME DumpInv, NEW d \in Dumps, Others(d), NEW e \in Dumps, e # d, Same(Partial(e)),
           Len(files') \in Nat, Len(files) <= Len(files')
    PROVE  SoFar(e)'
<1>1. SUFFICES ASSUME step'[e] = "writing"
               PROVE  /\ handle'[e].file \in 1..Len(files')
                      /\ folder'[Partial(e)] = handle'[e].file
                      /\ handle'[e].at = Len(files'[handle'[e].file])
                      /\ files'[handle'[e].file] \o unwritten'[e] = LeftOf(Plan, missing'[e])
  BY DEF SoFar, Partial
<1>2. /\ step[e] = "writing" /\ unwritten'[e] = unwritten[e]
      /\ missing'[e] = missing[e] /\ handle'[e] = handle[e]
  BY <1>1 DEF Others
<1>3. /\ handle[e].file \in 1..Len(files)
      /\ folder[Partial(e)] = handle[e].file
      /\ handle[e].at = Len(files[handle[e].file])
      /\ files[handle[e].file] \o unwritten[e] = LeftOf(Plan, missing[e])
  BY <1>2 DEF DumpInv, SoFar
<1>4. Len(files) \in Nat
  BY DEF DumpInv, DumpTypes
<1>5. handle[e].file \in 1..Len(files') /\ handle[e].file # Nothing
  <2>1. Nothing \notin Nat
    BY DumpAssumption, Zenon
  <2> QED
    BY <2>1, <1>3, <1>4
<1>6. folder'[Partial(e)] = folder[Partial(e)] /\ files'[handle[e].file] = files[handle[e].file]
  BY <1>3, <1>5 DEF Same
<1> QED
  BY <1>2, <1>3, <1>5, <1>6

-----------------------------------------------------------------------------
(* The steps *)

\* No dump is begun while another is written to the same partial.
Uncrossed == ~ Crossing \/ \A d, e \in Dumps : Partial(d) = Partial(e) => d = e

\* What is to be shown of a step of one dump, once the others are looked after.
LEMMA StepOf ==
    ASSUME DumpInv, NEW d \in Dumps, Others(d), step[d] # "done", step'[d] # "chosen",
           DumpTypes', OneNameEach', OneWriterEach', Len(files) <= Len(files'),
           SoFar(d)', WholeAt(PathOf[d])',
           \A n \in Names \ {Partial(d), PathOf[d]} : Same(n),
           \A e \in Dumps : e # d /\ step[e] = "writing" => Partial(e) # Partial(d)
    PROVE  DumpInv'
<1>1. \A e \in Dumps : NotBegun(e)'
  BY NotBegunStays
<1>2. \A p \in Paths : WholeAt(p)'
  <2> SUFFICES ASSUME NEW p \in Paths PROVE WholeAt(p)'
    OBVIOUS
  <2>1. CASE p = PathOf[d]
    BY <2>1
  <2>2. CASE p # PathOf[d]
    <3>1. p \in Names \ {Partial(d), PathOf[d]}
      BY <2>2, NamesAre
    <3> QED
      BY <3>1, WholeStays
  <2> QED
    BY <2>1, <2>2
<1>3. \A e \in Dumps : SoFar(e)'
  <2> SUFFICES ASSUME NEW e \in Dumps PROVE SoFar(e)'
    OBVIOUS
  <2>1. CASE e = d
    BY <2>1
  <2>2. CASE e # d /\ step[e] = "writing"
    <3>1. Partial(e) \in Names \ {Partial(d), PathOf[d]}
      BY <2>2, NamesAre
    <3>2. Len(files') \in Nat
      BY DEF DumpTypes
    <3> QED
      BY <2>2, <3>1, <3>2, WriterStays
  <2>3. CASE e # d /\ step[e] # "writing"
    BY <2>3 DEF Others, SoFar
  <2> QED
    BY <2>1, <2>2, <2>3
<1> QED
  BY <1>1, <1>2, <1>3 DEF DumpInv

\* What every step of a dump being written starts from.
LEMMA Under ==
    ASSUME DumpInv, NEW d \in Dumps, step[d] = "writing"
    PROVE  LET f == handle[d].file
           IN  /\ f \in 1..Len(files) /\ folder[Partial(d)] = f /\ f # Nothing
               /\ handle[d] \in [file : Nat, at : Nat] /\ handle[d].at = Len(files[f])
               /\ files[f] \in Seq(Planned) /\ unwritten[d] \in Seq(Planned)
               /\ files[f] \o unwritten[d] = LeftOf(Plan, missing[d])
               /\ missing[d] \subseteq Leftover
               /\ \A n \in Names : n # Partial(d) => folder[n] # f
               /\ \A e \in Dumps : e # d /\ step[e] = "writing" => Partial(e) # Partial(d)
<1> DEFINE f == handle[d].file
<1>1. /\ f \in 1..Len(files) /\ folder[Partial(d)] = f
      /\ handle[d].at = Len(files[f])
      /\ files[f] \o unwritten[d] = LeftOf(Plan, missing[d])
  BY DEF DumpInv, SoFar
<1>2. /\ handle[d] \in [file : Nat, at : Nat] /\ unwritten[d] \in Seq(Planned)
      /\ missing[d] \subseteq Leftover
  BY DEF DumpInv, DumpTypes
<1>3. files[f] \in Seq(Planned)
  BY <1>1 DEF DumpInv, DumpTypes
<1>4. f # Nothing
  BY <1>2, DumpAssumption
<1>5. \A n \in Names : n # Partial(d) => folder[n] # f
  BY <1>1, <1>4, NamesAre DEF DumpInv, OneNameEach
<1>6. \A e \in Dumps : e # d /\ step[e] = "writing" => Partial(e) # Partial(d)
  BY DEF DumpInv, OneWriterEach
<1> QED
  BY <1>1, <1>2, <1>3, <1>4, <1>5, <1>6

LEMMA Written ==
    ASSUME DumpInv, NEW d \in Dumps, WriteDump(d)
    PROVE  DumpInv'
<1> DEFINE f == handle[d].file
           c == files[f]
           u == unwritten[d]
           h == Head(u)
<1>1. /\ step[d] = "writing" /\ u # <<>>
      /\ files' = [files EXCEPT ![f] = WrittenAt(c, handle[d].at + 1, h)]
      /\ handle' = [handle EXCEPT ![d].at = handle[d].at + 1]
      /\ unwritten' = [unwritten EXCEPT ![d] = Tail(u)]
      /\ step' = step /\ missing' = missing /\ folder' = folder
  BY DEF WriteDump
<1>2. /\ f \in 1..Len(files) /\ folder[Partial(d)] = f /\ f # Nothing
      /\ handle[d] \in [file : Nat, at : Nat] /\ handle[d].at = Len(c)
      /\ c \in Seq(Planned) /\ u \in Seq(Planned)
      /\ c \o u = LeftOf(Plan, missing[d])
      /\ \A n \in Names : n # Partial(d) => folder[n] # f
      /\ \A e \in Dumps : e # d /\ step[e] = "writing" => Partial(e) # Partial(d)
  BY <1>1, Under
<1> DEFINE a == Append(c, h)
<1>3. WrittenAt(c, Len(c) + 1, h) = a /\ a \o Tail(u) = c \o u
  BY <1>1, <1>2, OneWritten, Zenon
<1>4. h \in Planned /\ Tail(u) \in Seq(Planned) /\ a \in Seq(Planned) /\ Len(a) = Len(c) + 1
  <2>1. h \in Planned /\ Tail(u) \in Seq(Planned)
    BY <1>1, <1>2, HeadTailProperties
  <2> HIDE DEF h, c, u, Planned
  <2> QED
    BY <2>1, <1>2, AppendProperties
<1> HIDE DEF h, a, Planned
<1>5. /\ step \in [Dumps -> {"chosen", "writing", "done", "failed"}]
      /\ unwritten \in [Dumps -> Seq(Planned)] /\ missing \in [Dumps -> SUBSET Leftover]
      /\ handle \in [Dumps -> [file : Nat, at : Nat]] /\ files \in Seq(Seq(Planned))
      /\ folder \in [Names -> (1..Len(files)) \cup {Nothing}]
  BY DEF DumpInv, DumpTypes
<1>6. files' = [files EXCEPT ![f] = a]
  BY <1>1, <1>2, <1>3
<1>7. /\ files' \in Seq(Seq(Planned)) /\ Len(files') = Len(files) /\ files'[f] = a
      /\ \A g \in 1..Len(files) : g # f => files'[g] = files[g]
  BY <1>2, <1>4, <1>5, <1>6, ExceptSeq
<1>8. handle'[d] = [handle[d] EXCEPT !.at = Len(a)] /\ handle' \in [Dumps -> [file : Nat, at : Nat]]
  <2>1. Len(a) \in Nat /\ handle[d].at + 1 = Len(a)
    BY <1>2, <1>4
  <2>2. handle' = [handle EXCEPT ![d] = [handle[d] EXCEPT !.at = Len(a)]]
    BY <1>1, <2>1
  <2> HIDE DEF f, c, u
  <2> QED
    BY <2>1, <2>2, <1>2, <1>5
<1>9. unwritten' \in [Dumps -> Seq(Planned)] /\ unwritten'[d] = Tail(u)
  BY <1>1, <1>4, <1>5
<1>10. DumpTypes'
  BY <1>1, <1>5, <1>7, <1>8, <1>9 DEF DumpTypes
<1>11. OneNameEach' /\ OneWriterEach'
  BY <1>1 DEF DumpInv, OneNameEach, OneWriterEach
<1>12. Others(d)
  BY <1>1, <1>5 DEF Others
<1>13. \A n \in Names : n # Partial(d) => Same(n)
  <2> SUFFICES ASSUME NEW n \in Names, n # Partial(d) PROVE Same(n)
    OBVIOUS
  <2>1. folder[n] # f /\ folder[n] \in (1..Len(files)) \cup {Nothing}
    BY <1>2, <1>5
  <2> QED
    BY <2>1, <1>1, <1>7 DEF Same
<1>14. SoFar(d)'
  <2>1. handle'[d].file = f /\ handle'[d].at = Len(a)
    BY <1>2, <1>8
  <2> HIDE DEF f, c, u
  <2>2. files'[f] \o unwritten'[d] = LeftOf(Plan, missing'[d])
    BY <1>1, <1>2, <1>3, <1>7, <1>9
  <2> QED
    BY <2>1, <2>2, <1>1, <1>2, <1>7 DEF SoFar, Partial
<1>15. WholeAt(PathOf[d])'
  <2>1. PathOf[d] \in Paths /\ PathOf[d] \in Names /\ PathOf[d] # Partial(d)
    BY NamesAre
  <2> QED
    BY <2>1, <1>1, <1>12, <1>13, WholeStays
<1>16. step[d] # "done" /\ step'[d] # "chosen"
  BY <1>1
<1>17. Len(files) <= Len(files')
  BY <1>5, <1>7
<1> HIDE DEF f, c, u
<1> QED
  BY <1>2, <1>10, <1>11, <1>12, <1>13, <1>14, <1>15, <1>16, <1>17, StepOf

LEMMA SkippedPart ==
    ASSUME DumpInv, NEW d \in Dumps, SkipPart(d)
    PROVE  DumpInv'
<1> DEFINE f == handle[d].file
           c == files[f]
           u == unwritten[d]
           G == Gone(Head(u))
<1>1. /\ step[d] = "writing" /\ u # <<>>
      /\ unwritten' = [unwritten EXCEPT ![d] = LeftOf(u, G)]
      /\ missing' = [missing EXCEPT ![d] = missing[d] \cup G]
      /\ step' = step /\ handle' = handle /\ folder' = folder /\ files' = files
  BY DEF SkipPart
<1>2. /\ f \in 1..Len(files) /\ folder[Partial(d)] = f
      /\ handle[d].at = Len(c)
      /\ c \in Seq(Planned) /\ u \in Seq(Planned)
      /\ c \o u = LeftOf(Plan, missing[d])
      /\ missing[d] \subseteq Leftover
      /\ \A e \in Dumps : e # d /\ step[e] = "writing" => Partial(e) # Partial(d)
  BY <1>1, Under
<1>3. c \o LeftOf(u, G) = LeftOf(Plan, missing[d] \cup G)
  <2> HIDE DEF Planned, Plan, c, u
  <2> QED
    <3>1. Plan \in Seq(Planned) /\ Apart(Plan)
      BY PlanIs
    <3>2. c \in Seq(Planned) /\ u \in Seq(Planned) /\ u # <<>>
      BY <1>1, <1>2
    <3>3. Makes(c, u, Plan, missing[d])
      BY <1>2 DEF Makes
    <3>4. Makes(c, LeftOf(u, Gone(Head(u))), Plan, missing[d] \cup Gone(Head(u)))
      BY <3>1, <3>2, <3>3, OneSkipped
    <3> QED
      BY <3>4 DEF G, Makes
<1>4. LeftOf(u, G) \in Seq(Planned)
  BY <1>2, LeftOfIn
<1>5. G \subseteq Leftover
  <2>1. Head(u) \in Planned
    BY <1>1, <1>2, HeadTailProperties
  <2> QED
    BY <2>1 DEF Leftover
<1> HIDE DEF Planned, Leftover, G
<1>6. /\ unwritten \in [Dumps -> Seq(Planned)] /\ missing \in [Dumps -> SUBSET Leftover]
      /\ DumpTypes
  BY DEF DumpInv, DumpTypes
<1>7. unwritten' \in [Dumps -> Seq(Planned)] /\ unwritten'[d] = LeftOf(u, G)
  BY <1>1, <1>4, <1>6
<1>8. missing' \in [Dumps -> SUBSET Leftover] /\ missing'[d] = missing[d] \cup G
  BY <1>1, <1>2, <1>5, <1>6
<1>9. DumpTypes'
  BY <1>1, <1>6, <1>7, <1>8 DEF DumpTypes
<1>10. OneNameEach' /\ OneWriterEach'
  BY <1>1 DEF DumpInv, OneNameEach, OneWriterEach
<1>11. Others(d)
  BY <1>1, <1>6 DEF Others
<1>12. \A n \in Names : Same(n)
  BY <1>1 DEF Same
<1>13. SoFar(d)'
  <2>1. files'[f] \o unwritten'[d] = LeftOf(Plan, missing'[d])
    BY <1>1, <1>3, <1>7, <1>8
  <2> QED
    BY <2>1, <1>1, <1>2 DEF SoFar, Partial
<1>14. WholeAt(PathOf[d])'
  <2>1. PathOf[d] \in Paths /\ PathOf[d] \in Names
    BY NamesAre
  <2> QED
    BY <2>1, <1>1, <1>11, <1>12, WholeStays
<1>15. step[d] # "done" /\ step'[d] # "chosen" /\ Len(files) <= Len(files')
  <2>1. Len(files) \in Nat
    BY <1>6 DEF DumpTypes
  <2> QED
    BY <2>1, <1>1
<1> HIDE DEF f, c, u
<1> QED
  BY <1>2, <1>9, <1>10, <1>11, <1>12, <1>13, <1>14, <1>15, StepOf

LEMMA Renamed ==
    ASSUME DumpInv, NEW d \in Dumps, RenameDump(d)
    PROVE  DumpInv'
<1> DEFINE f == handle[d].file
           c == files[f]
           path == PathOf[d]
<1>1. /\ step[d] = "writing" /\ unwritten[d] = <<>>
      /\ folder' = [folder EXCEPT ![path] = folder[Partial(d)], ![Partial(d)] = Nothing]
      /\ step' = [step EXCEPT ![d] = "done"]
      /\ unwritten' = unwritten /\ missing' = missing /\ handle' = handle /\ files' = files
  BY DEF RenameDump, Partial
<1>2. /\ f \in 1..Len(files) /\ folder[Partial(d)] = f /\ f # Nothing
      /\ c \in Seq(Planned)
      /\ c \o unwritten[d] = LeftOf(Plan, missing[d])
      /\ \A n \in Names : n # Partial(d) => folder[n] # f
      /\ \A e \in Dumps : e # d /\ step[e] = "writing" => Partial(e) # Partial(d)
  BY <1>1, Under
<1>3. path \in Paths /\ path \in Names /\ Partial(d) \in Names /\ path # Partial(d)
  BY NamesAre
<1>4. c = LeftOf(Plan, missing[d])
  <2>1. c \o <<>> = c
    BY <1>2, ConcatEmptySeq
  <2> QED
    BY <2>1, <1>1, <1>2
<1>5. /\ step \in [Dumps -> {"chosen", "writing", "done", "failed"}]
      /\ folder \in [Names -> (1..Len(files)) \cup {Nothing}]
      /\ Len(files) \in Nat /\ DumpTypes
  BY DEF DumpInv, DumpTypes
<1> HIDE DEF f, c, path
<1>6. /\ folder' \in [Names -> (1..Len(files)) \cup {Nothing}]
      /\ folder'[path] = f /\ folder'[Partial(d)] = Nothing
      /\ \A n \in Names \ {Partial(d), path} : folder'[n] = folder[n]
  BY <1>1, <1>2, <1>3, <1>5
<1>7. /\ step' \in [Dumps -> {"chosen", "writing", "done", "failed"}]
      /\ step'[d] = "done" /\ \A e \in Dumps : e # d => step'[e] = step[e]
  BY <1>1, <1>5
<1>8. DumpTypes'
  BY <1>1, <1>5, <1>6, <1>7 DEF DumpTypes
<1>9. OneNameEach'
  <2> SUFFICES ASSUME NEW m \in Names, NEW n \in Names, folder'[m] # Nothing, folder'[m] = folder'[n]
               PROVE  m = n
    BY DEF OneNameEach
  <2>1. m # Partial(d) /\ n # Partial(d)
    BY <1>6
  <2>2. \A k \in Names \ {Partial(d), path} : folder'[k] # f
    BY <1>2, <1>6
  <2>3. CASE m = path \/ n = path
    BY <2>1, <2>2, <2>3, <1>6
  <2>4. CASE m # path /\ n # path
    <3>1. folder[m] # Nothing /\ folder[m] = folder[n]
      BY <2>1, <2>4, <1>6
    <3> QED
      BY <3>1 DEF DumpInv, OneNameEach
  <2> QED
    BY <2>3, <2>4
<1>10. OneWriterEach'
  BY <1>7 DEF DumpInv, OneWriterEach
<1>11. Others(d)
  BY <1>1, <1>7 DEF Others
<1>12. \A n \in Names \ {Partial(d), path} : Same(n)
  BY <1>1, <1>6 DEF Same
<1>13. SoFar(d)'
  BY <1>7 DEF SoFar
<1>14. WholeAt(path)'
  <2>1. files'[folder'[path]] = LeftOf(Plan, missing'[d])
    BY <1>1, <1>4, <1>6 DEF c
  <2> QED
    BY <2>1, <1>7 DEF WholeAt, path
<1>15. step[d] # "done" /\ step'[d] # "chosen" /\ Len(files) <= Len(files')
  BY <1>1, <1>5, <1>7
<1> QED
  BY <1>2, <1>8, <1>9, <1>10, <1>11, <1>12, <1>13, <1>14, <1>15, StepOf DEF path

LEMMA Failed ==
    ASSUME DumpInv, NEW d \in Dumps, FailDump(d) \/ RenameFails(d)
    PROVE  DumpInv'
<1>1. /\ step[d] = "writing"
      /\ step' = [step EXCEPT ![d] = "failed"]
      /\ folder' = folder \/ folder' = [folder EXCEPT ![Partial(d)] = Nothing]
      /\ unwritten' = unwritten /\ missing' = missing /\ handle' = handle /\ files' = files
  BY DEF FailDump, RenameFails, Partial
<1>2. \A e \in Dumps : e # d /\ step[e] = "writing" => Partial(e) # Partial(d)
  BY <1>1, Under
<1>3. PathOf[d] \in Paths /\ PathOf[d] \in Names /\ Partial(d) \in Names /\ PathOf[d] # Partial(d)
  BY NamesAre
<1>4. /\ step \in [Dumps -> {"chosen", "writing", "done", "failed"}]
      /\ folder \in [Names -> (1..Len(files)) \cup {Nothing}]
      /\ Len(files) \in Nat /\ DumpTypes
  BY DEF DumpInv, DumpTypes
<1>5. /\ folder' \in [Names -> (1..Len(files)) \cup {Nothing}]
      /\ \A n \in Names : folder'[n] = folder[n] \/ (n = Partial(d) /\ folder'[n] = Nothing)
  BY <1>1, <1>4
<1>6. /\ step' \in [Dumps -> {"chosen", "writing", "done", "failed"}]
      /\ step'[d] = "failed" /\ \A e \in Dumps : e # d => step'[e] = step[e]
  BY <1>1, <1>4
<1>7. DumpTypes'
  BY <1>1, <1>4, <1>5, <1>6 DEF DumpTypes
<1>8. OneNameEach'
  BY <1>5 DEF DumpInv, OneNameEach
<1>9. OneWriterEach'
  BY <1>6 DEF DumpInv, OneWriterEach
<1>10. Others(d)
  BY <1>1, <1>6 DEF Others
<1>11. \A n \in Names : n # Partial(d) => Same(n)
  BY <1>1, <1>5 DEF Same
<1>12. SoFar(d)'
  BY <1>6 DEF SoFar
<1>13. WholeAt(PathOf[d])'
  BY <1>1, <1>3, <1>10, <1>11, WholeStays
<1>14. step[d] # "done" /\ step'[d] # "chosen" /\ Len(files) <= Len(files')
  BY <1>1, <1>4, <1>6
<1> QED
  BY <1>2, <1>7, <1>8, <1>9, <1>10, <1>11, <1>12, <1>13, <1>14, StepOf

LEMMA Quits ==
    ASSUME DumpInv, QuitDumps
    PROVE  DumpInv'
<1>1. /\ step' = [d \in Dumps |-> IF step[d] = "writing" THEN "failed" ELSE step[d]]
      /\ unwritten' = unwritten /\ missing' = missing /\ handle' = handle
      /\ folder' = folder /\ files' = files
  BY DEF QuitDumps
<1>2. /\ step \in [Dumps -> {"chosen", "writing", "done", "failed"}] /\ DumpTypes
  BY DEF DumpInv, DumpTypes
<1>3. /\ step' \in [Dumps -> {"chosen", "writing", "done", "failed"}]
      /\ \A d \in Dumps : /\ step'[d] # "writing"
                          /\ step'[d] = "chosen" => step[d] = "chosen"
                          /\ step[d] = "done" => step'[d] = "done"
  BY <1>1, <1>2
<1>4. DumpTypes'
  BY <1>1, <1>2, <1>3 DEF DumpTypes
<1>5. OneNameEach'
  BY <1>1 DEF DumpInv, OneNameEach
<1>6. OneWriterEach'
  BY <1>3 DEF OneWriterEach
<1>7. \A d \in Dumps : NotBegun(d)' /\ SoFar(d)'
  BY <1>1, <1>3 DEF DumpInv, NotBegun, SoFar
<1>8. \A p \in Paths : WholeAt(p)'
  BY <1>1, <1>3 DEF DumpInv, WholeAt
<1> QED
  BY <1>4, <1>5, <1>6, <1>7, <1>8 DEF DumpInv

LEMMA Begun ==
    ASSUME Uncrossed, DumpInv, NEW d \in Dumps, CreateDump(d)
    PROVE  DumpInv'
<1> DEFINE P == Partial(d)
           f == IF folder[P] = Nothing THEN Len(files) + 1 ELSE folder[P]
<1>1. /\ step[d] = "chosen"
      /\ Crossing \/ \A other \in Dumps : step[other] # "writing"
      /\ step' = [step EXCEPT ![d] = "writing"]
      /\ handle' = [handle EXCEPT ![d] = [file |-> f, at |-> 0]]
      /\ folder' = [folder EXCEPT ![P] = f]
      /\ files' = IF f > Len(files) THEN Append(files, <<>>) ELSE [files EXCEPT ![f] = <<>>]
      /\ unwritten' = unwritten /\ missing' = missing
  BY DEF CreateDump, Partial, Truncated
<1>2. PathOf[d] \in Paths /\ PathOf[d] \in Names /\ P \in Names /\ PathOf[d] # P
  BY NamesAre
<1>3. /\ step \in [Dumps -> {"chosen", "writing", "done", "failed"}]
      /\ handle \in [Dumps -> [file : Nat, at : Nat]] /\ files \in Seq(Seq(Planned))
      /\ folder \in [Names -> (1..Len(files)) \cup {Nothing}]
      /\ Len(files) \in Nat /\ DumpTypes
  BY DEF DumpInv, DumpTypes
<1>4. Nothing \notin Nat
  BY DumpAssumption, Zenon
<1> HIDE DEF P
<1>5. /\ f \in Nat /\ f # Nothing
      /\ (f = Len(files) + 1 /\ folder[P] = Nothing) \/ (f \in 1..Len(files) /\ folder[P] = f)
  BY <1>2, <1>3, <1>4
<1> HIDE DEF f, Planned
<1>6. \A n \in Names : n # P => folder[n] # f
  <2> SUFFICES ASSUME NEW n \in Names, n # P PROVE folder[n] # f
    OBVIOUS
  <2>1. CASE f = Len(files) + 1
    <3>1. folder[n] \in (1..Len(files)) \cup {Nothing}
      BY <1>3
    <3> QED
      BY <3>1, <2>1, <1>3, <1>5
  <2>2. CASE folder[P] = f
    BY <2>2, <1>2, <1>5 DEF DumpInv, OneNameEach
  <2> QED
    BY <2>1, <2>2, <1>5
<1>7. /\ files' \in Seq(Seq(Planned)) /\ f \in 1..Len(files') /\ Len(files) <= Len(files')
      /\ Len(files') \in Nat /\ files'[f] = <<>>
      /\ \A g \in 1..Len(files) : g # f => files'[g] = files[g]
  <2>1. <<>> \in Seq(Planned)
    OBVIOUS
  <2> DEFINE T == Seq(Planned)
  <2>2. files \in Seq(T) /\ <<>> \in T
    BY <1>3, <2>1
  <2> HIDE DEF T
  <2>3. CASE f = Len(files) + 1
    <3>1. files' = Append(files, <<>>)
      BY <2>3, <1>1, <1>3
    <3>2. /\ files' \in Seq(T) /\ Len(files') = Len(files) + 1
          /\ (\A g \in 1..Len(files) : files'[g] = files[g]) /\ files'[Len(files) + 1] = <<>>
      BY <3>1, <2>2, AppendProperties
    <3>3. f \in 1..Len(files') /\ Len(files) <= Len(files') /\ Len(files') \in Nat
      BY <3>2, <2>3, <1>3
    <3>4. files'[f] = <<>> /\ \A g \in 1..Len(files) : g # f => files'[g] = files[g]
      BY <3>2, <2>3, <1>3
    <3> QED
      BY <3>2, <3>3, <3>4 DEF T
  <2>4. CASE f \in 1..Len(files)
    <3>1. files' = [files EXCEPT ![f] = <<>>]
      BY <2>4, <1>1, <1>3
    <3>2. /\ files' \in Seq(T) /\ Len(files') = Len(files)
          /\ \A g \in 1..Len(files) : files'[g] = IF g = f THEN <<>> ELSE files[g]
      BY <3>1, <2>2, <2>4, ExceptSeq
    <3>3. f \in 1..Len(files') /\ Len(files) <= Len(files') /\ Len(files') \in Nat
      BY <3>2, <2>4, <1>3
    <3>4. files'[f] = <<>> /\ \A g \in 1..Len(files) : g # f => files'[g] = files[g]
      BY <3>2, <2>4, <1>3
    <3> QED
      BY <3>2, <3>3, <3>4 DEF T
  <2> QED
    BY <2>3, <2>4, <1>5
<1>8. /\ folder' \in [Names -> (1..Len(files')) \cup {Nothing}]
      /\ folder'[P] = f /\ \A n \in Names : n # P => folder'[n] = folder[n]
  <2>1. \A n \in Names : folder[n] \in (1..Len(files')) \cup {Nothing}
    BY <1>3, <1>7
  <2> QED
    BY <2>1, <1>1, <1>2, <1>3, <1>7
<1>9. /\ handle' \in [Dumps -> [file : Nat, at : Nat]] /\ handle'[d] = [file |-> f, at |-> 0]
      /\ \A e \in Dumps : e # d => handle'[e] = handle[e]
  BY <1>1, <1>3, <1>5
<1>10. /\ step' \in [Dumps -> {"chosen", "writing", "done", "failed"}]
       /\ step'[d] = "writing" /\ \A e \in Dumps : e # d => step'[e] = step[e]
  BY <1>1, <1>3
<1>11. DumpTypes'
  BY <1>1, <1>3, <1>7, <1>8, <1>9, <1>10 DEF DumpTypes
<1>12. OneNameEach'
  <2> SUFFICES ASSUME NEW m \in Names, NEW n \in Names, folder'[m] # Nothing, folder'[m] = folder'[n]
               PROVE  m = n
    BY DEF OneNameEach
  <2>1. CASE m # P /\ n # P
    <3>1. folder[m] # Nothing /\ folder[m] = folder[n]
      BY <2>1, <1>8
    <3> QED
      BY <3>1 DEF DumpInv, OneNameEach
  <2>2. CASE m = P \/ n = P
    BY <2>2, <1>6, <1>8
  <2> QED
    BY <2>1, <2>2
<1>13. \A e \in Dumps : e # d /\ step[e] = "writing" => Partial(e) # P
  BY <1>1 DEF Uncrossed, P
<1>14. OneWriterEach'
  <2> SUFFICES ASSUME NEW a \in Dumps, NEW e \in Dumps, a # e,
                      step'[a] = "writing", step'[e] = "writing"
               PROVE  Partial(a) # Partial(e)
    BY DEF OneWriterEach
  <2>1. CASE a = d
    BY <2>1, <1>10, <1>13 DEF P
  <2>2. CASE e = d
    BY <2>2, <1>10, <1>13 DEF P
  <2>3. CASE a # d /\ e # d
    BY <2>3, <1>10 DEF DumpInv, OneWriterEach
  <2> QED
    BY <2>1, <2>2, <2>3
<1>15. Others(d)
  BY <1>1, <1>9, <1>10 DEF Others
<1>16. \A n \in Names : n # P => Same(n)
  <2> SUFFICES ASSUME NEW n \in Names, n # P PROVE Same(n)
    OBVIOUS
  <2>1. folder[n] # f /\ folder[n] \in (1..Len(files)) \cup {Nothing}
    BY <1>3, <1>6
  <2> QED
    BY <2>1, <1>7, <1>8 DEF Same
<1>17. SoFar(d)'
  <2>1. unwritten[d] = Plan /\ missing[d] = {}
    BY <1>1 DEF DumpInv, NotBegun
  <2>2. <<>> \o Plan = LeftOf(Plan, {})
    <3>1. Plan \in Seq(Planned)
      BY PlanIs
    <3> HIDE DEF Plan
    <3>2. <<>> \o Plan = Plan
      BY <3>1, ConcatEmptySeq
    <3>3. LeftOf(Plan, {}) = Plan
      BY <3>1, LeftOfNone
    <3> QED
      BY <3>2, <3>3
  <2> HIDE DEF Plan
  <2>3. files'[f] \o unwritten'[d] = LeftOf(Plan, missing'[d])
    BY <2>1, <2>2, <1>1, <1>7
  <2>4. handle'[d].file = f /\ handle'[d].at = Len(files'[f])
    BY <1>7, <1>9
  <2> QED
    BY <2>3, <2>4, <1>7, <1>8 DEF SoFar, P, Partial
<1>18. WholeAt(PathOf[d])'
  BY <1>1, <1>2, <1>15, <1>16, WholeStays
<1>19. step[d] # "done" /\ step'[d] # "chosen"
  BY <1>1, <1>10
<1> QED
  BY <1>7, <1>11, <1>12, <1>13, <1>14, <1>15, <1>16, <1>17, <1>18, <1>19, StepOf DEF P

LEMMA DumpStep ==
    ASSUME Uncrossed, DumpInv, [DumpNext]_dumpVars
    PROVE  DumpInv'
<1>1. CASE QuitDumps
  BY <1>1, Quits
<1>2. ASSUME NEW d \in Dumps,
             CreateDump(d) \/ WriteDump(d) \/ SkipPart(d) \/ RenameDump(d) \/ FailDump(d) \/ RenameFails(d)
      PROVE  DumpInv'
  BY <1>2, Begun, Written, SkippedPart, Renamed, Failed, Zenon
<1>3. CASE UNCHANGED dumpVars
  BY <1>3 DEF dumpVars, DumpInv, DumpTypes, OneNameEach, OneWriterEach, NotBegun, SoFar, WholeAt, Partial
<1> QED
  BY <1>1, <1>2, <1>3, Zenon DEF DumpNext

LEMMA DumpBegins ==
    ASSUME DumpInit
    PROVE  DumpInv
<1>1. /\ step = [d \in Dumps |-> "chosen"] /\ unwritten = [d \in Dumps |-> Plan]
      /\ missing = [d \in Dumps |-> {}] /\ handle = [d \in Dumps |-> [file |-> 0, at |-> 0]]
      /\ folder = [n \in Names |-> Nothing] /\ files = <<>>
  BY DEF DumpInit
<1>2. Plan \in Seq(Planned)
  BY PlanIs
<1> HIDE DEF Plan, Planned
<1>3. files \in Seq(Seq(Planned))
  BY <1>1
<1>4. DumpTypes
  BY <1>1, <1>2, <1>3 DEF DumpTypes
<1>5. OneNameEach /\ OneWriterEach
  BY <1>1 DEF OneNameEach, OneWriterEach
<1>6. \A d \in Dumps : NotBegun(d) /\ SoFar(d)
  BY <1>1 DEF NotBegun, SoFar
<1>7. \A p \in Paths : WholeAt(p)
  <2>1. \A p \in Paths : folder[p] = Nothing
    BY <1>1, NamesAre
  <2> QED
    BY <2>1 DEF WholeAt
<1> QED
  BY <1>4, <1>5, <1>6, <1>7 DEF DumpInv

LEMMA WholeFollows ==
    ASSUME DumpInv
    PROVE  FileIsWhole
BY DEF DumpInv, WholeAt, FileIsWhole, Content

(***************************************************************************)
(* A file under the name the user gave is a whole dump, all of it one      *)
(* dump's, for any dumps, paths and schemas, and whatever is skipped, is   *)
(* refused or ends on the way: commands::dump_database. It takes that no   *)
(* two dumps are written to one partial at a time, as those to one path,   *)
(* or to a.sql and a.txt, would be.                                        *)
(***************************************************************************)
THEOREM WholeCorrect == Uncrossed => (DumpSpec => []FileIsWhole)
<1> SUFFICES ASSUME Uncrossed PROVE DumpSpec => []FileIsWhole
  OBVIOUS
<1>1. DumpInit => DumpInv
  BY DumpBegins
<1>2. DumpInv /\ [DumpNext]_dumpVars => DumpInv'
  BY DumpStep
<1>3. DumpInv => FileIsWhole
  BY WholeFollows
<1> QED
  BY <1>1, <1>2, <1>3, PTL DEF DumpSpec

================================================================================

------------------------------ MODULE RowDrafts ------------------------------
(* The rows picked in a table's grid and the draft over all of them in the    *)
(* sidebar: dbui-ui's RowSelection and RowDraft, and the handlers of root.rs   *)
(* that select, type and stage. One table tab, whose rows stay as read; texts  *)
(* that do not parse and new rows beside these are in StagedWork.              *)
EXTENDS Integers

CONSTANTS
  Last,       \* the last row of the page
  Cols,       \* its columns without the key, in the order of the result
  Texts,      \* what a cell may read
  Contents,   \* what the rows hold: functions of row and column
  MIXED,      \* the token of a field whose rows differ
  AsStored,   \* nothing staged for a cell
  None,
  MaxTyped    \* bound: keystrokes and tokens put into fields

Rows   == 0..Last
Fields == Texts \cup {MIXED}
Edits  == [Rows -> [Cols -> Texts \cup {AsStored}]]
Drafts == [rows : SUBSET Rows, texts : [Cols -> Fields]]
Boxes  == [row : Rows, col : Cols, text : Fields]

ASSUME RowDraftsAssumption ==
  /\ Last \in Nat
  /\ Contents \subseteq [Rows -> [Cols -> Texts]]
  /\ MIXED \notin Texts /\ AsStored \notin Fields
  /\ None \notin Rows \cup Drafts \cup Boxes

VARIABLES
  stored,
  selection, anchor,  \* RowSelection
  lead,               \* selected_row
  draft,              \* the rows it speaks for and the text of each field
  edits, deletes,     \* pending_edits, pending_deletes
  drag,               \* row_drag
  box,                \* editing_cell, and the text in the box over it
  typed,
  meant               \* history: what was last asked for each cell

vars == <<stored, selection, anchor, lead, draft, edits, deletes, drag, box, typed, meant>>

TypeOK ==
  /\ selection \subseteq Rows /\ anchor \in Rows \cup {None}
  /\ lead \in Rows \cup {None} /\ drag \in Rows \cup {None}
  /\ draft \in Drafts \cup {None} /\ box \in Boxes \cup {None}
  /\ edits \in Edits /\ deletes \subseteq Rows

Init ==
  /\ stored \in Contents
  /\ selection = {} /\ anchor = None /\ lead = None /\ draft = None
  /\ edits = [r \in Rows |-> [c \in Cols |-> AsStored]] /\ deletes = {}
  /\ drag = None /\ box = None /\ typed = 0
  /\ meant = edits

-----------------------------------------------------------------------------
(* Drafts *)

\* What a cell reads with what is staged for it.
Reads(staged, r, c) == IF staged[r][c] = AsStored THEN stored[r][c] ELSE staged[r][c]

Agreed(rows, staged, c) ==
  LET Alike(t) == \A r \in rows : Reads(staged, r, c) = t
  IN  IF \E t \in Texts : Alike(t) THEN CHOOSE t \in Texts : Alike(t) ELSE MIXED

FromRows(rows, staged) ==
  IF rows = {} THEN None
  ELSE [rows |-> rows, texts |-> [c \in Cols |-> Agreed(rows, staged, c)]]

NoEdit == [c \in Cols |-> AsStored]

\* What a row is to end up with: a field left MIXED keeps what was staged.
EndsUnstaged(r, c, text) ==  \* mutant: ... has nothing staged
  IF text \in {MIXED, stored[r][c]} THEN AsStored ELSE text
EndsMixed(r, c, text) ==  \* mutant: ... is written the token
  IF text = stored[r][c] THEN AsStored ELSE text
Ends(r, c, text) ==
  CASE text = MIXED -> edits[r][c]
    [] text = stored[r][c] -> AsStored
    [] OTHER -> text

\* pending_edits with the draft d folded in.
Stashed(d) ==
  [r \in Rows |->
     CASE r \in deletes -> NoEdit
       [] d # None /\ r \in d.rows \ deletes -> [c \in Cols |-> Ends(r, c, d.texts[c])]
       [] OTHER -> edits[r]]

\* commit_cell_edit: into the draft, if that is over the row of the box alone.
Committed ==
  IF box # None /\ draft # None /\ draft.rows = {box.row}
  THEN [draft EXCEPT !.texts[box.col] = box.text] ELSE draft

Typing(r, c, text) == [meant EXCEPT ![r][c] = Ends(r, c, text)]

BoxMeant == IF box = None THEN meant ELSE Typing(box.row, box.col, box.text)

-----------------------------------------------------------------------------
(* Selecting *)

First(rows) == CHOOSE r \in rows : \A q \in rows : r <= q
Final(rows) == CHOOSE r \in rows : \A q \in rows : q <= r

\* What selecting does around the change of the selection to rows: the box is
\* finished, the draft stashed and another opened.
Picks(rows, anchored, about) ==
  LET staged == Stashed(Committed)
  IN  /\ edits' = staged
      /\ selection' = rows /\ anchor' = anchored
      /\ lead' = IF about \in rows THEN about ELSE IF rows = {} THEN None ELSE First(rows)
      /\ draft' = FromRows(rows, staged)
      /\ box' = None /\ meant' = BoxMeant
      /\ UNCHANGED <<stored, deletes, typed>>

Between(r) == LET from == IF anchor = None THEN r ELSE anchor
              IN  IF from <= r THEN from..r ELSE r..from

\* With the pointer; a press inside the box is the box's own.
Click(r) == drag = None /\ Picks({r}, r, r) /\ drag' = r

ShiftClick(r) ==
  /\ drag = None
  /\ Picks(Between(r), IF anchor = None THEN r ELSE anchor, r)
  /\ drag' = r

CommandClick(r) ==
  /\ drag = None
  /\ Picks(IF r \in selection THEN selection \ {r} ELSE selection \cup {r}, r, r)
  /\ UNCHANGED drag

DragOver(r) ==
  /\ drag \notin {None, r}
  /\ drag' = r
  /\ selection' = Between(r)
  /\ anchor' = IF anchor = None THEN r ELSE anchor
  /\ UNCHANGED <<stored, lead, draft, edits, deletes, box, typed, meant>>

Release == drag # None /\ Picks(selection, anchor, None) /\ drag' = None

\* With the keyboard, while no box has it.
ByKey == box = None /\ UNCHANGED drag

SelectAll == ByKey /\ Picks(Rows, IF anchor = None THEN 0 ELSE anchor, None)

ClearSelection == ByKey /\ Picks({}, None, None)

Moved(r, by) ==
  CASE r + by < 0 -> 0
    [] r + by > Last -> Last
    [] OTHER -> r + by

MoveRow(by) ==
  LET next == IF lead = None THEN 0 ELSE Moved(lead, by)
  IN  /\ ByKey
      /\ lead = None => by > 0
      /\ lead # next
      /\ Picks({next}, next, next)

ExtendSelection(by) ==
  LET from == CASE selection # {} -> Final(selection)
                [] selection = {} /\ anchor # None -> anchor
                [] OTHER -> 0
      next == Moved(from, by)
  IN  /\ ByKey
      /\ Picks(Between(next), IF anchor = None THEN next ELSE anchor, next)

-----------------------------------------------------------------------------
(* Typing *)

Counted == typed < MaxTyped /\ typed' = typed + 1

TypeField(c, text) ==
  /\ draft # None /\ Counted
  /\ LET d == Committed IN draft' = [d EXCEPT !.texts[c] = text]
  /\ meant' = [r \in Rows |-> IF r \in draft.rows
                              THEN [BoxMeant[r] EXCEPT ![c] = Ends(r, c, text)] ELSE BoxMeant[r]]
  /\ box' = None
  /\ UNCHANGED <<stored, selection, anchor, lead, edits, deletes, drag>>

\* MIXED from the field's menu takes back what was staged: unstage_column.
PickMixed(c) ==
  /\ draft # None /\ box = None /\ Counted
  /\ draft' = [draft EXCEPT !.texts[c] = MIXED]
  /\ edits' = [r \in Rows |-> IF r \in draft.rows THEN [edits[r] EXCEPT ![c] = AsStored] ELSE edits[r]]
  /\ meant' = [r \in Rows |-> IF r \in draft.rows THEN [meant[r] EXCEPT ![c] = AsStored] ELSE meant[r]]
  /\ UNCHANGED <<stored, selection, anchor, lead, deletes, drag, box>>

BeginCellEdit(r, c) ==
  LET staged == Stashed(draft)
  IN  /\ box = None
      /\ edits' = staged /\ selection' = {r} /\ anchor' = r /\ lead' = r
      /\ draft' = FromRows({r}, staged)
      /\ box' = [row |-> r, col |-> c, text |-> draft'.texts[c]]
      /\ UNCHANGED <<stored, deletes, drag, typed, meant>>

TypeCell(text) ==
  /\ box # None /\ Counted
  /\ box' = [box EXCEPT !.text = text]
  /\ UNCHANGED <<stored, selection, anchor, lead, draft, edits, deletes, drag, meant>>

CommitCell ==
  /\ box # None
  /\ draft' = Committed /\ meant' = BoxMeant /\ box' = None
  /\ UNCHANGED <<stored, selection, anchor, lead, edits, deletes, drag, typed>>

CancelCell == box # None /\ box' = None /\ UNCHANGED <<stored, selection, anchor, lead, draft, edits, deletes, drag, typed, meant>>

-----------------------------------------------------------------------------
(* Staging *)

DeleteSelected ==
  /\ box = None /\ selection # {}
  /\ edits' = [r \in Rows |-> IF r \in selection THEN NoEdit ELSE Stashed(draft)[r]]
  /\ deletes' = deletes \cup selection
  /\ UNCHANGED <<stored, selection, anchor, lead, draft, drag, box, typed, meant>>

\* collect_batch_edits: what is staged with the draft, which a save writes.
Batch == Stashed(draft)

Discard ==
  /\ box = None
  /\ deletes # {} \/ \E r \in Rows : Batch[r] # NoEdit
  /\ edits' = [r \in Rows |-> NoEdit] /\ deletes' = {} /\ meant' = edits'
  /\ draft' = IF draft = None THEN None ELSE FromRows(draft.rows, edits')
  /\ UNCHANGED <<stored, selection, anchor, lead, drag, box, typed>>

Next ==
  \/ \E r \in Rows : Click(r) \/ ShiftClick(r) \/ CommandClick(r) \/ DragOver(r)
  \/ Release \/ SelectAll \/ ClearSelection
  \/ \E by \in {-1, 1} : MoveRow(by) \/ ExtendSelection(by)
  \/ \E c \in Cols : \/ PickMixed(c)
                     \/ \E text \in Fields : TypeField(c, text)
                     \/ \E r \in Rows : BeginCellEdit(r, c)
  \/ \E text \in Fields : TypeCell(text)
  \/ CommitCell \/ CancelCell
  \/ DeleteSelected \/ Discard

Spec == Init /\ [][Next]_vars

-----------------------------------------------------------------------------
(* Properties *)

\* What a save would write is, cell by cell, what was last typed into a field
\* over that row, by whatever selections the row came under a draft before and
\* after: no row gets the value of another, and none loses its own
\* (to_pending_batch, from_rows, stash_current_draft).
BatchIsMeant == \A r \in Rows \ deletes : Batch[r] = meant[r]
=============================================================================

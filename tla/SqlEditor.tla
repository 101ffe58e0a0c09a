------------------------------- MODULE SqlEditor -------------------------------
(* The text buffer of a SQL tab, its find bar and its completion popup: dbui-   *)
(* ui's TextInput as the editor drives it.  A place in the text is the number   *)
(* of characters before it; the code counts bytes and keeps to the boundaries   *)
(* between characters.                                                          *)
EXTENDS Integers, Sequences, FiniteSetsExt

Seqs == INSTANCE SequencesExt

CONSTANTS
  Chars,        \* what a text is made of
  WordChars,    \* the letters, digits and underscores among them
  Typed,        \* those the user types
  Space, NL, Dash,
  Closes,       \* a function: the closer of each character that opens a pair
  Openings,     \* the texts a tab opens with, and the bounds on what is done there:
                \* how many edits are made, how long the text gets, and the names
                \* there are to complete
  Needles,      \* what is looked for in the find bar, and what replaces it
  UNDO_LIMIT

VARIABLES
  text,
  from, to,     \* the selection; its head is from if it is backwards, else to
  backwards,
  undo, redo,   \* snapshots, the latest last
  popup,        \* the places of what the open completion popup replaces, or <<>>
  edits, size, names  \* bounds: the edits still to be made, the longest text, the names

buffer == <<text, from, to, backwards, undo, redo, edits>>
editorVars == <<buffer, popup, size, names>>

Texts == Seq(Chars)
Places(t) == 0..Len(t)

ASSUME EditorAssumption ==
    /\ Typed \cup {Space, NL, Dash} \subseteq Chars
    /\ DOMAIN Closes \subseteq Chars /\ \A c \in DOMAIN Closes : Closes[c] \in Chars
    /\ \A o \in Openings : o.text \in Texts /\ \A n \in o.names : n \in Texts
    /\ \A n \in Needles : n \in Texts
    /\ UNDO_LIMIT \in Nat \ {0}

--------------------------------------------------------------------------------
(* Texts *)

Before(t, k) == SubSeq(t, 1, k)
After(t, k) == SubSeq(t, k + 1, Len(t))
Splice(t, a, b, new) == Before(t, a) \o new \o After(t, b)

IsWord(c) == c \in WordChars
IsSpace(c) == c \in {Space, NL}
SameClass(c, d) == IsSpace(c) = IsSpace(d) /\ IsWord(c) = IsWord(d)

LineStart(t, k) == Max({i \in 0..k : i = 0 \/ t[i] = NL})
LineEnd(t, k) == Min({i \in k..Len(t) : i = Len(t) \/ t[i + 1] = NL})

\* Option-left stops before a word, option-right after one: the gap between two
\* words is crossed on the way.
PrevWord(t, k) ==
    LET inWord == {i \in 1..k : ~IsSpace(t[i])}
    IN  IF inWord = {} THEN 0
        ELSE LET last == Max(inWord)
             IN  Min({i \in 0..last - 1 : \A j \in i + 1..last : SameClass(t[j], t[last])})

NextWord(t, k) ==
    LET inWord == {i \in k + 1..Len(t) : ~IsSpace(t[i])}
    IN  IF inWord = {} THEN Len(t)
        ELSE LET first == Min(inWord)
             IN  Max({i \in first..Len(t) : \A j \in first..i : SameClass(t[j], t[first])})

\* The run of one class of characters a double click takes.
WordAt(t, k) ==
    LET probe == IF k = Len(t) THEN k ELSE k + 1
        run == {r \in Places(t) \X Places(t) :
                  r[1] < probe /\ probe <= r[2] /\
                  \A j \in r[1] + 1..r[2] : SameClass(t[j], t[probe])}
    IN  CHOOSE r \in run : \A other \in run : r[1] <= other[1] /\ r[2] >= other[2]

\* Where a needle occurs, left to right and without overlapping.
Occurs(t, n, k) == n # <<>> /\ Seqs!IsPrefix(n, After(t, k))

Matches(t, n) ==
    LET taken[k \in 0..Len(t)] ==
          IF k = Len(t) THEN {}
          ELSE IF Occurs(t, n, k) THEN {k} \cup taken[k + Len(n)]
          ELSE taken[k + 1]
    IN  taken[0]

Replaced(t, n, by) ==
    LET rest[k \in 0..Len(t)] ==
          IF k = Len(t) THEN <<>>
          ELSE IF Occurs(t, n, k) THEN by \o rest[k + Len(n)]
          ELSE <<t[k + 1]>> \o rest[k + 1]
    IN  rest[0]

--------------------------------------------------------------------------------
(* Command-slash: the lines the selection touches are commented out, or brought *)
(* back if every line with text on it is a comment.                             *)

Indent(l) == Min({i \in 0..Len(l) : i = Len(l) \/ l[i + 1] # Space})
IsBlank(l) == Indent(l) = Len(l)
IsComment(l) == Seqs!IsPrefix(<<Dash, Dash>>, After(l, Indent(l)))

Commented(l, n) == Before(l, n) \o <<Dash, Dash, Space>> \o After(l, n)

Uncommented(l) ==
    LET rest == After(l, Indent(l) + 2)
    IN  Before(l, Indent(l)) \o (IF rest # <<>> /\ rest[1] = Space THEN Tail(rest) ELSE rest)

\* A selection that ends at the very start of a line does not include that line.
LastPlace(t, f, e) == IF e > f /\ t[e] = NL THEN e - 1 ELSE e

\* The lines touched, in order.
Block(t, f, e) ==
    LET first == LineStart(t, f)
        end == LineEnd(t, LastPlace(t, f, e))
        starts == {k \in first..end : k = first \/ t[k] = NL}
    IN  [first |-> first, end |-> end,
         lines |-> Seqs!FlattenSeq([i \in 1..end - first + 1 |->
                     LET k == first + i - 1
                     IN  IF k \in starts THEN <<SubSeq(t, k + 1, LineEnd(t, k))>> ELSE <<>>])]

WithText(lines) == {i \in DOMAIN lines : ~IsBlank(lines[i])}

AllCommented(lines) ==
    WithText(lines) # {} /\ \A i \in WithText(lines) : IsComment(lines[i])

Shallowest(lines) ==
    IF WithText(lines) = {} THEN 0 ELSE Min({Indent(lines[i]) : i \in WithText(lines)})

Joined(lines) ==
    Seqs!FlattenSeq([i \in DOMAIN lines |-> IF i = 1 THEN lines[i] ELSE <<NL>> \o lines[i]])

Clamp(k, a, b) == IF k < a THEN a ELSE IF k > b THEN b ELSE k

SelectedKept(b, f, e, n) == <<f, e>>  \* mutant: the old places
SelectedAfter(b, f, e, n) == <<b.first, b.first + n>>

Toggled(t, f, e) ==
    LET b == Block(t, f, e)
        back == AllCommented(b.lines)
        new == Joined([i \in DOMAIN b.lines |->
                 CASE IsBlank(b.lines[i]) -> b.lines[i]
                   [] ~IsBlank(b.lines[i]) /\ back -> Uncommented(b.lines[i])
                   [] OTHER -> Commented(b.lines[i], Shallowest(b.lines))])
        caret == Clamp(f + (IF back THEN -3 ELSE 3), b.first, b.first + Len(new))
        kept == IF f = e THEN <<caret, caret>> ELSE SelectedAfter(b, f, e, Len(new))
    IN  [text |-> Splice(t, b.first, b.end, new), from |-> kept[1], to |-> kept[2]]

--------------------------------------------------------------------------------
(* The buffer *)

Snapshot == [text |-> text, from |-> from, to |-> to, backwards |-> backwards]

Snapshots == [text : Texts, from : Nat, to : Nat, backwards : BOOLEAN]

HasSelection == from # to
Cursor == IF backwards THEN from ELSE to

EditorInit ==
    \E o \in Openings :
       /\ text = o.text /\ edits = o.edits /\ size = o.size
       /\ from = Len(text) /\ to = Len(text) /\ backwards = FALSE
       /\ undo = <<>> /\ redo = <<>>
       /\ popup = <<>> /\ names = o.names

Selects(f, e, b) == from' = f /\ to' = e /\ backwards' = b

MoveTo(k) == Selects(k, k, FALSE) /\ UNCHANGED <<text, undo, redo, edits>>

\* The anchor stays and the head moves, over the anchor too.
SelectTo(k) ==
    LET anchor == IF backwards THEN to ELSE from
    IN  /\ CASE k < anchor -> Selects(k, anchor, TRUE)
             [] k > anchor -> Selects(anchor, k, FALSE)
             [] OTHER -> Selects(k, k, backwards)
        /\ UNCHANGED <<text, undo, redo, edits>>

SelectAll == Selects(0, Len(text), FALSE) /\ UNCHANGED <<text, undo, redo, edits>>

SelectWord(k) ==
    /\ text # <<>>
    /\ Selects(WordAt(text, k)[1], WordAt(text, k)[2], FALSE)
    /\ UNCHANGED <<text, undo, redo, edits>>

SelectLine(k) ==
    LET end == LineEnd(text, k)
    IN  /\ Selects(LineStart(text, k), IF end < Len(text) THEN end + 1 ELSE end, FALSE)
        /\ UNCHANGED <<text, undo, redo, edits>>

PushedForever(stack) == Append(stack, Snapshot)  \* mutant: no limit

Pushed(stack) ==
    IF Len(stack) < UNDO_LIMIT THEN Append(stack, Snapshot)
    ELSE Append(Tail(stack), Snapshot)

EditedQuietly(t, f, e) ==  \* mutant: redo is kept
    /\ Len(t) <= size /\ edits > 0
    /\ edits' = edits - 1
    /\ undo' = Pushed(undo) /\ redo' = redo
    /\ text' = t /\ Selects(f, e, FALSE)

\* Every edit leaves what was there on the undo stack, and empties the other.
Edited(t, f, e) ==
    /\ Len(t) <= size /\ edits > 0
    /\ edits' = edits - 1
    /\ undo' = Pushed(undo) /\ redo' = <<>>
    /\ text' = t /\ Selects(f, e, FALSE)

Cuts(a, b) == Edited(Splice(text, a, b, <<>>), a, a)

ReplaceSelection(new) ==
    Edited(Splice(text, from, to, new), from + Len(new), from + Len(new))

\* A range is cut to the text.
ReplaceRange(a, b, new) ==
    LET start == Min({a, Len(text)})
        end == Max({start, Min({b, Len(text)})})
    IN  Edited(Splice(text, start, end, new), start + Len(new), start + Len(new))

\* An opener brings its closer, or wraps the selection; a closer steps over the
\* one that is there; the rest is typed as it is.
Type(c) ==
    LET next == IF Cursor < Len(text) THEN {text[Cursor + 1]} ELSE {}
        prev == IF Cursor > 0 THEN {text[Cursor]} ELSE {}
        opens == c \in DOMAIN Closes
        closer == \E o \in DOMAIN Closes : Closes[o] = c
        steps == closer /\ ~HasSelection /\ next = {c}
        glued == \/ opens /\ Closes[c] = c /\ \E p \in prev : IsWord(p)
                 \/ \E n \in next : IsWord(n)
    IN  \/ steps /\ MoveTo(Cursor + 1)
        \/ /\ ~steps /\ opens /\ HasSelection
           /\ Edited(Before(text, from) \o <<c>> \o SubSeq(text, from + 1, to)
                       \o <<Closes[c]>> \o After(text, to),
                     from + 1, to + 1)
        \/ /\ ~steps /\ opens /\ ~HasSelection /\ ~glued
           /\ Edited(Splice(text, from, from, <<c, Closes[c]>>), from + 1, from + 1)
        \/ /\ ~steps /\ (opens => ~HasSelection /\ glued)
           /\ ReplaceSelection(<<c>>)

\* Between a pair that was typed as one, both halves go.
Backspace ==
    LET paired == /\ 0 < from /\ from < Len(text)
                  /\ text[from] \in DOMAIN Closes /\ Closes[text[from]] = text[from + 1]
    IN  \/ HasSelection /\ ReplaceSelection(<<>>)
        \/ ~HasSelection /\ paired /\ Cuts(from - 1, from + 1)
        \/ ~HasSelection /\ ~paired /\ from > 0 /\ Cuts(from - 1, from)

DeleteForward ==
    \/ HasSelection /\ ReplaceSelection(<<>>)
    \/ ~HasSelection /\ to < Len(text) /\ Cuts(to, to + 1)

DeleteWordBackward ==
    \/ HasSelection /\ ReplaceSelection(<<>>)
    \/ ~HasSelection /\ from > 0 /\ Cuts(PrevWord(text, from), from)

DeleteWordForward ==
    \/ HasSelection /\ ReplaceSelection(<<>>)
    \/ ~HasSelection /\ to < Len(text) /\ Cuts(to, NextWord(text, to))

DeleteToLineStart ==
    \/ HasSelection /\ ReplaceSelection(<<>>)
    \/ ~HasSelection /\ LineStart(text, from) < from /\ Cuts(LineStart(text, from), from)

ToggleLineComment ==
    LET toggled == Toggled(text, from, to)
    IN  Edited(toggled.text, toggled.from, toggled.to)

Clear == Edited(<<>>, 0, 0)

Restore(s) ==
    text' = s.text /\ Selects(s.from, s.to, s.backwards) /\ edits' = edits

Undo ==
    /\ undo # <<>>
    /\ Restore(undo[Len(undo)])
    /\ undo' = SubSeq(undo, 1, Len(undo) - 1)
    /\ redo' = Append(redo, Snapshot)

Redo ==
    /\ redo # <<>>
    /\ Restore(redo[Len(redo)])
    /\ redo' = SubSeq(redo, 1, Len(redo) - 1)
    /\ undo' = Append(undo, Snapshot)

\* Another text is put in the buffer, which is not an edit of this one.
SetText(t) ==
    /\ text' = t /\ Selects(Len(t), Len(t), FALSE)
    /\ undo' = <<>> /\ redo' = <<>>
    /\ edits' = edits

--------------------------------------------------------------------------------
(* The find bar *)

\* The next match after the selection, or the first.
FindStep(n) ==
    LET found == Matches(text, n)
        isNext(k) == k >= to /\ <<k, k + Len(n)>> # <<from, to>>
        k == IF \E m \in found : isNext(m) THEN Min({m \in found : isNext(m)}) ELSE Min(found)
    IN  /\ found # {}
        /\ Selects(k, k + Len(n), FALSE)
        /\ UNCHANGED <<text, undo, redo, edits>>

\* The one before it, or the last.
FindBack(n) ==
    LET found == Matches(text, n)
        before == {m \in found : m + Len(n) <= from}
        k == Max(IF before # {} THEN before ELSE found)
    IN  /\ found # {}
        /\ Selects(k, k + Len(n), FALSE)
        /\ UNCHANGED <<text, undo, redo, edits>>

\* What is looked for changed: the match the selection starts with will do.
FindRefresh(n) ==
    LET found == Matches(text, n)
        ahead == {m \in found : m >= from}
        k == Min(IF ahead # {} THEN ahead ELSE found)
    IN  /\ found # {}
        /\ Selects(k, k + Len(n), FALSE)
        /\ UNCHANGED <<text, undo, redo, edits>>

\* A match that is selected is replaced; the bar then steps on to the next.
ReplaceOne(n, by) ==
    LET t == Splice(text, from, to, by)
        found == Matches(t, n)
        end == from + Len(by)
        k == IF \E m \in found : m >= end THEN Min({m \in found : m >= end}) ELSE Min(found)
    IN  /\ from \in Matches(text, n) /\ to = from + Len(n)
        /\ IF found = {} THEN Edited(t, end, end) ELSE Edited(t, k, k + Len(n))

\* Every match is replaced, as one undoable edit.
ReplaceAll(n, by) ==
    LET t == Replaced(text, n, by)
        caret == IF Cursor < Len(t) THEN Cursor ELSE Len(t)
    IN  /\ Matches(text, n) # {}
        /\ Edited(t, caret, caret)

--------------------------------------------------------------------------------
(* The completion popup *)

NameStart(t, k) == Max({0} \cup {i \in 1..k : ~IsWord(t[i])})

\* What the popup is at a place: it replaces the name before the caret. There may
\* be nothing to offer.
OfferedAt(t, k) ==
    {<<>>} \cup (IF names = {} THEN {} ELSE {<<NameStart(t, k), k>>})

Refiltered ==
    IF popup = <<>> THEN popup' = <<>> ELSE popup' \in OfferedAt(text', to')

\* The second letter of a name opens the popup, a space closes it, the rest is
\* looked at again.
TypedAt(c) ==
    CASE c = Space -> popup' = <<>>
      [] c # Space /\ popup # <<>> -> popup' \in OfferedAt(text', to')
      [] OTHER -> IF IsWord(c) /\ to' - NameStart(text', to') >= 2
                  THEN popup' \in OfferedAt(text', to') ELSE popup' = <<>>

\* Asked for, or the columns it waited for have come.
Complete == popup' \in OfferedAt(text, Cursor) /\ UNCHANGED buffer

Dismiss == popup # <<>> /\ popup' = <<>> /\ UNCHANGED buffer

Accept(name) ==
    /\ popup # <<>> /\ popup' = <<>>
    /\ ReplaceRange(popup[1], popup[2], name)

--------------------------------------------------------------------------------
Moves(k) == MoveTo(k) \/ SelectTo(k) \/ SelectWord(k) \/ SelectLine(k)

Finds(n) == FindStep(n) \/ FindBack(n) \/ FindRefresh(n)

\* What the popup is not told of: a click, an arrow, a key with command, the find
\* bar, a statement put in from elsewhere.
Untold ==
    \/ \E k \in Places(text) : Moves(k)
    \/ SelectAll \/ DeleteToLineStart \/ ToggleLineComment \/ Clear \/ Undo \/ Redo
    \/ HasSelection /\ ReplaceSelection(<<>>)  \* a cut
    \/ \E n \in Needles :
         ReplaceSelection(n) \/ ReplaceRange(0, Len(text), n) \/ SetText(n) \/ Finds(n)
    \/ \E n, by \in Needles : ReplaceOne(n, by) \/ ReplaceAll(n, by)

EditorNext ==
    /\ UNCHANGED <<size, names>>
    /\ \/ popup' = popup /\ Untold
       \/ \E c \in Typed : Type(c) /\ TypedAt(c)
       \/ (Backspace \/ DeleteForward \/ DeleteWordBackward \/ DeleteWordForward) /\ Refiltered
       \/ Complete \/ Dismiss
       \/ \E n \in names : Accept(n)

EditorSpec == EditorInit /\ [][EditorNext]_editorVars

--------------------------------------------------------------------------------
(* Properties *)

\* The selection is inside the text, now and after any undo or redo: places past
\* the end, or the wrong way round, are where slicing a string would panic.
IsIn(s) == s.text \in Texts /\ s.from \in Places(s.text) /\ s.to \in s.from..Len(s.text)

EditorTypeOK ==
    /\ IsIn(Snapshot) /\ backwards \in BOOLEAN
    /\ popup = <<>> \/ popup \in Nat \X Nat
    /\ \A i \in DOMAIN undo : IsIn(undo[i])
    /\ \A i \in DOMAIN redo : IsIn(redo[i])
    /\ Len(undo) + Len(redo) <= UNDO_LIMIT

\* A second command-slash undoes a first that commented lines out: it finds the
\* same lines, and takes off what was put on (TextInput::toggle_line_comment).
TogglesBack ==
    LET once == Toggled(text, from, to)
    IN  ~AllCommented(Block(text, from, to).lines)
        => Toggled(once.text, once.from, once.to).text = text

\* Undo goes back to the text before the last edit, redo forth again to the text
\* undone, over any number of edits, moves and limits: every edit is one entry
\* (TextInput::push_undo, undo, redo; DbUi::replace_all).
TextOf(i) ==
    LET n == Len(undo)
    IN  IF i <= n THEN undo[i].text
        ELSE IF i = n + 1 THEN text
        ELSE redo[n + Len(redo) + 2 - i].text

History == INSTANCE Timeline WITH
    line <- [i \in 1..(Len(undo) + 1 + Len(redo)) |-> TextOf(i)],
    at <- Len(undo) + 1,
    Limit <- UNDO_LIMIT

UndoKeepsHistory == History!Spec
================================================================================

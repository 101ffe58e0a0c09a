-------------------------------- MODULE SqlScan --------------------------------
(* Cutting the editor's text into statements, and the :names in them:           *)
(* dbui-domain's sql_split and params, beside the way the engines read the same *)
(* text. A text is a sequence of pieces: a mark, a space, or a word or a part   *)
(* of one, letters being lower-cased but for the words the scan looks for.      *)
EXTENDS Integers, Sequences

LOCAL INSTANCE FiniteSetsExt
LOCAL Seqs == INSTANCE SequencesExt

CONSTANTS
  Scripts,   \* [driver, text, whole]: texts, and the statements the engine reads there
  Values     \* what the user answers when asked for a :name

VARIABLES
  script,
  at,        \* the next piece to read
  start,     \* where the statement being read starts
  delimiter,
  lead,      \* the statement's first words
  routine,
  depth,     \* of BEGIN and CASE blocks open in a routine
  blank,     \* nothing but space since start
  ranges     \* the statements found: the places of their first and last pieces

vars == <<script, at, start, delimiter, lead, routine, depth, blank, ranges>>

Sql == script.text
Drivers == {"Postgres", "MySql", "Sqlite"}

Spaces == {" ", "NL"}
Quotes == {"'", "dq", "bq"}  \* a double quote, a backtick
Digits == {"1"}
Words == {"x", "E", "CREATE", "TRIGGER", "BEGIN", "CASE", "END", "IF", "DELIMITER"}

IsIdent(c) == c \in Words \cup Digits \cup {"$"}
IsTag(c, first) == c \in Words \/ (~first /\ c \in Digits)

--------------------------------------------------------------------------------
(* Past what opens at a: the place after its end, or after the text's.          *)

Or(places, other) == IF places = {} THEN other ELSE Min(places)

SkipEscaped(s, a, backslash) ==  \* mutant: '' is two strings
    LET end[i \in a + 1..Len(s) + 2] ==
          IF i > Len(s) THEN Len(s) + 1
          ELSE IF backslash /\ s[i] = "\\" THEN end[i + 2]
          ELSE IF s[i] = s[a] THEN i + 1
          ELSE end[i + 1]
    IN  end[a + 1]

SkipLiteral(s, a, backslash) ==  \* mutant: a backslash is never an escape
    LET end[i \in a + 1..Len(s) + 2] ==
          IF i > Len(s) THEN Len(s) + 1
          ELSE IF s[i] # s[a] THEN end[i + 1]
          ELSE IF i < Len(s) /\ s[i + 1] = s[a] THEN end[i + 2]
          ELSE i + 1
    IN  end[a + 1]

SkipQuoted(s, a, backslash) ==
    LET end[i \in a + 1..Len(s) + 2] ==
          IF i > Len(s) THEN Len(s) + 1
          ELSE IF s[i] = s[a] /\ i < Len(s) /\ s[i + 1] = s[a] THEN end[i + 2]
          ELSE IF s[i] = s[a] THEN i + 1
          ELSE IF backslash /\ s[i] = "\\" THEN end[i + 2]
          ELSE end[i + 1]
    IN  end[a + 1]

\* The place after the tag's second $, if a $ at a opens a dollar quote.
TagEnd(s, a) ==
    {i + 1 : i \in {j \in a + 1..Len(s) :
        /\ s[j] = "$" /\ ~(a > 1 /\ IsIdent(s[a - 1]))
        /\ \A k \in a + 1..j - 1 : IsTag(s[k], k = a + 1)}}

SkipDollarQuoted(s, a) ==
    LET open == Min(TagEnd(s, a))
        tag == SubSeq(s, a, open - 1)
    IN  Or({j + Len(tag) : j \in {k \in open..Len(s) : Seqs!IsPrefix(tag, SubSeq(s, k, Len(s)))}},
           Len(s) + 1)

SkipLineComment(s, a) == Or({i \in a + 2..Len(s) : s[i] = "NL"}, Len(s) + 1)

SkipBlockComment(s, a) ==
    Or({i + 2 : i \in {j \in a + 2..Len(s) - 1 : s[j] = "*" /\ s[j + 1] = "/"}}, Len(s) + 1)

Starts(s, i, two) == i < Len(s) /\ <<s[i], s[i + 1]>> = two

--------------------------------------------------------------------------------
(* The splitter: one step for each turn of its loop.                            *)

BackslashEscapes(driver) == driver = "MySql"

EString(s, i) == i > 1 /\ s[i - 1] = "E" /\ (i = 2 \/ ~IsIdent(s[i - 2]))

OpensRoutine(words) ==
    words # <<>> /\ words[1] = <<"CREATE">> /\ \E i \in 2..Len(words) : words[i] = <<"TRIGGER">>

\* What stands between two places, without the space around it.
Trimmed(a, b) ==
    LET solid == {i \in a..b : Sql[i] \notin Spaces}
    IN  IF solid = {} THEN <<>> ELSE <<[first |-> Min(solid), last |-> Max(solid)]>>

\* A DELIMITER line: the new terminator, and the place of the line's end.
Directive(i) ==
    LET end == SkipLineComment(Sql, i - 1)
        token == Trimmed(i + 1, end - 1)
    IN  IF /\ Sql[i] = "DELIMITER" /\ i < Len(Sql) /\ Sql[i + 1] = " " /\ token # <<>>
           /\ \A k \in token[1].first..token[1].last : Sql[k] \notin Spaces
        THEN {[terminator |-> SubSeq(Sql, token[1].first, token[1].last), end |-> end]}
        ELSE {}

\* The word at i: a terminator ends it.
WordEnd(i) ==
    Or({k \in i..Len(Sql) :
          \/ ~IsIdent(Sql[k])
          \/ delimiter # <<";">> /\ Seqs!IsPrefix(delimiter, SubSeq(Sql, k, Len(Sql)))},
       Len(Sql) + 1)

\* The word after a place, over space: its pieces and the place after it.
NextWord(i) ==
    LET first == Or({k \in i..Len(Sql) : Sql[k] \notin Spaces}, Len(Sql) + 1)
        after == Or({k \in first..Len(Sql) : ~IsIdent(Sql[k])}, Len(Sql) + 1)
    IN  [word |-> SubSeq(Sql, first, after - 1), after |-> after]

Init ==
    /\ script \in Scripts
    /\ at = 1 /\ start = 1 /\ delimiter = <<";">>
    /\ lead = <<>> /\ routine = FALSE /\ depth = 0 /\ blank = TRUE
    /\ ranges = <<>>

EndsAnywhere(i) == Seqs!IsPrefix(delimiter, SubSeq(Sql, i, Len(Sql)))  \* mutant: in a body too

EndsHere(i) ==
    /\ Seqs!IsPrefix(delimiter, SubSeq(Sql, i, Len(Sql)))
    /\ delimiter = <<";">> => depth = 0

MoveTo(i) == at' = i /\ UNCHANGED <<script, start, delimiter, lead, routine, depth, blank, ranges>>

SkipSpace == Sql[at] \in Spaces /\ MoveTo(at + 1)

Delimiter ==
    /\ blank
    /\ \E d \in Directive(at) :
         /\ delimiter' = d.terminator
         /\ at' = d.end /\ start' = d.end
    /\ UNCHANGED <<script, lead, routine, depth, blank, ranges>>

Terminator ==
    /\ EndsHere(at)
    /\ ranges' = ranges \o Trimmed(start, at - 1)
    /\ at' = at + Len(delimiter) /\ start' = at + Len(delimiter)
    /\ lead' = <<>> /\ routine' = FALSE /\ depth' = 0 /\ blank' = TRUE
    /\ UNCHANGED <<script, delimiter>>

\* What a ; may stand in, or a piece that means nothing.
Skipped(i) ==
    LET c == Sql[i]
        backslash == BackslashEscapes(script.driver)
    IN  CASE c = "'" -> SkipQuoted(Sql, i, backslash \/ EString(Sql, i))
          [] c \in {"dq", "bq"} -> SkipQuoted(Sql, i, backslash)
          [] c = "$" -> IF TagEnd(Sql, i) # {} THEN SkipDollarQuoted(Sql, i) ELSE i + 1
          [] Starts(Sql, i, <<"-", "-">>) -> SkipLineComment(Sql, i)
          [] Starts(Sql, i, <<"/", "*">>) -> SkipBlockComment(Sql, i)
          [] OTHER -> i + 1

IsWord(i) == Sql[i] # "$" /\ IsIdent(Sql[i]) /\ ~(i > 1 /\ IsIdent(Sql[i - 1]))

Skip ==
    /\ ~IsWord(at)
    /\ at' = Skipped(at) /\ blank' = FALSE
    /\ UNCHANGED <<script, start, delimiter, lead, routine, depth, ranges>>

\* In a routine BEGIN and CASE open a block and END closes it; END IF closes one
\* that was never counted.
Word ==
    LET word == SubSeq(Sql, at, WordEnd(at) - 1)
        words == IF Len(lead) < 8 THEN Append(lead, word) ELSE lead
        in == routine \/ OpensRoutine(words)
        opens == in /\ word \in {<<"BEGIN">>, <<"CASE">>}
        closes == in /\ word = <<"END">> /\ depth > 0
        next == NextWord(WordEnd(at))
        taken == closes /\ next.word \in {<<"IF">>, <<"CASE">>}
    IN  /\ IsWord(at)
        /\ lead' = words /\ routine' = in /\ blank' = FALSE
        /\ depth' = IF opens THEN depth + 1
                    ELSE IF closes /\ next.word # <<"IF">> THEN depth - 1
                    ELSE depth
        /\ at' = IF taken THEN next.after ELSE WordEnd(at)
        /\ UNCHANGED <<script, start, delimiter, ranges>>

\* What is left is the last statement.
Finish ==
    /\ at = Len(Sql) + 1
    /\ ranges' = ranges \o Trimmed(start, Len(Sql))
    /\ at' = at + 1
    /\ UNCHANGED <<script, start, delimiter, lead, routine, depth, blank>>

Reads ==
    \/ Delimiter
    \/ /\ ~(blank /\ Directive(at) # {})
       /\ Terminator \/ (~EndsHere(at) /\ (Skip \/ Word))

Next ==
    \/ at <= Len(Sql) /\ (SkipSpace \/ (Sql[at] \notin Spaces /\ Reads))
    \/ Finish

Done == at = Len(Sql) + 2

Spec == Init /\ [][Next]_vars

--------------------------------------------------------------------------------
(* The statement under the caret, which stands before piece k + 1.              *)

StatementAt(k) ==
    LET has == {i \in DOMAIN ranges : ranges[i].first - 1 <= k /\ k <= ranges[i].last}
        before == {i \in DOMAIN ranges : ranges[i].first - 1 <= k}
    IN  IF ranges = <<>> THEN {}
        ELSE {ranges[IF has # {} THEN Min(has) ELSE IF before # {} THEN Max(before) ELSE 1]}

--------------------------------------------------------------------------------
(* The :names of a text, and a value in the place of one.                       *)

StartsName(s, i) ==
    /\ s[i] = ":" /\ i < Len(s) /\ s[i + 1] \in Words
    /\ ~(i > 1 /\ s[i - 1] \in Words \cup Digits \cup {":"})

NameEnd(s, i) == Or({k \in i + 1..Len(s) : s[k] \notin Words \cup Digits}, Len(s) + 1)

Find(driver, s) ==
    LET past(i) ==
          CASE s[i] \in {"'", "dq"} -> SkipQuoted(s, i, driver = "MySql")
            [] s[i] = "bq" -> SkipQuoted(s, i, FALSE)
            [] Starts(s, i, <<"-", "-">>) -> SkipLineComment(s, i)
            [] s[i] = "#" /\ driver = "MySql" -> SkipLineComment(s, i - 1)
            [] Starts(s, i, <<"/", "*">>) -> SkipBlockComment(s, i)
            [] s[i] = "$" /\ driver = "Postgres" /\ TagEnd(s, i) # {} -> SkipDollarQuoted(s, i)
            [] StartsName(s, i) -> NameEnd(s, i)
            [] OTHER -> i + 1
        from[i \in 1..Len(s) + 1] ==
          IF i = Len(s) + 1 THEN {}
          ELSE (IF StartsName(s, i) THEN {i} ELSE {}) \cup from[past(i)]
    IN  from[1]

Doubled(v, marks) ==
    Seqs!FlattenSeq([i \in DOMAIN v |-> IF v[i] \in marks THEN <<v[i], v[i]>> ELSE <<v[i]>>])

QuotedAnywhere(driver, v) == <<"'">> \o Doubled(v, {"'"}) \o <<"'">>  \* mutant: one way for all

QuoteSql(driver, v) ==
    <<"'">> \o Doubled(v, IF driver = "MySql" THEN {"'", "\\"} ELSE {"'"}) \o <<"'">>

IsNumber(v) == v \in {<<"1">>, <<"-", "1">>}

Literal(driver, v) == IF IsNumber(v) THEN v ELSE QuoteSql(driver, v)

Substitute(driver, s, i, v) ==
    SubSeq(s, 1, i - 1) \o Literal(driver, v) \o SubSeq(s, NameEnd(s, i), Len(s))

--------------------------------------------------------------------------------
(* The engines: how each piece of a text is read, from what is before it.       *)

Code == [is |-> "code", from |-> 0, open |-> 0, pair |-> FALSE]

Escapes(driver, s, a) ==
    /\ s[a] # "bq"
    /\ driver = "MySql" \/ (driver = "Postgres" /\ s[a] = "'" /\ EString(s, a))

\* The text after piece i, which is read as m says.
ReadOn(driver, s, i, m) ==
    LET twin == i < Len(s) /\ s[i + 1] = s[i]
        opens == [Code EXCEPT !.from = i, !.open = 1]
        tag == SubSeq(s, m.from, Min(TagEnd(s, m.from)) - 1)
        line == \/ /\ Starts(s, i, <<"-", "-">>)
                   /\ driver = "MySql" => i + 1 = Len(s) \/ s[i + 2] \in Spaces
                \/ driver = "MySql" /\ s[i] = "#"
    IN  IF m.pair THEN [m EXCEPT !.pair = FALSE]
        ELSE
        CASE m.is = "code" /\ s[i] \in Quotes -> [opens EXCEPT !.is = "quoted"]
          [] m.is = "code" /\ driver = "Postgres" /\ s[i] = "$" /\ TagEnd(s, i) # {} ->
               [opens EXCEPT !.is = "dollar"]
          [] m.is = "code" /\ line -> [opens EXCEPT !.is = "line"]
          [] m.is = "code" /\ Starts(s, i, <<"/", "*">>) -> [opens EXCEPT !.is = "block", !.pair = TRUE]
          [] m.is = "quoted" /\ s[i] = "\\" /\ Escapes(driver, s, m.from) -> [m EXCEPT !.pair = TRUE]
          [] m.is = "quoted" /\ s[i] = s[m.from] -> IF twin THEN [m EXCEPT !.pair = TRUE] ELSE Code
          [] m.is = "dollar" /\ i >= m.from + 2 * Len(tag) - 1
               /\ SubSeq(s, i - Len(tag) + 1, i) = tag -> Code
          [] m.is = "line" /\ s[i] = "NL" -> Code
          [] m.is = "block" /\ Starts(s, i, <<"/", "*">>) /\ driver = "Postgres" ->
               [m EXCEPT !.open = m.open + 1, !.pair = TRUE]
          [] m.is = "block" /\ Starts(s, i, <<"*", "/">>) -> [m EXCEPT !.open = m.open - 1, !.pair = TRUE]
          [] OTHER -> m

\* Pieces that are neither in a string, nor in a name in quotes, nor in a comment.
InCode(driver, s) ==
    LET read[i \in 1..Len(s) + 1] ==
          IF i = 1 THEN Code
          ELSE LET m == ReadOn(driver, s, i - 1, read[i - 1])
               IN  IF m.is = "block" /\ m.open = 0 /\ ~m.pair THEN Code ELSE m
        next(i) == read[i + 1]
    IN  {i \in 1..Len(s) : read[i].is = "code" /\ next(i).is = "code"}

\* The statements of a text the engine is handed, but for routines.
Statements(driver, s) ==
    LET ends == {0, Len(s) + 1} \cup {i \in InCode(driver, s) : s[i] = ";"}
        solid(i) == {k \in Max({e \in ends : e < i}) + 1..i - 1 : s[k] \notin Spaces}
    IN  Seqs!FlattenSeq([i \in 1..Len(s) + 1 |->
          IF i \in ends /\ solid(i) # {}
          THEN <<[first |-> Min(solid(i)), last |-> Max(solid(i))]>> ELSE <<>>])

--------------------------------------------------------------------------------
(* Properties *)

\* The statements found are the engine's, whatever quotes, comments, dollar
\* quotes, escapes, blocks and terminators stand in them and around them: one cut
\* short or run on changes what is executed (sql_split::split).
SplitsAsRead == Done => ranges = script.whole

\* With the caret in a statement, or just after it, that statement is run, and
\* otherwise the one before, if there is one (sql_split::nearest).
CaretRunsIts ==
    Done => \A k \in 0..Len(Sql), r \in 1..Len(script.whole) :
      StatementAt(k) = {script.whole[r]} <=>
        \/ r = 1 /\ k < script.whole[1].first
        \/ /\ script.whole[r].first - 1 <= k
           /\ r < Len(script.whole) => k < script.whole[r + 1].first - 1

\* The :names found are those the engine would have read as code, all of them and
\* nothing that is text (params::find).
ParamsAreCode ==
    Done => Find(script.driver, Sql) =
              {i \in InCode(script.driver, Sql) : StartsName(Sql, i)}

\* A value in the place of a :name is one literal to the engine, and the rest of
\* the statement is read as before (params::substitute, Value::sql_literal). A
\* name that touches a quote is none the engine would take a value for.
LiteralsReadBack ==
    Done => \A i \in Find(script.driver, Sql), v \in Values :
      LET end == NameEnd(Sql, i)
          new == Substitute(script.driver, Sql, i, v)
          by == Len(Literal(script.driver, v)) - (end - i)
          code == InCode(script.driver, Sql)
          apart == \A k \in {i - 1, end} \cap DOMAIN Sql : Sql[k] \notin Quotes
      IN  apart =>
          InCode(script.driver, new) =
            {k \in code : k < i} \cup {k + by : k \in {j \in code : j >= end}}
              \cup (IF IsNumber(v) THEN i..end + by - 1 ELSE {})
================================================================================

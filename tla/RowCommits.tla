------------------------------- MODULE RowCommits -------------------------------
(* How what is staged on a table's tab gets to the server: apply_changes of the *)
(* three drivers and the statements sql_build writes for it, between            *)
(* DbUi::save_pending_edits and its answer. One tab of one table, which other   *)
(* clients of the server write to as well; what is typed, asked and put away    *)
(* meanwhile is in StagedWork.                                                  *)
EXTENDS Integers, FiniteSets

CONSTANTS
  Driver,
  Ids,       \* places for rows
  Keys, Values,
  NullKey,   \* the key of a row whose primary key is NULL
  Nullable,  \* the key may be NULL, which only SQLite has
  Initial,   \* the value the column gives a row by default
  Default,   \* left to the server
  Absent,
  Faults,    \* what may go wrong
  MaxInserts, MaxStaged, MaxMeanwhile, MaxSaves, MaxOthers   \* bounds

AllKeys == IF Nullable THEN Keys \cup {NullKey} ELSE Keys
Marks   == 1..MaxInserts
Lines   == [key : AllKeys, value : Values, from : Marks \cup {0}]

Inserts == [verb : {"insert"}, key : Keys \cup {Default}, value : Values \cup {Default}, mark : Marks]
Updates == [verb : {"update"}, key : AllKeys, value : Values \cup {Default}, mark : {0}]
Deletes == [verb : {"delete"}, key : AllKeys, value : {Default}, mark : {0}]

Statements == Inserts \cup Updates \cup Deletes

ASSUME RowCommitsAssumption ==
  /\ Driver \in {"Postgres", "MySql", "Sqlite"} /\ Nullable \in BOOLEAN
  /\ Nullable => Driver = "Sqlite"
  /\ NullKey \notin Keys /\ Initial \in Values
  /\ Default \notin Keys \cup {NullKey} \cup Values
  /\ Absent \notin Lines
  /\ MaxInserts \in Nat /\ MaxStaged \in Nat /\ MaxMeanwhile \in Nat
  /\ MaxSaves \in Nat /\ MaxOthers \in Nat

VARIABLES
  table,             \* what the server has committed
  known,             \* the rows as the tab last read them
  pending,           \* pending_inserts, pending_edits, pending_deletes
  marks,             \* rows staged for insertion so far
  stage,             \* of the commit: "idle", "sent", "open", "landed", "refused"
  batch, left,       \* what it is to do, what of it is yet to run
  touched, work,     \* the rows its transaction wrote, and what it made of them
  saves, others,
  steady, landed, lost   \* history: see Atomic; the inserts committed; a COMMIT unanswered

server == <<table, steady, others>>
tab    == <<known, pending, marks, saves>>
commit == <<stage, batch, left, touched, work>>
commitsVars == <<server, tab, commit, landed, lost>>

CommitsTypeOK ==
  /\ table \in [Ids -> Lines \cup {Absent}] /\ known \in [Ids -> Lines \cup {Absent}]
  /\ pending \subseteq Statements /\ marks \in 0..MaxInserts
  /\ stage \in {"idle", "sent", "open", "landed", "refused"}
  /\ batch \subseteq Statements /\ left \subseteq batch
  /\ touched \subseteq Ids /\ work \in [Ids -> Lines \cup {Absent}]
  /\ saves \in 0..MaxSaves /\ others \in 0..MaxOthers
  /\ steady \subseteq Ids /\ landed \subseteq Marks /\ lost \in BOOLEAN

NoWork == [i \in Ids |-> Absent]

Present(t) == {i \in Ids : t[i] # Absent}
Having(t, k) == {i \in Present(t) : t[i].key = k}

\* A key names a row; a NULL one names any number.
Keyed(t) == \A i, j \in Present(t) : t[i].key = t[j].key /\ t[i].key # NullKey => i = j

CommitsInit ==
  /\ table \in [Ids -> Lines \cup {Absent}] /\ Keyed(table)
  /\ \A i \in Present(table) : table[i].from = 0
  /\ known = table /\ pending = {} /\ marks = 0 /\ saves = 0 /\ others = 0
  /\ stage = "idle" /\ batch = {} /\ left = {} /\ touched = {} /\ work = NoWork
  /\ steady = {} /\ landed = {} /\ lost = FALSE

--------------------------------------------------------------------------------
(* Staging, at any moment, while a commit is under way too: edits and deletes  *)
(* are kept by the row's key.                                                  *)

Staging(now) ==
  /\ Cardinality(now) <= MaxStaged /\ pending' = now
  /\ stage # "idle" => Cardinality(now \ batch) <= MaxMeanwhile
  /\ UNCHANGED <<server, commit, known, saves, landed, lost>>

Without(verbs, k) == {s \in pending : s.verb \notin verbs \/ s.key # k}

StageEdit(i, v) ==
  /\ i \in Present(known) /\ UNCHANGED marks
  /\ LET k == known[i].key
     IN  Staging(Without({"update"}, k) \cup
           (IF v = known[i].value THEN {}
            ELSE {[verb |-> "update", key |-> k, value |-> v, mark |-> 0]}))

StageDelete(i) ==
  /\ i \in Present(known) /\ UNCHANGED marks
  /\ LET k == known[i].key
     IN  Staging(Without({"update"}, k) \cup
           {[verb |-> "delete", key |-> k, value |-> Default, mark |-> 0]})

StageInsert(k, v) ==
  /\ marks < MaxInserts /\ marks' = marks + 1
  /\ Staging(pending \cup {[verb |-> "insert", key |-> k, value |-> v, mark |-> marks']})

\* Refused while a commit is under way.
DiscardStaged == stage = "idle" /\ pending # {} /\ Staging({}) /\ UNCHANGED marks

\* The rows are read again, between any two steps.
Load == known' = table /\ UNCHANGED <<server, pending, marks, saves, commit, landed, lost>>

--------------------------------------------------------------------------------
(* The commit. *)

\* update_sql's refusal, before anything is sent.
Unwritable(s) == Driver = "Sqlite" /\ s.verb = "update" /\ s.value = Default

Save ==
  /\ stage = "idle" /\ pending # {} /\ saves < MaxSaves
  /\ saves' = saves + 1
  /\ IF \E s \in pending : Unwritable(s)
     THEN stage' = "refused" /\ UNCHANGED <<batch, left, steady>>
     ELSE /\ stage' = "sent" /\ batch' = pending /\ left' = pending
          /\ steady' = Present(table)
  /\ UNCHANGED <<table, others, known, pending, marks, touched, work, landed, lost>>

Begin ==
  /\ stage = "sent" /\ stage' = "open"
  /\ UNCHANGED <<server, tab, batch, left, touched, work, landed, lost>>

\* What the transaction sees: its own writes over what is committed.
Over(t) == [i \in Ids |-> IF i \in touched THEN work[i] ELSE t[i]]

Seen == Over(table)

\* Statements go in the order of the batch: inserts, updates, deletes.
Turn(s) == \A r \in left : CASE s.verb = "insert" -> TRUE
                             [] s.verb = "update" -> r.verb # "insert"
                             [] s.verb = "delete" -> r.verb = "delete"

ValueOf(s) == IF s.value = Default THEN Initial ELSE s.value

\* The keys a row may be given: its own, or one the server makes up.
KeysFor(s) ==
  IF s.key # Default THEN {s.key}
  ELSE IF Nullable THEN {NullKey} ELSE {k \in Keys : Having(Seen, k) = {}}

Writes(rows, now) ==
  /\ touched' = touched \cup rows
  /\ work' = [i \in Ids |-> IF i \in rows THEN now[i] ELSE work[i]]

Insert(s) == \E i \in Ids, k \in KeysFor(s) :
  /\ Seen[i] = Absent /\ i \notin touched
  /\ k = NullKey \/ Having(Seen, k) = {}
  /\ Writes({i}, [j \in {i} |-> [key |-> k, value |-> ValueOf(s), from |-> s.mark]])

Update(s) == LET rows == Having(Seen, s.key)
             IN  Writes(rows, [j \in rows |-> [Seen[j] EXCEPT !.value = ValueOf(s)]])

Delete(s) == LET rows == Having(Seen, s.key)
             IN  Writes(rows, [j \in rows |-> Absent])

Execute(s) ==
  /\ stage = "open" /\ s \in left /\ Turn(s) /\ left' = left \ {s}
  /\ \/ s.verb = "insert" /\ Insert(s)
     \/ s.verb = "update" /\ Update(s)
     \/ s.verb = "delete" /\ Delete(s)
  /\ UNCHANGED <<server, tab, stage, batch, landed, lost>>

\* What is taken is refused, and so is what the server has other reasons for; the
\* transaction is rolled back when it is dropped.
Taken(s) == s.verb = "insert" /\ s.key # Default /\ Having(Seen, s.key) # {}

KeptWhatRan ==  \* mutant: every statement in a transaction of its own
  /\ stage' = "refused" /\ batch' = {} /\ left' = {} /\ touched' = {} /\ work' = NoWork /\ steady' = {}
  /\ table' = Seen
  /\ UNCHANGED <<others, tab, landed>>
RolledBack ==
  /\ stage' = "refused" /\ batch' = {} /\ left' = {} /\ touched' = {} /\ work' = NoWork /\ steady' = {}
  /\ UNCHANGED <<table, others, tab, landed>>

Refuse(s) ==
  /\ stage = "open" /\ s \in left /\ Turn(s)
  /\ Taken(s) \/ "statement" \in Faults
  /\ RolledBack /\ UNCHANGED lost

\* No connection to begin on, one that breaks, a check put off to the COMMIT.
Break == stage \in {"sent", "open"} /\ "break" \in Faults /\ RolledBack /\ UNCHANGED lost

Commit ==
  /\ stage = "open" /\ left = {}
  /\ table' = Seen
  /\ landed' = landed \cup {s.mark : s \in {t \in batch : t.verb = "insert"}}
  /\ \/ stage' = "landed" /\ lost' = lost
     \/ "reply" \in Faults /\ stage' = "refused" /\ lost' = TRUE
  /\ batch' = {} /\ touched' = {} /\ work' = NoWork /\ steady' = {}
  /\ UNCHANGED <<others, tab, left>>

\* The answer: all that is staged goes with a batch that landed, what was staged
\* after it was sent too, or stays as it is.
AnswerKeepsRows ==  \* mutant: only the edits and deletes are taken off
  /\ stage \in {"landed", "refused"} /\ stage' = "idle"
  /\ pending' = IF stage = "landed" THEN {s \in pending : s.verb = "insert"} ELSE pending
  /\ UNCHANGED <<server, known, marks, saves, batch, left, touched, work, landed, lost>>
Answer ==
  /\ stage \in {"landed", "refused"} /\ stage' = "idle"
  /\ pending' = IF stage = "landed" THEN {} ELSE pending
  /\ UNCHANGED <<server, known, marks, saves, batch, left, touched, work, landed, lost>>

--------------------------------------------------------------------------------
\* Another client's change of one row that the transaction has not written: the
\* server keeps others from those until it ends, and from keys it gave or took.
OtherWrites(i, now) ==
  /\ others < MaxOthers /\ others' = others + 1
  /\ i \notin touched /\ now # table[i]
  /\ now # Absent => now.from = (IF table[i] = Absent THEN 0 ELSE table[i].from)
  /\ table' = [table EXCEPT ![i] = now]
  /\ Keyed(table') /\ Keyed(Over(table'))
  /\ steady' = steady \ {i}
  /\ UNCHANGED <<tab, commit, landed, lost>>

CommitsNext ==
  \/ \E i \in Ids, v \in Values \cup {Default} : StageEdit(i, v)
  \/ \E i \in Ids : StageDelete(i)
  \/ \E k \in Keys \cup {Default}, v \in Values \cup {Default} : StageInsert(k, v)
  \/ DiscardStaged \/ Load \/ Save \/ Begin \/ Break \/ Commit \/ Answer
  \/ \E s \in Statements : Execute(s) \/ Refuse(s)
  \/ \E i \in Ids, now \in Lines \cup {Absent} : OtherWrites(i, now)

CommitsSpec == CommitsInit /\ [][CommitsNext]_commitsVars

--------------------------------------------------------------------------------
\* A commit is all or nothing: what the table is changed to, with other clients
\* changing it too, is what AtomicTable allows (apply_changes, RowBatch).
Atomic == INSTANCE AtomicTable WITH Batches <- SUBSET Statements

CommitsAreWhole == Atomic!Spec

\* A row that was staged once is in the table once at most, however many saves
\* were refused, broken off in the middle and sent again, beside other clients: a
\* batch that is answered as an error has left no row behind, and one that landed
\* is not sent again "inserts and all" (save_pending_edits, apply_changes). A
\* COMMIT whose reply is lost is the finding, and is left out here.
RowsLandOnce ==
  ~lost => \A i, j \in Present(table) :
    table[i].from # 0 /\ table[i].from = table[j].from => i = j
================================================================================

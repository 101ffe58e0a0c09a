------------------------------- MODULE SqliteFile -------------------------------
(* dbui-driver/src/sqlite/mod.rs and the QueryToken of port.rs: everything dbui *)
(* asks of a SQLite file goes over one connection, one after the other. A job   *)
(* is a future that awaits an answer; its caller may stop it, or drop it, while *)
(* a thread of sqlx's is still busy with its statement.                         *)
CONSTANTS Jobs, CallKind, Nobody

Tracked == {"editor", "load"}

ASSUME SqliteAssumption ==
  /\ CallKind \in [Jobs -> {"editor", "load", "commit", "plain"}]
  /\ Nobody \notin Jobs

VARIABLES
  at,              \* where each job is
  stmt,            \* what an editor's job has typed
  empty,           \* its rows, if any, came without columns
  tracked,         \* QueryToken::session is set
  interrupted,     \* QueryToken::interrupted
  holder,          \* whose the pool's connection is
  worker,          \* whose statement the connection's thread is busy with
  handler,         \* whose token the progress handler asks
  tx,              \* the connection is inside a transaction of the editor's
  in_transaction,  \* SqliteDriver::in_transaction
  dropped          \* history: the last editor's job ended unheard

token == <<tracked, interrupted>>
vars  == <<at, stmt, empty, token, holder, worker, handler, tx, in_transaction, dropped>>

Steps == {"idle", "acquire", "install", "run", "asks", "release", "backfill"}

TypeOK ==
  /\ at \in [Jobs -> Steps]
  /\ stmt \in [Jobs -> {"BEGIN", "END", "other"}]
  /\ empty \in [Jobs -> BOOLEAN]
  /\ tracked \in [Jobs -> BOOLEAN] /\ interrupted \in [Jobs -> BOOLEAN]
  /\ {holder, worker, handler} \subseteq Jobs \cup {Nobody}
  /\ {tx, in_transaction, dropped} \subseteq BOOLEAN

Init ==
  /\ at = [j \in Jobs |-> "idle"]
  /\ stmt = [j \in Jobs |-> "other"] /\ empty = [j \in Jobs |-> FALSE]
  /\ tracked = [j \in Jobs |-> FALSE] /\ interrupted = [j \in Jobs |-> FALSE]
  /\ holder = Nobody /\ worker = Nobody /\ handler = Nobody
  /\ tx = FALSE /\ in_transaction = FALSE /\ dropped = FALSE

Goes(j, step) == at' = [at EXCEPT ![j] = step]

--------------------------------------------------------------------------------
\* A statement is typed, a table opened, a commit or a catalog asked for; each
\* with a token of its own.
Begin(j) ==
  /\ at[j] = "idle" /\ worker # j
  /\ Goes(j, "acquire")
  /\ IF CallKind[j] = "editor" THEN \E s \in {"BEGIN", "END", "other"} : stmt' = [stmt EXCEPT ![j] = s]
                           ELSE UNCHANGED stmt
  /\ empty' = [empty EXCEPT ![j] = FALSE]
  /\ interrupted' = [interrupted EXCEPT ![j] = FALSE]
  /\ UNCHANGED <<tracked, holder, worker, handler, tx, in_transaction, dropped>>

\* Pool::acquire, and interruptible_connection for what can be stopped.
Acquire(j) ==
  /\ at[j] = "acquire" /\ holder = Nobody
  /\ holder' = j
  /\ Goes(j, IF CallKind[j] \in Tracked THEN "install" ELSE "run")
  /\ UNCHANGED <<stmt, empty, token, worker, handler, tx, in_transaction, dropped>>

\* acquire_timeout.
TimedOut(j) ==
  /\ at[j] = "acquire" /\ holder # Nobody
  /\ Goes(j, "idle")
  /\ UNCHANGED <<stmt, empty, token, holder, worker, handler, tx, in_transaction, dropped>>

\* lock_handle waits for the thread; the statement then goes to it.
Install(j) ==
  /\ at[j] = "install" /\ worker = Nobody
  /\ handler' = j
  /\ tracked' = [tracked EXCEPT ![j] = TRUE]
  /\ worker' = j
  /\ Goes(j, "run")
  /\ UNCHANGED <<stmt, empty, interrupted, holder, tx, in_transaction, dropped>>

\* A statement that cannot be stopped goes to the thread as it is.
Send(j) ==
  /\ at[j] = "run" /\ CallKind[j] \notin Tracked /\ worker = Nobody
  /\ worker' = j
  /\ UNCHANGED <<at, stmt, empty, token, holder, handler, tx, in_transaction, dropped>>

\* Mutant: the flag is enough, whoever is running now.
InterruptedAlone(j) == interrupted[j]

\* QueryToken::should_stop.
ShouldStop(j) == interrupted[j] /\ tracked[j]

\* What the end of j's statement does to the transaction it is in.
Ends(j) == tx' = CASE stmt[j] = "BEGIN" -> TRUE [] stmt[j] = "END" -> FALSE [] OTHER -> tx

\* The thread has done with it; the job goes on, unless it has been dropped.
Returns(j) ==
  /\ worker = j
  /\ worker' = Nobody
  /\ tracked' = [tracked EXCEPT ![j] = FALSE]
  /\ IF at[j] = "run"
     THEN /\ Goes(j, IF CallKind[j] = "editor" THEN "asks" ELSE "release")
          /\ \E e \in BOOLEAN : empty' = [empty EXCEPT ![j] = e]
     ELSE UNCHANGED <<at, empty>>
  /\ UNCHANGED <<stmt, interrupted, holder, handler, in_transaction, dropped>>

Answers(j) == Returns(j) /\ (Ends(j) \/ UNCHANGED tx)

\* SQLite ends it because the handler says so; a write of the editor's that it
\* ends takes the transaction it is in with it.
Interrupts(j) ==
  /\ handler # Nobody /\ ShouldStop(handler)
  /\ Returns(j)
  /\ UNCHANGED tx \/ (CallKind[j] = "editor" /\ tx' = FALSE)

\* Mutant: a statement that failed is taken to have left the transaction alone.
AsksIfEnded(j) ==
  /\ at[j] = "asks"
  /\ in_transaction' = IF interrupted[j] THEN in_transaction ELSE tx
  /\ dropped' = FALSE
  /\ Goes(j, "release")
  /\ UNCHANGED <<stmt, empty, token, holder, worker, handler, tx>>

\* sqlite3_get_autocommit, asked after every statement of the editor.
Asks(j) ==
  /\ at[j] = "asks"
  /\ in_transaction' = tx
  /\ dropped' = FALSE
  /\ Goes(j, "release")
  /\ UNCHANGED <<stmt, empty, token, holder, worker, handler, tx>>

\* release_interruptible; rows without columns have them looked up after it.
Release(j) ==
  /\ at[j] = "release"
  /\ holder' = Nobody
  /\ handler' = IF CallKind[j] \in Tracked THEN Nobody ELSE handler
  /\ Goes(j, IF CallKind[j] \in Tracked /\ empty[j] THEN "backfill" ELSE "idle")
  /\ UNCHANGED <<stmt, empty, token, worker, tx, in_transaction, dropped>>

\* backfill_columns, which the pool has a connection for or has not.
Backfill(j) ==
  /\ at[j] = "backfill"
  /\ Goes(j, "idle")
  /\ UNCHANGED <<stmt, empty, token, holder, worker, handler, tx, in_transaction, dropped>>

--------------------------------------------------------------------------------
\* The caller.

\* SqliteDriver::cancel, while there is something to tell.
Cancel(j) ==
  /\ tracked[j]
  /\ interrupted' = [interrupted EXCEPT ![j] = TRUE]
  /\ UNCHANGED <<at, stmt, empty, tracked, holder, worker, handler, tx, in_transaction, dropped>>

\* The future is dropped: nothing to tell, or told and still not over. The pool
\* has the connection back, with whatever its thread is doing and the handler.
Drop(j) ==
  /\ at[j] # "idle"
  /\ Goes(j, "idle")
  /\ tracked' = [tracked EXCEPT ![j] = FALSE]
  /\ holder' = IF holder = j THEN Nobody ELSE holder
  /\ dropped' = (dropped \/ (CallKind[j] = "editor" /\ at[j] \in {"run", "asks"}))
  /\ UNCHANGED <<stmt, empty, interrupted, worker, handler, tx, in_transaction>>

Job(j) ==
  \/ Begin(j) \/ Acquire(j) \/ TimedOut(j) \/ Install(j) \/ Send(j)
  \/ Answers(j) \/ Interrupts(j) \/ Asks(j) \/ Release(j) \/ Backfill(j)
  \/ Cancel(j) \/ Drop(j)

Next == \E j \in Jobs : Job(j)

Spec == Init /\ [][Next]_vars

--------------------------------------------------------------------------------
\* The handler that is on the connection stops the statement that was told to
\* stop, and no other: not one that runs after a dropped future has left its
\* handler behind (should_stop, track, interruptible_connection).
StopsItsOwn ==
  worker # Nobody =>
    ((handler # Nobody /\ ShouldStop(handler)) <=> (tracked[worker] /\ interrupted[worker]))

\* The bar tells of the transaction that is open on the file's one connection,
\* also after a statement that was stopped, as long as the last statement of
\* the editor was heard to its end (execute_tracked).
FlagTells ==
  worker = Nobody /\ ~dropped /\ (\A j \in Jobs : at[j] # "asks") => in_transaction = tx
================================================================================

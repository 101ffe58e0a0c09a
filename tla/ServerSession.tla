----------------------------- MODULE ServerSession -----------------------------
(***************************************************************************)
(* One session on a PostgreSQL or MySQL server, as far as the drivers can  *)
(* tell sessions apart: whether the connection to it still stands, whether *)
(* a transaction is open on it, and what has become of the statement it    *)
(* was last sent.  The server is not part of the repository; it is         *)
(* modelled from what the adapters ask of it and how they read it.         *)
(***************************************************************************)
CONSTANTS
    Calls,                 \* the calls on the driver that may use a session
    NoCall,                \* ... and none of them
    StopKeepsTransaction,  \* SessionId::STOP_KEEPS_TRANSACTION: FALSE is PostgreSQL
    TypeLookups            \* whether a statement may be lost to a type lookup

ASSUME NoCallAssumption == NoCall \notin Calls
ASSUME EngineAssumption ==
    /\ StopKeepsTransaction \in BOOLEAN
    /\ TypeLookups \in BOOLEAN

TransactionState == {"Idle", "Open", "Failed"}

Kinds == {"begin", "commit", "other"}

(***************************************************************************)
(* "quiet": the server has nothing to do.  "asked": a statement has been   *)
(* sent and not yet executed.  Otherwise the reply that waits to be read:  *)
(* "capped" is a result longer than the row cap, still being sent, and     *)
(* "lookup" the failure of a lookup that comes before the statement.       *)
(***************************************************************************)
Phases == {"quiet", "asked", "ok", "capped", "error", "lookup"}

\* A session the server has ended while a client still holds its end is "down".
ServerSessions == [link  : {"none", "up", "down"},
                   txn   : TransactionState,
                   by    : Calls \cup {NoCall},
                   phase : Phases]

Gone == [link |-> "none", txn |-> "Idle", by |-> NoCall, phase |-> "quiet"]

Opened == [Gone EXCEPT !.link = "up"]

Ended(s) == [s EXCEPT !.link = "down", !.txn = "Idle"]

Asked(s, x) == [s EXCEPT !.by = x, !.phase = "asked"]

Answered(s) == [s EXCEPT !.by = NoCall, !.phase = "quiet"]

\* PostgreSQL fails the whole transaction with a statement; MySQL does not.
AfterError(txn) ==
    IF txn = "Open" /\ ~StopKeepsTransaction THEN "Failed" ELSE txn

Reply(s, phase, txn) == [s EXCEPT !.phase = phase, !.txn = txn]

(***************************************************************************)
(* What executing a statement can make of the session it was sent to.  In  *)
(* a failed transaction only COMMIT and ROLLBACK are taken, and a COMMIT   *)
(* there, or one whose deferred checks fail, rolls back.                   *)
(***************************************************************************)
Executed(s, kind) ==
    CASE s.txn = "Failed" /\ kind # "commit" -> {Reply(s, "error", "Failed")}
      [] s.txn # "Failed" /\ kind = "begin"  -> {Reply(s, "ok", "Open")}
      [] kind = "commit" -> {Reply(s, "ok", "Idle"), Reply(s, "error", "Idle")}
      [] OTHER -> {Reply(s, "ok", s.txn), Reply(s, "capped", s.txn),
                   Reply(s, "error", AfterError(s.txn))}
                  \cup IF TypeLookups THEN {Reply(s, "lookup", AfterError(s.txn))} ELSE {}

\* pg_cancel_backend or KILL QUERY: a statement still running, or still
\* sending rows, ends with an error; a session with nothing to stop ignores it.
Stopped(s) ==
    IF s.link = "up" /\ s.phase \in {"asked", "capped"}
    THEN Reply(s, "error", AfterError(s.txn))
    ELSE s
===============================================================================

-------------------------------- MODULE Sessions --------------------------------
(***************************************************************************)
(* The session cache of a driver (crates/dbui-driver/src/sessions.rs): the *)
(* connections kept between statements.  One, the console, is the editor's *)
(* own; the rest are idle connections that table loads borrow.             *)
(*                                                                         *)
(* The console is the record [slot, state, lost]: the connection while no  *)
(* statement runs on it (Sessions::console), what its session was last     *)
(* seen doing with transactions (console_state), and whether it went away  *)
(* with a transaction open (lost).  The idle connections are a set: the    *)
(* order of the Vec decides only which of them grows stale.                *)
(***************************************************************************)
EXTENDS ServerSession, Naturals, FiniteSets

CONSTANTS
    Conns,   \* the connections a driver may make
    NoConn,  \* ... and none of them
    KEEP     \* how many idle connections are kept

ASSUME ConnAssumption == NoConn \notin Conns
ASSUME KeepAssumption == KEEP \in Nat

Consoles == [slot : Conns \cup {NoConn}, state : TransactionState, lost : BOOLEAN]

\* Sessions::new
NewConsole == [slot |-> NoConn, state |-> "Idle", lost |-> FALSE]

\* mutants: a loss is not remembered, and one is remembered without reason
ConsoleGoneQuietly(console) == [console EXCEPT !.state = "Idle"]
ConsoleGoneAlarmed(console) == [console EXCEPT !.lost = TRUE, !.state = "Idle"]

\* The console connection is gone, and its transaction with it: the next run
\* has to hear about it.
ConsoleGone(console) ==
    [console EXCEPT !.lost = @ \/ console.state # "Idle", !.state = "Idle"]

\* mutants: only transaction verbs are followed up, or only open transactions
NotesVerbs(console, kind) == kind \in {"begin", "commit"}
NotesOpen(console, kind) == console.state # "Idle"

\* Whether a session is asked about its transaction after a statement.
NotesTransaction(console, kind) ==
    console.state # "Idle" \/ kind \in {"begin", "commit"}

\* SessionId::transaction_state: a session that does not answer is "Idle".
AskedState(s) == IF s.link = "up" THEN s.txn ELSE "Idle"

MayCutShortAlways(console, isConsole) == TRUE  \* mutant: no thought for the transaction

\* Whether a result cut short may be stopped on the server rather than read out.
MayCutShort(console, isConsole) ==
    StopKeepsTransaction \/ ~(isConsole /\ console.state # "Idle")

\* mutant: one too many is kept
IdleTakesOneMore(idle, c) == IF Cardinality(idle) <= KEEP THEN idle \cup {c} ELSE idle

\* Lease::settle puts a usable connection back.  One that already waits in the
\* slot stays, and a full cache takes no more.
ConsoleTakes(console, c) ==
    IF console.slot = NoConn THEN [console EXCEPT !.slot = c] ELSE console

IdleTakes(idle, c) == IF Cardinality(idle) < KEEP THEN idle \cup {c} ELSE idle
===============================================================================

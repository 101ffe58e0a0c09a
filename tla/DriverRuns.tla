------------------------------- MODULE DriverRuns -------------------------------
(***************************************************************************)
(* Statements run on a pooled driver, and what stops them: run_statement   *)
(* and the tracked table reads of the PostgreSQL and MySQL adapters over   *)
(* the cache of module Sessions, under until_stopped and the batches of    *)
(* crates/dbui-app/src/commands.rs.                                        *)
(*                                                                         *)
(* A call of Editors is a run typed into the SQL editor: a batch of        *)
(* statements on the console connection.  A call of Loads borrows idle     *)
(* connections: table pages, counts, schema changes.  Each await of the    *)
(* code ends a step here, so calls, servers and timers interleave at every *)
(* one of them.                                                            *)
(***************************************************************************)
EXTENDS Sessions

CONSTANTS
    Editors, Loads,    \* the calls of each sort
    MaxBatch,          \* bound: statements in one run
    QueryTimeout,      \* whether the connection has a query timeout
    MayClose,          \* whether the user may disconnect
    Mishaps            \* the coincidences that may befall the editor's session:
                       \* "stop in ping": a stop finds it being pinged;
                       \* "end at note": it ends between a statement's reply
                       \* and the question about its transaction;
                       \* "break in wind-down": a stopped statement's
                       \* connection breaks before WIND_DOWN is over

ASSUME CallsAssumption ==
    /\ Calls = Editors \cup Loads
    /\ Editors \cap Loads = {}
ASSUME BoundAssumption == MaxBatch \in Nat \ {0}
ASSUME SwitchAssumption ==
    /\ {QueryTimeout, MayClose} \subseteq BOOLEAN
    /\ Mishaps \subseteq {"stop in ping", "end at note", "break in wind-down"}

VARIABLES
    sess,     \* the server's sessions, by connection
    console,  \* the editor's connection
    idle,     \* the connections kept for the loads
    closed,   \* DatabaseDriver::close has been called
    run,      \* each call's statement, as far as its future has got
    batch,    \* each call's statements to come, and what it answered last
    stop,     \* each call's until_stopped
    late,     \* sessions given up on with a cancel perhaps still on its way
    user      \* history: the fate of the editor's transaction

vars == <<sess, console, idle, closed, run, batch, stop, late, user>>

PCs == {"ready", "next", "acquire", "ping", "fresh", "sent", "cut", "note"}

\* token is QueryToken::session; wasOpen is run_statement's was_open; again
\* says that the statement has been sent a second time; ran is how it ended.
Runs == [pc : PCs, conn : Conns \cup {NoConn}, token : Conns \cup {NoConn},
         kind : Kinds, wasOpen : BOOLEAN, again : BOOLEAN, ran : {"ok", "error"}]

NoRun == [pc |-> "ready", conn |-> NoConn, token |-> NoConn, kind |-> "other",
          wasOpen |-> FALSE, again |-> FALSE, ran |-> "ok"]

Answers == {"none", "ok", "error", "io", "lost", "cancelled"}

\* extra counts the statements sent after Stop was pressed.
Batches == [left : 0..MaxBatch, extra : Nat, answer : Answers]

(***************************************************************************)
(* until_stopped.  "poll": its select! waits for the run, the press and    *)
(* the clock.  "noticed": in one poll the select! looked at the run first, *)
(* which went a step on without ending, and at the press after it.         *)
(* "telling": driver.cancel is awaited, and the run is not polled.         *)
(* "winding": told, the run has WIND_DOWN to end on its own.               *)
(***************************************************************************)
Stops == [ctl : {"poll", "noticed", "telling", "winding"},
          aim : Conns \cup {NoConn}, pressed : BOOLEAN]

NoStop == [ctl |-> "poll", aim |-> NoConn, pressed |-> FALSE]

Histories == [fate : {"none", "open", "committed", "rolledback"},
              seen : BOOLEAN, owed : BOOLEAN]

TypeOK ==
    /\ sess \in [Conns -> ServerSessions]
    /\ console \in Consoles
    /\ idle \subseteq Conns
    /\ closed \in BOOLEAN
    /\ run \in [Calls -> Runs]
    /\ batch \in [Calls -> Batches]
    /\ stop \in [Calls -> Stops]
    /\ late \subseteq Conns
    /\ user \in Histories

Init ==
    /\ sess = [c \in Conns |-> Gone]
    /\ console = NewConsole
    /\ idle = {}
    /\ closed = FALSE
    /\ run = [x \in Calls |-> NoRun]
    /\ batch = [x \in Calls |-> [left |-> 0, extra |-> 0, answer |-> "none"]]
    /\ stop = [x \in Calls |-> NoStop]
    /\ late = {}
    /\ user = [fate |-> "none", seen |-> FALSE, owed |-> FALSE]

-----------------------------------------------------------------------------
(* Who holds what *)

IsConsoleNever(x) == FALSE  \* mutant: the editor runs on any connection

IsConsole(x) == x \in Editors

\* The kept connections x may use.
Kept(x) == IF IsConsole(x) THEN {console.slot} \ {NoConn} ELSE idle

\* The connection is in a Lease, whose Drop closes it and tells the console.
Leased(x) == run[x].pc \in {"sent", "cut", "note"}

\* mutant: the run goes on while the server is being told to stop it
PolledWhileTelling(x) == stop[x].ctl \in {"poll", "winding", "telling"}

\* The run's future is being polled; Acquiring has its first poll as well.
Polled(x) == stop[x].ctl \in {"poll", "winding"}

Acquiring(x) == run[x].pc = "acquire" /\ (Polled(x) \/ stop[x].ctl = "noticed")

Set(c, s) == sess' = [sess EXCEPT ![c] = s]

PendingForgets(x) == UNCHANGED stop  \* mutant: the press is not looked at

\* A step of a run that is still waiting at its end.
Pending(x) ==
    stop' = [stop EXCEPT ![x].ctl = IF @ = "poll" /\ stop[x].pressed THEN "noticed" ELSE @]

-----------------------------------------------------------------------------
(* The end of a statement *)

MoreAlways(x, answer) == answer = "ok"  \* mutant: past the end of the batch

More(x, answer) == answer = "ok" /\ batch[x].left > 1

\* run_queries and run_script: the next statement after a success, and the
\* answer after a failure.  A run that ends while it winds down was stopped.
Finish(x, said) ==
    LET answer == IF stop[x].ctl = "winding" THEN "cancelled" ELSE said
    IN  /\ \/ /\ More(x, answer)
              /\ run' = [run EXCEPT ![x] = [NoRun EXCEPT !.pc = "next"]]
              /\ batch' = [batch EXCEPT ![x].left = @ - 1]
           \/ /\ ~More(x, answer)
              /\ run' = [run EXCEPT ![x] = NoRun]
              /\ batch' = [batch EXCEPT ![x] = [@ EXCEPT !.left = 0, !.answer = answer]]
        /\ stop' = [stop EXCEPT ![x] = [@ EXCEPT !.ctl = "poll", !.aim = NoConn]]

\* The last lines of run_statement: a statement that began inside a
\* transaction reports its loss, rather than how the statement itself ended.
Conclude(x, con, said) ==
    LET reported == run[x].wasOpen /\ con.lost
    IN  /\ console' = [con EXCEPT !.lost = @ /\ ~reported]
        /\ Finish(x, IF reported THEN "lost" ELSE said)

\* Lease::settle of a connection fit for another statement, whose session is s.
SettleKept(x, s, state, said) ==
    LET c   == run[x].conn
        con == ConsoleTakes([console EXCEPT !.state = state], c)
        keeps == IF IsConsole(x) THEN con.slot = c ELSE c \in IdleTakes(idle, c)
    IN  /\ Set(c, IF keeps THEN s ELSE Gone)
        /\ idle' = IF IsConsole(x) THEN idle ELSE IdleTakes(idle, c)
        /\ Conclude(x, IF IsConsole(x) THEN con ELSE console, said)
        /\ UNCHANGED <<closed, late>>

\* The lease is let go of with its connection, by settle or by its Drop.
SettleClosed(x, said) ==
    /\ Set(run[x].conn, Gone)
    /\ Conclude(x, IF IsConsole(x) THEN ConsoleGone(console) ELSE console, said)
    /\ UNCHANGED <<idle, closed, late>>

\* Lease::note_transaction after a reply, when there is anything to ask, and
\* settle when there is not.
NoteOrSettle(x, s, ran) ==
    IF IsConsole(x) /\ NotesTransaction(console, run[x].kind)
    THEN /\ Set(run[x].conn, s)
         /\ run' = [run EXCEPT ![x].pc = "note", ![x].token = NoConn, ![x].ran = ran]
         /\ Pending(x)
         /\ UNCHANGED <<console, idle, closed, batch, late>>
    ELSE SettleKept(x, s, console.state, ran)

-----------------------------------------------------------------------------
(* Starting *)

Start(x) ==
    /\ run[x].pc = "ready"
    /\ ~closed
    /\ \E n \in 1..MaxBatch :
        batch' = [batch EXCEPT ![x] = [left |-> n, extra |-> 0, answer |-> "none"]]
    /\ run' = [run EXCEPT ![x] = [NoRun EXCEPT !.pc = "next"]]
    /\ stop' = [stop EXCEPT ![x] = NoStop]
    /\ UNCHANGED <<sess, console, idle, closed, late>>

\* run_stoppable: until_stopped polls its branches in no particular order, so
\* a press that came before this statement may or may not let it begin.
NextStatement(x) ==
    /\ run[x].pc = "next"
    /\ \E kind \in IF x \in Editors THEN Kinds ELSE {"other"} :
        run' = [run EXCEPT ![x] = [NoRun EXCEPT !.pc = "acquire", !.kind = kind]]
    /\ Pending(x)
    /\ UNCHANGED <<sess, console, idle, closed, batch, late>>

StoppedBetween(x) ==
    /\ run[x].pc = "next"
    /\ stop[x].pressed
    /\ Finish(x, "cancelled")
    /\ UNCHANGED <<sess, console, idle, closed, late>>

-----------------------------------------------------------------------------
(* Sessions::acquire_console and Sessions::acquire *)

\* A lease, the token tracking its session, was_open, and the statement sent.
Send(x, c) ==
    /\ run' = [run EXCEPT ![x].pc = "sent", ![x].conn = c, ![x].token = c,
                          ![x].wasOpen = IsConsole(x) /\ console.state # "Idle"]
    /\ batch' = [batch EXCEPT ![x].extra = IF stop[x].pressed THEN @ + 1 ELSE @]
    /\ Pending(x)

\* Nothing kept answers: refuse once if a transaction was lost, else connect.
ConnectOrRefuse(x, con) ==
    IF IsConsole(x) /\ con.lost
    THEN /\ console' = [con EXCEPT !.lost = FALSE]
         /\ Finish(x, "lost")
    ELSE /\ console' = con
         /\ run' = [run EXCEPT ![x].pc = "fresh", ![x].conn = NoConn]
         /\ Pending(x)
         /\ UNCHANGED batch

\* A kept connection used within FRESH is leased without asking.
AcquireFresh(x, c) ==
    /\ Acquiring(x)
    /\ c \in Kept(x)
    /\ console' = IF IsConsole(x) THEN [console EXCEPT !.slot = NoConn] ELSE console
    /\ idle' = idle \ {c}
    /\ Set(c, Asked(sess[c], x))
    /\ Send(x, c)
    /\ UNCHANGED <<closed, late>>

\* One quiet for longer is pinged first.  It has left its place already.
AcquireQuiet(x, c) ==
    /\ Acquiring(x)
    /\ c \in Kept(x)
    /\ IsConsole(x) /\ stop[x].pressed => "stop in ping" \in Mishaps
    /\ console' = IF IsConsole(x) THEN [console EXCEPT !.slot = NoConn] ELSE console
    /\ idle' = idle \ {c}
    /\ run' = [run EXCEPT ![x].pc = "ping", ![x].conn = c]
    /\ Pending(x)
    /\ UNCHANGED <<sess, closed, batch, late>>

\* Only the idle ones are closed for being quiet for longer than STALE.
AcquireStale(x, c) ==
    /\ Acquiring(x)
    /\ ~IsConsole(x)
    /\ c \in idle
    /\ idle' = idle \ {c}
    /\ Set(c, Gone)
    /\ Pending(x)
    /\ UNCHANGED <<console, closed, run, batch, late>>

AcquireAlways(x) ==  \* mutant: a fresh connection although one is kept
    /\ Acquiring(x)
    /\ ConnectOrRefuse(x, console)
    /\ UNCHANGED <<sess, idle, closed, late>>

AcquireNone(x) ==
    /\ Acquiring(x)
    /\ Kept(x) = {}
    /\ ConnectOrRefuse(x, console)
    /\ UNCHANGED <<sess, idle, closed, late>>

PingAnswers(x) ==
    LET c == run[x].conn
    IN  /\ run[x].pc = "ping"
        /\ Polled(x)
        /\ sess[c].link = "up"
        /\ Set(c, Asked(sess[c], x))
        /\ Send(x, c)
        /\ UNCHANGED <<console, idle, closed, late>>

\* The loads go round to the next idle connection.
PingFails(x) ==
    LET c == run[x].conn
    IN  /\ run[x].pc = "ping"
        /\ Polled(x)
        /\ sess[c].link = "down"
        /\ Set(c, Gone)
        /\ IF IsConsole(x)
           THEN ConnectOrRefuse(x, ConsoleGone(console))
           ELSE /\ run' = [run EXCEPT ![x].pc = "acquire", ![x].conn = NoConn]
                /\ Pending(x)
                /\ UNCHANGED <<console, batch>>
        /\ UNCHANGED <<idle, closed, late>>

\* Session ids are not used again while a cancel aimed at one is under way.
FreshOpens(x, c) ==
    /\ run[x].pc = "fresh"
    /\ Polled(x)
    /\ ~closed
    /\ sess[c].link = "none"
    /\ c \notin late
    /\ Set(c, Asked(Opened, x))
    /\ Send(x, c)
    /\ UNCHANGED <<console, idle, closed, late>>

\* No connection to be had: the server refuses, or the pool timed out or closed.
FreshFails(x) ==
    /\ run[x].pc = "fresh"
    /\ Polled(x)
    /\ Finish(x, "error")
    /\ UNCHANGED <<sess, console, idle, closed, late>>

-----------------------------------------------------------------------------
(* run_statement, and the tracked reads that are its simpler case *)

\* The reply, if the connection still brings one ...
Arrived(x) ==
    /\ run[x].pc = "sent"
    /\ Polled(x)
    /\ sess[run[x].conn].phase # "asked"
    /\ IsConsole(x) /\ sess[run[x].conn].link = "down" => "end at note" \in Mishaps

\* ... and the error it brings instead.
Breaks(x) ==
    /\ Polled(x)
    /\ sess[run[x].conn].link = "down"
    /\ IsConsole(x) /\ stop[x].ctl = "winding" => "break in wind-down" \in Mishaps

Retries(x) ==
    sess[run[x].conn].phase = "lookup" /\ ~run[x].again /\ ~run[x].wasOpen

\* Lost to a type lookup, a statement is sent once more outside a transaction.
SendAgain(x) ==
    /\ Arrived(x)
    /\ Retries(x)
    /\ Set(run[x].conn, Asked(sess[run[x].conn], x))
    /\ run' = [run EXCEPT ![x].again = TRUE]
    /\ Pending(x)
    /\ UNCHANGED <<console, idle, closed, batch, late>>

\* Tracking ends with the reply, before the connection goes anywhere.
ReplyRead(x) ==
    LET phase == sess[run[x].conn].phase
    IN  /\ Arrived(x)
        /\ ~Retries(x)
        /\ IF phase = "capped"
           THEN /\ run' = [run EXCEPT ![x].pc = "cut", ![x].token = NoConn]
                /\ Pending(x)
                /\ UNCHANGED <<sess, console, idle, closed, batch, late>>
           ELSE NoteOrSettle(x, Answered(sess[run[x].conn]),
                             IF phase = "ok" THEN "ok" ELSE "error")

\* An I/O error, or the server's word that the connection is over.
ReplyBroken(x) ==
    /\ run[x].pc = "sent"
    /\ Breaks(x)
    /\ SettleClosed(x, "io")

\* Lease::cut_short: the server is told to stop sending, unless that would
\* fail an open transaction ...
CutStops(x) ==
    /\ run[x].pc = "cut"
    /\ Polled(x)
    /\ sess[run[x].conn].phase = "capped"
    /\ MayCutShort(console, IsConsole(x))
    /\ Set(run[x].conn, Stopped(sess[run[x].conn]))
    /\ Pending(x)
    /\ UNCHANGED <<console, idle, closed, run, batch, late>>

\* ... and what is left is read off the connection, told or not: the telling
\* is best-effort.
CutDrains(x) ==
    /\ run[x].pc = "cut"
    /\ \/ /\ Polled(x)
          /\ sess[run[x].conn].link = "up"
          /\ NoteOrSettle(x, Answered(sess[run[x].conn]), "ok")
       \/ Breaks(x) /\ SettleClosed(x, "ok")

NoteAnswers(x) ==
    /\ run[x].pc = "note"
    /\ Polled(x)
    /\ SettleKept(x, sess[run[x].conn], AskedState(sess[run[x].conn]), run[x].ran)

-----------------------------------------------------------------------------
(* until_stopped *)

Press(x) ==
    /\ run[x].pc # "ready"
    /\ ~stop[x].pressed
    /\ stop' = [stop EXCEPT ![x].pressed = TRUE]
    /\ UNCHANGED <<sess, console, idle, closed, run, batch, late>>

DropLeaks(x) ==  \* mutant: the connection is forgotten, not closed
    /\ sess' = sess
    /\ console' = IF IsConsole(x) /\ Leased(x) THEN ConsoleGone(console) ELSE console
    /\ Finish(x, "cancelled")

\* The run's future is dropped wherever it has got to, and with it a lease,
\* or the connection a ping is waiting on, which is not in a lease yet.
Drop(x) ==
    LET c == run[x].conn
    IN  /\ sess' = IF c = NoConn THEN sess ELSE [sess EXCEPT ![c] = Gone]
        /\ console' = IF IsConsole(x) /\ Leased(x) THEN ConsoleGone(console) ELSE console
        /\ Finish(x, "cancelled")

\* Pressed, or out of time: the session is told if there is one to tell.
StopFires(x) ==
    /\ run[x].pc \notin {"ready", "next"}
    /\ stop[x].ctl \in {"poll", "noticed"}
    /\ stop[x].pressed \/ (IsConsole(x) /\ QueryTimeout)
    /\ IsConsole(x) /\ run[x].pc = "ping" => "stop in ping" \in Mishaps
    /\ IF run[x].token = NoConn
       THEN Drop(x)
       ELSE /\ stop' = [stop EXCEPT ![x].ctl = "telling", ![x].aim = run[x].token]
            /\ UNCHANGED <<sess, console, run, batch>>
    /\ UNCHANGED <<idle, closed, late>>

CancelLands(x) ==
    /\ stop[x].ctl = "telling"
    /\ Set(stop[x].aim, Stopped(sess[stop[x].aim]))
    /\ stop' = [stop EXCEPT ![x].ctl = "winding"]
    /\ UNCHANGED <<console, idle, closed, run, batch, late>>

\* The cancel failed or took longer than WIND_DOWN; it may yet arrive.
CancelGivenUp(x) ==
    /\ stop[x].ctl = "telling"
    /\ Drop(x)
    /\ late' = late \cup {stop[x].aim}
    /\ UNCHANGED <<idle, closed>>

WindDownNever(x) == FALSE  \* mutant: the run is awaited without a limit

WindDownExpires(x) ==
    /\ stop[x].ctl = "winding"
    /\ Drop(x)
    /\ UNCHANGED <<idle, closed, late>>

LateCancelLands(c) ==
    /\ c \in late
    /\ Set(c, Stopped(sess[c]))
    /\ late' = late \ {c}
    /\ UNCHANGED <<console, idle, closed, run, batch, stop>>

-----------------------------------------------------------------------------
(* The server, and disconnecting *)

Execute(c) ==
    /\ sess[c].link = "up"
    /\ sess[c].phase = "asked"
    /\ \E s \in Executed(sess[c], run[sess[c].by].kind) : Set(c, s)
    /\ UNCHANGED <<console, idle, closed, run, batch, stop, late>>

\* The server restarts, drops a quiet connection, or the network goes.
Die(c) ==
    /\ sess[c].link = "up"
    /\ (\E x \in Editors : run[x].conn = c /\ run[x].pc = "note")
       => "end at note" \in Mishaps
    /\ Set(c, Ended(sess[c]))
    /\ UNCHANGED <<console, idle, closed, run, batch, stop, late>>

\* DatabaseDriver::close.  Runs in flight keep their connections.
Close ==
    /\ MayClose
    /\ ~closed
    /\ closed' = TRUE
    /\ sess' = [c \in Conns |-> IF c \in idle \cup {console.slot} THEN Gone ELSE sess[c]]
    /\ idle' = {}
    /\ console' = [console EXCEPT !.slot = NoConn]
    /\ UNCHANGED <<run, batch, stop, late>>

\* The last run of a closed driver lets go of it, and of what it kept.
Release ==
    /\ closed
    /\ idle # {} \/ console.slot # NoConn
    /\ \A x \in Calls : run[x].pc = "ready"
    /\ sess' = [c \in Conns |-> IF c \in idle \cup {console.slot} THEN Gone ELSE sess[c]]
    /\ idle' = {}
    /\ console' = [console EXCEPT !.slot = NoConn]
    /\ UNCHANGED <<closed, run, batch, stop, late>>

-----------------------------------------------------------------------------
(* History: the fate of the last transaction opened in the editor; whether *)
(* the user has seen a statement succeed inside it; and whether it went    *)
(* away after that with nobody having said so.                             *)

Begun == \E c \in Conns : sess[c].txn = "Idle" /\ sess'[c].txn = "Open"

Committed == \E c \in Conns :
    sess[c].txn = "Open" /\ sess'[c].txn = "Idle" /\ sess'[c].phase = "ok"

RolledBack == ~Committed /\ \E c \in Conns :
    sess[c].txn # "Idle" /\ sess'[c].txn = "Idle"

Lost == \E c \in Conns :
    sess[c].txn # "Idle" /\ sess'[c].link # "up" /\ closed' = closed

\* An editor run answers a now.
Told(a) == \E x \in Editors :
    run[x].pc # "ready" /\ run'[x].pc = "ready" /\ batch'[x].answer = a

\* A statement of an editor run succeeds now.
Succeeds ==
    Told("ok") \/ \E x \in Editors : run[x].pc # "ready" /\ run[x].pc # "next" /\ run'[x].pc = "next"

Remember ==
    LET fate == CASE Begun -> "open"
                  [] Committed -> "committed"
                  [] RolledBack -> "rolledback"
                  [] Told("lost") -> "none"
                  [] OTHER -> user.fate
        seen == fate = "open" /\ (user.seen \/ Succeeds)
        owed == ~Told("lost") /\ ~Told("io") /\ (user.owed \/ (user.seen /\ Lost))
    IN  user' = [fate |-> fate, seen |-> seen, owed |-> owed]

-----------------------------------------------------------------------------
CallStep(x) ==
    \/ Start(x) \/ NextStatement(x) \/ StoppedBetween(x)
    \/ \E c \in Conns : AcquireFresh(x, c) \/ AcquireQuiet(x, c) \/ AcquireStale(x, c)
    \/ AcquireNone(x) \/ PingAnswers(x) \/ PingFails(x)
    \/ \E c \in Conns : FreshOpens(x, c)
    \/ FreshFails(x)
    \/ SendAgain(x) \/ ReplyRead(x) \/ ReplyBroken(x)
    \/ CutStops(x) \/ CutDrains(x) \/ NoteAnswers(x)
    \/ Press(x) \/ StopFires(x) \/ CancelLands(x) \/ CancelGivenUp(x) \/ WindDownExpires(x)

SessionStep(c) == Execute(c) \/ Die(c) \/ LateCancelLands(c)

Step ==
    \/ \E x \in Calls : CallStep(x)
    \/ \E c \in Conns : SessionStep(c)
    \/ Close
    \/ Release

Next == Step /\ Remember

Spec == Init /\ [][Next]_vars
-----------------------------------------------------------------------------
(* Properties *)

HeldByRun(x, c) == run[x].conn = c

\* A connection is in one place: among the idle, in the console's slot, or with
\* one call; and one that is nowhere has been closed.  Taking a connection out
\* of the cache, pinging it, leasing it, settling and dropping it are separate
\* steps of separate calls (Sessions::acquire, settle, Lease::drop).
OneHolder == \A c \in Conns :
    LET holders == {x \in Calls : HeldByRun(x, c)}
    IN  /\ c \in idle => holders = {} /\ console.slot # c
        /\ console.slot = c => holders = {}
        /\ \A x, y \in holders : x = y
        /\ sess[c].link # "none" <=> c \in idle \/ console.slot = c \/ holders # {}

\* A kept connection is ready for the next statement: nothing runs on it and no
\* rows are left on it.  One a load may borrow is in no transaction, so the
\* retry of a table read is safe and the user's transaction is never lent out.
\* No more than KEEP of them wait.
KeptAreReady ==
    /\ \A c \in Conns : c \in idle \/ c = console.slot => sess[c].phase = "quiet"
    /\ \A c \in idle : sess[c].txn = "Idle"
    /\ Cardinality(idle) <= KEEP

\* A cancel on its way to the server is aimed at the very statement that was
\* told to stop, or at a session already closed: it can never stop what runs
\* next on the session (the comments of QueryToken::track and Lease::settle).
CancelAimsTrue ==
    /\ \A x \in Calls : stop[x].ctl = "telling" =>
          /\ run[x].pc = "sent"
          /\ run[x].conn = stop[x].aim
          /\ sess[stop[x].aim].by = x
    /\ \A c \in late : sess[c].link = "none"

\* Cutting a long result short never costs the user an open transaction
\* (Lease::cut_short, which on PostgreSQL reads the rest instead).
CutShortKeepsTransaction == [][
    \A x \in Editors :
        LET c == run[x].conn
        IN  run[x].pc = "cut" /\ sess[c].txn = "Open" /\ sess'[c].link = "up"
            => sess'[c].txn = "Open"]_vars

\* The transaction bar tells the truth: while the editor's session waits and
\* stands, what was last seen of its transaction is what the server has.
BarTellsTruth ==
    console.slot # NoConn /\ sess[console.slot].link = "up"
    => console.state = sess[console.slot].txn

\* While a transaction of the editor is open, what the editor runs runs inside
\* it: a statement is never executed on another session.
OneSession == \A x \in Editors, c \in Conns :
    /\ run[x].pc = "sent"
    /\ sess[run[x].conn].link = "up"
    /\ sess[c].txn # "Idle"
    => c = run[x].conn

\* A transaction the user has worked in and that went away is reported before
\* anything else of theirs is executed, as if it were still there
\* (Sessions::acquire_console, DriverError::TransactionLost).
NoSilentLoss == user.owed =>
    \A c \in Conns : ~(sess[c].link = "up" /\ sess[c].phase = "asked" /\ sess[c].by \in Editors)

\* A loss is reported once, and only after a transaction really came to its end.
NoFalseAlarm == [][Told("lost") => user.fate \in {"committed", "rolledback"}]_vars

\* What is reported as lost was rolled back.
LostMeansRolledBack == [][Told("lost") => user.fate = "rolledback"]_vars

\* After Stop at most one more statement of a batch reaches a session: the one
\* whose first step the select! happened to take before it saw the press.
AtMostOneAfterStop == \A x \in Calls : batch[x].extra <= 1

\* The timers of tokio fire, and a select! that is woken looks at its branches.
StopFairness == \A x \in Calls :
    /\ WF_vars(StopFires(x) /\ Remember)
    /\ WF_vars(StoppedBetween(x) /\ Remember)
    /\ WF_vars(NextStatement(x) /\ Remember)
    /\ WF_vars(CancelGivenUp(x) /\ Remember)
    /\ WF_vars(WindDownExpires(x) /\ Remember)

FairSpec == Spec /\ StopFairness

\* A pressed Stop ends the run whatever the server does: it may never answer
\* the statement, the cancel or the ping (commands::until_stopped, WIND_DOWN).
StopEnds == \A x \in Calls : stop[x].pressed ~> run[x].pc = "ready"
===============================================================================

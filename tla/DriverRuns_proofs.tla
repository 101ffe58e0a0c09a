--------------------------- MODULE DriverRuns_proofs ---------------------------
(***************************************************************************)
(* Theorems about DriverRuns, for any number of calls and connections and  *)
(* any batch length: that a connection is never in two places, that one    *)
(* kept is ready for whoever takes it next, that a cancel never hits a     *)
(* statement it was not meant for, and that Stop ends a batch; and, with   *)
(* one editor run at a time, that the transaction bar tells the truth and  *)
(* a transaction that went away is told of.                                *)
(***************************************************************************)
EXTENDS DriverRuns, FiniteSetTheorems, TLAPS

(***************************************************************************)
(* What a call holds at each stage: a connection from the ping to the end, *)
(* and a tracked session exactly while a statement is out.                 *)
(***************************************************************************)
StageOf(r, s) ==
    /\ r.conn # NoConn <=> r.pc \in {"ping", "sent", "cut", "note"}
    /\ r.token = IF r.pc = "sent" THEN r.conn ELSE NoConn
    /\ s.ctl = "telling" => r.pc = "sent" /\ s.aim = r.conn
    /\ r.pc \in {"ready", "next"} => s.ctl = "poll"

Stages == \A x \in Calls : StageOf(run[x], stop[x])

-----------------------------------------------------------------------------
(* Operators and their types *)

LEMMA SessionOps ==
    ASSUME NEW s \in ServerSessions
    PROVE  /\ Gone \in ServerSessions
           /\ Opened \in ServerSessions
           /\ Ended(s) \in ServerSessions
           /\ \A x \in Calls : Asked(s, x) \in ServerSessions
           /\ Answered(s) \in ServerSessions
           /\ Stopped(s) \in ServerSessions
           /\ AskedState(s) \in TransactionState
           /\ \A kind : Executed(s, kind) \subseteq ServerSessions
<1> USE DEF ServerSessions, TransactionState, Phases
<1>1. Gone \in ServerSessions /\ Opened \in ServerSessions
  BY DEF Gone, Opened
<1>2. Ended(s) \in ServerSessions /\ \A x \in Calls : Asked(s, x) \in ServerSessions
  BY DEF Ended, Asked
<1>3. Answered(s) \in ServerSessions /\ AskedState(s) \in TransactionState
  BY DEF Answered, AskedState
<1>4. ASSUME NEW phase \in Phases, NEW txn \in TransactionState
      PROVE  Reply(s, phase, txn) \in ServerSessions
  BY DEF Reply
<1>5. AfterError(s.txn) \in TransactionState
  BY DEF AfterError
<1>6. Stopped(s) \in ServerSessions
  BY <1>4, <1>5 DEF Stopped
<1>7. \A kind : Executed(s, kind) \subseteq ServerSessions
  BY <1>4, <1>5 DEF Executed
<1> QED BY <1>1, <1>2, <1>3, <1>6, <1>7

LEMMA ConsoleOps ==
    ASSUME NEW con \in Consoles, NEW c \in Conns, NEW S \in SUBSET Conns
    PROVE  /\ NewConsole \in Consoles
           /\ ConsoleGone(con) \in Consoles
           /\ ConsoleTakes(con, c) \in Consoles
           /\ IdleTakes(S, c) \subseteq Conns
BY DEF Consoles, TransactionState, NewConsole, ConsoleGone, ConsoleTakes, IdleTakes

LEMMA FinishTypes ==
    ASSUME TypeOK, NEW x \in Calls, NEW said \in Answers, Finish(x, said)
    PROVE  /\ run' \in [Calls -> Runs]
           /\ batch' \in [Calls -> Batches]
           /\ stop' \in [Calls -> Stops]
<1> DEFINE answer == IF stop[x].ctl = "winding" THEN "cancelled" ELSE said
<1>1. answer \in Answers
  BY DEF Answers
<1>2. stop' \in [Calls -> Stops]
  <2>1. [stop[x] EXCEPT !.ctl = "poll", !.aim = NoConn] \in Stops
    BY DEF TypeOK, Stops
  <2>2. stop' = [stop EXCEPT ![x] = [@ EXCEPT !.ctl = "poll", !.aim = NoConn]]
    BY DEF Finish
  <2> QED BY <2>1, <2>2 DEF TypeOK
<1>3. /\ NoRun \in Runs
      /\ [NoRun EXCEPT !.pc = "next"] \in Runs
  BY DEF Runs, NoRun, PCs, Kinds
<1>4. run' \in [Calls -> Runs]
  BY <1>3 DEF TypeOK, Finish
<1>5. batch[x] \in Batches
  BY DEF TypeOK
<1>6. CASE More(x, answer)
  <2>1. batch[x].left \in 0..MaxBatch /\ batch[x].left > 1
    BY <1>5, <1>6 DEF Batches, More
  <2>2. [batch[x] EXCEPT !.left = @ - 1] \in Batches
    BY <1>5, <2>1, BoundAssumption DEF Batches
  <2>3. batch' = [batch EXCEPT ![x].left = @ - 1]
    BY <1>6 DEF Finish
  <2> QED BY <1>2, <1>4, <2>2, <2>3 DEF TypeOK
<1>7. CASE ~More(x, answer)
  <2>1. 0 \in 0..MaxBatch
    BY BoundAssumption
  <2>2. ASSUME NEW a \in Answers
        PROVE  [batch[x] EXCEPT !.left = 0, !.answer = a] \in Batches
    BY <1>5, <2>1 DEF Batches
  <2>3. batch' = [batch EXCEPT ![x] = [@ EXCEPT !.left = 0, !.answer = answer]]
    BY <1>7 DEF Finish
  <2> QED BY <1>1, <1>2, <1>4, <2>2, <2>3 DEF TypeOK
<1> QED BY <1>6, <1>7

LEMMA PendingTypes ==
    ASSUME TypeOK, NEW x \in Calls, Pending(x)
    PROVE  stop' \in [Calls -> Stops]
BY DEF TypeOK, Pending, Stops

LEMMA RunFields ==
    ASSUME TypeOK, Stages, NEW x \in Calls
    PROVE  /\ run[x] \in Runs /\ batch[x] \in Batches /\ stop[x] \in Stops
           /\ run[x].pc \in {"ping", "sent", "cut", "note"} =>
                run[x].conn \in Conns /\ sess[run[x].conn] \in ServerSessions
           /\ stop[x].ctl = "telling" => stop[x].aim \in Conns
<1>1. run[x] \in Runs /\ batch[x] \in Batches /\ stop[x] \in Stops
  BY DEF TypeOK
<1>2. run[x].conn \in Conns \cup {NoConn}
  BY <1>1 DEF Runs
<1>3. run[x].pc \in {"ping", "sent", "cut", "note"} => run[x].conn \in Conns
  BY <1>2 DEF Stages, StageOf
<1>4. stop[x].ctl = "telling" => stop[x].aim \in Conns
  BY <1>3 DEF Stages, StageOf
<1> QED BY <1>1, <1>3, <1>4 DEF TypeOK

LEMMA SetTypes ==
    ASSUME TypeOK, NEW c \in Conns, NEW s \in ServerSessions, Set(c, s)
    PROVE  sess' \in [Conns -> ServerSessions]
BY DEF TypeOK, Set

LEMMA SendTypes ==
    ASSUME TypeOK, NEW x \in Calls, NEW c \in Conns, Send(x, c)
    PROVE  /\ run' \in [Calls -> Runs]
           /\ batch' \in [Calls -> Batches]
           /\ stop' \in [Calls -> Stops]
<1>1. run[x] \in Runs /\ batch[x] \in Batches
  BY DEF TypeOK
<1>2. \A open \in BOOLEAN :
        [run[x] EXCEPT !.pc = "sent", !.conn = c, !.token = c, !.wasOpen = open] \in Runs
  BY <1>1 DEF Runs, PCs
<1>3. run' = [run EXCEPT ![x].pc = "sent", ![x].conn = c, ![x].token = c,
                         ![x].wasOpen = IsConsole(x) /\ console.state # "Idle"]
  BY DEF Send
<1>4. (IsConsole(x) /\ console.state # "Idle") \in BOOLEAN
  OBVIOUS
<1>5. run' \in [Calls -> Runs]
  BY <1>1, <1>2, <1>3, <1>4 DEF TypeOK
<1>6. batch' \in [Calls -> Batches]
  BY <1>1 DEF TypeOK, Send, Batches
<1>7. stop' \in [Calls -> Stops]
  BY PendingTypes DEF Send
<1> QED BY <1>5, <1>6, <1>7

LEMMA ConcludeTypes ==
    ASSUME TypeOK, NEW x \in Calls, NEW con \in Consoles, NEW said \in Answers,
           Conclude(x, con, said)
    PROVE  /\ console' \in Consoles
           /\ run' \in [Calls -> Runs]
           /\ batch' \in [Calls -> Batches]
           /\ stop' \in [Calls -> Stops]
<1>1. \A b \in BOOLEAN : [con EXCEPT !.lost = b] \in Consoles
  BY DEF Consoles
<1>2. console' \in Consoles
  BY <1>1 DEF Conclude, Consoles
<1>3. \E a \in Answers : Finish(x, a)
  BY DEF Conclude, Answers
<1> QED BY <1>2, <1>3, FinishTypes

LEMMA SettleTypes ==
    ASSUME TypeOK, Stages, NEW x \in Calls, run[x].pc \in {"sent", "cut", "note"},
           NEW said \in Answers, user' \in Histories
    PROVE  /\ \A s \in ServerSessions, state \in TransactionState :
                SettleKept(x, s, state, said) => TypeOK'
           /\ SettleClosed(x, said) => TypeOK'
<1>1. run[x].conn \in Conns
  BY RunFields
<1>2. Gone \in ServerSessions
  BY DEF Gone, ServerSessions, TransactionState, Phases
<1>3. console \in Consoles /\ idle \subseteq Conns
  BY DEF TypeOK
<1>4. ASSUME NEW s \in ServerSessions, NEW state \in TransactionState,
             SettleKept(x, s, state, said)
      PROVE  TypeOK'
  <2> DEFINE seen == [console EXCEPT !.state = state]
             con == ConsoleTakes(seen, run[x].conn)
  <2>1. seen \in Consoles
    BY <1>3 DEF Consoles
  <2>2. con \in Consoles /\ IdleTakes(idle, run[x].conn) \subseteq Conns
    BY <1>1, <1>3, <2>1, ConsoleOps
  <2>3. PICK t \in ServerSessions : Set(run[x].conn, t)
    BY <1>2, <1>4 DEF SettleKept
  <2>4. PICK k \in Consoles : Conclude(x, k, said)
    BY <1>3, <1>4, <2>2 DEF SettleKept
  <2>5. idle' \subseteq Conns
    BY <1>3, <1>4, <2>2 DEF SettleKept
  <2>6. closed' \in BOOLEAN /\ late' \subseteq Conns
    BY <1>4 DEF SettleKept, TypeOK
  <2> QED BY <1>1, <2>3, <2>4, <2>5, <2>6, SetTypes, ConcludeTypes DEF TypeOK
<1>5. ASSUME SettleClosed(x, said) PROVE TypeOK'
  <2>1. PICK k \in Consoles : Conclude(x, k, said)
    BY <1>3, <1>5, ConsoleOps, <1>1 DEF SettleClosed
  <2>2. Set(run[x].conn, Gone)
    BY <1>5 DEF SettleClosed
  <2> QED BY <1>1, <1>2, <1>5, <2>1, <2>2, SetTypes, ConcludeTypes DEF TypeOK, SettleClosed
<1> QED BY <1>4, <1>5

LEMMA NoteOrSettleTypes ==
    ASSUME TypeOK, Stages, NEW x \in Calls, run[x].pc \in {"sent", "cut", "note"},
           NEW s \in ServerSessions, NEW ran \in {"ok", "error"},
           NoteOrSettle(x, s, ran), user' \in Histories
    PROVE  TypeOK'
<1>1. run[x].conn \in Conns /\ run[x] \in Runs
  BY RunFields
<1>2. CASE IsConsole(x) /\ NotesTransaction(console, run[x].kind)
  <2>1. [run[x] EXCEPT !.pc = "note", !.token = NoConn, !.ran = ran] \in Runs
    BY <1>1 DEF Runs, PCs
  <2>2. run' = [run EXCEPT ![x].pc = "note", ![x].token = NoConn, ![x].ran = ran]
    BY <1>2 DEF NoteOrSettle
  <2>3. run' \in [Calls -> Runs]
    BY <2>1, <2>2 DEF TypeOK
  <2>4. /\ Set(run[x].conn, s) /\ Pending(x)
        /\ UNCHANGED <<console, idle, closed, batch, late>>
    BY <1>2 DEF NoteOrSettle
  <2> QED BY <1>1, <2>3, <2>4, SetTypes, PendingTypes DEF TypeOK
<1>3. CASE ~(IsConsole(x) /\ NotesTransaction(console, run[x].kind))
  <2>1. SettleKept(x, s, console.state, ran)
    BY <1>3 DEF NoteOrSettle
  <2>2. console.state \in TransactionState /\ ran \in Answers
    BY DEF TypeOK, Consoles, Answers
  <2> QED BY <2>1, <2>2, SettleTypes
<1> QED BY <1>2, <1>3

LEMMA ConnectOrRefuseTypes ==
    ASSUME TypeOK, Stages, NEW x \in Calls, NEW con \in Consoles, ConnectOrRefuse(x, con)
    PROVE  /\ console' \in Consoles
           /\ run' \in [Calls -> Runs]
           /\ batch' \in [Calls -> Batches]
           /\ stop' \in [Calls -> Stops]
<1>1. CASE IsConsole(x) /\ con.lost
  <2>1. console' = [con EXCEPT !.lost = FALSE] /\ Finish(x, "lost")
    BY <1>1 DEF ConnectOrRefuse
  <2>2. "lost" \in Answers
    BY DEF Answers
  <2> QED BY <2>1, <2>2, FinishTypes DEF Consoles
<1>2. CASE ~(IsConsole(x) /\ con.lost)
  <2>1. /\ console' = con
        /\ run' = [run EXCEPT ![x].pc = "fresh", ![x].conn = NoConn]
        /\ Pending(x)
        /\ UNCHANGED batch
    BY <1>2 DEF ConnectOrRefuse
  <2>2. [run[x] EXCEPT !.pc = "fresh", !.conn = NoConn] \in Runs
    BY RunFields DEF Runs, PCs
  <2>3. run' \in [Calls -> Runs]
    BY <2>1, <2>2 DEF TypeOK
  <2> QED BY <2>1, <2>3, PendingTypes DEF TypeOK
<1> QED BY <1>1, <1>2

LEMMA DropTypes ==
    ASSUME TypeOK, Stages, NEW x \in Calls, Drop(x)
    PROVE  /\ sess' \in [Conns -> ServerSessions]
           /\ console' \in Consoles
           /\ run' \in [Calls -> Runs]
           /\ batch' \in [Calls -> Batches]
           /\ stop' \in [Calls -> Stops]
<1>1. Finish(x, "cancelled") /\ "cancelled" \in Answers
  BY DEF Drop, Answers
<1>2. Gone \in ServerSessions
  BY DEF Gone, ServerSessions, TransactionState, Phases
<1>3. sess' \in [Conns -> ServerSessions]
  BY <1>2 DEF Drop, TypeOK
<1>4. ConsoleGone(console) \in Consoles
  BY DEF TypeOK, ConsoleGone, Consoles, TransactionState
<1>5. console' \in Consoles
  BY <1>4 DEF Drop, TypeOK
<1> QED BY <1>1, <1>3, <1>5, FinishTypes

LEMMA RememberTypes ==
    ASSUME TypeOK, Remember
    PROVE  user' \in Histories
<1>1. user \in Histories
  BY DEF TypeOK
<1> HIDE DEF TypeOK
<1> DEFINE fate == CASE Begun -> "open"
                     [] Committed -> "committed"
                     [] RolledBack -> "rolledback"
                     [] Told("lost") -> "none"
                     [] OTHER -> user.fate
           seen == fate = "open" /\ (user.seen \/ Succeeds)
           owed == ~Told("lost") /\ ~Told("io") /\ (user.owed \/ (user.seen /\ Lost))
<1>2. fate \in {"none", "open", "committed", "rolledback"}
  BY <1>1 DEF Histories
<1>3. seen \in BOOLEAN /\ owed \in BOOLEAN
  OBVIOUS
<1>4. user' = [fate |-> fate, seen |-> seen, owed |-> owed]
  BY DEF Remember
<1> QED BY <1>2, <1>3, <1>4 DEF Histories

-----------------------------------------------------------------------------
(* Every step keeps the types *)

LEMMA StartTypes ==
    ASSUME TypeOK, Stages, NEW x \in Calls, user' \in Histories,
           Start(x) \/ NextStatement(x) \/ StoppedBetween(x)
    PROVE  TypeOK'
<1>1. run[x] \in Runs /\ batch[x] \in Batches
  BY DEF TypeOK
<1>2. NoRun \in Runs /\ NoStop \in Stops
  BY DEF Runs, NoRun, PCs, Kinds, Stops, NoStop
<1>3. CASE Start(x)
  <2>1. PICK n \in 1..MaxBatch :
          batch' = [batch EXCEPT ![x] = [left |-> n, extra |-> 0, answer |-> "none"]]
    BY <1>3 DEF Start
  <2>2. [left |-> n, extra |-> 0, answer |-> "none"] \in Batches
    BY BoundAssumption DEF Batches, Answers
  <2>3. [NoRun EXCEPT !.pc = "next"] \in Runs
    BY <1>2 DEF Runs, PCs
  <2>4. /\ run' = [run EXCEPT ![x] = [NoRun EXCEPT !.pc = "next"]]
        /\ stop' = [stop EXCEPT ![x] = NoStop]
        /\ UNCHANGED <<sess, console, idle, closed, late>>
    BY <1>3 DEF Start
  <2> QED BY <1>2, <2>1, <2>2, <2>3, <2>4 DEF TypeOK
<1>4. CASE NextStatement(x)
  <2>1. PICK kind \in Kinds :
          run' = [run EXCEPT ![x] = [NoRun EXCEPT !.pc = "acquire", !.kind = kind]]
    BY <1>4 DEF NextStatement, Kinds
  <2>2. [NoRun EXCEPT !.pc = "acquire", !.kind = kind] \in Runs
    BY <1>2 DEF Runs, PCs
  <2>3. run' \in [Calls -> Runs]
    BY <2>1, <2>2 DEF TypeOK
  <2> QED BY <1>4, <2>3, PendingTypes DEF NextStatement, TypeOK
<1>5. CASE StoppedBetween(x)
  <2>1. "cancelled" \in Answers
    BY DEF Answers
  <2> QED BY <1>5, <2>1, FinishTypes DEF StoppedBetween, TypeOK
<1> QED BY <1>3, <1>4, <1>5

LEMMA AcquireTypes ==
    ASSUME TypeOK, Stages, NEW x \in Calls, user' \in Histories,
           \/ \E c \in Conns : AcquireFresh(x, c) \/ AcquireQuiet(x, c) \/ AcquireStale(x, c)
           \/ AcquireNone(x)
    PROVE  TypeOK'
<1>1. [console EXCEPT !.slot = NoConn] \in Consoles /\ console \in Consoles
  BY DEF TypeOK, Consoles
<1>2. run[x] \in Runs
  BY DEF TypeOK
<1>3. ASSUME NEW c \in Conns, AcquireFresh(x, c)
      PROVE  TypeOK'
  <2>1. Asked(sess[c], x) \in ServerSessions
    BY SessionOps DEF TypeOK
  <2>2. Set(c, Asked(sess[c], x)) /\ Send(x, c)
    BY <1>3 DEF AcquireFresh
  <2>3. sess' \in [Conns -> ServerSessions]
    BY <2>1, <2>2, SetTypes
  <2>4. console' \in Consoles /\ idle' \subseteq Conns
    BY <1>1, <1>3 DEF AcquireFresh, TypeOK
  <2> QED BY <1>3, <2>2, <2>3, <2>4, SendTypes DEF AcquireFresh, TypeOK
<1>4. ASSUME NEW c \in Conns, AcquireQuiet(x, c)
      PROVE  TypeOK'
  <2>1. [run[x] EXCEPT !.pc = "ping", !.conn = c] \in Runs
    BY <1>2 DEF Runs, PCs
  <2>2. run' = [run EXCEPT ![x].pc = "ping", ![x].conn = c]
    BY <1>4 DEF AcquireQuiet
  <2>3. run' \in [Calls -> Runs]
    BY <2>1, <2>2 DEF TypeOK
  <2>4. console' \in Consoles /\ idle' \subseteq Conns
    BY <1>1, <1>4 DEF AcquireQuiet, TypeOK
  <2> QED BY <1>4, <2>3, <2>4, PendingTypes DEF AcquireQuiet, TypeOK
<1>5. ASSUME NEW c \in Conns, AcquireStale(x, c)
      PROVE  TypeOK'
  <2>1. Gone \in ServerSessions
    BY DEF Gone, ServerSessions, TransactionState, Phases
  <2> QED BY <1>5, <2>1, SetTypes, PendingTypes DEF AcquireStale, TypeOK
<1>6. CASE AcquireNone(x)
  <2>1. ConnectOrRefuse(x, console)
    BY <1>6 DEF AcquireNone
  <2> QED BY <1>1, <1>6, <2>1, ConnectOrRefuseTypes DEF AcquireNone, TypeOK
<1> QED BY <1>3, <1>4, <1>5, <1>6

LEMMA ConnectTypes ==
    ASSUME TypeOK, Stages, NEW x \in Calls, user' \in Histories,
           \/ PingAnswers(x) \/ PingFails(x)
           \/ \E c \in Conns : FreshOpens(x, c)
           \/ FreshFails(x)
    PROVE  TypeOK'
<1> DEFINE c == run[x].conn
<1>1. Gone \in ServerSessions /\ Opened \in ServerSessions
  BY DEF Gone, Opened, ServerSessions, TransactionState, Phases
<1>2. CASE PingAnswers(x)
  <2>1. c \in Conns
    BY <1>2, RunFields DEF PingAnswers
  <2>2. Asked(sess[c], x) \in ServerSessions
    BY <2>1, SessionOps DEF TypeOK
  <2>3. Set(c, Asked(sess[c], x)) /\ Send(x, c)
    BY <1>2 DEF PingAnswers
  <2> QED BY <1>2, <2>1, <2>2, <2>3, SetTypes, SendTypes DEF PingAnswers, TypeOK
<1>3. CASE PingFails(x)
  <2>1. c \in Conns /\ Set(c, Gone)
    BY <1>3, RunFields DEF PingFails
  <2>2. sess' \in [Conns -> ServerSessions]
    BY <1>1, <2>1, SetTypes
  <2>3. CASE IsConsole(x)
    <3>1. ConsoleGone(console) \in Consoles
      BY DEF TypeOK, ConsoleGone, Consoles, TransactionState
    <3>2. ConnectOrRefuse(x, ConsoleGone(console))
      BY <1>3, <2>3 DEF PingFails
    <3> QED BY <1>3, <2>2, <3>1, <3>2, ConnectOrRefuseTypes DEF PingFails, TypeOK
  <2>4. CASE ~IsConsole(x)
    <3>1. [run[x] EXCEPT !.pc = "acquire", !.conn = NoConn] \in Runs
      BY RunFields DEF Runs, PCs
    <3>2. run' = [run EXCEPT ![x].pc = "acquire", ![x].conn = NoConn]
      BY <1>3, <2>4 DEF PingFails
    <3>3. run' \in [Calls -> Runs]
      BY <3>1, <3>2 DEF TypeOK
    <3>4. Pending(x) /\ UNCHANGED <<console, batch>>
      BY <1>3, <2>4 DEF PingFails
    <3> QED BY <1>3, <2>2, <3>3, <3>4, PendingTypes DEF PingFails, TypeOK
  <2> QED BY <2>3, <2>4
<1>4. ASSUME NEW d \in Conns, FreshOpens(x, d)
      PROVE  TypeOK'
  <2>1. Asked(Opened, x) \in ServerSessions
    BY <1>1, SessionOps
  <2>2. Set(d, Asked(Opened, x)) /\ Send(x, d)
    BY <1>4 DEF FreshOpens
  <2> QED BY <1>4, <2>1, <2>2, SetTypes, SendTypes DEF FreshOpens, TypeOK
<1>5. CASE FreshFails(x)
  <2>1. "error" \in Answers
    BY DEF Answers
  <2> QED BY <1>5, <2>1, FinishTypes DEF FreshFails, TypeOK
<1> QED BY <1>2, <1>3, <1>4, <1>5

LEMMA ReplyTypes ==
    ASSUME TypeOK, Stages, NEW x \in Calls, user' \in Histories,
           \/ SendAgain(x) \/ ReplyRead(x) \/ ReplyBroken(x)
           \/ CutStops(x) \/ CutDrains(x) \/ NoteAnswers(x)
    PROVE  TypeOK'
<1> DEFINE c == run[x].conn
<1>1. c \in Conns /\ sess[c] \in ServerSessions /\ run[x] \in Runs /\ run[x].pc \in {"sent", "cut", "note"}
  BY RunFields DEF SendAgain, ReplyRead, ReplyBroken, CutStops, CutDrains, NoteAnswers, Arrived
<1>2. {"ok", "error", "io"} \subseteq Answers
  BY DEF Answers
<1>3. CASE SendAgain(x)
  <2>1. [run[x] EXCEPT !.again = TRUE] \in Runs
    BY <1>1 DEF Runs
  <2>2. run' \in [Calls -> Runs]
    BY <1>3, <2>1 DEF SendAgain, TypeOK
  <2>3. Asked(sess[c], x) \in ServerSessions /\ Set(c, Asked(sess[c], x))
    BY <1>1, <1>3, SessionOps DEF SendAgain
  <2> QED BY <1>1, <1>3, <2>2, <2>3, SetTypes, PendingTypes DEF SendAgain, TypeOK
<1>4. CASE ReplyRead(x)
  <2>1. CASE sess[c].phase = "capped"
    <3>1. [run[x] EXCEPT !.pc = "cut", !.token = NoConn] \in Runs
      BY <1>1 DEF Runs, PCs
    <3>2. /\ run' = [run EXCEPT ![x].pc = "cut", ![x].token = NoConn]
          /\ Pending(x)
          /\ UNCHANGED <<sess, console, idle, closed, batch, late>>
      BY <1>4, <2>1 DEF ReplyRead
    <3>3. run' \in [Calls -> Runs]
      BY <3>1, <3>2 DEF TypeOK
    <3> QED BY <3>2, <3>3, PendingTypes DEF TypeOK
  <2>2. CASE sess[c].phase # "capped"
    <3>1. Answered(sess[c]) \in ServerSessions
      BY <1>1, SessionOps
    <3>2. PICK ran \in {"ok", "error"} : NoteOrSettle(x, Answered(sess[c]), ran)
      BY <1>4, <2>2 DEF ReplyRead
    <3> QED BY <1>1, <3>1, <3>2, NoteOrSettleTypes
  <2> QED BY <2>1, <2>2
<1>5. CASE ReplyBroken(x)
  BY <1>1, <1>2, <1>5, SettleTypes DEF ReplyBroken
<1>6. CASE CutStops(x)
  <2>1. Stopped(sess[c]) \in ServerSessions /\ Set(c, Stopped(sess[c]))
    BY <1>1, <1>6, SessionOps DEF CutStops
  <2> QED BY <1>1, <1>6, <2>1, SetTypes, PendingTypes DEF CutStops, TypeOK
<1>7. CASE CutDrains(x)
  <2>1. Answered(sess[c]) \in ServerSessions
    BY <1>1, SessionOps
  <2>2. NoteOrSettle(x, Answered(sess[c]), "ok") \/ SettleClosed(x, "ok")
    BY <1>7 DEF CutDrains
  <2> QED BY <1>1, <1>2, <2>1, <2>2, NoteOrSettleTypes, SettleTypes
<1>8. CASE NoteAnswers(x)
  <2>1. AskedState(sess[c]) \in TransactionState
    BY <1>1, SessionOps
  <2>2. SettleKept(x, sess[c], AskedState(sess[c]), run[x].ran)
    BY <1>8 DEF NoteAnswers
  <2>3. run[x].ran \in Answers
    BY <1>1, <1>2 DEF Runs
  <2> QED BY <1>1, <2>1, <2>2, <2>3, SettleTypes
<1> QED BY <1>3, <1>4, <1>5, <1>6, <1>7, <1>8

LEMMA StopTypes ==
    ASSUME TypeOK, Stages, NEW x \in Calls, user' \in Histories,
           \/ Press(x) \/ StopFires(x) \/ CancelLands(x)
           \/ CancelGivenUp(x) \/ WindDownExpires(x)
    PROVE  TypeOK'
<1>1. run[x] \in Runs /\ stop[x] \in Stops
  BY RunFields
<1>2. CASE Press(x)
  <2>1. [stop[x] EXCEPT !.pressed = TRUE] \in Stops
    BY <1>1 DEF Stops
  <2> QED BY <1>2, <2>1 DEF Press, TypeOK
<1>3. CASE StopFires(x)
  <2>1. CASE run[x].token = NoConn
    BY <1>3, <2>1, DropTypes DEF StopFires, TypeOK
  <2>2. CASE run[x].token # NoConn
    <3>1. [stop[x] EXCEPT !.ctl = "telling", !.aim = run[x].token] \in Stops
      BY <1>1 DEF Stops, Runs
    <3>2. stop' = [stop EXCEPT ![x].ctl = "telling", ![x].aim = run[x].token]
      BY <1>3, <2>2 DEF StopFires
    <3>3. stop' \in [Calls -> Stops]
      BY <3>1, <3>2 DEF TypeOK
    <3> QED BY <1>3, <2>2, <3>3 DEF StopFires, TypeOK
  <2> QED BY <2>1, <2>2
<1>4. CASE CancelLands(x)
  <2>1. stop[x].aim \in Conns
    BY <1>4, RunFields DEF CancelLands
  <2>2. Stopped(sess[stop[x].aim]) \in ServerSessions
    BY <2>1, SessionOps DEF TypeOK
  <2>3. [stop[x] EXCEPT !.ctl = "winding"] \in Stops
    BY <1>1 DEF Stops
  <2>4. stop' \in [Calls -> Stops]
    BY <1>4, <2>3 DEF CancelLands, TypeOK
  <2> QED BY <1>4, <2>1, <2>2, <2>4, SetTypes DEF CancelLands, TypeOK
<1>5. CASE CancelGivenUp(x)
  <2>1. stop[x].aim \in Conns
    BY <1>5, RunFields DEF CancelGivenUp
  <2> QED BY <1>5, <2>1, DropTypes DEF CancelGivenUp, TypeOK
<1>6. CASE WindDownExpires(x)
  BY <1>6, DropTypes DEF WindDownExpires, TypeOK
<1> QED BY <1>2, <1>3, <1>4, <1>5, <1>6

LEMMA SessionTypesKept ==
    ASSUME TypeOK, NEW c \in Conns, SessionStep(c), user' \in Histories
    PROVE  TypeOK'
<1>1. sess[c] \in ServerSessions
  BY DEF TypeOK
<1>2. CASE Execute(c)
  <2>1. PICK s \in Executed(sess[c], run[sess[c].by].kind) : Set(c, s)
    BY <1>2 DEF Execute
  <2>2. s \in ServerSessions
    BY <1>1, <2>1, SessionOps
  <2> QED BY <1>2, <2>1, <2>2, SetTypes DEF Execute, TypeOK
<1>3. CASE Die(c)
  <2>1. Ended(sess[c]) \in ServerSessions
    BY <1>1 DEF Ended, ServerSessions, TransactionState
  <2> QED BY <1>3, <2>1, SetTypes DEF Die, TypeOK
<1>4. CASE LateCancelLands(c)
  <2>1. Stopped(sess[c]) \in ServerSessions
    BY <1>1, SessionOps
  <2> QED BY <1>4, <2>1, SetTypes DEF LateCancelLands, TypeOK
<1> QED BY <1>2, <1>3, <1>4 DEF SessionStep

LEMMA CloseTypes ==
    ASSUME TypeOK, Close \/ Release, user' \in Histories
    PROVE  TypeOK'
<1>1. Gone \in ServerSessions
  BY DEF Gone, ServerSessions, TransactionState, Phases
<1>2. [console EXCEPT !.slot = NoConn] \in Consoles
  BY DEF TypeOK, Consoles
<1>3. sess' = [c \in Conns |-> IF c \in idle \cup {console.slot} THEN Gone ELSE sess[c]]
  BY DEF Close, Release
<1>4. sess' \in [Conns -> ServerSessions]
  BY <1>1, <1>3 DEF TypeOK
<1> QED BY <1>2, <1>4 DEF Close, Release, TypeOK

LEMMA TypeStep ==
    ASSUME TypeOK, Stages, Next
    PROVE  TypeOK'
<1>1. user' \in Histories
  BY RememberTypes DEF Next
<1>2. ASSUME NEW x \in Calls, CallStep(x)
      PROVE  TypeOK'
  BY <1>1, <1>2, StartTypes, AcquireTypes, ConnectTypes, ReplyTypes, StopTypes DEF CallStep
<1>3. ASSUME NEW c \in Conns, SessionStep(c)
      PROVE  TypeOK'
  BY <1>1, <1>3, SessionTypesKept
<1>4. CASE Close \/ Release
  BY <1>1, <1>4, CloseTypes
<1> QED BY <1>2, <1>3, <1>4 DEF Next, Step

-----------------------------------------------------------------------------
(* What a step of one call may do to connections *)

(***************************************************************************)
(* A step of call x that concerns connection c alone: c was x's to take,   *)
(* ends in at most one place, and is open exactly if it ends in one.       *)
(***************************************************************************)

\* No other call's run or timer moves.
Alone(x) == \A y \in Calls \ {x} : run'[y] = run[y] /\ stop'[y] = stop[y]

Others(x, c) == \A d \in Conns \ {c} :
    /\ sess'[d] = sess[d]
    /\ d \in idle' <=> d \in idle
    /\ console'.slot = d <=> console.slot = d
    /\ run'[x].conn = d <=> run[x].conn = d

Placed(x, c) ==
    /\ c \in idle => console.slot # c /\ run[x].conn # c
    /\ console.slot = c => run[x].conn # c
    /\ sess[c].link # "none" <=> c \in idle \/ console.slot = c \/ run[x].conn = c

Moves(x, c) ==
    /\ Alone(x)
    /\ StageOf(run'[x], stop'[x])
    /\ Others(x, c)
    /\ c \in Conns =>
         /\ c \in idle \/ console.slot = c \/ run[x].conn = c \/ sess[c].link = "none"
         /\ Placed(x, c)'
    /\ run'[x].pc = "sent" => sess'[run'[x].conn].by = x
    /\ late' \subseteq late \cup {c}
    /\ c \in late' => sess'[c].link = "none"

(***************************************************************************)
(* The inductive invariant: beside the types, the stages and OneHolder, a  *)
(* session works for the call that holds it, and a cancel that may still   *)
(* arrive finds nothing.                                                   *)
(***************************************************************************)
Aims ==
    /\ \A x \in Calls : run[x].pc = "sent" => sess[run[x].conn].by = x
    /\ \A c \in late : sess[c].link = "none"

Placement == Stages /\ OneHolder /\ Aims

LEMMA MovesKeep ==
    ASSUME TypeOK, Placement, NEW x \in Calls, NEW c, Moves(x, c)
    PROVE  Placement'
<1> USE DEF Placement
<1>1. \A y \in Calls \ {x} : run'[y] = run[y] /\ stop'[y] = stop[y]
  BY DEF Moves, Alone
<1>2. Stages'
  BY <1>1 DEF Moves, Stages
<1>3. \A y \in Calls \ {x} : c \in Conns => run[y].conn # c
  BY DEF Moves, OneHolder, HeldByRun
<1>4. OneHolder'
  <2> SUFFICES ASSUME NEW d \in Conns
               PROVE  LET holders == {y \in Calls : HeldByRun(y, d)'}
                      IN  /\ d \in idle' => holders = {} /\ console'.slot # d
                          /\ console'.slot = d => holders = {}
                          /\ \A y, z \in holders : y = z
                          /\ sess'[d].link # "none"
                               <=> d \in idle' \/ console'.slot = d \/ holders # {}
    BY DEF OneHolder
  <2>1. CASE d = c
    <3>1. \A y \in Calls : HeldByRun(y, d)' => y = x
      BY <1>1, <1>3, <2>1 DEF HeldByRun
    <3>2. Placed(x, d)'
      BY <2>1 DEF Moves
    <3> QED BY <3>1, <3>2 DEF Placed, HeldByRun
  <2>2. CASE d # c
    <3>1. /\ sess'[d] = sess[d] /\ (d \in idle' <=> d \in idle)
          /\ console'.slot = d <=> console.slot = d
          /\ run'[x].conn = d <=> run[x].conn = d
      BY <2>2 DEF Moves, Others
    <3>2. \A y \in Calls : HeldByRun(y, d)' <=> HeldByRun(y, d)
      BY <1>1, <3>1 DEF HeldByRun
    <3> QED BY <3>1, <3>2 DEF OneHolder
  <2> QED BY <2>1, <2>2
<1>5. \A y \in Calls : run'[y].pc = "sent" => sess'[run'[y].conn].by = y
  <2> SUFFICES ASSUME NEW y \in Calls \ {x}, run'[y].pc = "sent"
               PROVE  sess'[run'[y].conn].by = y
    BY DEF Moves
  <2>1. run'[y] = run[y] /\ run[y].conn \in Conns
    BY <1>1, RunFields
  <2>2. run[y].conn # c
    BY <1>3, <2>1
  <2> QED BY <2>1, <2>2 DEF Moves, Others, Aims
<1>6. \A d \in late' : sess'[d].link = "none"
  BY DEF Moves, Others, Aims, TypeOK
<1> QED BY <1>2, <1>4, <1>5, <1>6 DEF Aims

LEMMA FinishStages ==
    ASSUME TypeOK, NEW x \in Calls, NEW said, Finish(x, said)
    PROVE  /\ Alone(x)
           /\ StageOf(run'[x], stop'[x])
           /\ run'[x].conn = NoConn /\ run'[x].pc \in {"ready", "next"}
<1>1. run'[x] = NoRun \/ run'[x] = [NoRun EXCEPT !.pc = "next"]
  BY DEF Finish, TypeOK
<1>2. stop'[x].ctl = "poll"
  BY DEF Finish, TypeOK, Stops
<1>3. Alone(x)
  BY DEF Finish, TypeOK, Alone
<1> QED BY <1>1, <1>2, <1>3 DEF StageOf, NoRun

LEMMA PendingStages ==
    ASSUME TypeOK, NEW x \in Calls, Pending(x)
    PROVE  /\ \A y \in Calls \ {x} : stop'[y] = stop[y]
           /\ stop'[x].ctl = "telling" <=> stop[x].ctl = "telling"
           /\ stop'[x].aim = stop[x].aim
BY DEF Pending, TypeOK, Stops

LEMMA SendStages ==
    ASSUME TypeOK, NEW x \in Calls, NEW c \in Conns, Send(x, c), stop[x].ctl # "telling"
    PROVE  /\ Alone(x)
           /\ StageOf(run'[x], stop'[x])
           /\ run'[x].conn = c /\ run'[x].pc = "sent"
<1>1. Pending(x)
  BY DEF Send
<1>2. /\ run'[x].pc = "sent" /\ run'[x].conn = c /\ run'[x].token = c
      /\ \A y \in Calls \ {x} : run'[y] = run[y]
  BY DEF Send, TypeOK, Runs
<1> QED BY <1>1, <1>2, PendingStages, ConnAssumption DEF StageOf, Alone

LEMMA ConnectOrRefuseStages ==
    ASSUME TypeOK, NEW x \in Calls, NEW con, ConnectOrRefuse(x, con),
           StageOf(run[x], stop[x]), run[x].pc \in {"acquire", "ping"}
    PROVE  /\ Alone(x)
           /\ StageOf(run'[x], stop'[x])
           /\ run'[x].conn = NoConn /\ run'[x].pc \in {"ready", "next", "fresh"}
<1>1. CASE IsConsole(x) /\ con.lost
  BY <1>1, FinishStages DEF ConnectOrRefuse
<1>2. CASE ~(IsConsole(x) /\ con.lost)
  <2>1. Pending(x) /\ run' = [run EXCEPT ![x].pc = "fresh", ![x].conn = NoConn]
    BY <1>2 DEF ConnectOrRefuse
  <2>2. /\ run'[x].pc = "fresh" /\ run'[x].conn = NoConn /\ run'[x].token = run[x].token
        /\ \A y \in Calls \ {x} : run'[y] = run[y]
    BY <2>1 DEF TypeOK, Runs
  <2> QED BY <2>1, <2>2, PendingStages DEF StageOf, Alone
<1> QED BY <1>1, <1>2

\* The connection x holds, and where it is not.
LEMMA HeldPlaces ==
    ASSUME TypeOK, Placement, NEW x \in Calls
    PROVE  /\ run[x].conn # NoConn =>
                /\ run[x].conn \in Conns
                /\ run[x].conn \notin idle
                /\ console.slot # run[x].conn
                /\ sess[run[x].conn].link # "none"
                /\ run[x].conn \notin late
           /\ Placed(x, run[x].conn) \/ run[x].conn = NoConn
<1>1. run[x].conn \in Conns \cup {NoConn}
  BY RunFields DEF Runs, Placement
<1> QED BY <1>1 DEF Placement, OneHolder, HeldByRun, Aims, Placed

LEMMA SettleMoves ==
    ASSUME TypeOK, Placement, NEW x \in Calls, run[x].pc \in {"sent", "cut", "note"},
           NEW said, NEW c, c = run[x].conn
    PROVE  /\ \A s \in ServerSessions : \A state :
                s.link # "none" /\ SettleKept(x, s, state, said) => Moves(x, c)
           /\ SettleClosed(x, said) => Moves(x, c)
<1>1. /\ c \in Conns /\ c # NoConn /\ c \notin idle /\ console.slot # c
      /\ sess[c].link # "none" /\ c \notin late
  BY HeldPlaces, RunFields, ConnAssumption DEF Placement
<1>2. ASSUME NEW con, NEW a, Conclude(x, con, a)
      PROVE  /\ Alone(x) /\ StageOf(run'[x], stop'[x])
             /\ run'[x].conn = NoConn /\ run'[x].pc # "sent"
  BY <1>2, FinishStages DEF Conclude
<1>3. ASSUME NEW s \in ServerSessions, s.link # "none", NEW state, SettleKept(x, s, state, said)
      PROVE  Moves(x, c)
  <2> DEFINE seen == [console EXCEPT !.state = state]
             con == ConsoleTakes(seen, c)
             keeps == IF IsConsole(x) THEN con.slot = c ELSE c \in IdleTakes(idle, c)
  <2>1. /\ Set(c, IF keeps THEN s ELSE Gone)
        /\ idle' = IF IsConsole(x) THEN idle ELSE IdleTakes(idle, c)
        /\ Conclude(x, IF IsConsole(x) THEN con ELSE console, said)
        /\ UNCHANGED <<closed, late>>
    BY <1>3 DEF SettleKept
  <2>2. /\ Alone(x) /\ StageOf(run'[x], stop'[x])
        /\ run'[x].conn = NoConn /\ run'[x].pc # "sent"
    BY <1>2, <2>1
  <2>3. console'.slot = IF IsConsole(x) THEN con.slot ELSE console.slot
    BY <2>1, ConsoleOps, <1>1 DEF Conclude, TypeOK, Consoles, ConsoleTakes
  <2>4. con.slot = IF console.slot = NoConn THEN c ELSE console.slot
    BY DEF ConsoleTakes, TypeOK, Consoles
  <2>5. sess' = [sess EXCEPT ![c] = IF keeps THEN s ELSE Gone]
    BY <2>1 DEF Set
  <2>6. sess'[c] = IF keeps THEN s ELSE Gone
    BY <1>1, <2>5 DEF TypeOK
  <2>7. Placed(x, c)'
    <3>1. c \in idle' <=> ~IsConsole(x) /\ keeps
      BY <1>1, <2>1
    <3>2. console'.slot = c <=> IsConsole(x) /\ keeps
      BY <1>1, <2>3
    <3> HIDE DEF keeps
    <3> QED BY <1>1, <1>3, <2>2, <2>6, <3>1, <3>2 DEF Placed, Gone
  <2>8. Others(x, c)
    <3>1. \A d \in Conns \ {c} : d \in idle' <=> d \in idle
      BY <2>1 DEF IdleTakes
    <3>2. \A d \in Conns \ {c} : console'.slot = d <=> console.slot = d
      BY <2>3, <2>4, ConnAssumption
    <3>3. \A d \in Conns \ {c} : sess'[d] = sess[d]
      BY <2>5 DEF TypeOK
    <3> QED BY <1>1, <2>2, <3>1, <3>2, <3>3, ConnAssumption DEF Others
  <2> QED BY <1>1, <2>1, <2>2, <2>7, <2>8 DEF Moves
<1>4. ASSUME SettleClosed(x, said) PROVE Moves(x, c)
  <2>1. /\ sess' = [sess EXCEPT ![c] = Gone]
        /\ UNCHANGED <<idle, closed, late>>
    BY <1>4 DEF SettleClosed, Set
  <2>2. PICK con : con.slot = console.slot /\ con \in Consoles /\ Conclude(x, con, said)
    BY <1>4 DEF SettleClosed, ConsoleGone, TypeOK, Consoles, TransactionState
  <2>3. console'.slot = console.slot
    BY <2>2 DEF Conclude, Consoles
  <2>4. /\ Alone(x) /\ StageOf(run'[x], stop'[x])
        /\ run'[x].conn = NoConn /\ run'[x].pc # "sent"
    BY <1>2, <2>2
  <2>5. sess'[c].link = "none" /\ \A d \in Conns \ {c} : sess'[d] = sess[d]
    BY <1>1, <2>1 DEF TypeOK, Gone
  <2> QED BY <1>1, <2>1, <2>3, <2>4, <2>5, ConnAssumption DEF Moves, Others, Placed
<1> QED BY <1>3, <1>4

LEMMA DropMoves ==
    ASSUME TypeOK, Placement, NEW x \in Calls, NEW c, c = run[x].conn,
           Drop(x), UNCHANGED idle, late' \subseteq late \cup ({c} \cap Conns)
    PROVE  Moves(x, c)
<1>1. /\ Alone(x) /\ StageOf(run'[x], stop'[x])
      /\ run'[x].conn = NoConn /\ run'[x].pc # "sent"
  BY FinishStages DEF Drop
<1>2. console'.slot = console.slot
  BY DEF Drop, ConsoleGone, TypeOK, Consoles
<1>3. CASE c = NoConn
  <2>1. sess' = sess
    BY <1>3 DEF Drop
  <2> QED BY <1>1, <1>2, <1>3, <2>1, ConnAssumption DEF Moves, Others, Placement, Aims, TypeOK
<1>4. CASE c # NoConn
  <2>1. /\ c \in Conns /\ c \notin idle /\ console.slot # c
    BY <1>4, HeldPlaces
  <2>2. sess' = [sess EXCEPT ![c] = Gone]
    BY <1>4 DEF Drop
  <2>3. sess'[c].link = "none" /\ \A d \in Conns \ {c} : sess'[d] = sess[d]
    BY <2>1, <2>2 DEF TypeOK, Gone
  <2> QED BY <1>1, <1>2, <2>1, <2>3, ConnAssumption DEF Moves, Others, Placed
<1> QED BY <1>3, <1>4

-----------------------------------------------------------------------------
(* Every step of a call is such a move *)

LEMMA StartMoves ==
    ASSUME TypeOK, Placement, NEW x \in Calls,
           Start(x) \/ NextStatement(x) \/ StoppedBetween(x)
    PROVE  Moves(x, NoConn)
<1>1. run[x].pc \in {"ready", "next"} /\ run[x].conn = NoConn
  BY DEF Start, NextStatement, StoppedBetween, Placement, Stages, StageOf
<1>2. UNCHANGED <<sess, console, idle, late>>
  BY DEF Start, NextStatement, StoppedBetween
<1>3. /\ Alone(x) /\ StageOf(run'[x], stop'[x])
      /\ run'[x].conn = NoConn /\ run'[x].pc # "sent"
  <2>1. CASE Start(x)
    BY <2>1 DEF Start, TypeOK, Alone, StageOf, NoRun, NoStop
  <2>2. CASE NextStatement(x)
    <3>1. PICK kind : run' = [run EXCEPT ![x] = [NoRun EXCEPT !.pc = "acquire", !.kind = kind]]
      BY <2>2 DEF NextStatement
    <3>2. Pending(x) /\ stop[x].ctl # "telling"
      BY <2>2, <1>1 DEF NextStatement, Placement, Stages, StageOf
    <3> QED BY <3>1, <3>2, PendingStages DEF TypeOK, Alone, StageOf, NoRun
  <2>3. CASE StoppedBetween(x)
    BY <2>3, FinishStages DEF StoppedBetween
  <2> QED BY <2>1, <2>2, <2>3
<1> QED BY <1>1, <1>2, <1>3, ConnAssumption DEF Moves, Others, Placement, Aims, TypeOK

LEMMA AcquireMoves ==
    ASSUME TypeOK, Placement, NEW x \in Calls, NEW c \in Conns,
           AcquireFresh(x, c) \/ AcquireQuiet(x, c) \/ AcquireStale(x, c)
    PROVE  Moves(x, c)
<1>1. /\ run[x].pc = "acquire" /\ run[x].conn = NoConn /\ stop[x].ctl # "telling"
      /\ run[x].token = NoConn
  BY DEF AcquireFresh, AcquireQuiet, AcquireStale, Acquiring, Placement, Stages, StageOf
<1>2. c \in Kept(x) \/ (~IsConsole(x) /\ c \in idle)
  BY DEF AcquireFresh, AcquireQuiet, AcquireStale
<1>3. IF IsConsole(x) THEN console.slot = c ELSE c \in idle
  BY <1>2 DEF Kept
<1>4. /\ c \in idle => console.slot # c
      /\ sess[c].link # "none" /\ c \notin late
  BY <1>3 DEF Placement, OneHolder, Aims
<1>5. /\ c \notin idle' /\ console'.slot # c
      /\ \A d \in Conns \ {c} : (d \in idle' <=> d \in idle)
      /\ \A d \in Conns \ {c} : (console'.slot = d <=> console.slot = d)
  BY <1>3, <1>4, ConnAssumption DEF AcquireFresh, AcquireQuiet, AcquireStale, TypeOK, Consoles
<1>6. CASE AcquireFresh(x, c)
  <2>1. Send(x, c) /\ sess' = [sess EXCEPT ![c] = Asked(sess[c], x)] /\ late' = late
    BY <1>6 DEF AcquireFresh, Set
  <2>2. sess'[c].by = x /\ sess'[c].link = sess[c].link
    BY <2>1 DEF TypeOK, Asked, ServerSessions
  <2>3. Alone(x) /\ StageOf(run'[x], stop'[x]) /\ run'[x].conn = c
    BY <1>1, <2>1, SendStages
  <2> QED BY <1>1, <1>3, <1>4, <1>5, <2>1, <2>2, <2>3, ConnAssumption DEF Moves, Others, Placed, TypeOK
<1>7. CASE AcquireQuiet(x, c)
  <2>1. /\ run' = [run EXCEPT ![x].pc = "ping", ![x].conn = c]
        /\ Pending(x) /\ sess' = sess /\ late' = late
    BY <1>7 DEF AcquireQuiet
  <2>2. /\ run'[x].pc = "ping" /\ run'[x].conn = c /\ run'[x].token = run[x].token
        /\ \A y \in Calls \ {x} : run'[y] = run[y]
    BY <2>1 DEF TypeOK, Runs
  <2>3. Alone(x) /\ StageOf(run'[x], stop'[x])
    BY <1>1, <2>1, <2>2, PendingStages, ConnAssumption DEF Alone, StageOf
  <2> QED BY <1>1, <1>3, <1>4, <1>5, <2>1, <2>2, <2>3, ConnAssumption DEF Moves, Others, Placed
<1>8. CASE AcquireStale(x, c)
  <2>1. /\ run' = run /\ Pending(x) /\ late' = late
        /\ sess' = [sess EXCEPT ![c] = Gone]
    BY <1>8 DEF AcquireStale, Set
  <2>2. Alone(x) /\ StageOf(run'[x], stop'[x])
    BY <1>1, <2>1, PendingStages DEF Alone, StageOf
  <2>3. sess'[c].link = "none"
    BY <2>1 DEF TypeOK, Gone
  <2> QED BY <1>1, <1>3, <1>4, <1>5, <2>1, <2>2, <2>3, ConnAssumption DEF Moves, Others, Placed, TypeOK
<1> QED BY <1>6, <1>7, <1>8

LEMMA ConnectMoves ==
    ASSUME TypeOK, Placement, NEW x \in Calls,
           \/ AcquireNone(x) \/ PingAnswers(x) \/ PingFails(x)
           \/ \E c \in Conns : FreshOpens(x, c)
           \/ FreshFails(x)
    PROVE  \E c : Moves(x, c)
<1>1. StageOf(run[x], stop[x])
  BY DEF Placement, Stages
<1>2. CASE AcquireNone(x)
  <2>1. ConnectOrRefuse(x, console) /\ run[x].pc = "acquire" /\ UNCHANGED <<sess, idle, late>>
    BY <1>2 DEF AcquireNone, Acquiring
  <2>2. /\ Alone(x) /\ StageOf(run'[x], stop'[x])
        /\ run'[x].conn = NoConn /\ run'[x].pc # "sent"
    BY <1>1, <2>1, ConnectOrRefuseStages
  <2>3. console'.slot = console.slot /\ run[x].conn = NoConn
    BY <1>1, <2>1 DEF ConnectOrRefuse, TypeOK, Consoles, StageOf
  <2>4. Moves(x, NoConn)
    BY <2>1, <2>2, <2>3, ConnAssumption DEF Moves, Others, Placement, Aims, TypeOK
  <2> QED BY <2>4
<1>3. CASE PingAnswers(x)
  <2>1. PICK c : c = run[x].conn
    OBVIOUS
  <2>2. /\ Send(x, c) /\ sess' = [sess EXCEPT ![c] = Asked(sess[c], x)]
        /\ UNCHANGED <<console, idle, late>> /\ run[x].pc = "ping" /\ stop[x].ctl # "telling"
    BY <1>3, <2>1 DEF PingAnswers, Set, Polled
  <2>3. /\ c \in Conns /\ c \notin idle /\ console.slot # c
        /\ sess[c].link # "none" /\ c \notin late
    BY <1>1, <2>1, <2>2, HeldPlaces DEF StageOf
  <2>4. sess'[c].by = x /\ sess'[c].link = sess[c].link
    BY <2>2, <2>3 DEF TypeOK, Asked, ServerSessions
  <2>5. Alone(x) /\ StageOf(run'[x], stop'[x]) /\ run'[x].conn = c
    BY <2>2, <2>3, SendStages
  <2>6. Moves(x, c)
    BY <2>1, <2>2, <2>3, <2>4, <2>5 DEF Moves, Others, Placed, TypeOK
  <2> QED BY <2>6
<1>4. CASE PingFails(x)
  <2>1. PICK c : c = run[x].conn
    OBVIOUS
  <2>2. /\ sess' = [sess EXCEPT ![c] = Gone] /\ UNCHANGED <<idle, late>>
        /\ run[x].pc = "ping" /\ stop[x].ctl # "telling"
    BY <1>4, <2>1 DEF PingFails, Set, Polled
  <2>3. c \in Conns /\ c \notin idle /\ console.slot # c
    BY <1>1, <2>1, <2>2, HeldPlaces DEF StageOf
  <2>4. /\ Alone(x) /\ StageOf(run'[x], stop'[x])
        /\ run'[x].conn = NoConn /\ run'[x].pc # "sent"
        /\ console'.slot = console.slot
    <3>1. CASE IsConsole(x)
      <4>1. ConnectOrRefuse(x, ConsoleGone(console))
        BY <1>4, <3>1 DEF PingFails
      <4>2. console'.slot = console.slot
        BY <4>1 DEF ConnectOrRefuse, ConsoleGone, TypeOK, Consoles
      <4> QED BY <1>1, <2>2, <4>1, <4>2, ConnectOrRefuseStages
    <3>2. CASE ~IsConsole(x)
      <4>1. /\ run' = [run EXCEPT ![x].pc = "acquire", ![x].conn = NoConn]
            /\ Pending(x) /\ console' = console
        BY <1>4, <3>2 DEF PingFails
      <4>2. /\ run'[x].pc = "acquire" /\ run'[x].conn = NoConn /\ run'[x].token = run[x].token
            /\ \A y \in Calls \ {x} : run'[y] = run[y]
        BY <4>1 DEF TypeOK, Runs
      <4> QED BY <1>1, <2>2, <4>1, <4>2, PendingStages DEF Alone, StageOf
    <3> QED BY <3>1, <3>2
  <2>5. sess'[c].link = "none" /\ \A d \in Conns \ {c} : sess'[d] = sess[d]
    BY <2>2, <2>3 DEF TypeOK, Gone
  <2>6. Moves(x, c)
    BY <2>1, <2>2, <2>3, <2>4, <2>5, ConnAssumption DEF Moves, Others, Placed
  <2> QED BY <2>6
<1>5. ASSUME NEW c \in Conns, FreshOpens(x, c)
      PROVE  Moves(x, c)
  <2>1. /\ Send(x, c) /\ sess' = [sess EXCEPT ![c] = Asked(Opened, x)]
        /\ UNCHANGED <<console, idle, late>> /\ run[x].pc = "fresh" /\ stop[x].ctl # "telling"
        /\ sess[c].link = "none" /\ c \notin late
    BY <1>5 DEF FreshOpens, Set, Polled
  <2>2. c \notin idle /\ console.slot # c
    BY <2>1 DEF Placement, OneHolder
  <2>3. sess'[c].by = x /\ sess'[c].link = "up" /\ \A d \in Conns \ {c} : sess'[d] = sess[d]
    BY <2>1 DEF TypeOK, Asked, Opened, Gone
  <2>4. Alone(x) /\ StageOf(run'[x], stop'[x]) /\ run'[x].conn = c
    BY <2>1, SendStages
  <2>5. run[x].conn = NoConn
    BY <1>1, <2>1 DEF StageOf
  <2> QED BY <2>1, <2>2, <2>3, <2>4, <2>5, ConnAssumption DEF Moves, Others, Placed
<1>6. CASE FreshFails(x)
  <2>1. Finish(x, "error") /\ UNCHANGED <<sess, console, idle, late>> /\ run[x].conn = NoConn
    BY <1>1, <1>6 DEF FreshFails, StageOf
  <2>2. Moves(x, NoConn)
    BY <2>1, FinishStages, ConnAssumption DEF Moves, Others, Placement, Aims, TypeOK
  <2> QED BY <2>2
<1> QED BY <1>2, <1>3, <1>4, <1>5, <1>6

\* A step that leaves x's connection where it is.
LEMMA InPlaceMoves ==
    ASSUME TypeOK, Placement, NEW x \in Calls, NEW c \in Conns, c = run[x].conn,
           NEW s, Set(c, s), s.link = sess[c].link,
           UNCHANGED <<console, idle, late>>,
           Alone(x), StageOf(run'[x], stop'[x]), run'[x].conn = c,
           run'[x].pc = "sent" => s.by = x
    PROVE  Moves(x, c)
<1>1. c \notin idle /\ console.slot # c /\ sess[c].link # "none" /\ c \notin late
  BY HeldPlaces, ConnAssumption
<1>2. sess'[c] = s /\ \A d \in Conns \ {c} : sess'[d] = sess[d]
  BY DEF Set, TypeOK
<1> QED BY <1>1, <1>2 DEF Moves, Others, Placed

LEMMA NoteOrSettleMoves ==
    ASSUME TypeOK, Placement, NEW x \in Calls, run[x].pc \in {"sent", "cut"},
           NEW c, c = run[x].conn, NEW s \in ServerSessions, s.link = sess[c].link,
           NEW ran, NoteOrSettle(x, s, ran), stop[x].ctl # "telling"
    PROVE  Moves(x, c)
<1>1. c \in Conns /\ sess[c].link # "none"
  BY HeldPlaces, RunFields, ConnAssumption DEF Placement
<1>2. CASE IsConsole(x) /\ NotesTransaction(console, run[x].kind)
  <2>1. /\ Set(c, s) /\ Pending(x) /\ UNCHANGED <<console, idle, late>>
        /\ run' = [run EXCEPT ![x].pc = "note", ![x].token = NoConn, ![x].ran = ran]
    BY <1>2 DEF NoteOrSettle
  <2>2. /\ run'[x].pc = "note" /\ run'[x].token = NoConn /\ run'[x].conn = c
        /\ \A y \in Calls \ {x} : run'[y] = run[y]
    BY <2>1 DEF TypeOK, Runs
  <2>3. Alone(x) /\ StageOf(run'[x], stop'[x])
    BY <1>1, <2>1, <2>2, PendingStages, ConnAssumption DEF Alone, StageOf
  <2> QED BY <1>1, <2>1, <2>2, <2>3, InPlaceMoves
<1>3. CASE ~(IsConsole(x) /\ NotesTransaction(console, run[x].kind))
  <2>1. SettleKept(x, s, console.state, ran)
    BY <1>3 DEF NoteOrSettle
  <2> QED BY <1>1, <2>1, SettleMoves
<1> QED BY <1>2, <1>3

LEMMA ReplyMoves ==
    ASSUME TypeOK, Placement, NEW x \in Calls,
           \/ SendAgain(x) \/ ReplyRead(x) \/ ReplyBroken(x)
           \/ CutStops(x) \/ CutDrains(x) \/ NoteAnswers(x)
    PROVE  \E c : Moves(x, c)
<1>0. PICK c : c = run[x].conn
  OBVIOUS
<1>1. /\ run[x].pc \in {"sent", "cut", "note"} /\ stop[x].ctl # "telling"
      /\ c \in Conns /\ c # NoConn /\ sess[c] \in ServerSessions /\ sess[c].link # "none"
  BY <1>0, RunFields, HeldPlaces, ConnAssumption
  DEF Placement, SendAgain, ReplyRead, ReplyBroken, CutStops, CutDrains, NoteAnswers,
      Arrived, Breaks, Polled
<1>2. CASE SendAgain(x)
  <2>1. /\ Set(c, Asked(sess[c], x)) /\ Pending(x) /\ UNCHANGED <<console, idle, late>>
        /\ run' = [run EXCEPT ![x].again = TRUE]
    BY <1>0, <1>2 DEF SendAgain
  <2>2. /\ run'[x].pc = run[x].pc /\ run'[x].token = run[x].token /\ run'[x].conn = c
        /\ \A y \in Calls \ {x} : run'[y] = run[y]
    BY <1>0, <2>1 DEF TypeOK, Runs
  <2>3. Alone(x) /\ StageOf(run'[x], stop'[x])
    BY <1>1, <2>1, <2>2, PendingStages DEF Alone, StageOf, Placement, Stages
  <2>4. Asked(sess[c], x).link = sess[c].link /\ Asked(sess[c], x).by = x
    BY <1>1 DEF Asked, ServerSessions
  <2> QED BY <1>0, <1>1, <2>1, <2>2, <2>3, <2>4, InPlaceMoves
<1>3. CASE ReplyRead(x)
  <2>1. CASE sess[c].phase = "capped"
    <3>1. /\ run' = [run EXCEPT ![x].pc = "cut", ![x].token = NoConn]
          /\ Pending(x) /\ UNCHANGED <<sess, console, idle, late>>
      BY <1>0, <1>3, <2>1 DEF ReplyRead
    <3>2. /\ run'[x].pc = "cut" /\ run'[x].token = NoConn /\ run'[x].conn = c
          /\ \A y \in Calls \ {x} : run'[y] = run[y]
      BY <1>0, <3>1 DEF TypeOK, Runs
    <3>3. Alone(x) /\ StageOf(run'[x], stop'[x])
      BY <1>1, <3>1, <3>2, PendingStages DEF Alone, StageOf
    <3>4. Set(c, sess[c])
      BY <1>1, <3>1 DEF Set, TypeOK
    <3> QED BY <1>0, <1>1, <3>1, <3>2, <3>3, <3>4, InPlaceMoves
  <2>2. CASE sess[c].phase # "capped"
    <3>1. PICK ran : NoteOrSettle(x, Answered(sess[c]), ran)
      BY <1>0, <1>3, <2>2 DEF ReplyRead
    <3>2. Answered(sess[c]) \in ServerSessions /\ Answered(sess[c]).link = sess[c].link
      BY <1>1, SessionOps DEF Answered, ServerSessions
    <3>3. run[x].pc = "sent"
      BY <1>3 DEF ReplyRead, Arrived
    <3> QED BY <1>0, <1>1, <3>1, <3>2, <3>3, NoteOrSettleMoves
  <2> QED BY <2>1, <2>2
<1>4. CASE ReplyBroken(x)
  BY <1>0, <1>1, <1>4, SettleMoves DEF ReplyBroken
<1>5. CASE CutStops(x)
  <2>1. /\ Set(c, Stopped(sess[c])) /\ Pending(x) /\ UNCHANGED <<console, idle, late, run>>
        /\ run[x].pc = "cut"
    BY <1>0, <1>5 DEF CutStops
  <2>2. Alone(x) /\ StageOf(run'[x], stop'[x])
    BY <1>1, <2>1, PendingStages DEF Alone, StageOf, Placement, Stages
  <2>3. Stopped(sess[c]).link = sess[c].link
    BY <1>1 DEF Stopped, Reply, ServerSessions
  <2> QED BY <1>0, <1>1, <2>1, <2>2, <2>3, InPlaceMoves
<1>6. CASE CutDrains(x)
  <2>1. Answered(sess[c]) \in ServerSessions /\ Answered(sess[c]).link = sess[c].link
    BY <1>1, SessionOps DEF Answered, ServerSessions
  <2>2. run[x].pc = "cut" /\ (NoteOrSettle(x, Answered(sess[c]), "ok") \/ SettleClosed(x, "ok"))
    BY <1>0, <1>6 DEF CutDrains
  <2> QED BY <1>0, <1>1, <2>1, <2>2, NoteOrSettleMoves, SettleMoves
<1>7. CASE NoteAnswers(x)
  <2>1. SettleKept(x, sess[c], AskedState(sess[c]), run[x].ran)
    BY <1>0, <1>7 DEF NoteAnswers
  <2> QED BY <1>0, <1>1, <2>1, SettleMoves
<1> QED BY <1>2, <1>3, <1>4, <1>5, <1>6, <1>7

LEMMA StopMoves ==
    ASSUME TypeOK, Placement, NEW x \in Calls,
           \/ Press(x) \/ StopFires(x) \/ CancelLands(x)
           \/ CancelGivenUp(x) \/ WindDownExpires(x)
    PROVE  \E c : Moves(x, c)
<1>0. PICK c : c = run[x].conn
  OBVIOUS
<1>1. /\ StageOf(run[x], stop[x]) /\ run[x] \in Runs
      /\ run[x].pc = "sent" => sess[c].by = x /\ c \in Conns
      /\ stop[x].ctl = "telling" => c \in Conns /\ stop[x].aim = c
  BY <1>0, RunFields DEF Placement, Stages, StageOf, Aims
<1>2. ASSUME Alone(x), StageOf(run'[x], stop'[x]), UNCHANGED <<sess, console, idle, late, run>>
      PROVE  Moves(x, NoConn)
  BY <1>1, <1>0, <1>2, ConnAssumption DEF Moves, Others, Placement, Aims, TypeOK
<1>3. CASE Press(x)
  <2>1. /\ UNCHANGED <<sess, console, idle, late, run>>
        /\ stop'[x].ctl = stop[x].ctl /\ stop'[x].aim = stop[x].aim
        /\ \A y \in Calls \ {x} : stop'[y] = stop[y]
    BY <1>3 DEF Press, TypeOK, Stops
  <2> QED BY <1>1, <1>2, <2>1 DEF Alone, StageOf
<1>4. CASE StopFires(x)
  <2>1. CASE run[x].token = NoConn
    BY <1>0, <1>4, <2>1, DropMoves DEF StopFires
  <2>2. CASE run[x].token # NoConn
    <3>1. /\ UNCHANGED <<sess, console, idle, late, run>>
          /\ stop' = [stop EXCEPT ![x].ctl = "telling", ![x].aim = run[x].token]
      BY <1>4, <2>2 DEF StopFires
    <3>2. /\ stop'[x].ctl = "telling" /\ stop'[x].aim = run[x].token
          /\ \A y \in Calls \ {x} : stop'[y] = stop[y]
      BY <3>1 DEF TypeOK, Stops
    <3>3. run[x].pc = "sent"
      BY <1>1, <2>2 DEF StageOf
    <3> QED BY <1>1, <1>2, <3>1, <3>2, <3>3 DEF Alone, StageOf
  <2> QED BY <2>1, <2>2
<1>5. CASE CancelLands(x)
  <2>1. /\ Set(c, Stopped(sess[c])) /\ UNCHANGED <<console, idle, late, run>>
        /\ c \in Conns /\ run[x].pc = "sent"
    BY <1>1, <1>5 DEF CancelLands, StageOf
  <2>2. /\ stop'[x].ctl = "winding" /\ \A y \in Calls \ {x} : stop'[y] = stop[y]
    BY <1>5 DEF CancelLands, TypeOK, Stops
  <2>3. Stopped(sess[c]).link = sess[c].link /\ Stopped(sess[c]).by = sess[c].by
    BY <2>1 DEF Stopped, Reply, ServerSessions, TypeOK
  <2>4. Alone(x) /\ StageOf(run'[x], stop'[x])
    BY <1>1, <2>1, <2>2 DEF Alone, StageOf
  <2> QED BY <1>0, <1>1, <2>1, <2>3, <2>4, InPlaceMoves
<1>6. CASE CancelGivenUp(x)
  <2>1. Drop(x) /\ UNCHANGED idle /\ late' \subseteq late \cup ({c} \cap Conns)
    BY <1>1, <1>6 DEF CancelGivenUp
  <2> QED BY <1>0, <2>1, DropMoves
<1>7. CASE WindDownExpires(x)
  BY <1>0, <1>7, DropMoves DEF WindDownExpires
<1> QED BY <1>3, <1>4, <1>5, <1>6, <1>7

-----------------------------------------------------------------------------
(* The invariants *)

LEMMA CallPlacement ==
    ASSUME TypeOK, Placement, NEW x \in Calls, CallStep(x)
    PROVE  Placement'
<1>1. \E c : Moves(x, c)
  <2>1. CASE Start(x) \/ NextStatement(x) \/ StoppedBetween(x)
    BY <2>1, StartMoves
  <2>2. CASE \E c \in Conns : AcquireFresh(x, c) \/ AcquireQuiet(x, c) \/ AcquireStale(x, c)
    BY <2>2, AcquireMoves
  <2>3. CASE \/ AcquireNone(x) \/ PingAnswers(x) \/ PingFails(x)
             \/ \E c \in Conns : FreshOpens(x, c)
             \/ FreshFails(x)
    BY <2>3, ConnectMoves
  <2>4. CASE \/ SendAgain(x) \/ ReplyRead(x) \/ ReplyBroken(x)
             \/ CutStops(x) \/ CutDrains(x) \/ NoteAnswers(x)
    BY <2>4, ReplyMoves
  <2>5. CASE \/ Press(x) \/ StopFires(x) \/ CancelLands(x)
             \/ CancelGivenUp(x) \/ WindDownExpires(x)
    BY <2>5, StopMoves
  <2> QED BY <2>1, <2>2, <2>3, <2>4, <2>5 DEF CallStep
<1> QED BY <1>1, MovesKeep

\* The server's own steps neither open nor let go of a connection.
LEMMA SessionPlacement ==
    ASSUME TypeOK, Placement, NEW c \in Conns, SessionStep(c)
    PROVE  Placement'
<1>1. sess[c] \in ServerSessions
  BY DEF TypeOK
<1>2. /\ UNCHANGED <<console, idle, run, stop>> /\ late' \subseteq late
      /\ \E s : /\ Set(c, s)
                /\ s.by = sess[c].by
                /\ s.link = "none" <=> sess[c].link = "none"
  <2>1. CASE Execute(c)
    <3>1. PICK s \in Executed(sess[c], run[sess[c].by].kind) : Set(c, s)
      BY <2>1 DEF Execute
    <3>2. s.link = sess[c].link /\ s.by = sess[c].by
      BY <1>1, <3>1 DEF Executed, Reply, ServerSessions
    <3> QED BY <2>1, <3>1, <3>2 DEF Execute
  <2>2. CASE Die(c)
    <3>1. /\ Ended(sess[c]).by = sess[c].by
          /\ Ended(sess[c]).link = "down" /\ sess[c].link = "up"
      BY <1>1, <2>2 DEF Die, Ended, ServerSessions
    <3> QED BY <2>2, <3>1 DEF Die
  <2>3. CASE LateCancelLands(c)
    <3>1. Stopped(sess[c]).link = sess[c].link /\ Stopped(sess[c]).by = sess[c].by
      BY <1>1 DEF Stopped, Reply, ServerSessions
    <3> QED BY <2>3, <3>1 DEF LateCancelLands
  <2> QED BY <2>1, <2>2, <2>3 DEF SessionStep
<1>3. /\ \A d \in Conns : sess'[d].by = sess[d].by
      /\ \A d \in Conns : sess'[d].link = "none" <=> sess[d].link = "none"
  BY <1>2 DEF Set, TypeOK
<1>4. Stages'
  BY <1>2 DEF Placement, Stages
<1>5. OneHolder'
  BY <1>2, <1>3 DEF Placement, OneHolder, HeldByRun
<1>6. Aims'
  BY <1>2, <1>3, RunFields DEF Placement, Aims, TypeOK
<1> QED BY <1>4, <1>5, <1>6 DEF Placement

LEMMA ClosePlacement ==
    ASSUME TypeOK, Placement, Close \/ Release
    PROVE  Placement'
<1>1. /\ sess' = [c \in Conns |-> IF c \in idle \cup {console.slot} THEN Gone ELSE sess[c]]
      /\ idle' = {} /\ console'.slot = NoConn
      /\ UNCHANGED <<run, stop, late>>
  BY DEF Close, Release, TypeOK, Consoles
<1>2. Stages'
  BY <1>1 DEF Placement, Stages
<1>3. OneHolder'
  BY <1>1, ConnAssumption DEF Placement, OneHolder, HeldByRun, Gone
<1>4. \A x \in Calls : run[x].pc = "sent" => sess'[run[x].conn] = sess[run[x].conn]
  BY <1>1, HeldPlaces, RunFields, ConnAssumption DEF Placement
<1>5. Aims'
  BY <1>1, <1>4 DEF Placement, Aims, Gone, TypeOK
<1> QED BY <1>2, <1>3, <1>5 DEF Placement

\* Where the connections are is kept by every step.
LEMMA PlacementStep ==
    ASSUME TypeOK, Placement, Next
    PROVE  Placement'
BY CallPlacement, SessionPlacement, ClosePlacement DEF Next, Step

LEMMA InitHolds == Init => TypeOK /\ Placement
<1> SUFFICES ASSUME Init PROVE TypeOK /\ Placement
  OBVIOUS
<1>1. /\ Gone \in ServerSessions /\ NewConsole \in Consoles
      /\ NoRun \in Runs /\ NoStop \in Stops
      /\ [left |-> 0, extra |-> 0, answer |-> "none"] \in Batches
  BY BoundAssumption
  DEF Gone, ServerSessions, TransactionState, Phases, NewConsole, Consoles,
      NoRun, Runs, PCs, Kinds, NoStop, Stops, Batches, Answers
<1>2. TypeOK
  BY <1>1 DEF Init, TypeOK, Histories
<1>3. Placement
  BY ConnAssumption
  DEF Init, Placement, Stages, StageOf, OneHolder, HeldByRun, Aims, NoRun, NoStop, Gone, NewConsole
<1> QED BY <1>2, <1>3

LEMMA Stuttering == TypeOK /\ Placement /\ UNCHANGED vars => TypeOK' /\ Placement'
BY DEF vars, TypeOK, Placement, Stages, StageOf, OneHolder, HeldByRun, Aims

(***************************************************************************)
(* The variables of the driver keep their types, however many calls        *)
(* overlap: a batch never runs past its end, and a token, an aim and the   *)
(* places of the cache only ever hold connections.                         *)
(***************************************************************************)
THEOREM TypeCorrect == Spec => []TypeOK
<1>1. TypeOK /\ Placement /\ [Next]_vars => TypeOK' /\ Placement'
  BY TypeStep, PlacementStep, Stuttering DEF Placement
<1> QED BY <1>1, InitHolds, PTL DEF Spec

(***************************************************************************)
(* A connection is never in two places and never open in none: what the    *)
(* cache keeps, what Sessions::acquire takes out and pings, what a Lease   *)
(* holds and what its Drop closes are the same connections throughout.     *)
(***************************************************************************)
THEOREM HoldersCorrect == Spec => []OneHolder
<1>1. TypeOK /\ Placement /\ [Next]_vars => TypeOK' /\ Placement'
  BY TypeStep, PlacementStep, Stuttering DEF Placement
<1>2. Placement => OneHolder
  BY DEF Placement
<1> QED BY <1>1, <1>2, InitHolds, PTL DEF Spec

(***************************************************************************)
(* A cancel stops the statement it was meant for or nothing: while         *)
(* until_stopped waits for driver.cancel, the tracked session still runs   *)
(* that very call, and once it has given up the session is closed.         *)
(***************************************************************************)
THEOREM CancelCorrect == Spec => []CancelAimsTrue
<1>1. TypeOK /\ Placement /\ [Next]_vars => TypeOK' /\ Placement'
  BY TypeStep, PlacementStep, Stuttering DEF Placement
<1>2. Placement => CancelAimsTrue
  BY DEF Placement, Stages, StageOf, Aims, CancelAimsTrue
<1> QED BY <1>1, <1>2, InitHolds, PTL DEF Spec

-----------------------------------------------------------------------------
(* After Stop *)

(***************************************************************************)
(* Nothing is counted before the press, and the one statement that may     *)
(* follow it is never followed by another: until its run ends the select!  *)
(* has seen the press.                                                     *)
(***************************************************************************)
PressOf(r, b, s) ==
    /\ ~s.pressed => b.extra = 0
    /\ b.extra # 0 => /\ b.extra = 1
                      /\ r.pc \in {"ready", "sent", "cut", "note"}
                      /\ r.pc = "ready" \/ s.ctl # "poll"

Presses == \A x \in Calls : PressOf(run[x], batch[x], stop[x])

\* A step of x that sends nothing new and looks away from no press.
Onward(x) ==
    /\ batch'[x].extra = batch[x].extra
    /\ stop'[x].pressed = stop[x].pressed \/ batch[x].extra = 0
    /\ stop[x].pressed => stop'[x].pressed
    /\ batch[x].extra # 0 =>
         \/ run'[x].pc = "ready"
         \/ run'[x].pc \in {"sent", "cut", "note"} /\ stop'[x].ctl # "poll"

LEMMA OnwardPresses ==
    ASSUME NEW x \in Calls, PressOf(run[x], batch[x], stop[x]), Onward(x)
    PROVE  PressOf(run'[x], batch'[x], stop'[x])
BY DEF PressOf, Onward

LEMMA PendingCtl ==
    ASSUME TypeOK, NEW x \in Calls, Pending(x)
    PROVE  /\ stop'[x].pressed = stop[x].pressed
           /\ stop[x].ctl # "poll" => stop'[x].ctl # "poll"
           /\ stop[x].pressed => stop'[x].ctl # "poll"
           /\ \A y \in Calls \ {x} : stop'[y] = stop[y]
<1>1. stop[x] \in Stops
  BY DEF TypeOK
<1>2. stop'[x] = [stop[x] EXCEPT !.ctl =
                    IF stop[x].ctl = "poll" /\ stop[x].pressed THEN "noticed" ELSE stop[x].ctl]
  BY DEF Pending, TypeOK
<1> QED BY <1>1, <1>2 DEF Stops, Pending, TypeOK

\* Only the calls that finish a batch with "ok" may go on to a statement more.
LEMMA FinishPresses ==
    ASSUME TypeOK, NEW x \in Calls, NEW said, PressOf(run[x], batch[x], stop[x]),
           Finish(x, said), run[x].pc # "ready", said = "ok" => Polled(x)
    PROVE  /\ Onward(x)
           /\ \A y \in Calls \ {x} : run'[y] = run[y] /\ batch'[y] = batch[y] /\ stop'[y] = stop[y]
<1> DEFINE answer == IF stop[x].ctl = "winding" THEN "cancelled" ELSE said
<1>1. run[x] \in Runs /\ batch[x] \in Batches /\ stop[x] \in Stops
  BY DEF TypeOK
<1>2. /\ stop'[x].pressed = stop[x].pressed
      /\ \A y \in Calls \ {x} : run'[y] = run[y] /\ stop'[y] = stop[y]
  BY <1>1 DEF Finish, TypeOK, Stops
<1>3. /\ batch'[x].extra = batch[x].extra
      /\ \A y \in Calls \ {x} : batch'[y] = batch[y]
  <2>1. \/ batch' = [batch EXCEPT ![x].left = @ - 1]
        \/ batch' = [batch EXCEPT ![x] = [@ EXCEPT !.left = 0, !.answer = answer]]
    BY DEF Finish
  <2> HIDE DEF answer
  <2> QED BY <1>1, <2>1 DEF TypeOK, Batches
<1>4. ASSUME batch[x].extra # 0
      PROVE  run'[x].pc = "ready"
  <2>1. stop[x].ctl # "poll"
    BY <1>4 DEF PressOf
  <2>2. answer # "ok"
    BY <2>1 DEF Polled
  <2>3. ~More(x, answer)
    BY <2>2 DEF More
  <2> QED BY <2>3 DEF Finish, TypeOK, NoRun
<1> QED BY <1>2, <1>3, <1>4 DEF Onward

Elsewhere(x) == \A y \in Calls \ {x} :
    run'[y] = run[y] /\ batch'[y] = batch[y] /\ stop'[y] = stop[y]

LEMMA PendingPresses ==
    ASSUME TypeOK, NEW x \in Calls, PressOf(run[x], batch[x], stop[x]),
           Pending(x), UNCHANGED batch,
           \A y \in Calls \ {x} : run'[y] = run[y],
           run'[x].pc \in {"sent", "cut", "note"} \/ run[x].pc \in {"next", "acquire", "ping", "fresh"},
           run[x].pc # "ready"
    PROVE  Onward(x) /\ Elsewhere(x)
BY PendingCtl DEF PressOf, Onward, Elsewhere

\* The one place where the count goes up.
LEMMA SendPresses ==
    ASSUME TypeOK, NEW x \in Calls, NEW c \in Conns, PressOf(run[x], batch[x], stop[x]),
           Send(x, c), run[x].pc \in {"acquire", "ping", "fresh"}
    PROVE  PressOf(run'[x], batch'[x], stop'[x]) /\ Elsewhere(x)
<1>1. batch[x].extra = 0
  BY DEF PressOf
<1>2. /\ run'[x].pc = "sent" /\ Pending(x)
      /\ batch'[x].extra = IF stop[x].pressed THEN 1 ELSE 0
      /\ \A y \in Calls \ {x} : run'[y] = run[y] /\ batch'[y] = batch[y]
  BY <1>1 DEF Send, TypeOK, Runs, Batches
<1> QED BY <1>2, PendingCtl DEF PressOf, Elsewhere

LEMMA AcquirePresses ==
    ASSUME TypeOK, Presses, NEW x \in Calls,
           \/ Start(x) \/ NextStatement(x) \/ StoppedBetween(x)
           \/ \E c \in Conns : \/ AcquireFresh(x, c) \/ AcquireQuiet(x, c) \/ AcquireStale(x, c)
                               \/ FreshOpens(x, c)
           \/ AcquireNone(x) \/ PingAnswers(x) \/ PingFails(x) \/ FreshFails(x),
           run[x].pc = "ping" => run[x].conn \in Conns
    PROVE  PressOf(run'[x], batch'[x], stop'[x]) /\ Elsewhere(x)
<1>1. PressOf(run[x], batch[x], stop[x])
  BY DEF Presses
<1>2. ASSUME Onward(x), Elsewhere(x)
      PROVE  PressOf(run'[x], batch'[x], stop'[x]) /\ Elsewhere(x)
  BY <1>1, <1>2, OnwardPresses
<1>3. CASE Start(x)
  <2>1. PICK n : batch' = [batch EXCEPT ![x] = [left |-> n, extra |-> 0, answer |-> "none"]]
    BY <1>3 DEF Start
  <2>2. batch'[x].extra = 0
    BY <2>1 DEF TypeOK
  <2>3. Elsewhere(x)
    BY <1>3, <2>1 DEF Start, Elsewhere, TypeOK
  <2> QED BY <2>2, <2>3 DEF PressOf
<1>4. CASE NextStatement(x)
  <2>1. /\ Pending(x) /\ UNCHANGED batch /\ run[x].pc = "next"
        /\ \A y \in Calls \ {x} : run'[y] = run[y]
    BY <1>4 DEF NextStatement, TypeOK
  <2> QED BY <1>1, <1>2, <2>1, PendingPresses
<1>5. CASE StoppedBetween(x)
  BY <1>1, <1>2, <1>5, FinishPresses DEF StoppedBetween, Elsewhere
<1>6. ASSUME NEW c \in Conns, AcquireFresh(x, c) \/ FreshOpens(x, c)
      PROVE  PressOf(run'[x], batch'[x], stop'[x]) /\ Elsewhere(x)
  BY <1>1, <1>6, SendPresses DEF AcquireFresh, FreshOpens, Acquiring
<1>7. ASSUME NEW c \in Conns, AcquireQuiet(x, c) \/ AcquireStale(x, c)
      PROVE  PressOf(run'[x], batch'[x], stop'[x]) /\ Elsewhere(x)
  <2>1. /\ Pending(x) /\ UNCHANGED batch /\ run[x].pc = "acquire"
        /\ \A y \in Calls \ {x} : run'[y] = run[y]
    BY <1>7 DEF AcquireQuiet, AcquireStale, Acquiring, TypeOK
  <2> QED BY <1>1, <1>2, <2>1, PendingPresses
<1>8. ASSUME NEW con, ConnectOrRefuse(x, con), run[x].pc \in {"acquire", "ping"}
      PROVE  PressOf(run'[x], batch'[x], stop'[x]) /\ Elsewhere(x)
  <2>1. CASE Finish(x, "lost")
    BY <1>1, <1>2, <1>8, <2>1, FinishPresses DEF Elsewhere
  <2>2. CASE /\ Pending(x) /\ UNCHANGED batch
             /\ run' = [run EXCEPT ![x].pc = "fresh", ![x].conn = NoConn]
    <3>1. \A y \in Calls \ {x} : run'[y] = run[y]
      BY <2>2 DEF TypeOK
    <3> QED BY <1>1, <1>2, <1>8, <2>2, <3>1, PendingPresses
  <2> QED BY <1>8, <2>1, <2>2 DEF ConnectOrRefuse
<1>9. CASE AcquireNone(x)
  BY <1>8, <1>9 DEF AcquireNone, Acquiring
<1>10. CASE PingAnswers(x)
  BY <1>1, <1>10, SendPresses DEF PingAnswers
<1>11. CASE PingFails(x)
  <2>1. CASE IsConsole(x)
    BY <1>8, <1>11, <2>1 DEF PingFails
  <2>2. CASE ~IsConsole(x)
    <3>1. /\ Pending(x) /\ UNCHANGED batch /\ run[x].pc = "ping"
          /\ \A y \in Calls \ {x} : run'[y] = run[y]
      BY <1>11, <2>2 DEF PingFails, TypeOK
    <3> QED BY <1>1, <1>2, <3>1, PendingPresses
  <2> QED BY <2>1, <2>2
<1>12. CASE FreshFails(x)
  BY <1>1, <1>2, <1>12, FinishPresses DEF FreshFails, Elsewhere
<1> QED BY <1>3, <1>4, <1>5, <1>6, <1>7, <1>9, <1>10, <1>11, <1>12

LEMMA ReplyPresses ==
    ASSUME TypeOK, Presses, NEW x \in Calls,
           \/ SendAgain(x) \/ ReplyRead(x) \/ ReplyBroken(x)
           \/ CutStops(x) \/ CutDrains(x) \/ NoteAnswers(x)
    PROVE  PressOf(run'[x], batch'[x], stop'[x]) /\ Elsewhere(x)
<1>1. PressOf(run[x], batch[x], stop[x]) /\ run[x] \in Runs
  BY DEF Presses, TypeOK
<1>2. run[x].pc \in {"sent", "cut", "note"} /\ Polled(x)
  BY DEF SendAgain, ReplyRead, ReplyBroken, CutStops, CutDrains, NoteAnswers, Arrived, Breaks
<1>3. ASSUME NEW said, Finish(x, said)
      PROVE  Onward(x) /\ Elsewhere(x)
  BY <1>1, <1>2, <1>3, FinishPresses DEF Elsewhere
<1>4. ASSUME NEW con, NEW said, Conclude(x, con, said)
      PROVE  Onward(x) /\ Elsewhere(x)
  BY <1>3, <1>4 DEF Conclude
<1>5. ASSUME NEW said, NEW s, NEW state, SettleKept(x, s, state, said)
      PROVE  Onward(x) /\ Elsewhere(x)
  BY <1>4, <1>5 DEF SettleKept
<1>6. ASSUME NEW said, SettleClosed(x, said)
      PROVE  Onward(x) /\ Elsewhere(x)
  BY <1>4, <1>6 DEF SettleClosed
<1>7. ASSUME Pending(x), UNCHANGED batch, run'[x].pc \in {"sent", "cut", "note"},
             \A y \in Calls \ {x} : run'[y] = run[y]
      PROVE  Onward(x) /\ Elsewhere(x)
  BY <1>1, <1>2, <1>7, PendingPresses
<1>8. ASSUME NEW s, NEW ran, NoteOrSettle(x, s, ran)
      PROVE  Onward(x) /\ Elsewhere(x)
  <2>1. CASE SettleKept(x, s, console.state, ran)
    BY <1>5, <2>1
  <2>2. CASE /\ run' = [run EXCEPT ![x].pc = "note", ![x].token = NoConn, ![x].ran = ran]
             /\ Pending(x) /\ UNCHANGED batch
    <3>1. run'[x].pc = "note" /\ \A y \in Calls \ {x} : run'[y] = run[y]
      BY <1>1, <2>2 DEF TypeOK, Runs
    <3> QED BY <1>7, <2>2, <3>1
  <2> QED BY <1>8, <2>1, <2>2 DEF NoteOrSettle
<1>9. Onward(x) /\ Elsewhere(x)
  <2>1. CASE SendAgain(x) \/ CutStops(x)
    <3>1. /\ Pending(x) /\ UNCHANGED batch /\ run'[x].pc = run[x].pc
          /\ \A y \in Calls \ {x} : run'[y] = run[y]
      BY <1>1, <2>1 DEF SendAgain, CutStops, TypeOK, Runs
    <3> QED BY <1>2, <1>7, <3>1
  <2>2. CASE ReplyRead(x)
    <3>1. CASE sess[run[x].conn].phase = "capped"
      <4>1. /\ run' = [run EXCEPT ![x].pc = "cut", ![x].token = NoConn]
            /\ Pending(x) /\ UNCHANGED batch
        BY <2>2, <3>1 DEF ReplyRead
      <4>2. run'[x].pc = "cut" /\ \A y \in Calls \ {x} : run'[y] = run[y]
        BY <1>1, <4>1 DEF TypeOK, Runs
      <4> QED BY <1>7, <4>1, <4>2
    <3>2. CASE sess[run[x].conn].phase # "capped"
      BY <1>8, <2>2, <3>2 DEF ReplyRead
    <3> QED BY <3>1, <3>2
  <2>3. CASE ReplyBroken(x)
    BY <1>6, <2>3 DEF ReplyBroken
  <2>4. CASE CutDrains(x)
    BY <1>6, <1>8, <2>4 DEF CutDrains
  <2>5. CASE NoteAnswers(x)
    BY <1>5, <2>5 DEF NoteAnswers
  <2> QED BY <2>1, <2>2, <2>3, <2>4, <2>5
<1> QED BY <1>1, <1>9, OnwardPresses

LEMMA StopPresses ==
    ASSUME TypeOK, Presses, NEW x \in Calls,
           \/ Press(x) \/ StopFires(x) \/ CancelLands(x)
           \/ CancelGivenUp(x) \/ WindDownExpires(x),
           stop[x].ctl # "poll" => run[x].pc # "ready"
    PROVE  PressOf(run'[x], batch'[x], stop'[x]) /\ Elsewhere(x)
<1>1. PressOf(run[x], batch[x], stop[x]) /\ stop[x] \in Stops
  BY DEF Presses, TypeOK
<1>2. ASSUME Drop(x), run[x].pc # "ready"
      PROVE  Onward(x) /\ Elsewhere(x)
  BY <1>1, <1>2, FinishPresses DEF Drop, Elsewhere
<1>3. CASE Press(x)
  <2>1. /\ UNCHANGED <<run, batch>> /\ stop'[x].ctl = stop[x].ctl
        /\ stop'[x].pressed /\ ~stop[x].pressed
        /\ \A y \in Calls \ {x} : stop'[y] = stop[y]
    BY <1>1, <1>3 DEF Press, TypeOK, Stops
  <2> QED BY <1>1, <2>1 DEF PressOf, Elsewhere
<1>4. CASE StopFires(x)
  <2>1. CASE run[x].token = NoConn
    BY <1>1, <1>2, <1>4, <2>1, OnwardPresses DEF StopFires
  <2>2. CASE run[x].token # NoConn
    <3>1. /\ UNCHANGED <<run, batch>>
          /\ stop' = [stop EXCEPT ![x].ctl = "telling", ![x].aim = run[x].token]
          /\ run[x].pc # "ready"
      BY <1>4, <2>2 DEF StopFires
    <3>2. /\ stop'[x].ctl = "telling" /\ stop'[x].pressed = stop[x].pressed
          /\ \A y \in Calls \ {x} : stop'[y] = stop[y]
      BY <1>1, <3>1 DEF TypeOK, Stops
    <3> QED BY <1>1, <3>1, <3>2, OnwardPresses DEF PressOf, Elsewhere
  <2> QED BY <2>1, <2>2
<1>5. CASE CancelLands(x)
  <2>1. /\ UNCHANGED <<run, batch>> /\ stop'[x].ctl = "winding"
        /\ stop'[x].pressed = stop[x].pressed
        /\ \A y \in Calls \ {x} : stop'[y] = stop[y]
    BY <1>1, <1>5 DEF CancelLands, TypeOK, Stops
  <2> QED BY <1>1, <2>1 DEF PressOf, Elsewhere
<1>6. CASE CancelGivenUp(x) \/ WindDownExpires(x)
  BY <1>1, <1>2, <1>6, OnwardPresses DEF CancelGivenUp, WindDownExpires
<1> QED BY <1>3, <1>4, <1>5, <1>6

LEMMA PressesStep ==
    ASSUME TypeOK, Placement, Presses, Next
    PROVE  Presses'
<1>1. ASSUME NEW x \in Calls, CallStep(x)
      PROVE  Presses'
  <2>1. run[x].pc = "ping" => run[x].conn \in Conns
    BY RunFields DEF Placement
  <2>2. stop[x].ctl # "poll" => run[x].pc # "ready"
    BY DEF Placement, Stages, StageOf
  <2>3. PressOf(run'[x], batch'[x], stop'[x]) /\ Elsewhere(x)
    <3>1. CASE \/ Start(x) \/ NextStatement(x) \/ StoppedBetween(x)
               \/ \E c \in Conns : \/ AcquireFresh(x, c) \/ AcquireQuiet(x, c) \/ AcquireStale(x, c)
                                   \/ FreshOpens(x, c)
               \/ AcquireNone(x) \/ PingAnswers(x) \/ PingFails(x) \/ FreshFails(x)
      BY <2>1, <3>1, AcquirePresses
    <3>2. CASE \/ SendAgain(x) \/ ReplyRead(x) \/ ReplyBroken(x)
               \/ CutStops(x) \/ CutDrains(x) \/ NoteAnswers(x)
      BY <3>2, ReplyPresses
    <3>3. CASE \/ Press(x) \/ StopFires(x) \/ CancelLands(x)
               \/ CancelGivenUp(x) \/ WindDownExpires(x)
      BY <2>2, <3>3, StopPresses
    <3> QED BY <1>1, <3>1, <3>2, <3>3 DEF CallStep
  <2> QED BY <2>3 DEF Presses, Elsewhere
<1>2. ASSUME NEW c \in Conns, SessionStep(c)
      PROVE  Presses'
  BY <1>2 DEF SessionStep, Execute, Die, LateCancelLands, Presses
<1>3. CASE Close \/ Release
  BY <1>3 DEF Close, Release, Presses
<1> QED BY <1>1, <1>2, <1>3 DEF Next, Step

(***************************************************************************)
(* Once Stop is pressed, at most one more statement of the batch is sent:  *)
(* run_stoppable's select! may have begun it before it saw the press, and  *)
(* neither a wind-down nor a dropped future goes on to the next.           *)
(***************************************************************************)
THEOREM StopCorrect == Spec => []AtMostOneAfterStop
<1>1. Init => Presses
  <2> SUFFICES ASSUME Init, NEW x \in Calls PROVE PressOf(run[x], batch[x], stop[x])
    BY DEF Presses
  <2>1. batch[x] = [left |-> 0, extra |-> 0, answer |-> "none"]
    BY DEF Init
  <2> QED BY <2>1 DEF PressOf
<1>2. TypeOK /\ Placement /\ Presses /\ [Next]_vars => TypeOK' /\ Placement' /\ Presses'
  <2>1. CASE Next
    BY <2>1, TypeStep, PlacementStep, PressesStep DEF Placement
  <2>2. CASE UNCHANGED vars
    BY <2>2, Stuttering DEF vars, Presses
  <2> QED BY <2>1, <2>2
<1>3. Presses => AtMostOneAfterStop
  <2> SUFFICES ASSUME Presses, NEW x \in Calls PROVE batch[x].extra <= 1
    BY DEF AtMostOneAfterStop
  <2>1. batch[x].extra = 0 \/ batch[x].extra = 1
    BY DEF Presses, PressOf
  <2> QED BY <2>1
<1> QED BY <1>1, <1>2, <1>3, InitHolds, PTL DEF Spec

-----------------------------------------------------------------------------
(* What goes on in the sessions *)

(***************************************************************************)
(* The second inductive invariant, beside the places: a session that is    *)
(* not quiet is at the statement of a call that waits for it, only the     *)
(* editor's sessions are ever in a transaction, and a transaction goes     *)
(* with its connection.                                                    *)
(***************************************************************************)
WorkOf(x, c) ==
    /\ run[x].conn = c /\ run[x].pc \in {"sent", "cut"}
    /\ sess[c].phase = "asked" => run[x].pc = "sent"
    /\ sess[c].phase \in {"capped", "lookup"} => run[x].kind = "other"

Fits(x) ==
    /\ ~IsConsole(x) => run[x].kind = "other" /\ ~run[x].wasOpen
    /\ stop[x].ctl = "winding" => run[x].pc \in {"sent", "cut", "note"}
    /\ run[x].pc = "cut" => run[x].kind = "other"

Work ==
    /\ \A c \in Conns : sess[c].phase # "quiet" => \E x \in Calls : WorkOf(x, c)
    /\ \A c \in Conns : sess[c].txn # "Idle" =>
          /\ sess[c].link = "up"
          /\ console.slot = c \/ \E x \in Editors : run[x].conn = c
    /\ \A x \in Calls : Fits(x)
    /\ IsFiniteSet(idle) /\ Cardinality(idle) <= KEEP

\* Read of the connection c that x holds, or that is x's to take.
LEMMA WorkHere ==
    ASSUME TypeOK, Placement, Work, NEW x \in Calls, NEW c \in Conns
    PROVE  /\ run[x].conn = c =>
                /\ sess[c].phase # "quiet" => WorkOf(x, c)
                /\ sess[c].txn # "Idle" => sess[c].link = "up" /\ x \in Editors
           /\ c \in idle \/ console.slot = c => sess[c].phase = "quiet"
           /\ c \in idle => sess[c].txn = "Idle"
           /\ sess[c].link = "none" => sess[c].txn = "Idle"
<1>1. ASSUME run[x].conn = c
      PROVE  /\ \A y \in Calls : run[y].conn = c => y = x
             /\ console.slot # c
  BY <1>1 DEF Placement, OneHolder, HeldByRun
<1>2. ASSUME run[x].conn = c
      PROVE  /\ sess[c].phase # "quiet" => WorkOf(x, c)
             /\ sess[c].txn # "Idle" => sess[c].link = "up" /\ x \in Editors
  BY <1>1, <1>2, CallsAssumption DEF Work, WorkOf
<1>3. ASSUME c \in idle \/ console.slot = c
      PROVE  \A y \in Calls : run[y].conn # c
  BY <1>3 DEF Placement, OneHolder, HeldByRun
<1>4. c \in idle \/ console.slot = c => sess[c].phase = "quiet"
  BY <1>3 DEF Work, WorkOf
<1>5. c \in idle => sess[c].txn = "Idle"
  BY <1>3, CallsAssumption DEF Work, Placement, OneHolder
<1>6. sess[c].link = "none" => sess[c].txn = "Idle"
  BY DEF Work
<1> QED BY <1>2, <1>4, <1>5, <1>6

\* A step of x that touches connection c and no other.
Works(x, c) ==
    /\ Alone(x)
    /\ run[x].conn \in {NoConn, c}
    /\ \A d \in Conns \ {c} : sess'[d] = sess[d] /\ (console'.slot = d <=> console.slot = d)
    /\ IsFiniteSet(idle') /\ Cardinality(idle') <= KEEP
    /\ Fits(x)'
    /\ c \in Conns =>
         /\ c \in {run[x].conn} \cup Kept(x) \/ sess[c].link = "none"
         /\ sess'[c].phase # "quiet" => WorkOf(x, c)'
         /\ sess'[c].txn # "Idle" =>
              /\ sess'[c].link = "up"
              /\ console'.slot = c \/ (x \in Editors /\ run'[x].conn = c)

LEMMA WorksKeep ==
    ASSUME TypeOK, Placement, Work, NEW x \in Calls, NEW c, Works(x, c)
    PROVE  Work'
<1>1. /\ \A y \in Calls \ {x} : run'[y] = run[y] /\ stop'[y] = stop[y]
      /\ \A d \in Conns \ {c} : sess'[d] = sess[d] /\ (console'.slot = d <=> console.slot = d)
      /\ run[x].conn \in {NoConn, c}
  BY DEF Works, Alone
<1>2. ASSUME NEW d \in Conns \ {c}, sess'[d].phase # "quiet"
      PROVE  \E y \in Calls : WorkOf(y, d)'
  <2>1. PICK y \in Calls : WorkOf(y, d)
    BY <1>1, <1>2 DEF Work
  <2>2. y # x
    BY <1>1, <2>1, ConnAssumption DEF WorkOf
  <2>3. WorkOf(y, d)'
    BY <1>1, <2>1, <2>2 DEF WorkOf
  <2> QED BY <2>3
<1>3. ASSUME NEW d \in Conns \ {c}, sess'[d].txn # "Idle"
      PROVE  /\ sess'[d].link = "up"
             /\ console'.slot = d \/ \E y \in Editors : run'[y].conn = d
  <2>1. ASSUME NEW y \in Editors, run[y].conn = d
        PROVE  run'[y].conn = d
    BY <1>1, <2>1, CallsAssumption, ConnAssumption
  <2> QED BY <1>1, <1>3, <2>1 DEF Work
<1>4. \A d \in Conns : sess'[d].phase # "quiet" => \E y \in Calls : WorkOf(y, d)'
  BY <1>2 DEF Works
<1>5. \A d \in Conns : sess'[d].txn # "Idle" =>
        /\ sess'[d].link = "up"
        /\ console'.slot = d \/ \E y \in Editors : run'[y].conn = d
  BY <1>3 DEF Works
<1>6. \A y \in Calls : Fits(y)'
  BY <1>1 DEF Works, Work, Fits
<1>7. IsFiniteSet(idle') /\ Cardinality(idle') <= KEEP
  BY DEF Works
<1> QED BY <1>4, <1>5, <1>6, <1>7 DEF Work

\* The cache of idle connections stays within KEEP.
LEMMA IdleBound ==
    ASSUME Work, NEW c \in Conns
    PROVE  /\ IsFiniteSet(idle \ {c}) /\ Cardinality(idle \ {c}) <= KEEP
           /\ IsFiniteSet(IdleTakes(idle, c)) /\ Cardinality(IdleTakes(idle, c)) <= KEEP
<1>1. IsFiniteSet(idle) /\ Cardinality(idle) \in Nat /\ Cardinality(idle) <= KEEP
  BY FS_CardinalityType DEF Work
<1>2. IsFiniteSet(idle \ {c}) /\ Cardinality(idle \ {c}) <= Cardinality(idle)
  BY <1>1, FS_Subset
<1>3. Cardinality(idle \ {c}) \in Nat
  BY <1>2, FS_CardinalityType
<1>4. CASE Cardinality(idle) < KEEP
  <2>1. IdleTakes(idle, c) = idle \cup {c}
    BY <1>4 DEF IdleTakes
  <2>2. /\ IsFiniteSet(idle \cup {c})
        /\ Cardinality(idle \cup {c}) = Cardinality(idle)
             \/ Cardinality(idle \cup {c}) = Cardinality(idle) + 1
    BY <1>1, FS_AddElement
  <2> QED BY <1>1, <1>2, <1>3, <1>4, <2>1, <2>2, KeepAssumption
<1>5. CASE ~(Cardinality(idle) < KEEP)
  BY <1>1, <1>2, <1>3, <1>5, KeepAssumption DEF IdleTakes
<1> QED BY <1>4, <1>5

\* The end of a statement, whatever is answered.
LEMMA FinishFields ==
    ASSUME TypeOK, NEW x \in Calls, NEW said, Finish(x, said)
    PROVE  /\ Alone(x)
           /\ run'[x].pc \in {"ready", "next"} /\ run'[x].conn = NoConn
           /\ run'[x].kind = "other" /\ ~run'[x].wasOpen
           /\ stop'[x].ctl = "poll"
<1>1. run'[x] = NoRun \/ run'[x] = [NoRun EXCEPT !.pc = "next"]
  BY DEF Finish, TypeOK
<1>2. stop'[x].ctl = "poll"
  BY DEF Finish, TypeOK, Stops
<1> QED BY <1>1, <1>2, FinishStages DEF NoRun

LEMMA PendingFields ==
    ASSUME TypeOK, NEW x \in Calls, Pending(x)
    PROVE  /\ \A y \in Calls \ {x} : stop'[y] = stop[y]
           /\ stop'[x].ctl = stop[x].ctl \/ stop'[x].ctl = "noticed"
           /\ stop'[x].ctl = "winding" <=> stop[x].ctl = "winding"
BY DEF Pending, TypeOK, Stops

\* A call that ends its statement, and has nothing to do with c any more.
LEMMA EndWorks ==
    ASSUME TypeOK, Work, NEW x \in Calls, NEW c, NEW said, Finish(x, said),
           run[x].conn \in {NoConn, c}, c \in Conns => c = run[x].conn,
           IsFiniteSet(idle'), Cardinality(idle') <= KEEP,
           \A d \in Conns \ {c} : sess'[d] = sess[d] /\ (console'.slot = d <=> console.slot = d),
           c \in Conns => /\ sess'[c].phase = "quiet"
                          /\ sess'[c].txn # "Idle" => sess'[c].link = "up" /\ console'.slot = c
    PROVE  Works(x, c)
<1>1. /\ Alone(x) /\ run'[x].pc \in {"ready", "next"}
      /\ run'[x].kind = "other" /\ ~run'[x].wasOpen /\ stop'[x].ctl = "poll"
  BY FinishFields
<1> QED BY <1>1 DEF Works, Fits

\* A statement goes to c, whose session was quiet.
LEMMA SendWorks ==
    ASSUME TypeOK, Work, NEW x \in Calls, NEW c \in Conns, Send(x, c),
           NEW s \in ServerSessions, Set(c, Asked(s, x)),
           s.txn # "Idle" => s.link = "up" /\ x \in Editors,
           run[x].conn \in {NoConn, c}, c \in {run[x].conn} \cup Kept(x) \/ sess[c].link = "none",
           IsFiniteSet(idle'), Cardinality(idle') <= KEEP,
           \A d \in Conns \ {c} : console'.slot = d <=> console.slot = d
    PROVE  Works(x, c)
<1>1. /\ run'[x].pc = "sent" /\ run'[x].conn = c /\ run'[x].kind = run[x].kind
      /\ run'[x].wasOpen => IsConsole(x)
      /\ \A y \in Calls \ {x} : run'[y] = run[y]
  BY DEF Send, TypeOK, Runs
<1>2. Pending(x)
  BY DEF Send
<1>3. /\ sess'[c] = Asked(s, x) /\ \A d \in Conns \ {c} : sess'[d] = sess[d]
  BY DEF Set, TypeOK
<1>4. sess'[c].phase = "asked" /\ sess'[c].txn = s.txn /\ sess'[c].link = s.link
  BY <1>3 DEF Asked, ServerSessions
<1>5. Fits(x)'
  BY <1>1 DEF Work, Fits
<1>6. Alone(x)
  BY <1>1, <1>2, PendingFields DEF Alone
<1>7. WorkOf(x, c)'
  BY <1>1, <1>4 DEF WorkOf
<1> QED BY <1>1, <1>3, <1>4, <1>5, <1>6, <1>7 DEF Works

\* x goes on with the connection it has, or none; what it does there is up to s.
LEMMA StayWorks ==
    ASSUME TypeOK, Work, NEW x \in Calls, NEW c, c = run[x].conn,
           Alone(x), Fits(x)', UNCHANGED <<console, idle>>,
           \/ UNCHANGED sess /\ (c \in Conns /\ sess[c].phase # "quiet" => WorkOf(x, c)')
           \/ \E s : Set(c, s) /\ (s.phase # "quiet" => WorkOf(x, c)')
                     /\ (s.txn # "Idle" => sess[c].txn # "Idle" \/ (s.link = "up" /\ x \in Editors))
                     /\ s.link = sess[c].link,
           c \in Conns /\ sess[c].txn # "Idle" => sess[c].link = "up" /\ x \in Editors,
           c \in Conns => run'[x].conn = c
    PROVE  Works(x, c)
<1>1. IsFiniteSet(idle') /\ Cardinality(idle') <= KEEP
  BY DEF Work
<1>2. \A d \in Conns \ {c} : sess'[d] = sess[d]
  BY DEF Set, TypeOK
<1>3. c \in Conns =>
         /\ sess'[c].phase # "quiet" => WorkOf(x, c)'
         /\ sess'[c].txn # "Idle" => sess'[c].link = "up" /\ x \in Editors
  BY DEF Set, TypeOK
<1> QED BY <1>1, <1>2, <1>3 DEF Works

LEMMA StartWorks ==
    ASSUME TypeOK, Placement, Work, NEW x \in Calls,
           Start(x) \/ NextStatement(x) \/ StoppedBetween(x) \/ FreshFails(x)
    PROVE  Works(x, NoConn)
<1>1. /\ run[x].conn = NoConn /\ stop[x].ctl # "winding"
      /\ UNCHANGED <<sess, console, idle>>
  <2>1. run[x].pc \in {"ready", "next", "fresh"}
    BY DEF Start, NextStatement, StoppedBetween, FreshFails
  <2> QED BY <2>1 DEF Placement, Stages, StageOf, Work, Fits, Start, NextStatement, StoppedBetween, FreshFails
<1>2. IsFiniteSet(idle') /\ Cardinality(idle') <= KEEP
  BY <1>1 DEF Work
<1>3. CASE Start(x)
  <2>1. run' = [run EXCEPT ![x] = [NoRun EXCEPT !.pc = "next"]] /\ stop' = [stop EXCEPT ![x] = NoStop]
    BY <1>3 DEF Start
  <2>2. run'[x] = [NoRun EXCEPT !.pc = "next"] /\ stop'[x] = NoStop /\ Alone(x)
    BY <2>1 DEF TypeOK, Alone
  <2> QED BY <1>1, <1>2, <2>2, ConnAssumption DEF Works, Fits, NoRun, NoStop
<1>4. CASE NextStatement(x)
  <2>1. PICK kind : /\ run' = [run EXCEPT ![x] = [NoRun EXCEPT !.pc = "acquire", !.kind = kind]]
                    /\ ~IsConsole(x) => kind = "other"
    BY <1>4 DEF NextStatement, IsConsole
  <2>2. /\ run'[x] = [NoRun EXCEPT !.pc = "acquire", !.kind = kind]
        /\ \A y \in Calls \ {x} : run'[y] = run[y]
    BY <2>1 DEF TypeOK
  <2>3. Pending(x)
    BY <1>4 DEF NextStatement
  <2>4. run'[x].pc = "acquire" /\ run'[x].kind = kind /\ ~run'[x].wasOpen
    BY <2>2 DEF NoRun
  <2>5. Alone(x)
    BY <2>2, <2>3, PendingFields DEF Alone
  <2>6. Fits(x)'
    BY <1>1, <2>1, <2>3, <2>4, PendingFields DEF Fits, IsConsole
  <2> QED BY <1>1, <1>2, <2>5, <2>6, ConnAssumption DEF Works
<1>5. CASE StoppedBetween(x) \/ FreshFails(x)
  <2>1. \E said : Finish(x, said)
    BY <1>5 DEF StoppedBetween, FreshFails
  <2> QED BY <1>1, <1>2, <2>1, EndWorks, ConnAssumption
<1> QED BY <1>3, <1>4, <1>5

LEMMA AcquireWorks ==
    ASSUME TypeOK, Placement, Work, NEW x \in Calls, NEW c \in Conns,
           AcquireFresh(x, c) \/ AcquireQuiet(x, c) \/ AcquireStale(x, c)
    PROVE  Works(x, c)
<1>1. /\ run[x].pc = "acquire" /\ run[x].conn = NoConn /\ c \in Kept(x)
      /\ stop[x].ctl # "winding"
  BY DEF AcquireFresh, AcquireQuiet, AcquireStale, Acquiring, Kept, Placement, Stages, StageOf, Work, Fits
<1>2. /\ sess[c] \in ServerSessions
      /\ sess[c].phase = "quiet"
      /\ sess[c].txn # "Idle" => sess[c].link = "up" /\ x \in Editors
  <2>1. c \in idle \/ (x \in Editors /\ console.slot = c)
    BY <1>1 DEF Kept, IsConsole
  <2> QED BY <2>1, WorkHere DEF TypeOK, Work
<1>3. /\ IsFiniteSet(idle') /\ Cardinality(idle') <= KEEP
  BY IdleBound DEF AcquireFresh, AcquireQuiet, AcquireStale
<1>4. \A d \in Conns \ {c} : console'.slot = d <=> console.slot = d
  <2>1. IsConsole(x) => console.slot = c
    BY <1>1 DEF Kept
  <2> QED BY <2>1, ConnAssumption DEF AcquireFresh, AcquireQuiet, AcquireStale, TypeOK, Consoles
<1>5. CASE AcquireFresh(x, c)
  <2>1. Send(x, c) /\ Set(c, Asked(sess[c], x))
    BY <1>5 DEF AcquireFresh
  <2> QED BY <1>1, <1>2, <1>3, <1>4, <2>1, SendWorks
<1>6. CASE AcquireQuiet(x, c)
  <2>1. /\ run' = [run EXCEPT ![x].pc = "ping", ![x].conn = c] /\ Pending(x) /\ sess' = sess
    BY <1>6 DEF AcquireQuiet
  <2>2. /\ run'[x].pc = "ping" /\ run'[x].conn = c /\ run'[x].kind = run[x].kind
        /\ run'[x].wasOpen = run[x].wasOpen /\ \A y \in Calls \ {x} : run'[y] = run[y]
    BY <2>1 DEF TypeOK, Runs
  <2>3. Alone(x) /\ Fits(x)'
    BY <1>1, <2>1, <2>2, PendingFields DEF Alone, Fits, Work
  <2> QED BY <1>1, <1>2, <1>3, <1>4, <2>1, <2>2, <2>3 DEF Works
<1>7. CASE AcquireStale(x, c)
  <2>1. run' = run /\ Pending(x) /\ sess' = [sess EXCEPT ![c] = Gone]
    BY <1>7 DEF AcquireStale, Set
  <2>2. /\ sess'[c] = Gone /\ \A d \in Conns \ {c} : sess'[d] = sess[d]
    BY <2>1 DEF TypeOK
  <2>3. Alone(x) /\ Fits(x)'
    BY <1>1, <2>1, PendingFields DEF Alone, Fits, Work
  <2> QED BY <1>1, <1>3, <1>4, <2>1, <2>2, <2>3 DEF Works, Gone
<1> QED BY <1>5, <1>6, <1>7

LEMMA ConnectWorks ==
    ASSUME TypeOK, Placement, Work, NEW x \in Calls,
           \/ AcquireNone(x) \/ PingAnswers(x) \/ PingFails(x)
           \/ \E c \in Conns : FreshOpens(x, c)
    PROVE  \E c : Works(x, c)
<1>0. PICK c : c = run[x].conn
  OBVIOUS
<1>1. ASSUME NEW con, ConnectOrRefuse(x, con), con.slot = console.slot,
             run[x].pc \in {"acquire", "ping"}, UNCHANGED idle,
             c = NoConn => sess' = sess,
             c \in Conns => Set(c, Gone),
             con \in Consoles
      PROVE  Works(x, c)
  <2>1. /\ IsFiniteSet(idle') /\ Cardinality(idle') <= KEEP
    BY <1>1 DEF Work
  <2>2. /\ c \in Conns \cup {NoConn} /\ stop[x].ctl # "winding"
    BY <1>0, <1>1, RunFields DEF Placement, Runs, Work, Fits
  <2>3. /\ \A d \in Conns \ {c} : sess'[d] = sess[d]
        /\ c \in Conns => sess'[c] = Gone
    BY <1>1, <2>2, ConnAssumption DEF Set, TypeOK
  <2>4. console'.slot = console.slot
    BY <1>1 DEF ConnectOrRefuse, Consoles
  <2>5. CASE Finish(x, "lost")
    BY <1>0, <2>1, <2>2, <2>3, <2>4, <2>5, EndWorks DEF Gone
  <2>6. CASE run' = [run EXCEPT ![x].pc = "fresh", ![x].conn = NoConn] /\ Pending(x)
    <3>1. /\ run'[x].pc = "fresh" /\ run'[x].conn = NoConn /\ run'[x].kind = run[x].kind
          /\ run'[x].wasOpen = run[x].wasOpen /\ \A y \in Calls \ {x} : run'[y] = run[y]
      BY <2>6 DEF TypeOK, Runs
    <3>2. Alone(x) /\ Fits(x)'
      BY <2>2, <2>6, <3>1, PendingFields DEF Alone, Fits, Work
    <3> QED BY <1>0, <2>1, <2>2, <2>3, <2>4, <3>1, <3>2 DEF Works, Gone
  <2> QED BY <1>1, <2>5, <2>6 DEF ConnectOrRefuse
<1>2. CASE AcquireNone(x)
  <2>1. /\ ConnectOrRefuse(x, console) /\ run[x].pc = "acquire" /\ UNCHANGED <<sess, idle>>
    BY <1>2 DEF AcquireNone, Acquiring
  <2>2. c = NoConn
    BY <1>0, <2>1 DEF Placement, Stages, StageOf
  <2> QED BY <1>1, <2>1, <2>2, ConnAssumption DEF TypeOK
<1>3. CASE PingAnswers(x)
  <2>1. /\ Send(x, c) /\ Set(c, Asked(sess[c], x)) /\ UNCHANGED <<console, idle>>
        /\ run[x].pc = "ping"
    BY <1>0, <1>3 DEF PingAnswers
  <2>2. c \in Conns /\ sess[c] \in ServerSessions
    BY <1>0, <2>1, RunFields DEF Placement
  <2>3. sess[c].txn # "Idle" => sess[c].link = "up" /\ x \in Editors
    BY <1>0, <2>2, WorkHere
  <2>4. Works(x, c)
    BY <1>0, <2>1, <2>2, <2>3, SendWorks DEF Work
  <2> QED BY <2>4
<1>4. CASE PingFails(x)
  <2>1. /\ Set(c, Gone) /\ UNCHANGED idle /\ run[x].pc = "ping"
    BY <1>0, <1>4 DEF PingFails
  <2>2. c \in Conns /\ c # NoConn
    BY <1>0, <2>1, RunFields, ConnAssumption DEF Placement
  <2>3. CASE IsConsole(x)
    <3>1. ConnectOrRefuse(x, ConsoleGone(console))
      BY <1>4, <2>3 DEF PingFails
    <3>2. ConsoleGone(console).slot = console.slot /\ ConsoleGone(console) \in Consoles
      BY DEF ConsoleGone, TypeOK, Consoles, TransactionState
    <3> QED BY <1>1, <2>1, <2>2, <3>1, <3>2
  <2>4. CASE ~IsConsole(x)
    <3>1. /\ run' = [run EXCEPT ![x].pc = "acquire", ![x].conn = NoConn]
          /\ Pending(x) /\ console' = console
      BY <1>4, <2>4 DEF PingFails
    <3>2. /\ run'[x].pc = "acquire" /\ run'[x].conn = NoConn /\ run'[x].kind = run[x].kind
          /\ run'[x].wasOpen = run[x].wasOpen /\ \A y \in Calls \ {x} : run'[y] = run[y]
      BY <3>1 DEF TypeOK, Runs
    <3>3. Alone(x) /\ Fits(x)'
      BY <2>1, <3>1, <3>2, PendingFields DEF Alone, Fits, Work
    <3>4. sess'[c] = Gone /\ \A d \in Conns \ {c} : sess'[d] = sess[d]
      BY <2>1, <2>2 DEF Set, TypeOK
    <3>5. Works(x, c)
      BY <1>0, <2>1, <3>1, <3>2, <3>3, <3>4 DEF Works, Gone, Work
    <3> QED BY <3>5
  <2> QED BY <2>3, <2>4
<1>5. ASSUME NEW d \in Conns, FreshOpens(x, d)
      PROVE  Works(x, d)
  <2>1. /\ Send(x, d) /\ Set(d, Asked(Opened, x)) /\ UNCHANGED <<console, idle>>
        /\ run[x].pc = "fresh" /\ sess[d].link = "none"
    BY <1>5 DEF FreshOpens
  <2>2. run[x].conn = NoConn
    BY <2>1 DEF Placement, Stages, StageOf
  <2>3. Opened \in ServerSessions /\ Opened.txn = "Idle"
    BY DEF Opened, Gone, ServerSessions, TransactionState, Phases
  <2> QED BY <2>1, <2>2, <2>3, SendWorks DEF Work
<1> QED BY <1>2, <1>3, <1>4, <1>5

\* A reply read to its end leaves the session quiet; it is kept or closed.
LEMMA SettleWorks ==
    ASSUME TypeOK, Placement, Work, NEW x \in Calls, run[x].pc \in {"sent", "cut", "note"},
           NEW said, NEW c, c = run[x].conn
    PROVE  /\ \A s \in ServerSessions : \A state :
                /\ s.phase = "quiet"
                /\ s.txn # "Idle" => s.link = "up" /\ x \in Editors
                /\ SettleKept(x, s, state, said)
                => Works(x, c)
           /\ SettleClosed(x, said) => Works(x, c)
<1>1. /\ c \in Conns /\ c # NoConn /\ c \notin idle /\ console.slot # c
  BY HeldPlaces, RunFields, ConnAssumption DEF Placement
<1>2. /\ IsFiniteSet(idle) /\ Cardinality(idle) <= KEEP
      /\ IsFiniteSet(IdleTakes(idle, c)) /\ Cardinality(IdleTakes(idle, c)) <= KEEP
  BY <1>1, IdleBound DEF Work
<1>3. ASSUME NEW s \in ServerSessions, s.phase = "quiet", NEW state,
             s.txn # "Idle" => s.link = "up" /\ x \in Editors,
             SettleKept(x, s, state, said)
      PROVE  Works(x, c)
  <2> DEFINE seen == [console EXCEPT !.state = state]
             con == ConsoleTakes(seen, c)
             keeps == IF IsConsole(x) THEN con.slot = c ELSE c \in IdleTakes(idle, c)
  <2>1. /\ Set(c, IF keeps THEN s ELSE Gone)
        /\ idle' = IF IsConsole(x) THEN idle ELSE IdleTakes(idle, c)
        /\ Conclude(x, IF IsConsole(x) THEN con ELSE console, said)
    BY <1>3 DEF SettleKept
  <2>2. \E a : Finish(x, a)
    BY <2>1 DEF Conclude
  <2>3. console'.slot = IF IsConsole(x) THEN con.slot ELSE console.slot
    BY <2>1, ConsoleOps, <1>1 DEF Conclude, TypeOK, Consoles, ConsoleTakes
  <2>4. con.slot = IF console.slot = NoConn THEN c ELSE console.slot
    BY DEF ConsoleTakes, TypeOK, Consoles
  <2>5. /\ sess'[c] = IF keeps THEN s ELSE Gone
        /\ \A d \in Conns \ {c} : sess'[d] = sess[d]
    BY <1>1, <2>1 DEF TypeOK, Set
  <2>6. \A d \in Conns \ {c} : console'.slot = d <=> console.slot = d
    BY <2>3, <2>4, ConnAssumption
  <2>7. IsFiniteSet(idle') /\ Cardinality(idle') <= KEEP
    BY <1>2, <2>1
  <2>8. /\ sess'[c].phase = "quiet"
        /\ sess'[c].txn # "Idle" => sess'[c].link = "up" /\ console'.slot = c
    <3>1. x \in Editors /\ keeps => console'.slot = c
      BY <2>3 DEF IsConsole
    <3> HIDE DEF keeps
    <3> QED BY <1>3, <2>5, <3>1 DEF Gone
  <2> QED BY <1>1, <2>2, <2>5, <2>6, <2>7, <2>8, EndWorks
<1>4. ASSUME SettleClosed(x, said) PROVE Works(x, c)
  <2>1. /\ sess' = [sess EXCEPT ![c] = Gone] /\ UNCHANGED idle
    BY <1>4 DEF SettleClosed, Set
  <2>2. PICK con : con.slot = console.slot /\ con \in Consoles /\ Conclude(x, con, said)
    BY <1>4 DEF SettleClosed, ConsoleGone, TypeOK, Consoles, TransactionState
  <2>3. console'.slot = console.slot /\ \E a : Finish(x, a)
    BY <2>2 DEF Conclude, Consoles
  <2>4. sess'[c] = Gone /\ \A d \in Conns \ {c} : sess'[d] = sess[d]
    BY <1>1, <2>1 DEF TypeOK
  <2> QED BY <1>1, <1>2, <2>1, <2>3, <2>4, EndWorks DEF Gone
<1> QED BY <1>3, <1>4

LEMMA NoteWorks ==
    ASSUME TypeOK, Placement, Work, NEW x \in Calls, run[x].pc \in {"sent", "cut"},
           NEW c, c = run[x].conn, NEW ran, NoteOrSettle(x, Answered(sess[c]), ran)
    PROVE  Works(x, c)
<1>1. c \in Conns /\ sess[c] \in ServerSessions
  BY RunFields DEF Placement
<1>2. /\ Answered(sess[c]) \in ServerSessions
      /\ Answered(sess[c]).phase = "quiet"
      /\ Answered(sess[c]).link = sess[c].link /\ Answered(sess[c]).txn = sess[c].txn
  BY <1>1, SessionOps DEF Answered, ServerSessions
<1>3. sess[c].txn # "Idle" => sess[c].link = "up" /\ x \in Editors
  BY <1>1, WorkHere
<1>4. CASE SettleKept(x, Answered(sess[c]), console.state, ran)
  BY <1>2, <1>3, <1>4, SettleWorks
<1>5. CASE /\ run' = [run EXCEPT ![x].pc = "note", ![x].token = NoConn, ![x].ran = ran]
           /\ Pending(x) /\ Set(c, Answered(sess[c])) /\ UNCHANGED <<console, idle>>
  <2>1. /\ run'[x].pc = "note" /\ run'[x].conn = c /\ run'[x].kind = run[x].kind
        /\ run'[x].wasOpen = run[x].wasOpen /\ \A y \in Calls \ {x} : run'[y] = run[y]
    BY <1>5 DEF TypeOK, Runs
  <2>2. Alone(x)
    BY <1>5, <2>1, PendingFields DEF Alone
  <2>3. Fits(x)'
    BY <1>5, <2>1, PendingFields DEF Fits, Work, IsConsole
  <2> QED BY <1>2, <1>3, <1>5, <2>1, <2>2, <2>3, StayWorks, ZenonT(60)
<1> QED BY <1>4, <1>5 DEF NoteOrSettle

LEMMA ReplyWorks ==
    ASSUME TypeOK, Placement, Work, NEW x \in Calls,
           \/ SendAgain(x) \/ ReplyRead(x) \/ ReplyBroken(x)
           \/ CutStops(x) \/ CutDrains(x) \/ NoteAnswers(x)
    PROVE  Works(x, run[x].conn)
<1>0. PICK c : c = run[x].conn
  OBVIOUS
<1>1. run[x].pc \in {"sent", "cut", "note"}
  BY DEF SendAgain, ReplyRead, ReplyBroken, CutStops, CutDrains, NoteAnswers, Arrived
<1>2. c \in Conns /\ sess[c] \in ServerSessions
  BY <1>0, <1>1, RunFields DEF Placement
<1>3. /\ sess[c].phase # "quiet" => WorkOf(x, c)
      /\ sess[c].txn # "Idle" => sess[c].link = "up" /\ x \in Editors
  BY <1>0, <1>2, WorkHere
<1>4. Fits(x)
  BY DEF Work
<1>5. CASE SendAgain(x)
  <2>1. /\ run' = [run EXCEPT ![x].again = TRUE] /\ Pending(x)
        /\ Set(c, Asked(sess[c], x)) /\ UNCHANGED <<console, idle>> /\ run[x].pc = "sent"
    BY <1>0, <1>5 DEF SendAgain, Arrived
  <2>2. /\ run'[x].pc = "sent" /\ run'[x].conn = c /\ run'[x].kind = run[x].kind
        /\ run'[x].wasOpen = run[x].wasOpen /\ \A y \in Calls \ {x} : run'[y] = run[y]
    BY <1>0, <2>1 DEF TypeOK, Runs
  <2>3. Alone(x)
    BY <2>1, <2>2, PendingFields DEF Alone
  <2>4. Fits(x)'
    BY <1>4, <2>1, <2>2, PendingFields DEF Fits, IsConsole
  <2>5. /\ Asked(sess[c], x).phase = "asked" /\ Asked(sess[c], x).link = sess[c].link
        /\ Asked(sess[c], x).txn = sess[c].txn
    BY <1>2 DEF Asked, ServerSessions
  <2>6. sess'[c].phase = "asked"
    BY <1>2, <2>1, <2>5 DEF Set, TypeOK
  <2>7. WorkOf(x, c)'
    BY <2>2, <2>6 DEF WorkOf
  <2> QED BY <1>0, <1>3, <2>1, <2>2, <2>3, <2>4, <2>5, <2>7, StayWorks
<1>6. CASE ReplyRead(x)
  <2>1. CASE sess[c].phase = "capped"
    <3>1. /\ run' = [run EXCEPT ![x].pc = "cut", ![x].token = NoConn] /\ Pending(x)
          /\ UNCHANGED <<sess, console, idle>>
      BY <1>0, <1>6, <2>1 DEF ReplyRead
    <3>2. /\ run'[x].pc = "cut" /\ run'[x].conn = c /\ run'[x].kind = run[x].kind
          /\ run'[x].wasOpen = run[x].wasOpen /\ \A y \in Calls \ {x} : run'[y] = run[y]
      BY <1>0, <3>1 DEF TypeOK, Runs
    <3>3. run[x].kind = "other"
      BY <1>3, <2>1 DEF WorkOf
    <3>4. Alone(x)
      BY <3>1, <3>2, PendingFields DEF Alone
    <3>5. Fits(x)'
      BY <1>4, <3>1, <3>2, <3>3, PendingFields DEF Fits, IsConsole
    <3>6. WorkOf(x, c)'
      BY <2>1, <3>1, <3>2, <3>3 DEF WorkOf
    <3> QED BY <1>0, <1>3, <3>1, <3>2, <3>4, <3>5, <3>6, StayWorks
  <2>2. CASE sess[c].phase # "capped"
    <3>1. /\ NoteOrSettle(x, Answered(sess[c]), IF sess[c].phase = "ok" THEN "ok" ELSE "error")
          /\ run[x].pc = "sent"
      BY <1>0, <1>6, <2>2 DEF ReplyRead, Arrived
    <3> QED BY <1>0, <3>1, NoteWorks
  <2> QED BY <2>1, <2>2
<1>7. CASE ReplyBroken(x)
  BY <1>0, <1>1, <1>7, SettleWorks DEF ReplyBroken
<1>8. CASE CutStops(x)
  <2>1. /\ run' = run /\ Pending(x) /\ Set(c, Stopped(sess[c]))
        /\ UNCHANGED <<console, idle>> /\ run[x].pc = "cut" /\ sess[c].phase = "capped"
    BY <1>0, <1>8 DEF CutStops
  <2>2. Alone(x)
    BY <2>1, PendingFields DEF Alone
  <2>3. Fits(x)'
    BY <1>4, <2>1, PendingFields DEF Fits, IsConsole
  <2>4. /\ Stopped(sess[c]).phase \in {"error", "capped"}
        /\ Stopped(sess[c]).link = sess[c].link
        /\ Stopped(sess[c]).txn # "Idle" => sess[c].txn # "Idle"
    BY <1>2, <2>1 DEF Stopped, Reply, AfterError, ServerSessions
  <2>5. sess'[c] = Stopped(sess[c])
    BY <1>2, <2>1 DEF Set, TypeOK
  <2>6. WorkOf(x, c)'
    BY <1>0, <1>4, <2>1, <2>4, <2>5 DEF WorkOf, Fits
  <2> QED BY <1>0, <1>3, <2>1, <2>2, <2>3, <2>4, <2>6, StayWorks
<1>9. CASE CutDrains(x)
  <2>1. CASE NoteOrSettle(x, Answered(sess[run[x].conn]), "ok")
    BY <1>0, <1>9, <2>1, NoteWorks DEF CutDrains
  <2>2. CASE SettleClosed(x, "ok")
    BY <1>0, <1>1, <2>2, SettleWorks
  <2> QED BY <1>9, <2>1, <2>2 DEF CutDrains
<1>10. CASE NoteAnswers(x)
  <2>1. /\ SettleKept(x, sess[c], AskedState(sess[c]), run[x].ran) /\ run[x].pc = "note"
    BY <1>0, <1>10 DEF NoteAnswers
  <2>2. sess[c].phase = "quiet"
    BY <1>3, <2>1 DEF WorkOf
  <2> QED BY <1>0, <1>1, <1>2, <1>3, <2>1, <2>2, SettleWorks
<1> QED BY <1>0, <1>5, <1>6, <1>7, <1>8, <1>9, <1>10

LEMMA DropWorks ==
    ASSUME TypeOK, Placement, Work, NEW x \in Calls, Drop(x), UNCHANGED idle
    PROVE  Works(x, run[x].conn)
<1>1. PICK c : c = run[x].conn
  OBVIOUS
<1>2. c \in Conns \cup {NoConn} /\ IsFiniteSet(idle') /\ Cardinality(idle') <= KEEP
  BY <1>1, RunFields DEF Placement, Runs, Work
<1>3. console'.slot = console.slot /\ \E a : Finish(x, a)
  BY DEF Drop, ConsoleGone, TypeOK, Consoles
<1>4. /\ \A d \in Conns \ {c} : sess'[d] = sess[d]
      /\ c \in Conns => sess'[c] = Gone
  BY <1>1, <1>2, ConnAssumption DEF Drop, TypeOK
<1> QED BY <1>1, <1>2, <1>3, <1>4, EndWorks DEF Gone

LEMMA StopWorks ==
    ASSUME TypeOK, Placement, Work, NEW x \in Calls,
           \/ Press(x) \/ StopFires(x) \/ CancelLands(x)
           \/ CancelGivenUp(x) \/ WindDownExpires(x)
    PROVE  Works(x, run[x].conn)
<1>0. PICK c : c = run[x].conn
  OBVIOUS
<1>1. Fits(x) /\ stop[x] \in Stops
  BY DEF Work, TypeOK
<1>2. c \in Conns =>
        /\ sess[c] \in ServerSessions
        /\ sess[c].phase # "quiet" => WorkOf(x, c)
        /\ sess[c].txn # "Idle" => sess[c].link = "up" /\ x \in Editors
  BY <1>0, WorkHere DEF TypeOK
<1>3. CASE \/ Press(x)
           \/ StopFires(x) /\ run[x].token # NoConn
  <2>1. UNCHANGED <<sess, console, idle, run>>
    BY <1>3 DEF Press, StopFires
  <2>2. /\ \A y \in Calls \ {x} : stop'[y] = stop[y]
        /\ stop'[x].ctl = stop[x].ctl \/ stop'[x].ctl = "telling"
    <3>1. \/ stop' = [stop EXCEPT ![x].pressed = TRUE]
          \/ stop' = [stop EXCEPT ![x].ctl = "telling", ![x].aim = run[x].token]
      BY <1>3 DEF Press, StopFires
    <3> QED BY <1>1, <3>1 DEF TypeOK, Stops
  <2>3. Alone(x) /\ Fits(x)'
    BY <1>1, <2>1, <2>2 DEF Alone, Fits, IsConsole
  <2>4. WorkOf(x, c) => WorkOf(x, c)'
    BY <2>1 DEF WorkOf
  <2> QED BY <1>0, <1>2, <2>1, <2>3, <2>4, StayWorks
<1>4. CASE CancelLands(x)
  <2>1. run[x].pc = "sent" /\ stop[x].aim = c
    BY <1>0, <1>4 DEF CancelLands, Placement, Stages, StageOf
  <2>2. c \in Conns
    BY <1>0, <2>1, RunFields DEF Placement
  <2>3. /\ Set(c, Stopped(sess[c])) /\ UNCHANGED <<console, idle, run>>
        /\ stop' = [stop EXCEPT ![x].ctl = "winding"]
    BY <1>4, <2>1 DEF CancelLands
  <2>4. stop'[x].ctl = "winding" /\ \A y \in Calls \ {x} : stop'[y] = stop[y]
    BY <1>1, <2>3 DEF TypeOK, Stops
  <2>5. Alone(x) /\ Fits(x)'
    BY <1>1, <2>1, <2>3, <2>4 DEF Alone, Fits, IsConsole
  <2>6. /\ Stopped(sess[c]) = sess[c] \/ Stopped(sess[c]).phase = "error"
        /\ Stopped(sess[c]).link = sess[c].link
        /\ Stopped(sess[c]).txn # "Idle" => sess[c].txn # "Idle"
    BY <1>2, <2>2 DEF Stopped, Reply, AfterError, ServerSessions
  <2>7. sess'[c] = Stopped(sess[c])
    BY <2>2, <2>3 DEF Set, TypeOK
  <2>8. Stopped(sess[c]).phase # "quiet" => WorkOf(x, c)'
    BY <1>0, <1>2, <2>1, <2>2, <2>3, <2>6, <2>7 DEF WorkOf
  <2> QED BY <1>0, <1>2, <2>2, <2>3, <2>5, <2>6, <2>8, StayWorks
<1>5. CASE \/ CancelGivenUp(x) \/ WindDownExpires(x)
           \/ StopFires(x) /\ run[x].token = NoConn
  <2>1. Drop(x) /\ UNCHANGED idle
    BY <1>5 DEF CancelGivenUp, WindDownExpires, StopFires
  <2> QED BY <2>1, DropWorks
<1> QED BY <1>0, <1>3, <1>4, <1>5

LEMMA CallWork ==
    ASSUME TypeOK, Placement, Work, NEW x \in Calls, CallStep(x)
    PROVE  \E c : Works(x, c)
<1>1. CASE Start(x) \/ NextStatement(x) \/ StoppedBetween(x) \/ FreshFails(x)
  BY <1>1, StartWorks
<1>2. CASE \E c \in Conns : AcquireFresh(x, c) \/ AcquireQuiet(x, c) \/ AcquireStale(x, c)
  BY <1>2, AcquireWorks
<1>3. CASE \/ AcquireNone(x) \/ PingAnswers(x) \/ PingFails(x)
           \/ \E c \in Conns : FreshOpens(x, c)
  BY <1>3, ConnectWorks
<1>4. CASE \/ SendAgain(x) \/ ReplyRead(x) \/ ReplyBroken(x)
           \/ CutStops(x) \/ CutDrains(x) \/ NoteAnswers(x)
  BY <1>4, ReplyWorks
<1>5. CASE \/ Press(x) \/ StopFires(x) \/ CancelLands(x)
           \/ CancelGivenUp(x) \/ WindDownExpires(x)
  BY <1>5, StopWorks
<1> QED BY <1>1, <1>2, <1>3, <1>4, <1>5 DEF CallStep

LEMMA SessionWork ==
    ASSUME TypeOK, Placement, Work, NEW c \in Conns, SessionStep(c)
    PROVE  Work'
<1>1. /\ UNCHANGED <<console, idle, run>> /\ \A d \in Conns \ {c} : sess'[d] = sess[d]
      /\ \A x \in Calls : stop'[x] = stop[x]
  BY DEF SessionStep, Execute, Die, LateCancelLands, Set, TypeOK
<1>2. ASSUME /\ sess'[c].phase # "quiet" => \E x \in Calls : WorkOf(x, c)'
             /\ sess'[c].txn # "Idle" => /\ sess'[c].link = "up"
                                         /\ console.slot = c \/ \E x \in Editors : run[x].conn = c
      PROVE  Work'
  <2>1. \A d \in Conns \ {c} : sess'[d].phase # "quiet" => \E x \in Calls : WorkOf(x, d)'
    BY <1>1 DEF Work, WorkOf
  <2>2. \A d \in Conns \ {c} : sess'[d].txn # "Idle" =>
          /\ sess'[d].link = "up"
          /\ console.slot = d \/ \E x \in Editors : run[x].conn = d
    BY <1>1 DEF Work
  <2>3. \A x \in Calls : Fits(x)'
    BY <1>1 DEF Work, Fits, IsConsole
  <2> QED BY <1>1, <1>2, <2>1, <2>2, <2>3 DEF Work
<1>3. sess[c] \in ServerSessions
  BY DEF TypeOK
<1>4. CASE Execute(c)
  <2>1. PICK s \in Executed(sess[c], run[sess[c].by].kind) : Set(c, s)
    BY <1>4 DEF Execute
  <2>2. sess'[c] = s /\ sess[c].link = "up" /\ sess[c].phase = "asked"
    BY <1>4, <2>1 DEF Execute, Set, TypeOK
  <2>3. PICK x \in Calls : WorkOf(x, c)
    BY <2>2 DEF Work
  <2>4. run[x].pc = "sent" /\ run[x].conn = c
    BY <2>2, <2>3 DEF WorkOf
  <2>5. sess[c].by = x
    BY <2>4 DEF Placement, Aims
  <2>6. /\ s.link = "up" /\ s.phase # "asked"
        /\ s.phase \in {"capped", "lookup"} => run[x].kind = "other"
        /\ s.txn # "Idle" => sess[c].txn # "Idle" \/ run[x].kind = "begin"
    <3>1. run[x].kind \in Kinds
      BY DEF TypeOK, Runs
    <3> QED BY <1>3, <2>1, <2>2, <2>5, <3>1 DEF Executed, Reply, AfterError, ServerSessions, Kinds, TransactionState
  <2>7. WorkOf(x, c)'
    BY <1>1, <2>2, <2>4, <2>6 DEF WorkOf
  <2>8. s.txn # "Idle" => console.slot = c \/ \E y \in Editors : run[y].conn = c
    <3>1. run[x].kind = "begin" => x \in Editors
      BY DEF Work, Fits, IsConsole
    <3> QED BY <2>4, <2>6, <3>1 DEF Work
  <2> QED BY <1>2, <2>2, <2>6, <2>7, <2>8
<1>5. CASE Die(c)
  <2>1. sess'[c] = Ended(sess[c])
    BY <1>5 DEF Die, Set, TypeOK
  <2>2. sess'[c].txn = "Idle" /\ sess'[c].phase = sess[c].phase
    BY <1>3, <2>1 DEF Ended, ServerSessions
  <2>3. sess[c].phase # "quiet" => \E x \in Calls : WorkOf(x, c)
    BY DEF Work
  <2> QED BY <1>1, <1>2, <2>2, <2>3 DEF WorkOf
<1>6. CASE LateCancelLands(c)
  <2>1. sess'[c] = Stopped(sess[c]) /\ sess[c].link = "none"
    BY <1>6 DEF LateCancelLands, Set, TypeOK, Placement, Aims
  <2>2. sess'[c] = sess[c]
    BY <2>1 DEF Stopped
  <2>3. sess'[c].phase # "quiet" => \E x \in Calls : WorkOf(x, c)'
    <3> SUFFICES ASSUME sess'[c].phase # "quiet" PROVE \E x \in Calls : WorkOf(x, c)'
      OBVIOUS
    <3>1. PICK x \in Calls : WorkOf(x, c)
      BY <2>2 DEF Work
    <3>2. WorkOf(x, c)'
      BY <1>1, <2>2, <3>1 DEF WorkOf
    <3> QED BY <3>2
  <2>4. sess'[c].txn # "Idle" => /\ sess'[c].link = "up"
                                 /\ console.slot = c \/ \E x \in Editors : run[x].conn = c
    BY <2>2 DEF Work
  <2> QED BY <1>2, <2>3, <2>4
<1> QED BY <1>4, <1>5, <1>6 DEF SessionStep

LEMMA CloseWork ==
    ASSUME TypeOK, Placement, Work, Close \/ Release
    PROVE  Work'
<1>1. /\ sess' = [c \in Conns |-> IF c \in idle \cup {console.slot} THEN Gone ELSE sess[c]]
      /\ idle' = {} /\ console' = [console EXCEPT !.slot = NoConn]
      /\ UNCHANGED <<run, stop>>
  BY DEF Close, Release
<1>2. IsFiniteSet(idle') /\ Cardinality(idle') <= KEEP
  BY <1>1, FS_EmptySet, KeepAssumption
<1>3. \A x \in Calls : Fits(x)'
  BY <1>1 DEF Work, Fits, IsConsole
<1>4. ASSUME NEW c \in Conns
      PROVE  sess'[c] = Gone \/ (sess'[c] = sess[c] /\ console.slot # c)
  BY <1>1
<1>5. \A c \in Conns : sess'[c].phase # "quiet" => \E x \in Calls : WorkOf(x, c)'
  BY <1>1, <1>4 DEF Gone, Work, WorkOf
<1>6. \A c \in Conns : sess'[c].txn # "Idle" =>
        /\ sess'[c].link = "up"
        /\ console'.slot = c \/ \E x \in Editors : run'[x].conn = c
  BY <1>1, <1>4 DEF Gone, Work
<1> QED BY <1>2, <1>3, <1>5, <1>6 DEF Work

LEMMA WorkStep ==
    ASSUME TypeOK, Placement, Work, Next
    PROVE  Work'
BY CallWork, WorksKeep, SessionWork, CloseWork DEF Next, Step

LEMMA WorkInit == Init => Work
<1> SUFFICES ASSUME Init PROVE Work
  OBVIOUS
<1>1. IsFiniteSet(idle) /\ Cardinality(idle) <= KEEP
  BY FS_EmptySet, KeepAssumption DEF Init
<1>2. \A x \in Calls : Fits(x)
  BY DEF Init, Fits, NoRun, NoStop
<1> QED BY <1>1, <1>2 DEF Init, Work, Gone

LEMMA WorkStutters == Work /\ UNCHANGED vars => Work'
BY DEF Work, WorkOf, Fits, IsConsole, vars

\* Types, places and work together: what every later proof starts from.
Settled == TypeOK /\ Placement /\ Work

LEMMA SettledStep ==
    ASSUME Settled, [Next]_vars
    PROVE  Settled'
BY TypeStep, PlacementStep, WorkStep, Stuttering, WorkStutters DEF Settled, Placement

LEMMA SettledAlways == Spec => []Settled
<1>1. Init => Settled
  BY InitHolds, WorkInit DEF Settled
<1> QED BY <1>1, SettledStep, PTL DEF Spec

(***************************************************************************)
(* A kept connection is ready for whoever takes it next: no statement runs *)
(* on it, no rows are left on it, a load's is in no transaction, and no    *)
(* more than KEEP wait (Sessions::acquire, Lease::settle).                 *)
(***************************************************************************)
THEOREM KeptCorrect == Spec => []KeptAreReady
<1>1. Settled => KeptAreReady
  <2> SUFFICES ASSUME TypeOK, Placement, Work PROVE KeptAreReady
    BY DEF Settled
  <2>1. \A c \in Conns : c \in idle \/ c = console.slot =>
          sess[c].phase = "quiet" /\ (c \in idle => sess[c].txn = "Idle")
    <3>1. ASSUME NEW c \in Conns, c \in idle \/ c = console.slot, NEW x \in Calls
          PROVE  run[x].conn # c
      BY <3>1 DEF Placement, OneHolder, HeldByRun
    <3> QED BY <3>1, CallsAssumption DEF Work, WorkOf, Placement, OneHolder
  <2> QED BY <2>1 DEF KeptAreReady, Work, TypeOK
<1> QED BY <1>1, SettledAlways, PTL

-----------------------------------------------------------------------------
(* One editor, and what its transaction bar knows *)

(***************************************************************************)
(* The third inductive invariant, for a connection with one editor at work *)
(* at a time.  A run that has gone past the console's slot has emptied it, *)
(* and no loss is waiting to be told; a console connection that waits, or  *)
(* is pinged, has the transaction that was last seen on it; a statement    *)
(* after which nothing is asked is in no transaction; and was_open says    *)
(* whether the statement was sent inside one.                              *)
(***************************************************************************)
OneEditor == \A x, y \in Editors : x = y

BarOf(x) ==
    /\ run[x].pc \in {"ping", "fresh", "sent", "cut", "note"} =>
         console.slot = NoConn /\ ~console.lost
    /\ run[x].pc = "ping" /\ sess[run[x].conn].link = "up" =>
         console.state = sess[run[x].conn].txn
    /\ run[x].pc \in {"sent", "cut"} /\ sess[run[x].conn].link = "up" =>
         NotesTransaction(console, run[x].kind) \/ sess[run[x].conn].txn = "Idle"
    /\ run[x].pc \in {"sent", "cut", "note"} =>
         (run[x].wasOpen <=> console.state # "Idle")

AtRest == (console.slot # NoConn => ~console.lost) /\ BarTellsTruth

Bars == AtRest /\ \A x \in Editors : BarOf(x)

\* A load leaves the console, and the sessions the editor has to do with, alone.
LEMMA LoadsLeave ==
    ASSUME Settled, NEW y \in Calls, y \notin Editors, CallStep(y)
    PROVE  /\ console' = console
           /\ \A x \in Calls \ {y} : run'[x] = run[x] /\ stop'[x] = stop[x]
           /\ console.slot # NoConn => sess'[console.slot] = sess[console.slot]
           /\ \A x \in Calls \ {y} : run[x].conn # NoConn => sess'[run[x].conn] = sess[run[x].conn]
<1> USE DEF Settled
<1>1. PICK c : Works(y, c)
  BY CallWork
<1>2. \A x \in Calls \ {y} : run'[x] = run[x] /\ stop'[x] = stop[x]
  BY <1>1 DEF Works, Alone
<1>3. ASSUME NEW d \in Conns, sess[d].link # "none", d \notin idle, run[y].conn # d
      PROVE  sess'[d] = sess[d]
  BY <1>1, <1>3 DEF Works, Kept, IsConsole
<1>4. console.slot # NoConn => sess'[console.slot] = sess[console.slot]
  <2> SUFFICES ASSUME console.slot # NoConn PROVE sess'[console.slot] = sess[console.slot]
    OBVIOUS
  <2>1. console.slot \in Conns
    BY DEF TypeOK, Consoles
  <2> QED BY <1>3, <2>1 DEF Placement, OneHolder, HeldByRun
<1>5. \A x \in Calls \ {y} : run[x].conn # NoConn => sess'[run[x].conn] = sess[run[x].conn]
  <2> SUFFICES ASSUME NEW x \in Calls \ {y}, run[x].conn # NoConn
               PROVE  sess'[run[x].conn] = sess[run[x].conn]
    OBVIOUS
  <2>1. /\ run[x].conn \in Conns /\ run[x].conn \notin idle
        /\ sess[run[x].conn].link # "none"
    BY HeldPlaces
  <2>2. run[y].conn # run[x].conn
    BY <2>1 DEF Placement, OneHolder, HeldByRun
  <2> QED BY <1>3, <2>1, <2>2
<1>6. console' = console
  <2>1. ~IsConsole(y) /\ ~run[y].wasOpen
    BY DEF IsConsole, Work, Fits
  <2>2. ASSUME NEW said, Conclude(y, console, said) PROVE console' = console
    <3>1. console' = [console EXCEPT !.lost = @ /\ ~FALSE]
      BY <2>1, <2>2 DEF Conclude
    <3> QED BY <3>1 DEF TypeOK, Consoles
  <2>3. ASSUME NEW s, NEW state, NEW said, SettleKept(y, s, state, said) PROVE console' = console
    BY <2>1, <2>2, <2>3 DEF SettleKept
  <2>4. ASSUME NEW said, SettleClosed(y, said) PROVE console' = console
    BY <2>1, <2>2, <2>4 DEF SettleClosed
  <2>5. ASSUME NEW s, NEW ran, NoteOrSettle(y, s, ran) PROVE console' = console
    BY <2>3, <2>5 DEF NoteOrSettle
  <2>6. ASSUME Drop(y) PROVE console' = console
    BY <2>1, <2>6 DEF Drop
  <2>7. ASSUME ConnectOrRefuse(y, console) PROVE console' = console
    BY <2>1, <2>7 DEF ConnectOrRefuse
  <2>8. CASE \/ Start(y) \/ NextStatement(y) \/ StoppedBetween(y)
             \/ \E d \in Conns : AcquireFresh(y, d) \/ AcquireQuiet(y, d) \/ AcquireStale(y, d)
             \/ PingAnswers(y) \/ FreshFails(y) \/ SendAgain(y) \/ CutStops(y)
             \/ \E d \in Conns : FreshOpens(y, d)
             \/ Press(y) \/ CancelLands(y)
    BY <2>1, <2>8 DEF Start, NextStatement, StoppedBetween, AcquireFresh, AcquireQuiet, AcquireStale,
         PingAnswers, FreshFails, SendAgain, CutStops, FreshOpens, Press, CancelLands
  <2>9. CASE AcquireNone(y) \/ PingFails(y)
    BY <2>1, <2>7, <2>9 DEF AcquireNone, PingFails
  <2>10. CASE ReplyRead(y) \/ ReplyBroken(y) \/ CutDrains(y) \/ NoteAnswers(y)
    BY <2>3, <2>4, <2>5, <2>10 DEF ReplyRead, ReplyBroken, CutDrains, NoteAnswers
  <2>11. CASE StopFires(y) \/ CancelGivenUp(y) \/ WindDownExpires(y)
    BY <2>6, <2>11 DEF StopFires, CancelGivenUp, WindDownExpires
  <2> QED BY <2>8, <2>9, <2>10, <2>11 DEF CallStep
<1> QED BY <1>2, <1>4, <1>5, <1>6

-----------------------------------------------------------------------------
(* The steps of the editor *)

\* A statement ends, and con is left behind.
LEMMA ConcludeBar ==
    ASSUME TypeOK, NEW x \in Editors, NEW con \in Consoles, NEW said, Conclude(x, con, said),
           con.slot # NoConn => ~con.lost,
           con.slot # NoConn /\ sess'[con.slot].link = "up" => con.state = sess'[con.slot].txn
    PROVE  AtRest' /\ BarOf(x)'
<1>1. x \in Calls
  BY CallsAssumption
<1>2. run'[x].pc \in {"ready", "next"}
  BY <1>1, FinishFields DEF Conclude
<1>3. /\ console'.slot = con.slot /\ console'.state = con.state
      /\ console'.lost => con.lost
  BY DEF Conclude, Consoles
<1> QED BY <1>2, <1>3 DEF AtRest, BarTellsTruth, BarOf

LEMMA SettleBar ==
    ASSUME Settled, Bars, NEW x \in Editors, run[x].pc \in {"sent", "cut", "note"},
           NEW said, NEW c, c = run[x].conn
    PROVE  /\ \A s \in ServerSessions, state \in TransactionState :
                /\ s.link = "up" => state = s.txn
                /\ SettleKept(x, s, state, said)
                => AtRest' /\ BarOf(x)'
           /\ SettleClosed(x, said) => AtRest' /\ BarOf(x)'
<1>0. TypeOK /\ Placement /\ x \in Calls /\ IsConsole(x)
  BY CallsAssumption DEF Settled, IsConsole
<1>1. c \in Conns /\ c # NoConn /\ console.slot = NoConn /\ ~console.lost /\ console \in Consoles
  BY <1>0, RunFields, ConnAssumption DEF Placement, Bars, BarOf, TypeOK
<1>2. ASSUME NEW s \in ServerSessions, NEW state \in TransactionState,
             s.link = "up" => state = s.txn, SettleKept(x, s, state, said)
      PROVE  AtRest' /\ BarOf(x)'
  <2> DEFINE con == ConsoleTakes([console EXCEPT !.state = state], c)
  <2>1. con \in Consoles /\ con.slot = c /\ con.state = state /\ ~con.lost
    BY <1>1 DEF ConsoleTakes, Consoles
  <2>2. Set(c, s) /\ Conclude(x, con, said)
    BY <1>0, <1>2, <2>1 DEF SettleKept
  <2>3. sess'[c] = s
    BY <1>0, <1>1, <2>2 DEF Set, TypeOK
  <2> HIDE DEF con
  <2> QED BY <1>0, <1>2, <2>1, <2>2, <2>3, ConcludeBar
<1>3. ASSUME SettleClosed(x, said) PROVE AtRest' /\ BarOf(x)'
  <2>1. Conclude(x, ConsoleGone(console), said)
    BY <1>0, <1>3 DEF SettleClosed
  <2>2. ConsoleGone(console) \in Consoles /\ ConsoleGone(console).slot = NoConn
    BY <1>1 DEF ConsoleGone, Consoles, TransactionState
  <2> QED BY <1>0, <2>1, <2>2, ConcludeBar
<1> QED BY <1>2, <1>3

LEMMA NoteBar ==
    ASSUME Settled, Bars, NEW x \in Editors, run[x].pc \in {"sent", "cut"},
           NEW ran, NoteOrSettle(x, Answered(sess[run[x].conn]), ran)
    PROVE  AtRest' /\ BarOf(x)'
<1>0. TypeOK /\ Placement /\ x \in Calls /\ IsConsole(x)
  BY CallsAssumption DEF Settled, IsConsole
<1> DEFINE c == run[x].conn
<1>1. /\ c \in Conns /\ sess[c] \in ServerSessions /\ console.state \in TransactionState
      /\ BarOf(x) /\ AtRest
  BY <1>0, RunFields DEF Placement, TypeOK, Consoles, Bars
<1>2. CASE NotesTransaction(console, run[x].kind)
  <2>1. /\ run' = [run EXCEPT ![x].pc = "note", ![x].token = NoConn, ![x].ran = ran]
        /\ UNCHANGED console
    BY <1>0, <1>2 DEF NoteOrSettle
  <2>2. run'[x].pc = "note" /\ run'[x].wasOpen = run[x].wasOpen
    BY <1>0, <2>1 DEF TypeOK, Runs
  <2> QED BY <1>1, <2>1, <2>2 DEF BarOf, AtRest, BarTellsTruth
<1>3. CASE ~NotesTransaction(console, run[x].kind)
  <2>1. SettleKept(x, Answered(sess[c]), console.state, ran)
    BY <1>3 DEF NoteOrSettle
  <2>2. /\ Answered(sess[c]) \in ServerSessions
        /\ Answered(sess[c]).link = sess[c].link /\ Answered(sess[c]).txn = sess[c].txn
    BY <1>1, SessionOps DEF Answered, ServerSessions
  <2>3. console.state = "Idle" /\ (sess[c].link = "up" => sess[c].txn = "Idle")
    BY <1>1, <1>3 DEF NotesTransaction, BarOf
  <2> QED BY <1>1, <2>1, <2>2, <2>3, SettleBar
<1> QED BY <1>2, <1>3

\* A statement goes to c, whose transaction is what was last seen, or is none.
LEMMA SendBar ==
    ASSUME Settled, NEW x \in Editors, NEW c \in Conns, Send(x, c),
           NEW s \in ServerSessions, Set(c, Asked(s, x)),
           console' \in Consoles, console'.slot = NoConn, ~console'.lost,
           console'.state = console.state,
           s.link = "up" => console.state = s.txn \/ s.txn = "Idle"
    PROVE  AtRest' /\ BarOf(x)'
<1>0. TypeOK /\ x \in Calls /\ IsConsole(x)
  BY CallsAssumption DEF Settled, IsConsole
<1>1. /\ run'[x].pc = "sent" /\ run'[x].conn = c /\ run'[x].kind = run[x].kind
      /\ run'[x].wasOpen <=> console.state # "Idle"
  BY <1>0 DEF Send, TypeOK, Runs
<1>2. sess'[c] = Asked(s, x) /\ Asked(s, x).link = s.link /\ Asked(s, x).txn = s.txn
  BY <1>0 DEF Set, TypeOK, Asked, ServerSessions
<1>3. AtRest'
  BY DEF AtRest, BarTellsTruth
<1> QED BY <1>1, <1>2, <1>3 DEF BarOf, NotesTransaction

LEMMA ConnectBar ==
    ASSUME Settled, NEW x \in Editors, NEW con \in Consoles, con.slot = NoConn,
           ConnectOrRefuse(x, con)
    PROVE  AtRest' /\ BarOf(x)'
<1>0. TypeOK /\ x \in Calls /\ IsConsole(x)
  BY CallsAssumption DEF Settled, IsConsole
<1>1. CASE con.lost
  <2>1. Finish(x, "lost") /\ console' = [con EXCEPT !.lost = FALSE]
    BY <1>0, <1>1 DEF ConnectOrRefuse
  <2>2. run'[x].pc \in {"ready", "next"} /\ console'.slot = NoConn
    BY <1>0, <2>1, FinishFields DEF Consoles
  <2> QED BY <2>2 DEF AtRest, BarTellsTruth, BarOf
<1>2. CASE ~con.lost
  <2>1. /\ console' = con /\ run' = [run EXCEPT ![x].pc = "fresh", ![x].conn = NoConn]
    BY <1>2 DEF ConnectOrRefuse
  <2>2. run'[x].pc = "fresh"
    BY <1>0, <2>1 DEF TypeOK, Runs
  <2> QED BY <1>2, <2>1, <2>2 DEF AtRest, BarTellsTruth, BarOf
<1> QED BY <1>1, <1>2

LEMMA AcquireBar ==
    ASSUME Settled, Bars, NEW x \in Editors,
           \/ \E c \in Conns : AcquireFresh(x, c) \/ AcquireQuiet(x, c) \/ AcquireStale(x, c)
                               \/ FreshOpens(x, c)
           \/ AcquireNone(x) \/ PingAnswers(x) \/ PingFails(x)
    PROVE  AtRest' /\ BarOf(x)'
<1>0. TypeOK /\ Placement /\ x \in Calls /\ IsConsole(x) /\ console \in Consoles
  BY CallsAssumption DEF Settled, IsConsole, TypeOK
<1>1. AtRest /\ BarOf(x)
  BY DEF Bars
<1>2. ASSUME NEW c \in Conns, AcquireFresh(x, c) \/ AcquireQuiet(x, c)
      PROVE  AtRest' /\ BarOf(x)'
  <2>1. /\ console.slot = c /\ c # NoConn /\ ~console.lost
        /\ sess[c].link = "up" => console.state = sess[c].txn
    BY <1>0, <1>1, <1>2, ConnAssumption DEF AcquireFresh, AcquireQuiet, Kept, AtRest, BarTellsTruth
  <2>2. console' = [console EXCEPT !.slot = NoConn]
    BY <1>0, <1>2 DEF AcquireFresh, AcquireQuiet
  <2>3. /\ console' \in Consoles /\ console'.slot = NoConn /\ ~console'.lost
        /\ console'.state = console.state
    BY <1>0, <2>1, <2>2 DEF Consoles
  <2>4. sess[c] \in ServerSessions
    BY <1>0 DEF TypeOK
  <2>5. CASE AcquireFresh(x, c)
    BY <2>1, <2>3, <2>4, <2>5, SendBar DEF AcquireFresh
  <2>6. CASE AcquireQuiet(x, c)
    <3>1. run' = [run EXCEPT ![x].pc = "ping", ![x].conn = c] /\ sess' = sess
      BY <2>6 DEF AcquireQuiet
    <3>2. run'[x].pc = "ping" /\ run'[x].conn = c
      BY <1>0, <3>1 DEF TypeOK, Runs
    <3> QED BY <2>1, <2>3, <3>1, <3>2 DEF AtRest, BarTellsTruth, BarOf
  <2> QED BY <1>2, <2>5, <2>6
<1>3. ASSUME NEW c \in Conns, AcquireStale(x, c) PROVE FALSE
  BY <1>0, <1>3 DEF AcquireStale
<1>4. CASE AcquireNone(x)
  <2>1. console.slot = NoConn /\ ConnectOrRefuse(x, console)
    BY <1>0, <1>4 DEF AcquireNone, Kept
  <2> QED BY <1>0, <2>1, ConnectBar
<1>5. CASE PingAnswers(x)
  <2>1. /\ run[x].pc = "ping" /\ sess[run[x].conn].link = "up" /\ Send(x, run[x].conn)
        /\ Set(run[x].conn, Asked(sess[run[x].conn], x)) /\ UNCHANGED console
    BY <1>5 DEF PingAnswers
  <2>2. run[x].conn \in Conns /\ sess[run[x].conn] \in ServerSessions
    BY <1>0, <2>1, RunFields DEF Placement
  <2> QED BY <1>0, <1>1, <2>1, <2>2, SendBar DEF BarOf
<1>6. CASE PingFails(x)
  <2>1. ConnectOrRefuse(x, ConsoleGone(console)) /\ run[x].pc = "ping"
    BY <1>0, <1>6 DEF PingFails
  <2>2. ConsoleGone(console) \in Consoles /\ ConsoleGone(console).slot = NoConn
    BY <1>0, <1>1, <2>1 DEF ConsoleGone, Consoles, TransactionState, BarOf
  <2> QED BY <2>1, <2>2, ConnectBar
<1>7. ASSUME NEW c \in Conns, FreshOpens(x, c) PROVE AtRest' /\ BarOf(x)'
  <2>1. run[x].pc = "fresh" /\ Send(x, c) /\ Set(c, Asked(Opened, x)) /\ UNCHANGED console
    BY <1>7 DEF FreshOpens
  <2>2. Opened \in ServerSessions /\ Opened.txn = "Idle"
    BY DEF Opened, Gone, ServerSessions, TransactionState, Phases
  <2> QED BY <1>0, <1>1, <2>1, <2>2, SendBar DEF BarOf
<1> QED BY <1>2, <1>3, <1>4, <1>5, <1>6, <1>7

LEMMA ReplyBar ==
    ASSUME Settled, Bars, NEW x \in Editors,
           \/ SendAgain(x) \/ ReplyRead(x) \/ ReplyBroken(x)
           \/ CutStops(x) \/ CutDrains(x) \/ NoteAnswers(x)
    PROVE  AtRest' /\ BarOf(x)'
<1>0. TypeOK /\ Placement /\ x \in Calls /\ AtRest /\ BarOf(x)
  BY CallsAssumption DEF Settled, Bars
<1> DEFINE c == run[x].conn
<1>1. run[x].pc \in {"sent", "cut", "note"}
  BY DEF SendAgain, ReplyRead, ReplyBroken, CutStops, CutDrains, NoteAnswers, Arrived
<1>2. c \in Conns /\ sess[c] \in ServerSessions
  BY <1>0, <1>1, RunFields DEF Placement
<1>3. ASSUME NEW s \in ServerSessions, Set(c, s), UNCHANGED console, s.link = sess[c].link,
             sess[c].txn = "Idle" => s.txn = "Idle", run[x].pc \in {"sent", "cut"},
             run'[x].pc \in {"sent", "cut"}, run'[x].conn = c, run'[x].kind = run[x].kind,
             run'[x].wasOpen = run[x].wasOpen
      PROVE  AtRest' /\ BarOf(x)'
  <2>1. sess'[c] = s
    BY <1>0, <1>2, <1>3 DEF Set, TypeOK
  <2>2. console.slot = NoConn /\ ~console.lost
    BY <1>0, <1>3 DEF BarOf
  <2>3. AtRest'
    BY <1>3, <2>2 DEF AtRest, BarTellsTruth
  <2> QED BY <1>0, <1>3, <2>1, <2>2, <2>3 DEF BarOf, NotesTransaction
<1>4. CASE SendAgain(x)
  <2>1. /\ Set(c, Asked(sess[c], x)) /\ run' = [run EXCEPT ![x].again = TRUE]
        /\ UNCHANGED console /\ run[x].pc = "sent"
    BY <1>4 DEF SendAgain, Arrived
  <2>2. /\ Asked(sess[c], x) \in ServerSessions /\ Asked(sess[c], x).link = sess[c].link
        /\ Asked(sess[c], x).txn = sess[c].txn
    BY <1>0, <1>2, SessionOps DEF Asked, ServerSessions
  <2>3. /\ run'[x].pc = "sent" /\ run'[x].conn = c /\ run'[x].kind = run[x].kind
        /\ run'[x].wasOpen = run[x].wasOpen
    BY <1>0, <2>1 DEF TypeOK, Runs
  <2> QED BY <1>3, <2>1, <2>2, <2>3
<1>5. CASE ReplyRead(x)
  <2>1. CASE sess[c].phase = "capped"
    <3>1. /\ run' = [run EXCEPT ![x].pc = "cut", ![x].token = NoConn] /\ UNCHANGED <<sess, console>>
          /\ run[x].pc = "sent"
      BY <1>5, <2>1 DEF ReplyRead, Arrived
    <3>2. /\ run'[x].pc = "cut" /\ run'[x].conn = c /\ run'[x].kind = run[x].kind
          /\ run'[x].wasOpen = run[x].wasOpen
      BY <1>0, <3>1 DEF TypeOK, Runs
    <3>3. Set(c, sess[c])
      BY <1>0, <1>2, <3>1 DEF Set, TypeOK
    <3> QED BY <1>2, <1>3, <3>1, <3>2, <3>3
  <2>2. CASE sess[c].phase # "capped"
    BY <1>5, <2>2, NoteBar DEF ReplyRead, Arrived
  <2> QED BY <2>1, <2>2
<1>6. CASE ReplyBroken(x)
  BY <1>1, <1>6, SettleBar DEF ReplyBroken
<1>7. CASE CutStops(x)
  <2>1. Set(c, Stopped(sess[c])) /\ UNCHANGED <<run, console>> /\ run[x].pc = "cut"
    BY <1>7 DEF CutStops
  <2>2. /\ Stopped(sess[c]) \in ServerSessions /\ Stopped(sess[c]).link = sess[c].link
        /\ sess[c].txn = "Idle" => Stopped(sess[c]).txn = "Idle"
    BY <1>2, SessionOps DEF Stopped, Reply, AfterError, ServerSessions
  <2> QED BY <1>3, <2>1, <2>2
<1>8. CASE CutDrains(x)
  <2>1. run[x].pc = "cut"
    BY <1>8 DEF CutDrains
  <2>2. CASE NoteOrSettle(x, Answered(sess[c]), "ok")
    BY <2>1, <2>2, NoteBar
  <2>3. CASE SettleClosed(x, "ok")
    BY <1>1, <2>3, SettleBar
  <2> QED BY <1>8, <2>2, <2>3 DEF CutDrains
<1>9. CASE NoteAnswers(x)
  <2>1. SettleKept(x, sess[c], AskedState(sess[c]), run[x].ran)
    BY <1>9 DEF NoteAnswers
  <2>2. /\ AskedState(sess[c]) \in TransactionState
        /\ sess[c].link = "up" => AskedState(sess[c]) = sess[c].txn
    BY <1>2, SessionOps DEF AskedState
  <2> QED BY <1>1, <1>2, <2>1, <2>2, SettleBar
<1> QED BY <1>4, <1>5, <1>6, <1>7, <1>8, <1>9

LEMMA StopBar ==
    ASSUME Settled, Bars, NEW x \in Editors,
           \/ Start(x) \/ NextStatement(x) \/ StoppedBetween(x) \/ FreshFails(x)
           \/ Press(x) \/ StopFires(x) \/ CancelLands(x)
           \/ CancelGivenUp(x) \/ WindDownExpires(x)
    PROVE  AtRest' /\ BarOf(x)'
<1>0. TypeOK /\ Placement /\ x \in Calls /\ AtRest /\ BarOf(x) /\ console \in Consoles
  BY CallsAssumption DEF Settled, Bars, TypeOK
<1>1. CASE Press(x) \/ (StopFires(x) /\ run[x].token # NoConn)
  <2>1. UNCHANGED <<sess, console, run>>
    BY <1>1 DEF Press, StopFires
  <2> QED BY <1>0, <2>1 DEF AtRest, BarTellsTruth, BarOf, NotesTransaction
<1>2. CASE Start(x) \/ NextStatement(x) \/ StoppedBetween(x) \/ FreshFails(x)
  <2>1. run'[x].pc \in {"ready", "next", "acquire"}
    <3>1. CASE Start(x) \/ NextStatement(x)
      BY <1>0, <3>1, ZenonT(60) DEF Start, NextStatement, NoRun, TypeOK
    <3>2. CASE StoppedBetween(x) \/ FreshFails(x)
      BY <1>0, <3>2, FinishFields DEF StoppedBetween, FreshFails
    <3> QED BY <1>2, <3>1, <3>2
  <2>2. UNCHANGED <<sess, console>>
    BY <1>2 DEF Start, NextStatement, StoppedBetween, FreshFails
  <2> QED BY <1>0, <2>1, <2>2 DEF AtRest, BarTellsTruth, BarOf
<1>3. CASE CancelLands(x)
  <2>1. run[x].pc = "sent" /\ stop[x].aim = run[x].conn
    BY <1>0, <1>3 DEF CancelLands, Placement, Stages, StageOf
  <2>2. run[x].conn \in Conns /\ sess[run[x].conn] \in ServerSessions
    BY <1>0, <2>1, RunFields DEF Placement
  <2>3. sess'[run[x].conn] = Stopped(sess[run[x].conn]) /\ UNCHANGED <<run, console>>
    BY <1>0, <1>3, <2>1, <2>2 DEF CancelLands, Set, TypeOK
  <2>4. /\ Stopped(sess[run[x].conn]).link = sess[run[x].conn].link
        /\ sess[run[x].conn].txn = "Idle" => Stopped(sess[run[x].conn]).txn = "Idle"
    BY <2>2 DEF Stopped, Reply, AfterError, ServerSessions
  <2>5. console.slot = NoConn
    BY <1>0, <2>1 DEF BarOf
  <2> QED BY <1>0, <2>1, <2>3, <2>4, <2>5 DEF AtRest, BarTellsTruth, BarOf, NotesTransaction
<1>4. CASE \/ CancelGivenUp(x) \/ WindDownExpires(x)
           \/ StopFires(x) /\ run[x].token = NoConn
  <2>1. Drop(x)
    BY <1>4 DEF CancelGivenUp, WindDownExpires, StopFires
  <2>2. run'[x].pc \in {"ready", "next"}
    BY <1>0, <2>1, FinishFields DEF Drop
  <2>3. CASE Leased(x)
    <3>1. console.slot = NoConn
      BY <1>0, <2>3 DEF BarOf, Leased
    <3>2. console'.slot = NoConn
      BY <1>0, <2>1, <3>1 DEF Drop, ConsoleGone, Consoles
    <3> QED BY <2>2, <3>2 DEF AtRest, BarTellsTruth, BarOf
  <2>4. CASE ~Leased(x)
    <3>1. console' = console
      BY <2>1, <2>4 DEF Drop
    <3>2. console.slot # NoConn => sess'[console.slot] = sess[console.slot]
      <4> SUFFICES ASSUME console.slot # NoConn PROVE sess'[console.slot] = sess[console.slot]
        OBVIOUS
      <4>1. console.slot \in Conns
        BY <1>0 DEF Consoles
      <4>2. run[x].conn # console.slot
        BY <1>0, <4>1 DEF Placement, OneHolder, HeldByRun
      <4> QED BY <1>0, <2>1, <4>1, <4>2 DEF Drop, TypeOK
    <3> QED BY <1>0, <2>2, <3>1, <3>2 DEF AtRest, BarTellsTruth, BarOf
  <2> QED BY <2>3, <2>4
<1> QED BY <1>1, <1>2, <1>3, <1>4

LEMMA LoadsBar ==
    ASSUME Settled, Bars, NEW y \in Calls, y \notin Editors, CallStep(y)
    PROVE  Bars'
<1>1. /\ console' = console
      /\ \A x \in Editors : run'[x] = run[x]
      /\ console.slot # NoConn => sess'[console.slot] = sess[console.slot]
      /\ \A x \in Editors : run[x].conn # NoConn => sess'[run[x].conn] = sess[run[x].conn]
  BY LoadsLeave, CallsAssumption
<1>2. AtRest'
  BY <1>1 DEF Bars, AtRest, BarTellsTruth
<1>3. ASSUME NEW x \in Editors PROVE BarOf(x)'
  <2>1. x \in Calls /\ BarOf(x)
    BY CallsAssumption DEF Bars
  <2>2. run[x].pc \in {"ping", "sent", "cut", "note"} => run[x].conn # NoConn
    BY <2>1 DEF Settled, Placement, Stages, StageOf
  <2> QED BY <1>1, <2>1, <2>2 DEF BarOf, NotesTransaction
<1> QED BY <1>2, <1>3 DEF Bars

LEMMA SessionBar ==
    ASSUME Settled, Bars, NEW c \in Conns, SessionStep(c)
    PROVE  Bars'
<1> USE DEF Settled
<1>1. /\ UNCHANGED <<console, run>> /\ \A d \in Conns \ {c} : sess'[d] = sess[d]
  BY DEF SessionStep, Execute, Die, LateCancelLands, Set, TypeOK
<1>2. sess[c] \in ServerSessions /\ console.slot \in Conns \cup {NoConn}
  BY DEF TypeOK, Consoles
<1>3. CASE Execute(c)
  <2>1. PICK s \in Executed(sess[c], run[sess[c].by].kind) : Set(c, s)
    BY <1>3 DEF Execute
  <2>2. sess'[c] = s /\ sess[c].link = "up" /\ sess[c].phase = "asked"
    BY <1>3, <2>1 DEF Execute, Set, TypeOK
  <2>3. PICK y \in Calls : WorkOf(y, c)
    BY <2>2 DEF Work
  <2>4. run[y].pc = "sent" /\ run[y].conn = c
    BY <2>2, <2>3 DEF WorkOf
  <2>5. sess[c].by = y /\ console.slot # c /\ \A x \in Calls : run[x].conn = c => x = y
    BY <2>4 DEF Placement, Aims, OneHolder, HeldByRun
  <2>6. s.txn # "Idle" => sess[c].txn # "Idle" \/ run[y].kind = "begin"
    <3>1. run[y].kind \in Kinds
      BY DEF TypeOK, Runs
    <3> QED BY <1>2, <2>1, <2>2, <2>5, <3>1 DEF Executed, Reply, AfterError, ServerSessions, Kinds, TransactionState
  <2>7. AtRest'
    BY <1>1, <1>2, <2>5 DEF Bars, AtRest, BarTellsTruth
  <2>8. ASSUME NEW x \in Editors PROVE BarOf(x)'
    <3>1. BarOf(x) /\ x \in Calls
      BY CallsAssumption DEF Bars
    <3>2. CASE x = y
      BY <1>1, <2>2, <2>4, <2>6, <3>1, <3>2 DEF BarOf, NotesTransaction
    <3>3. CASE x # y
      <4>1. run[x].conn # c /\ run[x].conn \in Conns \cup {NoConn}
        BY <2>5, <3>1, <3>3 DEF TypeOK, Runs
      <4>2. run[x].pc \in {"ping", "sent", "cut", "note"} => run[x].conn # NoConn
        BY <3>1 DEF Placement, Stages, StageOf
      <4> QED BY <1>1, <3>1, <4>1, <4>2 DEF BarOf, NotesTransaction
    <3> QED BY <3>2, <3>3
  <2> QED BY <2>7, <2>8 DEF Bars
<1>4. CASE Die(c) \/ LateCancelLands(c)
  <2>1. sess'[c].link # "up"
    <3>1. CASE Die(c)
      BY <1>2, <3>1 DEF Die, Set, Ended, TypeOK, ServerSessions
    <3>2. CASE LateCancelLands(c)
      <4>1. sess[c].link = "none" /\ sess'[c] = Stopped(sess[c])
        BY <3>2 DEF LateCancelLands, Set, TypeOK, Placement, Aims
      <4> QED BY <4>1 DEF Stopped
    <3> QED BY <1>4, <3>1, <3>2
  <2>2. AtRest'
    BY <1>1, <1>2, <2>1 DEF Bars, AtRest, BarTellsTruth
  <2>3. ASSUME NEW x \in Editors PROVE BarOf(x)'
    <3>1. BarOf(x) /\ x \in Calls
      BY CallsAssumption DEF Bars
    <3>2. run[x].pc \in {"ping", "sent", "cut", "note"} => run[x].conn \in Conns
      BY <3>1, RunFields DEF Placement
    <3> QED BY <1>1, <2>1, <3>1, <3>2 DEF BarOf, NotesTransaction
  <2> QED BY <2>2, <2>3 DEF Bars
<1> QED BY <1>3, <1>4 DEF SessionStep

LEMMA CloseBar ==
    ASSUME Settled, Bars, Close \/ Release
    PROVE  Bars'
<1>1. /\ sess' = [c \in Conns |-> IF c \in idle \cup {console.slot} THEN Gone ELSE sess[c]]
      /\ console' = [console EXCEPT !.slot = NoConn]
      /\ run' = run
  BY DEF Close, Release
<1>2. /\ console'.slot = NoConn /\ console'.state = console.state /\ console'.lost = console.lost
  BY <1>1 DEF Settled, TypeOK, Consoles
<1>3. ASSUME NEW x \in Editors PROVE BarOf(x)'
  <2>1. BarOf(x) /\ x \in Calls
    BY CallsAssumption DEF Bars
  <2>2. run[x].pc \in {"ping", "sent", "cut", "note"} =>
          run[x].conn \in Conns /\ run[x].conn \notin idle /\ console.slot # run[x].conn
    BY <2>1, HeldPlaces DEF Settled, Placement, Stages, StageOf
  <2>3. run[x].pc \in {"ping", "sent", "cut", "note"} => sess'[run[x].conn] = sess[run[x].conn]
    BY <1>1, <2>2
  <2> QED BY <1>1, <1>2, <2>1, <2>3 DEF BarOf, NotesTransaction
<1> QED BY <1>2, <1>3 DEF Bars, AtRest, BarTellsTruth

LEMMA BarsStep ==
    ASSUME OneEditor, Settled, Bars, Next
    PROVE  Bars'
<1>1. ASSUME NEW x \in Editors, CallStep(x)
      PROVE  Bars'
  <2>1. AtRest' /\ BarOf(x)'
    <3>1. CASE \/ \E c \in Conns : AcquireFresh(x, c) \/ AcquireQuiet(x, c) \/ AcquireStale(x, c)
                                   \/ FreshOpens(x, c)
               \/ AcquireNone(x) \/ PingAnswers(x) \/ PingFails(x)
      BY <3>1, AcquireBar
    <3>2. CASE \/ SendAgain(x) \/ ReplyRead(x) \/ ReplyBroken(x)
               \/ CutStops(x) \/ CutDrains(x) \/ NoteAnswers(x)
      BY <3>2, ReplyBar
    <3>3. CASE \/ Start(x) \/ NextStatement(x) \/ StoppedBetween(x) \/ FreshFails(x)
               \/ Press(x) \/ StopFires(x) \/ CancelLands(x)
               \/ CancelGivenUp(x) \/ WindDownExpires(x)
      BY <3>3, StopBar
    <3> QED BY <1>1, <3>1, <3>2, <3>3 DEF CallStep
  <2>2. \A y \in Editors : BarOf(y)'
    BY <2>1 DEF OneEditor
  <2> QED BY <2>1, <2>2 DEF Bars
<1> QED BY <1>1, LoadsBar, SessionBar, CloseBar DEF Next, Step

LEMMA BarsAlways ==
    ASSUME OneEditor
    PROVE  Spec => [](Settled /\ Bars)
<1>1. Init => Settled /\ Bars
  <2> SUFFICES ASSUME Init PROVE Settled /\ Bars
    OBVIOUS
  <2>1. Settled
    BY InitHolds, WorkInit DEF Settled
  <2>2. \A x \in Editors : run[x].pc = "ready"
    BY CallsAssumption DEF Init, NoRun
  <2> QED BY <2>1, <2>2 DEF Init, NewConsole, Bars, AtRest, BarTellsTruth, BarOf
<1>2. Settled /\ Bars /\ [Next]_vars => (Settled /\ Bars)'
  <2>1. Bars /\ UNCHANGED vars => Bars'
    <3> SUFFICES ASSUME Bars, UNCHANGED vars PROVE Bars'
      OBVIOUS
    <3>1. UNCHANGED <<sess, console, run>>
      BY DEF vars
    <3> QED BY <3>1 DEF Bars, AtRest, BarTellsTruth, BarOf, NotesTransaction
  <2> QED BY <2>1, BarsStep, SettledStep
<1> QED BY <1>1, <1>2, PTL DEF Spec

(***************************************************************************)
(* With one editor run at a time, the transaction bar tells the truth: a   *)
(* console connection that waits in its slot is in the transaction state   *)
(* that was last asked of it, whatever breaks, is stopped, cut short or    *)
(* closed on the way there (Lease::note_transaction, Lease::settle).  Two  *)
(* runs at once break it: the second is a fresh connection's.              *)
(***************************************************************************)
THEOREM BarCorrect ==
    ASSUME OneEditor
    PROVE  Spec => []BarTellsTruth
<1>1. Settled /\ Bars => BarTellsTruth
  BY DEF Bars, AtRest
<1> QED BY <1>1, BarsAlways, PTL

(***************************************************************************)
(* With one editor run at a time, a statement is never executed on one     *)
(* session while a transaction of the editor is open on another.           *)
(***************************************************************************)
THEOREM OneSessionCorrect ==
    ASSUME OneEditor
    PROVE  Spec => []OneSession
<1>1. Settled /\ Bars => OneSession
  <2> SUFFICES ASSUME Settled, Bars, NEW x \in Editors, NEW c \in Conns,
                      run[x].pc = "sent", sess[c].txn # "Idle"
               PROVE  c = run[x].conn
    BY DEF OneSession
  <2>1. console.slot = NoConn
    BY DEF Bars, BarOf
  <2>2. PICK y \in Editors : run[y].conn = c
    BY <2>1, ConnAssumption DEF Settled, Work
  <2> QED BY <2>2 DEF OneEditor
<1> QED BY <1>1, BarsAlways, PTL

(***************************************************************************)
(* With one editor run at a time, cutting a long result short never costs  *)
(* the user an open transaction: on PostgreSQL, where a cancel would fail  *)
(* it, none is sent (Lease::cut_short, may_cut_short).                     *)
(***************************************************************************)
THEOREM CutShortCorrect ==
    ASSUME OneEditor
    PROVE  Spec => CutShortKeepsTransaction
<1> DEFINE Keeps == \A x \in Editors :
        LET c == run[x].conn
        IN  run[x].pc = "cut" /\ sess[c].txn = "Open" /\ sess'[c].link = "up"
            => sess'[c].txn = "Open"
<1>1. ASSUME Settled, Bars, Next, NEW x \in Editors, NEW c, c = run[x].conn,
             run[x].pc = "cut", sess[c].txn = "Open", sess'[c].link = "up"
      PROVE  sess'[c].txn = "Open"
  <2> USE DEF Settled
  <2>0. /\ x \in Calls /\ c \in Conns /\ c # NoConn /\ sess[c] \in ServerSessions
        /\ c \notin idle /\ console.slot # c /\ BarOf(x) /\ Fits(x)
    BY <1>1, CallsAssumption, ConnAssumption, RunFields, HeldPlaces DEF Placement, Bars, Work
  <2>1. ASSUME NEW y \in Calls, y # x, CallStep(y) PROVE sess'[c] = sess[c]
    BY <1>1, <2>0, <2>1, LoadsLeave DEF OneEditor
  <2>2. ASSUME CallStep(x) PROVE sess'[c].txn = "Open"
    <3> DEFINE Ends == sess'[c] = Gone \/ sess'[c].txn = sess[c].txn
    <3>1. ASSUME NEW s, NEW state, NEW said, SettleKept(x, s, state, said), s.txn = sess[c].txn
          PROVE  Ends
      <4>1. Set(c, s) \/ Set(c, Gone)
        BY <1>1, <3>1 DEF SettleKept
      <4>2. sess'[c] = s \/ sess'[c] = Gone
        BY <1>1, <2>0, <4>1 DEF Set, TypeOK
      <4> QED BY <3>1, <4>2
    <3>2. ASSUME NEW said, SettleClosed(x, said) PROVE Ends
      BY <1>1, <2>0, <3>2 DEF SettleClosed, Set, TypeOK
    <3>3. ASSUME Drop(x) PROVE Ends
      BY <1>1, <2>0, <3>3 DEF Drop, TypeOK
    <3>4. CASE \/ Start(x) \/ NextStatement(x) \/ StoppedBetween(x) \/ FreshFails(x)
               \/ \E d \in Conns : AcquireFresh(x, d) \/ AcquireQuiet(x, d) \/ AcquireStale(x, d)
               \/ \E d \in Conns : FreshOpens(x, d)
               \/ AcquireNone(x) \/ PingAnswers(x) \/ PingFails(x)
               \/ SendAgain(x) \/ ReplyRead(x) \/ ReplyBroken(x) \/ NoteAnswers(x)
      BY <1>1, <3>4 DEF Start, NextStatement, StoppedBetween, FreshFails, AcquireFresh, AcquireQuiet,
           AcquireStale, FreshOpens, AcquireNone, Acquiring, PingAnswers, PingFails, SendAgain,
           ReplyRead, ReplyBroken, NoteAnswers, Arrived
    <3>5. CASE CutStops(x)
      <4>1. /\ sess'[c] = Stopped(sess[c]) /\ MayCutShort(console, TRUE)
        BY <1>1, <2>0, <3>5 DEF CutStops, Set, TypeOK, IsConsole
      <4>2. sess[c].link = "up"
        BY <1>1, <2>0, <4>1 DEF Stopped
      <4>3. StopKeepsTransaction
        <5>1. run[x].kind = "other"
          BY <1>1, <2>0 DEF Fits
        <5>2. console.state # "Idle"
          BY <1>1, <2>0, <4>2, <5>1 DEF BarOf, NotesTransaction
        <5> QED BY <4>1, <5>2 DEF MayCutShort
      <4> QED BY <1>1, <2>0, <4>1, <4>3 DEF Stopped, Reply, AfterError, ServerSessions
    <3>6. CASE CutDrains(x)
      <4>1. ASSUME NoteOrSettle(x, Answered(sess[c]), "ok") PROVE Ends
        <5>1. Answered(sess[c]).txn = sess[c].txn
          BY <2>0 DEF Answered, ServerSessions
        <5>2. CASE SettleKept(x, Answered(sess[c]), console.state, "ok")
          BY <3>1, <5>1, <5>2
        <5>3. CASE Set(c, Answered(sess[c]))
          BY <2>0, <5>1, <5>3 DEF Set, TypeOK
        <5> QED BY <1>1, <4>1, <5>2, <5>3 DEF NoteOrSettle
      <4>2. Ends
        BY <1>1, <3>2, <3>6, <4>1 DEF CutDrains
      <4> QED BY <1>1, <4>2 DEF Gone
    <3>7. CASE Press(x) \/ StopFires(x) \/ CancelGivenUp(x) \/ WindDownExpires(x)
      <4>1. sess' = sess \/ Drop(x)
        BY <3>7 DEF Press, StopFires, CancelGivenUp, WindDownExpires
      <4>2. Ends
        BY <3>3, <4>1
      <4> QED BY <1>1, <4>2 DEF Gone
    <3>8. CASE CancelLands(x)
      BY <1>1, <2>0, <3>8 DEF CancelLands, Placement, Stages, StageOf
    <3> QED BY <2>2, <3>4, <3>5, <3>6, <3>7, <3>8 DEF CallStep
  <2>3. ASSUME NEW d \in Conns, SessionStep(d) PROVE sess'[c].txn = "Open"
    <3>1. CASE d # c
      BY <1>1, <2>0, <2>3, <3>1 DEF SessionStep, Execute, Die, LateCancelLands, Set, TypeOK
    <3>2. CASE d = c
      <4>1. CASE Execute(c)
        <5>1. WorkOf(x, c)
          BY <1>1, <2>0, <4>1, WorkHere DEF Execute
        <5> QED BY <1>1, <4>1, <5>1 DEF Execute, WorkOf
      <4>2. CASE Die(c)
        BY <1>1, <2>0, <4>2 DEF Die, Set, Ended, TypeOK, ServerSessions
      <4>3. CASE LateCancelLands(c)
        BY <1>1, <2>0, <4>3, HeldPlaces DEF LateCancelLands
      <4> QED BY <2>3, <3>2, <4>1, <4>2, <4>3 DEF SessionStep
    <3> QED BY <3>1, <3>2
  <2>4. CASE Close \/ Release
    BY <1>1, <2>0, <2>4 DEF Close, Release
  <2> QED BY <1>1, <2>1, <2>2, <2>3, <2>4 DEF Next, Step
<1>2. Settled /\ Bars /\ [Next]_vars => [Keeps]_vars
  <2> SUFFICES ASSUME Settled, Bars, Next PROVE Keeps
    OBVIOUS
  <2> QED BY <1>1
<1> HIDE DEF Keeps
<1>3. Spec => [][Keeps]_vars
  BY <1>2, BarsAlways, PTL DEF Spec
<1> QED BY <1>3 DEF Keeps, CutShortKeepsTransaction

-----------------------------------------------------------------------------
(* A transaction that went away is told of *)

(***************************************************************************)
(* The fourth inductive invariant, for one editor and none of the mishaps. *)
(* A transaction the user has worked in is open on some session and was    *)
(* seen there; and one that went away unreported is remembered as lost, or *)
(* its dead connection is still where the next statement will look for it, *)
(* or the driver is closed and nothing can be sent any more.               *)
(***************************************************************************)
DeadHeld(x) == run[x].pc \in {"ping", "sent", "cut"} /\ sess[run[x].conn].link = "down"

DeadWaits == console.slot # NoConn /\ sess[console.slot].link = "down"

OutOfReach == closed /\ console.slot = NoConn /\ \A x \in Editors : run[x].conn = NoConn

Owes ==
    \/ console.lost
    \/ console.state # "Idle" /\ (DeadWaits \/ \E x \in Editors : DeadHeld(x))
    \/ OutOfReach

InTransaction == \E c \in Conns : sess[c].txn # "Idle"

Memory ==
    /\ user.seen => user.fate = "open"
    /\ user.fate = "open" => InTransaction
    /\ user.seen => console.state # "Idle"
    /\ user.owed => Owes

\* What a step has to make of a loss, old or new.
Owing == Owes \/ (console.state # "Idle" /\ Lost)

Heard == Owing => Owes' \/ Told("lost")

\* No step ends a session in a transaction while the ones that stand keep standing.
LEMMA NothingLost ==
    ASSUME Settled, \A c \in Conns : sess[c].link = "up" => sess'[c].link = "up"
    PROVE  ~Lost
BY DEF Lost, Settled, Work

\* The steps that leave the editor's connection where it is, or it has none.
LEMMA StaysOwing ==
    ASSUME OneEditor, Settled, NEW x \in Editors, UNCHANGED <<console, closed>>,
           \A c \in Conns : sess'[c].link = sess[c].link,
           run'[x].conn = run[x].conn,
           run[x].pc \in {"ping", "sent", "cut"} => run'[x].pc \in {"ping", "sent", "cut"}
    PROVE  Heard
<1>1. ~Lost
  BY NothingLost
<1>2. console.slot \in Conns \cup {NoConn} /\ x \in Calls
  BY CallsAssumption DEF Settled, TypeOK, Consoles
<1>3. run[x].pc \in {"ping", "sent", "cut"} => run[x].conn \in Conns
  BY <1>2, RunFields DEF Settled, Placement
<1>4. DeadHeld(x) => DeadHeld(x)'
  BY <1>3 DEF DeadHeld
<1>5. DeadWaits => DeadWaits'
  BY <1>2 DEF DeadWaits
<1>6. OutOfReach => OutOfReach'
  BY DEF OutOfReach, OneEditor
<1> QED BY <1>1, <1>4, <1>5, <1>6 DEF Heard, Owing, Owes, OneEditor

\* A run that ends with "lost" tells it, and the batch goes no further.
LEMMA LostIsTold ==
    ASSUME TypeOK, NEW x \in Editors, Finish(x, "lost"),
           stop[x].ctl # "winding", run[x].pc # "ready"
    PROVE  Told("lost")
<1>1. x \in Calls
  BY CallsAssumption
<1>2. ~More(x, "lost")
  BY DEF More
<1>3. run' = [run EXCEPT ![x] = NoRun]
      /\ batch' = [batch EXCEPT ![x] = [@ EXCEPT !.left = 0, !.answer = "lost"]]
  BY <1>2 DEF Finish
<1>4. run'[x].pc = "ready" /\ batch'[x].answer = "lost"
  BY <1>1, <1>3 DEF TypeOK, NoRun, Batches
<1> QED BY <1>4 DEF Told

LEMMA AcquireHeard ==
    ASSUME OneEditor, Settled, Bars, NEW x \in Editors,
           \/ \E c \in Conns : AcquireFresh(x, c) \/ AcquireQuiet(x, c) \/ AcquireStale(x, c)
                               \/ FreshOpens(x, c)
           \/ AcquireNone(x) \/ PingAnswers(x) \/ PingFails(x)
    PROVE  Heard
<1>0. TypeOK /\ Placement /\ x \in Calls /\ IsConsole(x) /\ AtRest /\ BarOf(x) /\ Fits(x)
  BY CallsAssumption DEF Settled, IsConsole, Bars, Work
<1>1. ASSUME NEW c \in Conns, NEW s \in ServerSessions, Set(c, Asked(s, x))
      PROVE  sess'[c].link = s.link /\ \A d \in Conns \ {c} : sess'[d] = sess[d]
  BY <1>0, <1>1 DEF Set, Asked, TypeOK, ServerSessions
<1>2. ASSUME NEW c \in Conns, AcquireFresh(x, c) \/ AcquireQuiet(x, c)
      PROVE  Heard
  <2>1. /\ run[x].pc = "acquire" /\ console.slot = c /\ c # NoConn /\ ~console.lost
        /\ sess[c] \in ServerSessions
    BY <1>0, <1>2, ConnAssumption DEF AcquireFresh, AcquireQuiet, Acquiring, Kept, AtRest, TypeOK
  <2>2. console' = [console EXCEPT !.slot = NoConn]
    BY <1>0, <1>2 DEF AcquireFresh, AcquireQuiet
  <2>3. \A d \in Conns : sess'[d].link = sess[d].link
    BY <1>1, <1>2, <2>1 DEF AcquireFresh, AcquireQuiet
  <2>4. run'[x].pc \in {"sent", "ping"} /\ run'[x].conn = c
    <3>1. CASE AcquireFresh(x, c)
      BY <1>0, <3>1 DEF AcquireFresh, Send, TypeOK, Runs
    <3>2. CASE AcquireQuiet(x, c)
      BY <1>0, <3>2 DEF AcquireQuiet, TypeOK, Runs
    <3> QED BY <1>2, <3>1, <3>2
  <2>5. ~Lost
    BY <2>3, NothingLost
  <2>6. Owes => console.state # "Idle" /\ sess[c].link = "down"
    BY <2>1 DEF Owes, DeadWaits, DeadHeld, OutOfReach, OneEditor
  <2>7. console'.state = console.state
    BY <1>0, <2>2 DEF TypeOK, Consoles
  <2>8. sess[c].link = "down" => DeadHeld(x)'
    BY <2>3, <2>4 DEF DeadHeld
  <2> QED BY <2>5, <2>6, <2>7, <2>8 DEF Heard, Owing, Owes
<1>3. ASSUME NEW c \in Conns, AcquireStale(x, c) PROVE Heard
  BY <1>0, <1>3 DEF AcquireStale
<1>4. ASSUME NEW c \in Conns, FreshOpens(x, c) PROVE Heard
  <2>1. /\ run[x].pc = "fresh" /\ ~closed /\ sess[c].link = "none" /\ Set(c, Asked(Opened, x))
        /\ console.slot = NoConn /\ ~console.lost
    BY <1>0, <1>4 DEF FreshOpens, BarOf
  <2>2. Opened \in ServerSessions
    BY DEF Opened, Gone, ServerSessions, TransactionState, Phases
  <2>3. ~Lost
    BY <1>1, <2>1, <2>2, NothingLost
  <2>4. ~Owes
    BY <2>1 DEF Owes, DeadWaits, DeadHeld, OutOfReach, OneEditor
  <2> QED BY <2>3, <2>4 DEF Heard, Owing
<1>5. CASE AcquireNone(x)
  <2>1. /\ run[x].pc = "acquire" /\ run[x].conn = NoConn /\ UNCHANGED <<sess, closed>>
        /\ ConnectOrRefuse(x, console) /\ stop[x].ctl # "winding"
    BY <1>0, <1>5 DEF AcquireNone, Acquiring, Placement, Stages, StageOf, Fits
  <2>2. CASE console.lost
    BY <1>0, <2>1, <2>2, LostIsTold DEF ConnectOrRefuse, Heard
  <2>3. CASE ~console.lost
    <3>1. UNCHANGED console /\ run' = [run EXCEPT ![x].pc = "fresh", ![x].conn = NoConn]
      BY <2>1, <2>3 DEF ConnectOrRefuse
    <3>2. run'[x].conn = run[x].conn
      BY <1>0, <2>1, <3>1 DEF TypeOK, Runs
    <3> QED BY <2>1, <3>1, <3>2, StaysOwing
  <2> QED BY <2>2, <2>3
<1>6. CASE PingAnswers(x)
  <2>1. /\ run[x].pc = "ping" /\ Send(x, run[x].conn) /\ UNCHANGED <<console, closed>>
        /\ Set(run[x].conn, Asked(sess[run[x].conn], x))
    BY <1>6 DEF PingAnswers
  <2>2. run[x].conn \in Conns /\ sess[run[x].conn] \in ServerSessions
    BY <1>0, <2>1, RunFields DEF Placement
  <2>3. run'[x].conn = run[x].conn /\ run'[x].pc = "sent"
    BY <1>0, <2>1 DEF Send, TypeOK, Runs
  <2>4. \A d \in Conns : sess'[d].link = sess[d].link
    BY <1>1, <2>1, <2>2
  <2> QED BY <2>1, <2>3, <2>4, StaysOwing
<1>7. CASE PingFails(x)
  <2>1. /\ run[x].pc = "ping" /\ sess[run[x].conn].link = "down" /\ Set(run[x].conn, Gone)
        /\ ConnectOrRefuse(x, ConsoleGone(console)) /\ stop[x].ctl # "winding"
    BY <1>0, <1>7 DEF PingFails, Fits
  <2>2. console.slot = NoConn /\ ~console.lost /\ run[x].conn # NoConn
    BY <1>0, <2>1 DEF BarOf, Placement, Stages, StageOf
  <2>3. ~Lost
    BY <1>0, <2>1, NothingLost DEF Set, TypeOK
  <2>4. Owes => console.state # "Idle"
    BY <2>2 DEF Owes, OutOfReach
  <2>5. console.state # "Idle" => ConsoleGone(console).lost
    BY <1>0 DEF ConsoleGone, TypeOK, Consoles
  <2>6. console.state # "Idle" => Told("lost")
    BY <1>0, <2>1, <2>5, LostIsTold DEF ConnectOrRefuse
  <2> QED BY <2>3, <2>4, <2>6 DEF Heard, Owing
<1> QED BY <1>2, <1>3, <1>4, <1>5, <1>6, <1>7

LEMMA ReplyHeard ==
    ASSUME OneEditor, Mishaps = {}, Settled, Bars, NEW x \in Editors,
           \/ SendAgain(x) \/ ReplyRead(x) \/ ReplyBroken(x)
           \/ CutStops(x) \/ CutDrains(x) \/ NoteAnswers(x)
    PROVE  Heard
<1>0. TypeOK /\ Placement /\ x \in Calls /\ IsConsole(x) /\ BarOf(x)
  BY CallsAssumption DEF Settled, IsConsole, Bars
<1> DEFINE c == run[x].conn
<1>1. run[x].pc \in {"sent", "cut", "note"} /\ closed' = closed
  BY DEF SendAgain, ReplyRead, ReplyBroken, CutStops, CutDrains, NoteAnswers, Arrived,
         NoteOrSettle, SettleKept, SettleClosed
<1>2. c \in Conns /\ c # NoConn /\ sess[c] \in ServerSessions
      /\ console.slot = NoConn /\ ~console.lost
  BY <1>0, <1>1, RunFields, ConnAssumption DEF Placement, BarOf
<1>3. Owes => console.state # "Idle" /\ run[x].pc \in {"sent", "cut"} /\ sess[c].link = "down"
  BY <1>1, <1>2 DEF Owes, DeadWaits, DeadHeld, OutOfReach, OneEditor
<1>4. ASSUME NEW s, Set(c, s), s.link = sess[c].link
      PROVE  \A d \in Conns : sess'[d].link = sess[d].link
  BY <1>0, <1>2, <1>4 DEF Set, TypeOK
<1>5. ASSUME NEW s, NEW state, NEW said, SettleKept(x, s, state, said),
             s.link = sess[c].link, run[x].pc = "note" \/ sess[c].link # "down"
      PROVE  Heard
  <2>1. Set(c, s)
    BY <1>0, <1>2, <1>5 DEF SettleKept, ConsoleTakes, TypeOK, Consoles
  <2>2. ~Lost
    BY <1>4, <1>5, <2>1, NothingLost
  <2> QED BY <1>3, <1>5, <2>2 DEF Heard, Owing
<1>6. ASSUME NEW ran, NoteOrSettle(x, Answered(sess[c]), ran), sess[c].link # "down"
      PROVE  Heard
  <2>1. Answered(sess[c]).link = sess[c].link
    BY <1>2 DEF Answered, ServerSessions
  <2>2. CASE SettleKept(x, Answered(sess[c]), console.state, ran)
    BY <1>5, <1>6, <2>1, <2>2
  <2>3. CASE Set(c, Answered(sess[c]))
    <3>1. ~Lost
      BY <1>4, <2>1, <2>3, NothingLost
    <3> QED BY <1>3, <1>6, <3>1 DEF Heard, Owing
  <2> QED BY <1>6, <2>2, <2>3 DEF NoteOrSettle
<1>7. ASSUME NEW said, SettleClosed(x, said), Breaks(x)
      PROVE  Heard
  <2>1. sess[c].link = "down" /\ stop[x].ctl # "winding" /\ Set(c, Gone)
    BY <1>0, <1>7 DEF Breaks, SettleClosed
  <2>2. ~Lost
    BY <1>0, <1>2, <2>1, NothingLost DEF Set, TypeOK
  <2>3. ASSUME console.state # "Idle"
        PROVE  Told("lost")
    <3>1. ConsoleGone(console).lost /\ run[x].wasOpen
      BY <1>0, <1>1, <2>3 DEF ConsoleGone, TypeOK, Consoles, BarOf
    <3>2. Finish(x, "lost")
      BY <1>0, <1>7, <3>1 DEF SettleClosed, Conclude
    <3> QED BY <1>0, <1>1, <2>1, <3>2, LostIsTold
  <2> QED BY <1>3, <2>2, <2>3 DEF Heard, Owing
<1>8. Arrived(x) => sess[c].link # "down" /\ run[x].pc = "sent"
  BY <1>0 DEF Arrived
<1>9. CASE SendAgain(x) \/ CutStops(x)
  <2>1. PICK s : Set(c, s) /\ s.link = sess[c].link
    <3>1. CASE SendAgain(x)
      <4>1. Asked(sess[c], x).link = sess[c].link
        BY <1>2 DEF Asked, ServerSessions
      <4> QED BY <3>1, <4>1 DEF SendAgain
    <3>2. CASE CutStops(x)
      <4>1. Stopped(sess[c]).link = sess[c].link
        BY <1>2 DEF Stopped, Reply, ServerSessions
      <4> QED BY <3>2, <4>1 DEF CutStops
    <3> QED BY <1>9, <3>1, <3>2
  <2>2. \A d \in Conns : sess'[d].link = sess[d].link
    BY <1>4, <2>1
  <2>3. run'[x].pc = run[x].pc /\ run'[x].conn = run[x].conn
    BY <1>0, <1>9, ZenonT(60) DEF SendAgain, CutStops, TypeOK, Runs
  <2>4. UNCHANGED <<console, closed>>
    BY <1>9 DEF SendAgain, CutStops
  <2> QED BY <2>2, <2>3, <2>4, StaysOwing
<1>10. CASE ReplyRead(x)
  <2>1. CASE sess[c].phase = "capped"
    <3>1. /\ run' = [run EXCEPT ![x].pc = "cut", ![x].token = NoConn]
          /\ UNCHANGED <<sess, console, closed>>
      BY <1>10, <2>1 DEF ReplyRead
    <3>2. run'[x].pc = "cut" /\ run'[x].conn = run[x].conn
      BY <1>0, <3>1 DEF TypeOK, Runs
    <3> QED BY <3>1, <3>2, StaysOwing
  <2>2. CASE sess[c].phase # "capped"
    BY <1>6, <1>8, <1>10, <2>2 DEF ReplyRead
  <2> QED BY <2>1, <2>2
<1>11. CASE ReplyBroken(x)
  BY <1>7, <1>11 DEF ReplyBroken
<1>12. CASE CutDrains(x)
  BY <1>6, <1>7, <1>12 DEF CutDrains
<1>13. CASE NoteAnswers(x)
  BY <1>5, <1>13 DEF NoteAnswers
<1> QED BY <1>9, <1>10, <1>11, <1>12, <1>13

LEMMA StopHeard ==
    ASSUME OneEditor, Mishaps = {}, Settled, Bars, NEW x \in Editors,
           \/ Start(x) \/ NextStatement(x) \/ StoppedBetween(x) \/ FreshFails(x)
           \/ Press(x) \/ StopFires(x) \/ CancelLands(x)
           \/ CancelGivenUp(x) \/ WindDownExpires(x)
    PROVE  Heard
<1>0. TypeOK /\ Placement /\ x \in Calls /\ IsConsole(x) /\ BarOf(x) /\ Fits(x) /\ closed' = closed
  BY CallsAssumption DEF Settled, IsConsole, Bars, Work, Start, NextStatement, StoppedBetween,
       FreshFails, Press, StopFires, CancelLands, CancelGivenUp, WindDownExpires
<1>1. CASE Press(x) \/ (StopFires(x) /\ run[x].token # NoConn)
  BY <1>0, <1>1, StaysOwing DEF Press, StopFires
<1>2. CASE Start(x) \/ NextStatement(x) \/ StoppedBetween(x) \/ FreshFails(x)
  <2>1. run[x].pc \in {"ready", "next", "fresh"} /\ run[x].conn = NoConn
    BY <1>0, <1>2 DEF Start, NextStatement, StoppedBetween, FreshFails, Placement, Stages, StageOf
  <2>2. run'[x].conn = NoConn
    <3>1. CASE Start(x) \/ NextStatement(x)
      BY <1>0, <3>1, ZenonT(60) DEF Start, NextStatement, NoRun, TypeOK
    <3>2. CASE StoppedBetween(x) \/ FreshFails(x)
      BY <1>0, <3>2, FinishFields DEF StoppedBetween, FreshFails
    <3> QED BY <1>2, <3>1, <3>2
  <2>3. UNCHANGED <<sess, console>>
    BY <1>2 DEF Start, NextStatement, StoppedBetween, FreshFails
  <2> QED BY <1>0, <2>1, <2>2, <2>3, StaysOwing
<1>3. CASE CancelLands(x)
  <2>1. stop[x].aim = run[x].conn /\ run[x].conn \in Conns
    BY <1>0, <1>3, RunFields DEF CancelLands, Placement, Stages, StageOf
  <2>2. Stopped(sess[run[x].conn]).link = sess[run[x].conn].link
    BY <1>0, <2>1 DEF Stopped, Reply, ServerSessions, TypeOK
  <2>3. \A d \in Conns : sess'[d].link = sess[d].link
    BY <1>0, <1>3, <2>1, <2>2 DEF CancelLands, Set, TypeOK
  <2> QED BY <1>0, <1>3, <2>3, StaysOwing DEF CancelLands
<1>4. CASE \/ CancelGivenUp(x) \/ WindDownExpires(x)
           \/ StopFires(x) /\ run[x].token = NoConn
  <2>1. Drop(x)
    BY <1>4 DEF CancelGivenUp, WindDownExpires, StopFires
  <2>2. CASE Leased(x)
    <3>1. console.slot = NoConn /\ ~console.lost /\ run[x].conn # NoConn
      BY <1>0, <2>2 DEF BarOf, Leased, Placement, Stages, StageOf
    <3>2. Owing => console.state # "Idle"
      BY <3>1 DEF Owing, Owes, OutOfReach
    <3>3. console.state # "Idle" => console'.lost
      BY <1>0, <2>1, <2>2 DEF Drop, ConsoleGone, TypeOK, Consoles
    <3> QED BY <3>2, <3>3 DEF Heard, Owes
  <2>3. CASE ~Leased(x)
    <3>1. StopFires(x) /\ run[x].pc \notin {"ping", "sent", "cut", "note"}
      BY <1>0, <1>4, <2>3 DEF StopFires, CancelGivenUp, WindDownExpires, Leased, Fits,
           Placement, Stages, StageOf
    <3>2. run[x].conn = NoConn
      BY <1>0, <3>1 DEF Placement, Stages, StageOf
    <3>3. run'[x].conn = NoConn /\ UNCHANGED <<sess, console>>
      BY <1>0, <2>1, <2>3, <3>2, FinishFields DEF Drop
    <3> QED BY <1>0, <3>1, <3>2, <3>3, StaysOwing
  <2> QED BY <2>2, <2>3
<1> QED BY <1>1, <1>2, <1>3, <1>4

\* The editor's connection, held or waiting, is where every transaction is.
LEMMA WhereItIs ==
    ASSUME OneEditor, Settled, NEW x \in Editors, NEW c \in Conns, sess[c].txn # "Idle"
    PROVE  sess[c].link = "up" /\ c # NoConn /\ (console.slot = c \/ run[x].conn = c)
BY ConnAssumption DEF Settled, Work, OneEditor

LEMMA LoadsHeard ==
    ASSUME OneEditor, Settled, NEW x \in Editors, NEW y \in Calls, y \notin Editors, CallStep(y)
    PROVE  Heard
<1>1. /\ console' = console
      /\ run'[x] = run[x] /\ x \in Calls
      /\ console.slot # NoConn => sess'[console.slot] = sess[console.slot]
      /\ run[x].conn # NoConn => sess'[run[x].conn] = sess[run[x].conn]
  BY LoadsLeave, CallsAssumption
<1>2. closed' = closed
  BY DEF CallStep, Start, NextStatement, StoppedBetween, AcquireFresh, AcquireQuiet, AcquireStale,
     AcquireNone, PingAnswers, PingFails, FreshOpens, FreshFails, SendAgain, ReplyRead, ReplyBroken,
     CutStops, CutDrains, NoteAnswers, Press, StopFires, CancelLands, CancelGivenUp, WindDownExpires,
     NoteOrSettle, SettleKept, SettleClosed
<1>3. ~Lost
  <2> SUFFICES ASSUME NEW c \in Conns, sess[c].txn # "Idle" PROVE sess'[c].link = "up"
    BY DEF Lost
  <2>1. sess[c].link = "up" /\ c # NoConn /\ (console.slot = c \/ run[x].conn = c)
    BY WhereItIs
  <2> QED BY <1>1, <2>1
<1>4. run[x].pc \in {"ping", "sent", "cut"} => run[x].conn # NoConn
  BY <1>1 DEF Settled, Placement, Stages, StageOf
<1>5. Owes => Owes'
  BY <1>1, <1>2, <1>4 DEF Owes, DeadWaits, DeadHeld, OutOfReach, OneEditor
<1> QED BY <1>3, <1>5 DEF Heard, Owing

LEMMA SessionHeard ==
    ASSUME OneEditor, Mishaps = {}, Settled, Bars, NEW x \in Editors, NEW c \in Conns, SessionStep(c)
    PROVE  Heard
<1>0. TypeOK /\ Placement /\ x \in Calls /\ BarOf(x)
  BY CallsAssumption DEF Settled, Bars
<1>1. /\ UNCHANGED <<console, run, closed>> /\ \A d \in Conns \ {c} : sess'[d] = sess[d]
      /\ sess[c] \in ServerSessions
  BY <1>0 DEF SessionStep, Execute, Die, LateCancelLands, Set, TypeOK
<1>2. CASE Execute(c) \/ LateCancelLands(c)
  <2>1. sess'[c].link = sess[c].link
    <3>1. CASE Execute(c)
      <4>1. PICK s \in Executed(sess[c], run[sess[c].by].kind) : Set(c, s)
        BY <3>1 DEF Execute
      <4>2. s.link = sess[c].link
        BY <1>1, <4>1 DEF Executed, Reply, ServerSessions
      <4> QED BY <1>0, <4>1, <4>2 DEF Set, TypeOK
    <3>2. CASE LateCancelLands(c)
      <4>1. sess'[c] = Stopped(sess[c])
        BY <1>0, <3>2 DEF LateCancelLands, Set, TypeOK
      <4> QED BY <1>1, <4>1 DEF Stopped, Reply, ServerSessions
    <3> QED BY <1>2, <3>1, <3>2
  <2>2. \A d \in Conns : sess'[d].link = sess[d].link
    BY <1>1, <2>1
  <2> QED BY <1>1, <2>2, StaysOwing
<1>3. CASE Die(c)
  <2>1. sess'[c].link = "down"
    BY <1>0, <1>1, <1>3 DEF Die, Set, Ended, TypeOK, ServerSessions
  <2>2. run[x].pc = "note" => run[x].conn # c
    BY <1>3 DEF Die
  <2>3. \A d \in Conns : sess[d].link = "down" => sess'[d].link = "down"
    BY <1>1, <2>1
  <2>4. run[x].pc \in {"ping", "sent", "cut"} => run[x].conn \in Conns
    BY <1>0, RunFields DEF Placement
  <2>5. console.slot \in Conns \cup {NoConn}
    BY <1>0 DEF TypeOK, Consoles
  <2>6. Owes => Owes'
    BY <1>1, <2>3, <2>4, <2>5 DEF Owes, DeadWaits, DeadHeld, OutOfReach, OneEditor
  <2>7. ASSUME console.state # "Idle", Lost PROVE Owes'
    <3>1. PICK d \in Conns : sess[d].txn # "Idle" /\ sess'[d].link # "up"
      BY <2>7 DEF Lost
    <3>2. sess[d].link = "up" /\ d # NoConn /\ (console.slot = d \/ run[x].conn = d)
      BY <3>1, WhereItIs
    <3>3. d = c
      BY <1>1, <3>1, <3>2
    <3>4. CASE console.slot = d
      BY <1>1, <2>1, <2>7, <3>2, <3>3, <3>4 DEF Owes, DeadWaits
    <3>5. CASE run[x].conn = d
      <4>1. run[x].pc \in {"ping", "sent", "cut"}
        BY <1>0, <2>2, <3>2, <3>3, <3>5 DEF Placement, Stages, StageOf
      <4> QED BY <1>1, <2>1, <2>7, <3>3, <3>5, <4>1 DEF Owes, DeadHeld
    <3> QED BY <3>2, <3>4, <3>5
  <2> QED BY <2>6, <2>7 DEF Heard, Owing
<1> QED BY <1>2, <1>3 DEF SessionStep

LEMMA CloseHeard ==
    ASSUME OneEditor, Settled, Bars, NEW x \in Editors, Close \/ Release
    PROVE  Heard
<1>0. TypeOK /\ Placement /\ x \in Calls /\ BarOf(x)
  BY CallsAssumption DEF Settled, Bars
<1>1. /\ sess' = [c \in Conns |-> IF c \in idle \cup {console.slot} THEN Gone ELSE sess[c]]
      /\ console' = [console EXCEPT !.slot = NoConn]
      /\ run' = run /\ closed'
  BY DEF Close, Release
<1>2. /\ console'.slot = NoConn /\ console'.state = console.state /\ console'.lost = console.lost
  BY <1>0, <1>1 DEF TypeOK, Consoles
<1>3. CASE run[x].conn = NoConn
  BY <1>1, <1>2, <1>3 DEF Heard, Owes, OutOfReach, OneEditor
<1>4. CASE run[x].conn # NoConn
  <2>1. /\ run[x].pc \in {"ping", "sent", "cut", "note"} /\ console.slot = NoConn
        /\ sess'[run[x].conn] = sess[run[x].conn]
    <3>1. run[x].pc \in {"ping", "sent", "cut", "note"} /\ console.slot = NoConn
      BY <1>0, <1>4 DEF Placement, Stages, StageOf, BarOf
    <3> QED BY <1>0, <1>1, <1>4, <3>1, HeldPlaces
  <2>2. Close
    BY <1>0, <2>1 DEF Release
  <2>3. ~Lost
    BY <2>2 DEF Close, Lost
  <2>4. Owes => Owes'
    BY <1>1, <1>2, <1>4, <2>1 DEF Owes, DeadWaits, DeadHeld, OutOfReach, OneEditor
  <2> QED BY <2>3, <2>4 DEF Heard, Owing
<1> QED BY <1>3, <1>4

LEMMA HeardStep ==
    ASSUME OneEditor, Mishaps = {}, Settled, Bars, Next, NEW x \in Editors
    PROVE  Heard
<1>1. CASE CallStep(x)
  <2>1. CASE \/ \E c \in Conns : AcquireFresh(x, c) \/ AcquireQuiet(x, c) \/ AcquireStale(x, c)
                                 \/ FreshOpens(x, c)
             \/ AcquireNone(x) \/ PingAnswers(x) \/ PingFails(x)
    BY <2>1, AcquireHeard
  <2>2. CASE \/ SendAgain(x) \/ ReplyRead(x) \/ ReplyBroken(x)
             \/ CutStops(x) \/ CutDrains(x) \/ NoteAnswers(x)
    BY <2>2, ReplyHeard
  <2>3. CASE \/ Start(x) \/ NextStatement(x) \/ StoppedBetween(x) \/ FreshFails(x)
             \/ Press(x) \/ StopFires(x) \/ CancelLands(x)
             \/ CancelGivenUp(x) \/ WindDownExpires(x)
    BY <2>3, StopHeard
  <2> QED BY <1>1, <2>1, <2>2, <2>3 DEF CallStep
<1>2. \A y \in Editors : CallStep(y) => CallStep(x)
  BY DEF OneEditor
<1> QED BY <1>1, <1>2, LoadsHeard, SessionHeard, CloseHeard DEF Next, Step

\* A run that still has its statement in hand leaves what was last seen alone.
LEMMA StateStays ==
    ASSUME OneEditor, Settled, Next, NEW x \in Editors, run'[x].pc \in {"sent", "cut", "note"}
    PROVE  console'.state = console.state
<1>0. TypeOK /\ x \in Calls /\ console \in Consoles
  BY CallsAssumption DEF Settled, TypeOK
<1>1. CASE CallStep(x)
  <2>1. ASSUME NEW said, Finish(x, said) PROVE FALSE
    BY <1>0, <2>1, FinishFields
  <2>2. ASSUME NEW con, ConnectOrRefuse(x, con) PROVE FALSE
    <3>1. run' = [run EXCEPT ![x].pc = "fresh", ![x].conn = NoConn]
      BY <2>1, <2>2 DEF ConnectOrRefuse
    <3> QED BY <1>0, <3>1 DEF TypeOK, Runs
  <2>3. ASSUME NEW said, SettleClosed(x, said) PROVE FALSE
    BY <2>1, <2>3 DEF SettleClosed, Conclude
  <2>4. ASSUME NEW s, NEW state, NEW said, SettleKept(x, s, state, said) PROVE FALSE
    BY <2>1, <2>4 DEF SettleKept, Conclude
  <2>5. ASSUME NEW s, NEW ran, NoteOrSettle(x, s, ran) PROVE console' = console
    BY <2>4, <2>5 DEF NoteOrSettle
  <2>6. CASE \/ Start(x) \/ NextStatement(x) \/ StoppedBetween(x) \/ FreshFails(x)
             \/ AcquireNone(x) \/ PingFails(x)
    <3>1. CASE Start(x) \/ NextStatement(x)
      BY <1>0, <3>1 DEF Start, NextStatement
    <3>2. CASE StoppedBetween(x) \/ FreshFails(x) \/ AcquireNone(x)
      BY <2>1, <2>2, <3>2 DEF StoppedBetween, FreshFails, AcquireNone
    <3>3. CASE PingFails(x)
      <4>1. IsConsole(x)
        BY DEF IsConsole
      <4> QED BY <2>2, <3>3, <4>1 DEF PingFails
    <3> QED BY <2>6, <3>1, <3>2, <3>3
  <2>7. CASE \E c \in Conns : AcquireFresh(x, c) \/ AcquireQuiet(x, c) \/ AcquireStale(x, c)
                              \/ FreshOpens(x, c)
    <3>1. console' = console \/ console' = [console EXCEPT !.slot = NoConn]
      BY <2>7 DEF AcquireFresh, AcquireQuiet, AcquireStale, FreshOpens
    <3> QED BY <1>0, <3>1 DEF Consoles
  <2>8. CASE \/ PingAnswers(x) \/ SendAgain(x) \/ CutStops(x) \/ Press(x) \/ CancelLands(x)
    BY <2>8 DEF PingAnswers, SendAgain, CutStops, Press, CancelLands
  <2>9. CASE ReplyRead(x) \/ ReplyBroken(x) \/ CutDrains(x) \/ NoteAnswers(x)
    BY <2>3, <2>4, <2>5, <2>9 DEF ReplyRead, ReplyBroken, CutDrains, NoteAnswers
  <2>10. CASE StopFires(x) \/ CancelGivenUp(x) \/ WindDownExpires(x)
    BY <2>1, <2>10 DEF StopFires, CancelGivenUp, WindDownExpires, Drop
  <2> QED BY <1>1, <2>6, <2>7, <2>8, <2>9, <2>10 DEF CallStep
<1>2. ASSUME NEW y \in Calls, y \notin Editors, CallStep(y) PROVE console' = console
  BY <1>2, LoadsLeave
<1>3. ASSUME NEW c \in Conns, SessionStep(c) PROVE console' = console
  BY <1>3 DEF SessionStep, Execute, Die, LateCancelLands
<1>4. CASE Close \/ Release
  <2>1. console' = [console EXCEPT !.slot = NoConn]
    BY <1>4 DEF Close, Release
  <2> QED BY <1>0, <2>1 DEF Consoles
<1>5. \A y \in Editors : CallStep(y) => CallStep(x)
  BY DEF OneEditor
<1> QED BY <1>1, <1>2, <1>3, <1>4, <1>5 DEF Next, Step

LEMMA Remembered ==
    ASSUME Remember
    PROVE  /\ user'.fate = "open" => Begun \/ (user.fate = "open" /\ ~Committed /\ ~RolledBack)
           /\ user'.seen => user'.fate = "open" /\ (user.seen \/ Succeeds)
           /\ user'.owed => ~Told("lost") /\ (user.owed \/ (user.seen /\ Lost))
<1> DEFINE fate == CASE Begun -> "open"
                     [] Committed -> "committed"
                     [] RolledBack -> "rolledback"
                     [] Told("lost") -> "none"
                     [] OTHER -> user.fate
           seen == fate = "open" /\ (user.seen \/ Succeeds)
           owed == ~Told("lost") /\ ~Told("io") /\ (user.owed \/ (user.seen /\ Lost))
<1>1. user' = [fate |-> fate, seen |-> seen, owed |-> owed]
  BY DEF Remember
<1>2. fate = "open" => Begun \/ (user.fate = "open" /\ ~Committed /\ ~RolledBack)
  OBVIOUS
<1>3. user'.fate = fate /\ user'.seen = seen /\ user'.owed = owed
  BY <1>1
<1> HIDE DEF fate
<1> QED BY <1>2, <1>3

LEMMA MemoryStep ==
    ASSUME OneEditor, Mishaps = {}, Settled, Bars, Settled', Bars', Memory, Next,
           NEW x \in Editors
    PROVE  Memory'
<1>0. Remember
  BY DEF Next
<1>1. ASSUME user'.fate = "open" PROVE InTransaction'
  <2>1. CASE Begun
    BY <2>1 DEF Begun, InTransaction
  <2>2. CASE user.fate = "open" /\ ~Committed /\ ~RolledBack
    <3>1. PICK c \in Conns : sess[c].txn # "Idle"
      BY <2>2 DEF Memory, InTransaction
    <3>2. sess'[c].txn # "Idle"
      BY <2>2, <3>1 DEF RolledBack
    <3> QED BY <3>2 DEF InTransaction
  <2> QED BY <1>0, <1>1, <2>1, <2>2, Remembered
<1>2. ASSUME user'.seen PROVE console'.state # "Idle"
  <2>1. InTransaction' /\ (user.seen \/ Succeeds)
    BY <1>0, <1>1, <1>2, Remembered
  <2>2. PICK c \in Conns : sess'[c].txn # "Idle"
    BY <2>1 DEF InTransaction
  <2>3. /\ sess'[c].link = "up" /\ c # NoConn
        /\ console'.slot = c \/ run'[x].conn = c
    BY <2>2, ConnAssumption DEF Settled, Work, OneEditor
  <2>4. CASE console'.slot = c
    BY <2>2, <2>3, <2>4 DEF Bars, AtRest, BarTellsTruth
  <2>5. CASE run'[x].conn = c
    <3>1. run'[x].pc \in {"ping", "sent", "cut", "note"}
      BY <2>3, <2>5, CallsAssumption DEF Settled, Placement, Stages, StageOf
    <3>2. CASE run'[x].pc = "ping"
      BY <2>2, <2>3, <2>5, <3>2 DEF Bars, BarOf
    <3>3. CASE run'[x].pc \in {"sent", "cut", "note"}
      <4>1. ~Succeeds
        BY <3>3 DEF Succeeds, Told, OneEditor
      <4> QED BY <2>1, <3>3, <4>1, StateStays DEF Memory
    <3> QED BY <3>1, <3>2, <3>3
  <2> QED BY <2>3, <2>4, <2>5
<1>3. ASSUME user'.owed PROVE Owes'
  <2>1. ~Told("lost") /\ Owing
    BY <1>0, <1>3, Remembered DEF Memory, Owing
  <2> QED BY <2>1, HeardStep DEF Heard
<1>4. user'.seen => user'.fate = "open"
  BY <1>0, Remembered
<1> QED BY <1>1, <1>2, <1>3, <1>4 DEF Memory

(***************************************************************************)
(* With one editor run at a time, and none of the mishaps, a transaction   *)
(* the user has worked in and that went away is reported before anything   *)
(* else the user runs is executed as if it were still there                *)
(* (Sessions::acquire_console, Sessions::console_gone, was_open).  Each of *)
(* the three mishaps breaks it in the code.                                *)
(***************************************************************************)
THEOREM NoSilentLossCorrect ==
    ASSUME OneEditor, Mishaps = {}
    PROVE  Spec => []NoSilentLoss
<1> DEFINE IInv == Editors # {} => Memory
<1>1. Init => Settled /\ Bars /\ IInv
  <2> SUFFICES ASSUME Init PROVE Settled /\ Bars /\ IInv
    OBVIOUS
  <2>1. Settled
    BY InitHolds, WorkInit DEF Settled
  <2>2. \A x \in Editors : run[x].pc = "ready"
    BY CallsAssumption DEF Init, NoRun
  <2> QED BY <2>1, <2>2 DEF Init, NewConsole, Bars, AtRest, BarTellsTruth, BarOf, Memory
<1>2. Settled /\ Bars /\ Settled' /\ Bars' /\ IInv /\ [Next]_vars => IInv'
  <2> SUFFICES ASSUME Settled, Bars, Settled', Bars', IInv, [Next]_vars, NEW x \in Editors
               PROVE  Memory'
    OBVIOUS
  <2>1. CASE UNCHANGED vars
    BY <2>1 DEF vars, Memory, InTransaction, Owes, DeadWaits, DeadHeld, OutOfReach
  <2> QED BY <2>1, MemoryStep
<1>3. Settled /\ Bars /\ IInv => NoSilentLoss
  <2> SUFFICES ASSUME Settled, Bars, IInv, user.owed, NEW c \in Conns, sess[c].link = "up",
                      sess[c].phase = "asked", sess[c].by \in Editors
               PROVE  FALSE
    BY DEF NoSilentLoss
  <2>1. PICK y \in Calls : WorkOf(y, c)
    BY DEF Settled, Work
  <2>2. run[y].pc = "sent" /\ run[y].conn = c /\ sess[c].by = y /\ y \in Editors
    BY <2>1 DEF WorkOf, Settled, Placement, Aims
  <2>3. console.slot = NoConn /\ ~console.lost /\ c # NoConn
    BY <2>2, ConnAssumption DEF Bars, BarOf
  <2>4. Owes
    BY <2>2 DEF Memory
  <2> QED BY <2>2, <2>3, <2>4 DEF Owes, DeadWaits, DeadHeld, OutOfReach, OneEditor
<1> HIDE DEF IInv
<1> QED BY <1>1, <1>2, <1>3, BarsAlways, PTL DEF Spec
===============================================================================

-------------------------- MODULE AssistantChats_proofs --------------------------
(***************************************************************************)
(* Theorems of AssistantChats, and their proofs: that what the panel says  *)
(* is allowed is all that a conversation may write.                        *)
(*                                                                         *)
(* A tool call's task reads the mode of its own process, not the panel's.  *)
(* The two agree (Governed) because changing the mode reaches the process  *)
(* that the panel talks to, and a process is started with the mode the     *)
(* panel has then.  A call counts as approved only after a yes (Agreed),   *)
(* and no later answer takes it back, since an interrupt declines only     *)
(* what is still waiting without an answer.                                *)
(***************************************************************************)
EXTENDS AssistantChats, SequenceTheorems, TLAPS

Bounded == {MaxAtOnce, MaxTurns, MaxCalls, MaxMinds} \subseteq Nat

Chat == [open : BOOLEAN, session : 0..MaxAtOnce, generation : 0..MaxTurns,
         busy : BOOLEAN, ended : BOOLEAN,
         tool : [Calls -> {"none", "Running", "AwaitingApproval", "Over"}]]

Shared == [generation : 0..MaxTurns, mode : Modes, held : BOOLEAN,
           loop : {"none", "finding", "driving", "ending", "over"},
           stopping : BOOLEAN, outbox : Seq({"user", "interrupt"}), events : Seq(Events),
           claude : {"none", "idle", "working", "gone"}, told : BOOLEAN,
           task : [Calls -> Tasks]]

Typed ==
    /\ config \in [read_only : BOOLEAN, production : BOOLEAN]
    /\ connected \in BOOLEAN /\ mode \in Modes
    /\ minds \in 0..MaxMinds /\ turns \in 0..MaxTurns /\ latest \in 0..MaxAtOnce
    /\ chat \in Chat
    /\ shared \in [Processes -> Shared]

\* A conversation is one of the messages that were sent.
Numbered == chat.generation <= turns

\* The process that the panel talks to has the mode that the panel shows.
Governed == chat.session # 0 => shared[chat.session].mode = mode

\* What counts as approved was answered with a yes.
Approved(task) == \A c \in Calls : task[c].approved => task[c].said = "yes"

Agreed == \A p \in Processes : Approved(shared[p].task)

IInv == Typed /\ Numbered /\ Governed /\ Agreed

-----------------------------------------------------------------------------

LEMMA InvariantInit ==
    ASSUME Bounded, Init
    PROVE  IInv
<1>1. <<>> \in Seq({"user", "interrupt"}) /\ <<>> \in Seq(Events)
  OBVIOUS
<1>2. NoTask \in Tasks /\ ~NoTask.approved
  BY DEF NoTask, Tasks, Kinds
<1>3. NoProcess \in Shared /\ Approved(NoProcess.task)
  BY <1>1, <1>2 DEF Bounded, NoProcess, Shared, Modes, Approved
<1>4. NoChat \in Chat /\ NoChat.session = 0 /\ NoChat.generation = 0
  BY DEF Bounded, NoChat, Chat
<1>5. shared \in [Processes -> Shared] /\ \A p \in Processes : shared[p] = NoProcess
  BY <1>3 DEF Init
<1>6. Typed
  BY <1>4, <1>5 DEF Init, Typed, Bounded, Configs
<1> QED
  BY <1>3, <1>4, <1>5, <1>6 DEF Init, IInv, Numbered, Governed, Agreed

LEMMA SessionIsProcess ==
    ASSUME Bounded, IInv, chat.session # 0
    PROVE  chat.session \in Processes
BY DEF Bounded, IInv, Typed, Chat, Processes

\* A step of one process, of which neither the mode changes nor a yes is undone.
LEMMA ProcessKeeps ==
    ASSUME Bounded, IInv, NEW p \in Processes, NEW s \in Shared, Becomes(p, s),
           s.mode = shared[p].mode, Approved(s.task)
    PROVE  IInv'
<1>1. /\ shared \in [Processes -> Shared] /\ shared' = [shared EXCEPT ![p] = s]
      /\ UNCHANGED <<config, connected, mode, minds, turns, latest, chat>>
  BY DEF IInv, Typed, Becomes, Window
<1>2. shared' \in [Processes -> Shared] /\ shared'[p] = s
      /\ \A q \in Processes : q # p => shared'[q] = shared[q]
  BY <1>1
<1>3. Typed' /\ Numbered'
  BY <1>1, <1>2 DEF IInv, Typed, Numbered
<1>4. Governed'
  BY <1>1, <1>2, SessionIsProcess DEF IInv, Governed
<1>5. Agreed'
  BY <1>2 DEF IInv, Agreed, Approved
<1> QED
  BY <1>3, <1>4, <1>5 DEF IInv

LEMMA EventTyped ==
    ASSUME Bounded, NEW kind \in Kind, NEW call \in 0..MaxCalls, NEW p \in Processes, IInv
    PROVE  Append(shared[p].events, Event(kind, call)) \in Seq(Events)
<1>1. Event(kind, call) \in Events
  BY DEF Event, Events
<1>2. shared[p].events \in Seq(Events)
  BY DEF IInv, Typed, Shared
<1> QED
  BY <1>1, <1>2

LEMMA LoopStep ==
    ASSUME Bounded, IInv, NEW p \in Processes,
           Find(p) \/ Kill(p) \/ WriteOut(p) \/ Eof(p) \/ Exit(p) \/ Crash(p)
    PROVE  IInv'
<1> DEFINE s == shared[p]
<1>1. s \in Shared /\ Approved(s.task)
  BY DEF IInv, Typed, Agreed
<1>2. ASSUME NEW l \in {"driving", "ending"}, NEW cl \in {"none", "idle", "working", "gone"},
             Becomes(p, [s EXCEPT !.loop = l, !.claude = cl])
      PROVE  IInv'
  <2>1. /\ [s EXCEPT !.loop = l, !.claude = cl] \in Shared
        /\ [s EXCEPT !.loop = l, !.claude = cl].mode = s.mode
        /\ [s EXCEPT !.loop = l, !.claude = cl].task = s.task
    BY <1>1 DEF Shared
  <2> QED
    BY <1>1, <1>2, <2>1, ProcessKeeps
<1>3. CASE Find(p)
  <2>1. CASE Becomes(p, [s EXCEPT !.loop = "driving", !.claude = "idle"])
    BY <1>2, <2>1
  <2>2. CASE Becomes(p, [s EXCEPT !.loop = "ending"])
    <3>1. /\ [s EXCEPT !.loop = "ending"] \in Shared
          /\ [s EXCEPT !.loop = "ending"].mode = s.mode
          /\ [s EXCEPT !.loop = "ending"].task = s.task
      BY <1>1 DEF Shared
    <3> QED
      BY <1>1, <2>2, <3>1, ProcessKeeps
  <2> QED
    BY <1>3, <2>1, <2>2 DEF Find
<1>4. CASE Kill(p)
  BY <1>2, <1>4 DEF Kill
<1>5. CASE WriteOut(p)
  <2> DEFINE sent == [s EXCEPT !.outbox = Tail(@)]
  <2>1. s.outbox # <<>> /\ s.outbox \in Seq({"user", "interrupt"})
    BY <1>1, <1>5 DEF WriteOut, Shared
  <2>2. Tail(s.outbox) \in Seq({"user", "interrupt"})
    BY <2>1
  <2>3. sent \in Shared /\ sent.mode = s.mode /\ sent.task = s.task
    BY <1>1, <2>2 DEF Shared
  <2> HIDE DEF sent
  <2>4. CASE Becomes(p, [sent EXCEPT !.loop = "ending"])
    <3>1. /\ [sent EXCEPT !.loop = "ending"] \in Shared
          /\ [sent EXCEPT !.loop = "ending"].mode = s.mode
          /\ [sent EXCEPT !.loop = "ending"].task = s.task
      BY <2>3 DEF Shared
    <3> QED
      BY <1>1, <2>4, <3>1, ProcessKeeps
  <2>5. CASE Becomes(p, [sent EXCEPT !.claude = "working"])
    <3>1. /\ [sent EXCEPT !.claude = "working"] \in Shared
          /\ [sent EXCEPT !.claude = "working"].mode = s.mode
          /\ [sent EXCEPT !.claude = "working"].task = s.task
      BY <2>3 DEF Shared
    <3> QED
      BY <1>1, <2>5, <3>1, ProcessKeeps
  <2>6. CASE Becomes(p, [sent EXCEPT !.told = s.claude = "working"])
    <3>1. /\ [sent EXCEPT !.told = s.claude = "working"] \in Shared
          /\ [sent EXCEPT !.told = s.claude = "working"].mode = s.mode
          /\ [sent EXCEPT !.told = s.claude = "working"].task = s.task
      BY <2>3 DEF Shared
    <3> QED
      BY <1>1, <2>6, <3>1, ProcessKeeps
  <2>7. Head(s.outbox) = "user" \/ Head(s.outbox) = "interrupt"
    BY <2>1
  <2>8. \/ Becomes(p, [sent EXCEPT !.loop = "ending"])
        \/ Becomes(p, [sent EXCEPT !.claude = "working"])
        \/ Becomes(p, [sent EXCEPT !.told = s.claude = "working"])
    BY <1>5, <2>7 DEF WriteOut, sent
  <2> QED
    BY <2>4, <2>5, <2>6, <2>8
<1>6. CASE Eof(p)
  <2>1. /\ [s EXCEPT !.loop = "ending"] \in Shared
        /\ [s EXCEPT !.loop = "ending"].mode = s.mode
        /\ [s EXCEPT !.loop = "ending"].task = s.task
    BY <1>1 DEF Shared
  <2> QED
    BY <1>1, <1>6, <2>1, ProcessKeeps DEF Eof
<1>7. CASE Exit(p)
  <2> DEFINE es == Append(s.events, Event("Exited", 0))
             v == [s EXCEPT !.loop = "over", !.claude = "gone", !.told = FALSE,
                            !.outbox = <<>>, !.events = es]
  <2>1. es \in Seq(Events) /\ <<>> \in Seq({"user", "interrupt"})
    BY EventTyped DEF Kind, Bounded
  <2>2. v \in Shared /\ v.mode = s.mode /\ v.task = s.task
    BY <1>1, <2>1 DEF Shared
  <2> QED
    BY <1>1, <1>7, <2>2, ProcessKeeps DEF Exit
<1>8. CASE Crash(p)
  <2>1. /\ [s EXCEPT !.claude = "gone"] \in Shared
        /\ [s EXCEPT !.claude = "gone"].mode = s.mode
        /\ [s EXCEPT !.claude = "gone"].task = s.task
    BY <1>1 DEF Shared
  <2> QED
    BY <1>1, <1>8, <2>1, ProcessKeeps DEF Crash
<1> QED
  BY <1>3, <1>4, <1>5, <1>6, <1>7, <1>8

LEMMA ResultStep ==
    ASSUME Bounded, IInv, NEW p \in Processes, Result(p)
    PROVE  IInv'
<1> DEFINE s == shared[p]
           tk == [c \in Calls |-> [s.task[c] EXCEPT !.wanted = s.task[c].at = "none"]]
           es == Append(s.events, Event(IF s.stopping THEN "Stopped" ELSE "TurnFinished", 0))
           v == [s EXCEPT !.claude = "idle", !.told = FALSE, !.stopping = FALSE,
                          !.task = tk, !.events = es]
<1>1. s \in Shared /\ Approved(s.task)
  BY DEF IInv, Typed, Agreed
<1>2. es \in Seq(Events)
  BY EventTyped DEF Kind, Bounded
<1>3. tk \in [Calls -> Tasks] /\ Approved(tk)
  <2>1. s.task \in [Calls -> Tasks]
    BY <1>1 DEF Shared
  <2>2. ASSUME NEW c \in Calls, NEW w \in BOOLEAN
        PROVE  /\ [s.task[c] EXCEPT !.wanted = w] \in Tasks
               /\ [s.task[c] EXCEPT !.wanted = w].approved = s.task[c].approved
               /\ [s.task[c] EXCEPT !.wanted = w].said = s.task[c].said
    BY <2>1 DEF Tasks
  <2> QED
    BY <1>1, <2>2 DEF Approved
<1> HIDE DEF tk, es
<1>4. v \in Shared /\ v.mode = s.mode /\ v.task = tk
  BY <1>1, <1>2, <1>3 DEF Shared
<1>5. Becomes(p, v)
  BY DEF Result, tk, es
<1> HIDE DEF v
<1> QED
  BY <1>1, <1>3, <1>4, <1>5, ProcessKeeps

\* A task that is at another place, or is over, and what it reports.
LEMMA TaskMoves ==
    ASSUME Bounded, IInv, NEW p \in Processes, NEW c \in Calls, NEW t \in Tasks,
           t.approved => t.said = "yes", NEW es \in Seq(Events),
           Becomes(p, [shared[p] EXCEPT !.task[c] = t, !.events = es])
    PROVE  IInv'
<1> DEFINE s == shared[p]
           v == [s EXCEPT !.task[c] = t, !.events = es]
<1>1. s \in Shared /\ Approved(s.task)
  BY DEF IInv, Typed, Agreed
<1>2. v \in Shared /\ v.mode = s.mode /\ v.task = [s.task EXCEPT ![c] = t]
  BY <1>1 DEF Shared
<1>3. Approved(v.task)
  BY <1>1, <1>2 DEF Shared, Approved
<1> HIDE DEF v
<1>4. Becomes(p, v)
  BY DEF v
<1> QED
  BY <1>1, <1>2, <1>3, <1>4, ProcessKeeps

LEMMA NoTaskIs == NoTask \in Tasks /\ ~NoTask.approved /\ NoTask.at = "none"
BY DEF NoTask, Tasks, Kinds

LEMMA TaskStep ==
    ASSUME Bounded, IInv, NEW p \in Processes, NEW c \in Calls, Task(p, c)
    PROVE  IInv'
<1> DEFINE s == shared[p]
           t == s.task[c]
<1>1. /\ s \in Shared /\ t \in Tasks /\ (t.approved => t.said = "yes")
      /\ s.events \in Seq(Events) /\ s.task \in [Calls -> Tasks]
      /\ c \in 0..MaxCalls
  BY DEF IInv, Typed, Agreed, Approved, Shared, Calls, Bounded
<1>2. ASSUME Over(p, c)
      PROVE  IInv'
  <2> DEFINE done == [NoTask EXCEPT !.at = "done", !.wanted = FALSE]
             es == Append(s.events, Event("ToolFinished", c))
  <2>1. done \in Tasks /\ ~done.approved
    BY DEF NoTask, Tasks, Kinds
  <2>2. es \in Seq(Events)
    BY <1>1, EventTyped DEF Kind
  <2>3. Becomes(p, [shared[p] EXCEPT !.task[c] = done, !.events = es])
    BY <1>2 DEF Over
  <2> HIDE DEF done, es
  <2> QED
    BY <2>1, <2>2, <2>3, TaskMoves
<1>3. ASSUME NEW at \in {"deciding", "waiting", "running"}, NEW report \in Seq(Events),
             Goes(p, c, at, report)
      PROVE  IInv'
  <2> DEFINE moved == [t EXCEPT !.at = at]
             es == s.events \o report
  <2>1. moved \in Tasks /\ (moved.approved => moved.said = "yes")
    BY <1>1 DEF Tasks
  <2>2. es \in Seq(Events)
    BY <1>1
  <2>3. Becomes(p, [shared[p] EXCEPT !.task[c] = moved, !.events = es])
    BY <1>1, <1>3 DEF Goes, Shared
  <2> HIDE DEF moved, es
  <2> QED
    BY <2>1, <2>2, <2>3, TaskMoves
<1>4. /\ <<>> \in Seq(Events)
      /\ <<Event("ToolStarted", c)>> \in Seq(Events)
      /\ <<Event("ApprovalNeeded", c)>> \in Seq(Events)
  BY <1>1 DEF Event, Events, Kind
<1>5. CASE Begin(p, c)
  BY <1>3, <1>4, <1>5 DEF Begin
<1>6. CASE Gate(p, c)
  <2>1. \/ Over(p, c) \/ Goes(p, c, "waiting", <<Event("ApprovalNeeded", c)>>)
        \/ Goes(p, c, "running", <<>>)
    BY <1>6 DEF Gate
  <2> QED
    BY <1>2, <1>3, <1>4, <2>1
<1>7. CASE Answered(p, c)
  <2>1. CASE t.said = "yes"
    <3> DEFINE moved == [t EXCEPT !.at = "deciding", !.approved = TRUE]
    <3>1. moved \in Tasks /\ moved.said = "yes"
      BY <1>1, <2>1 DEF Tasks
    <3>2. Becomes(p, [s EXCEPT !.task[c].at = "deciding", !.task[c].approved = TRUE])
      BY <1>7, <2>1 DEF Answered
    <3>3. [s EXCEPT !.task[c].at = "deciding", !.task[c].approved = TRUE]
             = [s EXCEPT !.task[c] = moved, !.events = s.events]
      BY <1>1 DEF Shared
    <3>4. Becomes(p, [shared[p] EXCEPT !.task[c] = moved, !.events = s.events])
      BY <3>2, <3>3
    <3> HIDE DEF moved
    <3> QED
      BY <1>1, <3>1, <3>4, TaskMoves
  <2>2. CASE t.said # "yes"
    BY <1>2, <1>7, <2>2 DEF Answered
  <2> QED
    BY <2>1, <2>2
<1>8. CASE Finish(p, c)
  BY <1>2, <1>8 DEF Finish
<1>9. CASE \E kind \in Kinds : ToolCall(p, c, kind)
  <2>1. PICK kind \in Kinds : ToolCall(p, c, kind)
    BY <1>9
  <2> DEFINE new == [NoTask EXCEPT !.at = "spawned", !.kind = kind]
  <2>2. new \in Tasks /\ ~new.approved
    BY DEF NoTask, Tasks
  <2> HIDE DEF new
  <2>3. Becomes(p, [s EXCEPT !.task[c] = new])
    BY <2>1 DEF ToolCall, new
  <2>4. [s EXCEPT !.task[c] = new] = [s EXCEPT !.task[c] = new, !.events = s.events]
    BY <1>1 DEF Shared
  <2>5. Becomes(p, [shared[p] EXCEPT !.task[c] = new, !.events = s.events])
    BY <2>3, <2>4
  <2> QED
    BY <1>1, <2>2, <2>5, TaskMoves
<1> QED
  BY <1>5, <1>6, <1>7, <1>8, <1>9 DEF Task

-----------------------------------------------------------------------------
(* The panel                                                               *)

LEMMA LetGoKeeps ==
    ASSUME Bounded, IInv, NEW p
    PROVE  /\ LetGo(p) \in [Processes -> Shared]
           /\ \A q \in Processes : /\ LetGo(p)[q].mode = shared[q].mode
                                   /\ LetGo(p)[q].task = shared[q].task
                                   /\ LetGo(p)[q].events = shared[q].events
<1>1. shared \in [Processes -> Shared]
  BY DEF IInv, Typed
<1>2. \A q \in Processes : /\ [shared[q] EXCEPT !.held = FALSE] \in Shared
                           /\ [shared[q] EXCEPT !.held = FALSE].mode = shared[q].mode
                           /\ [shared[q] EXCEPT !.held = FALSE].task = shared[q].task
                           /\ [shared[q] EXCEPT !.held = FALSE].events = shared[q].events
  BY <1>1, ZenonT(60) DEF Shared
<1> QED
  BY <1>1, <1>2 DEF LetGo

\* A step of the panel that leaves the mode alone, talks to the same process or
\* to none, and lets processes go.
LEMMA PanelKeeps ==
    ASSUME Bounded, IInv,
           config' = config, mode' = mode, connected' \in BOOLEAN,
           minds' \in 0..MaxMinds, UNCHANGED <<turns, latest>>,
           chat' \in Chat, chat'.generation <= chat.generation,
           chat'.session \in {0, chat.session},
           shared' \in [Processes -> Shared],
           \A q \in Processes : shared'[q].mode = shared[q].mode
                                /\ (Approved(shared[q].task) => Approved(shared'[q].task))
    PROVE  IInv'
<1>1. Typed'
  BY DEF IInv, Typed
<1>2. Numbered'
  BY DEF IInv, Typed, Numbered, Chat, Bounded
<1>3. Governed'
  <2> SUFFICES ASSUME chat'.session # 0
               PROVE  shared'[chat'.session].mode = mode'
    BY DEF Governed
  <2>1. chat'.session = chat.session /\ chat.session \in Processes
    BY SessionIsProcess
  <2> QED
    BY <2>1 DEF IInv, Governed
<1>4. Agreed'
  BY DEF IInv, Agreed, Approved
<1> QED
  BY <1>1, <1>2, <1>3, <1>4 DEF IInv

LEMMA SettledTyped ==
    ASSUME NEW tool \in [Calls -> {"none", "Running", "AwaitingApproval", "Over"}]
    PROVE  Settled(tool) \in [Calls -> {"none", "Running", "AwaitingApproval", "Over"}]
BY DEF Settled

LEMMA AppliedKeeps ==
    ASSUME Bounded, IInv, NEW e \in Events
    PROVE  /\ Applied(e) \in Chat /\ Applied(e).generation = chat.generation
           /\ Applied(e).session \in {0, chat.session}
<1> DEFINE States == {"none", "Running", "AwaitingApproval", "Over"}
<1>1. chat \in Chat /\ chat.tool \in [Calls -> States] /\ 0 \in 0..MaxAtOnce
  BY DEF IInv, Typed, Chat, Bounded
<1>2. Settled(chat.tool) \in [Calls -> States]
  BY <1>1, SettledTyped
<1>3. ASSUME NEW f \in [Calls -> States]
      PROVE  /\ [chat EXCEPT !.tool = f] \in Chat
             /\ [chat EXCEPT !.tool = f].generation = chat.generation
             /\ [chat EXCEPT !.tool = f].session = chat.session
  BY <1>1 DEF Chat
<1>4. CASE e.kind = "ToolStarted"
  <2> DEFINE f == [chat.tool EXCEPT ![e.call] = "Running"]
  <2>1. f \in [Calls -> States]
    BY <1>1
  <2>2. Applied(e) = [chat EXCEPT !.tool = f]
    BY <1>1, <1>4 DEF Applied, Chat
  <2> HIDE DEF f
  <2> QED
    BY <1>3, <2>1, <2>2
<1>5. CASE e.kind = "ApprovalNeeded"
  <2> DEFINE f == [chat.tool EXCEPT ![e.call] = IF @ = "none" THEN @ ELSE "AwaitingApproval"]
  <2>1. f \in [Calls -> States]
    BY <1>1
  <2>2. Applied(e) = [chat EXCEPT !.tool = f]
    BY <1>1, <1>5 DEF Applied, Chat
  <2> HIDE DEF f
  <2> QED
    BY <1>3, <2>1, <2>2
<1>6. CASE e.kind = "ToolFinished"
  <2> DEFINE f == [chat.tool EXCEPT ![e.call] = IF @ = "none" THEN @ ELSE "Over"]
  <2>1. f \in [Calls -> States]
    BY <1>1
  <2>2. Applied(e) = [chat EXCEPT !.tool = f]
    BY <1>1, <1>6 DEF Applied, Chat
  <2> HIDE DEF f
  <2> QED
    BY <1>3, <2>1, <2>2
<1>7. CASE e.kind = "Exited"
  BY <1>1, <1>2, <1>7 DEF Applied, Chat
<1>8. CASE e.kind \in {"TurnFinished", "Stopped"}
  BY <1>1, <1>2, <1>8 DEF Applied, Chat
<1> QED
  BY <1>4, <1>5, <1>6, <1>7, <1>8 DEF Events, Kind

LEMMA PumpStep ==
    ASSUME Bounded, IInv, NEW p \in Processes, Pump(p)
    PROVE  IInv'
<1> DEFINE e == Head(shared[p].events)
           heard == chat.open /\ shared[p].generation = chat.generation
           gone == IF heard /\ e.kind = "Exited" THEN chat.session ELSE 0
           ls == LetGo(gone)
           es == Tail(shared[p].events)
<1>1. /\ shared[p].events \in Seq(Events) /\ shared[p].events # <<>>
      /\ chat' = IF heard THEN Applied(e) ELSE chat
      /\ shared' = [ls EXCEPT ![p].events = Tail(ls[p].events)]
      /\ UNCHANGED <<config, connected, mode, minds, turns, latest>>
  BY DEF Pump, IInv, Typed, Shared
<1>2. e \in Events /\ es \in Seq(Events)
  BY <1>1
<1> HIDE DEF e, heard, es
<1>3. /\ ls \in [Processes -> Shared]
      /\ \A q \in Processes : ls[q].mode = shared[q].mode /\ ls[q].task = shared[q].task
                              /\ ls[q].events = shared[q].events
  BY LetGoKeeps
<1> HIDE DEF ls
<1>4. /\ [ls[p] EXCEPT !.events = es] \in Shared
      /\ [ls[p] EXCEPT !.events = es].mode = shared[p].mode
      /\ [ls[p] EXCEPT !.events = es].task = shared[p].task
  BY <1>2, <1>3, ZenonT(60) DEF Shared
<1>5. shared' = [ls EXCEPT ![p] = [ls[p] EXCEPT !.events = es]]
  BY <1>1, <1>3 DEF es
<1>6. /\ shared' \in [Processes -> Shared]
      /\ \A q \in Processes : shared'[q].mode = shared[q].mode /\ shared'[q].task = shared[q].task
  BY <1>3, <1>4, <1>5
<1>7. /\ chat' \in Chat /\ chat'.generation <= chat.generation
      /\ chat'.session \in {0, chat.session}
  <2>1. chat \in Chat /\ chat.generation \in Nat
    BY DEF IInv, Typed, Chat, Bounded
  <2> QED
    BY <1>1, <1>2, <2>1, AppliedKeeps
<1>8. connected' \in BOOLEAN /\ minds' \in 0..MaxMinds
  BY <1>1 DEF IInv, Typed
<1> QED
  BY <1>1, <1>6, <1>7, <1>8, PanelKeeps

LEMMA SetModeStep ==
    ASSUME Bounded, IInv, NEW m \in Modes, SetMode(m)
    PROVE  IInv'
<1>1. /\ shared \in [Processes -> Shared] /\ minds < MaxMinds /\ minds' = minds + 1 /\ mode' = m
      /\ shared' = [p \in Processes |->
                      IF p = chat.session THEN [shared[p] EXCEPT !.mode = m] ELSE shared[p]]
      /\ UNCHANGED <<config, connected, turns, latest, chat>>
  BY DEF SetMode, IInv, Typed
<1>2. \A p \in Processes : /\ [shared[p] EXCEPT !.mode = m] \in Shared
                           /\ [shared[p] EXCEPT !.mode = m].mode = m
                           /\ [shared[p] EXCEPT !.mode = m].task = shared[p].task
  BY <1>1, ZenonT(60) DEF Shared
<1>3. /\ shared' \in [Processes -> Shared]
      /\ \A p \in Processes : /\ shared'[p].task = shared[p].task
                              /\ p = chat.session => shared'[p].mode = m
  BY <1>1, <1>2
<1>4. minds' \in 0..MaxMinds
  BY <1>1 DEF IInv, Typed, Bounded
<1>5. Typed' /\ Numbered'
  BY <1>1, <1>3, <1>4 DEF IInv, Typed, Numbered
<1>6. Governed'
  BY <1>1, <1>3, SessionIsProcess DEF Governed
<1>7. Agreed'
  BY <1>3 DEF IInv, Agreed
<1> QED
  BY <1>5, <1>6, <1>7 DEF IInv

LEMMA SendStep ==
    ASSUME Bounded, IInv, Send
    PROVE  IInv'
<1>1. /\ turns < MaxTurns /\ turns' = turns + 1 /\ turns \in Nat /\ turns' \in 0..MaxTurns
      /\ UNCHANGED <<config, connected, mode, minds>>
      /\ chat \in Chat /\ chat.generation \in 0..turns /\ shared \in [Processes -> Shared]
  <2>1. turns < MaxTurns /\ turns' = turns + 1 /\ UNCHANGED <<config, connected, mode, minds>>
    BY DEF Send
  <2>2. /\ turns \in 0..MaxTurns /\ chat \in Chat /\ shared \in [Processes -> Shared]
        /\ chat.generation <= turns /\ MaxTurns \in Nat
    BY DEF IInv, Typed, Numbered, Bounded
  <2>3. chat.generation \in 0..MaxTurns
    BY <2>2 DEF Chat
  <2> QED
    BY <2>1, <2>2, <2>3
<1>2. CASE /\ chat.session # 0
           /\ shared' = [shared EXCEPT ![chat.session].outbox = Append(@, "user")]
           /\ chat' = [chat EXCEPT !.busy = TRUE]
           /\ latest' = latest
  <2> DEFINE p == chat.session
             box == Append(shared[p].outbox, "user")
  <2>1. p \in Processes
    BY <1>2, SessionIsProcess
  <2>2. shared[p] \in Shared
    BY <1>1, <2>1
  <2>3. box \in Seq({"user", "interrupt"})
    BY <2>2 DEF Shared
  <2>4. shared' = [shared EXCEPT ![p] = [shared[p] EXCEPT !.outbox = box]]
    BY <1>2
  <2> HIDE DEF box
  <2>5. /\ [shared[p] EXCEPT !.outbox = box] \in Shared
        /\ [shared[p] EXCEPT !.outbox = box].mode = shared[p].mode
        /\ [shared[p] EXCEPT !.outbox = box].task = shared[p].task
    BY <2>2, <2>3 DEF Shared
  <2>6. /\ shared' \in [Processes -> Shared]
        /\ \A q \in Processes : shared'[q].mode = shared[q].mode /\ shared'[q].task = shared[q].task
    BY <1>1, <2>1, <2>4, <2>5
  <2>7. chat' \in Chat /\ chat'.session = p /\ chat'.generation = chat.generation
    BY <1>1, <1>2 DEF Chat
  <2>8. Typed' /\ Numbered'
    BY <1>1, <1>2, <2>6, <2>7 DEF IInv, Typed, Numbered
  <2>9. Governed' /\ Agreed'
    BY <1>1, <2>1, <2>6, <2>7, <1>2 DEF IInv, Governed, Agreed
  <2> QED
    BY <2>8, <2>9 DEF IInv
<1>3. ASSUME NEW p \in Processes, latest' = p,
             shared' = [shared EXCEPT ![p] = Start(chat.generation + 1)],
             chat' = [chat EXCEPT !.open = TRUE, !.session = p,
                                  !.generation = chat.generation + 1,
                                  !.busy = TRUE, !.ended = FALSE]
      PROVE  IInv'
  <2> DEFINE g == chat.generation + 1
  <2>1. g \in 0..MaxTurns /\ g <= turns' /\ p \in 0..MaxAtOnce
    BY <1>1 DEF Bounded, Processes
  <2>2. <<"user">> \in Seq({"user", "interrupt"}) /\ <<>> \in Seq(Events) /\ mode \in Modes
    BY DEF IInv, Typed
  <2>3. NoTask \in Tasks /\ ~NoTask.approved
    BY NoTaskIs
  <2> HIDE DEF g
  <2>4. Start(g) \in Shared /\ Start(g).mode = mode /\ Approved(Start(g).task)
    BY <2>1, <2>2, <2>3 DEF Start, NoProcess, Shared, Approved
  <2>5. chat' \in Chat /\ chat'.session = p /\ chat'.generation = g
    BY <1>1, <1>3, <2>1 DEF Chat, g
  <2>6. shared' = [shared EXCEPT ![p] = Start(g)]
    BY <1>3 DEF g
  <2>7. /\ shared' \in [Processes -> Shared] /\ shared'[p] = Start(g)
        /\ \A q \in Processes : q # p => shared'[q] = shared[q]
    BY <1>1, <2>4, <2>6
  <2>8. Typed' /\ Numbered'
    BY <1>1, <1>3, <2>1, <2>5, <2>7 DEF IInv, Typed, Numbered
  <2>9. Governed'
    BY <1>1, <2>4, <2>5, <2>7 DEF Governed
  <2>10. Agreed'
    BY <2>4, <2>7 DEF IInv, Agreed, Approved
  <2> QED
    BY <2>8, <2>9, <2>10 DEF IInv
<1> QED
  BY <1>2, <1>3 DEF Send

LEMMA AnswerStep ==
    ASSUME Bounded, IInv, NEW c \in Calls, NEW word \in {"yes", "no"}, Answer(c, word)
    PROVE  IInv'
<1> DEFINE p == chat.session
           t == [shared[p].task[c] EXCEPT !.said = word]
<1>1. /\ p \in Processes /\ shared[p] \in Shared /\ shared[p].task[c].said = "nothing"
      /\ shared' = [shared EXCEPT ![p].task[c].said = word]
      /\ UNCHANGED Window
  BY SessionIsProcess DEF Answer, IInv, Typed
<1>2. /\ shared[p].task[c] \in Tasks /\ ~shared[p].task[c].approved
      /\ shared[p].events \in Seq(Events)
  BY <1>1 DEF IInv, Agreed, Approved, Shared, Tasks
<1>3. t \in Tasks /\ ~t.approved
  BY <1>2 DEF Tasks
<1>4. shared' = [shared EXCEPT ![p] = [shared[p] EXCEPT !.task[c] = t, !.events = shared[p].events]]
  BY <1>1 DEF IInv, Typed, Shared
<1>5. Becomes(p, [shared[p] EXCEPT !.task[c] = t, !.events = shared[p].events])
  BY <1>1, <1>4 DEF Becomes
<1> HIDE DEF t, p
<1> QED
  BY <1>1, <1>2, <1>3, <1>5, TaskMoves

\* An interrupt takes no yes back.
LEMMA InterruptKeeps ==
    ASSUME NEW s \in Shared
    PROVE  /\ Interrupt(s) \in Shared /\ Interrupt(s).mode = s.mode
           /\ Approved(s.task) => Approved(Interrupt(s).task)
<1> DEFINE tk == [c \in Calls |-> IF s.task[c].at = "waiting" /\ s.task[c].said = "nothing"
                                  THEN [s.task[c] EXCEPT !.said = "no"] ELSE s.task[c]]
           box == Append(s.outbox, "interrupt")
<1>1. s.task \in [Calls -> Tasks] /\ s.outbox \in Seq({"user", "interrupt"})
  BY DEF Shared
<1>2. \A c \in Calls : /\ [s.task[c] EXCEPT !.said = "no"] \in Tasks
                       /\ [s.task[c] EXCEPT !.said = "no"].approved = s.task[c].approved
  BY <1>1 DEF Tasks
<1>3. tk \in [Calls -> Tasks] /\ (Approved(s.task) => Approved(tk))
  BY <1>1, <1>2 DEF Approved
<1>4. box \in Seq({"user", "interrupt"})
  BY <1>1
<1>5. Interrupt(s) = [s EXCEPT !.stopping = TRUE, !.outbox = box, !.task = tk]
  BY DEF Interrupt
<1> HIDE DEF tk, box
<1> QED
  BY <1>3, <1>4, <1>5 DEF Shared

LEMMA PanelStep ==
    ASSUME Bounded, IInv, Stop \/ NewChat \/ Disconnect \/ Connect
    PROVE  IInv'
<1>1. /\ shared \in [Processes -> Shared] /\ chat \in Chat /\ chat.generation \in Nat
      /\ minds \in 0..MaxMinds /\ connected \in BOOLEAN
      /\ minds < MaxMinds => minds + 1 \in 0..MaxMinds
  BY DEF IInv, Typed, Chat, Bounded
<1>2. CASE Stop
  <2> DEFINE p == chat.session
  <2>1. /\ p \in Processes /\ shared' = [shared EXCEPT ![p] = Interrupt(shared[p])]
        /\ minds < MaxMinds /\ minds' = minds + 1
        /\ UNCHANGED <<config, connected, mode, turns, latest, chat>>
    BY <1>2, SessionIsProcess DEF Stop
  <2>2. /\ Interrupt(shared[p]) \in Shared /\ Interrupt(shared[p]).mode = shared[p].mode
        /\ Approved(shared[p].task) => Approved(Interrupt(shared[p]).task)
    BY <1>1, <2>1, InterruptKeeps
  <2>3. /\ shared' \in [Processes -> Shared]
        /\ \A q \in Processes : /\ shared'[q].mode = shared[q].mode
                                /\ Approved(shared[q].task) => Approved(shared'[q].task)
    BY <1>1, <2>1, <2>2
  <2> QED
    BY <1>1, <2>1, <2>3, PanelKeeps
<1>3. CASE NewChat
  <2>1. NoChat \in Chat /\ NoChat.session = 0 /\ NoChat.generation = 0
    BY DEF Bounded, NoChat, Chat
  <2>2. /\ shared' = LetGo(chat.session) /\ chat' = NoChat
        /\ UNCHANGED <<config, connected, mode, minds, turns, latest>>
    BY <1>3 DEF NewChat
  <2>3. /\ shared' \in [Processes -> Shared]
        /\ \A q \in Processes : /\ shared'[q].mode = shared[q].mode
                                /\ Approved(shared[q].task) => Approved(shared'[q].task)
    BY <2>2, LetGoKeeps
  <2> QED
    BY <1>1, <2>1, <2>2, <2>3, PanelKeeps
<1>4. CASE Disconnect
  <2>1. Event("Exited", 0) \in Events
    BY DEF Event, Events, Kind, Bounded
  <2>2. /\ shared' = LetGo(chat.session) /\ connected' = FALSE
        /\ chat' = IF chat.open THEN Applied(Event("Exited", 0)) ELSE chat
        /\ minds < MaxMinds /\ minds' = minds + 1
        /\ UNCHANGED <<config, mode, turns, latest>>
    BY <1>4 DEF Disconnect
  <2>3. /\ shared' \in [Processes -> Shared]
        /\ \A q \in Processes : /\ shared'[q].mode = shared[q].mode
                                /\ Approved(shared[q].task) => Approved(shared'[q].task)
    BY <2>2, LetGoKeeps
  <2>4. chat' \in Chat /\ chat'.generation <= chat.generation /\ chat'.session \in {0, chat.session}
    BY <1>1, <2>1, <2>2, AppliedKeeps
  <2> QED
    BY <1>1, <2>2, <2>3, <2>4, PanelKeeps
<1>5. CASE Connect
  BY <1>1, <1>5, PanelKeeps DEF Connect
<1> QED
  BY <1>2, <1>3, <1>4, <1>5

-----------------------------------------------------------------------------

LEMMA InvariantStep ==
    ASSUME Bounded, IInv, [Next]_vars
    PROVE  IInv'
<1>1. CASE User
  BY <1>1, SetModeStep, SendStep, AnswerStep, PanelStep DEF User
<1>2. CASE \E p \in Processes : Works(p) \/ Crash(p) \/ \E c \in Calls : Task(p, c)
  BY <1>2, LoopStep, ResultStep, PumpStep, TaskStep DEF Works
<1>3. CASE UNCHANGED vars
  BY <1>3 DEF vars, IInv, Typed, Numbered, Governed, Agreed, Approved
<1> QED
  BY <1>1, <1>2, <1>3 DEF Next

LEMMA Always ==
    ASSUME Bounded
    PROVE  Spec => []IInv
BY InvariantInit, InvariantStep, PTL DEF Spec

-----------------------------------------------------------------------------
(* Which steps set a statement running                                     *)

\* No statement begins.
Quietly == \A q \in Processes, d \in Calls :
             shared'[q].task[d].at = "running" => shared[q].task[d].at = "running"

LEMMA OneQuiet ==
    ASSUME IInv, NEW p \in Processes, NEW s, shared' = [shared EXCEPT ![p] = s],
           \A d \in Calls : s.task[d].at = "running" => shared[p].task[d].at = "running"
    PROVE  Quietly
BY DEF IInv, Typed, Quietly

LEMMA LoopQuiet ==
    ASSUME IInv, NEW p \in Processes,
           Find(p) \/ Kill(p) \/ WriteOut(p) \/ Eof(p) \/ Exit(p) \/ Crash(p)
    PROVE  Quietly
<1> DEFINE s == shared[p]
<1>1. s \in Shared
  BY DEF IInv, Typed
<1>2. ASSUME NEW v, shared' = [shared EXCEPT ![p] = v], v.task = s.task
      PROVE  Quietly
  BY <1>2, OneQuiet
<1>3. CASE Find(p)
  <2>1. /\ [s EXCEPT !.loop = "driving", !.claude = "idle"].task = s.task
        /\ [s EXCEPT !.loop = "ending"].task = s.task
    BY <1>1 DEF Shared
  <2> QED
    BY <1>2, <1>3, <2>1 DEF Find, Becomes
<1>4. CASE Kill(p)
  <2>1. [s EXCEPT !.loop = "ending", !.claude = "gone"].task = s.task
    BY <1>1 DEF Shared
  <2> QED
    BY <1>2, <1>4, <2>1 DEF Kill, Becomes
<1>5. CASE WriteOut(p)
  <2> DEFINE sent == [s EXCEPT !.outbox = Tail(@)]
  <2>1. s.outbox # <<>> /\ s.outbox \in Seq({"user", "interrupt"})
    BY <1>1, <1>5 DEF WriteOut, Shared
  <2>2. Head(s.outbox) = "user" \/ Head(s.outbox) = "interrupt"
    BY <2>1
  <2>3. \/ Becomes(p, [sent EXCEPT !.loop = "ending"])
        \/ Becomes(p, [sent EXCEPT !.claude = "working"])
        \/ Becomes(p, [sent EXCEPT !.told = s.claude = "working"])
    BY <1>5, <2>2 DEF WriteOut, sent
  <2>4. /\ [sent EXCEPT !.loop = "ending"].task = s.task
        /\ [sent EXCEPT !.claude = "working"].task = s.task
        /\ [sent EXCEPT !.told = s.claude = "working"].task = s.task
    BY <1>1 DEF Shared
  <2> HIDE DEF sent
  <2> QED
    BY <1>2, <2>3, <2>4 DEF Becomes
<1>6. CASE Eof(p)
  <2>1. [s EXCEPT !.loop = "ending"].task = s.task
    BY <1>1 DEF Shared
  <2> QED
    BY <1>2, <1>6, <2>1 DEF Eof, Becomes
<1>7. CASE Exit(p)
  <2> DEFINE v == [s EXCEPT !.loop = "over", !.claude = "gone", !.told = FALSE,
                            !.outbox = <<>>, !.events = Append(@, Event("Exited", 0))]
  <2>1. v.task = s.task
    BY <1>1 DEF Shared
  <2>2. shared' = [shared EXCEPT ![p] = v]
    BY <1>7 DEF Exit, Becomes
  <2> HIDE DEF v
  <2> QED
    BY <1>2, <2>1, <2>2
<1>8. CASE Crash(p)
  <2>1. [s EXCEPT !.claude = "gone"].task = s.task
    BY <1>1 DEF Shared
  <2> QED
    BY <1>2, <1>8, <2>1 DEF Crash, Becomes
<1> QED
  BY <1>3, <1>4, <1>5, <1>6, <1>7, <1>8

LEMMA ResultQuiet ==
    ASSUME IInv, NEW p \in Processes, Result(p)
    PROVE  Quietly
<1> DEFINE s == shared[p]
           tk == [c \in Calls |-> [s.task[c] EXCEPT !.wanted = s.task[c].at = "none"]]
           v == [s EXCEPT !.claude = "idle", !.told = FALSE, !.stopping = FALSE, !.task = tk,
                   !.events = Append(@, Event(IF s.stopping THEN "Stopped" ELSE "TurnFinished", 0))]
<1>1. s \in Shared /\ s.task \in [Calls -> Tasks]
  BY DEF IInv, Typed, Shared
<1>2. \A d \in Calls : tk[d].at = s.task[d].at
  BY <1>1 DEF Tasks
<1>3. shared' = [shared EXCEPT ![p] = v]
  BY DEF Result, Becomes
<1> HIDE DEF tk
<1>4. v.task = tk
  BY <1>1 DEF Shared
<1> HIDE DEF v
<1>5. \A d \in Calls : v.task[d].at = "running" => s.task[d].at = "running"
  BY <1>2, <1>4
<1> QED
  BY <1>3, <1>5, OneQuiet

LEMMA PumpQuiet ==
    ASSUME Bounded, IInv, NEW p \in Processes, Pump(p)
    PROVE  Quietly
<1> DEFINE gone == IF /\ chat.open /\ shared[p].generation = chat.generation
                      /\ Head(shared[p].events).kind = "Exited"
                   THEN chat.session ELSE 0
           ls == LetGo(gone)
           es == Tail(shared[p].events)
<1>0. es = Tail(ls[p].events)
  BY LetGoKeeps
<1>1. shared' = [ls EXCEPT ![p].events = es]
  BY <1>0 DEF Pump
<1>2. /\ ls \in [Processes -> Shared]
      /\ \A q \in Processes : ls[q].task = shared[q].task
  BY LetGoKeeps
<1> HIDE DEF ls, es
<1>3. [ls[p] EXCEPT !.events = es].task = shared[p].task
  BY <1>2 DEF Shared
<1>4. shared' = [ls EXCEPT ![p] = [ls[p] EXCEPT !.events = es]]
  BY <1>1
<1>5. \A q \in Processes : shared'[q].task = shared[q].task
  BY <1>2, <1>3, <1>4
<1> QED
  BY <1>5 DEF Quietly

LEMMA PanelQuiet ==
    ASSUME Bounded, IInv, User
    PROVE  Quietly
<1> DEFINE p == chat.session
<1>1. shared \in [Processes -> Shared] /\ (p # 0 => p \in Processes)
  BY SessionIsProcess DEF IInv, Typed
<1>2. ASSUME NEW m \in Modes, SetMode(m)
      PROVE  Quietly
  <2>1. \A q \in Processes : [shared[q] EXCEPT !.mode = m].task = shared[q].task
    BY <1>1 DEF Shared
  <2>2. \A q \in Processes : shared'[q].task = shared[q].task
    BY <1>2, <2>1 DEF SetMode
  <2> QED
    BY <2>2 DEF Quietly
<1>3. CASE Send
  <2>1. CASE p # 0 /\ shared' = [shared EXCEPT ![p].outbox = Append(@, "user")]
    <3> DEFINE box == Append(shared[p].outbox, "user")
    <3>1. shared' = [shared EXCEPT ![p] = [shared[p] EXCEPT !.outbox = box]] /\ p \in Processes
      BY <1>1, <2>1
    <3> HIDE DEF box
    <3>2. [shared[p] EXCEPT !.outbox = box].task = shared[p].task
      BY <1>1, <3>1 DEF Shared
    <3> QED
      BY <3>1, <3>2, OneQuiet, ZenonT(60)
  <2>2. ASSUME NEW q \in Processes, shared' = [shared EXCEPT ![q] = Start(chat.generation + 1)]
        PROVE  Quietly
    <3>1. \A d \in Calls : Start(chat.generation + 1).task[d].at = "none"
      BY NoTaskIs DEF Start, NoProcess
    <3> QED
      BY <2>2, <3>1, OneQuiet
  <2> QED
    BY <1>3, <2>1, <2>2 DEF Send
<1>4. CASE Stop
  <2> DEFINE s == shared[p]
             tk == [c \in Calls |-> IF s.task[c].at = "waiting" /\ s.task[c].said = "nothing"
                                    THEN [s.task[c] EXCEPT !.said = "no"] ELSE s.task[c]]
  <2>1. p \in Processes /\ shared' = [shared EXCEPT ![p] = Interrupt(s)]
    BY <1>1, <1>4 DEF Stop
  <2>2. s \in Shared /\ s.task \in [Calls -> Tasks]
    BY <1>1, <2>1 DEF Shared
  <2>3. \A d \in Calls : tk[d].at = s.task[d].at
    BY <2>2 DEF Tasks
  <2>4. Interrupt(s) = [s EXCEPT !.stopping = TRUE, !.outbox = Append(@, "interrupt"), !.task = tk]
    BY DEF Interrupt
  <2> HIDE DEF tk
  <2>5. Interrupt(s).task = tk
    BY <2>2, <2>4 DEF Shared
  <2>6. \A d \in Calls : Interrupt(s).task[d].at = "running" => s.task[d].at = "running"
    BY <2>3, <2>5
  <2> QED
    BY <2>1, <2>6, OneQuiet
<1>5. CASE NewChat \/ Disconnect
  <2>1. shared' = LetGo(p)
    BY <1>5 DEF NewChat, Disconnect
  <2>2. \A q \in Processes : shared'[q].task = shared[q].task
    BY <2>1, LetGoKeeps
  <2> QED
    BY <2>2 DEF Quietly
<1>6. CASE Connect
  BY <1>6 DEF Connect, Quietly
<1>7. ASSUME NEW c \in Calls, NEW word \in {"yes", "no"}, Answer(c, word)
      PROVE  Quietly
  <2> DEFINE tk == [shared[p].task EXCEPT ![c] = [shared[p].task[c] EXCEPT !.said = word]]
  <2>1. p \in Processes /\ shared' = [shared EXCEPT ![p].task[c].said = word]
    BY <1>1, <1>7 DEF Answer
  <2>2. shared[p] \in Shared /\ shared[p].task \in [Calls -> Tasks]
    BY <1>1, <2>1 DEF Shared
  <2>3. \A d \in Calls : tk[d].at = shared[p].task[d].at
    BY <2>2 DEF Tasks
  <2>4. shared' = [shared EXCEPT ![p] = [shared[p] EXCEPT !.task = tk]]
    BY <1>1, <2>1, <2>2 DEF Shared
  <2> HIDE DEF tk
  <2>5. [shared[p] EXCEPT !.task = tk].task = tk
    BY <2>2 DEF Shared
  <2> DEFINE v == [shared[p] EXCEPT !.task = tk]
  <2>6. \A d \in Calls : v.task[d].at = "running" => shared[p].task[d].at = "running"
    BY <2>3, <2>5
  <2> HIDE DEF v
  <2>7. p \in Processes /\ shared' = [shared EXCEPT ![p] = v]
    BY <2>1, <2>4 DEF v
  <2> HIDE DEF p
  <2> QED
    BY <2>6, <2>7, OneQuiet
<1> QED
  BY <1>2, <1>3, <1>4, <1>5, <1>6, <1>7 DEF User

\* Of a task's own steps, only the gate lets its statement begin.
LEMMA TaskBegins ==
    ASSUME Bounded, IInv, NEW p \in Processes, NEW c \in Calls, Task(p, c),
           NEW q \in Processes, NEW d \in Calls,
           shared[q].task[d].at # "running", shared'[q].task[d].at = "running"
    PROVE  /\ q = p /\ d = c /\ Gate(p, c)
           /\ \E verdict \in {"ask", "run"} :
                /\ verdict = Decide(shared[p].mode, shared[p].task[c].kind)
                /\ verdict = "ask" => shared[p].task[c].approved
<1> DEFINE s == shared[p]
<1>1. /\ shared \in [Processes -> Shared] /\ s \in Shared /\ s.task \in [Calls -> Tasks]
      /\ s.task[c] \in Tasks
  BY DEF IInv, Typed, Shared
<1>2. ASSUME NEW t \in Tasks, NEW es, t.at # "running",
             shared' = [shared EXCEPT ![p] = [s EXCEPT !.task[c] = t, !.events = es]]
      PROVE  FALSE
  <2> DEFINE v == [s EXCEPT !.task[c] = t, !.events = es]
  <2>1. v.task = [s.task EXCEPT ![c] = t]
    BY <1>1 DEF Shared
  <2>2. \A e \in Calls : v.task[e].at = "running" => s.task[e].at = "running"
    BY <1>1, <1>2, <2>1
  <2> HIDE DEF v
  <2>3. Quietly
    BY <1>2, <2>2, OneQuiet DEF v
  <2> QED
    BY <2>3 DEF Quietly
<1>3. ASSUME Over(p, c)
      PROVE  FALSE
  <2> DEFINE done == [NoTask EXCEPT !.at = "done", !.wanted = FALSE]
             es == Append(s.events, Event("ToolFinished", c))
  <2>1. done \in Tasks /\ done.at # "running"
    BY DEF NoTask, Tasks, Kinds
  <2>2. shared' = [shared EXCEPT ![p] = [s EXCEPT !.task[c] = done, !.events = es]]
    BY <1>3 DEF Over, Becomes
  <2> HIDE DEF done, es
  <2> QED
    BY <1>2, <2>1, <2>2
<1>4. ASSUME NEW at \in {"deciding", "waiting"}, NEW report, Goes(p, c, at, report)
      PROVE  FALSE
  <2> DEFINE moved == [s.task[c] EXCEPT !.at = at]
             es == s.events \o report
  <2>1. moved \in Tasks /\ moved.at # "running"
    BY <1>1, <1>4 DEF Tasks
  <2>2. shared' = [shared EXCEPT ![p] = [s EXCEPT !.task[c] = moved, !.events = es]]
    BY <1>1, <1>4 DEF Goes, Becomes, Shared
  <2> HIDE DEF moved, es
  <2> QED
    BY <1>2, <2>1, <2>2
<1>5. ~Begin(p, c)
  BY <1>4 DEF Begin
<1>6. ~Finish(p, c)
  BY <1>3 DEF Finish
<1>7. ~Answered(p, c)
  <2> SUFFICES ASSUME Answered(p, c) PROVE FALSE
    OBVIOUS
  <2> DEFINE moved == [s.task[c] EXCEPT !.at = "deciding", !.approved = TRUE]
  <2>1. Becomes(p, [s EXCEPT !.task[c].at = "deciding", !.task[c].approved = TRUE])
    BY <1>3 DEF Answered
  <2>2. [s EXCEPT !.task[c].at = "deciding", !.task[c].approved = TRUE]
           = [s EXCEPT !.task[c] = moved, !.events = s.events]
    BY <1>1 DEF Shared
  <2>3. moved \in Tasks /\ moved.at # "running"
    BY <1>1 DEF Tasks
  <2>4. shared' = [shared EXCEPT ![p] = [s EXCEPT !.task[c] = moved, !.events = s.events]]
    BY <2>1, <2>2 DEF Becomes
  <2> HIDE DEF moved
  <2> QED
    BY <1>2, <2>3, <2>4
<1>8. ~\E kind \in Kinds : ToolCall(p, c, kind)
  <2> SUFFICES ASSUME NEW kind \in Kinds, ToolCall(p, c, kind) PROVE FALSE
    OBVIOUS
  <2> DEFINE new == [NoTask EXCEPT !.at = "spawned", !.kind = kind]
  <2>1. new \in Tasks /\ new.at # "running"
    BY DEF NoTask, Tasks
  <2> HIDE DEF new
  <2>2. Becomes(p, [s EXCEPT !.task[c] = new])
    BY DEF ToolCall, new
  <2>3. [s EXCEPT !.task[c] = new] = [s EXCEPT !.task[c] = new, !.events = s.events]
    BY <1>1 DEF Shared
  <2>4. shared' = [shared EXCEPT ![p] = [s EXCEPT !.task[c] = new, !.events = s.events]]
    BY <2>2, <2>3 DEF Becomes
  <2> QED
    BY <1>2, <2>1, <2>4
<1>9. Gate(p, c)
  BY <1>5, <1>6, <1>7, <1>8 DEF Task
<1>10. /\ Goes(p, c, "running", <<>>)
       /\ \E verdict \in {"ask", "run"} :
            /\ verdict = Decide(s.mode, s.task[c].kind)
            /\ verdict = "ask" => s.task[c].approved
  BY <1>3, <1>4, <1>9 DEF Gate
<1>11. q = p /\ d = c
  <2>1. [s EXCEPT !.task[c].at = "running", !.events = @ \o <<>>].task
          = [s.task EXCEPT ![c] = [s.task[c] EXCEPT !.at = "running"]]
    BY <1>1 DEF Shared
  <2>2. shared'[p].task = [s.task EXCEPT ![c] = [s.task[c] EXCEPT !.at = "running"]]
        /\ \A r \in Processes : r # p => shared'[r] = shared[r]
    BY <1>1, <1>10, <2>1 DEF Goes, Becomes
  <2> QED
    BY <1>1, <2>2
<1> QED
  BY <1>9, <1>10, <1>11

\* What the panel's mode and the connection ask of a write that begins.
LEMMA WriteIsAllowed ==
    ASSUME Bounded, IInv, [Next]_vars, NEW p \in Processes, NEW c \in Calls,
           p = chat.session, shared[p].task[c].kind = "write",
           shared[p].task[c].at # "running", shared'[p].task[c].at = "running"
    PROVE  /\ ~config.read_only /\ mode # "ReadOnly"
           /\ mode = "Ask" \/ config.production => shared[p].task[c].said = "yes"
<1>1. ~Quietly
  BY DEF Quietly
<1>2. ~UNCHANGED vars
  BY DEF vars
<1>3. ~User
  BY <1>1, PanelQuiet
<1>4. PICK q \in Processes : Works(q) \/ Crash(q) \/ \E d \in Calls : Task(q, d)
  BY <1>2, <1>3 DEF Next
<1>5. ~Works(q) /\ ~Crash(q)
  BY <1>1, LoopQuiet, ResultQuiet, PumpQuiet DEF Works
<1>6. PICK d \in Calls : Task(q, d)
  BY <1>4, <1>5
<1>7. \E verdict \in {"ask", "run"} :
        /\ verdict = Decide(shared[p].mode, shared[p].task[c].kind)
        /\ verdict = "ask" => shared[p].task[c].approved
  BY <1>6, TaskBegins
<1>8. shared[p].mode = mode
  <2>1. p # 0
    BY DEF Processes
  <2> QED
    BY <2>1 DEF IInv, Governed
<1>9. shared[p].task[c].approved => shared[p].task[c].said = "yes"
  BY DEF IInv, Agreed, Approved
<1>10. Decide(mode, "write") \in {"ask", "run"}
       => /\ ~config.read_only /\ mode # "ReadOnly"
          /\ mode = "Ask" \/ config.production => Decide(mode, "write") = "ask"
  BY DEF Decide, IInv, Typed
<1> QED
  BY <1>7, <1>8, <1>9, <1>10

-----------------------------------------------------------------------------

\* The state of the panel, of the processes and of their tool calls is always
\* well formed (AssistantChat, Session, Shared, call_tool).
THEOREM TypeCorrect == ASSUME Bounded PROVE Spec => []TypeOK
<1>1. IInv => TypeOK
  BY DEF IInv, Typed, Chat, Shared, TypeOK
<1> QED
  BY <1>1, Always, PTL

\* The mode the panel shows governs the conversation it shows: however its
\* changes, the answers and the stops fall between the steps of the calls' own
\* tasks, a write begins only if the connection and that mode let it, and where
\* they ask, only after a yes (decide, run_query, set_assistant_mode).
THEOREM WritesCorrect == ASSUME Bounded PROVE Spec => WritesAllowed
<1> DEFINE Allowed == \A p \in Processes, c \in Calls :
       /\ p = chat.session
       /\ shared[p].task[c].kind = "write"
       /\ shared[p].task[c].at # "running" /\ shared'[p].task[c].at = "running"
       => /\ ~config.read_only /\ mode # "ReadOnly"
          /\ mode = "Ask" \/ config.production => shared[p].task[c].said = "yes"
<1>1. IInv /\ [Next]_vars => [Allowed]_vars
  BY WriteIsAllowed
<1> HIDE DEF Allowed
<1>2. Spec => [][Allowed]_vars
  BY <1>1, Always, PTL DEF Spec
<1> QED
  BY <1>2 DEF Allowed, WritesAllowed
================================================================================

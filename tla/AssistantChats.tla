----------------------------- MODULE AssistantChats -----------------------------
(* The assistant of one connection: dbui-app/src/assistant.rs and the panel in *)
(* dbui-ui/src/components/assistant.rs. A conversation is held by a process of *)
(* the user's own claude, whose tool calls run as tasks beside the loop that   *)
(* drives the process; what they report reaches the window through a queue.    *)
EXTENDS Integers, Sequences

CONSTANTS
  MaxAtOnce,  \* processes at a time
  MaxTurns,   \* messages ever sent
  MaxCalls,   \* tool calls of one process
  MaxMinds    \* changes of mind: of the mode, to stop, to close the connection

VARIABLES
  config,     \* the ConnectionConfig's read_only and environment.confirms_writes()
  connected,  \* the workspace holds an open driver
  mode,       \* DbUi::assistant_mode
  minds,      \* changes of mind so far
  turns,      \* messages sent so far
  latest,     \* the process started last, or 0
  chat,       \* the AssistantChat of the connection
  shared      \* per process: Shared, its drive loop, claude and the tasks

vars == <<config, connected, mode, minds, turns, latest, chat, shared>>

Processes == 1..MaxAtOnce
Calls     == 1..MaxCalls
Modes     == {"ReadOnly", "Ask", "FullAccess"}
\* list_tables and describe_table are reads: nothing gates them either. The
\* connection of its own that a read is run on is left out.
Kinds     == {"read", "write"}

\* A read-only connection is one whatever its environment.
Configs == {k \in [read_only : BOOLEAN, production : BOOLEAN] : ~(k.read_only /\ k.production)}

Event(kind, call) == [kind |-> kind, call |-> call]
Kind  == {"ToolStarted", "ApprovalNeeded", "ToolFinished", "TurnFinished", "Stopped", "Exited"}
Events == [kind : Kind, call : 0..MaxCalls]

NoTask == [at |-> "none", kind |-> "read", wanted |-> TRUE, approved |-> FALSE, said |-> "nothing"]
Tasks == [at : {"none", "spawned", "deciding", "waiting", "running", "done"},
          kind : Kinds,
          wanted : BOOLEAN,                 \* claude's turn still waits for it
          approved : BOOLEAN,
          said : {"nothing", "yes", "no"}]  \* what came through the oneshot

NoProcess ==
  [generation |-> 0, mode |-> "ReadOnly", held |-> FALSE, loop |-> "none",
   stopping |-> FALSE, outbox |-> <<>>, events |-> <<>>,
   claude |-> "none", told |-> FALSE, task |-> [c \in Calls |-> NoTask]]

NoChat == [open |-> FALSE, session |-> 0, generation |-> 0, busy |-> FALSE, ended |-> FALSE,
           tool |-> [c \in Calls |-> "none"]]

TypeOK ==
  /\ config \in [read_only : BOOLEAN, production : BOOLEAN]
  /\ connected \in BOOLEAN /\ mode \in Modes
  /\ minds \in 0..MaxMinds /\ turns \in 0..MaxTurns /\ latest \in 0..MaxAtOnce
  /\ chat \in [open : BOOLEAN, session : 0..MaxAtOnce, generation : 0..MaxTurns,
               busy : BOOLEAN, ended : BOOLEAN,
               tool : [Calls -> {"none", "Running", "AwaitingApproval", "Over"}]]
  /\ \A p \in Processes :
       LET s == shared[p] IN
       /\ s.generation \in 0..MaxTurns /\ s.mode \in Modes
       /\ s.loop \in {"none", "finding", "driving", "ending", "over"}
       /\ s.held \in BOOLEAN /\ s.stopping \in BOOLEAN /\ s.told \in BOOLEAN
       /\ s.outbox \in Seq({"user", "interrupt"}) /\ s.events \in Seq(Events)
       /\ s.claude \in {"none", "idle", "working", "gone"}
       /\ s.task \in [Calls -> Tasks]

Init ==
  /\ config \in Configs
  /\ connected = TRUE /\ mode \in Modes
  /\ minds = 0 /\ turns = 0 /\ latest = 0
  /\ chat = NoChat
  /\ shared = [p \in Processes |-> NoProcess]

Window == <<config, connected, mode, minds, turns, latest, chat>>

--------------------------------------------------------------------------------
\* The panel.

SetMode(m) ==
  /\ minds < MaxMinds /\ m # mode
  /\ minds' = minds + 1
  /\ mode' = m
  /\ shared' = [p \in Processes |->
                  IF p = chat.session THEN [shared[p] EXCEPT !.mode = m] ELSE shared[p]]
  /\ UNCHANGED <<config, connected, turns, latest, chat>>

\* A process of which nothing more will be heard; its place is used again.
Quiet(p) ==
  /\ shared[p].loop \in {"none", "over"} /\ shared[p].events = <<>>
  /\ \A c \in Calls : LET t == shared[p].task[c] IN
       t.at \in {"none", "done"} \/ (t.at = "waiting" /\ t.said = "nothing")

\* Session::start, and the message it was started for.
Start(g) ==
  [NoProcess EXCEPT !.generation = g, !.mode = mode, !.held = TRUE,
                    !.loop = "finding", !.outbox = <<"user">>]

\* send_assistant_message: a process is started when there is none to talk to.
Send ==
  /\ connected /\ turns < MaxTurns /\ ~chat.busy
  /\ turns' = turns + 1
  /\ \/ /\ chat.session # 0 /\ ~chat.ended
        /\ shared' = [shared EXCEPT ![chat.session].outbox = Append(@, "user")]
        /\ chat' = [chat EXCEPT !.busy = TRUE]
        /\ UNCHANGED latest
     \/ \E p \in Processes :
          /\ chat.session = 0 \/ chat.ended
          /\ Quiet(p)
          /\ latest' = p
          /\ shared' = [shared EXCEPT ![p] = Start(chat.generation + 1)]
          /\ chat' = [chat EXCEPT !.open = TRUE, !.session = p, !.generation = @ + 1,
                                  !.busy = TRUE, !.ended = FALSE]
  /\ UNCHANGED <<config, connected, mode, minds>>

\* answer_assistant, by the buttons of a call that is awaiting approval.
Answer(c, word) ==
  /\ connected /\ chat.tool[c] = "AwaitingApproval"
  /\ chat.session # 0
  /\ shared[chat.session].task[c].at = "waiting"
  /\ shared[chat.session].task[c].said = "nothing"
  /\ shared' = [shared EXCEPT ![chat.session].task[c].said = word]
  /\ UNCHANGED Window

\* Session::interrupt: whatever waits for approval is declined.
Interrupt(s) ==
  [s EXCEPT !.stopping = TRUE,
            !.outbox = Append(@, "interrupt"),
            !.task = [c \in Calls |->
                        IF @[c].at = "waiting" /\ @[c].said = "nothing"
                        THEN [@[c] EXCEPT !.said = "no"] ELSE @[c]]]

\* stop_assistant.
Stop ==
  /\ chat.busy /\ chat.session # 0 /\ minds < MaxMinds
  /\ minds' = minds + 1
  /\ shared' = [shared EXCEPT ![chat.session] = Interrupt(@)]
  /\ UNCHANGED <<config, connected, mode, turns, latest, chat>>

\* The Session is dropped, which its process sees when it next looks.
LetGo(p) == [q \in Processes |-> IF q = p THEN [shared[q] EXCEPT !.held = FALSE] ELSE shared[q]]

\* new_assistant_chat: the conversation is forgotten, its generation with it.
NewChat ==
  /\ chat.open
  /\ chat' = NoChat
  /\ shared' = LetGo(chat.session)
  /\ UNCHANGED <<config, connected, mode, minds, turns, latest>>

\* Thread::apply. What a call that is over said is not told apart.
Settled(tool) == [c \in Calls |-> IF tool[c] = "none" THEN "none" ELSE "Over"]

\* Mutant: the end of the process leaves the turn as it was.
AppliedPartly(e) ==
  CASE e.kind = "ToolStarted"    -> [chat EXCEPT !.tool[e.call] = "Running"]
    [] e.kind = "ApprovalNeeded" -> [chat EXCEPT !.tool[e.call] =
                                       IF @ = "none" THEN @ ELSE "AwaitingApproval"]
    [] e.kind = "ToolFinished"   -> [chat EXCEPT !.tool[e.call] = IF @ = "none" THEN @ ELSE "Over"]
    [] e.kind = "Exited"         -> [chat EXCEPT !.ended = TRUE, !.session = 0, !.tool = Settled(@)]
    [] OTHER                     -> [chat EXCEPT !.busy = FALSE, !.tool = Settled(@)]

Applied(e) ==
  CASE e.kind = "ToolStarted"    -> [chat EXCEPT !.tool[e.call] = "Running"]
    [] e.kind = "ApprovalNeeded" -> [chat EXCEPT !.tool[e.call] =
                                       IF @ = "none" THEN @ ELSE "AwaitingApproval"]
    [] e.kind = "ToolFinished"   -> [chat EXCEPT !.tool[e.call] = IF @ = "none" THEN @ ELSE "Over"]
    [] e.kind = "Exited"         -> [chat EXCEPT !.busy = FALSE, !.ended = TRUE, !.session = 0,
                                                 !.tool = Settled(@)]
    [] OTHER                     -> [chat EXCEPT !.busy = FALSE, !.tool = Settled(@)]

\* Mutant: closing the connection counts as one more process.
DisconnectCounting ==
  /\ connected /\ minds < MaxMinds
  /\ minds' = minds + 1
  /\ connected' = FALSE
  /\ shared' = LetGo(chat.session)
  /\ chat' = IF chat.open THEN [Applied(Event("Exited", 0)) EXCEPT !.generation = @ + 1] ELSE chat
  /\ UNCHANGED <<config, mode, turns, latest>>

\* end_assistant, when the connection is closed.
Disconnect ==
  /\ connected /\ minds < MaxMinds
  /\ minds' = minds + 1
  /\ connected' = FALSE
  /\ shared' = LetGo(chat.session)
  /\ chat' = IF chat.open THEN Applied(Event("Exited", 0)) ELSE chat
  /\ UNCHANGED <<config, mode, turns, latest>>

Connect ==
  /\ ~connected
  /\ connected' = TRUE
  /\ UNCHANGED <<config, mode, minds, turns, latest, chat, shared>>

\* on_assistant_event, from the pump of one process.
Pump(p) ==
  LET e     == Head(shared[p].events)
      heard == chat.open /\ shared[p].generation = chat.generation
  IN  /\ shared[p].events # <<>>
      /\ shared' = [LetGo(IF heard /\ e.kind = "Exited" THEN chat.session ELSE 0)
                      EXCEPT ![p].events = Tail(@)]
      /\ chat' = IF heard THEN Applied(e) ELSE chat
      /\ UNCHANGED <<config, connected, mode, minds, turns, latest>>

--------------------------------------------------------------------------------
\* The loop that drives the process (`run` and `drive`), and claude itself.

Becomes(p, s) == shared' = [shared EXCEPT ![p] = s] /\ UNCHANGED Window

\* drive: while the binary is looked for and started, nothing else is heard.
Find(p) ==
  /\ shared[p].loop = "finding"
  /\ \/ Becomes(p, [shared[p] EXCEPT !.loop = "driving", !.claude = "idle"])
     \/ Becomes(p, [shared[p] EXCEPT !.loop = "ending"])

Kill(p) ==
  /\ shared[p].loop = "driving" /\ ~shared[p].held
  /\ Becomes(p, [shared[p] EXCEPT !.loop = "ending", !.claude = "gone"])

\* A line is written; one that cannot be ends the loop.
WriteOut(p) ==
  LET s    == shared[p]
      sent == [s EXCEPT !.outbox = Tail(@)]
  IN  /\ s.loop = "driving" /\ s.outbox # <<>>
      /\ IF s.claude = "gone" THEN Becomes(p, [sent EXCEPT !.loop = "ending"])
         ELSE IF Head(s.outbox) = "user" THEN Becomes(p, [sent EXCEPT !.claude = "working"])
         ELSE Becomes(p, [sent EXCEPT !.told = s.claude = "working"])

\* The standard output has ended.
Eof(p) ==
  /\ shared[p].loop = "driving" /\ shared[p].claude = "gone"
  /\ Becomes(p, [shared[p] EXCEPT !.loop = "ending"])

Crash(p) ==
  /\ shared[p].claude \in {"idle", "working"}
  /\ Becomes(p, [shared[p] EXCEPT !.claude = "gone"])

\* run: the end is reported.
Exit(p) ==
  /\ shared[p].loop = "ending"
  /\ Becomes(p, [shared[p] EXCEPT !.loop = "over", !.claude = "gone", !.told = FALSE,
                                  !.outbox = <<>>,
                                  !.events = Append(@, Event("Exited", 0))])

\* handle_line of a `result`: claude has all its answers, or was told to stop.
Result(p) ==
  LET s == shared[p] IN
  /\ s.loop = "driving" /\ s.claude = "working"
  /\ s.told \/ \A c \in Calls : s.task[c].at \in {"none", "done"} \/ ~s.task[c].wanted
  /\ Becomes(p, [s EXCEPT !.claude = "idle", !.told = FALSE, !.stopping = FALSE,
                   !.task = [c \in Calls |-> [@[c] EXCEPT !.wanted = s.task[c].at = "none"]],
                   !.events = Append(@, Event(IF s.stopping THEN "Stopped" ELSE "TurnFinished", 0))])

\* handle_control of a tools/call: a task of its own.
ToolCall(p, c, kind) ==
  LET s == shared[p] IN
  /\ s.loop = "driving" /\ s.claude = "working" /\ ~s.told
  /\ s.task[c].at = "none" /\ \A b \in Calls : b < c => s.task[b].at # "none"
  /\ Becomes(p, [s EXCEPT !.task[c] = [NoTask EXCEPT !.at = "spawned", !.kind = kind]])

--------------------------------------------------------------------------------
\* A tool call's task (`call_tool`), which outlives the process if it is slow.

\* Where the task goes, and what it reports.
Goes(p, c, at, report) ==
  Becomes(p, [shared[p] EXCEPT !.task[c].at = at, !.events = @ \o report])

Over(p, c) ==
  Becomes(p, [shared[p] EXCEPT !.task[c] = [NoTask EXCEPT !.at = "done", !.wanted = FALSE],
                               !.events = Append(@, Event("ToolFinished", c))])

Begin(p, c) ==
  /\ shared[p].task[c].at = "spawned"
  /\ Goes(p, c, "deciding", <<Event("ToolStarted", c)>>)

\* decide: the connection's own settings outrank the mode.
Decide(m, kind) ==
  IF kind = "read" THEN "run"
  ELSE IF config.read_only \/ m = "ReadOnly" THEN "refuse"
  ELSE IF m = "Ask" \/ config.production THEN "ask" ELSE "run"

\* run_query, each time round its loop.
Gate(p, c) ==
  LET t       == shared[p].task[c]
      verdict == Decide(shared[p].mode, t.kind)
  IN  /\ t.at = "deciding"
      /\ \/ verdict = "refuse" /\ Over(p, c)
         \/ verdict = "ask" /\ ~t.approved /\ Goes(p, c, "waiting", <<Event("ApprovalNeeded", c)>>)
         \/ verdict = "ask" /\ t.approved /\ Goes(p, c, "running", <<>>)
         \/ verdict = "run" /\ Goes(p, c, "running", <<>>)

\* Mutant: what was approved runs, whatever the mode has become.
AnsweredForGood(p, c) ==
  LET t == shared[p].task[c] IN
  /\ t.at = "waiting" /\ t.said # "nothing"
  /\ IF t.said = "yes"
     THEN Becomes(p, [shared[p] EXCEPT !.task[c].at = "running", !.task[c].approved = TRUE])
     ELSE Over(p, c)

\* The question was answered: the mode may have changed in the meantime.
Answered(p, c) ==
  LET t == shared[p].task[c] IN
  /\ t.at = "waiting" /\ t.said # "nothing"
  /\ IF t.said = "yes"
     THEN Becomes(p, [shared[p] EXCEPT !.task[c].at = "deciding", !.task[c].approved = TRUE])
     ELSE Over(p, c)

Finish(p, c) == shared[p].task[c].at = "running" /\ Over(p, c)

Task(p, c) ==
  \/ Begin(p, c) \/ Gate(p, c) \/ Answered(p, c) \/ Finish(p, c)
  \/ \E kind \in Kinds : ToolCall(p, c, kind)

Works(p) ==
  \/ Find(p) \/ Kill(p) \/ WriteOut(p) \/ Eof(p) \/ Exit(p) \/ Result(p) \/ Pump(p)

User ==
  \/ \E m \in Modes : SetMode(m)
  \/ Send \/ Stop \/ NewChat \/ Disconnect \/ Connect
  \/ \E c \in Calls, word \in {"yes", "no"} : Answer(c, word)

Next ==
  \/ User
  \/ \E p \in Processes : Works(p) \/ Crash(p) \/ \E c \in Calls : Task(p, c)

\* The runtime runs every task and the window every pump; a statement ends, and
\* claude ends a turn that has nothing left to wait for.
Fairness == \A p \in Processes :
  /\ WF_vars(Result(p)) /\ WF_vars(Pump(p))
  /\ WF_vars(Find(p) \/ Kill(p) \/ WriteOut(p) \/ Eof(p) \/ Exit(p))
  /\ \A c \in Calls : WF_vars(Begin(p, c) \/ Gate(p, c) \/ Answered(p, c)
                              \/ Finish(p, c))

Spec == Init /\ [][Next]_vars /\ Fairness

--------------------------------------------------------------------------------
\* The mode the panel shows governs the conversation it shows: a write begins
\* only if the connection and that mode let it, and where they ask, only if the
\* user has said yes to it (decide, run_query, set_assistant_mode).
WritesAllowed ==
  [][\A p \in Processes, c \in Calls :
       /\ p = chat.session
       /\ shared[p].task[c].kind = "write"
       /\ shared[p].task[c].at # "running" /\ shared'[p].task[c].at = "running"
       => /\ ~config.read_only /\ mode # "ReadOnly"
          /\ mode = "Ask" \/ config.production => shared[p].task[c].said = "yes"]_vars

Asking == \E c \in Calls : chat.tool[c] = "AwaitingApproval"

\* "Thinking..." does not stay for ever: a turn ends, whatever becomes of its
\* process, or puts a question to the user (drive, run, Thread::apply).
TurnsEnd == chat.busy ~> (~chat.busy \/ Asking)

\* A pump left over from an earlier process cannot write into the conversation
\* that replaced it (AssistantChat::generation).
PumpsAreCurrent ==
  [][\A p \in Processes :
       shared'[p].events # shared[p].events /\ chat' # chat => p = latest]_vars
================================================================================

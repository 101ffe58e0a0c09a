------------------------------ MODULE MCServices ------------------------------
(* Instances for TLC of four parts of dbui that share nothing: the SQLite file, *)
(* the tunnel, the assistant and the updater. A behaviour moves one of them.    *)
EXTENDS SqliteFile, Updater, TLC

CONSTANTS MaxAtOnce, MaxTurns, MaxCalls, MaxMinds,
          editor, load, commit

VARIABLES
  config, connected, mode, minds, turns, latest, chat, shared,
  dbui, leash, askpass, shell, reader, ssh, ready,
  part    \* which of the four moves

Chats  == INSTANCE AssistantChats
Tunnel == INSTANCE SshTunnel

KindOf == editor :> "editor" @@ load :> "load" @@ commit :> "commit"

sqliteVars == vars
chatVars   == <<config, connected, mode, minds, turns, latest, chat, shared>>
tunnelVars == <<dbui, leash, askpass, shell, reader, ssh, ready>>

ServicesVars == <<sqliteVars, chatVars, updaterVars, tunnelVars, part>>

ServicesInit ==
  /\ part \in {"sqlite", "assistant", "updater", "tunnel"}
  /\ Init /\ Chats!Init /\ UpdaterInit /\ Tunnel!Init
  /\ part # "assistant" => mode = "Ask" /\ config = [read_only |-> FALSE, production |-> TRUE]
  /\ part # "updater" => released = [version |-> 1, zip |-> TRUE, sums |-> "match"]

ServicesNext ==
  /\ UNCHANGED part
  /\ \/ part = "sqlite"    /\ Next        /\ UNCHANGED <<chatVars, updaterVars, tunnelVars>>
     \/ part = "assistant" /\ Chats!Next  /\ UNCHANGED <<sqliteVars, updaterVars, tunnelVars>>
     \/ part = "updater"   /\ UpdaterNext /\ UNCHANGED <<sqliteVars, chatVars, tunnelVars>>
     \/ part = "tunnel"    /\ Tunnel!Next /\ UNCHANGED <<sqliteVars, chatVars, updaterVars>>

ServicesSpec ==
  /\ ServicesInit /\ [][ServicesNext]_ServicesVars
  /\ Chats!Fairness /\ Tunnel!Fairness

--------------------------------------------------------------------------------
\* The mode the assistant's panel shows governs the conversation it shows: see
\* AssistantChats (decide, run_query, set_assistant_mode).
WritesAllowed == Chats!WritesAllowed

\* A turn of the assistant's ends, or puts a question to the user; a tunnel lives
\* as long as the value, and its end is seen: see AssistantChats (drive, run,
\* Thread::apply) and SshTunnel (leashed, open).
BothEnd == Chats!TurnsEnd /\ Tunnel!TunnelEnds
================================================================================

-------------------------------- MODULE SshTunnel --------------------------------
(* dbui-driver/src/tunnel.rs, and the connecting through it in lib.rs: a tunnel *)
(* is an ssh under a small shell that is held on a leash, a pipe from dbui. The *)
(* three processes and dbui itself each end when they please.                   *)

VARIABLES
  dbui,     \* the SshTunnel value: no tunnel, opening, in use, being dropped, or
            \* the whole process is gone
  leash,    \* the writing end of the pipe is open
  askpass,  \* the password helper is on the disk
  shell,    \* the leashed shell
  reader,   \* its background job that reads the pipe
  ssh,      \* ssh
  ready     \* SshLog::ready: ssh has said that it is listening

vars == <<dbui, leash, askpass, shell, reader, ssh, ready>>

TypeOK ==
  /\ dbui \in {"none", "opening", "open", "dropping", "gone"}
  /\ leash \in BOOLEAN /\ askpass \in BOOLEAN /\ ready \in BOOLEAN
  /\ shell \in {"none", "started", "forked", "waiting", "status", "over"}
  /\ reader \in {"none", "reading", "over"}
  /\ ssh \in {"none", "dialing", "listening", "over"}

Init ==
  /\ dbui = "none" /\ leash = FALSE /\ askpass = FALSE
  /\ shell = "none" /\ reader = "none" /\ ssh = "none" /\ ready = FALSE

--------------------------------------------------------------------------------
\* dbui.

\* open, up to the loop: the helper is written, where there is a secret to give.
Spawn ==
  /\ dbui = "none"
  /\ dbui' = "opening" /\ leash' = TRUE /\ askpass' \in BOOLEAN
  /\ shell' = "started" /\ reader' = "none" /\ ssh' = "none" /\ ready' = FALSE

\* What dropping the value does first: the leash is let go.
Drops == dbui' = "dropping" /\ leash' = FALSE /\ UNCHANGED <<askpass, shell, reader, ssh, ready>>

\* The loop of open: an exit is an error, the word that it listens is success.
Ready ==
  /\ dbui = "opening" /\ shell # "over" /\ ready
  /\ dbui' = "open"
  /\ UNCHANGED <<leash, askpass, shell, reader, ssh, ready>>

SeesExit == dbui = "opening" /\ shell = "over" /\ Drops

\* READY_TIMEOUT, or whoever was connecting has given up.
GivesUp == dbui = "opening" /\ Drops

\* The adapter could not connect through it, or is dropped after its time.
Close == dbui = "open" /\ Drops

\* The wait in drop, and the helper's own drop after it.
Dropped ==
  /\ dbui = "dropping" /\ shell = "over"
  /\ dbui' = "none" /\ askpass' = FALSE
  /\ UNCHANGED <<leash, shell, reader, ssh, ready>>

\* A crash or a force-quit: nothing is dropped, but the system closes the pipe.
Die ==
  /\ dbui # "gone"
  /\ dbui' = "gone" /\ leash' = FALSE
  /\ UNCHANGED <<askpass, shell, reader, ssh, ready>>

--------------------------------------------------------------------------------
\* The shell, its reader, and ssh.

\* Mutant: the pipe is not what stops ssh; dropping the tunnel is.
PipeEndedByDrop == dbui = "dropping"

PipeEnded == ~leash

ForkSsh ==
  /\ shell = "started"
  /\ shell' = "forked" /\ ssh' = "dialing"
  /\ UNCHANGED <<dbui, leash, askpass, reader, ready>>

ForkReader ==
  /\ shell = "forked"
  /\ shell' = "waiting" /\ reader' = "reading"
  /\ UNCHANGED <<dbui, leash, askpass, ssh, ready>>

\* read comes back at end-of-file, and ssh is killed if it still runs.
LetGo ==
  /\ reader = "reading" /\ PipeEnded
  /\ reader' = "over" /\ ssh' = "over"
  /\ UNCHANGED <<dbui, leash, askpass, shell, ready>>

\* wait, then the reader is not needed any more; the exit status is ssh's own.
Waited ==
  /\ shell = "waiting" /\ ssh = "over"
  /\ shell' = "status"
  /\ UNCHANGED <<dbui, leash, askpass, reader, ssh, ready>>

KillReader ==
  /\ shell = "status"
  /\ shell' = "over" /\ reader' = "over"
  /\ UNCHANGED <<dbui, leash, askpass, ssh, ready>>

\* ssh binds the local end, and says so; a thread of dbui's reads it.
Listens ==
  /\ ssh = "dialing"
  /\ ssh' = "listening" /\ ready' = TRUE
  /\ UNCHANGED <<dbui, leash, askpass, shell, reader>>

\* It is refused, the port is taken, or the link is dead.
SshEnds ==
  /\ ssh \in {"dialing", "listening"}
  /\ ssh' = "over"
  /\ UNCHANGED <<dbui, leash, askpass, shell, reader, ready>>

Scripts == ForkSsh \/ ForkReader \/ Waited \/ KillReader
Drive   == Ready \/ SeesExit \/ Dropped

Next ==
  \/ Spawn \/ GivesUp \/ Close \/ Die \/ Drive
  \/ Scripts \/ LetGo \/ Listens \/ SshEnds

\* The system runs the shell, the reader and dbui.
Fairness == WF_vars(Scripts) /\ WF_vars(LetGo) /\ WF_vars(Drive)

Spec == Init /\ [][Next]_vars /\ Fairness

--------------------------------------------------------------------------------
\* A tunnel lives exactly as long as the value: once dbui has let it go, by
\* dropping it or by dying, ssh ends, the shell with it, and whoever drops it
\* is not kept waiting. And an ssh that gives up is seen to have: whoever opens
\* the tunnel does not sit out the timeout (leashed, SshTunnel::drop, open).
TunnelEnds ==
  /\ ~leash ~> (ssh \in {"none", "over"} /\ shell \in {"none", "over"} /\ dbui # "dropping")
  /\ (ssh = "over" /\ dbui = "opening") ~> dbui # "opening"
================================================================================

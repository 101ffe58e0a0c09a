---------------------------- MODULE ConnectionStore ----------------------------
(* dbui-app/src/store.rs and the handlers of dbui-ui/src/root.rs that call it: *)
(* connections in a file, their secrets in the system's keychain, written one  *)
(* after the other by a process that may end between any two writes.           *)
EXTENDS Naturals, FiniteSets

CONSTANTS
  MaxId,    \* ids are 1..MaxId; 0 is `unassigned`
  MaxWho,   \* connections ever made: each `who` is one the user means
  Secrets,  \* Secret::ALL
  Values, NoSecret,
  Faults    \* what may go wrong: a subset of AllFaults

AllFaults == {"read", "write", "crash", "break"}
Ids  == 1..MaxId
Whos == 1..MaxWho

ASSUME StoreAssumption ==
  /\ MaxId \in Nat /\ MaxWho \in Nat
  /\ NoSecret \in Values
  /\ Faults \subseteq AllFaults

VARIABLES
  running,   \* the process
  made,      \* connections made so far, by the user or by hand
  file,      \* connections.json
  readable,  \* whether it can be read and parsed
  chain,     \* the keychain
  mem,       \* Workspace::configs()
  counter,   \* ConnectionId::counter
  form,      \* the id of the empty connection form that is open, or 0
  unread,    \* UNREAD_PASSWORDS
  unloaded,  \* UNLOADED holds the path
  temp,      \* the sibling file of write_atomic
  stage,     \* where `save`, or the removal before it, is
  left,      \* the secrets it has still to look at
  refused,   \* history: secrets whose last writing the keychain refused
  unsaved    \* history: the last writing of the file failed

process == <<mem, counter, form, unread, unloaded, temp, stage, left>>
disk    == <<file, readable, chain>>
history == <<refused, unsaved>>
vars    == <<running, made, disk, process, history>>

\* What the user means: a secret that could not be read is the one that is kept.
Meant(m) == [m EXCEPT !.secret = [s \in Secrets |->
               IF m.secret[s] = NoSecret /\ <<m.id, s>> \in unread
               THEN chain[<<m.id, s>>] ELSE m.secret[s]]]

Loaded == running /\ ~unloaded

Said == IF Loaded THEN {Meant(m) : m \in mem} ELSE {}

Book == INSTANCE AddressBook WITH open <- Loaded, said <- Said

Keys   == Ids \X Secrets
Stages == {"idle", "forget", "begin", "write", "rename", "secrets"}

TypeOK ==
  /\ running \in BOOLEAN /\ readable \in BOOLEAN /\ unloaded \in BOOLEAN
  /\ made \in 0..MaxWho
  /\ file \in SUBSET Book!Lines /\ temp \in SUBSET Book!Lines
  /\ chain \in [Keys -> Values]
  /\ mem \in SUBSET Book!Facts
  /\ counter \in 1..MaxId + 1 /\ form \in 0..MaxId
  /\ unread \in SUBSET Keys /\ left \in SUBSET Keys
  /\ stage \in Stages
  /\ refused \in SUBSET Keys /\ unsaved \in BOOLEAN

Init ==
  /\ running = FALSE /\ readable = TRUE /\ unloaded = FALSE
  /\ made = 0
  /\ file = {} /\ temp = {}
  /\ chain = [k \in Keys |-> NoSecret]
  /\ mem = {} /\ counter = 1 /\ form = 0
  /\ unread = {} /\ left = {}
  /\ stage = "idle"
  /\ refused = {} /\ unsaved = FALSE

--------------------------------------------------------------------------------
\* ConnectionId::observe: the counter stays above every id the file claims.
Observed(lines) == CHOOSE n \in 1..MaxId + 1 :
  /\ \A f \in lines : f.id < n
  /\ n = 1 \/ \E f \in lines : f.id = n - 1

\* Mutant: ids are minted as the file is walked, from a counter nothing has primed.
AssignIdsInPlace(lines, ids) ==
  /\ \A f \in lines : f.id # 0 => ids[f] = f.id
  /\ LET missing == {f \in lines : f.id = 0}
     IN  {ids[f] : f \in missing} = 1..Cardinality(missing)

\* assign_ids: ids are minted once all of the file's have been observed.
AssignIds(lines, ids) ==
  /\ \A f \in lines : f.id # 0 => ids[f] = f.id
  /\ LET missing == {f \in lines : f.id = 0}
     IN  {ids[f] : f \in missing} = Observed(lines)..(Observed(lines) + Cardinality(missing) - 1)

\* load: secrets the keychain does not give are empty, and remembered as unread.
Hydrated(f, id, denied) ==
  [id |-> id, who |-> f.who,
   secret |-> [s \in Secrets |-> IF <<id, s>> \in denied THEN NoSecret ELSE chain[<<id, s>>]]]

Loads(ids, denied) ==
  /\ AssignIds(file, ids)
  /\ denied \subseteq {<<ids[f], s>> : f \in file, s \in Secrets}
  /\ denied = {} \/ "read" \in Faults
  /\ mem' = {Hydrated(f, ids[f], denied) : f \in file}
  /\ counter' = Observed(file) + Cardinality({f \in file : f.id = 0})
  /\ unread' = denied
  /\ unloaded' = FALSE
  /\ refused' = {k \in refused : \A f \in file : k[1] # f.id}
  /\ unsaved' = FALSE

\* load of a file that cannot be read: no connections, and no writing over it.
FailsToLoad ==
  /\ mem' = {} /\ counter' = 1 /\ unread' = {} /\ unloaded' = TRUE
  /\ UNCHANGED history

Launch ==
  /\ ~running
  /\ running' = TRUE
  /\ \/ readable /\ \E ids \in [file -> Ids], denied \in SUBSET Keys : Loads(ids, denied)
     \/ ~readable /\ FailsToLoad
  /\ UNCHANGED <<made, disk, form, temp, stage, left>>

Ended ==
  /\ running' = FALSE
  /\ mem' = {} /\ counter' = 1 /\ form' = 0 /\ unread' = {} /\ unloaded' = FALSE
  /\ temp' = {} /\ stage' = "idle" /\ left' = {}
  /\ UNCHANGED <<made, disk, history>>

Quit  == running /\ stage = "idle" /\ Ended
Crash == running /\ "crash" \in Faults /\ Ended

--------------------------------------------------------------------------------
\* The handlers. Each ends in persist_connections; the window does nothing else
\* until it is through.

Handler == running /\ stage = "idle"

\* open_new_connection: the id is minted now, and lost if the form is closed.
OpenForm ==
  /\ Handler /\ form = 0 /\ counter <= MaxId
  /\ form' = counter
  /\ counter' = counter + 1
  /\ UNCHANGED <<running, made, disk, mem, unread, unloaded, temp, stage, left, history>>

CloseForm ==
  /\ Handler /\ form # 0
  /\ form' = 0
  /\ UNCHANGED <<running, made, disk, mem, counter, unread, unloaded, temp, stage, left, history>>

Adds(id) ==
  /\ made < MaxWho
  /\ made' = made + 1
  /\ \E secret \in [Secrets -> Values] :
        mem' = mem \cup {[id |-> id, who |-> made', secret |-> secret]}
  /\ stage' = "begin"
  /\ UNCHANGED <<running, disk, unread, unloaded, temp, left, history>>

\* Mutant: the form's connection keeps the id that stands for none.
AddUnassigned ==
  /\ Handler /\ form # 0
  /\ Adds(0)
  /\ form' = 0
  /\ UNCHANGED counter

\* save_connection of a form that was opened empty.
AddConnection ==
  /\ Handler /\ form # 0
  /\ Adds(form)
  /\ form' = 0
  /\ UNCHANGED counter

\* import_tableplus_connections, of one connection dbui does not have yet.
Import ==
  /\ Handler /\ counter <= MaxId
  /\ Adds(counter)
  /\ counter' = counter + 1
  /\ UNCHANGED form

\* save_connection of one that is there: the form was filled from it, and its
\* fields come back as they were or as the user left them.
EditConnection ==
  /\ Handler /\ form = 0
  /\ \E m \in mem, secret \in [Secrets -> Values] :
        mem' = (mem \ {m}) \cup {[m EXCEPT !.secret = secret]}
  /\ stage' = "begin"
  /\ UNCHANGED <<running, made, disk, counter, form, unread, unloaded, temp, left, history>>

\* Mutant: removing a connection leaves its secrets to the keychain.
RemoveOnlyFromFile ==
  /\ Handler
  /\ \E m \in mem : mem' = mem \ {m}
  /\ left' = {}
  /\ stage' = "forget"
  /\ UNCHANGED <<running, made, disk, counter, form, unread, unloaded, temp, history>>

\* remove_connection: delete_password is refused when the file was not loaded.
RemoveConnection ==
  /\ Handler
  /\ \E m \in mem :
        /\ mem' = mem \ {m}
        /\ left' = IF unloaded THEN {} ELSE {m.id} \X Secrets
  /\ stage' = "forget"
  /\ UNCHANGED <<running, made, disk, counter, form, unread, unloaded, temp, history>>

\* delete_password_at: whether the keychain did it is not looked at.
Forget ==
  /\ stage = "forget"
  /\ IF left = {}
     THEN stage' = "begin" /\ UNCHANGED <<chain, left, refused>>
     ELSE \E k \in left :
            /\ left' = left \ {k}
            /\ \/ chain' = [chain EXCEPT ![k] = NoSecret] /\ refused' = refused \ {k}
               \/ "write" \in Faults /\ refused' = refused \cup {k} /\ UNCHANGED chain
            /\ UNCHANGED stage
  /\ UNCHANGED <<running, made, file, readable, mem, counter, form, unread, unloaded, temp, unsaved>>

\* save refuses a file that was not loaded.
BeginSave ==
  /\ stage = "begin"
  /\ stage' = IF unloaded THEN "idle" ELSE "write"
  /\ UNCHANGED <<running, made, disk, mem, counter, form, unread, unloaded, temp, left, history>>

\* write_atomic: the temporary file, then the rename.
WriteTemp ==
  /\ stage = "write"
  /\ \/ temp' = Book!Listed(mem) /\ stage' = "rename" /\ UNCHANGED unsaved
     \/ "write" \in Faults /\ stage' = "idle" /\ unsaved' = TRUE /\ UNCHANGED temp
  /\ UNCHANGED <<running, made, disk, mem, counter, form, unread, unloaded, left, refused>>

Rename ==
  /\ stage = "rename"
  /\ temp' = {}
  /\ \/ /\ file' = temp /\ readable' = TRUE
        /\ stage' = "secrets"
        /\ left' = {<<m.id, s>> : m \in mem, s \in Secrets}
        /\ unsaved' = FALSE
     \/ /\ "write" \in Faults
        /\ stage' = "idle" /\ unsaved' = TRUE
        /\ UNCHANGED <<file, readable, left>>
  /\ UNCHANGED <<running, made, chain, mem, counter, form, unread, unloaded, refused>>

\* Mutants: an empty field is always an instruction to delete; a secret that was
\* not read is never written again.
SyncBlindly(value, isUnread) == IF value # NoSecret THEN "set" ELSE "delete"
SyncTimidly(value, isUnread) ==
  IF isUnread THEN "keep" ELSE IF value # NoSecret THEN "set" ELSE "delete"

\* password_sync
PasswordSync(value, isUnread) ==
  IF value # NoSecret THEN "set" ELSE IF isUnread THEN "keep" ELSE "delete"

\* One round of save's loop over configs and secrets, in some order; what it
\* writes may be refused, which nobody is told.
SyncSecret ==
  /\ stage = "secrets"
  /\ \E k \in left, m \in mem :
        /\ m.id = k[1]
        /\ left' = left \ {k}
        /\ LET value == m.secret[k[2]]
               sync  == PasswordSync(value, k \in unread)
           IN  \/ sync = "keep" /\ UNCHANGED <<chain, unread, refused>>
               \/ /\ sync # "keep"
                  /\ chain' = [chain EXCEPT ![k] = value]
                  /\ unread' = IF sync = "set" THEN unread \ {k} ELSE unread
                  /\ refused' = refused \ {k}
               \/ /\ sync # "keep" /\ "write" \in Faults
                  /\ refused' = refused \cup {k}
                  /\ UNCHANGED <<chain, unread>>
  /\ UNCHANGED <<running, made, file, readable, mem, counter, form, unloaded, temp, stage, unsaved>>

Saved ==
  /\ stage = "secrets" /\ left = {}
  /\ stage' = "idle"
  /\ UNCHANGED <<running, made, disk, mem, counter, form, unread, unloaded, temp, left, history>>

--------------------------------------------------------------------------------
\* Other hands: the file is damaged, mended, or added to in an editor while dbui
\* is closed.

Break ==
  /\ ~running /\ "break" \in Faults
  /\ readable' = ~readable
  /\ UNCHANGED <<running, made, file, chain, process, history>>

WriteByHand ==
  /\ ~running /\ made < MaxWho
  /\ Cardinality(file) < MaxId
  /\ Observed(file) + Cardinality({f \in file : f.id = 0}) <= MaxId
  /\ file' = file \cup {[id |-> 0, who |-> made + 1]}
  /\ made' = made + 1
  /\ UNCHANGED <<running, readable, chain, process, history>>

Next ==
  \/ Launch \/ Quit \/ Crash
  \/ OpenForm \/ CloseForm \/ AddConnection \/ Import \/ EditConnection \/ RemoveConnection
  \/ Forget \/ BeginSave \/ WriteTemp \/ Rename \/ SyncSecret \/ Saved
  \/ Break \/ WriteByHand

Spec == Init /\ [][Next]_vars

--------------------------------------------------------------------------------
\* Whatever fails and whenever the process ends, the file and the keychain only
\* ever move to what the user said: a secret that could not be read is not taken
\* for a cleared one (store.rs:238), a file that could not be read is not written
\* over nor its secrets touched (store.rs:265, 457), and no two connections meet
\* under one id (store.rs:434).
Keeps == Book!Spec

\* Once a handler is through, what the window shows is what the next launch will
\* find, but for what the disk or the keychain refused to take and for what the
\* keychain refused to give.
Durable ==
  Handler /\ Loaded =>
    /\ unsaved \/ {f.who : f \in file} = {m.who : m \in mem}
    /\ \A m \in mem, s \in Secrets :
         \/ unsaved \/ <<m.id, s>> \in refused
         \/ m.secret[s] = NoSecret /\ <<m.id, s>> \in unread
         \/ m.secret[s] = chain[<<m.id, s>>]

\* A secret in the keychain has its connection in the file, at every moment of a
\* save or a removal and after a crash in it: otherwise it would wait for the
\* next connection that is given its id (ids count on from the file's highest).
NoOrphans ==
  \A k \in Keys : chain[k] # NoSecret => k \in refused \/ \E f \in file : f.id = k[1]

\* A number stands for one connection in the window and in the file.
OneConnectionPerId ==
  Loaded =>
    \A m \in mem : /\ \A n \in mem : m.id = n.id => m = n
                  /\ \A f \in file : m.id = f.id => m.who = f.who
================================================================================

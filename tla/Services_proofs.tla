---------------------------- MODULE Services_proofs ----------------------------
(***************************************************************************)
(* Theorems about two parts of dbui that share nothing: SqliteFile, for    *)
(* any jobs, and Updater, for any number of versions.  The progress        *)
(* handler stops the statement that was told to stop and no other, and the *)
(* bar tells of the transaction that is open; whatever fails in an update, *)
(* in whatever order and however often, a signed copy of dbui is left.     *)
(***************************************************************************)
EXTENDS SqliteFile, Updater, TLAPS

-----------------------------------------------------------------------------
(* The SQLite file *)

(***************************************************************************)
(* The connection is with the job whose stage needs it. Its thread is busy *)
(* for a job that waits, or for one that was dropped meanwhile. A token is *)
(* told of a statement exactly while its own handler is on the connection. *)
(***************************************************************************)
Held    == \A j \in Jobs : at[j] \in {"install", "run", "asks", "release"} <=> holder = j
Busy    == \A j \in Jobs : /\ worker = j => at[j] \in {"run", "idle"}
                           /\ at[j] = "asks" => worker = Nobody
Tokens  == \A j \in Jobs : tracked[j] => worker = j /\ handler = j /\ at[j] = "run"

(***************************************************************************)
(* Only the editor ends or begins a transaction. One of its statements     *)
(* that nobody waits for any more was dropped, and as long as none was,    *)
(* the flag is behind only until the question after the statement.         *)
(***************************************************************************)
Editors == \A j \in Jobs : /\ at[j] = "asks" => CallKind[j] = "editor"
                           /\ CallKind[j] # "editor" => stmt[j] = "other"
Unheard == \A j \in Jobs : worker = j /\ CallKind[j] = "editor" /\ at[j] # "run" => dropped
Flag    == ~dropped /\ (\A j \in Jobs : at[j] # "asks") => in_transaction = tx

Shape == TypeOK /\ Held /\ Busy /\ Tokens
IInv  == Shape /\ Editors /\ Unheard /\ Flag

-----------------------------------------------------------------------------
LEMMA InitIInv == Init => IInv
<1> SUFFICES ASSUME Init PROVE IInv
  OBVIOUS
<1> USE SqliteAssumption DEF Init
<1>1. TypeOK
  BY DEF TypeOK, Steps
<1>2. Held /\ Busy /\ Tokens
  BY DEF Held, Busy, Tokens
<1>3. Editors /\ Unheard /\ Flag
  BY DEF Editors, Unheard, Flag
<1> QED
  BY <1>1, <1>2, <1>3 DEF IInv, Shape

LEMMA ShapeStep ==
    ASSUME Shape, [Next]_vars
    PROVE  Shape'
<1> USE SqliteAssumption DEF Shape, TypeOK, Held, Busy, Tokens, Steps, Goes, token, Tracked
<1>1. CASE UNCHANGED vars
  BY <1>1 DEF vars
<1>2. ASSUME NEW j \in Jobs, Job(j)
      PROVE  Shape'
  <2>1. CASE Begin(j)
    BY <2>1 DEF Begin
  <2>2. CASE Acquire(j)
    BY <2>2 DEF Acquire
  <2>3. CASE TimedOut(j)
    BY <2>3 DEF TimedOut
  <2>4. CASE Install(j)
    BY <2>4 DEF Install
  <2>5. CASE Send(j)
    BY <2>5 DEF Send
  <2>6. ASSUME Returns(j), tx' \in BOOLEAN
        PROVE  Shape'
    BY <2>6 DEF Returns
  <2>7. CASE Answers(j)
    BY <2>6, <2>7 DEF Answers, Ends, Returns
  <2>8. CASE Interrupts(j)
    BY <2>6, <2>8 DEF Interrupts, Returns
  <2>9. CASE Asks(j)
    BY <2>9 DEF Asks
  <2>10. CASE Release(j)
    BY <2>10 DEF Release
  <2>11. CASE Backfill(j)
    BY <2>11 DEF Backfill
  <2>12. CASE Cancel(j)
    BY <2>12 DEF Cancel
  <2>13. CASE Drop(j)
    BY <2>13 DEF Drop
  <2> QED
    BY <1>2, <2>1, <2>2, <2>3, <2>4, <2>5, <2>7, <2>8, <2>9, <2>10, <2>11, <2>12, <2>13 DEF Job
<1> QED
  BY <1>1, <1>2 DEF Next

(***************************************************************************)
(* The flag, given the shape before and after the step.                    *)
(***************************************************************************)
LEMMA FlagStep ==
    ASSUME IInv, [Next]_vars
    PROVE  (Editors /\ Unheard /\ Flag)'
<1> USE SqliteAssumption DEF IInv, Shape, TypeOK, Held, Busy, Tokens, Editors, Unheard, Flag,
                           Steps, Goes, token, Tracked
<1>1. CASE UNCHANGED vars
  BY <1>1 DEF vars
<1>2. ASSUME NEW j \in Jobs, Job(j)
      PROVE  (Editors /\ Unheard /\ Flag)'
  <2>1. CASE Begin(j)
    BY <2>1 DEF Begin
  <2>2. CASE Acquire(j)
    BY <2>2 DEF Acquire
  <2>3. CASE TimedOut(j)
    BY <2>3 DEF TimedOut
  <2>4. CASE Install(j)
    BY <2>4 DEF Install
  <2>5. CASE Send(j)
    BY <2>5 DEF Send
  <2>6. CASE Answers(j)
    <3>1. CallKind[j] # "editor" => tx' = tx
      BY <2>6 DEF Answers, Ends
    <3> QED
      BY <2>6, <3>1 DEF Answers, Returns
  <2>7. CASE Interrupts(j)
    BY <2>7 DEF Interrupts, Returns
  <2>8. CASE Asks(j)
    BY <2>8 DEF Asks
  <2>9. CASE Release(j)
    BY <2>9 DEF Release
  <2>10. CASE Backfill(j)
    BY <2>10 DEF Backfill
  <2>11. CASE Cancel(j)
    BY <2>11 DEF Cancel
  <2>12. CASE Drop(j)
    <3>1. Editors' /\ Unheard'
      BY <2>12 DEF Drop
    <3>2. at[j] = "asks" => dropped'
      BY <2>12 DEF Drop
    <3>3. \A k \in Jobs : k # j => at'[k] = at[k]
      BY <2>12 DEF Drop
    <3>4. Flag'
      BY <2>12, <3>2, <3>3 DEF Drop
    <3> QED
      BY <3>1, <3>4
  <2> QED
    BY <1>2, <2>1, <2>2, <2>3, <2>4, <2>5, <2>6, <2>7, <2>8, <2>9, <2>10, <2>11, <2>12 DEF Job
<1> QED
  BY <1>1, <1>2 DEF Next

LEMMA Inductive == Spec => []IInv
<1>1. IInv /\ [Next]_vars => IInv'
  BY ShapeStep, FlagStep DEF IInv
<1> QED
  BY InitIInv, <1>1, PTL DEF Spec

-----------------------------------------------------------------------------
(***************************************************************************)
(* The handler that is on the connection stops the statement that was told *)
(* to stop and no other, for any number of loads, commits and statements   *)
(* that are stopped or dropped in any order (should_stop, track,           *)
(* interruptible_connection).                                              *)
(***************************************************************************)
THEOREM StopsItsOwnCorrect == Spec => []StopsItsOwn
<1>1. IInv => StopsItsOwn
  BY SqliteAssumption DEF IInv, Shape, TypeOK, Tokens, StopsItsOwn, ShouldStop
<1> QED
  BY Inductive, <1>1, PTL

(***************************************************************************)
(* The bar tells of the transaction that is open on the one connection,    *)
(* as long as no statement of the editor was dropped unheard               *)
(* (execute_tracked).                                                      *)
(***************************************************************************)
THEOREM FlagCorrect == Spec => []FlagTells
<1>1. IInv => FlagTells
  BY DEF IInv, Flag, FlagTells
<1> QED
  BY Inductive, <1>1, PTL

-----------------------------------------------------------------------------
(* The update *)

(***************************************************************************)
(* What install has on the disk at each of its steps: what it is about to  *)
(* put in place has been verified and stays so to the end, and the copy    *)
(* that ran is in place until it is set aside.                             *)
(***************************************************************************)
AtStep ==
  /\ install # "no" => chip = "Ready"
  /\ install \in {"clear", "aside", "swap"} => staging.signed
  /\ install \in {"clear", "aside", "clean", "open"} => app.signed
  /\ install \in {"swap", "restore"} => backup.signed

SetAside == backup = Nothing \/ backup.signed

DiskInv == AtStep /\ SetAside /\ WorkingCopy

-----------------------------------------------------------------------------
LEMMA InitDisk == UpdaterInit => DiskInv
BY DEF UpdaterInit, DiskInv, AtStep, SetAside, WorkingCopy, Nothing

(***************************************************************************)
(* Nothing but install touches what install relies on: the window is not   *)
(* heard while it runs, and a download writes the staging directory only   *)
(* while there is nothing to install.                                      *)
(***************************************************************************)
LEMMA AroundInstall ==
    ASSUME DiskInv,
           \/ Publish \/ Check \/ CheckLands \/ Download \/ DownloadLands
           \/ Verify \/ Quit \/ Launch
    PROVE  DiskInv'
<1> USE DEF DiskInv, AtStep, SetAside, WorkingCopy, Shows, Disk
<1>1. CASE Publish
  BY <1>1 DEF Publish
<1>2. CASE Check
  BY <1>2 DEF Check
<1>3. CASE CheckLands
  BY <1>3 DEF CheckLands
<1>4. CASE Download
  BY <1>4 DEF Download
<1>5. CASE DownloadLands
  BY <1>5 DEF DownloadLands
<1>6. CASE Verify
  BY <1>6 DEF Verify, InstallGoes, Fails, IsUpdatable
<1>7. CASE Quit
  BY <1>7 DEF Quit
<1>8. CASE Launch
  BY <1>8 DEF Launch
<1> QED
  BY <1>1, <1>2, <1>3, <1>4, <1>5, <1>6, <1>7, <1>8

(***************************************************************************)
(* Each step of install, whether it works or fails.                        *)
(***************************************************************************)
LEMMA DuringInstall ==
    ASSUME DiskInv, Installs
    PROVE  DiskInv'
<1> USE DEF DiskInv, AtStep, SetAside, WorkingCopy, Shows, Disk, InstallGoes, Fails, Nothing
<1>1. CASE Clear
  BY <1>1 DEF Clear
<1>2. CASE MoveAside
  BY <1>2 DEF MoveAside
<1>3. CASE Swap
  BY <1>3 DEF Swap
<1>4. CASE Restore
  BY <1>4 DEF Restore
<1>5. CASE Clean
  BY <1>5 DEF Clean
<1>6. CASE Open
  BY <1>6 DEF Open
<1> QED
  BY <1>1, <1>2, <1>3, <1>4, <1>5, <1>6 DEF Installs

-----------------------------------------------------------------------------
(***************************************************************************)
(* An update that fails wherever it does, and a process that ends wherever *)
(* it does, leave a dbui that is signed by the certificate of the one that *)
(* ran (install, verify_bundle).                                           *)
(***************************************************************************)
THEOREM WorkingCopyCorrect == UpdaterSpec => []WorkingCopy
<1>1. ASSUME DiskInv, UNCHANGED updaterVars
      PROVE  DiskInv'
  BY <1>1 DEF DiskInv, AtStep, SetAside, WorkingCopy, updaterVars
<1>2. DiskInv /\ [UpdaterNext]_updaterVars => DiskInv'
  BY <1>1, AroundInstall, DuringInstall DEF UpdaterNext
<1>3. DiskInv => WorkingCopy
  BY DEF DiskInv
<1> QED
  BY InitDisk, <1>2, <1>3, PTL DEF UpdaterSpec

================================================================================

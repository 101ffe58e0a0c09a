-------------------------------- MODULE Updater --------------------------------
(* dbui-app/src/updater.rs and dbui-ui/src/update.rs: the chip of the status   *)
(* bar, the three steps behind it, and what they do to the folder dbui is in.  *)
(* Any file operation may fail, and the process may end between any two.       *)
EXTENDS Naturals

CONSTANTS MaxVersion   \* versions ever released; version 1 is installed first

VARIABLES
  released,  \* the release GitHub calls the latest
  running,   \* the version of the running process, or 0
  chip,      \* DbUi::update
  offer,     \* the Update or the Staged it holds
  install,   \* how far `install` has come
  app,       \* dbui.app
  backup,    \* dbui.app.old
  staging    \* the staging directory: what its dbui.app is

updaterVars == <<released, running, chip, offer, install, app, backup, staging>>

Versions == 1..MaxVersion
\* A bundle; `signed` if by the certificate that signed the running one.
Bundles  == [version : Versions, signed : BOOLEAN]
Nothing  == [version |-> 0, signed |-> FALSE]
\* A release: whether it has the universal zip, and what SHA256SUMS says of it.
\* Neither says who built what is in the zip.
Releases == [version : Versions, zip : BOOLEAN, sums : {"none", "match", "differ"}]
NoOffer  == [version |-> 0, sums |-> "none"]

UpdaterTypeOK ==
  /\ released \in Releases
  /\ running \in 0..MaxVersion
  /\ chip \in {"Idle", "Checking", "Available", "Downloading", "Ready", "Failed"}
  /\ offer \in [version : 0..MaxVersion, sums : {"none", "match", "differ"}]
  /\ install \in {"no", "clear", "aside", "swap", "restore", "clean", "open"}
  /\ {app, backup, staging} \subseteq Bundles \cup {Nothing}

UpdaterInit ==
  /\ released \in Releases /\ released.version = 1
  /\ running = 1 /\ chip = "Idle" /\ offer = NoOffer /\ install = "no"
  /\ app = [version |-> 1, signed |-> TRUE] /\ backup = Nothing /\ staging = Nothing

\* GitHub: a release is published, or the latest one's files are replaced.
Publish ==
  /\ released' \in Releases \ {released}
  /\ released'.version \in {released.version, released.version + 1}
  /\ UNCHANGED <<running, chip, offer, install, app, backup, staging>>

Shows(c, o) == chip' = c /\ offer' = o

Disk == <<app, backup, staging>>

\* installed_app: the running copy's own bundle, if it is where it was.
IsUpdatable == app # Nothing

\* check_for_update, at launch and by a click on a failure. The window does
\* nothing else while `install` runs on its thread.
Check ==
  /\ running # 0 /\ install = "no" /\ chip \in {"Idle", "Failed"}
  /\ IsUpdatable
  /\ Shows("Checking", NoOffer)
  /\ UNCHANGED <<released, running, install, Disk>>

\* fetch_latest: not newer is no update, newer without the zip is an error, and
\* SHA256SUMS that cannot be fetched are as none.
CheckLands ==
  /\ running # 0 /\ chip = "Checking"
  /\ \/ Shows("Failed", NoOffer)
     \/ released.version <= running /\ Shows("Idle", NoOffer)
     \/ /\ released.version > running /\ released.zip
        /\ \E sums \in {released.sums, "none"} :
             Shows("Available", [version |-> released.version, sums |-> sums])
  /\ UNCHANGED <<released, running, install, Disk>>

Download ==
  /\ running # 0 /\ chip = "Available"
  /\ Shows("Downloading", offer)
  /\ UNCHANGED <<released, running, install, Disk>>

\* fetch_and_stage: a failure can leave the staging directory half made, which
\* holds no bundle.
DownloadLands ==
  /\ running # 0 /\ chip = "Downloading"
  /\ \/ Shows("Failed", NoOffer) /\ staging' \in {staging, Nothing}
     \/ /\ offer.sums # "differ" /\ IsUpdatable
        /\ \E signed \in BOOLEAN : staging' = [version |-> offer.version, signed |-> signed]
        /\ Shows("Ready", offer)
  /\ UNCHANGED <<released, running, install, app, backup>>

--------------------------------------------------------------------------------
\* install, by a click on Restart. It holds the window's thread to its end.

InstallGoes(step) == install' = step /\ UNCHANGED <<chip, offer>>
Fails      == install' = "no" /\ Shows("Failed", NoOffer)

\* verify_bundle: only what the certificate of the running copy has signed.
Verify ==
  /\ running # 0 /\ chip = "Ready" /\ install = "no"
  /\ \/ Fails
     \/ IsUpdatable /\ staging.signed /\ InstallGoes("clear")
  /\ UNCHANGED <<released, running, Disk>>

\* An older backup is deleted; what cannot be makes the renaming fail.
Clear ==
  /\ install = "clear" /\ InstallGoes("aside")
  /\ backup' \in {backup, Nothing}
  /\ UNCHANGED <<released, running, app, staging>>

MoveAside ==
  /\ install = "aside"
  /\ \/ Fails /\ UNCHANGED Disk
     \/ /\ backup = Nothing
        /\ InstallGoes("swap") /\ backup' = app /\ app' = Nothing /\ UNCHANGED staging
  /\ UNCHANGED <<released, running>>

\* Mutant: the old copy is deleted before the new one is known to be in place.
SwapHastily ==
  /\ install = "swap"
  /\ backup' = Nothing
  /\ \/ InstallGoes("restore") /\ UNCHANGED <<app, staging>>
     \/ InstallGoes("clean") /\ app' = staging /\ staging' = Nothing
  /\ UNCHANGED <<released, running>>

Swap ==
  /\ install = "swap"
  /\ \/ InstallGoes("restore") /\ UNCHANGED Disk
     \/ InstallGoes("clean") /\ app' = staging /\ staging' = Nothing /\ UNCHANGED backup
  /\ UNCHANGED <<released, running>>

\* The working copy is put back, if that much works.
Restore ==
  /\ install = "restore" /\ Fails
  /\ \/ UNCHANGED Disk
     \/ app' = backup /\ backup' = Nothing /\ UNCHANGED staging
  /\ UNCHANGED <<released, running>>

Clean ==
  /\ install = "clean" /\ InstallGoes("open")
  /\ backup' \in {backup, Nothing}
  /\ UNCHANGED <<released, running, app, staging>>

\* The new copy is opened and this process exits, or stays if it cannot be.
Open ==
  /\ install = "open"
  /\ \/ Fails /\ UNCHANGED running
     \/ running' = app.version /\ install' = "no" /\ Shows("Idle", NoOffer)
  /\ UNCHANGED <<released, Disk>>

Installs == Clear \/ MoveAside \/ Swap \/ Restore \/ Clean \/ Open

\* The process ends. Its staging directory, named after it, is nobody's now.
Quit ==
  /\ running # 0
  /\ running' = 0 /\ install' = "no" /\ Shows("Idle", NoOffer) /\ staging' = Nothing
  /\ UNCHANGED <<released, app, backup>>

\* The user opens dbui.app, if there is one.
Launch ==
  /\ running = 0 /\ app # Nothing
  /\ running' = app.version
  /\ UNCHANGED <<released, chip, offer, install, Disk>>

UpdaterNext ==
  \/ Publish \/ Check \/ CheckLands \/ Download \/ DownloadLands
  \/ Verify \/ Installs \/ Quit \/ Launch

UpdaterSpec == UpdaterInit /\ [][UpdaterNext]_updaterVars

--------------------------------------------------------------------------------
\* An update that fails, wherever it does and however often it is tried again,
\* does not leave the machine with no dbui at all: the copy that ran, or one
\* signed by the same certificate, is in place or set aside, and never is
\* anything else in place (install, verify_bundle, installed_app).
WorkingCopy ==
  /\ app.signed \/ backup.signed
  /\ app # Nothing => app.signed
================================================================================

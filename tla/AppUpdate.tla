------------------------------ MODULE AppUpdate ------------------------------
(***************************************************************************)
(* The application's update: AppUpdateModel (ui/app_update_model.h) looks  *)
(* for a release and downloads it, AppUpdatePackage owns the download's    *)
(* directory, the installation of platform_app.cpp prepares the session,   *)
(* and the helper of app_updater.cpp verifies the package once more and    *)
(* runs the installer; on Android the system's installer is called through *)
(* a channel that closes with its window.                                  *)
(*                                                                         *)
(* A task is a coroutine: it may be cancelled, and resumes after every     *)
(* await with the ticket it was started with.                              *)
(***************************************************************************)
EXTENDS Naturals, FiniteSets

CONSTANTS
    Platforms,   \* of "linux", "windows", "android"
    Size,        \* chunks of the asset
    MaxSerial,   \* bound: checks, downloads and cancellations
    MaxInstalls, MaxSpoils

VARIABLES
    platform,
    checking, phase, serial, release,
    package,   \* ticket of the download whose package the model holds, or 0
    job,       \* ticket -> [kind, pc], the tasks that still run
    pack,      \* ticket -> the download's directory
    install,   \* the installation: "no", "permission", "save", "stop", "freeze", "verify", "wait"
    helper,    \* "no", "verify", "ready", "install", "failed", "done"
    app,       \* "open", "closing", "exited"
    ran,       \* what an installer has run: "nothing", "good", "bad"
    channel,   \* Android's presentation session: "open", "closed"
    call,      \* the call in its ledger: "none", "waiting", "yes", "no", "error"
    installs, spoils

model == <<checking, phase, serial, release, package>>
rest  == <<install, helper, app, ran, channel, call, installs>>
vars  == <<platform, model, job, pack, rest, spoils>>

Tickets == 1..MaxSerial
NoDir == [file |-> "none", chunks |-> 0, good |-> TRUE, handed |-> FALSE]
Transferring == phase \in {"Downloading", "Verifying"}
CanInstall == package # 0 /\ phase \in {"Ready", "InstallFailed"}
Android == platform = "android"

\* ~AppUpdatePackage: when nobody holds the package any more, its files go.
Dropped(p, jobs, held) ==
    [t \in Tickets |->
       IF t \notin DOMAIN jobs /\ t # held /\ ~p[t].handed THEN NoDir ELSE p[t]]

Ends(t) == [u \in DOMAIN job \ {t} |-> job[u]]
Moves(t, pc) == [job EXCEPT ![t].pc = pc]
Starts(t, kind) == [u \in DOMAIN job \cup {t} |->
                      IF u = t THEN [kind |-> kind, pc |-> "await"] ELSE job[u]]
Current(t) == t = serial

(******************************** the model *******************************)

Check ==
    /\ app = "open" /\ ~checking /\ ~Transferring /\ ~CanInstall /\ phase # "Installing"
    /\ serial < MaxSerial
    /\ checking' = TRUE /\ serial' = serial + 1 /\ job' = Starts(serial', "check")
    /\ UNCHANGED <<phase, release, package, pack, rest, spoils>>

\* Whatever the request did, `release' says what there is to download.
Checked(t) ==
    /\ job[t].kind = "check"
    /\ IF Current(t)
       THEN /\ release' \in {"none", "error", "newer"}
            /\ checking' = FALSE /\ phase' = "Idle"
            /\ UNCHANGED <<serial, package>>
       ELSE UNCHANGED model
    /\ job' = Ends(t)
    /\ UNCHANGED <<pack, rest, spoils>>

Download ==
    /\ app = "open" /\ ~checking /\ ~Transferring /\ ~CanInstall /\ phase # "Installing"
    /\ release = "newer" /\ serial < MaxSerial
    /\ phase' = "Downloading" /\ serial' = serial + 1 /\ job' = Starts(serial', "download")
    /\ UNCHANGED <<checking, release, package, pack, rest, spoils>>

\* The task may be cancelled at its await, or resume and find its ticket stale.
CancelDownload ==
    /\ app = "open" /\ Transferring /\ serial < MaxSerial
    /\ serial' = serial + 1 /\ package' = 0 /\ phase' = "Idle"
    /\ \/ job' = Ends(serial) \/ job' = job
    /\ pack' = Dropped(pack, job', 0)
    /\ UNCHANGED <<checking, release, rest, spoils>>

\* AppUpdatePackage::Prepare: a directory of its own.
Prepare(t) ==
    /\ job[t] = [kind |-> "download", pc |-> "await"]
    /\ pack' = [pack EXCEPT ![t] = [NoDir EXCEPT !.file = "part"]]
    /\ job' = Moves(t, "body")
    /\ UNCHANGED <<model, rest, spoils>>

\* AppUpdatePackage::Write on a worker; then the ticket is compared.
Write(t) ==
    /\ job[t] = [kind |-> "download", pc |-> "body"] /\ pack[t].chunks < Size
    /\ \E ok \in BOOLEAN :
          pack' = [pack EXCEPT ![t].chunks = @ + 1, ![t].good = @ /\ ok]
    /\ job' = Moves(t, "wrote")
    /\ UNCHANGED <<model, rest, spoils>>

Leave(t) ==
    /\ job' = Ends(t) /\ pack' = Dropped(pack, job', package')
    /\ UNCHANGED <<rest, spoils>>

Written(t) ==
    /\ job[t] = [kind |-> "download", pc |-> "wrote"]
    /\ IF Current(t) THEN job' = Moves(t, "body") /\ UNCHANGED <<model, pack, rest, spoils>>
                     ELSE UNCHANGED model /\ Leave(t)

\* The body has ended, where it should or short of it.
BodyEnds(t) ==
    /\ job[t] = [kind |-> "download", pc |-> "body"]
    /\ IF Current(t)
       THEN /\ phase' = "Verifying" /\ job' = Moves(t, "verify")
            /\ UNCHANGED <<checking, serial, release, package, pack, rest, spoils>>
       ELSE UNCHANGED model /\ Leave(t)

\* AppUpdatePackage::Commit, or VerifyAndCommit: size and hash, then the name.
Commit(t) ==
    /\ job[t] = [kind |-> "download", pc |-> "verify"]
    /\ pack[t].chunks = Size /\ pack[t].good
    /\ pack' = [pack EXCEPT ![t].file = "package"] /\ job' = Moves(t, "committed")
    /\ UNCHANGED <<model, rest, spoils>>

\* Mutant of Committed: the ticket is not compared after the verification.
CommittedAnyway(t) ==
    /\ job[t] = [kind |-> "download", pc |-> "committed"]
    /\ phase' = "Ready" /\ package' = t
    /\ UNCHANGED <<checking, serial, release>> /\ Leave(t)

Committed(t) ==
    /\ job[t] = [kind |-> "download", pc |-> "committed"]
    /\ IF Current(t)
       THEN phase' = "Ready" /\ package' = t /\ UNCHANGED <<checking, serial, release>>
       ELSE UNCHANGED model
    /\ Leave(t)

\* The catch clauses: an error of a stale task is nobody's.
DownloadThrows(t) ==
    /\ job[t].kind = "download" /\ job[t].pc \in {"await", "body", "verify"}
    /\ IF Current(t)
       THEN phase' = "DownloadFailed" /\ UNCHANGED <<checking, serial, release, package>>
       ELSE UNCHANGED model
    /\ Leave(t)

(**************************** the installation ****************************)

Installing(step) == install' = step /\ UNCHANGED <<helper, app, ran, channel, call, installs>>

InstallUpdate ==
    /\ ~Android /\ app = "open" /\ CanInstall /\ install = "no" /\ installs < MaxInstalls
    /\ installs' = installs + 1 /\ phase' = "Installing" /\ install' = "save"
    /\ UNCHANGED <<checking, serial, release, package, job, pack, helper, app, ran, channel, call, spoils>>

\* Saving, stopping the core and freezing writes, each of which may throw.
InstallPrepares ==
    /\ \E s \in {<<"save", "stop">>, <<"stop", "freeze">>, <<"freeze", "verify">>} :
          install = s[1] /\ (Android => s[1] # "freeze") /\ Installing(s[2])
    /\ UNCHANGED <<model, job, pack, spoils>>

InstallThrows ==
    /\ install \in {"save", "stop", "freeze"}
    /\ phase' = "InstallFailed" /\ Installing("no")
    /\ UNCHANGED <<checking, serial, release, package, job, pack, spoils>>

Intact == pack[package].file = "package" /\ pack[package].good

\* InstallDesktopUpdate: verify, then start the helper.
StartHelper ==
    /\ install = "verify" /\ ~Android
    /\ IF Intact
       THEN /\ install' = "wait" /\ helper' = "verify"
            /\ UNCHANGED <<model, app, ran, channel, call, installs>>
       ELSE /\ phase' = "InstallFailed" /\ Installing("no")
            /\ UNCHANGED <<checking, serial, release, package>>
    /\ UNCHANGED <<job, pack, spoils>>

\* Apply: a sealed copy on Linux, a locked file on Windows, verified as such.
HelperVerifies ==
    /\ helper = "verify"
    /\ helper' = IF Intact THEN "ready" ELSE "failed"
    /\ UNCHANGED <<model, job, pack, install, app, ran, channel, call, installs, spoils>>

\* Linux: pkexec runs while the application waits for the helper to exit.
\* Windows: the installer runs only once the application has exited.
Run(outcome) ==
    /\ helper' = outcome /\ ran' = IF ran = "bad" THEN ran ELSE "good"
    /\ pack' = IF outcome = "done" THEN [pack EXCEPT ![package].file = "gone"] ELSE pack

HelperInstalls ==
    /\ helper = "ready" /\ (platform = "windows" => app = "exited")
    /\ \E outcome \in {"done", "failed"} : Run(outcome)
    /\ UNCHANGED <<model, job, install, app, channel, call, installs, spoils>>

\* The application never exits: the helper gives up after two minutes.
HelperGivesUp ==
    /\ helper = "ready" /\ platform = "windows" /\ app = "closing"
    /\ helper' = "failed"
    /\ UNCHANGED <<model, job, pack, install, app, ran, channel, call, installs, spoils>>

\* The application reads "ready" (Windows) or reaps a successful helper (Linux).
HandOver ==
    /\ install = "wait" /\ ~Android
    /\ helper = IF platform = "windows" THEN "ready" ELSE "done"
    /\ pack' = [pack EXCEPT ![package].handed = TRUE] /\ install' = "no" /\ app' = "closing"
    /\ UNCHANGED <<model, job, helper, ran, channel, call, installs, spoils>>

Quit ==
    /\ app = "closing" /\ app' = "exited"
    /\ UNCHANGED <<model, job, pack, install, helper, ran, channel, call, installs, spoils>>

\* The helper exits or stays silent for 30 s; Windows terminates it, be it that it has
\* become ready after the last look.
HelperFails ==
    /\ install = "wait" /\ ~Android
    /\ \/ platform = "linux" /\ helper = "failed"
       \/ platform = "windows" /\ helper \in {"verify", "ready", "failed"}
    /\ helper' = "failed" /\ phase' = "InstallFailed" /\ install' = "no"
    /\ UNCHANGED <<checking, serial, release, package, job, pack, app, ran, channel, call, installs, spoils>>

(******************************** Android *********************************)

InstallAndroid ==
    /\ Android /\ app = "open" /\ CanInstall /\ install = "no" /\ channel = "open"
    /\ installs < MaxInstalls /\ installs' = installs + 1
    /\ phase' = "Installing" /\ install' = "permission" /\ call' = "waiting"
    /\ pack' = [pack EXCEPT ![package].handed = TRUE]
    /\ UNCHANGED <<checking, serial, release, package, job, helper, app, ran, channel, spoils>>

\* AndroidUpdateChannel::Call, refused once the channel is closed.
Call == call' = IF channel = "open" THEN "waiting" ELSE "error"

Permission ==
    /\ install = "permission" /\ call \notin {"none", "waiting"} /\ call' = "none"
    /\ install' = IF call = "yes" THEN "save" ELSE "no"
    /\ phase' = CASE call = "yes" -> phase [] call = "no" -> "Ready" [] OTHER -> "InstallFailed"
    /\ UNCHANGED <<checking, serial, release, package, job, pack, helper, app, ran, channel, installs, spoils>>

\* Verify on the platform's verifier, then Install on the presentation.
CallInstaller ==
    /\ Android /\ install = "freeze"
    /\ IF Intact
       THEN install' = "wait" /\ Call /\ UNCHANGED phase
       ELSE install' = "no" /\ phase' = "InstallFailed" /\ call' = call
    /\ UNCHANGED <<checking, serial, release, package, job, pack, helper, app, ran, channel, installs, spoils>>

Installed ==
    /\ Android /\ install = "wait" /\ call \notin {"none", "waiting"} /\ call' = "none"
    /\ install' = "no" /\ phase' = IF call = "error" THEN "InstallFailed" ELSE "Ready"
    /\ UNCHANGED <<checking, serial, release, package, job, pack, helper, app, ran, channel, installs, spoils>>

\* AppUpdatePendingCalls::Finish, and Close, which fails what still waits.
Answer ==
    /\ call = "waiting" /\ channel = "open" /\ call' \in {"yes", "no", "error"}
    /\ ran' = IF install = "wait" /\ call' = "yes" /\ ran # "bad"
              THEN IF Intact THEN "good" ELSE "bad" ELSE ran
    /\ UNCHANGED <<model, job, pack, install, helper, app, channel, installs, spoils>>

\* Mutant of Close: the calls that wait are forgotten.
CloseDrops ==
    /\ Android /\ channel = "open" /\ channel' = "closed"
    /\ UNCHANGED <<model, job, pack, install, helper, app, ran, call, installs, spoils>>

Close ==
    /\ Android /\ channel = "open" /\ channel' = "closed"
    /\ call' = IF call = "waiting" THEN "error" ELSE call
    /\ UNCHANGED <<model, job, pack, install, helper, app, ran, installs, spoils>>

\* A new window opens a new presentation.
Reopen ==
    /\ channel = "closed" /\ channel' = "open"
    /\ UNCHANGED <<model, job, pack, install, helper, app, ran, call, installs, spoils>>

(******************************* environment ******************************)

\* The package's file in the cache directory changes under the application,
\* unless Windows' helper has locked it.  Android's directory is private.
Spoil ==
    /\ spoils < MaxSpoils /\ spoils' = spoils + 1 /\ package # 0 /\ ~Android
    /\ pack[package].file = "package" /\ pack[package].good
    /\ ~(platform = "windows" /\ helper \in {"ready", "install"})
    /\ pack' = [pack EXCEPT ![package].good = FALSE]
    /\ UNCHANGED <<model, job, rest>>

Init ==
    /\ platform \in Platforms
    /\ checking = FALSE /\ phase = "Idle" /\ serial = 0 /\ release = "none" /\ package = 0
    /\ job = [t \in {} |-> NoDir] /\ pack = [t \in Tickets |-> NoDir]
    /\ install = "no" /\ helper = "no" /\ app = "open" /\ ran = "nothing"
    /\ channel = "open" /\ call = "none" /\ installs = 0 /\ spoils = 0

Task(t) ==
    /\ t \in DOMAIN job /\ UNCHANGED platform
    /\ \/ Checked(t) \/ Prepare(t) \/ Write(t) \/ Written(t) \/ BodyEnds(t)
       \/ Commit(t) \/ Committed(t) \/ DownloadThrows(t)

Install ==
    /\ UNCHANGED platform
    /\ \/ InstallPrepares \/ InstallThrows \/ StartHelper \/ HelperVerifies \/ HelperInstalls
       \/ HelperGivesUp \/ HandOver \/ HelperFails \/ Permission \/ CallInstaller \/ Installed

Given ==
    /\ UNCHANGED platform
    /\ \/ Check \/ Download \/ CancelDownload \/ InstallUpdate \/ InstallAndroid
       \/ Answer \/ Close \/ Reopen \/ Spoil \/ Quit

Next == Given \/ (\E t \in Tickets : Task(t)) \/ Install

Spec ==
    /\ Init /\ [][Next]_vars
    /\ \A t \in Tickets : WF_vars(Task(t))
    /\ WF_vars(Install)

(******************************* properties *******************************)

\* Every variable keeps its type.
TypeOK ==
    /\ checking \in BOOLEAN /\ serial \in 0..MaxSerial /\ package \in 0..serial
    /\ phase \in {"Idle", "Downloading", "Verifying", "Ready", "DownloadFailed", "Installing", "InstallFailed"}
    /\ DOMAIN job \subseteq Tickets /\ \A t \in DOMAIN job : job[t].kind \in {"check", "download"}
    /\ \A t \in Tickets : pack[t].file \in {"none", "part", "package", "gone"}
    /\ ran \in {"nothing", "good", "bad"} /\ call \in {"none", "waiting", "yes", "no", "error"}

\* What is offered for installation was downloaded completely and verified.
OfferedIsComplete == CanInstall => pack[package].file # "part" /\ pack[package].chunks = Size

\* Nothing but the verified bytes is ever installed, although the file lies in
\* a directory that others may write to between two looks at it.
RunsOnlyVerified == ran # "bad"

\* A task that was overtaken changes nothing the user sees.
StaleIsSilent ==
    [][\A t \in Tickets : (t \in DOMAIN job /\ t # serial /\ t \notin DOMAIN job' /\ serial' = serial)
          => <<checking, phase, release, package>>' = <<checking, phase, release, package>>]_vars

\* A directory lives as long as somebody owns it: the task that writes it, the
\* model, or the installer it was handed to.
DirectoryIsOwned ==
    \A t \in Tickets : pack[t].file # "none" => t \in DOMAIN job \/ t = package \/ pack[t].handed

\* On Windows no installer replaces a program that still runs.
InstallsAfterExit == platform = "windows" /\ ran # "nothing" => app = "exited"

\* An installation that was reported as failed is over: no helper may still
\* install behind the application's back.
FailedIsOver == phase = "InstallFailed" => install = "no" /\ helper \notin {"verify", "ready", "install"}

\* Every installation ends: in the next version, or back in this one with the
\* package kept.  A window that closes takes its calls with it.
InstallationEnds == (install # "no") ~> (install = "no" \/ (call = "waiting" /\ channel = "open"))

\* A check or a transfer ends whatever is cancelled meanwhile.
TransferEnds == (checking \/ Transferring) ~> (~checking /\ ~Transferring)
==============================================================================

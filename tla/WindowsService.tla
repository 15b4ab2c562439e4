---------------------------- MODULE WindowsService ----------------------------
(***************************************************************************)
(* windows_service.cpp: the service process and its command pipe, the      *)
(* service manager (SCM), the upgrade the service prepares for a client,   *)
(* and the two processes that replace its payload under the management     *)
(* lock: the helper it starts for an upgrade and an elevated `service      *)
(* install' or `service uninstall'.                                        *)
(*                                                                         *)
(* Directories hold None, a whole payload of a version, or Torn while they *)
(* are being written.  Renaming or removing the directory a running        *)
(* service was loaded from fails.                                          *)
(***************************************************************************)
EXTENDS Integers, Sequences, FiniteSets

CONSTANTS
    Configs,    \* configurations a START can name
    None, Torn,
    MaxCalls,   \* bound: commands served
    MaxCrashes, \* bound: crashes of the service process
    MaxKills,   \* bound: installers killed half-way
    MaxInstalls \* bound: elevated installations and removals

VARIABLES
    svc,        \* SCM: "absent", "stopped", "running", "stopping"
    enabled,    \* start type: automatic, or disabled during an upgrade
    dirs,       \* contents of bin, previous, staging and upgrade-source
    lock,       \* the management mutex: None, "service", "helper", "admin"
    proc,       \* the helper and the elevated installer
    handle,     \* the service holds upgradeProcess of a live helper
    serving,    \* the command on the command pipe, or None
    at,         \* where the service thread is in it
    held,       \* the service holds an engine handle
    live,       \* the configuration of the kernel that runs, or None
    calls, crashes, kills, installs,
    aborted,    \* a rollback threw: the directory was in use
    said        \* the answer given by the last step, or None

service == <<svc, serving, at, held, live, handle, calls, crashes, said>>
files == <<dirs, enabled, lock, proc, kills, installs, aborted>>
vars == <<service, files>>

Versions == {"old", "new"}
Procs == {"helper", "admin"}
Ops == {"START", "STOP", "UPGRADE"}
Command == [op : Ops, config : Configs \cup {None}]
Places == {"bin", "previous", "staging", "source"}
Resting == [pc |-> "none", had |-> FALSE, movedOld |-> FALSE, movedNew |-> FALSE,
            disabled |-> FALSE, remove |-> FALSE]

TypeOK ==
    /\ svc \in {"absent", "stopped", "running", "stopping"} /\ enabled \in BOOLEAN
    /\ dirs \in [Places -> Versions \cup {None, Torn}]
    /\ lock \in {None, "service"} \cup Procs
    /\ \A p \in Procs :
        /\ proc[p].pc \in {"none", "gate", "lock", "stage", "copy", "prune", "stop", "moveOld",
                           "moveNew", "register", "start", "catch", "undo", "restart", "delete"}
        /\ {proc[p].had, proc[p].movedOld, proc[p].movedNew, proc[p].disabled, proc[p].remove}
                \subseteq BOOLEAN
    /\ handle \in BOOLEAN /\ aborted \in BOOLEAN
    /\ serving \in Command \cup {None} /\ held \in BOOLEAN /\ live \in Configs \cup {None}
    /\ at \in {"idle", "read", "term", "create", "watch", "stopped", "validate", "copy", "updater",
               "reply"}
    /\ calls \in 0..MaxCalls /\ crashes \in 0..MaxCrashes /\ kills \in 0..MaxKills
    /\ installs \in 0..MaxInstalls
    /\ said \in [op : Ops, ok : BOOLEAN] \cup {None}

Init ==
    /\ svc = "running" /\ enabled = TRUE
    /\ dirs = [d \in Places |-> IF d = "bin" THEN "old" ELSE None]
    /\ lock = None /\ handle = FALSE /\ aborted = FALSE
    /\ proc = [p \in Procs |-> Resting]
    /\ serving = None /\ at = "idle" /\ held = FALSE /\ live = None
    /\ calls = 0 /\ crashes = 0 /\ kills = 0 /\ installs = 0 /\ said = None

(***************************************************************************)
(* The service: one pipe instance, one command at a time.                  *)
(***************************************************************************)

Quiet == said' = None
Process == svc \in {"running", "stopping"}

\* A client got the pipe and wrote its command.  One that gives up waiting for
\* the answer changes nothing here.
Serve(op, config) ==
    /\ svc = "running" /\ at = "idle" /\ calls < MaxCalls
    /\ (op = "START") = (config # None)
    /\ serving' = [op |-> op, config |-> config] /\ at' = "read" /\ calls' = calls + 1 /\ Quiet
    /\ UNCHANGED <<svc, held, live, handle, crashes, files>>

\* The end of the loop body: the answer, and an engine that exited is released.
Reply(ok) ==
    /\ said' = [op |-> serving.op, ok |-> ok]
    /\ serving' = None /\ at' = "idle"
    /\ held' = (held /\ live # None)

\* A configuration that is not local, readable or small enough.
Refuse ==
    /\ at = "read" /\ serving.op = "START" /\ Reply(FALSE)
    /\ UNCHANGED <<svc, live, handle, calls, crashes, files>>

\* stopEngine: routes are released, then the job is terminated.
BeginStop ==
    /\ at = "read" /\ serving.op \in {"START", "STOP"}
    /\ at' = IF held THEN "term" ELSE IF serving.op = "START" THEN "create" ELSE "stopped"
    /\ Quiet
    /\ UNCHANGED <<svc, serving, held, live, handle, calls, crashes, files>>

\* Mutant: the result of the wait is not looked at.
ConfirmUnseen ==
    /\ at = "term"
    /\ held' = FALSE /\ Quiet
    /\ at' = IF serving.op = "START" THEN "create" ELSE "stopped"
    /\ UNCHANGED <<svc, serving, live, handle, calls, crashes, files>>

\* The wait of two seconds ends with the process, and the handles are closed ...
ConfirmExit ==
    /\ at = "term" /\ live = None
    /\ held' = FALSE /\ Quiet
    /\ at' = IF serving.op = "START" THEN "create" ELSE "stopped"
    /\ UNCHANGED <<svc, serving, live, handle, calls, crashes, files>>

\* ... or with an error, and the service keeps the engine.
StopFails ==
    /\ at = "term" /\ Reply(FALSE)
    /\ UNCHANGED <<svc, live, handle, calls, crashes, files>>

\* CreateProcess suspended, assigned to the job, resumed; each may fail.
CreateCore ==
    /\ at = "create" /\ held' = TRUE /\ live' = serving.config /\ at' = "watch" /\ Quiet
    /\ UNCHANGED <<svc, serving, handle, calls, crashes, files>>
CreateFails ==
    /\ at = "create" /\ Reply(FALSE)
    /\ UNCHANGED <<svc, live, handle, calls, crashes, files>>

\* OK unless the new process exits within 100 ms.
Answer ==
    /\ at \in {"watch", "stopped"}
    /\ \/ at = "stopped" /\ Reply(TRUE)
       \/ at = "watch" /\ Reply(TRUE)
       \/ at = "watch" /\ live = None /\ Reply(FALSE)
    /\ UNCHANGED <<svc, live, handle, calls, crashes, files>>

\* The wait for a client is interrupted by the engine's exit.
Reap ==
    /\ Process /\ at = "idle" /\ held /\ live = None
    /\ held' = FALSE /\ Quiet
    /\ UNCHANGED <<svc, serving, at, live, handle, calls, crashes, files>>

(***************************************************************************)
(* UPGRADE: prepareUpgrade, in the service thread.                         *)
(***************************************************************************)

\* Refused while an earlier helper lives; the lock is tried, never waited for,
\* and a released mutex belongs to the process that waits for it.
TakeLock ==
    /\ at = "read" /\ serving.op = "UPGRADE" /\ ~handle
    /\ lock = None /\ \A p \in Procs : proc[p].pc # "lock"
    /\ lock' = "service" /\ at' = "validate" /\ Quiet
    /\ UNCHANGED <<svc, serving, held, live, handle, calls, crashes,
                   dirs, enabled, proc, kills, installs, aborted>>

\* requireProtectedPath, then the client's files are copied to upgrade-source.
StageSource ==
    /\ at = "validate"
    /\ dirs' = [dirs EXCEPT !["source"] = Torn] /\ at' = "copy" /\ Quiet
    /\ UNCHANGED <<svc, serving, held, live, handle, calls, crashes,
                   enabled, lock, proc, kills, installs, aborted>>
SourceStaged ==
    /\ at = "copy"
    /\ dirs' = [dirs EXCEPT !["source"] = "new"] /\ at' = "updater" /\ Quiet
    /\ UNCHANGED <<svc, serving, held, live, handle, calls, crashes,
                   enabled, lock, proc, kills, installs, aborted>>

\* The service's own files are copied to updater/, which fails while a helper
\* runs from there, and the helper is started with a gate that is still closed.
StartHelper ==
    /\ at = "updater" /\ proc["helper"].pc = "none"
    /\ proc' = [proc EXCEPT !["helper"] = [Resting EXCEPT !.pc = "gate"]]
    /\ handle' = TRUE /\ lock' = None /\ at' = "reply" /\ Quiet
    /\ UNCHANGED <<svc, serving, held, live, calls, crashes, dirs, enabled, kills, installs, aborted>>

\* Any exception releases the lock and becomes the answer.
UpgradeThrows ==
    /\ \/ at = "read" /\ serving.op = "UPGRADE"
       \/ at \in {"validate", "copy", "updater"}
    /\ lock' = IF lock = "service" THEN None ELSE lock
    /\ Reply(FALSE)
    /\ UNCHANGED <<svc, live, handle, calls, crashes, dirs, enabled, proc, kills, installs, aborted>>

\* The gate opens once the whole reply was written, and the helper, which waits
\* for nothing else, checks its owner and source and asks for the lock (before
\* another service process can be up).  A client that is gone leaves it closed.
AnswerUpgrade(written) ==
    /\ at = "reply"
    /\ proc' = IF written /\ proc["helper"].pc = "gate"
               THEN [proc EXCEPT !["helper"].pc = "lock"] ELSE proc
    /\ Reply(TRUE)
    /\ UNCHANGED <<svc, live, handle, calls, crashes, dirs, enabled, lock, kills, installs, aborted>>

(***************************************************************************)
(* The service process and SCM.                                            *)
(***************************************************************************)

\* serviceMain after the stop event: the engine is stopped, the process ends and
\* its job, if anything is left in it, is closed.
ServiceEnds ==
    /\ svc = "stopping" /\ at = "idle"
    /\ svc' = "stopped" /\ held' = FALSE /\ live' = None /\ handle' = FALSE /\ Quiet
    /\ UNCHANGED <<serving, at, calls, crashes, files>>

\* The job kills the kernel when its last handle is closed; the mutex is abandoned.
ServiceCrashes ==
    /\ Process /\ crashes < MaxCrashes
    /\ crashes' = crashes + 1 /\ svc' = "stopped"
    /\ held' = FALSE /\ live' = None /\ handle' = FALSE /\ serving' = None /\ at' = "idle" /\ Quiet
    /\ lock' = IF lock = "service" THEN None ELSE lock
    /\ UNCHANGED <<calls, dirs, enabled, proc, kills, installs, aborted>>

\* ensureCompatible of a client, recovery actions and boot: an enabled service
\* with a whole payload starts.
Started ==
    /\ svc' = "running"
    /\ UNCHANGED <<serving, at, held, live, handle, calls, crashes>>
ScmStart ==
    /\ svc = "stopped" /\ enabled /\ dirs["bin"] \in Versions
    /\ Started /\ Quiet /\ UNCHANGED files

KernelExits ==
    /\ live # None /\ live' = None /\ Quiet
    /\ UNCHANGED <<svc, serving, at, held, handle, calls, crashes, files>>

Thread ==
    \/ Refuse \/ BeginStop \/ ConfirmExit \/ StopFails \/ CreateCore \/ CreateFails \/ Answer \/ Reap
    \/ TakeLock \/ StageSource \/ SourceStaged \/ StartHelper \/ UpgradeThrows \/ ServiceEnds
    \/ \E written \in BOOLEAN : AnswerUpgrade(written)

(***************************************************************************)
(* installFrom and uninstall, in the helper or an elevated process.        *)
(***************************************************************************)

Step(p, pc) == proc' = [proc EXCEPT ![p].pc = pc]
Served == UNCHANGED <<svc, serving, at, held, live, handle, calls, crashes>> /\ Quiet
Serving == UNCHANGED <<serving, at, held, live, handle, calls, crashes>> /\ Quiet

\* The process ends: the start type is restored and the mutex released.
Leave(p) ==
    /\ proc' = [proc EXCEPT ![p] = Resting]
    /\ lock' = IF lock = p THEN None ELSE lock
    /\ enabled' = (enabled \/ proc[p].disabled)

Elevate(remove) ==
    /\ proc["admin"].pc = "none" /\ installs < MaxInstalls
    /\ installs' = installs + 1
    /\ proc' = [proc EXCEPT !["admin"] = [Resting EXCEPT !.pc = "lock", !.remove = remove]]
    /\ Served /\ UNCHANGED <<dirs, enabled, lock, kills, aborted>>

\* Thirty seconds for the lock; an abandoned mutex is taken.
Lock(p) ==
    /\ proc[p].pc = "lock" /\ lock = None
    /\ lock' = p /\ Step(p, IF proc[p].remove THEN "stop" ELSE "stage")
    /\ Served /\ UNCHANGED <<dirs, enabled, kills, installs, aborted>>

\* What fails before anything was changed: the gate, the lock, the staging, the
\* pruning of an earlier payload.
Fail(p) ==
    /\ proc[p].pc \in {"gate", "lock", "stage", "copy", "prune"}
    /\ Leave(p)
    /\ Served /\ UNCHANGED <<dirs, kills, installs, aborted>>

Stage(p) ==
    /\ proc[p].pc = "stage"
    /\ dirs' = [dirs EXCEPT !["staging"] = Torn] /\ Step(p, "copy")
    /\ Served /\ UNCHANGED <<enabled, lock, kills, installs, aborted>>

\* What is copied is what is there: the helper reads upgrade-source.
Staged(p) ==
    /\ proc[p].pc = "copy" /\ (p = "helper" => dirs["source"] # None)
    /\ dirs' = [dirs EXCEPT !["staging"] = IF p = "helper" THEN dirs["source"] ELSE "new"]
    /\ Step(p, "prune")
    /\ Served /\ UNCHANGED <<enabled, lock, kills, installs, aborted>>

\* The previous payload is removed; the helper disables starts until it is done.
Prune(p) ==
    /\ proc[p].pc = "prune"
    /\ dirs' = [dirs EXCEPT !["previous"] = None]
    /\ LET pause == p = "helper" /\ svc # "absent" IN
        /\ enabled' = (enabled /\ ~pause)
        /\ proc' = [proc EXCEPT ![p].had = dirs["bin"] # None, ![p].disabled = pause,
                                ![p].pc = IF svc = "absent" THEN "moveOld" ELSE "stop"]
    /\ Served /\ UNCHANGED <<lock, kills, installs, aborted>>

\* stopService: ask, wait until the process is gone.
AskStop(p) ==
    /\ proc[p].pc \in {"stop", "catch"} /\ svc = "running"
    /\ svc' = "stopping"
    /\ Serving /\ UNCHANGED files
SeeStopped(p) ==
    /\ \/ proc[p].pc = "stop" /\ svc \in {"stopped", "absent"}
            /\ Step(p, IF proc[p].remove THEN "delete" ELSE "moveOld")
       \/ proc[p].pc = "catch" /\ Step(p, "undo")   \* the result is ignored here
    /\ Served /\ UNCHANGED <<dirs, enabled, lock, kills, installs, aborted>>
StopTimesOut(p) ==
    /\ proc[p].pc = "stop" /\ svc = "stopping"
    /\ Leave(p)
    /\ Served /\ UNCHANGED <<dirs, kills, installs, aborted>>

\* The old payload aside, the new one in place.
MoveOld(p) ==
    /\ proc[p].pc = "moveOld"
    /\ \/ ~proc[p].had /\ Step(p, "moveNew") /\ UNCHANGED dirs
       \/ /\ proc[p].had /\ ~Process
          /\ dirs' = [dirs EXCEPT !["previous"] = dirs["bin"], !["bin"] = None]
          /\ proc' = [proc EXCEPT ![p].movedOld = TRUE, ![p].pc = "moveNew"]
    /\ Served /\ UNCHANGED <<enabled, lock, kills, installs, aborted>>
MoveNew(p) ==
    /\ proc[p].pc = "moveNew"
    /\ dirs' = [dirs EXCEPT !["bin"] = dirs["staging"], !["staging"] = None]
    /\ proc' = [proc EXCEPT ![p].movedNew = TRUE, ![p].pc = "register"]
    /\ Served /\ UNCHANGED <<enabled, lock, kills, installs, aborted>>

\* CreateService or ChangeServiceConfig (automatic start), owner, DACL, recovery.
Register(p) ==
    /\ proc[p].pc = "register"
    /\ svc' = IF svc = "absent" THEN "stopped" ELSE svc
    /\ enabled' = TRUE
    /\ proc' = [proc EXCEPT ![p].disabled = FALSE, ![p].pc = "start"]
    /\ Serving /\ UNCHANGED <<dirs, lock, kills, installs, aborted>>

\* startService, then the previous payload is dropped.
Finish(p) ==
    /\ proc[p].pc = "start" /\ svc \in {"stopped", "running"}
    /\ svc' = "running"
    /\ dirs' = IF proc[p].had THEN [dirs EXCEPT !["previous"] = None] ELSE dirs
    /\ Leave(p)
    /\ Serving /\ UNCHANGED <<kills, installs, aborted>>

\* Anything that throws between the first rename and the start rolls back: the
\* start type first, then the service is stopped again.
Throw(p) ==
    /\ proc[p].pc \in {"moveOld", "moveNew", "register", "start"}
    /\ enabled' = (enabled \/ proc[p].disabled)
    /\ proc' = [proc EXCEPT ![p].disabled = FALSE, ![p].pc = "catch"]
    /\ Served /\ UNCHANGED <<dirs, lock, kills, installs, aborted>>

\* The new payload is removed.  A service that runs from it makes that throw out
\* of the rollback, with part of the files gone.
UndoNew(p) ==
    /\ proc[p].pc = "undo"
    /\ IF proc[p].movedNew /\ Process
       THEN /\ dirs' = [dirs EXCEPT !["bin"] = Torn] /\ aborted' = TRUE /\ Leave(p)
       ELSE /\ dirs' = IF proc[p].movedNew THEN [dirs EXCEPT !["bin"] = None] ELSE dirs
            /\ Step(p, "restart") /\ UNCHANGED <<enabled, lock, aborted>>
    /\ Served /\ UNCHANGED <<kills, installs>>

\* The old payload returns and is started, or a service that was never
\* complete is deleted.
UndoOld(p) ==
    /\ proc[p].pc = "restart"
    /\ dirs' = IF proc[p].had /\ proc[p].movedOld
               THEN [dirs EXCEPT !["bin"] = dirs["previous"], !["previous"] = None] ELSE dirs
    /\ svc' = IF ~proc[p].had THEN IF Process THEN svc ELSE "absent"
              ELSE IF svc = "stopped" THEN "running" ELSE svc
    /\ Leave(p)
    /\ Serving /\ UNCHANGED <<kills, installs, aborted>>

\* uninstall: DeleteService and everything under the service's directory, as far
\* as a helper that runs from there lets it.
Delete(p) ==
    /\ proc[p].pc = "delete" /\ ~Process
    /\ svc' = "absent"
    /\ \E kept \in IF proc["helper"].pc = "none" THEN {{}} ELSE SUBSET Places :
            dirs' = [d \in Places |-> IF d \in kept THEN dirs[d] ELSE None]
    /\ Leave(p)
    /\ Serving /\ UNCHANGED <<kills, installs, aborted>>

\* An installer is killed, or the machine loses power under it.
Kill(p) ==
    /\ proc[p].pc # "none" /\ kills < MaxKills
    /\ kills' = kills + 1
    /\ proc' = [proc EXCEPT ![p] = Resting]
    /\ lock' = IF lock = p THEN None ELSE lock
    /\ Served /\ UNCHANGED <<dirs, enabled, installs, aborted>>

Installer(p) ==
    \/ Lock(p) \/ Stage(p) \/ Staged(p) \/ Prune(p) \/ AskStop(p) \/ SeeStopped(p)
    \/ StopTimesOut(p) \/ MoveOld(p) \/ MoveNew(p) \/ Register(p) \/ Finish(p) \/ Throw(p)
    \/ UndoNew(p) \/ UndoOld(p) \/ Delete(p) \/ Fail(p)

Next ==
    \/ Thread \/ ServiceCrashes \/ ScmStart \/ KernelExits
    \/ \E op \in Ops, f \in Configs \cup {None} : Serve(op, f)
    \/ \E remove \in BOOLEAN : Elevate(remove)
    \/ \E p \in Procs : Installer(p) \/ Kill(p)

Spec == Init /\ [][Next]_vars

\* The service thread runs.
FairSpec == Spec /\ WF_vars(Thread)

(***************************************************************************)
(* Properties.                                                             *)
(***************************************************************************)

\* What is installed is never a half-copied payload: nobody copies from a
\* directory that another process is still writing.  (A rollback that threw
\* leaves a torn one, and says so.)
InstallsWholePayload == ~aborted => Torn \notin {dirs["bin"], dirs["previous"]}

\* Whatever fails, an installer that ran to its end leaves a registered service
\* with a payload it can start from.
RegisteredHasPayload ==
    lock = None /\ kills = 0 /\ ~aborted /\ svc # "absent" => dirs["bin"] \in Versions

\* ... and never disabled.
NeverLeftDisabled == lock = None /\ kills = 0 => enabled

\* A service asked to stop does stop: its thread never waits for the installer
\* that waits for it.
StopCompletes == svc = "stopping" ~> svc # "stopping"

\* A kernel the service does not hold cannot be running, and STOP is only
\* answered OK when none does.
KernelIsHeld == live # None => held
StopIsTrue == [][said' # None /\ said'.op = "STOP" /\ said'.ok => live' = None]_vars

\* The contract all privileged services keep.
Contract == INSTANCE KernelService WITH
    kernel <- live,
    accepted <- IF serving = None THEN <<>> ELSE <<serving>>,
    effective <- at \in {"watch", "stopped"}

KeepsContract == Contract!Spec
===============================================================================

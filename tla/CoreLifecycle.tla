---------------------------- MODULE CoreLifecycle ----------------------------
(***************************************************************************)
(* The desktop CoreStore: starting, stopping and reconfiguring the kernel. *)
(*                                                                         *)
(* Every operation holds the recursive lifecycleMutex_ from its first to   *)
(* its last statement, so at most one runs; `at' is the point it reached,  *)
(* `ret' where the two procedures it shares with the others (startCore and *)
(* stopCore) return to.  Between two points the kernel may die, the daemon *)
(* may serve a request whose client gave up, other programs may change the *)
(* system proxy, and the UI poll may be half way through checkAlive.       *)
(***************************************************************************)
EXTENDS Integers

CONSTANTS
    Mains,         \* contents a main profile can have
    Others,        \* system proxy settings made by other programs
    None,          \* no plan, no lease, no snapshot
    Service,       \* TRUE: Linux/Windows, the daemon owns the kernel; FALSE: macOS
    CoreLogs,      \* TRUE: the last lines of a dead kernel can be read back
    RestoreProxy,  \* the restore_proxy network setting
    CaptureFails,  \* TRUE: reading the system proxy may fail
    Ops,           \* the operations, pollers and events an instance exercises
    ProxyChoices,  \* what proxy.system_enabled may hold to begin with
    MaxEpoch       \* bound: no operation begins once so many kernels became ready

Plans   == [main : Mains, tun : BOOLEAN, listen : BOOLEAN]
Proxies == Others \cup {"empty", "ours"}
Leases  == [original : Proxies, restore : BOOLEAN]

ASSUME ConstantsAssumption ==
    /\ Mains # {}
    /\ None \notin Plans \cup Proxies \cup Leases
    /\ Others \cap {"empty", "ours"} = {}
    /\ {Service, CoreLogs, RestoreProxy, CaptureFails} \subseteq BOOLEAN
    /\ ProxyChoices \subseteq BOOLEAN
    /\ MaxEpoch \in Nat

VARIABLES
    snap,      \* snap_: what snapshot() shows the UI
    applied,   \* lastAppliedOptions_
    file,      \* config.json, and lastPreparedOptions_ once this process wrote it
    prepared,  \* preparedStart_
    options,   \* preparedOptions_
    lastMain,  \* lastProfileYaml_
    settings,  \* persisted: selected profile, core.tun_enabled, proxy.system_enabled
    managed,   \* managedByService_
    adopted,   \* adopted_
    engine,    \* the plan the live kernel runs, or None
    child,     \* the live kernel is this process's child (process_)
    pid,       \* core.pid exists
    late,      \* requests the daemon has not served though their client gave up
    os,        \* the desktop's current system proxy
    lease,     \* proxy.system_lease
    released,  \* releasedProxy_
    user,      \* history: the last system proxy another program set, None if lost
    at, ret,   \* where the running operation is, where its calls return to
    cmd,       \* its arguments and what it read before it changed anything
    call,      \* the arguments of startCore
    ok,        \* what the last stopCore returned
    cleanup,   \* its cleanupError is not empty
    probe      \* a checkAlive between its three phases

kernel == <<engine, child, pid, late>>
proxy  == <<os, lease, released, user>>
plans  == <<applied, file, prepared, options, lastMain>>
owner  == <<managed, adopted>>
frame  == <<at, ret, cmd, call, ok, cleanup>>
vars   == <<snap, plans, settings, owner, kernel, proxy, frame, probe>>

States == {"Stopped", "Starting", "Running", "Failed"}
Snaps  == [state : States, tun : BOOLEAN, listen : BOOLEAN,
           since : Nat, epoch : Nat, err : BOOLEAN]

\* What an operation compares of the snapshot it took on entry.
Views == [state : States, tun : BOOLEAN, listen : BOOLEAN, since : Nat]
View(s) == [state |-> s.state, tun |-> s.tun, listen |-> s.listen, since |-> s.since]

StopPoints  == {"release", "restore", "stopEngine"}
StartPoints == {"check", "plan", "launch", "await", "mode", "proxy", "take"}
StopReturns == {"stopped", "timedOut", "handoffStopped", "rollbackStopped",
                "tunStopped", "tunBackStopped"}
StartReturns == {"started", "connected", "handoffStarted", "restoreDone",
                 "tunStarted", "tunRestored"}
Points == {"idle", "prepare", "handoff"} \cup StopPoints \cup StartPoints
              \cup StopReturns \cup StartReturns

Names == {"none", "ready", "connect", "restart", "select", "tun", "stop", "cli"}
Commands == [name : Names,
             on : BOOLEAN,                     \* TUN wanted; skipUnchanged
             cand : Plans \cup {None},         \* the prepared candidate
             before : Views,                   \* snapshot() on entry
             prev : Plans \cup {None},         \* lastAppliedOptions_ before handoff
             proxy : BOOLEAN,                  \* system proxy to be kept or taken
             old : Mains,                      \* selected profile before
             intent : BOOLEAN,                 \* core.tun_enabled before
             alone : BOOLEAN,                  \* history: no other program has
                                               \* changed the proxy since entry
             blind : BOOLEAN]                  \* history: a stop could not read
                                               \* that the proxy is ours
Calls == [main : Mains, tun : BOOLEAN, proxy : {"keep", "take", "drop"},
          repair : BOOLEAN, detached : BOOLEAN]
Returns  == [start : StartReturns, stop : StopReturns]
Settings == [main : Mains, tun : BOOLEAN, proxy : BOOLEAN]
Probes   == [at : {"none", "asking", "exited"}, epoch : Nat,
             managed : BOOLEAN, adopted : BOOLEAN]

----------------------------------------------------------------------------
\* The published snapshot.

Failed(s)  == [s EXCEPT !.state = "Failed", !.err = TRUE]
Erred(s)   == [s EXCEPT !.err = TRUE]

\* Mutant of Stopped: no connection is -1.
StoppedMarked(s, e) == [s EXCEPT !.state = "Stopped", !.tun = FALSE,
                                 !.listen = FALSE, !.since = -1, !.err = e]

\* runtime_plan::Stopped and the assignments around it.
Stopped(s, e) == [s EXCEPT !.state = "Stopped", !.tun = FALSE, !.listen = FALSE,
                           !.since = 0, !.err = e]

\* Mutant of Ready: the clock also runs on standby.
ReadyAlwaysTimed(s, p) == [s EXCEPT !.state = "Running", !.tun = p.tun,
                                    !.listen = p.listen, !.since = s.epoch + 1,
                                    !.epoch = s.epoch + 1]

\* runtime_plan::Ready and the assignments around it; connectedSince is the
\* epoch at which the ports opened.
Ready(s, p) == [s EXCEPT !.state = "Running", !.tun = p.tun, !.listen = p.listen,
                         !.since = IF p.listen THEN s.epoch + 1 ELSE 0,
                         !.epoch = s.epoch + 1]

Running == snap.state = "Running"

Start0 == [state |-> "Stopped", tun |-> FALSE, listen |-> FALSE,
           since |-> 0, epoch |-> 0, err |-> FALSE]

NoProbe == [at |-> "none", epoch |-> 0, managed |-> FALSE, adopted |-> FALSE]
AnyMain == CHOOSE m \in Mains : TRUE
NoCmd  == [name |-> "none", on |-> FALSE, cand |-> None, before |-> View(Start0),
           prev |-> None, proxy |-> FALSE, old |-> AnyMain, intent |-> FALSE,
           alone |-> TRUE, blind |-> FALSE]
NoCall == [main |-> AnyMain, tun |-> FALSE, proxy |-> "keep", repair |-> FALSE,
           detached |-> FALSE]

Init ==
    /\ snap = Start0
    /\ applied = None /\ prepared = None /\ options = None
    /\ settings \in [main : Mains, tun : BOOLEAN, proxy : ProxyChoices]
    /\ lastMain = settings.main
    /\ managed = FALSE /\ adopted = FALSE
    /\ \* a kernel an earlier process left behind, or nothing
       \/ file = None /\ engine = None /\ pid = FALSE
       \/ /\ file \in {[main |-> m, tun |-> FALSE, listen |-> TRUE] : m \in Mains}
          /\ engine = file /\ pid = ~Service
    /\ child = FALSE /\ late = {}
    /\ \/ os \in Others \cup {"empty"} /\ user = os
       \/ \* written by a version without leases
          TRUE \in ProxyChoices /\ os = "ours" /\ user = None
    /\ lease = None /\ released = None
    /\ at = "idle" /\ ret = [start |-> "started", stop |-> "stopped"]
    /\ cmd = NoCmd /\ call = NoCall
    /\ ok = TRUE /\ cleanup = FALSE
    /\ probe = NoProbe

----------------------------------------------------------------------------
\* The lease on the system proxy.

\* systemProxyOurs(): a failed capture reads as "not ours".
SeenOurs == {os = "ours"} \cup (IF CaptureFails THEN {FALSE} ELSE {})

\* Mutant of TakeSystemProxy: every take captures anew what the lease restores.
TakeForgetsOriginal ==
    /\ applied # None /\ snap.listen
    /\ os' = "ours"
    /\ \E seen \in SeenOurs :
         lease' = [original |-> os, restore |-> RestoreProxy /\ (lease # None \/ ~seen)]
    /\ released' = None
    /\ UNCHANGED user

\* takeSystemProxy once its preconditions hold: capture, enable, store the lease.
\* An earlier lease that still matches keeps its original.
TakeSystemProxy ==
    /\ applied # None /\ snap.listen
    /\ os' = "ours"
    /\ \E seen \in SeenOurs :
         lease' = [original |-> IF lease # None /\ os = "ours"
                                THEN lease.original ELSE os,
                   restore  |-> RestoreProxy /\ (lease # None \/ ~seen)]
    /\ released' = None
    /\ UNCHANGED user

\* takeSystemProxy fails: the captured original is put back, unless that
\* fails too and the desktop keeps pointing at this application.
TakeRefused ==
    \/ UNCHANGED proxy
    \/ /\ applied # None /\ snap.listen
       /\ os' = "ours"
       /\ user' = IF os = "ours" THEN user ELSE None
       /\ UNCHANGED <<lease, released>>

\* releaseSystemProxy returns true: the original is restored or, without one,
\* the proxy is switched off.  A later change by others owns the settings.
ReleaseSystemProxy ==
    /\ lease' = None
    /\ IF lease # None /\ os # "ours"
       THEN UNCHANGED <<os, released, user>>
       ELSE /\ os' = IF lease # None /\ lease.restore THEN lease.original ELSE "empty"
            /\ IF lease # None
               THEN released' \in {os'} \cup (IF CaptureFails THEN {None} ELSE {})
               ELSE UNCHANGED released
            /\ user' = IF lease # None /\ lease.restore THEN user ELSE os'

----------------------------------------------------------------------------
\* Calls and returns.

CallStop(r) ==
    /\ at' = "release" /\ ret' = [ret EXCEPT !.stop = r]
    /\ ok' = TRUE /\ cleanup' = FALSE

CallStart(args, r) ==
    /\ at' = "check" /\ ret' = [ret EXCEPT !.start = r]
    /\ call' = args
    /\ UNCHANGED <<ok, cleanup>>

StartArgs(m, t, p) ==
    [main |-> m, tun |-> t, proxy |-> p, repair |-> TRUE, detached |-> FALSE]

\* Mutant of TakeIf: a handoff leaves the system proxy to the old kernel's stop.
TakeNever(b) == "keep"

TakeIf(b)    == IF b THEN "take" ELSE "keep"   \* optional<bool>: true or nullopt
TakeOrDrop(b) == IF b THEN "take" ELSE "drop"  \* optional<bool>: true or false

\* The operation returns to its caller and unlocks.
Done ==
    /\ at' = "idle" /\ cmd' = NoCmd /\ call' = NoCall
    /\ ok' = TRUE /\ cleanup' = FALSE
    /\ ret' = [start |-> "started", stop |-> "stopped"]

\* startCore returns: whatever was not consumed of the prepared plan is dropped.
StartReturn ==
    /\ at' = ret.start
    /\ prepared' = None /\ options' = None
    /\ UNCHANGED <<ret, cmd, call, ok, cleanup>>

StopReturn(r) ==
    /\ at' = ret.stop /\ ok' = r
    /\ UNCHANGED <<ret, cmd, call>>

\* An operation locks lifecycleMutex_ and reads what it will compare with later.
Enter(name, on, cand) ==
    /\ name \in Ops /\ at = "idle" /\ snap.epoch < MaxEpoch
    /\ \E seen \in SeenOurs :
         cmd' = [NoCmd EXCEPT !.name = name, !.on = on, !.cand = cand,
                              !.before = View(snap), !.proxy = seen,
                              !.old = settings.main, !.intent = settings.tun]

----------------------------------------------------------------------------
\* The operations, from their entry to their first call.

\* Mutant of StartReadyCore: the standby options are not handed to startCore.
StartReadyForgetsOptions ==
    /\ ~Running
    /\ Enter("ready", FALSE, None)
    /\ CallStart(StartArgs(settings.main, FALSE, "drop"), "started")
    /\ UNCHANGED <<snap, plans, settings, owner, kernel, proxy, probe>>

\* startReadyCore: a kernel on standby, without ports, TUN or system proxy.
StartReadyCore ==
    /\ ~Running
    /\ Enter("ready", FALSE, None)
    /\ options' = [main |-> settings.main, tun |-> FALSE, listen |-> FALSE]
    /\ CallStart(StartArgs(settings.main, FALSE, "drop"), "started")
    /\ UNCHANGED <<snap, applied, file, prepared, lastMain, settings, owner,
                   kernel, proxy, probe>>

\* `clash-flux core start': detached, default options, ports open.
CliStart ==
    /\ Enter("cli", FALSE, None)
    /\ CallStart([StartArgs(settings.main, FALSE, "keep") EXCEPT !.detached = TRUE],
                 "started")
    /\ UNCHANGED <<snap, plans, settings, owner, kernel, proxy, probe>>

\* connectProxy, restartCore and applyMainProfile compile a candidate while
\* the running kernel stays untouched.
Propose(name, on, cand) ==
    /\ Enter(name, on, cand)
    /\ at' = "prepare"
    /\ UNCHANGED <<ret, call, ok, cleanup, snap, plans, settings, owner, kernel,
                   proxy, probe>>

ConnectProxy ==
    /\ ~(Running /\ snap.listen)
    /\ Propose("connect", FALSE,
               [main |-> settings.main, tun |-> settings.tun, listen |-> TRUE])

RestartCore ==
    \E skip \in BOOLEAN :
        Propose("restart", skip,
                [main |-> settings.main, tun |-> snap.tun, listen |-> snap.listen])

ApplyMainProfile ==
    \E m \in Mains :
        Propose("select", FALSE,
                [main |-> m, tun |-> snap.tun, listen |-> Running => snap.listen])

\* prepareStartPlan refuses the candidate: providers, compilation, kernel check
\* or a network conflict.  A standby plan with TUN never compiles.
CandidateRefused ==
    /\ at = "prepare"
    /\ \/ cmd.name # "select" /\ snap' = Erred(snap)
       \/ cmd.name # "connect" /\ UNCHANGED snap    \* cancelled, or error returned
    /\ Done
    /\ UNCHANGED <<plans, settings, owner, kernel, proxy, probe>>

Handoff ==
    /\ at' = "handoff" /\ UNCHANGED <<ret, call, ok, cleanup, prepared>>

CandidateAccepted ==
    /\ at = "prepare" /\ (cmd.cand.tun => cmd.cand.listen)
    /\ IF cmd.name = "select"
       THEN settings' = [settings EXCEPT !.main = cmd.cand.main]
       ELSE UNCHANGED settings
    /\ CASE cmd.name = "connect" /\ cmd.before.state # "Running" ->
              /\ prepared' = cmd.cand
              /\ CallStart(StartArgs(cmd.cand.main, settings.tun,
                                     TakeOrDrop(settings.proxy)), "connected")
              /\ UNCHANGED cmd
         [] cmd.name = "connect" /\ cmd.before.state = "Running" ->
              /\ cmd' = [cmd EXCEPT !.proxy = settings.proxy]
              /\ Handoff
         [] cmd.name = "select" /\ cmd.before.state # "Running" ->
              /\ Done /\ UNCHANGED prepared
         [] OTHER -> UNCHANGED cmd /\ Handoff
    /\ UNCHANGED <<snap, applied, file, options, lastMain, owner, kernel, proxy, probe>>

WasActive == cmd.before.state \in {"Running", "Starting"}

\* Mutant of Deselect: a failed switch keeps the new selection.
KeepSelection == UNCHANGED settings

\* applyMainProfile restores the selection whenever the handoff did not succeed.
Deselect ==
    settings' = IF cmd.name = "select" THEN [settings EXCEPT !.main = cmd.old]
                                       ELSE settings

\* restartPreparedCore up to its stopCore: an unchanged plan needs no handoff,
\* a cancelled one must not begin.
SkipHandoff ==
    /\ at = "handoff"
    /\ \/ /\ cmd.name = "restart" /\ cmd.on /\ WasActive /\ cmd.cand = applied
          /\ UNCHANGED settings
       \/ cmd.name \in {"restart", "select"} /\ Deselect
    /\ Done
    /\ UNCHANGED <<snap, plans, owner, kernel, proxy, probe>>

BeginHandoff ==
    /\ at = "handoff"
    /\ cmd' = [cmd EXCEPT !.prev = applied]
    /\ CallStop("handoffStopped") /\ UNCHANGED call
    /\ UNCHANGED <<snap, plans, settings, owner, kernel, proxy, probe>>

HandoffStopped ==
    /\ at = "handoffStopped"
    /\ IF ok
       THEN /\ prepared' = cmd.cand
            /\ CallStart(StartArgs(cmd.cand.main, cmd.before.tun, TakeIf(cmd.proxy)),
                         "handoffStarted")
            /\ UNCHANGED <<cmd, settings>>
       ELSE Deselect /\ Done /\ UNCHANGED prepared
    /\ UNCHANGED <<snap, applied, file, options, lastMain, owner, kernel, proxy, probe>>

\* The new plan runs, or the previous one is started again when its native
\* interfaces are still this application's.
HandoffStarted ==
    /\ at = "handoffStarted"
    /\ IF Running
       THEN /\ snap' = IF cmd.before.listen /\ snap.listen
                       THEN [snap EXCEPT !.since = cmd.before.since] ELSE snap
            /\ Done
       ELSE /\ UNCHANGED <<snap, cmd, call>>
            /\ \/ /\ WasActive /\ cmd.prev # None
                  /\ CallStop("rollbackStopped")
               \/ at' = "restoreDone" /\ UNCHANGED <<ret, ok, cleanup>>
    /\ UNCHANGED <<plans, settings, owner, kernel, proxy, probe>>

RollbackStopped ==
    /\ at = "rollbackStopped"
    /\ IF ok
       THEN /\ options' = cmd.prev
            /\ CallStart(StartArgs(cmd.prev.main, cmd.prev.tun, TakeIf(cmd.proxy)),
                         "restoreDone")
       ELSE at' = "restoreDone" /\ UNCHANGED <<options, ret, call, ok, cleanup>>
    /\ UNCHANGED <<cmd, snap, applied, file, prepared, lastMain, settings, owner,
                   kernel, proxy, probe>>

RestoreDone ==
    /\ at = "restoreDone"
    /\ snap' = IF Running /\ cmd.before.listen
               THEN [Erred(snap) EXCEPT !.since = cmd.before.since] ELSE Erred(snap)
    /\ Deselect /\ Done
    /\ UNCHANGED <<plans, owner, kernel, proxy, probe>>

\* stopCore as an operation of its own.
Stop ==
    /\ Enter("stop", FALSE, None)
    /\ CallStop("stopped") /\ UNCHANGED call
    /\ UNCHANGED <<snap, plans, settings, owner, kernel, proxy, probe>>

\* stopCore, startCore or connectProxy returns to the application.
Return ==
    /\ at \in {"stopped", "started", "connected"} /\ Done
    /\ UNCHANGED <<snap, plans, settings, owner, kernel, proxy, probe>>

\* applyTun: store the choice; an open connection is recompiled around it.
ApplyTun ==
    \E enable \in BOOLEAN :
        /\ Enter("tun", enable, None)
        /\ settings' = [settings EXCEPT !.tun = enable]
        /\ IF Running /\ snap.listen
           THEN CallStop("tunStopped") /\ UNCHANGED call
           ELSE at' = "stopped" /\ UNCHANGED <<ret, call, ok, cleanup>>
        /\ UNCHANGED <<snap, plans, owner, kernel, proxy, probe>>

RevertTun ==
    /\ settings' = [settings EXCEPT !.tun = ~cmd.on]
    /\ snap' = [snap EXCEPT !.tun = ~cmd.on]

TunStopped ==
    /\ at = "tunStopped"
    /\ IF ok
       THEN /\ CallStart(StartArgs(lastMain, cmd.on, TakeOrDrop(cmd.proxy)), "tunStarted")
            /\ UNCHANGED <<cmd, snap, settings>>
       ELSE RevertTun /\ Done
    /\ UNCHANGED <<plans, owner, kernel, proxy, probe>>

\* Mutant of TunStarted: the session's clock starts again with the new plan.
TunStartsClock ==
    /\ at = "tunStarted"
    /\ IF Running
       THEN Done /\ UNCHANGED <<snap, settings>>
       ELSE RevertTun /\ CallStop("tunBackStopped") /\ UNCHANGED <<cmd, call>>
    /\ UNCHANGED <<plans, owner, kernel, proxy, probe>>

TunStarted ==
    /\ at = "tunStarted"
    /\ IF Running
       THEN /\ snap' = [snap EXCEPT !.since = cmd.before.since]
            /\ Done /\ UNCHANGED settings
       ELSE RevertTun /\ CallStop("tunBackStopped") /\ UNCHANGED <<cmd, call>>
    /\ UNCHANGED <<plans, owner, kernel, proxy, probe>>

TunBackStopped ==      \* whatever stopCore returned
    /\ at = "tunBackStopped"
    /\ CallStart(StartArgs(lastMain, ~cmd.on, TakeOrDrop(cmd.proxy)), "tunRestored")
    /\ UNCHANGED <<cmd, snap, plans, settings, owner, kernel, proxy, probe>>

TunRestored ==
    /\ at = "tunRestored"
    /\ snap' = IF Running THEN [Erred(snap) EXCEPT !.since = cmd.before.since]
                          ELSE Erred(snap)
    /\ Done
    /\ UNCHANGED <<plans, settings, owner, kernel, proxy, probe>>

\* applySystemProxy(false): the choice is dropped once the proxy is released.
DisableSystemProxy ==
    /\ "proxy" \in Ops /\ at = "idle"
    /\ \E seen \in SeenOurs :
         \/ /\ IF seen THEN ReleaseSystemProxy ELSE UNCHANGED proxy
            /\ settings' = [settings EXCEPT !.proxy = FALSE] /\ UNCHANGED snap
         \/ seen /\ snap' = Erred(snap) /\ UNCHANGED <<proxy, settings>>
    /\ UNCHANGED <<plans, owner, kernel, frame, probe>>

\* applySystemProxy(true): without open ports the choice is only stored.
EnableSystemProxy ==
    /\ "proxy" \in Ops /\ at = "idle"
    /\ \/ /\ IF Running /\ snap.listen THEN TakeSystemProxy ELSE UNCHANGED proxy
          /\ settings' = [settings EXCEPT !.proxy = TRUE] /\ UNCHANGED snap
       \/ /\ Running /\ snap.listen /\ TakeRefused
          /\ snap' = Erred(snap) /\ UNCHANGED settings
    /\ UNCHANGED <<plans, owner, kernel, frame, probe>>

----------------------------------------------------------------------------
\* startCore.  The daemon serves one request after another, so a request is
\* answered only once the one its client gave up on has been served.

Answered == late = {}

Fail ==
    /\ snap' = Failed(snap) /\ StartReturn

\* ensureCompatible, or no kernel binary; then the state leaves what it was.
StartRefused ==
    /\ at = "check" /\ Fail
    /\ UNCHANGED <<applied, file, lastMain, settings, owner, kernel, proxy, probe>>

\* A start that finds another one under way gives up silently.
StartBegins ==
    /\ at = "check" /\ (Service => Answered)
    /\ IF snap.state = "Starting"
       THEN StartReturn /\ UNCHANGED <<snap, lastMain>>
       ELSE /\ snap' = [snap EXCEPT !.state = "Starting", !.err = FALSE]
            /\ lastMain' = call.main
            /\ at' = "plan"
            /\ UNCHANGED <<prepared, options, ret, cmd, call, ok, cleanup>>
    /\ UNCHANGED <<applied, file, settings, owner, kernel, proxy, probe>>

\* The candidate if there is one, else the options compiled now; the default
\* options open the ports.
PlanToRun ==
    IF prepared # None THEN prepared
    ELSE IF options # None THEN options
    ELSE [main |-> call.main, tun |-> call.tun, listen |-> TRUE]

\* Compilation, the second conflict check or CommitFile fails.
PlanFails ==
    /\ at = "plan" /\ Fail
    /\ UNCHANGED <<applied, file, lastMain, settings, owner, kernel, proxy, probe>>

\* CommitFile replaces config.json; residentConfigMatches compares it with the
\* file it replaces.
CommitPlan ==
    /\ at = "plan"
    /\ file' = PlanToRun
    /\ at' = "launch"
    /\ ok' = (file = PlanToRun)
    /\ prepared' = None
    /\ options' = IF prepared # None THEN options ELSE None
    /\ UNCHANGED <<snap, applied, lastMain, settings, owner, kernel, proxy,
                   ret, cmd, call, cleanup, probe>>

Launched ==
    at' = "await" /\ UNCHANGED <<snap, prepared, options, ret, cmd, call, ok, cleanup>>

\* The daemon stops the child it has before it spawns another.
ServeStart(reply) ==
    \/ reply = "OK" /\ engine' = file
    \/ reply = "ERR" /\ engine' \in {engine, None}

ServiceStartOk ==
    /\ at = "launch" /\ Service /\ Answered
    /\ ServeStart("OK") /\ managed' = TRUE
    /\ Launched
    /\ UNCHANGED <<adopted, child, pid, late, applied, file, lastMain, settings,
                   proxy, probe>>

\* ERR, or no answer in time; then the daemon may still serve the request.
ServiceStartFails ==
    /\ at = "launch" /\ Service
    /\ \/ Answered /\ ServeStart("ERR") /\ UNCHANGED late
       \/ Answered /\ late' = {"START"} /\ UNCHANGED engine
       \/ UNCHANGED <<engine, late>>
    /\ Fail
    /\ UNCHANGED <<owner, child, pid, applied, file, lastMain, settings, proxy, probe>>

\* macOS: a resident kernel with core.pid that runs this very plan is adopted.
Adopt ==
    /\ at = "launch" /\ ~Service /\ engine # None /\ pid /\ ok
    /\ adopted' = TRUE
    /\ Launched
    /\ UNCHANGED <<managed, kernel, applied, file, lastMain, settings, proxy, probe>>

\* Mutant of Spawn: the resident kernel is not killed and keeps its ports.
SpawnBeside ==
    /\ at = "launch" /\ ~Service /\ (engine = None \/ (pid /\ ~ok))
    /\ engine' = IF engine = None THEN file ELSE engine
    /\ child' = ~call.detached /\ pid' = TRUE
    /\ adopted' = (adopted \/ call.detached)
    /\ Launched
    /\ UNCHANGED <<managed, late, applied, file, lastMain, settings, proxy, probe>>

\* macOS: no kernel, or one that runs another plan and is killed first.
Spawn ==
    /\ at = "launch" /\ ~Service /\ (engine = None \/ (pid /\ ~ok))
    /\ engine' = file /\ child' = ~call.detached /\ pid' = TRUE
    /\ adopted' = (adopted \/ call.detached)
    /\ Launched
    /\ UNCHANGED <<managed, late, applied, file, lastMain, settings, proxy, probe>>

\* macOS: the controller port belongs to another program, the old kernel does
\* not exit, or the process does not start.
SpawnFails ==
    /\ at = "launch" /\ ~Service
    /\ \/ UNCHANGED <<engine, child>>
       \/ pid /\ ~ok /\ engine' = None /\ child' = FALSE
    /\ Fail
    /\ UNCHANGED <<owner, pid, late, applied, file, lastMain, settings, proxy, probe>>

\* coreAlive(): an unanswered STATUS counts as alive.  An adopted kernel is
\* looked up in /proc, which macOS does not have.
CoreAlive ==
    IF managed THEN {engine # None} \cup {TRUE}
    ELSE IF adopted THEN {~pid}
    ELSE {engine # None /\ child}

\* The kernel exited.
AwaitExited ==
    /\ at = "await" /\ FALSE \in CoreAlive
    /\ Fail
    /\ UNCHANGED <<applied, file, lastMain, settings, owner, kernel, proxy, probe>>

\* Mutant of AwaitRepairs: the retry does not remember that it is one.
RepairsForEver ==
    /\ at = "await" /\ FALSE \in CoreAlive /\ CoreLogs /\ call.repair
    /\ snap' = [snap EXCEPT !.state = "Stopped", !.err = FALSE]
    /\ at' = "check"
    /\ UNCHANGED <<plans, settings, owner, kernel, proxy, ret, cmd, call, ok, cleanup,
                   probe>>

\* Its last words blame the rule set cache this start prepared: purge, retry once.
AwaitRepairs ==
    /\ at = "await" /\ FALSE \in CoreAlive /\ CoreLogs /\ call.repair
    /\ snap' = [snap EXCEPT !.state = "Stopped", !.err = FALSE]
    /\ call' = [call EXCEPT !.repair = FALSE]
    /\ at' = "check"
    /\ UNCHANGED <<plans, settings, owner, kernel, proxy, ret, cmd, ok, cleanup, probe>>

\* No answer from the controller in 30 s, or the Windows TUN cannot be prepared.
AwaitTimesOut ==
    /\ at = "await" /\ TRUE \in CoreAlive
    /\ CallStop("timedOut") /\ UNCHANGED <<cmd, call>>
    /\ UNCHANGED <<snap, plans, settings, owner, kernel, proxy, probe>>

\* Mutant of AwaitReady: what is published is what the caller asked for.
ReadyAsAsked ==
    /\ at = "await" /\ TRUE \in CoreAlive /\ engine # None
    /\ snap' = Ready(snap, [main |-> call.main, tun |-> call.tun, listen |-> TRUE])
    /\ applied' = file
    /\ at' = "mode"
    /\ UNCHANGED <<file, prepared, options, lastMain, settings, owner, kernel, proxy,
                   ret, cmd, call, ok, cleanup, probe>>

\* The controller answers: the plan on disk is the one that runs.
AwaitReady ==
    /\ at = "await" /\ TRUE \in CoreAlive /\ engine # None
    /\ snap' = Ready(snap, file)
    /\ applied' = file
    /\ at' = "mode"
    /\ UNCHANGED <<file, prepared, options, lastMain, settings, owner, kernel, proxy,
                   ret, cmd, call, ok, cleanup, probe>>

\* reconcileMode reads the outbound mode back.
ModeReconciled ==
    /\ at = "mode" /\ engine # None
    /\ at' = "proxy"
    /\ UNCHANGED <<snap, plans, settings, owner, kernel, proxy,
                   ret, cmd, call, ok, cleanup, probe>>

ModeRefused ==
    /\ at = "mode"
    /\ CallStop("timedOut") /\ UNCHANGED <<cmd, call>>
    /\ UNCHANGED <<snap, plans, settings, owner, kernel, proxy, probe>>

\* A start that failed after its kernel ran ends Failed, however its stop went.
StartTimedOut ==
    /\ at = "timedOut" /\ Fail
    /\ UNCHANGED <<applied, file, lastMain, settings, owner, kernel, proxy, probe>>

\* The system proxy of this run: taken over when free, ours, or as we left it. What cannot
\* be read looks free to currentProxy(), and not as we left it to canRetakeSystemProxy().
LooksFree == os = "empty" \/ (released # None /\ os = released)
RetakeAllowed ==
    {LooksFree} \cup (IF CaptureFails THEN {TRUE, os = "empty"} ELSE {})

StartProxy ==
    /\ at = "proxy"
    /\ \E seen \in SeenOurs, free \in RetakeAllowed :
         CASE call.proxy = "take" /\ (free \/ seen) ->
                at' = "take" /\ UNCHANGED <<snap, prepared, options, ret, cmd, call,
                                            ok, cleanup, proxy>>
           [] call.proxy = "take" /\ ~(free \/ seen) ->
                snap' = Erred(snap) /\ StartReturn /\ UNCHANGED proxy
           [] call.proxy = "drop" /\ seen ->
                \/ /\ ReleaseSystemProxy /\ StartReturn
                   /\ \E still \in SeenOurs' : snap' = IF still THEN Erred(snap) ELSE snap
                \/ snap' = Erred(snap) /\ StartReturn /\ UNCHANGED proxy
           [] OTHER -> UNCHANGED <<snap, proxy>> /\ StartReturn
    /\ UNCHANGED <<applied, file, lastMain, settings, owner, kernel, probe>>

StartTakesProxy ==
    /\ at = "take" /\ StartReturn
    /\ \/ TakeSystemProxy /\ UNCHANGED snap
       \/ TakeRefused /\ snap' = Erred(snap)
    /\ UNCHANGED <<applied, file, lastMain, settings, owner, kernel, probe>>

\* Mutant of StartThrows: the exception is only reported.
ThrowLeavesStarting ==
    /\ at \in StartPoints
    /\ snap' = Erred(snap)
    /\ StartReturn
    /\ UNCHANGED <<applied, file, lastMain, settings, owner, kernel, proxy, probe>>

\* startCore's catch: an exception never leaves the state at Starting.
StartThrows ==
    /\ at \in StartPoints
    /\ snap' = IF snap.state = "Starting" THEN Failed(snap) ELSE Erred(snap)
    /\ StartReturn
    /\ UNCHANGED <<applied, file, lastMain, settings, owner, kernel, proxy, probe>>

----------------------------------------------------------------------------
\* stopCore.

\* Detach the system proxy before the kernel it points to goes away.
StopChecksProxy ==
    /\ at = "release"
    /\ \E seen \in SeenOurs :
         /\ at' = IF seen THEN "restore" ELSE "stopEngine"
         /\ cmd' = [cmd EXCEPT !.blind = cmd.name = "stop" /\ seen # (os = "ours")]
    /\ UNCHANGED <<snap, plans, settings, owner, kernel, proxy,
                   ret, call, ok, cleanup, probe>>

\* Mutant of StopReleasesProxy: a release that fails is not reported.
StopIgnoresRelease ==
    /\ at = "restore"
    /\ (ReleaseSystemProxy \/ UNCHANGED proxy) /\ cleanup' = FALSE
    /\ at' = "stopEngine"
    /\ UNCHANGED <<snap, plans, settings, owner, kernel, ret, cmd, call, ok, probe>>

\* A capture that fails afterwards cannot tell that the proxy is still ours.
StopReleasesProxy ==
    /\ at = "restore"
    /\ \/ /\ ReleaseSystemProxy /\ cleanup' \in SeenOurs'
          /\ cmd' = [cmd EXCEPT !.blind = cmd.name = "stop" /\ cleanup' # (os' = "ours")]
       \/ UNCHANGED <<proxy, cmd>> /\ cleanup' = TRUE
    /\ at' = "stopEngine"
    /\ UNCHANGED <<snap, plans, settings, owner, kernel, ret, call, ok, probe>>

\* The kernel is gone; on Linux the routes it left may not be removable.
PublishStopped ==
    \E e \in {cleanup} \cup (IF Service THEN {TRUE} ELSE {}) :
        /\ snap' = Stopped(snap, e)
        /\ StopReturn(~e) /\ cleanup' = e
        /\ pid' = FALSE

StopFails ==
    /\ snap' = Failed(snap)
    /\ StopReturn(FALSE) /\ UNCHANGED <<cleanup, pid>>

\* STOP is needed when this process owns the service's kernel, and tried when
\* the daemon answers at all.
StopService ==
    /\ at = "stopEngine" /\ Service
    /\ \/ /\ Answered
          /\ engine' = None /\ managed' = FALSE /\ UNCHANGED late
          /\ PublishStopped
       \/ /\ Answered                                          \* ERR
          /\ engine' \in {engine, None} /\ managed' = TRUE /\ UNCHANGED late
          /\ StopFails
       \/ /\ managed \/ Answered                               \* no answer in time
          /\ late' \in {late, late \cup {"STOP"}}
          /\ managed' = TRUE /\ UNCHANGED engine
          /\ StopFails
    /\ adopted' = IF managed' THEN adopted ELSE FALSE
    /\ UNCHANGED <<child, plans, settings, proxy, probe>>

\* Not known to own a kernel, and VERSION is not answered: nothing to stop.
StopUnreachable ==
    /\ at = "stopEngine" /\ Service /\ ~managed
    /\ adopted' = FALSE
    /\ PublishStopped
    /\ UNCHANGED <<managed, engine, child, late, plans, settings, proxy, probe>>

\* macOS: the child through its handle, a resident through core.pid.
StopProcess ==
    /\ at = "stopEngine" /\ ~Service
    /\ \/ /\ engine' = IF child \/ pid THEN None ELSE engine
          /\ child' = FALSE
          /\ adopted' = (adopted /\ child /\ engine # None)
          /\ PublishStopped
       \/ /\ engine # None /\ (child \/ pid)                   \* does not exit in 4 s
          /\ UNCHANGED <<engine, child, adopted>>
          /\ StopFails
    /\ UNCHANGED <<managed, late, plans, settings, proxy, probe>>

----------------------------------------------------------------------------
\* checkAlive: capture under the lock, ask without it, publish under the lock.

ProbeBegins ==
    /\ "poll" \in Ops /\ probe.at = "none" /\ at = "idle" /\ Running
    /\ probe' = [at |-> "asking", epoch |-> snap.epoch,
                 managed |-> managed, adopted |-> adopted]
    /\ UNCHANGED <<snap, plans, settings, owner, kernel, proxy, frame>>

\* Alive, unknown, or the lock is taken: no verdict.
ProbeDropped ==
    /\ probe.at # "none" /\ probe' = NoProbe
    /\ UNCHANGED <<snap, plans, settings, owner, kernel, proxy, frame>>

ProbeFindsNoCore ==
    /\ probe.at = "asking"
    /\ IF probe.managed THEN Answered /\ engine = None
       ELSE IF probe.adopted THEN pid /\ engine = None
       ELSE at = "idle" /\ snap.epoch = probe.epoch /\ ~(engine # None /\ child)
    /\ probe' = [probe EXCEPT !.at = "exited"]
    /\ UNCHANGED <<snap, plans, settings, owner, kernel, proxy, frame>>

\* Mutant of ProbePublishes: the verdict falls on whatever runs now.
ProbeBlamesAny ==
    /\ probe.at = "exited" /\ at = "idle" /\ Running
    /\ snap' = Failed(snap)
    /\ probe' = NoProbe
    /\ UNCHANGED <<plans, settings, owner, kernel, proxy, frame>>

\* The verdict counts only for the instance it was asked about.
ProbePublishes ==
    /\ probe.at = "exited" /\ at = "idle"
    /\ Running /\ snap.epoch = probe.epoch
    /\ snap' = Failed(snap)
    /\ probe' = NoProbe
    /\ UNCHANGED <<plans, settings, owner, kernel, proxy, frame>>

----------------------------------------------------------------------------
\* What happens around the application.

EngineDies ==
    /\ "crash" \in Ops /\ engine # None
    /\ engine' = None /\ child' = FALSE
    /\ UNCHANGED <<pid, late, snap, plans, settings, owner, proxy, frame, probe>>

\* The daemon serves a request whose client stopped waiting, oldest first: a
\* START is only sent once everything before it was answered.
DaemonServesLate ==
    /\ \/ /\ "START" \in late /\ late' = late \ {"START"}
          /\ engine' \in {file, engine, None}
       \/ /\ late = {"STOP"} /\ late' = {}
          /\ engine' \in {engine, None}
    /\ UNCHANGED <<child, pid, snap, plans, settings, owner, proxy, frame, probe>>

OthersSetProxy ==
    /\ \E v \in Others \cup {"empty"} : v # os /\ os' = v /\ user' = v
    /\ cmd' = IF at = "idle" THEN cmd ELSE [cmd EXCEPT !.alone = FALSE]
    /\ UNCHANGED <<lease, released, snap, plans, settings, owner, kernel,
                   at, ret, call, ok, cleanup, probe>>

----------------------------------------------------------------------------
\* Operations that begin while the lock is free.
Begin ==
    \/ StartReadyCore \/ CliStart \/ ConnectProxy \/ RestartCore
    \/ ApplyMainProfile \/ Stop \/ ApplyTun
    \/ DisableSystemProxy \/ EnableSystemProxy

\* One step of the operation that holds the lock.
Reconfigure ==
    \/ CandidateRefused \/ CandidateAccepted \/ SkipHandoff \/ BeginHandoff
    \/ HandoffStopped \/ HandoffStarted \/ RollbackStopped \/ RestoreDone
    \/ TunStopped \/ TunStarted \/ TunBackStopped \/ TunRestored \/ Return

Starting ==
    \/ StartRefused \/ StartBegins \/ PlanFails \/ CommitPlan
    \/ ServiceStartOk \/ ServiceStartFails \/ Adopt \/ Spawn \/ SpawnFails
    \/ AwaitExited \/ AwaitRepairs \/ AwaitTimesOut \/ AwaitReady
    \/ ModeReconciled \/ ModeRefused \/ StartTimedOut
    \/ StartProxy \/ StartTakesProxy \/ StartThrows

Stopping ==
    \/ StopChecksProxy \/ StopReleasesProxy
    \/ StopService \/ StopUnreachable \/ StopProcess

Operation == Reconfigure \/ Starting \/ Stopping

CheckAlive == ProbeBegins \/ ProbeDropped \/ ProbeFindsNoCore \/ ProbePublishes

Environment == EngineDies \/ DaemonServesLate \/ OthersSetProxy

Next == Begin \/ Operation \/ CheckAlive \/ Environment

Spec == Init /\ [][Next]_vars

\* The thread that holds the lock runs; every wait in it has a deadline.
FairSpec == Spec /\ WF_vars(Operation)

----------------------------------------------------------------------------
\* Properties.

\* Every variable keeps its type.
TypeOK ==
    /\ snap \in Snaps
    /\ applied \in Plans \cup {None} /\ file \in Plans \cup {None}
    /\ prepared \in Plans \cup {None} /\ options \in Plans \cup {None}
    /\ engine \in Plans \cup {None}
    /\ lastMain \in Mains
    /\ settings \in Settings
    /\ managed \in BOOLEAN /\ adopted \in BOOLEAN
    /\ child \in BOOLEAN /\ pid \in BOOLEAN
    /\ late \subseteq {"START", "STOP"}
    /\ os \in Proxies /\ lease \in Leases \cup {None}
    /\ released \in Proxies \cup {None} /\ user \in Proxies \cup {None}
    /\ at \in Points
    /\ ret \in Returns
    /\ cmd \in Commands /\ call \in Calls
    /\ ok \in BOOLEAN /\ cleanup \in BOOLEAN
    /\ probe \in Probes

\* Between operations the core is never left Starting, which would refuse all
\* later starts, and no prepared plan waits for a start it was not made for.
IdleIsSettled ==
    at = "idle" => snap.state # "Starting" /\ prepared = None /\ options = None

\* What the UI is shown as running is what runs: the live kernel, config.json,
\* the applied options and the published TUN and listening flags are one plan.
RunningPlanIsLive ==
    at = "idle" /\ Running =>
        /\ applied # None /\ file = applied /\ engine \in {applied, None}
        /\ snap.tun = applied.tun /\ snap.listen = applied.listen
        /\ lastMain = applied.main

\* The running plan is the one of the selected profile, also after a profile
\* switch that failed and was rolled back.
RunsSelectedProfile ==
    at = "idle" /\ Running => applied.main = settings.main

\* connectedSince is set exactly while the running plan has its ports open.
ClockRunsIffListening ==
    at = "idle" /\ Running => (snap.since # 0 <=> snap.listen)

\* The lease holds what the last other program had set, whatever takes,
\* handoffs, failed takes and changes by others came between.
LeaseKeepsUserProxy ==
    lease # None /\ lease.restore /\ os = "ours" /\ user # None => lease.original = user

\* A release never points the desktop at this application again.
LeaseNeverOurs == lease # None /\ lease.restore => lease.original # "ours"

\* How the operation that just unlocked ended.
Returned(name) == at # "idle" /\ at' = "idle" /\ cmd.name = name

\* A stop that reports success took the system proxy away from the dead port, unless it
\* could not read that the proxy was ours: then the lease still holds what to give back.
StopReleasesOurProxy ==
    [][Returned("stop") /\ ok /\ cmd.alone =>
           \/ os # "ours"
           \/ /\ cmd.blind
              /\ user # None => lease # None /\ (lease.restore => lease.original = user)]_vars

\* Not so: it takes it away whatever it can read (the comment in stopCore). A reading that
\* fails is taken for a proxy that is not ours, and nothing is reported.
StopLeavesNoDeadPort == [][Returned("stop") /\ ok /\ cmd.alone => os # "ours"]_vars

\* checkAlive declares the core crashed only when it has exited.
CrashVerdictIsTrue ==
    [][at = "idle" /\ Running /\ snap'.state = "Failed" => engine = None]_vars

\* A reconfiguration or its rollback does not reset a session's clock.
SessionSurvivesReconfiguration ==
    [][(\E n \in {"restart", "select", "tun"} : Returned(n))
        /\ cmd.before.state = "Running" /\ cmd.before.listen
        /\ snap'.state = "Running" /\ snap'.listen
       => snap'.since = cmd.before.since]_vars

\* A reconfiguration that reports no error keeps the system proxy it found ours.
SystemProxySurvivesReconfiguration ==
    [][(\E n \in {"restart", "select", "tun"} : Returned(n))
        /\ cmd.proxy /\ cmd.alone /\ snap'.state = "Running" /\ ~snap'.err
       => os = "ours"]_vars

\* Standby opens no tunnel, and no proxy ports but on the retry after a cache repair, which
\* compiles its plan anew from the options a start has by default.
StandbyOpensOnlyAfterRepair ==
    [][Returned("ready") /\ snap'.state = "Running" =>
           ~snap'.tun /\ (snap'.listen => ~call.repair)]_vars

\* Not so: standby never opens the proxy ports (startReadyCore's comment).
StandbyKeepsPortsClosed ==
    [][Returned("ready") /\ snap'.state = "Running" => ~snap'.listen]_vars

\* An applyTun that fails leaves core.tun_enabled as it was.
FailedTunKeepsChoice ==
    [][Returned("tun") /\ snap'.err /\ cmd.before.state = "Running"
       => settings'.tun = cmd.intent]_vars

\* stopCore publishes Stopped only when the kernel is known to be gone.
StoppedIsConfirmed ==
    [][at = "stopEngine" /\ snap'.state = "Stopped" => engine' = None /\ late = {}]_vars

\* A start reports "exited" only of a kernel that has exited.
LiveCoreIsNotReportedExited ==
    [][at = "await" /\ at' = ret.start /\ snap'.state = "Failed" => engine = None]_vars

\* Every operation ends.
OperationsEnd == at # "idle" ~> at = "idle"
=============================================================================

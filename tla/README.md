# Clash-Flux: TLA+ models and proofs

Clash-Flux is a desktop and mobile proxy client.  It compiles a user's profile
into a sing-box configuration, runs the sing-box kernel (through a root daemon
on Linux, a Windows service, as a child process on macOS, inside the
application on Android and iOS), points the desktop's system proxy at it, adds
native PPTP tunnels with their routes, and shows all of it in one UI.  This
directory models the parts of the program whose correctness depends on the
order of things: what holds which lock, what is published when, what survives
a failed step.  The compilers (sing-box JSON, rule sets, subscriptions) are
data and appear as opaque plans.

## Inventory

| Part | State it keeps | Operations | Talks to |
|---|---|---|---|
| Core store (`src/src/store/core_store*`) | published snapshot, applied options, prepared plan, ownership flags, proxy lease, selected profile content | start, standby, connect, restart, switch profile, stop, TUN, system proxy, `checkAlive`, provider refresh, network settings | daemon client, kernel controller API, sysproxy, persistence, compiler |
| UI core operations (`src/src/ui/core_operation.h`, `core_model.h`, `common.cpp`) | one command, ticket serial, publication revision, view | run a command, install the service and retry, poll, publish, diagnostics | core store on worker threads |
| Root daemon and its client (`service_daemon.inc`, `service_client.inc`, `service_admin.inc`, `windows_service.cpp`) | child kernel, PPTP session, idle timer, upgrade flag | START, STOP, STATUS, VERSION, UPGRADE, PPTP control | core store, kernel process |
| Native connections (`store/vpn.cppm`, `vpn.cppm`, `pptp.*`, `vpn_compensation*`, `native_route_transaction.h`) | sessions, routes, saved gateways, compensation journal | connect, disconnect, reconnect, stop traffic, route rebind | daemon, operating system, core store |
| Persistence (`store/persistence.*`, `db.*`, `sqlite_schema.*`, `hydrated_once.h`) | memory tables, dirty sets, write queue | load, write behind, flush, freeze for an upgrade | every store |
| Provider resources and caches (`provider_resources.cppm`, `rule_provider_cache.cppm`, `proxy_provider_cache.cppm`, `rule_set_cache_ownership.h`, `external_resource_scheduler.inc`) | cache files, ownership marks, retry times | refresh, publish, roll back, purge | core store, network |
| Streams and health (`stream.*`, `runtime_health.h`, `health_history.*`) | connection generation, last samples, history ring | connect, reconnect, publish, reset | kernel API, UI |
| Profiles (`store/profiles.cppm`, `ui/profile*`) | list, selection, refresh failures | import, edit, refresh, select, reorder | persistence, core store |
| Application instance and CLI (`app_instance.cppm`, `cli_ipc.cppm`, `cli.cppm`) | the single-instance claim, pending command | claim, forward, reply | UI, core store |
| Updates and tests in the UI (`ui/app_update_*`, `ui/website_test_model.h`, `ui/proxy_test_model.h`) | phase, serial | check, download, verify, install, test | network, persistence |
| Compilers, wire codecs, system proxy backends, pages | (data, presentation) | | |
| Android and iOS hosts (`platform/`) | the service's own runtime state | | |

The hard behaviour is in the first five rows.  Operations last seconds and wait
for other processes, so the kernel, the daemon, other programs that own the
desktop proxy and the UI poll all act in between; every one of their waits has
a deadline after which the program goes on without knowing what happened; and a
reconfiguration stops the old kernel before it starts the new one, so that each
failure in the middle needs a way back.  `PROJECT.json` lists these as hazards,
each at its line and with the properties that speak of it.

## Modules

### CoreLifecycle

The desktop `CoreStore`.  Every public operation holds the recursive
`lifecycleMutex_` from its first to its last statement, so at most one is under
way: `at` is the point it has reached, and `ret` where the two procedures all
operations share, `startCore` and `stopCore`, return to.  The control flow of
an operation is the sequence of its points:

    connectProxy / restartCore / applyMainProfile
        prepare -> handoff -> [stopCore] -> handoffStopped -> [startCore]
                -> handoffStarted -> [stopCore] -> rollbackStopped -> [startCore] -> restoreDone
    applyTun
        [stopCore] -> tunStopped -> [startCore] -> tunStarted
                -> [stopCore] -> tunBackStopped -> [startCore] -> tunRestored
    startCore     check -> plan -> launch -> await -> mode -> proxy -> take
    stopCore      release -> restore -> stopEngine

A point is placed wherever the code waits for something outside the process
(a daemon reply, the controller, the desktop's proxy settings) and after each
call; what happens between two points is one action, with all its assignments.
Failures are alternatives of the action that meets them.

| Variable | In the code |
|---|---|
| `snap` | `snap_`, the `CoreSnapshot` the UI reads: state, TUN and listening flags, `connectedSince` (as the number of the start that set it), error |
| `applied`, `prepared`, `options`, `lastMain` | `lastAppliedOptions_`, `preparedStart_`, `preparedOptions_`, `lastProfileYaml_` |
| `file` | `config.json` and `lastPreparedOptions_`, which describe the same plan |
| `managed`, `adopted` | `managedByService_`, `adopted_` |
| `engine`, `child`, `pid` | the live kernel and the configuration it read at its start, whether `process_` is it, whether `core.pid` exists |
| `late` | requests the daemon's socket still holds although their client timed out |
| `os`, `lease`, `released` | the desktop's proxy, `proxy.system_lease`, `releasedProxy_` |
| `settings` | selected profile, `core.tun_enabled`, `proxy.system_enabled` |
| `probe` | a `checkAlive` between its capture, its question and its verdict |
| `user`, `cmd.alone` | history: the last proxy set by another program; whether one changed it during the operation |

A plan is its profile's content, whether it opens a TUN and whether it opens
the proxy ports; the compiler is a function the model never opens.  `Service`
selects the platform: with the daemon (Linux, Windows) or with own children and
resident kernels (macOS).

Around the operations, the kernel may die at any time, the daemon may serve a
request its client gave up on, another program may change the system proxy, and
`checkAlive` runs in three steps: it captures the instance under the lock, asks
about it without the lock, and publishes its verdict under the lock.

### CoreOperations

The UI's side of the store: everything here runs as coroutines of the UI
thread, and what they await runs on worker threads, so an action is what one
thread does between two awaits.  `world` stands for the store and the desktop:
three things a read can find (the store's snapshot and settings, the desktop's
proxy, whether the service unit exists), the first two as version counters that
a command, a page, the kernel or another program moves forward.  The view is
the versions some read found, so "older" and "newer" can be said of it.  What
happens inside a command is `CoreLifecycle`'s subject; here it is one step, or
two for a disconnection, that moves `world`.

| Variable | In the code |
|---|---|
| `view` | `CoreModel::view`, with `ready` |
| `command`, `serial` | `CoreOperations::command` and `serial` |
| `task` | the coroutine that owns the command: where it is, its ticket, whether it has a window to show a dialog in, whether it already runs again after an installation, and the versions its work left |
| `read` | the reads under way, one slot per reader: `ReadCoreView` asks the snapshot first, the proxy and the service after it, and a fast poll carries the proxy of the view it started from over |
| `current` | the readers whose captured revision is still the model's: `Invalidate` (`++revision`) empties it, `Captures` adds a reader, `AcceptsPoll` asks it |
| `refresh`, `ticked` | the two questions asked of `refreshTick`: has it moved since the pump last published, and since the pump's read began |
| `countdown` | `slowCountdown`; `SlowInterval` is `kSlowProbeInterval` |
| `checking`, `maint`, `started` | `serviceChecking`, the coroutine that set it, and whether the startup maintenance ran |
| `writer` | the page that changes the store without a command and how far it is |
| `diagnosis` | the runtime diagnostics and their cancellation |
| `done`, `asked`, `crossed`, `stale` | history: what the last command left, the proxy when a refresh was requested, the readers overtaken by a command, the overtaken reads that were shown |

`revision` and `refreshTick` are unbounded counters the code only compares for
equality with an earlier copy; keeping the answers instead of the counters makes
the state finite without a bound on either.  Modelled are Linux and Windows,
where a start needs the service; the Android variant of a TUN change is not.

### Services: KernelService, ServiceDaemon, WindowsService

What the core store asks START and STOP of is one contract, `KernelService`: a
service accepts commands and answers them; a kernel runs only by an accepted
START and is the only one; STOP is answered when it is gone.  Two programs
implement it.

`ServiceDaemon` is the root daemon (`service_daemon.inc`), which serves one
connection at a time from a listen backlog (`backlog`, `serving`, `at`), ends a
kernel by SIGTERM and SIGKILL with a grace after each, may be left by its client
after two seconds (`client`), leaves by itself to let systemd start an upgraded
binary (`exitCode`, `restart`), and crashes.  `WindowsService` is the service of
`windows_service.cpp` with the service control manager and whoever installs:
`wproc` are the elevated installers and the helper of an upgrade, each with what
it has done (which directory it moved, whether it disabled the start), `dirs` what lies in the installed, the old and the staging directory,
`lock` the management lock; an installer may fail or be killed after each step.

Assumed, not derived: the helper of an upgrade passes the gate before the lock
within the service's wait (`AnswerUpgrade`), and a client does not restart the
service in the middle of a roll-back, which can leave a half-copied payload
(`aborted`).  The roll-back in `installFrom` also re-enables starts before it
stops the service, although its comment says that clients must not restart the
old image.

### Native connections: RouteLeases, RouteRegistry, WindowsRoutes, NativeSession, Transport

`RouteLeases` says what a registry of native routes promises: what is leased is
in the system, and what is given back is gone or known to be left.
`RouteRegistry` implements it on Linux (policy tables with a sentinel, shared by
threads and swept after a crash, `vpn_compensation.cpp`), `WindowsRoutes` on
Windows (captures of a TUN, a default route, a watcher,
`vpn_compensation_windows.cpp`).  `NativeSession` is a PPTP session from the dial
to its withdrawal with the plan that refers to it; `Transport` is the arithmetic
below: longest prefix, the networks minus their exclusions, names in DNS packets,
aliases, bypasses, each against a reference definition.  An `ip` command may
fail, and it may be killed at its deadline after it took effect; an installation
is then undone, and a removal goes on with what comes next, as the code's does
(`stuck` are the tables such a command left something in).  A TUN that comes back
has a new LUID; a
session whose dial and clean-up both lost their answer stays until the next dial
(`leaked`).

### Storage: WriteBehind, Storage, ProxyLease, AppUpdate

`WriteBehind` is a map with pending entries and a disk.  `Storage` implements it
by the cache of `persistence.cpp`, its dirty sets with revisions, the flushes of
two tasks, which save one row at a time and acknowledge it only if it was not
changed meanwhile, deletions with the files they remove, hydration, the freeze
before an upgrade and crashes.  `Orderings` has what it means to sort and to filter
a list, here and in the page models.  `ProxyLease` follows the system proxy's lease
through crashes and restarts, also those that come before the lease is on disk
(`lost`); `AppUpdate` the application's update from the
check to the installer on three platforms.

### Feeds: Streams, StreamNotices, HealthHistory, ConnectionTrace

What the running kernel reports: the controller's web sockets with their
generations, the monitor that probes a silent one and the limits on its repairs
(`Streams`); log lines kept in a file and announced to a page that comes and
goes, keeps fewer of them than the store and sorts them by their times, which a
clock that is set back puts out of order (`StreamNotices`); the health record
with more samples than writes, and its incidents (`HealthHistory`);
the rule a live connection matched, while kernel and plan change under its
readers (`ConnectionTrace`).  Times are counted in units that keep the order of
the code's constants.  A handler that fails is modelled as failing before it
drains.

### Application: GlobalRules, RuleSets, ProfileList, WebsiteTests, ProxyTests, KernelProcess, ConfigTool

The page models whose answers arrive late: rules edited while the save before is
answered; a library of rule sets with three editors, each working on the copy it
opened; subscriptions chosen, dragged and deleted, the main one also on standby
and with a core that refuses, while they are read; tests of sites and
of nodes that are cancelled and overtaken.  And the processes the application
itself starts: the macOS kernel with its monitor thread, whose poll a signal may break
off, and its log, and the kernel's binary as a tool with a deadline.

### Shell: AppInstance, DesktopWindow, QrsCodec, Downloads, ProviderResources, NetworkConflict

How the application is started, seen and reached from outside: launches that
find another one, wake it, replace it or hand it a command; the window and the
icon while the desktop's icon host comes and goes and an update is installed; a profile put together from a
stream of codes; downloads by way of redirects; provider resources whose loads
are shared; the check for other programs' tunnels before a start.

### MC modules

`CoreLifecycle` and `CoreOperations` are checked as they stand: their runs only
give the constants values.  `MCServices`,
`MCNative`, `MCStorage`, `MCFeeds`, `MCApplication` and `MCShell` put the parts of
a group side by side: `subject` says which part this behaviour is about, and the
others keep their initial state, so that the states add up instead of
multiplying.  Their properties are conjunctions of the parts' properties, which
are stated and explained where the part is.  The modules within a group do not
interact; those that do are composed by refinement (`KernelService`,
`RouteLeases`, `WriteBehind`).

## Runs

Every property of a passing run has a mutant in `PROJECT.json`: a change to one mapped
definition, of the kind a slip in that code would be, under which TLC finds the
property violated.  `CHECK_DEADLOCK FALSE` is in every configuration because the
bounds end each behaviour: when `MaxEpoch` kernels have run, or `MaxCommands`
commands were given, nothing new may start.  That nothing is stuck before is
what the liveness properties check.

| Run | Question | Bounds | Distinct states |
|---|---|---|---|
| `core_plans` | Do the published plan, `config.json`, the live kernel, the selected profile and the session's clock stay one through every operation, failure, cache repair and rollback; does standby stay closed but after a repair; does a poll in three phases ever condemn a kernel it did not ask about? | two contents, two kernels | @core_plans |
| `core_proxy` | Does the lease keep what the user had, and when is a dead port left behind, with another program at the proxy between any two steps and a desktop that cannot always be read? | without the daemon; one content, one other program, two kernels | @core_proxy |
| `core_macos` | The plan property without the daemon: own children, detached kernels, adopted residents; and does every operation end, the cache repair included? | one content, two kernels | @core_macos |
| `ui_commands` | Can the view show a read that a command overtook, lose what a command left, or can maintenance and a command run together? | one user command beside the one startup maintenance runs, one edit, diagnostics | @ui_commands |
| `ui_converges` | Does every command end, and does the view reach the store without any notice? | one command, one change by a page, the service row or the world | @ui_converges |
| `services` | Does each privileged service keep the contract, never lose a kernel, and survive installations that fail or are killed? | two clients of two commands, a backlog of two, one crash, one killed installer, one elevated installation | @services |
| `native` | Is what is leased installed, does nothing foreign go, is a session withdrawn before it is released, is the address arithmetic right, while commands fail or are killed after their effect? | two threads, two keys, two tables; two captures, two TUNs; two sessions, three operations, two faults; addresses of three bits, packets of four bytes | @native |
| `native_release` | The statement of `native_route_transaction.h:16-18` on releases, which TLC finds violated | one session, three operations | violation |
| `storage` | Is a row, its file and its rules one through crashes and failed saves; is the user's proxy given back after crashes before and after the flush of its lease; is only a verified update installed; does all of it end? | two profiles, two mutations, one failing transaction, one stop; three takes, two crashes; three platforms | @storage |
| `feeds` | Are frames, log lines, incidents and matched rules of the kernel they claim to be of? | one channel of one frame a second; two writers of four lines at two times, a store of three lines, a page of two, two mounts, one restart; four samples on a clock of which two units lie between writes; two readers of two connections | @feeds |
| `app` | Do the page models keep the user's edits and tell what is under way, and is every child reaped? | three edits in two editors; two sets, two saves; three profiles, three actions; two children, five lines; three sites on two slots; two nodes, three tests | @app |
| `shell` | Is there one application, is a command reported only if it ran, does the window come back, and is what comes from outside checked? | three launches, one crash; three blocks of two streams; two downloads; three fetches; two starts | @shell |

Why these bounds.  A handoff and its rollback use at most two plans (the
candidate and the previous one), so two contents distinguish all of them; a
stale verdict needs one kernel to ask about and one that runs when the verdict is
published.  What is done with the system proxy does not ask who owns the kernel, and
a stop or a start fails in as many places without the daemon, so `core_proxy` goes
without its late answers, which `core_plans` has; the theorems hold for both.  A stale read of the UI needs one command between its start and its
end.  An abandoned command can be overtaken by the same client's next or by
another client's, so two clients of two commands; a lost installation needs one
installer that is killed and one that meets what it left.  A save races one
write of the same entry and one of another.  A third launch is what finds two
processes at the lock; a third profile is what is neither chosen nor dragged; a
third site is what waits while two are tested.  Most theorems below hold for
every number of each.

In `shell` an earlier process's answer lies there for every launch that waits
for one.  In `storage` three mutations were checked over `Storage` alone (six
million states) with the same result.

## Fairness

`CoreLifecycle`: `WF_vars(Operation)`.  The thread that holds `lifecycleMutex_`
is scheduled, and every wait inside an operation has a deadline after which the
operation goes on (the daemon client's timeouts, the readiness loop, the
process waits), so the step that gives up is always enabled.  Nothing is
assumed of the kernel, the daemon, other programs, polls or users.

`CoreOperations`: weak fairness of the UI thread's steps and, per reader, of the
worker's.  `ReadCoreView`'s questions and the store's operations have deadlines
of their own (the previous paragraph).  Nothing is assumed of a step that waits
for a password (`InstallForCommand`, `ServiceWorks`), of clicks, of diagnostics
or of the world; the liveness properties say so with `Prompting`.

`MCServices`: the daemon's loop and the service's thread, whose waits have
deadlines; systemd's `Restart=on-failure`; and a kernel whose daemon has died is
ended with the daemon's control group.  Nothing of clients or installers.

`MCNative`: a thread inside the registry, whose commands end; the Windows
watcher and destructor.  `MCStorage`: the pump of the write-behind store and each
flush; each task of an update, whose transfers have timeouts, and the installer
that was started.

`MCFeeds`, `MCApplication` and `MCShell` claim no liveness and assume no fairness.

## Proofs

The theorems are checked by TLAPS for every value of the constants; the only
assumptions are the modules' named assumptions about their constants (bounds are
numbers, the absent value is none of the others, there are finitely many calls),
each evaluated by TLC in a run, and the hypotheses a theorem states.  In every
proof module a lemma says that one action keeps one part of the inductive
invariant; a lemma puts the actions together; the temporal step is the last line
of the theorem.

### CoreLifecycleProofs

- `TypeCorrect`, `Settled` (`IdleIsSettled`) and `PlanIsLive`
  (`RunningPlanIsLive`) from one inductive invariant, `IInv`.  The property says
  that between operations a Running store and its kernel agree; inside an
  operation it is false at many points, so `LiveInv` says what holds wherever
  the state is Running, `StartingInv` that Starting is shown only on the way to
  a kernel, `PreparedInv` that a prepared plan waits only for the start that
  consumes it and has its content, `CommittedInv` that what is remembered of the
  content is what was committed to disk, `CandidateInv` that a handoff has the
  plans it is about to start, `StoppedInv` that a TUN change goes on only from a
  stopped core, and `AwaitInv` that an awaited kernel read the committed file.
  The last one rests on platform detail: without the daemon an adopted kernel
  could have another plan, and is ruled out only because it is always reported
  as exited (see "What the models found").
- `LeaseKeeps` (`LeaseKeepsUserProxy`) from `TypeOK` and `ProxyInv`, which ties
  the lease, the desktop's setting and the last setting another program made.

The rest is about sessions and the system proxy.  All operations share
`startCore` and `stopCore`, and what may be said inside them depends on who
called.  `RouteInv` therefore begins with `WayInv`, which operation is on which
way through them, and `EntryInv`, what was so on entry and still is.

- `SelectedIsRun` (`RunsSelectedProfile`) from `SelectionInv`: what runs is what
  is selected or, in a switch that may yet fail, what is gone back to.
- `ClockRuns` (`ClockRunsIffListening`) and `SessionSurvives`
  (`SessionSurvivesReconfiguration`) from `ClockInv`: the clock is the one on
  entry wherever the operation may return to a session.
- `StandbyClosed` (`StandbyOpensOnlyAfterRepair`): a standby has no TUN, and
  listens only if its start was the retry after a cache repair, which forgets
  the standby options (see below).
- `CrashVerdict` (`CrashVerdictIsTrue`): between the question and the verdict of
  a poll either the epoch it compares has changed or the kernel is the one it
  asked about (`ProbeInv`).
- `StopReleases` (`StopReleasesOurProxy`): a stop leaves the proxy behind only
  when it could not read it (`cmd.blind`), and keeps the lease that gives it back
  then.  `ProxySurvives` (`SystemProxySurvivesReconfiguration`).

### CoreOperationsProofs

From `IInv == TypeOK /\ Slots /\ Gates /\ Requests`:

- `TypeCorrect`; `countdown - 1` needs `Slots`: a poll is fast only while the
  countdown is positive, and nothing else takes it down.
- `GatesExclude` (`MaintenanceExcludesCommands`) from `Gates`: each flag is set
  exactly while it has an owner.
- `RefreshIsAnswered` (`RefreshReprobes`) from `Requests`: a poll that no request
  overtook is as new as the last request, and so is what a command is about to
  show, unless a request is pending.
- With `NoWriteThrough`, the absence of the two pages that write a snapshot
  without comparing its revision: `NothingOvertaken` (`NoOvertakenRead`) from
  `CrossedInv`, which says that an overtaken reader has lost its revision and
  that the two readers without one cannot be overtaken; `CommandIsPublished`
  (`PublishedAfterCommand`) and `ViewAdvances` (`ViewNeverGoesBack`) from
  `FreshInv`, which bounds what each read under way carries from below by the
  view and by what the last command left.  `NoWriteThrough` cannot be dropped:
  with those pages TLC finds an overtaken read shown.

### ServicesProofs

- `BothAreSafe`: all of `ServicesAreSafe`.  For the daemon from `LoopInv`, a
  command is served exactly while the loop is in one and is of the kind the loop
  is in, `ChildInv`, at most one kernel lives and none where one is started or a
  stop confirmed, and `QueueInv`, the commands of one client wait in the order
  in which it sent them.  For the Windows service from `ThreadInv` (the same for
  its thread), `MutexInv` (past the lock is who holds it), `SourceInv` (what is
  installed from is whole), `PlacedInv` (where the old and the new payload lie
  at each place of an installation, as long as nobody was killed in it),
  `StartableInv` (what an installer will start exists) and `EnabledInv` (a
  service that is disabled has an installer that remembers it).  The last three
  need each other: an installer undoes what its own fields say it did, and what
  it says is true only while no other one moves the directories.
- `DaemonImplements`, `ServiceImplements`: each program implements
  `KernelService` under a mapping that takes the orders of a queue to the
  contract's accepted orders; every step is a step of the contract or a stutter.
- `DaemonAnswersAreTrue`, `StopIsConfirmed`: STOPPED and a confirmed STOP are
  answered only when no kernel lives.  `DaemonIsInOrder`: what a client gave up
  on takes no effect after its later command was answered.

### NativeProofs

- `RoutesHold` (`RoutesAreSafe`).  For Linux from `LinuxInv`, the conjunction of
  `TurnInv` (who has the mutex is where it works, on a table of its own),
  `KeyInv` (who is about to add a lease saw that nobody holds its key),
  `OwnInv` and `TableInv` (tables in use are owned and not used twice; who
  reserves one has listed all that were owned), `SystemInv` (which of sentinel,
  route and rule are there at each command, but for what failed commands left in
  a `stuck` table; a route is only added to a table without them,
  `FillsCleanTable`) and `ClaimInv` (an owned table is
  held, being filled or being emptied).  For Windows from `CandidateInv` (what
  the main thread and the watchers have made of the two leases) and `EntryInv`
  (what is leased is registered, and what the program did not create is not
  registered as its own).  For the lookup from `LookupInv`, what it holds at
  each step.
- `LinuxKeepsContract`, `WindowsKeepsContract`: both registries implement
  `RouteLeases`.  The steps that matter are the removal of a rule, which may only
  come when nobody holds its key, and the deletion of an expired entry.
- `SessionsHold` (`SessionsAreWithdrawn`), which exempts the releases of a store
  that believes its kernel failed and no others (see the run `native_release`), from `BeliefInv` (what the store's
  view of its kernel implies about it, and that a plan which is known to run
  refers to connected sessions), `PlanInv` (from the withdrawal on it does not
  refer to the operation's) and `EngineInv` (an engine is forgotten only with its
  session over).

### StorageProofs

About all of `MCStorage`, whose ids are numbers from 1 (`IdsAreNumbers`, as the
database gives them; TLC evaluates the assumption).

- `FilesAreKept` (`FilesOutliveRows`, `RulesHaveOwner`), `PendingTellsAll`
  (`NothingPendingIsSaved`) and, with the types, `RowsHold` (`RowsAreWhole`), from
  `StoreInv`: `FlushInv` (one flush at a time touches the disk), `ModeInv` (what
  is so while the process ends and is down), `SameInv` (an entry that is not
  marked is as on disk), `SettingsInv` and `ProfilesInv` (what is in the snapshot
  of a flush is still marked, or was overtaken and will be found so by its
  acknowledgement).
- `ImplementsContract` (`StorageKeepsContract`): `Storage` implements
  `WriteBehind`.  The cache, the marks and the disk are the map's; saving an entry
  row by row is a sequence of its flushes; a crash drops what is pending.
- `ListShowsRows` and `OrderSurvives` from `OrdersInv`: the list has every row
  once and the order, in memory, in a flush and on disk, is one of ids
  (`ListedInv`, `SnapshotInv`); until the first stop the list goes by the ids
  without an order, or is the order itself (`OrderInv`).  Later it need not be,
  since rows and order are saved one by one.  What is used of sorting is that
  numbers can be listed from the least on (`AscendingIs`) in one way only
  (`OneAscending`, because the n-th has rank n), so that a list sorted by itself is
  itself (`SortedSelf`).
- `ProxyHolds` (`ProxyIsGivenBack`) from `LeaseInv`: a desktop that points at this
  program has a lease for exactly that setting, which remembers what the user is
  owed and never an address of ours (`OwedInv`), unless a crash took the lease of
  that very take before its flush (`lost`); that lasts only as long as the desktop
  points here (`LostInv`), and a start leaves nothing else behind (`CleanInv`).
- `UpdateHolds` (`UpdateIsSafe`) from `UpdateInv`: there is a package exactly in
  the phases that offer or install one (`ModelInv`), and then the current ticket
  has no task that could disturb it (`TaskInv`); every directory is owned and the
  package's is complete (`PackInv`); a helper that may still install lives only
  while the page waits for it or the program is about to end (`InstallInv`).

### ShellProofs

- `OneOfAll` (`OneApplication`) and `EntriesComeBack` (`WindowComesBack`).  For
  the launches from `LaunchInv`: the holder of the lock is unique (`LockInv`);
  the file names it once it is written, and an end that was announced is not
  taken back (`FileInv`); what a launch read of another one is at most one
  announcement old (`SeenInv`), which is why it never puts a healthy owner to
  death; a command lies where its client or exactly one owner has it
  (`RequestInv`), so that executions can be counted against the owners that died
  over one (`RunInv`).  For the window from `DeskInv`, which ties the menu, its
  tree and the window, and hides the window as long as an update is installed.
- `LoadsAreShared`, `SomebodyLoads`, `AnswersWereLoaded`, `CancelledItself` about
  `ProviderResources`, from `HoldsInv` (who waits on a flight finds its owner),
  `FlightsInv` (a flight others may join is owned) and `CountInv` (the number of
  loads is that of the calls that are loading).  `SomebodyLoads` is the absence
  of a wait for nobody.
- `RowsAreCodes`, `ScansFailByNoise` about `QrsCodec`, for any number of blocks,
  from `CodesInv`: the rows a scan keeps are sums of the codes it saw, each with
  a pivot that no other row has, and a sum without a pivot is of no block
  (`Spanned`).  That one more code keeps this (`OneRowMore`) needs what the
  reduction leaves of a code, which is its sum with the rows of its pivots
  (`ReducedIs`); that there are 2^n sums of n rows (`CountOfSums`) needs that
  different sets of pivots have different sums.  Both are inductions over finite
  sets of rows: a least counterexample exists because the library has it that
  strict inclusion of finite sets is well founded.
- `DownloadsAreWhole`, `DownloadsTellTheTruth` about `Downloads`, from `DownInv`:
  every handle's connections were made with the secret it is for, in the pool and
  in the jobs (`PoolInv`, `JobsInv`); a temporary directory is of one running job
  (`TempsInv`); what is at the destination is old or was whole (`DestInv`).
  `HeadersAreLast` shows that no header of a redirection survives it.
- `CapturesAreMeant`, `TunnelsAreFound` about `NetworkConflict`, from `TunnelInv`:
  the kernel's tunnel is its plan's unless it was lost, and whoever knows a plan of
  a running kernel knows the one it runs.
- `OutsideHolds` is all of `OutsideIsChecked` from these.  Assumed and evaluated
  by TLC: bounds are numbers, no stream is numbered 0 (`StreamsAreNumbered`), the
  pool has room for one (`PoolHasRoom`), routes lead to networks
  (`RoutesAreNetworks`), links have addresses (`LinksAreGiven`), and a plan with a
  tunnel has one, with an address (`PlansAreOpened`; the compiler's inbound always
  has one, `singbox_compile.inc:155-163`).

### ApplicationProofs

- `ReapedAlways`: all of `ChildrenAreReaped`.  From `ChildInv` (children are
  numbered by their starts, and the one whose number is kept is the last of them
  until it is reaped), `LinesInv` (lines are passed on in the order in which they
  were written, and the tail holds the newest ones) and `ToolInv` (a success
  stands for a child that ended by itself within its limits and, of an import,
  for its text).
- `RulesKept`: all of `RulesAreKept`.  For the global rules from `OnceEach`
  (every list, whether edited, stored, being saved or being loaded, has each
  rule once and none newer than the last opened) and `EditorIsRight` (an editor
  knows where its rule is, and a save it waits for has its rule).  For the rule
  sets from `CopiesAreTrue` (a copy of some revision has the library's content of
  that revision, and a read is shown only while it is not older than what is
  shown) and the store's own invariant that an enabled rule refers to a set it has.
- `ListFollows`: all of `ListFollowsStore`, for any number of subscriptions.  From
  `ReadsAreTrue` (a read of the version that still counts is the store, and what
  was shown at that version with nothing asked for is too), `JobIsWanted` (while a
  selection is under way, its task is for what the user wanted last or that is
  queued behind it; what it has written is its target), `Deletion` (while a subscription is
  being deleted there is no main one and nobody selects one) and `DropsInOrder` (drops are
  counted: no list has more of them than the store, and the page has more than the
  list only during a selection).  The lemmas before it are about filtered
  lists: the members of a set can be listed from the least on (`AscendingIs`,
  because a rank is a bijection), so that what is kept has exactly the elements that
  are in the set (`KeptIs`).  It assumes that no subscription is `None`
  (`NoneIsNoProfile`).
- `TestsHold`: all of `TestsAreCurrent`, for any number of sites, slots and nodes.
  For the sites from `Agree`, which is said of what an operation leaves to `Pump` as
  well as of the state: cards, queue, slots and probes agree, a queue has nothing
  twice, and no generation is of two probes of a site.  `PumpKeeps` shows that `Pump`
  keeps it and fills the slots, `Front` that the first n of a queue are n of its
  members; an operation then only has to leave the parts in agreement.  For the nodes
  from `TicketsOnce` (no ticket is given twice, and the one of the group test in
  progress is the newest) and `GroupIsMeasured` (while a group is tested only its
  task measures, nodes it was asked for, and its kernel is the one in use as long as
  the page has nothing to observe).  It assumes that sites and nodes are finitely many
  (`TestedAreFinite`) and that a site has an address (`SitesHaveAddresses`).

### FeedsProofs

- `LogHolds`: all of `LogIsComplete`.  From `StoreInv` (the file is in order,
  without a line that was cleared, and ends with the history), `PageInv` (every
  line of the history is shown, on its way, queued, or earlier than all of a full
  page, and the page is sorted by time, from the mount to the unmount except
  between the two halves of a clear) and `FlagInv` (a set flag has a notice in the page's queue or a writer
  that will call the page).  The lemmas before it are about ends of sequences:
  the end of an end, an end with one line more, an end within another.
- `RecordsHold`: all of `RecordsAreTrue`.  For the health record from `RowsInv`
  (the recent rows and the incidents end with the same state, in memory and on
  the file, and the incidents in memory extend those on the file) and `WriteInv`
  (what "persisted" stands for: the incidents are on the file, and every recent row
  is or belongs to the time in which no write is due; with nothing dirty the file
  is exactly what is in memory).  For the traced connections from `PlanInv`
  (an instance of the kernel has one plan, whoever remembers it), `BodyInv` (what
  was read is of the reader's instance once that has answered again),
  `BindingInv` (the first binding published for an instance stays while it is
  the store's, and every reader that may still show goes by it) and `ShownInv`.
- `StreamsHold`: all of `StreamsAreCurrent`.  From `HeldInv` (who holds the
  lifecycle is what its holder is doing, and what the monitor does with it is
  about the runtime that runs), `CurrentInv` (frames and
  evidence are of the running kernel, and no stream waits at a socket that nobody
  serves), `ChannelInv` (the run of valid frames is of this connection; the
  attempts of a channel are a ring of three of which the oldest is next, so that
  a repair that is due replaces one that has left the window) and `CountInv`.
  It assumes that the times are in the code's order (`TimesAreInOrder`) and that a
  channel is not named like a step of the monitor (`ChannelsAreNoSteps`).

## Only model-checked

- Liveness, which the prover does not handle: `OperationsEnd`;
  `ViewConverges`, the end of every command (`CommandsFinish`) included; in `DaemonKeepsContract` and `ServiceKeepsContract`
  `ServedIsAnswered`, `UpgradeTakesOver` and `StopCompletes`; `CallsReturn` and
  `GivenUp` in `CallsAreAnswered`; `PendingIsSaved`,
  `InstallationEnds` and `TransferEnds` in `WorkIsFinished`.
- The address arithmetic in `CallsAreAnswered`, which folds over sequences and
  recurses over prefixes and labels: an induction over data.

## What the models found

Statements of the code, its comments or its tests that a model shows to be
false.  Those that are written as a definition are kept in their module, beside
the properties.  One is a run of its own, `native_release`, and a finding in
`PROJECT.json`; the others are in no run.

In `CoreLifecycle`:

- `StandbyKeepsPortsClosed`: after a rule set cache repair the standby kernel is started again with its
  proxy ports open (`core_store_lifecycle.inc:356-378`), because the options
  prepared for the first attempt were consumed by it, against the comment at
  lines 20-21.
- `StopLeavesNoDeadPort`: a failed reading of the desktop's proxy is taken for "not
  ours" (`core_store_helpers.inc:665-669`), so that `stopCore` skips the release, reports
  success and leaves the desktop at a port nobody listens on.
- `FailedTunKeepsChoice`: a failed request for the TUN setting already stored
  writes the opposite (`core_store_state.inc:618`).
- `StoppedIsConfirmed`: when the answer to START is lost and the daemon
  unreachable at the next stop, the store publishes Stopped without an
  acknowledgement (`core_store_lifecycle.inc:518`).
- `LiveCoreIsNotReportedExited`: a live detached or adopted kernel is looked up
  in `/proc` on a platform that has none and reported as exited
  (`core_store_helpers.inc:522`).
- `LeaseNeverOurs`: a second take over a setting that is already ours turns its
  restoration on, so a release restores our own dead address
  (`core_store_helpers.inc:734`).

In `CoreOperations`, activating a profile writes a snapshot through that was
read before a command which has begun since (`profiles_page_card.cpp:288`).

In the native group: `ReleaseIsWithdrawn` (`NativeSession`): while the store's
state is not Running, `refreshRouting` only compiles a plan and returns true,
which counts as a withdrawal; a kernel that did not stop when it was asked leaves
the state Failed and goes on with the plan, and the next disconnect releases the
session its routes use (`core_store_routing.inc:58` against
`native_route_transaction.h:16-18`).  `SentinelAlwaysGuards` (`RouteRegistry`):
`removeObjects` deletes the sentinel although the deletion of the rule or the route
failed (`vpn_compensation.cpp:413-421`), and no sweep finds what is left.
`HeldStaysInstalled` (`RouteRegistry`), the daemon's sweep at its start removes
routes of an application that is running (`service_daemon.inc:294` against
`pptp.cpp:191`).  On Linux `DisconnectChecked` erases its entry before it
confirms.

In `Storage`, `DeletedRulesStayDeleted`: an id that is used again takes the
pending deletion of its old settings back (`persistence.cpp:534`); the proofs
and `SameInv` exempt such ids (`reused`).  `setSelectedProfile` saves its rows
one by one, and `OrderSurvives` is claimed without crashes only.  In
`ProxyLease`, `NeverStranded`: a crash before the lease is flushed leaves the
desktop at the dead program, unless it is the manual proxy at the port stored
before or the default one, against `core_store_state.inc:558`; and if it is taken
again the dead address becomes what a release gives back.  An update's `pending-*`
directory stays behind after a crash.

In `StreamNotices`, `FileIsBounded`: the count of lines past the cap begins anew
with each start, so short sessions let the file grow (`stream.cpp:163`); and
`EveryLineIsShown`: a line logged between the handler's drain and its
acknowledgement, or between the history and the subscription, is not announced
until the next one (`stream_updates.h:5-6`).  The page keeps 800 lines and sorts
them, the store 2000 as they came (`logs_page.cpp:34`, `stream.cpp:28`), so a line
of a clock set back may be in the store's newest 800 and not on a full page.  In
`HealthHistory`, the report says "persisted=yes" while the rows of the last five
seconds are not written (`health_history.cpp:171-176`).  In `Streams`, a notice that
arrives while the connection list is being read is dropped (the next one heals
it), and `stop()` does not clear the traffic slot.

In the application group: a disabled personal rule may be saved with a reference
to a set that is gone (`profiles.cppm:548` checks only what compiles, against
`core_store_lifecycle.inc:751`), and then blocks every later save of the
library (`singbox.cpp:130`); choosing a file ends `busy` while a save is in
flight (`rules_page.cpp:497`).  Between the steps of deleting the
main subscription the list has none (`profiles.cppm:661-668`).  A signal that
interrupts the monitor's poll ends its loop (`core.cpp:710`): nobody then sends
SIGKILL or reads the pipe, and the next start waits for the child without limit.
After a hang-up the monitor reads one buffer
only, so that the tail may lack the last lines (`core.cpp:711-716`, against the
comment at line 668).  A group test whose page is closed and whose kernel goes
off and on with the same plan leaves without ending, and `busy` stays until the
context changes (`missed` in `ProxyTests`, `proxy_test_model.h:32`).  Node
selections run on workers in no order (`proxies_page.cpp:453-477`).

In `AppInstance`, `LaunchesOnlyWake`: SIGUSR1 to an owner that has written its
name and not yet installed the handler ends it, against `app_instance.cppm:316`;
`TakeoverHasWinner`: on Windows two take-overs at once find each other's handles
and both give up (line 254).  A launch from the command line during a healthy
exit ends an owner that is still flushing; an owner that was started from the
command line never serves forwarded requests, although `cli_ipc.cppm:3-5` says
that the owner does; commands served between the exit's flush and its end are
answered and not saved (`late`).  In `DesktopWindow`, `HiddenHasEntry`: a window
that is hidden, not retired, has no way back when the icon host goes away
(`platform_app.cpp:856`).

Read in the code: a handoff whose stop ended the kernel but reports a cleanup
error starts neither plan (`core_store_helpers.inc:30`, against the comment at
line 23); the second comparison of `refreshTick` in `DriveCoreModel` can never
fire, because `RequestRefresh` also moves the revision compared before it; the
startup maintenance's write compares no revision, so a poll begun during it may
be taken back until the next one, which is why `ViewNeverGoesBack` speaks of the
time outside maintenance.

## Not modelled, and assumed

Listed with its reason per component in `PROJECT.json`.  In short: compilers and
schemas are functions without an order to get wrong; layout, filters and input
are presentation; the phone hosts need the lifecycle of their system's services
as a model of its own; the unary requests of the controller are data.

- Core: network settings edits, changes of the outbound mode while running and
  the store's destructor; the Android variant of a TUN change.
- Services: the read-only query pipe and access control lists.
- Native: which traffic goes by which session is data of the plan.
- Storage: migrations, which the ORM runs in one transaction;
  `Persistence.close()`, which nothing calls.
- Native: the aliases of a name are followed for three passes, the code's sixteen
  (`vpn_compensation.cpp:909`) in small.
- Feeds: the kernel process's own lines in the log page; polls of the libbox history; that an owner returns is not claimed.
- Application: rule ids the store gives; the panel's usage list;
  `sourceDeletionProtected`; the reuse of profile ids in the list; the pid file's
  number used by another process on macOS.  `stop()`'s read of the child against
  the monitor's reaping is one step.
- Shell: process ids are not used again, the data directory can be written, the
  exit writes its state in one step, and at most one process crashes.  Base64,
  deflate and checksums of the codes are abstract.  A download's temporary
  directory after a crash, a body cut without an announced length (it cannot be
  told from a whole one), failing lookups of the tunnel check and a tunnel that
  appears between the check and the start are outside.  That a load ends is
  assumed of its timeout, and a queued owner may starve behind a stream of
  others.  No request with a limit is without headers of its own
  (`ask.limited`), and two shares whose codes alternate for ever end no scan.

## Plan

Built: the twelve runs above and the proofs.  Next, models of what is left: the hosts on Android, edits of the network settings, and the provider caches' files.

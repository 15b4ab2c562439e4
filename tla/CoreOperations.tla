--------------------------- MODULE CoreOperations ---------------------------
(***************************************************************************)
(* The UI side of the core store (src/src/ui): the one command every entry *)
(* point shares (core_operation.h), the view all pages read                *)
(* (core_model.h), the pump that refreshes it (DriveCoreModel), service    *)
(* maintenance, diagnostics, and the pages that write through it.          *)
(*                                                                         *)
(* All of it runs as coroutines of the UI thread; what they await runs on  *)
(* worker threads.  An action is what happens on one thread between two    *)
(* awaits.                                                                 *)
(*                                                                         *)
(* `world' is what the store would answer now, as version counters: its    *)
(* snapshot and settings (core), the desktop's proxy (proxy), whether the  *)
(* service unit exists.  A command or another program moves it forward;    *)
(* the view shows the versions some read found.                            *)
(*                                                                         *)
(* `revision' and `refreshTick' are counters the code only compares for    *)
(* equality with a value captured before.  They appear as what the         *)
(* comparison answers: `current', the reads that captured the revision the *)
(* model still has; `ticked', whether the tick moved since the pump        *)
(* captured it; `refresh', whether it is not the one the pump last         *)
(* published (before # seenRefresh).                                       *)
(***************************************************************************)
EXTENDS Naturals

CONSTANTS
    Actions,        \* the commands the user gives
    Sources,        \* what else acts: see AllSources
    SlowInterval,   \* kSlowProbeInterval
    MaxCommands,    \* bound: commands
    MaxChanges      \* bound: changes that no command makes

CoreActions == {"Start", "Stop", "Restart", "Connect", "Disconnect", "Mode",
                "SystemProxy", "Tun", "NetworkSettings", "Upgrade"}

\* The pages that write the store without a command, the diagnostics, the two
\* kinds of service maintenance, and everyone outside.
AllSources == {"Edit", "Activate", "Open", "Diagnostics", "Startup", "Service",
               "World"}

ASSUME BoundsAssumption ==
    /\ Actions \subseteq CoreActions
    /\ Sources \subseteq AllSources
    /\ SlowInterval \in Nat
    /\ MaxCommands \in Nat
    /\ MaxChanges \in Nat

VARIABLES
    world,      \* what the store would answer
    view,       \* CoreModel::view
    command,    \* CoreOperations::command, "Idle" for none
    serial,     \* CoreOperations::serial
    task,       \* the application task that owns the command
    read,       \* the reads under way, one slot per reader
    current,    \* readers whose captured revision is still the model's
    refresh,    \* refreshTick # seenRefresh
    ticked,     \* refreshTick moved since the pump captured it
    countdown,  \* slowCountdown
    checking,   \* CoreModel::serviceChecking
    maint,      \* the service maintenance under way
    started,    \* startupServiceMaintenanceStarted
    writer,     \* the page that writes through, and how far it is
    diagnosis,  \* the diagnostics under way, and whether diagnosticsCancel is set
    changes,    \* changes that no command made so far
    done,       \* history: the versions the last finished command left
    asked,      \* history: the proxy when a refresh was last requested
    crossed,    \* history: readers during whose read a command began
    stale       \* history: readers that published such a read

vars == <<world, view, command, serial, task, read, current, refresh, ticked,
          countdown, checking, maint, started, writer, diagnosis, changes,
          done, asked, crossed, stale>>

commandVars == <<command, serial, task, done>>
pumpVars == <<refresh, ticked, countdown, asked>>
maintVars == <<checking, maint, started>>
readVars == <<read, current, crossed, stale>>
pageVars == <<writer, diagnosis, changes>>

Readers == {"pump", "command", "maintenance", "diagnostics", "writer"}

NoRead == [at |-> "none", slow |-> FALSE, core |-> 0, proxy |-> 0,
           installed |-> FALSE]
NoTask == [at |-> "none", ticket |-> 0, window |-> FALSE, again |-> FALSE,
           core |-> 0, proxy |-> 0]
NoMaintenance == [kind |-> "none", at |-> "none", installed |-> FALSE]

Init ==
    /\ world = [core |-> 0, proxy |-> 0, installed |-> FALSE]
    /\ view = [ready |-> FALSE, core |-> 0, proxy |-> 0, installed |-> FALSE]
    /\ command = "Idle"
    /\ serial = 0
    /\ task = NoTask
    /\ read = [r \in Readers |-> NoRead]
    /\ current = {}
    /\ refresh = FALSE
    /\ ticked = FALSE
    /\ countdown = 0
    /\ checking = FALSE
    /\ maint = NoMaintenance
    /\ started = FALSE
    /\ writer = [kind |-> "none", at |-> "none"]
    /\ diagnosis = "none"
    /\ changes = 0
    /\ done = [core |-> 0, proxy |-> 0]
    /\ asked = 0
    /\ crossed = {}
    /\ stale = {}

-----------------------------------------------------------------------------
(* core_operation.h and core_model.h *)

Busy == command # "Idle"

\* Mutant: the maintenance flag is forgotten.
BusyIgnoresMaintenance == ~view.ready \/ Busy

\* CoreControl::Busy: what every command, but no page that writes through,
\* asks first.
ControlBusy == ~view.ready \/ Busy \/ checking

\* diagnosticsCancel.request_stop().
CancelDiagnostics ==
    diagnosis' = IF diagnosis = "running" THEN "cancelled" ELSE diagnosis

\* What a piece of store code may leave behind: nothing, a new snapshot or
\* setting, and with it another desktop proxy.
CoreMoved(w) == [w EXCEPT !.core = @ + 1]
ProxyMoved(w) == [w EXCEPT !.proxy = @ + 1]
Serviced(w, exists) == [w EXCEPT !.installed = exists]

Moved == {world, CoreMoved(world), ProxyMoved(CoreMoved(world))}

Reading ==
    {r \in Readers : IF r = "diagnostics" THEN diagnosis # "none"
                     ELSE read[r].at # "none"}

\* CoreOperations::Begin.  `window': the caller can show a dialog.
Begin(action, window) ==
    /\ ~Busy
    /\ serial < MaxCommands
    /\ command' = action
    /\ serial' = serial + 1
    /\ task' = [at |-> "execute", ticket |-> serial + 1, window |-> window,
                again |-> FALSE, core |-> done.core, proxy |-> done.proxy]
    /\ done' = done

\* CoreOperations::Finish.
Finish ==
    /\ Busy
    /\ task.ticket = serial
    /\ command' = "Idle"
    /\ task' = NoTask
    /\ serial' = serial
    /\ done' = [core |-> task.core, proxy |-> task.proxy]

\* CoreModel::RequestRefresh, its Invalidate apart.
RequestRefresh ==
    /\ refresh' = TRUE
    /\ ticked' = ("pump" \in Reading)
    /\ asked' = world.proxy
    /\ countdown' = countdown

\* Mutant: the revision does not move.
InvalidateNothing == UNCHANGED current

\* CoreOperations::Invalidate, and a reader that captures the revision.
Invalidate == current' = {}
Captures(r) == current' = current \cup {r}

\* Mutant: the revision is not compared.
AcceptsAnyPoll(r) == ~Busy

\* CoreOperations::AcceptsPoll for the revision reader r captured.
AcceptsPoll(r) == ~Busy /\ r \in current

Shown(r) == [ready |-> TRUE, core |-> read[r].core, proxy |-> read[r].proxy,
             installed |-> read[r].installed]

\* The slot of r when its read starts, and when its result is published or not.
Starts(r, slow) ==
    /\ read[r].at = "none"
    /\ read' = [read EXCEPT ![r] = [NoRead EXCEPT !.at = "snapshot", !.slow = slow,
                                    !.proxy = IF slow THEN 0 ELSE view.proxy]]

Publishes(r) ==
    /\ read' = [read EXCEPT ![r] = NoRead]
    /\ stale' = stale \cup (crossed \cap {r})
    /\ crossed' = crossed \ {r}

Drops(r) ==
    /\ read' = [read EXCEPT ![r] = NoRead]
    /\ stale' = stale
    /\ crossed' = crossed \ {r}

-----------------------------------------------------------------------------
(* ReadCoreView on a worker: checkAlive and the snapshot first, the desktop's
   proxy only when slow, else what the view had when the read started. *)

ReadSnapshot(r) ==
    /\ read[r].at = "snapshot"
    /\ read' = [read EXCEPT ![r].core = world.core,
                            ![r].at = IF r = "writer" THEN "done" ELSE "probe"]
    /\ UNCHANGED <<world, view, commandVars, pumpVars, maintVars, pageVars,
                   current, crossed, stale>>

ReadProbe(r) ==
    /\ read[r].at = "probe"
    /\ read' = [read EXCEPT ![r].proxy = IF read[r].slow THEN world.proxy ELSE @,
                            ![r].installed = world.installed,
                            ![r].at = "done"]
    /\ UNCHANGED <<world, view, commandVars, pumpVars, maintVars, pageVars,
                   current, crossed, stale>>

ReadCoreView == \E r \in Readers : ReadSnapshot(r) \/ ReadProbe(r)

-----------------------------------------------------------------------------
(* DriveCoreModel *)

\* Mutant: a requested refresh polls fast.
PumpReadsFast ==
    /\ ~Busy /\ ~checking
    /\ Starts("pump", countdown = 0)
    /\ Captures("pump")
    /\ UNCHANGED <<world, view, commandVars, pumpVars, maintVars, pageVars,
                   crossed, stale>>

PumpReads ==
    /\ ~Busy /\ ~checking
    /\ Starts("pump", countdown = 0 \/ refresh)
    /\ Captures("pump")
    /\ UNCHANGED <<world, view, commandVars, pumpVars, maintVars, pageVars,
                   crossed, stale>>

\* The countdown after a published poll.
NextCountdown ==
    IF read["pump"].slow THEN SlowInterval ELSE countdown - 1

PumpPublishes ==
    /\ read["pump"].at = "done"
    /\ AcceptsPoll("pump")
    /\ view' = Shown("pump")
    /\ Publishes("pump")
    /\ current' = current \ {"pump"}
    /\ refresh' = ticked
    /\ ticked' = FALSE
    /\ countdown' = NextCountdown
    /\ UNCHANGED <<world, commandVars, asked, maintVars, pageVars>>

PumpDrops ==
    /\ read["pump"].at = "done"
    /\ ~AcceptsPoll("pump")
    /\ Drops("pump")
    /\ current' = current \ {"pump"}
    /\ ticked' = FALSE
    /\ UNCHANGED <<world, view, commandVars, refresh, countdown, asked,
                   maintVars, pageVars>>

-----------------------------------------------------------------------------
(* CoreControl::Run, the network settings form and the installation of an
   application update: the three owners of a command *)

\* Run also cancels the diagnostics.
UserCommands(action) ==
    /\ ~ControlBusy
    /\ Begin(action, TRUE)
    /\ crossed' = crossed \cup Reading
    /\ Invalidate
    /\ IF action \in {"NetworkSettings", "Upgrade"} THEN UNCHANGED diagnosis
       ELSE CancelDiagnostics
    /\ UNCHANGED <<world, view, read, stale, pumpVars, maintVars, writer, changes>>

NeedsService == {"Start", "Restart", "Connect"}
ServiceMissing == command \in NeedsService /\ ~world.installed

\* ExecuteCoreCommand refused: no service, or a closed TUN gate.  A caller with
\* a window installs the service when there is none, once.
ExecuteDenied ==
    /\ task.at = "execute"
    /\ ServiceMissing \/ command = "Tun"
    /\ task' = [task EXCEPT !.at = IF task.window /\ ~task.again /\ ~world.installed
                                   THEN "install" ELSE "read"]
    /\ UNCHANGED <<world, view, command, serial, done, readVars, pumpVars,
                   maintVars, pageVars>>

\* What the store did is the task's effect, whether it succeeded or not.
Leaves(t, w) == [t EXCEPT !.core = w.core, !.proxy = w.proxy]

Effect(next, at) ==
    /\ world' = next
    /\ task' = [Leaves(task, next) EXCEPT !.at = at]

\* A disconnect stops the traffic and, when that succeeded, starts the standby
\* kernel; an update stops the core between two flushes and reads nothing back.
AfterExecute ==
    CASE command = "Disconnect" -> {"standby", "read"}
      [] command = "Upgrade"    -> {"settle"}
      [] OTHER                  -> {"read"}

Execute ==
    /\ task.at = "execute"
    /\ ~ServiceMissing
    /\ \E next \in Moved, at \in AfterExecute : Effect(next, at)
    /\ UNCHANGED <<view, command, serial, done, readVars, pumpVars, maintVars,
                   pageVars>>

ExecuteStandby ==
    /\ task.at = "standby"
    /\ \E next \in Moved : Effect(next, "read")
    /\ UNCHANGED <<view, command, serial, done, readVars, pumpVars, maintVars,
                   pageVars>>

\* InstallDesktopServiceAsync for a command, then
\* ResumeCoreCommandAfterServiceInstall: the command runs again only when the
\* installation was confirmed and the old core stopped.
InstallForCommand ==
    /\ task.at = "install"
    /\ \/ /\ task' = [task EXCEPT !.at = "read"]
          /\ UNCHANGED world
       \/ \E next \in Moved, stopped \in BOOLEAN :
            /\ world' = Serviced(next, TRUE)
            /\ task' = [Leaves(task, world') EXCEPT !.again = TRUE,
                            !.at = IF stopped THEN "execute" ELSE "read"]
    /\ UNCHANGED <<view, command, serial, done, readVars, pumpVars, maintVars,
                   pageVars>>

\* Mutant: the view is read beside the command instead of after it.
CommandReadsBeside ==
    /\ task.at \in {"execute", "read"}
    /\ Starts("command", TRUE)
    /\ IF command = "NetworkSettings" THEN UNCHANGED current
       ELSE Captures("command")
    /\ UNCHANGED <<world, view, commandVars, pumpVars, maintVars, pageVars,
                   crossed, stale>>

\* Run captures the revision before it reads; the settings form reads on the
\* worker that saved.
CommandReads ==
    /\ task.at = "read"
    /\ Starts("command", TRUE)
    /\ IF command = "NetworkSettings" THEN UNCHANGED current
       ELSE Captures("command")
    /\ UNCHANGED <<world, view, commandVars, pumpVars, maintVars, pageVars,
                   crossed, stale>>

CommandShows ==
    /\ task.at = "read" /\ command # "NetworkSettings"
    /\ read["command"].at = "done"
    /\ "command" \in current
    /\ view' = Shown("command")
    /\ Publishes("command")
    /\ Invalidate
    /\ task' = [task EXCEPT !.at = "settle"]
    /\ UNCHANGED <<world, command, serial, done, pumpVars, maintVars, pageVars>>

\* The revision moved during the read: read again.
CommandReadsAgain ==
    /\ task.at = "read" /\ command # "NetworkSettings"
    /\ read["command"].at = "done"
    /\ "command" \notin current
    /\ Drops("command")
    /\ UNCHANGED <<world, view, commandVars, current, pumpVars, maintVars,
                   pageVars>>

\* Mutant: the exception leaves the task without its completion.
ReadThrowsThrough ==
    /\ task.at = "read" /\ command # "NetworkSettings"
    /\ read["command"].at \in {"snapshot", "probe"}
    /\ Drops("command")
    /\ current' = current \ {"command"}
    /\ task' = NoTask
    /\ UNCHANGED <<world, view, command, serial, done, pumpVars, maintVars,
                   pageVars>>

\* The read threw: the command has failed and shows nothing.
CommandReadThrows ==
    /\ task.at = "read" /\ command # "NetworkSettings"
    /\ read["command"].at \in {"snapshot", "probe"}
    /\ Drops("command")
    /\ current' = current \ {"command"}
    /\ task' = [task EXCEPT !.at = "settle"]
    /\ UNCHANGED <<world, view, command, serial, done, pumpVars, maintVars,
                   pageVars>>

\* The completion of Run and of an update.
CommandSettles ==
    /\ task.at = "settle"
    /\ Finish
    /\ RequestRefresh
    /\ Invalidate
    /\ UNCHANGED <<world, view, read, crossed, stale, maintVars, pageVars>>

\* The completion of the settings form: it writes its own read through.
SaveSettles ==
    /\ command = "NetworkSettings"
    /\ read["command"].at = "done"
    /\ Finish
    /\ view' = Shown("command")
    /\ Publishes("command")
    /\ Invalidate
    /\ UNCHANGED <<world, pumpVars, maintVars, pageVars>>

SaveThrows ==
    /\ command = "NetworkSettings" /\ task.at = "read"
    /\ read["command"].at # "done"
    /\ Finish
    /\ Drops("command")
    /\ Invalidate
    /\ UNCHANGED <<world, view, pumpVars, maintVars, pageVars>>

CommandStep ==
    \/ ExecuteDenied \/ Execute \/ ExecuteStandby
    \/ CommandReads \/ CommandShows \/ CommandReadsAgain \/ CommandReadThrows
    \/ CommandSettles \/ SaveSettles \/ SaveThrows

-----------------------------------------------------------------------------
(* Service maintenance: at the start of the application, and from the settings
   page.  It holds serviceChecking, never a command. *)

MaintenanceStarts(kind) ==
    /\ ~checking /\ ~Busy
    /\ checking' = TRUE
    /\ maint' = [NoMaintenance EXCEPT !.kind = kind, !.at = "work"]
    /\ UNCHANGED <<world, view, commandVars, pumpVars, readVars, writer,
                   diagnosis>>

StartupMaintenance ==
    /\ "Startup" \in Sources
    /\ ~started
    /\ started' = TRUE
    /\ MaintenanceStarts("startup")
    /\ UNCHANGED changes

ServiceMaintenance(kind) ==
    /\ "Service" \in Sources
    /\ changes < MaxChanges
    /\ changes' = changes + 1
    /\ MaintenanceStarts(kind)
    /\ UNCHANGED started

\* init, releaseStaleOwnedSystemProxy, stopCore, synchronizeService.
StartupWorks ==
    /\ maint.kind = "startup" /\ maint.at = "work"
    /\ world' \in Moved
    /\ maint' = [maint EXCEPT !.at = "read"]
    /\ UNCHANGED <<view, commandVars, pumpVars, readVars, checking, started,
                   pageVars>>

StartupReads ==
    /\ maint.kind = "startup" /\ maint.at = "read"
    /\ Starts("maintenance", TRUE)
    /\ UNCHANGED <<world, view, commandVars, pumpVars, maintVars, pageVars,
                   current, crossed, stale>>

MaintenanceEnds ==
    /\ checking' = FALSE
    /\ maint' = NoMaintenance
    /\ started' = started

\* What Run does at the end of an action of another owner whose own read, if
\* any, is over.
Runs(action, window, owner) ==
    /\ Begin(action, window)
    /\ CancelDiagnostics
    /\ crossed' = crossed \cup (Reading \ {owner})

\* The startup view, then the standby kernel or the saved connection, without
\* a window, unless maintenance failed.
StartupShows ==
    /\ read["maintenance"].at = "done"
    /\ view' = Shown("maintenance")
    /\ read' = [read EXCEPT !["maintenance"] = NoRead]
    /\ Invalidate
    /\ MaintenanceEnds
    /\ RequestRefresh
    /\ \/ UNCHANGED <<commandVars, diagnosis, crossed>>
       \/ \E action \in {"Start", "Connect"} : Runs(action, FALSE, "maintenance")
    /\ UNCHANGED <<world, stale, writer, changes>>

StartupThrows ==
    /\ maint.kind = "startup" /\ maint.at = "read"
    /\ read["maintenance"].at # "done"
    /\ Drops("maintenance")
    /\ Invalidate
    /\ MaintenanceEnds
    /\ RequestRefresh
    /\ UNCHANGED <<world, view, commandVars, pageVars>>

\* The settings page's installation or removal of the service: declined, or
\* done, and then an installation stops the core and prepares it again.
ServiceWorks ==
    /\ maint.kind \in {"install", "uninstall"} /\ maint.at = "work"
    /\ \/ UNCHANGED world
       \/ \E next \in Moved :
            world' = Serviced(next, maint.kind = "install")
    /\ maint' = [maint EXCEPT !.at = "report", !.installed = world'.installed]
    /\ UNCHANGED <<view, commandVars, pumpVars, readVars, checking, started,
                   pageVars>>

ServiceShows ==
    /\ maint.at = "report"
    /\ view' = [view EXCEPT !.installed = maint.installed]
    /\ Invalidate
    /\ MaintenanceEnds
    /\ RequestRefresh
    /\ UNCHANGED <<world, commandVars, read, crossed, stale, pageVars>>

\* Nothing is published, and no refresh requested.
ServiceThrows ==
    /\ maint.at = "report"
    /\ MaintenanceEnds
    /\ UNCHANGED <<world, view, commandVars, pumpVars, readVars, pageVars>>

MaintenanceStep ==
    \/ StartupWorks \/ StartupReads \/ StartupShows \/ StartupThrows
    \/ ServiceShows \/ ServiceThrows

-----------------------------------------------------------------------------
(* The pages that change the store without a command.  "Edit": the rule set
   library and the external resources, which then request a refresh.
   "Activate": a profile is selected, or the global rules saved, and the core
   snapshot taken after it is written through.  "Open": native connections are
   opened, and the core snapshot written through unless a command runs. *)

WriterStarts(kind) ==
    /\ writer.kind = "none"
    /\ changes < MaxChanges
    /\ changes' = changes + 1
    /\ writer' = [kind |-> kind, at |-> "work"]
    /\ UNCHANGED <<world, view, commandVars, pumpVars, maintVars, readVars,
                   diagnosis>>

WriterWorks ==
    /\ writer.at = "work"
    /\ world' \in Moved
    /\ writer' = [writer EXCEPT !.at = "report"]
    /\ UNCHANGED <<view, commandVars, pumpVars, maintVars, readVars, diagnosis,
                   changes>>

WriterEnds == writer' = [kind |-> "none", at |-> "none"]

EditReports ==
    /\ writer = [kind |-> "Edit", at |-> "report"]
    /\ RequestRefresh
    /\ Invalidate
    /\ WriterEnds
    /\ UNCHANGED <<world, view, commandVars, maintVars, read, crossed, stale,
                   diagnosis, changes>>

WriterReads ==
    /\ writer.kind # "Edit" /\ writer.at = "report"
    /\ Starts("writer", TRUE)
    /\ UNCHANGED <<world, view, commandVars, pumpVars, maintVars, pageVars,
                   current, crossed, stale>>

\* The snapshot alone is written through, whatever happened since it was read;
\* opened connections then start a stopped core.
WriterShows ==
    /\ read["writer"].at = "done"
    /\ writer.kind = "Open" => ~ControlBusy
    /\ view' = [view EXCEPT !.core = read["writer"].core]
    /\ read' = [read EXCEPT !["writer"] = NoRead]
    /\ stale' = stale \cup (crossed \cap {"writer"})
    /\ WriterEnds
    /\ Invalidate
    /\ \/ /\ crossed' = crossed \ {"writer"}
          /\ UNCHANGED <<commandVars, diagnosis>>
       \/ writer.kind = "Open" /\ Runs("Connect", TRUE, "writer")
    /\ UNCHANGED <<world, pumpVars, maintVars, changes>>

OpenRequestsRefresh ==
    /\ writer.kind = "Open" /\ read["writer"].at = "done"
    /\ ControlBusy
    /\ Drops("writer")
    /\ WriterEnds
    /\ RequestRefresh
    /\ Invalidate
    /\ UNCHANGED <<world, view, commandVars, maintVars, diagnosis, changes>>

WriterStep ==
    \/ WriterWorks \/ EditReports \/ WriterReads \/ WriterShows
    \/ OpenRequestsRefresh

-----------------------------------------------------------------------------
(* Runtime diagnostics (settings_page.cpp): one worker call, whose findings the
   report shows or replaces by a note that they were superseded *)

DiagnosticsStart ==
    /\ "Diagnostics" \in Sources
    /\ ~ControlBusy
    /\ diagnosis = "none"
    /\ diagnosis' = "running"
    /\ Captures("diagnostics")
    /\ UNCHANGED <<world, view, commandVars, pumpVars, maintVars, writer, changes,
                   read, crossed, stale>>

DiagnosticsCancel ==
    /\ diagnosis = "running"
    /\ diagnosis' = "cancelled"
    /\ UNCHANGED <<world, view, commandVars, pumpVars, maintVars, readVars,
                   writer, changes>>

DiagnosticsEnd ==
    /\ diagnosis # "none"
    /\ diagnosis' = "none"
    /\ current' = current \ {"diagnostics"}
    /\ crossed' = crossed \ {"diagnostics"}
    /\ stale' = IF diagnosis = "running" /\ AcceptsPoll("diagnostics")
                THEN stale \cup (crossed \cap {"diagnostics"}) ELSE stale
    /\ UNCHANGED <<world, view, commandVars, pumpVars, maintVars, writer, changes,
                   read>>

-----------------------------------------------------------------------------
(* Everyone else: the kernel dies, another program takes the proxy, a command
   of the CLI runs in this process, an administrator (un)installs the service.
   Nobody tells the model. *)

WorldMoves ==
    /\ "World" \in Sources
    /\ changes < MaxChanges
    /\ changes' = changes + 1
    /\ world' \in {CoreMoved(world), ProxyMoved(world),
                   Serviced(world, ~world.installed)}
    /\ UNCHANGED <<view, commandVars, pumpVars, maintVars, readVars, writer,
                   diagnosis>>

-----------------------------------------------------------------------------
(* Specification *)

Next ==
    \/ \E action \in Actions : UserCommands(action)
    \/ CommandStep \/ InstallForCommand
    \/ PumpReads \/ PumpPublishes \/ PumpDrops
    \/ ReadCoreView
    \/ StartupMaintenance
    \/ \E kind \in {"install", "uninstall"} : ServiceMaintenance(kind)
    \/ MaintenanceStep \/ ServiceWorks
    \/ \E kind \in Sources \cap {"Edit", "Activate", "Open"} : WriterStarts(kind)
    \/ WriterStep
    \/ DiagnosticsStart \/ DiagnosticsCancel \/ DiagnosticsEnd
    \/ WorldMoves

Spec == Init /\ [][Next]_vars

\* The UI thread and the workers run; whoever asks the user for a password
\* (InstallForCommand, ServiceWorks) may wait for ever.
Fairness ==
    /\ WF_vars(CommandStep)
    /\ WF_vars(PumpReads)
    /\ WF_vars(PumpPublishes \/ PumpDrops)
    /\ \A r \in Readers : WF_vars(ReadSnapshot(r) \/ ReadProbe(r))
    /\ WF_vars(MaintenanceStep)
    /\ WF_vars(WriterStep)

FairSpec == Spec /\ Fairness

-----------------------------------------------------------------------------
(* Properties *)

Worlds == [core : Nat, proxy : Nat, installed : BOOLEAN]
Views == [ready : BOOLEAN, core : Nat, proxy : Nat, installed : BOOLEAN]
Tasks == [at : {"none", "execute", "standby", "install", "read", "settle"},
          ticket : 0..MaxCommands, window : BOOLEAN, again : BOOLEAN,
          core : Nat, proxy : Nat]
Reads == [at : {"none", "snapshot", "probe", "done"}, slow : BOOLEAN,
          core : Nat, proxy : Nat, installed : BOOLEAN]
Maintenances == [kind : {"none", "startup", "install", "uninstall"},
                 at : {"none", "work", "read", "report"}, installed : BOOLEAN]
Writers == [kind : AllSources \cup {"none"}, at : {"none", "work", "report"}]
Effects == [core : Nat, proxy : Nat]

TypeOK ==
    /\ world \in Worlds
    /\ view \in Views
    /\ command \in CoreActions \cup {"Idle"}
    /\ serial \in 0..MaxCommands
    /\ task \in Tasks
    /\ read \in [Readers -> Reads]
    /\ current \subseteq Readers
    /\ refresh \in BOOLEAN
    /\ ticked \in BOOLEAN
    /\ countdown \in 0..SlowInterval
    /\ checking \in BOOLEAN
    /\ maint \in Maintenances
    /\ started \in BOOLEAN
    /\ writer \in Writers
    /\ diagnosis \in {"none", "running", "cancelled"}
    /\ changes \in 0..MaxChanges
    /\ done \in Effects
    /\ asked \in Nat
    /\ crossed \subseteq Readers
    /\ stale \subseteq Readers

\* "A publication revision also rejects reads started before a command"
\* (core_operation.h:24): nothing shown was read, even in part, before a
\* command that began during the read.
NoOvertakenRead == stale = {}

\* The service is never replaced, and the startup cleanup never stops the core,
\* in the middle of a command: the two gates (operations, serviceChecking) are
\* separate flags that each side tests before it sets its own.
MaintenanceExcludesCommands == ~(Busy /\ checking)

\* A requested refresh is over only when the desktop's proxy was asked again: a
\* fast poll carries the old answer over, and a poll that started before the
\* request must not count (core_model.h:109, common.cpp:568).
RefreshReprobes == ~refresh => view.proxy >= asked

\* What the last command whose work is over left.
Left == IF task.at = "settle" THEN [core |-> task.core, proxy |-> task.proxy]
        ELSE done

\* Whatever changes the view once a command's work is over, its own read first,
\* shows what that command left: no poll, retry or maintenance read that is
\* older gets through.
PublishedAfterCommand ==
    [][/\ view'.core # view.core => view'.core >= Left'.core
       /\ view'.proxy # view.proxy => view'.proxy >= Left'.proxy]_vars

\* Only the startup read, which checks no revision, may take the view back.
ViewNeverGoesBack ==
    [][~checking => view'.core >= view.core /\ view'.proxy >= view.proxy]_vars

Prompting ==
    \/ task.at = "install"
    \/ maint.kind \in {"install", "uninstall"} /\ maint.at = "work"

\* The shared gate opens again after every command, whatever failed in it,
\* unless the user leaves the password prompt unanswered.
CommandsFinish == Busy ~> (~Busy \/ Prompting)

\* Without any notice of what changed, the pump brings the view up to the store.
ViewCatchesUp ==
    <>[](Prompting \/ /\ view.core = world.core
                      /\ view.proxy = world.proxy
                      /\ view.installed = world.installed)

\* Every command ends, and the view ends where the store is, whatever failed on the way.
ViewConverges == CommandsFinish /\ ViewCatchesUp

=============================================================================

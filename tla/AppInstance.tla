----------------------------- MODULE AppInstance -----------------------------
(***************************************************************************)
(* One application for every launch (app_instance.cppm, cli_ipc.cppm and   *)
(* the platforms' main.cpp).  A launch that takes the lock owns the        *)
(* application; another wakes the owner's window, or hands its command     *)
(* line to the owner through files and waits for the answer.  An owner     *)
(* that announced its end is put to death and its lock taken over.  Each   *)
(* process is one launch: process identifiers are not used twice, except   *)
(* that an answer to an earlier process of the same number may lie in the  *)
(* directory.  Launches whose directory cannot be opened are left out.     *)
(***************************************************************************)
EXTENDS Integers, FiniteSets

CONSTANTS
    Processes,
    None,           \* no process
    MaxCrashes      \* processes that die of something else

VARIABLES
    platform,       \* "posix" (a lock on a file) or "windows" (a named mutex)
    kind,           \* what was launched: "gui", "link" (a link to import) or "cli"
    phase,          \* how far each process is
    holders,        \* processes that hold the lock (windows: a handle of the mutex)
    file,           \* the lock file: whose it is and whether that process is closing
    seen,           \* what a process that found the lock taken read there
    wakeable,       \* processes that take activations
    woken,          \* activations not yet consumed
    stale,          \* request and response files older than the process
    request,        \* clients whose request file exists
    response,       \* the response files: "none", "partial" or "whole"
    batch, serving, \* the requests an owner has listed, and the one it executes
    answered,       \* the executed one's footer is written, its request still there
    runs,           \* how often each launch's command was executed to its end
    broken,         \* how often an owner died while it executed that command
    outcome,        \* what each launch reported: "none", "done" or "failed"
    unsaved, saved, \* commands whose effects are in memory, and in the database
    late,           \* commands that ended after the exit had written the settings
    crashes

vars == <<platform, kind, phase, holders, file, seen, wakeable, woken, stale, request, response, batch,
          serving, answered, runs, broken, outcome, unsaved, saved, late, crashes>>

Blank == [pid |-> None, state |-> "running"]

\* An owner past acquireOrActivate, and one whose task serves requests.
Owning == {"install", "hydrate", "command", "flush", "own", "marking", "closing", "flushed"}
Serving == {"own", "marking", "closing", "flushed"}
Alive(p) == phase[p] \notin {"off", "left", "dead"}
Owner(p) == phase[p] \in Owning

files == <<request, response>>
service == <<batch, serving, answered>>
results == <<runs, broken, outcome, unsaved, saved, late>>
lock == <<holders, file, wakeable, woken>>

TypeOK ==
    /\ platform \in {"posix", "windows"}
    /\ kind \in [Processes -> {"gui", "link", "cli"}]
    /\ phase \in [Processes -> {"off", "start", "look", "evict", "retry", "notify", "claim", "send",
                                "wait", "left", "dead"} \cup Owning]
    /\ holders \subseteq Processes
    /\ file \in [pid : Processes \cup {None}, state : {"running", "closing"}]
    /\ seen \in [Processes -> [pid : Processes \cup {None}, state : {"running", "closing"}]]
    /\ wakeable \subseteq Processes /\ woken \subseteq wakeable
    /\ stale \in [Processes -> SUBSET ({"request", "response"} \X Processes)]
    /\ request \subseteq Processes /\ response \in [Processes -> {"none", "partial", "whole"}]
    /\ batch \subseteq Processes /\ serving \in Processes \cup {None} /\ answered \in BOOLEAN
    /\ runs \in [Processes -> Nat] /\ broken \in [Processes -> Nat]
    /\ outcome \in [Processes -> {"none", "done", "failed"}]
    /\ unsaved \subseteq Processes /\ saved \subseteq Processes /\ late \subseteq Processes
    /\ crashes \in 0 .. MaxCrashes

\* The directory may hold an answer to an earlier process of the same number.
Init ==
    /\ platform \in {"posix", "windows"}
    /\ kind \in [Processes -> {"gui", "link", "cli"}]
    /\ phase = [p \in Processes |-> "off"]
    /\ holders = {} /\ file = Blank /\ seen = [p \in Processes |-> Blank]
    /\ wakeable = {} /\ woken = {} /\ stale = [p \in Processes |-> {}]
    /\ request = {} /\ response \in [Processes -> {"none", "whole"}]
    /\ batch = {} /\ serving = None /\ answered = FALSE
    /\ runs = [p \in Processes |-> 0] /\ broken = [p \in Processes |-> 0]
    /\ outcome = [p \in Processes |-> "none"]
    /\ unsaved = {} /\ saved = {} /\ late = {} /\ crashes = 0

\* A file that is written again is no longer older than anybody.
Rewritten(what, c) == stale' = [q \in Processes |-> stale[q] \ {<<what, c>>}]
Forget(p) == seen' = [seen EXCEPT ![p] = Blank]
Goto(p, to) == phase' = [phase EXCEPT ![p] = to]

-----------------------------------------------------------------------------
\* What ends with a process: its lock, its handlers and, when it is the owner, the command
\* it executes and the effects it has not written. Its files stay.
Gone(p) ==
    /\ holders' = holders \ {p}
    /\ wakeable' = wakeable \ {p} /\ woken' = woken \ {p}
    /\ IF Owner(p)
       THEN /\ batch' = {} /\ serving' = None /\ answered' = FALSE /\ unsaved' = {}
            /\ broken' = IF serving # None THEN [broken EXCEPT ![serving] = @ + 1] ELSE broken
       ELSE UNCHANGED <<batch, serving, answered, unsaved, broken>>

Die(p, q, to) ==
    /\ phase' = [phase EXCEPT ![p] = "dead", ![q] = to]
    /\ Gone(p)
    /\ UNCHANGED <<platform, kind, file, stale, files, runs, outcome, saved, late>>

Crash(p) ==
    /\ Alive(p) /\ crashes < MaxCrashes
    /\ Die(p, p, "dead")
    /\ crashes' = crashes + 1 /\ UNCHANGED seen

-----------------------------------------------------------------------------
\* acquireOrActivate, from the first try for the lock.
Launch(p) ==
    /\ phase[p] = "off"
    /\ Goto(p, "start")
    /\ stale' = [stale EXCEPT ![p] = {"request"} \X request
                                  \cup {"response"} \X {c \in Processes : response[c] # "none"}]
    /\ UNCHANGED <<platform, kind, lock, seen, files, service, results, crashes>>

TakeLock(p) ==
    /\ holders' = {p}
    /\ wakeable' = IF platform = "windows" THEN wakeable \cup {p} ELSE wakeable
    /\ Goto(p, "claim")
    /\ UNCHANGED <<platform, kind, file, seen, woken, stale, files, service, results, crashes>>

\* On windows opening the mutex leaves a handle, which keeps its name taken.
Keep(p) == IF platform = "windows" THEN holders \cup {p} ELSE holders

Probe(p) ==
    /\ phase[p] = "start"
    /\ IF holders = {} THEN TakeLock(p)
       ELSE /\ holders' = Keep(p)
            /\ Goto(p, "look")
            /\ UNCHANGED <<platform, kind, file, seen, wakeable, woken, stale, files, service, results,
                           crashes>>

\* A reader may find the file truncated while its owner rewrites it.
Look(p) ==
    /\ phase[p] = "look"
    /\ \E info \in {file} \cup {Blank : q \in {r \in Processes : phase[r] \in {"claim", "marking"}}} :
           /\ seen' = [seen EXCEPT ![p] = info]
           /\ Goto(p, IF info.pid # None /\ info.state = "closing" THEN "evict" ELSE "notify")
    /\ UNCHANGED <<platform, kind, lock, stale, files, service, results, crashes>>

\* terminateOldProcess: the process the file names is ended, if it still runs.
Evict(p) ==
    LET old == seen[p].pid IN
    /\ phase[p] = "evict"
    /\ IF Alive(old) THEN Die(old, p, "retry") /\ UNCHANGED <<seen, crashes>>
       ELSE /\ Goto(p, "retry")
            /\ holders' = holders \ {p}
            /\ UNCHANGED <<platform, kind, file, seen, wakeable, woken, stale, files, service, results,
                           crashes>>

\* Twenty tries. On windows each leaves a handle until just before the next.
Retry(p) ==
    /\ phase[p] = "retry"
    /\ IF holders \ {p} = {} THEN TakeLock(p)
       ELSE /\ holders' = Keep(p)
            /\ UNCHANGED <<platform, kind, phase, file, seen, wakeable, woken, stale, files, service,
                           results, crashes>>

GiveUp(p) ==
    /\ phase[p] = "retry" /\ holders \ {p} # {}
    /\ Goto(p, "notify")
    /\ UNCHANGED <<platform, kind, lock, seen, stale, files, service, results, crashes>>

\* Wake the owner, unless the launch was of a command, and go on: a window has nothing more
\* to do. A signal ends a process that has not installed its handler.
Notify(p) ==
    LET old == seen[p].pid
        next == IF kind[p] = "gui" THEN "left" ELSE "send"
        activate == kind[p] # "cli"
        others == IF platform = "windows" THEN wakeable ELSE wakeable \cap {old} IN
    /\ phase[p] = "notify"
    /\ IF activate /\ platform = "posix" /\ old # None /\ old \notin wakeable /\ Alive(old)
       THEN Die(old, p, next) /\ Forget(p) /\ UNCHANGED crashes
       ELSE /\ holders' = IF platform = "windows" THEN holders \ {p} ELSE holders
            /\ woken' = IF activate THEN woken \cup others ELSE woken
            /\ Goto(p, next) /\ Forget(p)
            /\ UNCHANGED <<platform, kind, file, wakeable, stale, files, service, results, crashes>>

\* The new owner writes its name, then takes activations.
Claim(p) ==
    /\ phase[p] = "claim"
    /\ file' = [pid |-> p, state |-> "running"]
    /\ Goto(p, "install")
    /\ UNCHANGED <<platform, kind, holders, wakeable, woken, seen, stale, files, service, results, crashes>>

Install(p) ==
    /\ phase[p] = "install"
    /\ wakeable' = wakeable \cup {p}
    /\ Goto(p, "hydrate")
    /\ UNCHANGED <<platform, kind, holders, file, woken, seen, stale, files, service, results, crashes>>

-----------------------------------------------------------------------------
\* StartDesktopWindowlessRuntime. startCommandServer removes what is older than the process.
Hydrate(p) ==
    /\ phase[p] = "hydrate"
    /\ request' = {c \in request : <<"request", c>> \notin stale[p]}
    /\ response' = [c \in Processes |-> IF <<"response", c>> \in stale[p] THEN "none" ELSE response[c]]
    /\ Goto(p, IF kind[p] = "cli" THEN "command" ELSE "own")
    /\ stale' = [stale EXCEPT ![p] = {}]
    /\ UNCHANGED <<platform, kind, lock, seen, service, results, crashes>>

\* RunPendingCliCommand: the launch's own command, then its settings, then the end. This
\* owner serves nobody.
Command(p) ==
    /\ phase[p] = "command"
    /\ runs' = [runs EXCEPT ![p] = @ + 1]
    /\ unsaved' = unsaved \cup {p}
    /\ Goto(p, "flush")
    /\ UNCHANGED <<platform, kind, lock, seen, stale, files, service, broken, outcome, saved, late, crashes>>

FinishCommand(p) ==
    /\ phase[p] = "flush"
    /\ saved' = saved \cup unsaved
    /\ outcome' = [outcome EXCEPT ![p] = "done"]
    /\ Goto(p, "left") /\ Gone(p)
    /\ UNCHANGED <<platform, kind, file, seen, stale, files, runs, late, crashes>>

\* The task that looks every quarter of a second shows the window.
Consume(p) ==
    /\ phase[p] = "own" /\ p \in woken
    /\ woken' = woken \ {p}
    /\ UNCHANGED <<platform, kind, phase, holders, file, wakeable, seen, stale, files, service, results,
                   crashes>>

\* The pump writes what the commands changed.
Flush(p) ==
    /\ phase[p] \in Serving /\ unsaved # {}
    /\ saved' = saved \cup unsaved /\ unsaved' = {}
    /\ UNCHANGED <<platform, kind, phase, lock, seen, stale, files, service, runs, broken, outcome, late,
                   crashes>>

\* RequestExit, and the task it starts.
Exit(p) ==
    /\ phase[p] = "own"
    /\ Goto(p, "marking")
    /\ UNCHANGED <<platform, kind, lock, seen, stale, files, service, results, crashes>>

MarkClosing(p) ==
    /\ phase[p] = "marking"
    /\ file' = [pid |-> p, state |-> "closing"]
    /\ Goto(p, "closing")
    /\ UNCHANGED <<platform, kind, holders, wakeable, woken, seen, stale, files, service, results, crashes>>

ExitFlush(p) ==
    /\ phase[p] = "closing"
    /\ saved' = saved \cup unsaved /\ unsaved' = {}
    /\ Goto(p, "flushed")
    /\ UNCHANGED <<platform, kind, lock, seen, stale, files, service, runs, broken, outcome, late, crashes>>

Quit(p) ==
    /\ phase[p] = "flushed"
    /\ Goto(p, "left") /\ Gone(p)
    /\ UNCHANGED <<platform, kind, file, seen, stale, files, runs, outcome, saved, late, crashes>>

-----------------------------------------------------------------------------
\* servePendingCommands, one at a time (the mutex): list the requests, then execute each
\* that can still be read, its output in the response file, with the exit code at the end.
Scan(p) ==
    /\ phase[p] \in Serving /\ serving = None /\ batch = {} /\ request # {}
    /\ batch' = request
    /\ UNCHANGED <<platform, kind, phase, lock, seen, stale, files, serving, answered, results, crashes>>

Begin(p, c) ==
    /\ phase[p] \in Serving /\ serving = None /\ c \in batch
    /\ IF c \in request
       THEN /\ serving' = c /\ response' = [response EXCEPT ![c] = "partial"]
            /\ Rewritten("response", c)
            /\ UNCHANGED batch
       ELSE batch' = batch \ {c} /\ UNCHANGED <<serving, response, stale>>
    /\ UNCHANGED <<platform, kind, phase, lock, seen, request, answered, results, crashes>>

WriteFooter(p) ==
    /\ phase[p] \in Serving /\ serving # None /\ ~answered
    /\ answered' = TRUE
    /\ response' = [response EXCEPT ![serving] = "whole"] /\ Rewritten("response", serving)
    /\ runs' = [runs EXCEPT ![serving] = @ + 1]
    /\ unsaved' = unsaved \cup {serving}
    /\ late' = IF phase[p] = "flushed" THEN late \cup {serving} ELSE late
    /\ UNCHANGED <<platform, kind, phase, lock, seen, request, batch, serving, broken, outcome, saved,
                   crashes>>

RemoveRequest(p) ==
    /\ phase[p] \in Serving /\ answered
    /\ request' = request \ {serving}
    /\ batch' = batch \ {serving} /\ serving' = None /\ answered' = FALSE
    /\ UNCHANGED <<platform, kind, phase, lock, seen, stale, response, results, crashes>>

-----------------------------------------------------------------------------
\* Mutant: the answer of an earlier process of the number is left.
SendKeepsAnswer(c) ==
    /\ phase[c] = "send"
    /\ request' = request \cup {c}
    /\ stale' = [q \in Processes |-> IF q = c THEN {} ELSE stale[q] \ ({"request", "response"} \X {c})]
    /\ Goto(c, "wait")
    /\ UNCHANGED <<platform, kind, lock, seen, response, service, results, crashes>>

\* tryForwardCommand. The wait ends with the answer or after a minute.
Send(c) ==
    /\ phase[c] = "send"
    /\ response' = [response EXCEPT ![c] = "none"]
    /\ request' = request \cup {c}
    /\ stale' = [q \in Processes |-> IF q = c THEN {} ELSE stale[q] \ ({"request", "response"} \X {c})]
    /\ Goto(c, "wait")
    /\ UNCHANGED <<platform, kind, lock, seen, service, results, crashes>>

LeaveWith(c, what) ==
    /\ outcome' = [outcome EXCEPT ![c] = what]
    /\ request' = request \ {c} /\ response' = [response EXCEPT ![c] = "none"]
    /\ Goto(c, "left")
    /\ UNCHANGED <<platform, kind, lock, seen, stale, service, runs, broken, unsaved, saved, late, crashes>>

Collect(c) ==
    /\ phase[c] = "wait" /\ response[c] = "whole"
    /\ LeaveWith(c, "done")

GiveUpWaiting(c) ==
    /\ phase[c] = "wait" /\ response[c] # "whole"
    /\ LeaveWith(c, "failed")

Next ==
    \E p \in Processes :
        \/ Launch(p) \/ Probe(p) \/ Look(p) \/ Evict(p) \/ Retry(p) \/ GiveUp(p) \/ Notify(p)
        \/ Claim(p) \/ Install(p) \/ Hydrate(p) \/ Command(p) \/ FinishCommand(p) \/ Consume(p)
        \/ Flush(p) \/ Exit(p) \/ MarkClosing(p) \/ ExitFlush(p) \/ Quit(p)
        \/ Scan(p) \/ (\E c \in Processes : Begin(p, c)) \/ WriteFooter(p) \/ RemoveRequest(p)
        \/ Send(p) \/ Collect(p) \/ GiveUpWaiting(p) \/ Crash(p)

Spec == Init /\ [][Next]_vars

-----------------------------------------------------------------------------
\* One owner, and what it announces is its own: no launch ends up beside another, and the
\* file names the process that holds the lock as soon as that process has written it.
OneOwner ==
    \A p \in Processes : Owner(p) =>
        /\ p \in holders /\ file.pid = p
        /\ file.state = "closing" <=> phase[p] \in {"closing", "flushed"}
        /\ \A q \in Processes : Owner(q) \/ phase[q] = "claim" => q = p

\* A take-over ends only a process that announced its end: what a launch read of an earlier
\* owner never costs a later one its life.
EvictsOnlyClosing ==
    [][\A p \in Processes :
           phase[p] = "evict" /\ phase'[p] = "retry" =>
               \A q \in Processes \ {p} : phase'[q] = phase[q] \/ phase[q] \in {"closing", "flushed"}]_vars

\* A launch reports success only of its own command, executed to its end: an answer left by
\* an earlier process, or one cut off by the owner's death, is never taken for it.
ReportedRan == \A p \in Processes : outcome[p] = "done" => runs[p] > 0

\* A command runs once; twice only when an owner died over it.
RunsOnce == \A p \in Processes : runs[p] <= 1 + broken[p]

\* What was reported is kept: an owner that left by itself had written the effects of every
\* command it answered, but for those that ended after its exit had written the settings.
ReportedIsSaved ==
    (\A p \in Processes : phase[p] # "dead") =>
        \A p \in Processes : outcome[p] = "done" => p \in saved \cup unsaved \cup late

\* Not so: a launch that finds an owner leaves the owner running. A signal that arrives
\* between the owner's name in the file and its handler ends it.
LaunchesOnlyWake ==
    [][\A p \in Processes :
           phase[p] = "notify" /\ phase'[p] # "notify" =>
               \A q \in Processes \ {p} : phase'[q] = phase[q]]_vars

\* Not so: of the launches that take over, one owns. On windows two of them keep finding
\* each other's handles and both give up.
TakeoverHasWinner ==
    [][\A p \in Processes :
           phase[p] = "retry" /\ phase'[p] = "notify" =>
               \E q \in Processes \ {p} : Owner(q) \/ phase[q] = "claim"]_vars
==============================================================================

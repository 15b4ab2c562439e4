------------------------------ MODULE MCServices ------------------------------
(***************************************************************************)
(* Both privileged services for TLC, one at a time: `subject' says which   *)
(* of them this behaviour is about, the other keeps its initial state.     *)
(***************************************************************************)
EXTENDS Integers, Sequences, FiniteSets

CONSTANTS Clients, Configs, None, Torn, Backlog, MaxCalls, MaxCrashes, MaxKills, MaxInstalls

ASSUME BoundsAreNumbers == {Backlog, MaxCalls, MaxCrashes, MaxKills, MaxInstalls} \subseteq Nat

VARIABLES
    subject,
    daemon, exitCode, version, disk, restart, backlog, serving, at, child, live, spawned, client,
    calls, crashes, said,
    wsvc, wenabled, wdirs, wlock, wproc, whandle, wserving, wat, wheld, wlive, wcalls, wcrashes,
    wkills, winstalls, waborted, wsaid

Linux == INSTANCE ServiceDaemon
Windows == INSTANCE WindowsService WITH
    svc <- wsvc, enabled <- wenabled, dirs <- wdirs, lock <- wlock, proc <- wproc,
    handle <- whandle, serving <- wserving, at <- wat, held <- wheld, live <- wlive,
    calls <- wcalls, crashes <- wcrashes, kills <- wkills, installs <- winstalls,
    aborted <- waborted, said <- wsaid

ASSUME NoneIsNothing ==
    /\ None \notin Nat \cup Configs \cup Linux!Connection \cup Windows!Command
    /\ None \notin Windows!Versions \cup Windows!Procs \cup {"service"}
ASSUME TornIsNoVersion == Torn \notin Windows!Versions \cup {None}

linux == <<daemon, exitCode, version, disk, restart, backlog, serving, at, child, live, spawned,
           client, calls, crashes, said>>
windows == <<wsvc, wenabled, wdirs, wlock, wproc, whandle, wserving, wat, wheld, wlive, wcalls,
             wcrashes, wkills, winstalls, waborted, wsaid>>
vars == <<subject, linux, windows>>

Init == subject \in {"linux", "windows"} /\ Linux!Init /\ Windows!Init

Next ==
    /\ UNCHANGED subject
    /\ \/ subject = "linux" /\ Linux!Next /\ UNCHANGED windows
       \/ subject = "windows" /\ Windows!Next /\ UNCHANGED linux

Spec ==
    /\ Init /\ [][Next]_vars
    /\ WF_vars(subject = "linux" /\ Linux!Daemon /\ UNCHANGED <<subject, windows>>)
    /\ WF_vars(subject = "linux" /\ Linux!RestartOnFailure /\ UNCHANGED <<subject, windows>>)
    /\ WF_vars(/\ subject = "linux" /\ daemon = "down"
               /\ \E k \in DOMAIN live : Linux!KernelExits(k)
               /\ UNCHANGED <<subject, windows>>)
    /\ WF_vars(subject = "windows" /\ Windows!Thread /\ UNCHANGED <<subject, linux>>)

(***************************************************************************)
(* What each part promises, in one formula: its named parts are stated and *)
(* explained in the module of the component.                               *)
(***************************************************************************)

\* The Linux daemon never loses sight of a kernel: while it runs, the only kernel
\* that can be alive is the one it holds, after failed stops, reaped children and
\* restarts. Whatever fails in the installation of the Windows service, and whoever else
\* installs, no half-copied payload is registered, the service has one to start from, it is
\* not left disabled, and no kernel runs that the service does not hold.
ServicesAreSafe ==
    /\ Linux!TypeOK
    /\ Linux!LiveKernelIsOwned
    /\ Windows!TypeOK
    /\ Windows!InstallsWholePayload
    /\ Windows!RegisteredHasPayload
    /\ Windows!NeverLeftDisabled
    /\ Windows!KernelIsHeld

\* Over the socket the daemon is a kernel service whose answers are true when given,
\* that no abandoned command overtakes, that answers whatever the kernel does, and
\* that an upgrade replaces by the new version.
DaemonKeepsContract ==
    /\ Linux!KeepsContract
    /\ Linux!AnswersAreTrue
    /\ Linux!AbandonedCannotOvertake
    /\ Linux!ServedIsAnswered
    /\ Linux!UpgradeTakesOver

\* Over the pipe the Windows service keeps the same contract: a stop is only confirmed
\* when nothing runs, and a service that is asked to stop does, installer or not.
ServiceKeepsContract ==
    /\ Windows!KeepsContract
    /\ Windows!StopIsTrue
    /\ Windows!StopCompletes
===============================================================================

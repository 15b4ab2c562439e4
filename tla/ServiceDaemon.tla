---------------------------- MODULE ServiceDaemon ----------------------------
(***************************************************************************)
(* The Linux root service: the loop of service_daemon.inc, the child it    *)
(* supervises, the client of service_client.inc, and systemd around it.    *)
(*                                                                         *)
(* Clients send one command per connection.  Connections wait in the       *)
(* listen backlog; the loop serves one at a time.  A client stops waiting  *)
(* after its receive timeout, but its connection stays where it is.        *)
(***************************************************************************)
EXTENDS Integers, Sequences, FiniteSets

CONSTANTS
    Clients,    \* processes that talk to the service: the GUI, a CLI
    Configs,    \* configuration files a START can name
    None,
    Backlog,    \* bound: connections the socket holds (listen(fd, 8))
    MaxCalls,   \* bound: commands a client sends
    MaxCrashes  \* bound: crashes of the daemon and stops of its unit

VARIABLES
    daemon,     \* "up", "ending" (loop left), "down" (process gone)
    exitCode,   \* what the last exit returned: 0, 75, or 1 for a crash
    version,    \* the version of the running (or last) daemon process
    disk,       \* the version of the installed binary
    restart,    \* restartRequested
    backlog,    \* connections, oldest first: the client, its call, the command
    serving,    \* the connection being served, or None
    at,         \* where the loop is in that command
    child,      \* childPid: None, or the number of a kernel
    live,       \* kernels that run, by number: number -> config
    spawned,    \* kernels started so far
    client,     \* per client: "idle" or "waiting"
    calls,      \* per client: commands sent
    crashes,    \* crashes of the daemon and stops of its unit
    said        \* the answer given by the last step, or None

loopVars == <<serving, at, child>>
vars == <<daemon, exitCode, version, disk, restart, backlog, serving, at, child,
          live, spawned, client, calls, crashes, said>>

Ops == {"START", "STOP", "STATUS", "UPGRADE"}
Connection == [client : Clients, call : 1..MaxCalls, op : Ops, config : Configs \cup {None}]

TypeOK ==
    /\ daemon \in {"up", "ending", "down"} /\ exitCode \in {0, 1, 75}
    /\ version \in {"old", "new"} /\ disk \in {"old", "new"}
    /\ restart \in BOOLEAN
    /\ backlog \in Seq(Connection) /\ serving \in Connection \cup {None}
    /\ at \in {"poll", "read", "term", "kill", "spawn", "started", "routes"}
    /\ child \in Nat \cup {None} /\ spawned \in Nat
    /\ DOMAIN live \subseteq 1..spawned /\ \A k \in DOMAIN live : live[k] \in Configs
    /\ client \in [Clients -> {"idle", "waiting"}]
    /\ calls \in [Clients -> 0..MaxCalls] /\ crashes \in 0..MaxCrashes
    /\ said \in [to : Connection, ok : BOOLEAN] \cup {None}

Init ==
    /\ daemon = "up" /\ exitCode = 0 /\ version = "old" /\ disk = "old"
    /\ restart = FALSE /\ backlog = <<>> /\ serving = None /\ at = "poll"
    /\ child = None /\ live = <<>> /\ spawned = 0
    /\ client = [c \in Clients |-> "idle"] /\ calls = [c \in Clients |-> 0]
    /\ crashes = 0 /\ said = None

Without(k) == [j \in DOMAIN live \ {k} |-> live[j]]

(***************************************************************************)
(* Clients.                                                                *)
(***************************************************************************)

\* request: connect, send one line.  Without a listener the client fails at once.
\* ensureCompatible sends UPGRADE only to a daemon of another version.
Call(c, op, config) ==
    /\ client[c] = "idle" /\ calls[c] < MaxCalls
    /\ daemon # "down" /\ Len(backlog) < Backlog
    /\ (op = "START") = (config # None)
    /\ op = "UPGRADE" => version = "old"
    /\ backlog' = Append(backlog, [client |-> c, call |-> calls[c] + 1, op |-> op, config |-> config])
    /\ client' = [client EXCEPT ![c] = "waiting"]
    /\ calls' = [calls EXCEPT ![c] = @ + 1]
    /\ said' = None
    /\ UNCHANGED <<daemon, exitCode, version, disk, restart, loopVars, live, spawned, crashes>>

\* SO_RCVTIMEO: the client closes its end and moves on; the daemon never looks.
GiveUp(c) ==
    /\ client[c] = "waiting"
    /\ client' = [client EXCEPT ![c] = "idle"]
    /\ said' = None
    /\ UNCHANGED <<daemon, exitCode, version, disk, restart, backlog, loopVars, live, spawned,
                   calls, crashes>>

(***************************************************************************)
(* The loop.                                                               *)
(***************************************************************************)

\* reapChildren: waitpid(childPid, WNOHANG).
Reaped == IF child \in DOMAIN live THEN child ELSE None

\* poll with a timeout of 200 ms: a SIGCHLD seen is reaped there.
Reap ==
    /\ daemon = "up" /\ at = "poll" /\ child # Reaped
    /\ child' = Reaped /\ said' = None
    /\ UNCHANGED <<daemon, exitCode, version, disk, restart, backlog, serving, at, live, spawned,
                   client, calls, crashes>>

\* Mutant: the newest connection is served first.
ServeNewest ==
    /\ daemon = "up" /\ at = "poll" /\ ~restart /\ backlog # <<>>
    /\ serving' = backlog[Len(backlog)] /\ backlog' = SubSeq(backlog, 1, Len(backlog) - 1)
    /\ child' = IF serving'.op = "UPGRADE" THEN child ELSE Reaped
    /\ at' = "read" /\ said' = None
    /\ UNCHANGED <<daemon, exitCode, version, disk, restart, live, spawned, client, calls, crashes>>

\* accept and read one command; START and STOP reap before they act.
Serve ==
    /\ daemon = "up" /\ at = "poll" /\ ~restart /\ backlog # <<>>
    /\ serving' = Head(backlog) /\ backlog' = Tail(backlog)
    /\ child' = IF Head(backlog).op \in {"START", "STOP", "STATUS"} THEN Reaped ELSE child
    /\ at' = "read" /\ said' = None
    /\ UNCHANGED <<daemon, exitCode, version, disk, restart, live, spawned, client, calls, crashes>>

\* replyLine, then the connection is closed and the loop polls again.
Reply(ok) ==
    /\ said' = [to |-> serving, ok |-> ok]
    /\ client' = IF calls[serving.client] = serving.call
                 THEN [client EXCEPT ![serving.client] = "idle"] ELSE client
    /\ serving' = None /\ at' = "poll"

\* STATUS: "RUNNING pid" is said as ok, "STOPPED" as not ok.
ServeStatus ==
    /\ at = "read" /\ serving.op = "STATUS"
    /\ Reply(child # None)
    /\ UNCHANGED <<daemon, exitCode, version, disk, restart, backlog, child, live, spawned, calls,
                   crashes>>

\* UPGRADE: copy the client's payload over the installed one, write the unit,
\* reload systemd; any of them may fail, with or without the file replaced.
ServeUpgrade(copied, ok) ==
    /\ at = "read" /\ serving.op = "UPGRADE" /\ (ok => copied)
    /\ disk' = IF copied THEN "new" ELSE disk
    /\ restart' = ok
    /\ Reply(ok)
    /\ UNCHANGED <<daemon, exitCode, version, backlog, child, live, spawned, calls, crashes>>

\* validConfigPath and serviceEngine refuse a START before anything is stopped.
RefuseStart ==
    /\ at = "read" /\ serving.op = "START"
    /\ Reply(FALSE)
    /\ UNCHANGED <<daemon, exitCode, version, disk, restart, backlog, child, live, spawned, calls,
                   crashes>>

\* START and STOP: stopEngine sends SIGTERM if there is a child.
BeginStop ==
    /\ at = "read" /\ serving.op \in {"START", "STOP"}
    /\ at' = IF child # None THEN "term" ELSE IF serving.op = "START" THEN "spawn" ELSE "routes"
    /\ said' = None
    /\ UNCHANGED <<daemon, exitCode, version, disk, restart, backlog, serving, child, live, spawned,
                   client, calls, crashes>>

\* waitpid sees the exit: the pid is released.
ConfirmExit ==
    /\ at \in {"term", "kill"} /\ child \notin DOMAIN live
    /\ child' = None
    /\ at' = IF daemon = "ending" THEN "poll" ELSE IF serving.op = "START" THEN "spawn" ELSE "routes"
    /\ said' = None
    /\ UNCHANGED <<daemon, exitCode, version, disk, restart, backlog, serving, live, spawned, client,
                   calls, crashes>>

\* Two seconds of grace, then SIGKILL.
Escalate ==
    /\ at = "term"
    /\ at' = "kill" /\ said' = None
    /\ UNCHANGED <<daemon, exitCode, version, disk, restart, backlog, serving, child, live, spawned,
                   client, calls, crashes>>

StopForgets ==
    /\ daemon = "up" /\ at = "kill" /\ child' = None
    /\ Reply(FALSE)
    /\ UNCHANGED <<daemon, exitCode, version, disk, restart, backlog, live, spawned, calls, crashes>>

\* Two more seconds: "the kernel has not exited after SIGKILL".  The pid is
\* kept for a later attempt and the command is answered with an error.
StopFails ==
    /\ daemon = "up" /\ at = "kill"
    /\ Reply(FALSE)
    /\ UNCHANGED <<daemon, exitCode, version, disk, restart, backlog, child, live, spawned, calls,
                   crashes>>

\* STOP then sweeps the managed routes; a sweep that fails makes it an error.
SweepRoutes(swept) ==
    /\ at = "routes"
    /\ Reply(swept)
    /\ UNCHANGED <<daemon, exitCode, version, disk, restart, backlog, child, live, spawned, calls,
                   crashes>>

\* spawnEngine: fork and exec; fork may fail.
Spawn ==
    /\ at = "spawn"
    /\ spawned' = spawned + 1 /\ child' = spawned + 1
    /\ live' = [k \in DOMAIN live \cup {spawned + 1} |->
                    IF k = spawned + 1 THEN serving.config ELSE live[k]]
    /\ at' = "started" /\ said' = None
    /\ UNCHANGED <<daemon, exitCode, version, disk, restart, backlog, serving, client, calls,
                   crashes>>

AnswerStart ==
    /\ at \in {"spawn", "started"}
    /\ Reply(at = "started")
    /\ UNCHANGED <<daemon, exitCode, version, disk, restart, backlog, child, live, spawned, calls,
                   crashes>>

\* The loop ends after an UPGRADE was answered, or on SIGTERM.
Quit ==
    /\ daemon = "up" /\ at = "poll" /\ (restart \/ crashes < MaxCrashes)
    /\ crashes' = IF restart THEN crashes ELSE crashes + 1
    /\ daemon' = "ending"
    /\ child' = Reaped /\ at' = IF Reaped # None THEN "term" ELSE "poll"
    /\ said' = None
    /\ UNCHANGED <<exitCode, version, disk, restart, backlog, serving, live, spawned, client, calls>>

\* PrivilegedPptpShutdown, unlink, return: 75 after an UPGRADE, else 0.  What was
\* queued is reset.  A kernel that survived both signals is left to systemd.
Exit ==
    /\ daemon = "ending" /\ at \in {"poll", "kill"}
    /\ daemon' = "down" /\ exitCode' = IF restart THEN 75 ELSE 0
    /\ backlog' = <<>> /\ serving' = None /\ at' = "poll" /\ child' = None
    /\ said' = None
    /\ client' = [c \in Clients |-> "idle"]
    /\ UNCHANGED <<version, disk, restart, live, spawned, calls, crashes>>

(***************************************************************************)
(* The kernel and systemd.                                                 *)
(***************************************************************************)

KernelExits(k) ==
    /\ k \in DOMAIN live /\ live' = Without(k) /\ said' = None
    /\ UNCHANGED <<daemon, exitCode, version, disk, restart, backlog, loopVars, spawned, client,
                   calls, crashes>>

Crash ==
    /\ daemon # "down" /\ crashes < MaxCrashes
    /\ crashes' = crashes + 1
    /\ daemon' = "down" /\ exitCode' = 1
    /\ backlog' = <<>> /\ serving' = None /\ at' = "poll" /\ child' = None
    /\ client' = [c \in Clients |-> "idle"] /\ said' = None
    /\ UNCHANGED <<version, disk, restart, live, spawned, calls>>

\* systemd kills what is left of the unit's processes; with Restart=on-failure
\* it then starts the installed binary if the exit code was not zero.
RestartOnFailure ==
    /\ daemon = "down" /\ DOMAIN live = {} /\ exitCode # 0
    /\ daemon' = "up" /\ version' = disk /\ restart' = FALSE /\ said' = None
    /\ UNCHANGED <<exitCode, disk, backlog, loopVars, live, spawned, client, calls, crashes>>

\* service install, as root: the new payload, then systemctl restart.
Install ==
    /\ daemon = "down" /\ DOMAIN live = {} /\ exitCode = 0
    /\ disk' = "new" /\ version' = "new"
    /\ daemon' = "up" /\ restart' = FALSE /\ said' = None
    /\ UNCHANGED <<exitCode, backlog, loopVars, live, spawned, client, calls, crashes>>

Daemon ==
    \/ Reap \/ Serve \/ ServeStatus \/ RefuseStart \/ BeginStop \/ ConfirmExit \/ Escalate
    \/ StopFails \/ Spawn \/ AnswerStart \/ Exit \/ (restart /\ Quit)
    \/ \E copied, ok \in BOOLEAN : ServeUpgrade(copied, ok)
    \/ \E ok \in BOOLEAN : SweepRoutes(ok)

Next ==
    \/ Daemon \/ Quit \/ Crash \/ RestartOnFailure \/ Install
    \/ \E c \in Clients : GiveUp(c)
    \/ \E c \in Clients, op \in Ops, f \in Configs \cup {None} : Call(c, op, f)
    \/ \E k \in DOMAIN live : KernelExits(k)

Spec == Init /\ [][Next]_vars

\* The daemon runs; systemd clears the unit's processes and restarts it.
FairSpec ==
    /\ Spec /\ WF_vars(Daemon) /\ WF_vars(RestartOnFailure)
    /\ WF_vars(daemon = "down" /\ \E k \in DOMAIN live : KernelExits(k))

(***************************************************************************)
(* Properties.                                                             *)
(***************************************************************************)

\* The daemon never loses sight of a kernel: while it runs, the only kernel that
\* can be alive is the one whose pid it holds, even after a stop that failed,
\* a reaped child or a restart of the daemon.
LiveKernelIsOwned == daemon # "down" => DOMAIN live \subseteq {child}

\* The answers are true when they are given: "STOPPED" and a successful STOP are
\* only said when no kernel lives, although the kernel may be in its grace period.
AnswersAreTrue ==
    [][said' # None =>
        /\ said'.to.op = "STATUS" /\ ~said'.ok => DOMAIN live' = {}
        /\ said'.to.op = "STOP" /\ said'.ok => DOMAIN live' = {}]_vars

\* Commands of one client that it no longer waits for cannot take effect after
\* a later one was answered: the START a client gave up never undoes the STOP
\* it sent afterwards.
AbandonedCannotOvertake ==
    [][said' # None => \A i \in DOMAIN backlog' :
            backlog'[i].client = said'.to.client => backlog'[i].call > said'.to.call]_vars

\* A command that is being served is answered in the end, whatever the kernel does.
ServedIsAnswered == at # "poll" ~> at = "poll"

\* An accepted UPGRADE ends with the new version running: the exit code makes
\* systemd start the binary that was just copied.
UpgradeTakesOver == restart ~> (daemon = "up" /\ version = "new")

\* The contract all privileged services keep.
Contract == INSTANCE KernelService WITH
    kernel <- IF DOMAIN live = {} THEN None ELSE live[CHOOSE k \in DOMAIN live : TRUE],
    accepted <- (IF serving = None THEN <<>> ELSE <<[op |-> serving.op, config |-> serving.config]>>)
                \o [i \in DOMAIN backlog |-> [op |-> backlog[i].op, config |-> backlog[i].config]],
    effective <- at \in {"started", "routes"}

KeepsContract == Contract!Spec
==============================================================================

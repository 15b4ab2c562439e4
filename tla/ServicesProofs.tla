--------------------------- MODULE ServicesProofs ---------------------------
(***************************************************************************)
(* Both privileged services: what ServicesAreSafe says of them, that each  *)
(* implements KernelService, and that their answers are true.              *)
(***************************************************************************)
EXTENDS MCServices, TLAPS

----------------------------------------------------------------------------
\* The Linux daemon: its inductive invariant, part by part.

Sensible(c) == (c.op = "START") <=> (c.config # None)

\* A command is being served exactly while the loop is in one, and by its kind.
LoopInv ==
    /\ daemon = "down" => at = "poll" /\ child = None /\ backlog = <<>>
    /\ daemon = "ending" => at \in {"poll", "term", "kill"}
    /\ serving = None <=> at = "poll" \/ daemon # "up"
    /\ serving # None => Sensible(serving)
    /\ \A i \in DOMAIN backlog : Sensible(backlog[i])
    /\ at \in {"spawn", "started"} => serving.op = "START"
    /\ at = "routes" => serving.op = "STOP"
    /\ daemon = "up" /\ at \in {"term", "kill"} => serving.op \in {"START", "STOP"}

\* There is one kernel at most, and none when a new one is started or a stop confirmed.
ChildInv ==
    /\ Linux!LiveKernelIsOwned
    /\ \A j, k \in DOMAIN live : j = k
    /\ at \in {"spawn", "routes"} => DOMAIN live = {} /\ child = None

\* The commands of one client wait in the order in which it sent them.
QueueInv ==
    /\ \A i \in DOMAIN backlog : backlog[i].call <= calls[backlog[i].client]
    /\ \A i, j \in DOMAIN backlog :
           i < j /\ backlog[i].client = backlog[j].client => backlog[i].call < backlog[j].call
    /\ serving # None =>
           /\ serving.call <= calls[serving.client]
           /\ \A i \in DOMAIN backlog :
                  backlog[i].client = serving.client => serving.call < backlog[i].call

DaemonInv == Linux!TypeOK /\ LoopInv /\ ChildInv /\ QueueInv

----------------------------------------------------------------------------
\* The Windows service.

Fields == {"pc", "had", "movedOld", "movedNew", "disabled", "remove"}
Holding == {"stage", "copy", "prune", "stop", "moveOld", "moveNew", "register", "start", "catch",
            "undo", "restart", "delete"}
Preparing == {"validate", "copy", "updater"}

\* The thread serves one command, and holds the kernel it started.
ThreadInv ==
    /\ wserving = None <=> wat = "idle"
    /\ wserving # None => Sensible(wserving)
    /\ wsvc \in {"stopped", "absent"} => wat = "idle" /\ ~wheld /\ wlive = None /\ ~whandle
    /\ wat \in {"create", "watch"} => wserving.op = "START"
    /\ wat = "stopped" => wserving.op = "STOP"
    /\ wat = "term" => wserving.op \in {"START", "STOP"}
    /\ wat \in Preparing \cup {"reply"} => wserving.op = "UPGRADE"
    /\ Windows!KernelIsHeld
    /\ wat \in {"create", "stopped"} => wlive = None

\* Who holds the management lock is where it needs it, and a process that does not has
\* changed nothing yet.
MutexInv ==
    /\ wlock = "service" <=> wat \in Preparing
    /\ DOMAIN wproc = Windows!Procs
    /\ \A p \in Windows!Procs :
        /\ DOMAIN wproc[p] = Fields
        /\ wlock = p <=> wproc[p].pc \in Holding
        /\ wproc[p].pc \in {"none", "gate", "lock", "stage", "copy", "prune"} =>
               ~wproc[p].had /\ ~wproc[p].movedOld /\ ~wproc[p].movedNew /\ ~wproc[p].disabled
        /\ wproc[p].remove => wproc[p].pc \in {"lock", "stop", "delete"}
        /\ wproc[p].pc = "delete" => wproc[p].remove
    /\ wproc["admin"].pc # "gate" /\ ~wproc["helper"].remove
    /\ wat \in Preparing \cup {"reply"} => wproc["helper"].pc \in {"none", "gate"}

\* What the helper will copy is whole, and so is what it has copied.
SourceInv ==
    /\ wat \in {"updater", "reply"} => wdirs["source"] # Torn
    /\ wproc["helper"].pc \in {"lock", "stage", "copy"} => wdirs["source"] # Torn
    /\ \A p \in Windows!Procs :
           \/ wproc[p].pc \in {"prune", "moveOld", "moveNew"}
           \/ wproc[p].pc = "stop" /\ ~wproc[p].remove
           => wdirs["staging"] \in Windows!Versions

\* Where the old and the new payload are, at each place of an installation.
Undisturbed == wkills = 0 /\ ~waborted
HasPayload == wsvc # "absent" => wdirs["bin"] \in Windows!Versions
Moved(p) ==
    /\ wproc[p].movedOld => wproc[p].had /\ wdirs["previous"] \in Windows!Versions
    /\ wproc[p].movedOld /\ ~wproc[p].movedNew => wdirs["bin"] = None
    /\ wproc[p].had /\ ~wproc[p].movedOld => ~wproc[p].movedNew /\ wdirs["bin"] # None
    /\ ~wproc[p].had /\ ~wproc[p].movedNew => wdirs["bin"] = None /\ wsvc = "absent"

Placed(p) ==
    /\ wproc[p].pc \in {"stop", "moveOld"} =>
           /\ ~wproc[p].movedOld /\ ~wproc[p].movedNew
           /\ ~wproc[p].remove => (wproc[p].had <=> wdirs["bin"] # None)
    /\ wproc[p].pc = "moveNew" => ~wproc[p].movedNew /\ Moved(p) /\ (wproc[p].had => wproc[p].movedOld)
    /\ wproc[p].pc \in {"register", "start"} =>
           wproc[p].movedNew /\ wdirs["bin"] \in Windows!Versions /\ Moved(p)
    /\ wproc[p].pc \in {"catch", "undo"} =>
           Moved(p) /\ (wproc[p].movedNew => wdirs["bin"] \in Windows!Versions)
    /\ wproc[p].pc = "restart" =>
           /\ Moved(p) /\ (wproc[p].movedNew => wdirs["bin"] = None)
           /\ ~wproc[p].had => wsvc \in {"stopped", "absent"}

PlacedInv == Undisturbed => \A p \in Windows!Procs : Placed(p)
StartableInv ==
    Undisturbed /\ (\A p \in Windows!Procs : wproc[p].pc \notin {"moveNew", "catch", "undo", "restart"})
        => HasPayload
PayloadInv == Windows!InstallsWholePayload /\ PlacedInv /\ StartableInv

EnabledInv == wkills = 0 => wenabled \/ \E p \in Windows!Procs : wproc[p].disabled

ServiceInv == Windows!TypeOK /\ ThreadInv /\ MutexInv /\ SourceInv /\ PayloadInv /\ EnabledInv

----------------------------------------------------------------------------
\* Nothing is not something, and the bounds are numbers.

LEMMA Apart ==
    /\ None \notin Nat /\ None \notin Configs /\ None \notin Linux!Connection
    /\ None \notin Windows!Command /\ Torn # None /\ Torn \notin Windows!Versions
    /\ None \notin Windows!Versions /\ None \notin Windows!Procs /\ None # "service"
    /\ Backlog \in Nat /\ MaxCalls \in Nat /\ MaxCrashes \in Nat /\ MaxKills \in Nat /\ MaxInstalls \in Nat
BY NoneIsNothing, TornIsNoVersion, BoundsAreNumbers

\* The queue of connections.

LEMMA HeadIs ==
    ASSUME NEW S, NEW s \in Seq(S), s # <<>>
    PROVE  /\ Head(s) = s[1] /\ Head(s) \in S /\ Tail(s) \in Seq(S) /\ 1 \in DOMAIN s
           /\ \A i \in DOMAIN Tail(s) : i + 1 \in DOMAIN s /\ Tail(s)[i] = s[i + 1] /\ i \in Nat \ {0}
OBVIOUS

LEMMA AppendIs ==
    ASSUME NEW S, NEW s \in Seq(S), NEW e \in S
    PROVE  /\ Append(s, e) \in Seq(S) /\ Append(s, e)[Len(s) + 1] = e
           /\ \A i \in DOMAIN s : i \in Nat /\ i <= Len(s)
           /\ \A i \in DOMAIN Append(s, e) : i = Len(s) + 1 \/ (i \in DOMAIN s /\ Append(s, e)[i] = s[i])
OBVIOUS

LEMMA ServeIs ==
    ASSUME DaemonInv, Linux!Serve
    PROVE  /\ serving' = backlog[1] /\ serving' \in Linux!Connection /\ serving' # None
           /\ backlog' \in Seq(Linux!Connection) /\ 1 \in DOMAIN backlog
           /\ \A i \in DOMAIN backlog' : /\ i + 1 \in DOMAIN backlog /\ i \in Nat \ {0}
                                       /\ backlog'[i] = backlog[i + 1]
           /\ daemon = "up" /\ serving = None /\ at = "poll" /\ at' = "read" /\ said' = None
           /\ child' \in {child, Linux!Reaped}
           /\ UNCHANGED <<daemon, exitCode, version, disk, restart, live, spawned, client, calls, crashes>>
<1>1. backlog \in Seq(Linux!Connection) /\ backlog # <<>>
    BY DEF DaemonInv, Linux!TypeOK, Linux!Serve
<1>2. /\ serving' = Head(backlog) /\ backlog' = Tail(backlog)
      /\ child' \in {child, Linux!Reaped}
    BY DEF Linux!Serve
<1>3. serving = None /\ daemon = "up" /\ at = "poll"
    BY DEF Linux!Serve, DaemonInv, LoopInv
<1> QED BY <1>1, <1>2, <1>3, HeadIs, Apart DEF Linux!Serve

LEMMA CallIs ==
    ASSUME DaemonInv, NEW c \in Clients, NEW op \in Linux!Ops, NEW f \in Configs \cup {None},
           Linux!Call(c, op, f)
    PROVE  LET new == [client |-> c, call |-> calls[c] + 1, op |-> op, config |-> f] IN
           /\ new \in Linux!Connection /\ Sensible(new) /\ calls[c] \in Nat
           /\ backlog' \in Seq(Linux!Connection) /\ backlog'[Len(backlog) + 1] = new
           /\ \A i \in DOMAIN backlog : i \in Nat /\ i <= Len(backlog)
           /\ \A i \in DOMAIN backlog' :
                  i = Len(backlog) + 1 \/ (i \in DOMAIN backlog /\ backlog'[i] = backlog[i])
           /\ Len(backlog) \in Nat
           /\ client' = [client EXCEPT ![c] = "waiting"] /\ calls' = [calls EXCEPT ![c] = @ + 1]
           /\ calls[c] + 1 \in 0 .. MaxCalls /\ daemon # "down" /\ said' = None
           /\ UNCHANGED <<daemon, exitCode, version, disk, restart, serving, at, child, live, spawned, crashes>>
<1> DEFINE new == [client |-> c, call |-> calls[c] + 1, op |-> op, config |-> f]
<1>1. /\ calls[c] \in 0 .. MaxCalls /\ calls[c] < MaxCalls /\ backlog \in Seq(Linux!Connection)
      /\ (op = "START") = (f # None)
    BY DEF DaemonInv, Linux!TypeOK, Linux!Call
<1>2. calls[c] \in Nat /\ calls[c] + 1 \in 1 .. MaxCalls /\ calls[c] + 1 \in 0 .. MaxCalls
    BY <1>1, Apart
<1>3. new \in Linux!Connection
    BY <1>2 DEF Linux!Connection
<1>4. Sensible(new)
    BY <1>1 DEF Sensible
<1>5. /\ backlog' = Append(backlog, new)
      /\ client' = [client EXCEPT ![c] = "waiting"] /\ calls' = [calls EXCEPT ![c] = @ + 1]
      /\ UNCHANGED <<daemon, exitCode, version, disk, restart, serving, at, child, live, spawned, crashes>>
      /\ daemon # "down" /\ said' = None
    BY DEF Linux!Call, Linux!loopVars
<1>6. /\ backlog' \in Seq(Linux!Connection) /\ backlog'[Len(backlog) + 1] = new
      /\ \A i \in DOMAIN backlog : i \in Nat /\ i <= Len(backlog)
      /\ \A i \in DOMAIN backlog' :
             i = Len(backlog) + 1 \/ (i \in DOMAIN backlog /\ backlog'[i] = backlog[i])
      /\ Len(backlog) \in Nat
    <2> HIDE DEF new
    <2> QED BY <1>1, <1>3, <1>5, AppendIs
<1> QED BY <1>1, <1>2, <1>3, <1>4, <1>5, <1>6

LEMMA ServeKeeps ==
    ASSUME DaemonInv, Linux!Serve
    PROVE  LoopInv' /\ QueueInv' /\ Linux!TypeOK'
<1>1. LoopInv'
    <2>1. /\ \A i \in DOMAIN backlog : Sensible(backlog[i])
          /\ ~(daemon = "down")
        BY ServeIs DEF DaemonInv, LoopInv
    <2>2. Sensible(serving') /\ \A i \in DOMAIN backlog' : Sensible(backlog'[i])
        BY <2>1, ServeIs
    <2> QED BY <2>2, ServeIs DEF LoopInv, Sensible
<1>2. QueueInv'
    <2>1. /\ \A i \in DOMAIN backlog : backlog[i].call <= calls[backlog[i].client]
          /\ \A i, j \in DOMAIN backlog :
                 i < j /\ backlog[i].client = backlog[j].client => backlog[i].call < backlog[j].call
        BY DEF DaemonInv, QueueInv
    <2>2. \A i \in DOMAIN backlog' :
              backlog'[i].client = serving'.client => serving'.call < backlog'[i].call
        BY <2>1, ServeIs
    <2>3. \A i, j \in DOMAIN backlog' :
              i < j /\ backlog'[i].client = backlog'[j].client => backlog'[i].call < backlog'[j].call
        BY <2>1, ServeIs
    <2>4. /\ \A i \in DOMAIN backlog' : backlog'[i].call <= calls'[backlog'[i].client]
          /\ serving'.call <= calls'[serving'.client]
        BY <2>1, ServeIs
    <2> QED BY <2>2, <2>3, <2>4 DEF QueueInv
<1>3. Linux!TypeOK'
    BY ServeIs DEF DaemonInv, Linux!TypeOK, Linux!Reaped
<1> QED BY <1>1, <1>2, <1>3

LEMMA CallKeeps ==
    ASSUME DaemonInv, NEW c \in Clients, NEW op \in Linux!Ops, NEW f \in Configs \cup {None},
           Linux!Call(c, op, f)
    PROVE  LoopInv' /\ QueueInv' /\ Linux!TypeOK'
<1> DEFINE new == [client |-> c, call |-> calls[c] + 1, op |-> op, config |-> f]
           n == Len(backlog) + 1
<1>1. /\ new \in Linux!Connection /\ Sensible(new) /\ calls[c] \in Nat
      /\ backlog' \in Seq(Linux!Connection) /\ backlog'[n] = new
      /\ \A i \in DOMAIN backlog : i \in Nat /\ i < n
      /\ \A i \in DOMAIN backlog' : i = n \/ (i \in DOMAIN backlog /\ backlog'[i] = backlog[i])
      /\ calls' = [calls EXCEPT ![c] = calls[c] + 1] /\ calls[c] + 1 \in 0 .. MaxCalls
      /\ daemon # "down" /\ said' = None /\ n \in Nat
      /\ UNCHANGED <<daemon, exitCode, version, disk, restart, serving, at, child, live, spawned, crashes>>
    BY CallIs
<1>2. client' = [client EXCEPT ![c] = "waiting"]
    BY CallIs
<1>3. new.client = c /\ new.call = calls[c] + 1
    OBVIOUS
<1>4. /\ calls \in [Clients -> 0 .. MaxCalls] /\ serving \in Linux!Connection \cup {None}
      /\ \A i \in DOMAIN backlog : backlog[i] \in Linux!Connection
    BY DEF DaemonInv, Linux!TypeOK
<1> HIDE DEF new, n
<1>5. LoopInv'
    <2>1. \A i \in DOMAIN backlog' : Sensible(backlog'[i])
        BY <1>1 DEF DaemonInv, LoopInv
    <2> QED BY <1>1, <2>1 DEF DaemonInv, LoopInv, Sensible
<1>6. QueueInv'
    <2>1. \A x \in Linux!Connection : x.client \in Clients /\ x.call \in Int
        BY DEF Linux!Connection
    <2>2. \A x \in Clients : calls[x] \in Int /\ calls[x] <= calls'[x] /\ (x = c => calls'[x] = calls[x] + 1)
        BY <1>1, <1>4, Apart
    <2>3. \A i \in DOMAIN backlog : /\ backlog[i].client \in Clients /\ backlog[i].call \in Int
                                     /\ backlog[i].call <= calls[backlog[i].client]
        BY <1>4, <2>1 DEF DaemonInv, QueueInv
    <2>4. \A i \in DOMAIN backlog' : backlog'[i].call <= calls'[backlog'[i].client]
        BY <1>1, <1>3, <2>2, <2>3
    <2>5. \A i, j \in DOMAIN backlog' :
              i < j /\ backlog'[i].client = backlog'[j].client => backlog'[i].call < backlog'[j].call
        <3> SUFFICES ASSUME NEW i \in DOMAIN backlog', NEW j \in DOMAIN backlog', i < j,
                            backlog'[i].client = backlog'[j].client
                     PROVE  backlog'[i].call < backlog'[j].call
            OBVIOUS
        <3>1. i \in DOMAIN backlog /\ backlog'[i] = backlog[i]
            BY <1>1
        <3>2. CASE j = n
            BY <1>1, <1>3, <2>2, <2>3, <3>1, <3>2
        <3>3. CASE j # n
            BY <1>1, <3>1, <3>3 DEF DaemonInv, QueueInv
        <3> QED BY <3>2, <3>3
    <2>6. serving # None =>
              /\ serving.call <= calls'[serving.client]
              /\ \A i \in DOMAIN backlog' : backlog'[i].client = serving.client => serving.call < backlog'[i].call
        <3>1. serving # None => /\ serving.client \in Clients /\ serving.call \in Int
                                /\ serving.call <= calls[serving.client]
            BY <1>4, <2>1 DEF DaemonInv, QueueInv
        <3> QED BY <1>1, <1>3, <2>2, <3>1 DEF DaemonInv, QueueInv
    <2> QED BY <1>1, <2>4, <2>5, <2>6 DEF QueueInv
<1>7. Linux!TypeOK'
    <2>1. client' \in [Clients -> {"idle", "waiting"}] /\ calls' \in [Clients -> 0 .. MaxCalls]
        BY <1>1, <1>2, <1>4 DEF DaemonInv, Linux!TypeOK
    <2> QED BY <1>1, <2>1 DEF DaemonInv, Linux!TypeOK
<1> QED BY <1>5, <1>6, <1>7

----------------------------------------------------------------------------
\* The steps of the daemon keep it.

LEMMA LoopKeeps ==
    ASSUME DaemonInv, [Linux!Next]_linux
    PROVE  LoopInv'
<1> USE Apart DEF DaemonInv, Linux!loopVars, LoopInv, Sensible, Linux!TypeOK, Linux!Connection,
       Linux!Ops
<1>1. CASE Linux!Reap
    BY <1>1 DEF Linux!Reap, Linux!Reaped
<1>2. CASE Linux!Serve
    BY <1>2, ServeKeeps DEF DaemonInv
<1>3. CASE Linux!ServeStatus
    BY <1>3 DEF Linux!ServeStatus, Linux!Reply
<1>4. CASE Linux!RefuseStart
    BY <1>4 DEF Linux!RefuseStart, Linux!Reply
<1>5. CASE Linux!BeginStop
    BY <1>5 DEF Linux!BeginStop
<1>6. CASE Linux!ConfirmExit
    BY <1>6 DEF Linux!ConfirmExit
<1>7. CASE Linux!Escalate
    BY <1>7 DEF Linux!Escalate
<1>8. CASE Linux!StopFails
    BY <1>8 DEF Linux!StopFails, Linux!Reply
<1>9. CASE Linux!Spawn
    BY <1>9 DEF Linux!Spawn
<1>10. CASE Linux!AnswerStart
    BY <1>10 DEF Linux!AnswerStart, Linux!Reply
<1>11. CASE Linux!Exit
    BY <1>11 DEF Linux!Exit
<1>12. ASSUME NEW copied \in BOOLEAN, NEW ok \in BOOLEAN, Linux!ServeUpgrade(copied, ok)
      PROVE LoopInv'
    BY <1>12 DEF Linux!ServeUpgrade, Linux!Reply
<1>13. ASSUME NEW ok \in BOOLEAN, Linux!SweepRoutes(ok) PROVE LoopInv'
    BY <1>13 DEF Linux!SweepRoutes, Linux!Reply
<1>14. CASE Linux!Quit
    BY <1>14 DEF Linux!Quit, Linux!Reaped
<1>15. CASE Linux!Crash
    BY <1>15 DEF Linux!Crash
<1>16. CASE Linux!RestartOnFailure
    BY <1>16 DEF Linux!RestartOnFailure
<1>17. CASE Linux!Install
    BY <1>17 DEF Linux!Install
<1>18. ASSUME NEW c \in Clients, Linux!GiveUp(c) PROVE LoopInv'
    BY <1>18 DEF Linux!GiveUp
<1>19. ASSUME NEW c \in Clients, NEW op \in Linux!Ops, NEW f \in Configs \cup {None}, Linux!Call(c, op, f)
      PROVE LoopInv'
    BY <1>19, CallKeeps DEF DaemonInv
<1>20. ASSUME NEW k \in DOMAIN live, Linux!KernelExits(k) PROVE LoopInv'
    BY <1>20 DEF Linux!KernelExits, Linux!Without
<1>21. CASE UNCHANGED linux
    BY <1>21 DEF linux
<1> QED BY <1>1, <1>2, <1>3, <1>4, <1>5, <1>6, <1>7, <1>8, <1>9, <1>10, <1>11, <1>12, <1>13,
           <1>14, <1>15, <1>16, <1>17, <1>18, <1>19, <1>20, <1>21 DEF Linux!Next, Linux!Daemon

LEMMA ChildKeeps ==
    ASSUME DaemonInv, [Linux!Next]_linux
    PROVE  ChildInv'
<1> USE Apart DEF DaemonInv, Linux!loopVars, ChildInv, LoopInv, Linux!LiveKernelIsOwned
<1>1. CASE Linux!Reap
    BY <1>1 DEF Linux!Reap, Linux!Reaped
<1>2. CASE Linux!Serve
    BY <1>2 DEF Linux!Serve, Linux!Reaped
<1>3. CASE Linux!ServeStatus
    BY <1>3 DEF Linux!ServeStatus, Linux!Reply
<1>4. CASE Linux!RefuseStart
    BY <1>4 DEF Linux!RefuseStart, Linux!Reply
<1>5. CASE Linux!BeginStop
    <2>1. DOMAIN live \subseteq 1 .. spawned /\ None \notin DOMAIN live
        BY DEF Linux!TypeOK
    <2> QED BY <1>5, <2>1 DEF Linux!BeginStop
<1>6. CASE Linux!ConfirmExit
    BY <1>6 DEF Linux!ConfirmExit
<1>7. CASE Linux!Escalate
    BY <1>7 DEF Linux!Escalate
<1>8. CASE Linux!StopFails
    BY <1>8 DEF Linux!StopFails, Linux!Reply
<1>9. CASE Linux!Spawn
    BY <1>9 DEF Linux!Spawn
<1>10. CASE Linux!AnswerStart
    BY <1>10 DEF Linux!AnswerStart, Linux!Reply
<1>11. CASE Linux!Exit
    BY <1>11 DEF Linux!Exit
<1>12. ASSUME NEW copied \in BOOLEAN, NEW ok \in BOOLEAN, Linux!ServeUpgrade(copied, ok)
      PROVE ChildInv'
    BY <1>12 DEF Linux!ServeUpgrade, Linux!Reply
<1>13. ASSUME NEW ok \in BOOLEAN, Linux!SweepRoutes(ok) PROVE ChildInv'
    BY <1>13 DEF Linux!SweepRoutes, Linux!Reply
<1>14. CASE Linux!Quit
    BY <1>14 DEF Linux!Quit, Linux!Reaped
<1>15. CASE Linux!Crash
    BY <1>15 DEF Linux!Crash
<1>16. CASE Linux!RestartOnFailure
    BY <1>16 DEF Linux!RestartOnFailure
<1>17. CASE Linux!Install
    BY <1>17 DEF Linux!Install
<1>18. ASSUME NEW c \in Clients, Linux!GiveUp(c) PROVE ChildInv'
    BY <1>18 DEF Linux!GiveUp
<1>19. ASSUME NEW c \in Clients, NEW op \in Linux!Ops, NEW f \in Configs \cup {None}, Linux!Call(c, op, f)
      PROVE ChildInv'
    BY <1>19 DEF Linux!Call, Linux!Ops
<1>20. ASSUME NEW k \in DOMAIN live, Linux!KernelExits(k) PROVE ChildInv'
    BY <1>20 DEF Linux!KernelExits, Linux!Without
<1>21. CASE UNCHANGED linux
    BY <1>21 DEF linux
<1> QED BY <1>1, <1>2, <1>3, <1>4, <1>5, <1>6, <1>7, <1>8, <1>9, <1>10, <1>11, <1>12, <1>13,
           <1>14, <1>15, <1>16, <1>17, <1>18, <1>19, <1>20, <1>21 DEF Linux!Next, Linux!Daemon

LEMMA QueueKeeps ==
    ASSUME DaemonInv, [Linux!Next]_linux
    PROVE  QueueInv'
<1> USE Apart DEF DaemonInv, Linux!loopVars, QueueInv, LoopInv
<1>1. CASE Linux!Reap
    BY <1>1 DEF Linux!Reap, Linux!Reaped
<1>2. CASE Linux!Serve
    BY <1>2, ServeKeeps DEF DaemonInv
<1>3. CASE Linux!ServeStatus
    BY <1>3 DEF Linux!ServeStatus, Linux!Reply
<1>4. CASE Linux!RefuseStart
    BY <1>4 DEF Linux!RefuseStart, Linux!Reply
<1>5. CASE Linux!BeginStop
    BY <1>5 DEF Linux!BeginStop
<1>6. CASE Linux!ConfirmExit
    BY <1>6 DEF Linux!ConfirmExit
<1>7. CASE Linux!Escalate
    BY <1>7 DEF Linux!Escalate
<1>8. CASE Linux!StopFails
    BY <1>8 DEF Linux!StopFails, Linux!Reply
<1>9. CASE Linux!Spawn
    BY <1>9 DEF Linux!Spawn
<1>10. CASE Linux!AnswerStart
    BY <1>10 DEF Linux!AnswerStart, Linux!Reply
<1>11. CASE Linux!Exit
    BY <1>11 DEF Linux!Exit
<1>12. ASSUME NEW copied \in BOOLEAN, NEW ok \in BOOLEAN, Linux!ServeUpgrade(copied, ok)
      PROVE QueueInv'
    BY <1>12 DEF Linux!ServeUpgrade, Linux!Reply
<1>13. ASSUME NEW ok \in BOOLEAN, Linux!SweepRoutes(ok) PROVE QueueInv'
    BY <1>13 DEF Linux!SweepRoutes, Linux!Reply
<1>14. CASE Linux!Quit
    BY <1>14 DEF Linux!Quit, Linux!Reaped
<1>15. CASE Linux!Crash
    BY <1>15 DEF Linux!Crash
<1>16. CASE Linux!RestartOnFailure
    BY <1>16 DEF Linux!RestartOnFailure
<1>17. CASE Linux!Install
    BY <1>17 DEF Linux!Install
<1>18. ASSUME NEW c \in Clients, Linux!GiveUp(c) PROVE QueueInv'
    BY <1>18 DEF Linux!GiveUp
<1>19. ASSUME NEW c \in Clients, NEW op \in Linux!Ops, NEW f \in Configs \cup {None}, Linux!Call(c, op, f)
      PROVE QueueInv'
    BY <1>19, CallKeeps DEF DaemonInv
<1>20. ASSUME NEW k \in DOMAIN live, Linux!KernelExits(k) PROVE QueueInv'
    BY <1>20 DEF Linux!KernelExits, Linux!Without
<1>21. CASE UNCHANGED linux
    BY <1>21 DEF linux
<1> QED BY <1>1, <1>2, <1>3, <1>4, <1>5, <1>6, <1>7, <1>8, <1>9, <1>10, <1>11, <1>12, <1>13,
           <1>14, <1>15, <1>16, <1>17, <1>18, <1>19, <1>20, <1>21 DEF Linux!Next, Linux!Daemon

LEMMA DaemonTyped ==
    ASSUME DaemonInv, [Linux!Next]_linux
    PROVE  Linux!TypeOK'
<1> USE Apart DEF DaemonInv, Linux!loopVars, Linux!TypeOK, LoopInv
<1>1. CASE Linux!Reap
    BY <1>1 DEF Linux!Reap, Linux!Reaped
<1>2. CASE Linux!Serve
    BY <1>2, ServeKeeps DEF DaemonInv
<1>3. CASE Linux!ServeStatus
    BY <1>3 DEF Linux!ServeStatus, Linux!Reply
<1>4. CASE Linux!RefuseStart
    BY <1>4 DEF Linux!RefuseStart, Linux!Reply
<1>5. CASE Linux!BeginStop
    BY <1>5 DEF Linux!BeginStop
<1>6. CASE Linux!ConfirmExit
    BY <1>6 DEF Linux!ConfirmExit
<1>7. CASE Linux!Escalate
    BY <1>7 DEF Linux!Escalate
<1>8. CASE Linux!StopFails
    BY <1>8 DEF Linux!StopFails, Linux!Reply
<1>9. CASE Linux!Spawn
    BY <1>9 DEF Linux!Spawn, Linux!Connection, Sensible
<1>10. CASE Linux!AnswerStart
    BY <1>10 DEF Linux!AnswerStart, Linux!Reply
<1>11. CASE Linux!Exit
    BY <1>11 DEF Linux!Exit
<1>12. ASSUME NEW copied \in BOOLEAN, NEW ok \in BOOLEAN, Linux!ServeUpgrade(copied, ok)
      PROVE Linux!TypeOK'
    BY <1>12 DEF Linux!ServeUpgrade, Linux!Reply
<1>13. ASSUME NEW ok \in BOOLEAN, Linux!SweepRoutes(ok) PROVE Linux!TypeOK'
    BY <1>13 DEF Linux!SweepRoutes, Linux!Reply
<1>14. CASE Linux!Quit
    BY <1>14 DEF Linux!Quit, Linux!Reaped
<1>15. CASE Linux!Crash
    BY <1>15 DEF Linux!Crash
<1>16. CASE Linux!RestartOnFailure
    BY <1>16 DEF Linux!RestartOnFailure
<1>17. CASE Linux!Install
    BY <1>17 DEF Linux!Install
<1>18. ASSUME NEW c \in Clients, Linux!GiveUp(c) PROVE Linux!TypeOK'
    BY <1>18 DEF Linux!GiveUp
<1>19. ASSUME NEW c \in Clients, NEW op \in Linux!Ops, NEW f \in Configs \cup {None}, Linux!Call(c, op, f)
      PROVE Linux!TypeOK'
    BY <1>19, CallKeeps DEF DaemonInv
<1>20. ASSUME NEW k \in DOMAIN live, Linux!KernelExits(k) PROVE Linux!TypeOK'
    BY <1>20 DEF Linux!KernelExits, Linux!Without
<1>21. CASE UNCHANGED linux
    BY <1>21 DEF linux
<1> QED BY <1>1, <1>2, <1>3, <1>4, <1>5, <1>6, <1>7, <1>8, <1>9, <1>10, <1>11, <1>12, <1>13,
           <1>14, <1>15, <1>16, <1>17, <1>18, <1>19, <1>20, <1>21 DEF Linux!Next, Linux!Daemon

LEMMA DaemonStep ==
    ASSUME DaemonInv, [Linux!Next]_linux
    PROVE  DaemonInv'
BY LoopKeeps, ChildKeeps, QueueKeeps, DaemonTyped DEF DaemonInv

LEMMA DaemonInit ==
    ASSUME Linux!Init
    PROVE  DaemonInv
<1>1. Linux!TypeOK
    <2>1. /\ backlog \in Seq(Linux!Connection) /\ DOMAIN live = {} /\ spawned \in Nat
          /\ client \in [Clients -> {"idle", "waiting"}] /\ calls \in [Clients -> 0 .. MaxCalls]
          /\ crashes \in 0 .. MaxCrashes
        BY Apart DEF Linux!Init
    <2> QED BY <2>1 DEF Linux!Init, Linux!TypeOK
<1>2. LoopInv
    BY DEF Linux!Init, LoopInv
<1>3. ChildInv
    BY DEF Linux!Init, ChildInv, Linux!LiveKernelIsOwned
<1>4. QueueInv
    BY DEF Linux!Init, QueueInv
<1> QED BY <1>1, <1>2, <1>3, <1>4 DEF DaemonInv

----------------------------------------------------------------------------
\* What its answers mean.

Answering ==
    \/ Linux!ServeStatus \/ Linux!StopFails \/ Linux!RefuseStart \/ Linux!AnswerStart
    \/ \E copied, ok \in BOOLEAN : Linux!ServeUpgrade(copied, ok)
    \/ \E ok \in BOOLEAN : Linux!SweepRoutes(ok)

LEMMA OnlyRepliesSpeak ==
    ASSUME Linux!Next, said' # None
    PROVE  Answering
BY DEF Answering, Linux!Next, Linux!Daemon, Linux!Reap, Linux!Serve,
       Linux!BeginStop, Linux!ConfirmExit, Linux!Escalate, Linux!Spawn,
       Linux!Exit, Linux!Quit, Linux!Crash, Linux!RestartOnFailure,
       Linux!Install, Linux!GiveUp, Linux!Call, Linux!KernelExits

LEMMA ReplyIs ==
    ASSUME DaemonInv, Answering
    PROVE  /\ \E ok \in BOOLEAN : said' = [to |-> serving, ok |-> ok]
           /\ UNCHANGED <<live, backlog, calls>>
           /\ serving' = None /\ at' = "poll" /\ serving # None
<1>1. /\ \E ok \in BOOLEAN : said' = [to |-> serving, ok |-> ok]
      /\ UNCHANGED <<live, backlog, calls>>
      /\ serving' = None /\ at' = "poll"
    BY DEF Answering, Linux!ServeStatus, Linux!RefuseStart, Linux!StopFails,
       Linux!AnswerStart, Linux!ServeUpgrade, Linux!SweepRoutes, Linux!Reply
<1>2. at \in {"read", "spawn", "started", "routes"} \/ (at = "kill" /\ daemon = "up")
    BY DEF Answering, Linux!ServeStatus, Linux!StopFails, Linux!RefuseStart,
       Linux!AnswerStart, Linux!ServeUpgrade, Linux!SweepRoutes
<1>3. daemon = "up" /\ at # "poll"
    BY <1>2 DEF DaemonInv, LoopInv, Linux!TypeOK
<1> QED BY <1>1, <1>3 DEF DaemonInv, LoopInv

LEMMA AnswersTrueStep ==
    ASSUME DaemonInv, Linux!Next, said' # None
    PROVE  /\ said'.to.op = "STATUS" /\ ~said'.ok => DOMAIN live' = {}
           /\ said'.to.op = "STOP" /\ said'.ok => DOMAIN live' = {}
<1>1. PICK ok \in BOOLEAN : said' = [to |-> serving, ok |-> ok]
    BY OnlyRepliesSpeak, ReplyIs
<1>2. said'.to = serving /\ said'.ok = ok /\ live' = live
    BY <1>1, OnlyRepliesSpeak, ReplyIs
<1>3. None \notin DOMAIN live
    BY Apart DEF DaemonInv, Linux!TypeOK
<1>4. at # "poll" => daemon # "down"
    BY DEF DaemonInv, LoopInv
<1>5. CASE Linux!ServeStatus
    <2>1. ok = (child # None) /\ at = "read" /\ serving.op = "STATUS"
        BY <1>1, <1>5 DEF Linux!ServeStatus, Linux!Reply
    <2> QED BY <1>2, <1>3, <1>4, <2>1 DEF DaemonInv, ChildInv, Linux!LiveKernelIsOwned
<1>6. CASE Linux!StopFails \/ Linux!RefuseStart
    <2>1. ok = FALSE /\ ((at = "kill" /\ daemon = "up") \/ serving.op = "START")
        BY <1>1, <1>6 DEF Linux!StopFails, Linux!RefuseStart, Linux!Reply
    <2>2. serving.op # "STATUS"
        BY <2>1 DEF DaemonInv, LoopInv
    <2> QED BY <1>2, <2>1, <2>2
<1>7. CASE Linux!AnswerStart
    <2>1. serving.op = "START"
        BY <1>7 DEF Linux!AnswerStart, DaemonInv, LoopInv
    <2> QED BY <1>2, <2>1
<1>8. CASE \E copied, k \in BOOLEAN : Linux!ServeUpgrade(copied, k)
    <2>1. serving.op = "UPGRADE"
        BY <1>8 DEF Linux!ServeUpgrade
    <2> QED BY <1>2, <2>1
<1>9. CASE \E k \in BOOLEAN : Linux!SweepRoutes(k)
    <2>1. serving.op = "STOP" /\ DOMAIN live = {}
        BY <1>9 DEF Linux!SweepRoutes, DaemonInv, LoopInv, ChildInv
    <2> QED BY <1>2, <2>1
<1> QED BY <1>5, <1>6, <1>7, <1>8, <1>9, OnlyRepliesSpeak DEF Answering

LEMMA OvertakeStep ==
    ASSUME DaemonInv, Linux!Next, said' # None
    PROVE  \A i \in DOMAIN backlog' :
               backlog'[i].client = said'.to.client => backlog'[i].call > said'.to.call
<1>1. said'.to = serving /\ backlog' = backlog /\ serving # None
    BY OnlyRepliesSpeak, ReplyIs
<1>2. \A x \in Linux!Connection : x.call \in Int
    BY DEF Linux!Connection
<1>3. serving.call \in Int /\ \A i \in DOMAIN backlog : backlog[i].call \in Int
    BY <1>1, <1>2 DEF DaemonInv, Linux!TypeOK
<1> QED BY <1>1, <1>3 DEF DaemonInv, QueueInv

----------------------------------------------------------------------------
\* What a kernel service sees of the daemon.

Order(c) == [op |-> c.op, config |-> c.config]
OrdersOf(s) == [i \in DOMAIN s |-> Order(s[i])]

KernelOf(run) == IF DOMAIN run = {} THEN None ELSE run[CHOOSE k \in DOMAIN run : TRUE]
AcceptedOf(now, queue) == (IF now = None THEN <<>> ELSE <<Order(now)>>) \o OrdersOf(queue)

KernelA == KernelOf(live)
AcceptedA == AcceptedOf(serving, backlog)
EffectiveA == at \in {"started", "routes"}

AcceptA ==
    /\ \E c \in Linux!Contract!Command : AcceptedA' = Append(AcceptedA, c)
    /\ KernelA' = KernelA /\ EffectiveA' = EffectiveA
ExitA == KernelA # None /\ KernelA' = None /\ AcceptedA' = AcceptedA /\ EffectiveA' = EffectiveA
StartA ==
    /\ AcceptedA # <<>> /\ Head(AcceptedA).op = "START" /\ ~EffectiveA
    /\ KernelA = None /\ KernelA' = Head(AcceptedA).config
    /\ EffectiveA' = TRUE /\ AcceptedA' = AcceptedA
StoppedA ==
    /\ AcceptedA # <<>> /\ Head(AcceptedA).op = "STOP" /\ ~EffectiveA
    /\ KernelA = None /\ EffectiveA' = TRUE
    /\ KernelA' = KernelA /\ AcceptedA' = AcceptedA
AnswerA(ok) ==
    /\ AcceptedA # <<>>
    /\ ok /\ Head(AcceptedA).op \in {"START", "STOP"} => EffectiveA
    /\ AcceptedA' = Tail(AcceptedA) /\ EffectiveA' = FALSE
    /\ KernelA' = KernelA
EndA == AcceptedA' = <<>> /\ EffectiveA' = FALSE /\ KernelA' \in {KernelA, None}
SameA == KernelA' = KernelA /\ AcceptedA' = AcceptedA /\ EffectiveA' = EffectiveA
NextA == AcceptA \/ ExitA \/ StartA \/ StoppedA \/ EndA \/ SameA \/ \E ok \in BOOLEAN : AnswerA(ok)

LEMMA NextIsContract ==
    NextA => [Linux!Contract!Next]_(Linux!Contract!vars)
BY DEF NextA, AcceptA, ExitA, StartA, StoppedA, EndA, SameA, AnswerA, KernelA, AcceptedA,
       EffectiveA,
       KernelOf, AcceptedOf, OrdersOf, Order, Linux!Contract!Next, Linux!Contract!vars, Linux!Contract!Accept,
       Linux!Contract!Exit, Linux!Contract!Start, Linux!Contract!Stopped, Linux!Contract!Answer,
       Linux!Contract!End

----------------------------------------------------------------------------
\* Its steps are steps of a kernel service.

LEMMA OrdersIs ==
    ASSUME NEW s \in Seq(Linux!Connection)
    PROVE  /\ OrdersOf(s) \in Seq({Order(c) : c \in Linux!Connection})
           /\ Len(OrdersOf(s)) = Len(s) /\ DOMAIN OrdersOf(s) = 1 .. Len(s)
           /\ \A i \in 1 .. Len(s) : OrdersOf(s)[i] = Order(s[i])
<1>1. Len(s) \in Nat /\ DOMAIN s = 1 .. Len(s) /\ \A i \in 1 .. Len(s) : s[i] \in Linux!Connection
    OBVIOUS
<1>2. \A i \in 1 .. Len(s) : Order(s[i]) \in {Order(c) : c \in Linux!Connection}
    BY <1>1
<1>3. OrdersOf(s) = [i \in 1 .. Len(s) |-> Order(s[i])]
    BY <1>1 DEF OrdersOf
<1> HIDE DEF OrdersOf
<1> QED BY <1>1, <1>2, <1>3

LEMMA OrdersOfNone == OrdersOf(<<>>) = <<>>
BY DEF OrdersOf

LEMMA OrdersOfMore ==
    ASSUME NEW s \in Seq(Linux!Connection), NEW e \in Linux!Connection
    PROVE  OrdersOf(Append(s, e)) = Append(OrdersOf(s), Order(e))
<1>1. Append(s, e) \in Seq(Linux!Connection) /\ Len(Append(s, e)) = Len(s) + 1 /\ Len(s) \in Nat
      /\ \A i \in 1 .. Len(s) : Append(s, e)[i] = s[i]
      /\ Append(s, e)[Len(s) + 1] = e
    OBVIOUS
<1>2. /\ OrdersOf(Append(s, e)) \in Seq({Order(c) : c \in Linux!Connection})
      /\ Len(OrdersOf(Append(s, e))) = Len(s) + 1
      /\ \A i \in 1 .. Len(s) + 1 : OrdersOf(Append(s, e))[i] = Order(Append(s, e)[i])
    BY <1>1, OrdersIs
<1>3. /\ OrdersOf(s) \in Seq({Order(c) : c \in Linux!Connection}) /\ Len(OrdersOf(s)) = Len(s)
      /\ \A i \in 1 .. Len(s) : OrdersOf(s)[i] = Order(s[i])
    BY OrdersIs
<1> QED BY <1>1, <1>2, <1>3

LEMMA OrdersOfRest ==
    ASSUME NEW s \in Seq(Linux!Connection), s # <<>>
    PROVE  <<Order(Head(s))>> \o OrdersOf(Tail(s)) = OrdersOf(s)
<1>1. Tail(s) \in Seq(Linux!Connection) /\ Len(s) \in Nat \ {0} /\ Len(Tail(s)) = Len(s) - 1
      /\ \A i \in 1 .. Len(s) - 1 : Tail(s)[i] = s[i + 1]
      /\ Head(s) = s[1] /\ Head(s) \in Linux!Connection
    OBVIOUS
<1>2. /\ OrdersOf(Tail(s)) \in Seq({Order(c) : c \in Linux!Connection})
      /\ Len(OrdersOf(Tail(s))) = Len(s) - 1
      /\ \A i \in 1 .. Len(s) - 1 : OrdersOf(Tail(s))[i] = Order(Tail(s)[i])
    BY <1>1, OrdersIs
<1>3. /\ OrdersOf(s) \in Seq({Order(c) : c \in Linux!Connection}) /\ Len(OrdersOf(s)) = Len(s)
      /\ \A i \in 1 .. Len(s) : OrdersOf(s)[i] = Order(s[i])
    BY OrdersIs
<1> QED BY <1>1, <1>2, <1>3

LEMMA FirstOfMore ==
    ASSUME NEW S, NEW q \in Seq(S), NEW x \in S
    PROVE  /\ <<x>> \o q # <<>> /\ Head(<<x>> \o q) = x /\ Tail(<<x>> \o q) = q
           /\ \A e \in S : <<x>> \o Append(q, e) = Append(<<x>> \o q, e)
           /\ <<>> \o q = q
OBVIOUS

LEMMA AcceptedIs ==
    ASSUME DaemonInv
    PROVE  /\ serving = None => AcceptedA = OrdersOf(backlog)
           /\ serving # None => /\ AcceptedA # <<>> /\ Head(AcceptedA) = Order(serving)
                                /\ Tail(AcceptedA) = OrdersOf(backlog)
           /\ Order(serving).op = serving.op /\ Order(serving).config = serving.config
<1> DEFINE D == {Order(c) : c \in Linux!Connection}
<1>1. OrdersOf(backlog) \in Seq(D)
    BY OrdersIs DEF DaemonInv, Linux!TypeOK
<1>2. serving # None => Order(serving) \in D
    BY DEF DaemonInv, Linux!TypeOK
<1>3. Order(serving).op = serving.op /\ Order(serving).config = serving.config
    BY DEF Order
<1> HIDE DEF D
<1> QED BY <1>1, <1>2, <1>3, FirstOfMore DEF AcceptedA, AcceptedOf

LEMMA AcceptedStays ==
    /\ serving' = serving /\ backlog' = backlog => AcceptedA' = AcceptedA
    /\ live' = live => KernelA' = KernelA
BY DEF AcceptedA, KernelA

LEMMA NoKernel ==
    ASSUME DaemonInv
    PROVE  /\ DOMAIN live = {} => KernelA = None
           /\ child \notin DOMAIN live /\ daemon # "down" => KernelA = None
           /\ child = None /\ daemon # "down" => KernelA = None
<1>1. DOMAIN live \subseteq 1 .. spawned /\ spawned \in Nat
    BY DEF DaemonInv, Linux!TypeOK
<1>2. None \notin DOMAIN live
    BY <1>1, Apart
<1>3. daemon # "down" => DOMAIN live \subseteq {child}
    BY DEF DaemonInv, ChildInv, Linux!LiveKernelIsOwned
<1>4. DOMAIN live = {} => KernelA = None
    BY DEF KernelA, KernelOf
<1> QED BY <1>2, <1>3, <1>4

LEMMA AnswerImplements ==
    ASSUME DaemonInv, Answering
    PROVE  NextA
<1>1. PICK ok \in BOOLEAN : said' = [to |-> serving, ok |-> ok]
    BY ReplyIs
<1>2. said'.ok = ok /\ UNCHANGED <<live, backlog>> /\ serving' = None /\ at' = "poll" /\ serving # None
    BY <1>1, ReplyIs
<1>3. ok /\ serving.op \in {"START", "STOP"} => EffectiveA
    <2>1. CASE Linux!ServeStatus
        BY <2>1 DEF Linux!ServeStatus
    <2>2. CASE Linux!StopFails \/ Linux!RefuseStart
        <3>1. said' = [to |-> serving, ok |-> FALSE]
            BY <2>2 DEF Linux!StopFails, Linux!RefuseStart, Linux!Reply
        <3> QED BY <1>2, <3>1
    <2>3. CASE Linux!AnswerStart
        <3>1. said' = [to |-> serving, ok |-> (at = "started")]
            BY <2>3 DEF Linux!AnswerStart, Linux!Reply
        <3> QED BY <1>2, <3>1 DEF EffectiveA
    <2>4. CASE \E copied, k \in BOOLEAN : Linux!ServeUpgrade(copied, k)
        BY <2>4 DEF Linux!ServeUpgrade
    <2>5. CASE \E k \in BOOLEAN : Linux!SweepRoutes(k)
        BY <2>5 DEF Linux!SweepRoutes, EffectiveA
    <2> QED BY <2>1, <2>2, <2>3, <2>4, <2>5 DEF Answering
<1>4. AcceptedA' = OrdersOf(backlog)
    <2>1. OrdersOf(backlog) \in Seq({Order(c) : c \in Linux!Connection})
        BY OrdersIs DEF DaemonInv, Linux!TypeOK
    <2> QED BY <1>2, <2>1 DEF AcceptedA, AcceptedOf
<1>5. AnswerA(ok)
    BY <1>2, <1>3, <1>4, AcceptedIs, AcceptedStays DEF AnswerA, EffectiveA
<1> QED BY <1>5 DEF NextA

LEMMA SpawnImplements ==
    ASSUME DaemonInv, Linux!Spawn
    PROVE  NextA
<1>1. serving.op = "START" /\ DOMAIN live = {} /\ serving # None
    <2>1. at = "spawn"
        BY DEF Linux!Spawn
    <2>2. daemon = "up"
        BY <2>1 DEF DaemonInv, LoopInv, Linux!TypeOK
    <2> QED BY <2>1, <2>2 DEF DaemonInv, LoopInv, ChildInv
<1>2. DOMAIN live' = {spawned + 1} /\ live'[spawned + 1] = serving.config
    BY <1>1 DEF Linux!Spawn
<1>3. KernelA' = serving.config
    BY <1>2 DEF KernelA, KernelOf
<1>4. at = "spawn" /\ at' = "started" /\ serving' = serving /\ backlog' = backlog
    BY DEF Linux!Spawn
<1>5. StartA
    BY <1>1, <1>3, <1>4, AcceptedIs, AcceptedStays, NoKernel DEF StartA, EffectiveA
<1> QED BY <1>5 DEF NextA

LEMMA ExitsImplements ==
    ASSUME DaemonInv, NEW k \in DOMAIN live, Linux!KernelExits(k)
    PROVE  NextA
<1>1. DOMAIN live = {k} /\ live[k] \in Configs
    <2>1. \A j \in DOMAIN live : j = k
        BY DEF DaemonInv, ChildInv
    <2>2. DOMAIN live = {k}
        BY <2>1
    <2>3. live[k] \in Configs
        BY DEF DaemonInv, Linux!TypeOK
    <2> QED BY <2>2, <2>3
<1>2. KernelA # None
    BY <1>1, Apart DEF KernelA, KernelOf
<1>3. DOMAIN live' = {}
    BY <1>1 DEF Linux!KernelExits, Linux!Without
<1>4. KernelA' = None
    BY <1>3 DEF KernelA, KernelOf
<1>5. ExitA
    BY <1>2, <1>4, AcceptedStays DEF ExitA, EffectiveA, Linux!KernelExits, Linux!loopVars
<1> QED BY <1>5 DEF NextA

LEMMA ConfirmImplements ==
    ASSUME DaemonInv, Linux!BeginStop \/ Linux!ConfirmExit
    PROVE  NextA
<1>1. /\ UNCHANGED <<serving, backlog, live>> /\ ~EffectiveA /\ daemon # "down"
      /\ at # "poll" /\ (at' = "routes" => KernelA = None /\ serving.op = "STOP" /\ daemon = "up")
      /\ at' # "started"
    <2>1. CASE Linux!BeginStop
        <3>1. at = "read" /\ serving.op \in {"START", "STOP"} /\ daemon = "up"
            BY <2>1 DEF Linux!BeginStop, DaemonInv, LoopInv, Linux!TypeOK
        <3> QED BY <2>1, <3>1, NoKernel DEF Linux!BeginStop, EffectiveA
    <2>2. CASE Linux!ConfirmExit
        <3>1. at \in {"term", "kill"} /\ daemon # "down" /\ child \notin DOMAIN live
              /\ (daemon = "up" => serving.op \in {"START", "STOP"}) /\ daemon \in {"up", "ending"}
            BY <2>2 DEF Linux!ConfirmExit, DaemonInv, LoopInv, Linux!TypeOK
        <3> QED BY <2>2, <3>1, NoKernel DEF Linux!ConfirmExit, EffectiveA
    <2> QED BY <2>1, <2>2
<1>2. CASE at' = "routes"
    <2>1. serving # None
        BY <1>1, <1>2 DEF DaemonInv, LoopInv
    <2>2. StoppedA
        BY <1>1, <1>2, <2>1, AcceptedIs, AcceptedStays DEF StoppedA, EffectiveA
    <2> QED BY <2>2 DEF NextA
<1>3. CASE at' # "routes"
    BY <1>1, <1>3, AcceptedStays DEF NextA, SameA, EffectiveA
<1> QED BY <1>2, <1>3

LEMMA ServeImplements ==
    ASSUME DaemonInv, Linux!Serve
    PROVE  NextA
<1>1. backlog \in Seq(Linux!Connection) /\ backlog # <<>>
    BY DEF DaemonInv, Linux!TypeOK, Linux!Serve
<1>2. serving' = Head(backlog) /\ backlog' = Tail(backlog) /\ serving' # None
    BY ServeIs DEF Linux!Serve
<1>3. AcceptedA' = OrdersOf(backlog)
    BY <1>1, <1>2, OrdersOfRest DEF AcceptedA, AcceptedOf
<1> QED BY <1>3, AcceptedIs, AcceptedStays, ServeIs DEF NextA, SameA, EffectiveA

LEMMA CallImplements ==
    ASSUME DaemonInv, NEW c \in Clients, NEW op \in Linux!Ops, NEW f \in Configs \cup {None},
           Linux!Call(c, op, f)
    PROVE  NextA
<1> DEFINE new == [client |-> c, call |-> calls[c] + 1, op |-> op, config |-> f]
           D == {Order(x) : x \in Linux!Connection}
<1>1. new \in Linux!Connection /\ Sensible(new)
    BY CallIs
<1>2. backlog' = Append(backlog, new) /\ UNCHANGED <<serving, at, live>>
    BY DEF Linux!Call, Linux!loopVars
<1>3. Order(new) = [op |-> op, config |-> f]
    BY DEF Order
<1>4. Order(new) \in Linux!Contract!Command
    BY <1>1, <1>3 DEF Linux!Contract!Command, Sensible, Linux!Ops
<1>5. /\ OrdersOf(backlog) \in Seq(D) /\ Order(new) \in D
      /\ backlog \in Seq(Linux!Connection) /\ (serving # None => Order(serving) \in D)
    BY <1>1, OrdersIs DEF DaemonInv, Linux!TypeOK
<1>6. OrdersOf(backlog') = Append(OrdersOf(backlog), Order(new))
    BY <1>1, <1>2, <1>5, OrdersOfMore
<1>7. AcceptedA' = Append(AcceptedA, Order(new))
    <2> HIDE DEF new, D
    <2>1. CASE serving = None
        BY <1>2, <1>5, <1>6, <2>1 DEF AcceptedA, AcceptedOf
    <2>2. CASE serving # None
        BY <1>2, <1>5, <1>6, <2>2, FirstOfMore DEF AcceptedA, AcceptedOf
    <2> QED BY <2>1, <2>2
<1>8. AcceptA
    BY <1>2, <1>4, <1>7, AcceptedStays DEF AcceptA, EffectiveA
<1> QED BY <1>8 DEF NextA

LEMMA EndImplements ==
    ASSUME DaemonInv, Linux!Exit \/ Linux!Crash
    PROVE  NextA
<1>1. backlog' = <<>> /\ serving' = None /\ at' = "poll" /\ live' = live
    BY DEF Linux!Exit, Linux!Crash
<1>2. AcceptedA' = <<>>
    BY <1>1, OrdersOfNone DEF AcceptedA, AcceptedOf
<1> QED BY <1>1, <1>2, AcceptedStays DEF NextA, EndA, EffectiveA

LEMMA StepImplements ==
    ASSUME DaemonInv, [Linux!Next]_linux
    PROVE  NextA
<1>1. CASE Answering
    BY <1>1, AnswerImplements
<1>2. CASE Linux!Next /\ ~Answering
    <2>1. CASE Linux!Reap \/ Linux!Escalate \/ Linux!RestartOnFailure \/ Linux!Install
               \/ Linux!Quit \/ \E c \in Clients : Linux!GiveUp(c)
        <3>1. UNCHANGED <<serving, backlog, live>> /\ EffectiveA' = EffectiveA
            BY <2>1 DEF Linux!Reap, Linux!Escalate, Linux!RestartOnFailure, Linux!Install,
                   Linux!Quit,
               Linux!GiveUp, Linux!loopVars, EffectiveA
        <3> QED BY <3>1, AcceptedStays DEF NextA, SameA
    <2>2. CASE Linux!Serve    BY <2>2, ServeImplements
    <2>3. CASE Linux!BeginStop \/ Linux!ConfirmExit    BY <2>3, ConfirmImplements
    <2>4. CASE Linux!Spawn    BY <2>4, SpawnImplements
    <2>5. CASE Linux!Exit \/ Linux!Crash    BY <2>5, EndImplements
    <2>6. CASE \E c \in Clients, op \in Linux!Ops, f \in Configs \cup {None} : Linux!Call(c, op, f)
        BY <2>6, CallImplements
    <2>7. CASE \E k \in DOMAIN live : Linux!KernelExits(k)
        BY <2>7, ExitsImplements
    <2> QED BY <1>2, <2>1, <2>2, <2>3, <2>4, <2>5, <2>6, <2>7 DEF Answering, Linux!Next,
           Linux!Daemon
<1>3. CASE UNCHANGED linux
    BY <1>3, AcceptedStays DEF linux, NextA, SameA, EffectiveA
<1> QED BY <1>1, <1>2, <1>3

----------------------------------------------------------------------------
\* The Linux daemon in a behaviour of both services.

LEMMA DaemonSteps ==
    ASSUME [Next]_vars
    PROVE  [Linux!Next]_linux
BY DEF Next, vars

LEMMA DaemonIsSafe == Spec => []DaemonInv
<1>1. Init => DaemonInv
    BY DaemonInit DEF Init
<1>2. DaemonInv /\ [Next]_vars => DaemonInv'
    BY DaemonSteps, DaemonStep
<1> QED BY <1>1, <1>2, PTL DEF Spec

\* The answers of the Linux daemon are true when they are given: "STOPPED" and a successful
\* STOP are only said when no kernel lives, whoever asks and whatever exits meanwhile.
THEOREM DaemonAnswersAreTrue == Spec => Linux!AnswersAreTrue
<1>1. DaemonInv /\ [Next]_vars =>
        [said' # None =>
            /\ said'.to.op = "STATUS" /\ ~said'.ok => DOMAIN live' = {}
            /\ said'.to.op = "STOP" /\ said'.ok => DOMAIN live' = {}]_linux
    BY DaemonSteps, AnswersTrueStep
<1> QED BY <1>1, DaemonIsSafe, PTL DEF Spec, Linux!AnswersAreTrue, linux, Linux!vars, Linux!loopVars

\* No command of a client is still waiting once a later one of the same client was answered:
\* the START it gave up never undoes the STOP it sent afterwards.
THEOREM DaemonIsInOrder == Spec => Linux!AbandonedCannotOvertake
<1>1. DaemonInv /\ [Next]_vars =>
        [said' # None => \A i \in DOMAIN backlog' :
            backlog'[i].client = said'.to.client => backlog'[i].call > said'.to.call]_linux
    BY DaemonSteps, OvertakeStep
<1> QED BY <1>1, DaemonIsSafe, PTL DEF Spec, Linux!AbandonedCannotOvertake, linux, Linux!vars

\* The Linux daemon, its child and its queue implement KernelService: commands take effect
\* one at a time and in the order of their acceptance, an OK follows its effect, and a kernel
\* only starts when the earlier one is gone - across crashes, failed stops and upgrades.
THEOREM DaemonImplements == Spec => Linux!KeepsContract
<1>1. Init => Linux!Contract!Init
    <2>1. Init => serving = None /\ backlog = <<>> /\ DOMAIN live = {} /\ at = "poll"
        BY DEF Init, Linux!Init
    <2>2. Init => KernelA = None /\ AcceptedA = <<>> /\ EffectiveA = FALSE
        BY <2>1, OrdersOfNone DEF KernelA, KernelOf, AcceptedA, AcceptedOf, EffectiveA
    <2> QED BY <2>2 DEF KernelA, KernelOf, AcceptedA, AcceptedOf, EffectiveA, OrdersOf, Order,
            Linux!Contract!Init
<1>2. DaemonInv /\ [Next]_vars => [Linux!Contract!Next]_(Linux!Contract!vars)
    BY DaemonSteps, StepImplements, NextIsContract
<1> QED BY <1>1, <1>2, DaemonIsSafe, PTL DEF Spec, Linux!KeepsContract, Linux!Contract!Spec

----------------------------------------------------------------------------
\* What the steps of the installers do, field by field.

Typed ==
    /\ DOMAIN wproc = Windows!Procs
    /\ \A q \in Windows!Procs :
        /\ DOMAIN wproc[q] = Fields
        /\ {wproc[q].had, wproc[q].movedOld, wproc[q].movedNew, wproc[q].disabled, wproc[q].remove}
                \subseteq BOOLEAN

Only(p) == Typed' /\ \A q \in Windows!Procs : q # p => wproc'[q] = wproc[q]
Kept(p, fs) ==
    /\ "had" \in fs => wproc'[p].had = wproc[p].had
    /\ "movedOld" \in fs => wproc'[p].movedOld = wproc[p].movedOld
    /\ "movedNew" \in fs => wproc'[p].movedNew = wproc[p].movedNew
    /\ "disabled" \in fs => wproc'[p].disabled = wproc[p].disabled
    /\ "remove" \in fs => wproc'[p].remove = wproc[p].remove
Flags == {"had", "movedOld", "movedNew", "disabled", "remove"}
Rests(p) ==
    /\ wproc'[p].pc = "none" /\ ~wproc'[p].had /\ ~wproc'[p].movedOld /\ ~wproc'[p].movedNew
    /\ ~wproc'[p].disabled /\ ~wproc'[p].remove
Left(p) ==
    /\ Only(p) /\ Rests(p)
    /\ wlock' = IF wlock = p THEN None ELSE wlock
    /\ wenabled' = (wenabled \/ wproc[p].disabled)
SameDirs(ds) == DOMAIN wdirs' = Windows!Places /\  \A d \in Windows!Places : d \in ds \/ wdirs'[d] = wdirs[d]
ThreadStays == UNCHANGED <<wserving, wat, wheld, wlive, whandle, wcalls, wcrashes>>

LEMMA FieldsMove ==
    ASSUME Typed, NEW p \in Windows!Procs, NEW c, wproc' = [wproc EXCEPT ![p].pc = c]
    PROVE  Only(p) /\ Kept(p, Flags) /\ wproc'[p].pc = c
BY DEF Typed, Only, Kept, Flags, Fields

LEMMA FieldsRest ==
    ASSUME Typed, NEW p \in Windows!Procs, wproc' = [wproc EXCEPT ![p] = Windows!Resting]
    PROVE  Only(p) /\ Rests(p)
BY DEF Typed, Only, Rests, Fields, Windows!Resting

LEMMA DirMoves ==
    ASSUME DOMAIN wdirs = Windows!Places, NEW d \in Windows!Places, NEW x,
           wdirs' = [wdirs EXCEPT ![d] = x]
    PROVE  wdirs'[d] = x /\ SameDirs({d})
BY DEF SameDirs

LEMMA DirsStay ==
    ASSUME DOMAIN wdirs = Windows!Places, wdirs' = wdirs
    PROVE  SameDirs({})
BY DEF SameDirs

LEMMA LockFx ==
    ASSUME Typed, NEW p \in Windows!Procs, Windows!Lock(p)
    PROVE  /\ wproc[p].pc = "lock" /\ wlock = None /\ wlock' = p
           /\ Only(p) /\ Kept(p, Flags) /\ wproc'[p].pc = IF wproc[p].remove THEN "stop" ELSE "stage"
           /\ ThreadStays /\ UNCHANGED <<wsvc, wenabled, wdirs, wkills, winstalls, waborted>> /\ wsaid' = None
BY FieldsMove DEF Windows!Lock, Windows!Step, ThreadStays, Windows!Served, Windows!Serving,
       Windows!Quiet, Windows!files, Windows!Reply

LEMMA StageFx ==
    ASSUME Typed, DOMAIN wdirs = Windows!Places, NEW p \in Windows!Procs, Windows!Stage(p)
    PROVE  /\ wproc[p].pc = "stage" /\ Only(p) /\ Kept(p, Flags) /\ wproc'[p].pc = "copy"
           /\ wdirs'["staging"] = Torn /\ SameDirs({"staging"})
           /\ ThreadStays /\ UNCHANGED <<wsvc, wenabled, wlock, wkills, winstalls, waborted>> /\ wsaid' = None
BY FieldsMove, DirMoves DEF Windows!Stage, Windows!Step, Windows!Places, ThreadStays,
       Windows!Served,
       Windows!Serving, Windows!Quiet, Windows!files, Windows!Reply

LEMMA StagedFx ==
    ASSUME Typed, DOMAIN wdirs = Windows!Places, NEW p \in Windows!Procs, Windows!Staged(p)
    PROVE  /\ wproc[p].pc = "copy" /\ (p = "helper" => wdirs["source"] # None)
           /\ Only(p) /\ Kept(p, Flags) /\ wproc'[p].pc = "prune"
           /\ wdirs'["staging"] = (IF p = "helper" THEN wdirs["source"] ELSE "new") /\ SameDirs({"staging"})
           /\ ThreadStays /\ UNCHANGED <<wsvc, wenabled, wlock, wkills, winstalls, waborted>> /\ wsaid' = None
BY FieldsMove, DirMoves DEF Windows!Staged, Windows!Step, Windows!Places, ThreadStays,
       Windows!Served,
       Windows!Serving, Windows!Quiet, Windows!files, Windows!Reply

LEMMA PruneFx ==
    ASSUME Typed, DOMAIN wdirs = Windows!Places, NEW p \in Windows!Procs, Windows!Prune(p)
    PROVE  /\ wproc[p].pc = "prune" /\ Only(p) /\ Kept(p, {"movedOld", "movedNew", "remove"})
           /\ wproc'[p].had = (wdirs["bin"] # None)
           /\ wproc'[p].disabled = (p = "helper" /\ wsvc # "absent")
           /\ wproc'[p].pc = IF wsvc = "absent" THEN "moveOld" ELSE "stop"
           /\ wenabled' = (wenabled /\ ~(p = "helper" /\ wsvc # "absent"))
           /\ wdirs'["previous"] = None /\ SameDirs({"previous"})
           /\ ThreadStays /\ UNCHANGED <<wsvc, wlock, wkills, winstalls, waborted>> /\ wsaid' = None
BY DirMoves DEF Windows!Prune, Typed, Only, Kept, Fields, ThreadStays, Windows!Served,
       Windows!Serving, Windows!Quiet, Windows!files, Windows!Reply

LEMMA AskStopFx ==
    ASSUME NEW p \in Windows!Procs, Windows!AskStop(p)
    PROVE  /\ wproc[p].pc \in {"stop", "catch"} /\ wsvc = "running" /\ wsvc' = "stopping"
           /\ ThreadStays /\ wsaid' = None
           /\ UNCHANGED <<wdirs, wenabled, wlock, wproc, wkills, winstalls, waborted>>
BY DEF Windows!AskStop, ThreadStays, Windows!Served, Windows!Serving, Windows!Quiet, Windows!files,
       Windows!Reply

LEMMA SeeStoppedFx ==
    ASSUME Typed, NEW p \in Windows!Procs, Windows!SeeStopped(p)
    PROVE  /\ \/ /\ wproc[p].pc = "stop" /\ wsvc \in {"stopped", "absent"}
                 /\ wproc'[p].pc = IF wproc[p].remove THEN "delete" ELSE "moveOld"
              \/ wproc[p].pc = "catch" /\ wproc'[p].pc = "undo"
           /\ Only(p) /\ Kept(p, Flags)
           /\ ThreadStays /\ wsaid' = None
           /\ UNCHANGED <<wsvc, wdirs, wenabled, wlock, wkills, winstalls, waborted>>
BY FieldsMove DEF Windows!SeeStopped, Windows!Step, ThreadStays, Windows!Served, Windows!Serving,
       Windows!Quiet, Windows!files, Windows!Reply

LEMMA StopTimesOutFx ==
    ASSUME Typed, NEW p \in Windows!Procs, Windows!StopTimesOut(p)
    PROVE  /\ wproc[p].pc = "stop" /\ Left(p)
           /\ ThreadStays /\ UNCHANGED <<wsvc, wdirs, wkills, winstalls, waborted>> /\ wsaid' = None
BY FieldsRest DEF Windows!StopTimesOut, Windows!Leave, Left, ThreadStays, Windows!Served,
       Windows!Serving, Windows!Quiet, Windows!files, Windows!Reply

LEMMA FailFx ==
    ASSUME Typed, NEW p \in Windows!Procs, Windows!Fail(p)
    PROVE  /\ wproc[p].pc \in {"gate", "lock", "stage", "copy", "prune"} /\ Left(p)
           /\ ThreadStays /\ UNCHANGED <<wsvc, wdirs, wkills, winstalls, waborted>> /\ wsaid' = None
BY FieldsRest DEF Windows!Fail, Windows!Leave, Left, ThreadStays, Windows!Served, Windows!Serving,
       Windows!Quiet, Windows!files, Windows!Reply

LEMMA MoveOldFx ==
    ASSUME Typed, DOMAIN wdirs = Windows!Places, NEW p \in Windows!Procs, Windows!MoveOld(p)
    PROVE  /\ wproc[p].pc = "moveOld" /\ Only(p) /\ wproc'[p].pc = "moveNew"
           /\ Kept(p, {"had", "movedNew", "disabled", "remove"})
           /\ \/ ~wproc[p].had /\ wproc'[p].movedOld = wproc[p].movedOld /\ SameDirs({})
              \/ /\ wproc[p].had /\ ~Windows!Process /\ wproc'[p].movedOld
                 /\ wdirs'["previous"] = wdirs["bin"] /\ wdirs'["bin"] = None
                 /\ SameDirs({"bin", "previous"})
           /\ ThreadStays /\ UNCHANGED <<wsvc, wenabled, wlock, wkills, winstalls, waborted>> /\ wsaid' = None
<1>1. CASE ~wproc[p].had /\ Windows!Step(p, "moveNew") /\ UNCHANGED wdirs
    BY <1>1, FieldsMove, DirsStay DEF Windows!MoveOld, Windows!Step, Kept, Flags, ThreadStays,
       Windows!Served, Windows!Serving, Windows!Quiet, Windows!files, Windows!Reply
<1>2. CASE /\ wproc[p].had /\ ~Windows!Process
           /\ wdirs' = [wdirs EXCEPT !["previous"] = wdirs["bin"], !["bin"] = None]
           /\ wproc' = [wproc EXCEPT ![p].movedOld = TRUE, ![p].pc = "moveNew"]
    <2>1. wdirs'["previous"] = wdirs["bin"] /\ wdirs'["bin"] = None /\ SameDirs({"bin", "previous"})
        BY <1>2 DEF SameDirs, Windows!Places
    <2>2. /\ Only(p) /\ Kept(p, {"had", "movedNew", "disabled", "remove"})
          /\ wproc'[p].pc = "moveNew" /\ wproc'[p].movedOld
        <3> DEFINE mid == [wproc EXCEPT ![p].movedOld = TRUE]
        <3>1. /\ DOMAIN mid = Windows!Procs /\ \A q \in Windows!Procs : DOMAIN mid[q] = Fields
              /\ \A q \in Windows!Procs : q # p => mid[q] = wproc[q]
            BY DEF Typed, Fields
        <3>2. /\ mid[p].movedOld = TRUE
              /\ mid[p].had = wproc[p].had /\ mid[p].movedNew = wproc[p].movedNew
              /\ mid[p].disabled = wproc[p].disabled /\ mid[p].remove = wproc[p].remove
            BY DEF Typed, Fields
        <3>3. wproc' = [mid EXCEPT ![p].pc = "moveNew"]
            BY <1>2
        <3> HIDE DEF mid
        <3>4. /\ DOMAIN wproc' = Windows!Procs
              /\ \A q \in Windows!Procs : DOMAIN wproc'[q] = Fields /\ (q # p => wproc'[q] = mid[q])
              /\ wproc'[p].pc = "moveNew" /\ wproc'[p].had = mid[p].had /\ wproc'[p].movedOld = mid[p].movedOld
              /\ wproc'[p].movedNew = mid[p].movedNew /\ wproc'[p].disabled = mid[p].disabled
              /\ wproc'[p].remove = mid[p].remove
            BY <3>1, <3>3 DEF Fields
        <3>5. Kept(p, {"had", "movedNew", "disabled", "remove"}) /\ wproc'[p].pc = "moveNew" /\ wproc'[p].movedOld
            BY <3>1, <3>2, <3>4 DEF Kept
        <3>6. ASSUME NEW q \in Windows!Procs
              PROVE  /\ {wproc'[q].had, wproc'[q].movedOld, wproc'[q].movedNew} \subseteq BOOLEAN
                     /\ {wproc'[q].disabled, wproc'[q].remove} \subseteq BOOLEAN
            <4>1. CASE q = p
                BY <4>1, <3>1, <3>2, <3>4 DEF Typed
            <4>2. CASE q # p
                BY <4>2, <3>1, <3>4 DEF Typed
            <4> QED BY <4>1, <4>2
        <3> QED BY <3>1, <3>4, <3>5, <3>6 DEF Only, Typed
    <2> QED BY <1>2, <2>1, <2>2 DEF Windows!MoveOld, ThreadStays, Windows!Served, Windows!Serving,
       Windows!Quiet, Windows!files, Windows!Reply
<1> QED BY <1>1, <1>2 DEF Windows!MoveOld

LEMMA MoveNewFx ==
    ASSUME Typed, DOMAIN wdirs = Windows!Places, NEW p \in Windows!Procs, Windows!MoveNew(p)
    PROVE  /\ wproc[p].pc = "moveNew" /\ Only(p) /\ wproc'[p].pc = "register" /\ wproc'[p].movedNew
           /\ Kept(p, {"had", "movedOld", "disabled", "remove"})
           /\ wdirs'["bin"] = wdirs["staging"] /\ wdirs'["staging"] = None
           /\ SameDirs({"bin", "staging"})
           /\ ThreadStays /\ UNCHANGED <<wsvc, wenabled, wlock, wkills, winstalls, waborted>> /\ wsaid' = None
<1>1. /\ wdirs' = [wdirs EXCEPT !["bin"] = wdirs["staging"], !["staging"] = None]
      /\ wproc' = [wproc EXCEPT ![p].movedNew = TRUE, ![p].pc = "register"]
    BY DEF Windows!MoveNew
<1>2. wdirs'["bin"] = wdirs["staging"] /\ wdirs'["staging"] = None /\ SameDirs({"bin", "staging"})
    BY <1>1 DEF SameDirs, Windows!Places
<1>3. /\ Only(p) /\ Kept(p, {"had", "movedOld", "disabled", "remove"})
      /\ wproc'[p].pc = "register" /\ wproc'[p].movedNew
    <2> DEFINE mid == [wproc EXCEPT ![p].movedNew = TRUE]
    <2>1. /\ DOMAIN mid = Windows!Procs /\ \A q \in Windows!Procs : DOMAIN mid[q] = Fields
          /\ \A q \in Windows!Procs : q # p => mid[q] = wproc[q]
        BY DEF Typed, Fields
    <2>2. /\ mid[p].movedNew = TRUE
          /\ mid[p].had = wproc[p].had /\ mid[p].movedOld = wproc[p].movedOld
          /\ mid[p].disabled = wproc[p].disabled /\ mid[p].remove = wproc[p].remove
        BY DEF Typed, Fields
    <2>3. wproc' = [mid EXCEPT ![p].pc = "register"]
        BY <1>1
    <2> HIDE DEF mid
    <2>4. /\ DOMAIN wproc' = Windows!Procs
          /\ \A q \in Windows!Procs : DOMAIN wproc'[q] = Fields /\ (q # p => wproc'[q] = mid[q])
          /\ wproc'[p].pc = "register" /\ wproc'[p].had = mid[p].had /\ wproc'[p].movedOld = mid[p].movedOld
          /\ wproc'[p].movedNew = mid[p].movedNew /\ wproc'[p].disabled = mid[p].disabled
          /\ wproc'[p].remove = mid[p].remove
        BY <2>1, <2>3 DEF Fields
    <2>5. Kept(p, {"had", "movedOld", "disabled", "remove"}) /\ wproc'[p].pc = "register" /\ wproc'[p].movedNew
        BY <2>1, <2>2, <2>4 DEF Kept
    <2>6. ASSUME NEW q \in Windows!Procs
          PROVE  /\ {wproc'[q].had, wproc'[q].movedOld, wproc'[q].movedNew} \subseteq BOOLEAN
                 /\ {wproc'[q].disabled, wproc'[q].remove} \subseteq BOOLEAN
        <3>1. CASE q = p
            BY <3>1, <2>1, <2>2, <2>4 DEF Typed
        <3>2. CASE q # p
            BY <3>2, <2>1, <2>4 DEF Typed
        <3> QED BY <3>1, <3>2
    <2> QED BY <2>1, <2>4, <2>5, <2>6 DEF Only, Typed
<1> QED BY <1>2, <1>3 DEF Windows!MoveNew, ThreadStays, Windows!Served, Windows!Serving,
       Windows!Quiet, Windows!files, Windows!Reply

LEMMA RegisterFx ==
    ASSUME Typed, NEW p \in Windows!Procs, Windows!Register(p)
    PROVE  /\ wproc[p].pc = "register" /\ Only(p) /\ wproc'[p].pc = "start" /\ ~wproc'[p].disabled
           /\ Kept(p, {"had", "movedOld", "movedNew", "remove"})
           /\ wsvc' = (IF wsvc = "absent" THEN "stopped" ELSE wsvc) /\ wenabled' = TRUE
           /\ ThreadStays /\ UNCHANGED <<wdirs, wlock, wkills, winstalls, waborted>> /\ wsaid' = None
BY DEF Windows!Register, Typed, Only, Kept, Fields, ThreadStays, Windows!Served, Windows!Serving,
       Windows!Quiet, Windows!files, Windows!Reply

LEMMA FinishFx ==
    ASSUME Typed, DOMAIN wdirs = Windows!Places, NEW p \in Windows!Procs, Windows!Finish(p)
    PROVE  /\ wproc[p].pc = "start" /\ wsvc \in {"stopped", "running"} /\ wsvc' = "running"
           /\ Left(p) /\ SameDirs({"previous"})
           /\ wdirs'["previous"] = IF wproc[p].had THEN None ELSE wdirs["previous"]
           /\ ThreadStays /\ UNCHANGED <<wkills, winstalls, waborted>> /\ wsaid' = None
BY FieldsRest DEF Windows!Finish, Windows!Leave, Left, SameDirs, Windows!Places, ThreadStays,
       Windows!Served, Windows!Serving, Windows!Quiet, Windows!files, Windows!Reply

LEMMA ThrowFx ==
    ASSUME Typed, NEW p \in Windows!Procs, Windows!Throw(p)
    PROVE  /\ wproc[p].pc \in {"moveOld", "moveNew", "register", "start"}
           /\ Only(p) /\ wproc'[p].pc = "catch" /\ ~wproc'[p].disabled
           /\ Kept(p, {"had", "movedOld", "movedNew", "remove"})
           /\ wenabled' = (wenabled \/ wproc[p].disabled)
           /\ ThreadStays /\ UNCHANGED <<wsvc, wdirs, wlock, wkills, winstalls, waborted>> /\ wsaid' = None
BY DEF Windows!Throw, Typed, Only, Kept, Fields, ThreadStays, Windows!Served, Windows!Serving,
       Windows!Quiet, Windows!files, Windows!Reply

LEMMA UndoNewFx ==
    ASSUME Typed, DOMAIN wdirs = Windows!Places, NEW p \in Windows!Procs, Windows!UndoNew(p)
    PROVE  /\ wproc[p].pc = "undo"
           /\ \/ /\ wproc[p].movedNew /\ Windows!Process /\ Left(p) /\ waborted' = TRUE
                 /\ wdirs'["bin"] = Torn
              \/ /\ ~(wproc[p].movedNew /\ Windows!Process)
                 /\ Only(p) /\ Kept(p, Flags) /\ wproc'[p].pc = "restart"
                 /\ wdirs'["bin"] = (IF wproc[p].movedNew THEN None ELSE wdirs["bin"])
                 /\ UNCHANGED <<wenabled, wlock, waborted>>
           /\ SameDirs({"bin"})
           /\ ThreadStays /\ UNCHANGED <<wsvc, wkills, winstalls>> /\ wsaid' = None
<1>1. CASE wproc[p].movedNew /\ Windows!Process
    BY <1>1, FieldsRest, DirMoves DEF Windows!UndoNew, Windows!Leave, Left, Windows!Places,
       ThreadStays, Windows!Served, Windows!Serving, Windows!Quiet, Windows!files, Windows!Reply
<1>2. CASE ~(wproc[p].movedNew /\ Windows!Process)
    <2>1. /\ wdirs' = IF wproc[p].movedNew THEN [wdirs EXCEPT !["bin"] = None] ELSE wdirs
          /\ wproc' = [wproc EXCEPT ![p].pc = "restart"] /\ UNCHANGED <<wenabled, wlock, waborted>>
        BY <1>2 DEF Windows!UndoNew, Windows!Step
    <2>2. SameDirs({"bin"}) /\ wdirs'["bin"] = IF wproc[p].movedNew THEN None ELSE wdirs["bin"]
        BY <2>1 DEF SameDirs, Windows!Places
    <2> QED BY <1>2, <2>1, <2>2, FieldsMove DEF Windows!UndoNew, ThreadStays, Windows!Served,
       Windows!Serving, Windows!Quiet, Windows!files, Windows!Reply
<1> QED BY <1>1, <1>2

LEMMA UndoNewEnds ==
    ASSUME Typed, DOMAIN wdirs = Windows!Places, NEW p \in Windows!Procs, Windows!UndoNew(p)
    PROVE  /\ wproc[p].pc = "undo" /\ Only(p) /\ ThreadStays
           /\ \/ Left(p)
              \/ Kept(p, Flags) /\ wproc'[p].pc = "restart" /\ wlock' = wlock
BY UndoNewFx DEF Left

LEMMA UndoOldFx ==
    ASSUME Typed, DOMAIN wdirs = Windows!Places, NEW p \in Windows!Procs, Windows!UndoOld(p)
    PROVE  /\ wproc[p].pc = "restart" /\ Left(p) /\ SameDirs({"bin", "previous"})
           /\ \/ /\ wproc[p].had /\ wproc[p].movedOld
                 /\ wdirs'["bin"] = wdirs["previous"] /\ wdirs'["previous"] = None
              \/ ~(wproc[p].had /\ wproc[p].movedOld) /\ SameDirs({})
           /\ \/ ~wproc[p].had /\ wsvc' = IF Windows!Process THEN wsvc ELSE "absent"
              \/ wproc[p].had /\ wsvc' = IF wsvc = "stopped" THEN "running" ELSE wsvc
           /\ ThreadStays /\ UNCHANGED <<wkills, winstalls, waborted>> /\ wsaid' = None
<1>1. Left(p)
    BY FieldsRest DEF Windows!UndoOld, Windows!Leave, Left
<1>2. /\ SameDirs({"bin", "previous"})
      /\ \/ /\ wproc[p].had /\ wproc[p].movedOld
            /\ wdirs'["bin"] = wdirs["previous"] /\ wdirs'["previous"] = None
         \/ ~(wproc[p].had /\ wproc[p].movedOld) /\ SameDirs({})
    BY DEF Windows!UndoOld, SameDirs, Windows!Places
<1> QED BY <1>1, <1>2 DEF Windows!UndoOld, ThreadStays, Windows!Served, Windows!Serving,
       Windows!Quiet, Windows!files, Windows!Reply

LEMMA DeleteFx ==
    ASSUME Typed, NEW p \in Windows!Procs, Windows!Delete(p)
    PROVE  /\ wproc[p].pc = "delete" /\ ~Windows!Process /\ wsvc' = "absent" /\ Left(p)
           /\ DOMAIN wdirs' = Windows!Places
           /\ \A d \in Windows!Places : wdirs'[d] \in {wdirs[d], None}
           /\ wproc["helper"].pc = "none" => \A d \in Windows!Places : wdirs'[d] = None
           /\ ThreadStays /\ UNCHANGED <<wkills, winstalls, waborted>> /\ wsaid' = None
<1>1. Left(p)
    BY FieldsRest DEF Windows!Delete, Windows!Leave, Left
<1>2. PICK kept \in IF wproc["helper"].pc = "none" THEN {{}} ELSE SUBSET Windows!Places :
          wdirs' = [d \in Windows!Places |-> IF d \in kept THEN wdirs[d] ELSE None]
    BY DEF Windows!Delete
<1> QED BY <1>1, <1>2 DEF Windows!Delete, ThreadStays, Windows!Served, Windows!Serving,
       Windows!Quiet, Windows!files, Windows!Reply

LEMMA KillFx ==
    ASSUME Typed, NEW p \in Windows!Procs, Windows!Kill(p)
    PROVE  /\ wproc[p].pc # "none" /\ wkills' = wkills + 1 /\ wkills < MaxKills
           /\ Only(p) /\ Rests(p) /\ wlock' = IF wlock = p THEN None ELSE wlock
           /\ ThreadStays /\ UNCHANGED <<wsvc, wdirs, wenabled, winstalls, waborted>> /\ wsaid' = None
BY FieldsRest DEF Windows!Kill, ThreadStays, Windows!Served, Windows!Serving, Windows!Quiet,
       Windows!files, Windows!Reply

LEMMA ElevateFx ==
    ASSUME Typed, NEW remove \in BOOLEAN, Windows!Elevate(remove)
    PROVE  /\ wproc["admin"].pc = "none" /\ Only("admin") /\ wproc'["admin"].pc = "lock"
           /\ ~wproc'["admin"].had /\ ~wproc'["admin"].movedOld /\ ~wproc'["admin"].movedNew
           /\ ~wproc'["admin"].disabled /\ wproc'["admin"].remove = remove
           /\ winstalls' = winstalls + 1 /\ winstalls < MaxInstalls
           /\ ThreadStays /\ UNCHANGED <<wsvc, wdirs, wenabled, wlock, wkills, waborted>> /\ wsaid' = None
BY DEF Windows!Elevate, Typed, Only, Fields, Windows!Resting, Windows!Procs, ThreadStays,
       Windows!Served, Windows!Serving, Windows!Quiet, Windows!files, Windows!Reply

LEMMA StartHelperFx ==
    ASSUME Typed, Windows!StartHelper
    PROVE  /\ wat = "updater" /\ wproc["helper"].pc = "none"
           /\ Only("helper") /\ wproc'["helper"].pc = "gate"
           /\ ~wproc'["helper"].had /\ ~wproc'["helper"].movedOld /\ ~wproc'["helper"].movedNew
           /\ ~wproc'["helper"].disabled /\ ~wproc'["helper"].remove
           /\ whandle' = TRUE /\ wlock' = None /\ wat' = "reply" /\ wsaid' = None
           /\ UNCHANGED <<wsvc, wserving, wheld, wlive, wcalls, wcrashes, wdirs, wenabled, wkills,
                          winstalls, waborted>>
BY DEF Windows!StartHelper, Typed, Only, Fields, Windows!Resting, Windows!Procs, ThreadStays,
       Windows!Served, Windows!Serving, Windows!Quiet, Windows!files, Windows!Reply

LEMMA AnswerUpgradeFx ==
    ASSUME Typed, NEW written \in BOOLEAN, Windows!AnswerUpgrade(written)
    PROVE  /\ wat = "reply" /\ Only("helper") /\ Kept("helper", Flags)
           /\ wproc'["helper"].pc = IF written /\ wproc["helper"].pc = "gate" THEN "lock"
                                    ELSE wproc["helper"].pc
           /\ wserving' = None /\ wat' = "idle" /\ wheld' = (wheld /\ wlive # None)
           /\ wsaid' = [op |-> wserving.op, ok |-> TRUE]
           /\ UNCHANGED <<wsvc, wlive, whandle, wcalls, wcrashes, wdirs, wenabled, wlock, wkills,
                          winstalls, waborted>>
<1>1. CASE written /\ wproc["helper"].pc = "gate"
    <2>1. wproc' = [wproc EXCEPT !["helper"].pc = "lock"]
        BY <1>1 DEF Windows!AnswerUpgrade
    <2>2. Only("helper") /\ Kept("helper", Flags) /\ wproc'["helper"].pc = "lock"
        BY <2>1, FieldsMove DEF Windows!Procs
    <2> QED BY <1>1, <2>2 DEF Windows!AnswerUpgrade, ThreadStays, Windows!Served, Windows!Serving,
       Windows!Quiet, Windows!files, Windows!Reply
<1>2. CASE ~(written /\ wproc["helper"].pc = "gate")
    <2>1. wproc' = wproc
        BY <1>2 DEF Windows!AnswerUpgrade
    <2>2. Only("helper") /\ Kept("helper", Flags) /\ wproc'["helper"].pc = wproc["helper"].pc
        BY <2>1 DEF Typed, Only, Kept
    <2> QED BY <1>2, <2>2 DEF Windows!AnswerUpgrade, ThreadStays, Windows!Served, Windows!Serving,
       Windows!Quiet, Windows!files, Windows!Reply
<1> QED BY <1>1, <1>2

LEMMA Shape ==
    ASSUME ServiceInv
    PROVE  Typed /\ DOMAIN wdirs = Windows!Places
BY DEF ServiceInv, MutexInv, Windows!TypeOK, Typed

\* An installer that holds the lock is the only one with anything in its hands.
LEMMA OthersPlaced ==
    ASSUME ServiceInv, NEW p \in Windows!Procs, Only(p), wproc[p].pc \in Holding,
           NEW q \in Windows!Procs, q # p
    PROVE  Placed(q)'
<1>1. wlock = p /\ wproc'[q] = wproc[q] /\ wproc[q].pc \notin Holding
    BY DEF ServiceInv, MutexInv, Only
<1>2. wproc'[q].pc \notin Holding
    BY <1>1
<1> QED BY <1>2 DEF Placed, Holding

LEMMA StartHelperPlaces ==
    ASSUME ServiceInv, Windows!StartHelper
    PROVE  PlacedInv'
<1>1. /\ wproc'["helper"].pc = "gate" /\ wproc'["admin"] = wproc["admin"]
      /\ UNCHANGED <<wsvc, wdirs, wkills, waborted>>
    BY Shape, StartHelperFx DEF Only, Windows!Procs
<1>2. Placed("helper")'
    BY <1>1 DEF Placed
<1>3. Undisturbed' => Undisturbed
    BY <1>1 DEF Undisturbed
<1>4. Undisturbed => Placed("admin")
    BY DEF ServiceInv, PayloadInv, PlacedInv, Windows!Procs
<1>5. Placed("admin") => Placed("admin")'
    BY <1>1 DEF Placed, Moved
<1> QED BY <1>2, <1>3, <1>4, <1>5 DEF PlacedInv, Windows!Procs

LEMMA RegisterPlaces ==
    ASSUME ServiceInv, NEW p \in Windows!Procs, Windows!Register(p)
    PROVE  PlacedInv'
<1>1. /\ wproc[p].pc = "register" /\ Only(p) /\ wproc'[p].pc = "start"
      /\ Kept(p, {"had", "movedOld", "movedNew", "remove"})
      /\ wsvc' = (IF wsvc = "absent" THEN "stopped" ELSE wsvc)
      /\ UNCHANGED <<wdirs, wkills, waborted>>
    BY Shape, RegisterFx
<1>2. Undisturbed' => Undisturbed
    BY <1>1 DEF Undisturbed
<1>3. Undisturbed => wproc[p].movedNew /\ wdirs["bin"] \in Windows!Versions /\ Moved(p)
    BY <1>1 DEF ServiceInv, PayloadInv, PlacedInv, Placed
<1>4. Undisturbed => Placed(p)'
    BY <1>1, <1>3, Apart DEF Kept, Placed, Moved
<1> QED BY <1>1, <1>2, <1>4, OthersPlaced DEF PlacedInv, Holding

LEMMA UndoNewPlaces ==
    ASSUME ServiceInv, NEW p \in Windows!Procs, Windows!UndoNew(p)
    PROVE  PlacedInv'
<1>1. /\ wproc[p].pc = "undo" /\ Only(p) /\ wsvc' = wsvc /\ wkills' = wkills
      /\ \/ waborted' = TRUE
         \/ /\ ~(wproc[p].movedNew /\ Windows!Process) /\ waborted' = waborted
            /\ Kept(p, Flags) /\ wproc'[p].pc = "restart"
            /\ wdirs'["bin"] = (IF wproc[p].movedNew THEN None ELSE wdirs["bin"])
            /\ wdirs'["previous"] = wdirs["previous"]
    <2>1. Typed /\ DOMAIN wdirs = Windows!Places
        BY Shape
    <2>2. wdirs'["previous"] = wdirs["previous"]
        BY <2>1, UndoNewFx DEF SameDirs, Windows!Places
    <2>3. Only(p)
        BY <2>1, UndoNewEnds
    <2> QED BY <2>1, <2>2, <2>3, UndoNewFx
<1>2. CASE waborted' = TRUE
    BY <1>2 DEF PlacedInv, Undisturbed
<1>3. CASE /\ ~(wproc[p].movedNew /\ Windows!Process) /\ waborted' = waborted
           /\ Kept(p, Flags) /\ wproc'[p].pc = "restart"
           /\ wdirs'["bin"] = (IF wproc[p].movedNew THEN None ELSE wdirs["bin"])
           /\ wdirs'["previous"] = wdirs["previous"]
    <2>1. Undisturbed' => Undisturbed
        BY <1>1, <1>3 DEF Undisturbed
    <2>2. Undisturbed => Moved(p) /\ (wproc[p].movedNew => wdirs["bin"] \in Windows!Versions)
        BY <1>1 DEF ServiceInv, PayloadInv, PlacedInv, Placed
    <2>3. wsvc \in {"absent", "stopped", "running", "stopping"}
        BY DEF ServiceInv, Windows!TypeOK
    <2>4. Undisturbed => Placed(p)'
        BY <1>1, <1>3, <2>2, <2>3, Apart DEF Kept, Flags, Placed, Moved, Windows!Process
    <2> QED BY <1>1, <2>1, <2>4, OthersPlaced DEF PlacedInv, Holding
<1> QED BY <1>1, <1>2, <1>3

\* The type invariant in parts.
DirsOK == wdirs \in [Windows!Places -> Windows!Versions \cup {None, Torn}]
ProcsOK ==
    \A p \in Windows!Procs :
        wproc[p].pc \in {"none", "gate", "lock", "stage", "copy", "prune", "stop", "moveOld",
                         "moveNew", "register", "start", "catch", "undo", "restart", "delete"}
ThreadOK ==
    /\ wsvc \in {"absent", "stopped", "running", "stopping"} /\ wenabled \in BOOLEAN
    /\ wlock \in {None, "service"} \cup Windows!Procs
    /\ whandle \in BOOLEAN /\ waborted \in BOOLEAN
    /\ wserving \in Windows!Command \cup {None} /\ wheld \in BOOLEAN /\ wlive \in Configs \cup {None}
    /\ wat \in {"idle", "read", "term", "create", "watch", "stopped", "validate", "copy", "updater",
                "reply"}
    /\ wcalls \in 0 .. MaxCalls /\ wcrashes \in 0 .. MaxCrashes /\ wkills \in 0 .. MaxKills
    /\ winstalls \in 0 .. MaxInstalls
    /\ wsaid \in [op : Windows!Ops, ok : BOOLEAN] \cup {None}

LEMMA TypeParts ==
    ASSUME Typed
    PROVE  Windows!TypeOK <=> DirsOK /\ ProcsOK /\ ThreadOK
BY DEF Windows!TypeOK, DirsOK, ProcsOK, ThreadOK, Typed

LEMMA ReplyTyped ==
    ASSUME ServiceInv, NEW ok \in BOOLEAN, Windows!Reply(ok), wat # "idle"
    PROVE  /\ wsaid' \in [op : Windows!Ops, ok : BOOLEAN] \cup {None}
           /\ wheld' \in BOOLEAN /\ wserving' = None /\ wat' = "idle"
<1>1. wserving \in Windows!Command
    BY DEF ServiceInv, ThreadInv, Windows!TypeOK
<1>2. wserving.op \in Windows!Ops
    BY <1>1 DEF Windows!Command
<1>3. wheld' \in BOOLEAN
    BY DEF Windows!Reply
<1> QED BY <1>2, <1>3 DEF Windows!Reply

LEMMA FlagsAre ==
    ASSUME Typed, NEW p \in Windows!Procs, wenabled \in BOOLEAN
    PROVE  /\ (wenabled \/ wproc[p].disabled) \in BOOLEAN
           /\ (wenabled /\ ~(p = "helper" /\ wsvc # "absent")) \in BOOLEAN
OBVIOUS

LEMMA TypedStays == Typed /\ wproc' = wproc => Typed'
BY DEF Typed

LEMMA ServingIs ==
    ASSUME ServiceInv, wat # "idle"
    PROVE  wserving \in Windows!Command /\ wserving.config \in Configs \cup {None}
<1>1. wserving \in Windows!Command
    BY DEF ServiceInv, ThreadInv, Windows!TypeOK
<1> QED BY <1>1 DEF Windows!Command

LEMMA EnabledTyped ==
    ASSUME Typed, DOMAIN wdirs = Windows!Places, wenabled \in BOOLEAN, waborted \in BOOLEAN,
           NEW p \in Windows!Procs, Windows!Prune(p) \/ Windows!UndoNew(p)
    PROVE  wenabled' \in BOOLEAN /\ waborted' \in BOOLEAN
<1>1. CASE Windows!Prune(p)
    BY <1>1, PruneFx, FlagsAre
<1>2. CASE Windows!UndoNew(p)
    BY <1>2, UndoNewFx, FlagsAre DEF Left
<1> QED BY <1>1, <1>2

----------------------------------------------------------------------------
\* The steps of the Windows service and its installers keep theirs.

LEMMA ThreadKeeps ==
    ASSUME ServiceInv, [Windows!Next]_windows
    PROVE  ThreadInv'
<1> USE Apart DEF ServiceInv, ThreadInv, Sensible, Preparing, Windows!TypeOK,
       Windows!KernelIsHeld, Windows!service, Windows!files, Windows!Quiet, Windows!Reply,
       Windows!Served, Windows!Serving, Windows!Process
<1>1. CASE Windows!Refuse
    BY <1>1 DEF Windows!Refuse
<1>2. CASE Windows!BeginStop
    BY <1>2 DEF Windows!BeginStop
<1>3. CASE Windows!ConfirmExit
    BY <1>3 DEF Windows!ConfirmExit
<1>4. CASE Windows!StopFails
    BY <1>4 DEF Windows!StopFails
<1>5. CASE Windows!CreateCore
    BY <1>5 DEF Windows!CreateCore
<1>6. CASE Windows!CreateFails
    BY <1>6 DEF Windows!CreateFails
<1>7. CASE Windows!Answer
    BY <1>7 DEF Windows!Answer
<1>8. CASE Windows!Reap
    BY <1>8 DEF Windows!Reap
<1>9. CASE Windows!TakeLock
    BY <1>9 DEF Windows!TakeLock
<1>10. CASE Windows!StageSource
    BY <1>10 DEF Windows!StageSource
<1>11. CASE Windows!SourceStaged
    BY <1>11 DEF Windows!SourceStaged
<1>12. CASE Windows!StartHelper
    BY <1>12 DEF Windows!StartHelper
<1>13. CASE Windows!UpgradeThrows
    BY <1>13 DEF Windows!UpgradeThrows
<1>14. CASE Windows!ServiceEnds
    BY <1>14 DEF Windows!ServiceEnds
<1>15. ASSUME NEW written \in BOOLEAN, Windows!AnswerUpgrade(written) PROVE ThreadInv'
    BY <1>15 DEF Windows!AnswerUpgrade
<1>16. CASE Windows!ServiceCrashes
    BY <1>16 DEF Windows!ServiceCrashes
<1>17. CASE Windows!ScmStart
    BY <1>17 DEF Windows!ScmStart, Windows!Started
<1>18. CASE Windows!KernelExits
    BY <1>18 DEF Windows!KernelExits
<1>19. ASSUME NEW op \in Windows!Ops, NEW f \in Configs \cup {None}, Windows!Serve(op, f)
      PROVE ThreadInv'
    <2>1. [op |-> op, config |-> f] \in Windows!Command
        BY DEF Windows!Command
    <2>2. /\ wserving' = [op |-> op, config |-> f] /\ (op = "START") = (f # None)
          /\ wat' = "read" /\ wsvc = "running" /\ UNCHANGED <<wsvc, wheld, wlive, whandle>>
        BY <1>19 DEF Windows!Serve, Windows!Ops
    <2>3. wserving' # None /\ Sensible(wserving')
        BY <2>1, <2>2
    <2> QED BY <2>2, <2>3
<1>20. ASSUME NEW remove \in BOOLEAN, Windows!Elevate(remove) PROVE ThreadInv'
    BY <1>20 DEF Windows!Elevate
<1>21. ASSUME NEW p \in Windows!Procs, Windows!Lock(p) PROVE ThreadInv'
    BY <1>21 DEF Windows!Lock, Windows!Step
<1>22. ASSUME NEW p \in Windows!Procs, Windows!Stage(p) PROVE ThreadInv'
    BY <1>22 DEF Windows!Stage, Windows!Step
<1>23. ASSUME NEW p \in Windows!Procs, Windows!Staged(p) PROVE ThreadInv'
    BY <1>23 DEF Windows!Staged, Windows!Step
<1>24. ASSUME NEW p \in Windows!Procs, Windows!Prune(p) PROVE ThreadInv'
    BY <1>24 DEF Windows!Prune
<1>25. ASSUME NEW p \in Windows!Procs, Windows!AskStop(p) PROVE ThreadInv'
    BY <1>25 DEF Windows!AskStop
<1>26. ASSUME NEW p \in Windows!Procs, Windows!SeeStopped(p) PROVE ThreadInv'
    BY <1>26 DEF Windows!SeeStopped, Windows!Step
<1>27. ASSUME NEW p \in Windows!Procs, Windows!StopTimesOut(p) PROVE ThreadInv'
    BY <1>27 DEF Windows!StopTimesOut, Windows!Leave
<1>28. ASSUME NEW p \in Windows!Procs, Windows!MoveOld(p) PROVE ThreadInv'
    BY <1>28 DEF Windows!MoveOld, Windows!Step
<1>29. ASSUME NEW p \in Windows!Procs, Windows!MoveNew(p) PROVE ThreadInv'
    BY <1>29 DEF Windows!MoveNew
<1>30. ASSUME NEW p \in Windows!Procs, Windows!Register(p) PROVE ThreadInv'
    BY <1>30 DEF Windows!Register
<1>31. ASSUME NEW p \in Windows!Procs, Windows!Finish(p) PROVE ThreadInv'
    BY <1>31 DEF Windows!Finish, Windows!Leave
<1>32. ASSUME NEW p \in Windows!Procs, Windows!Throw(p) PROVE ThreadInv'
    BY <1>32 DEF Windows!Throw
<1>33. ASSUME NEW p \in Windows!Procs, Windows!UndoNew(p) PROVE ThreadInv'
    BY <1>33 DEF Windows!UndoNew, Windows!Leave, Windows!Step
<1>34. ASSUME NEW p \in Windows!Procs, Windows!UndoOld(p) PROVE ThreadInv'
    BY <1>34 DEF Windows!UndoOld, Windows!Leave
<1>35. ASSUME NEW p \in Windows!Procs, Windows!Delete(p) PROVE ThreadInv'
    BY <1>35 DEF Windows!Delete, Windows!Leave
<1>36. ASSUME NEW p \in Windows!Procs, Windows!Fail(p) PROVE ThreadInv'
    BY <1>36 DEF Windows!Fail, Windows!Leave
<1>37. ASSUME NEW p \in Windows!Procs, Windows!Kill(p) PROVE ThreadInv'
    BY <1>37 DEF Windows!Kill
<1>38. CASE UNCHANGED windows
    BY <1>38 DEF windows
<1> QED BY <1>1, <1>2, <1>3, <1>4, <1>5, <1>6, <1>7, <1>8, <1>9, <1>10, <1>11, <1>12, <1>13,
           <1>14, <1>15, <1>16, <1>17, <1>18, <1>19, <1>20, <1>21, <1>22, <1>23, <1>24, <1>25,
           <1>26, <1>27, <1>28, <1>29, <1>30, <1>31, <1>32, <1>33, <1>34, <1>35, <1>36, <1>37,
           <1>38 DEF Windows!Next, Windows!Thread, Windows!Installer

LEMMA MutexKeeps ==
    ASSUME ServiceInv, [Windows!Next]_windows
    PROVE  MutexInv'
<1> USE Apart DEF ServiceInv, MutexInv, ThreadInv, Fields, Preparing, Holding, Windows!TypeOK,
       Windows!Procs, Only, Typed, Kept, Flags, Rests, Left, SameDirs, ThreadStays,
       Windows!service, Windows!files, Windows!Quiet, Windows!Reply, Windows!Served,
       Windows!Serving, Windows!Process
<1>0. Typed /\ DOMAIN wdirs = Windows!Places
    BY Shape
<1> USE <1>0
<1>1. CASE Windows!Refuse
    BY <1>1 DEF Windows!Refuse
<1>2. CASE Windows!BeginStop
    BY <1>2 DEF Windows!BeginStop
<1>3. CASE Windows!ConfirmExit
    BY <1>3 DEF Windows!ConfirmExit
<1>4. CASE Windows!StopFails
    BY <1>4 DEF Windows!StopFails
<1>5. CASE Windows!CreateCore
    BY <1>5 DEF Windows!CreateCore
<1>6. CASE Windows!CreateFails
    BY <1>6 DEF Windows!CreateFails
<1>7. CASE Windows!Answer
    BY <1>7 DEF Windows!Answer
<1>8. CASE Windows!Reap
    BY <1>8 DEF Windows!Reap
<1>9. CASE Windows!TakeLock
    BY <1>9 DEF Windows!TakeLock
<1>10. CASE Windows!StageSource
    BY <1>10 DEF Windows!StageSource
<1>11. CASE Windows!SourceStaged
    BY <1>11 DEF Windows!SourceStaged
<1>12. CASE Windows!StartHelper
    BY ZenonT(40), <1>12, StartHelperFx
<1>13. CASE Windows!UpgradeThrows
    BY <1>13 DEF Windows!UpgradeThrows
<1>14. CASE Windows!ServiceEnds
    BY <1>14 DEF Windows!ServiceEnds
<1>15. ASSUME NEW written \in BOOLEAN, Windows!AnswerUpgrade(written) PROVE MutexInv'
    BY <1>15, AnswerUpgradeFx
<1>16. CASE Windows!ServiceCrashes
    BY <1>16 DEF Windows!ServiceCrashes
<1>17. CASE Windows!ScmStart
    BY <1>17 DEF Windows!ScmStart, Windows!Started
<1>18. CASE Windows!KernelExits
    BY <1>18 DEF Windows!KernelExits
<1>19. ASSUME NEW op \in Windows!Ops, NEW f \in Configs \cup {None}, Windows!Serve(op, f)
      PROVE MutexInv'
    BY <1>19 DEF Windows!Serve, Windows!Ops
<1>20. ASSUME NEW remove \in BOOLEAN, Windows!Elevate(remove) PROVE MutexInv'
    BY <1>20, ElevateFx
<1>21. ASSUME NEW p \in Windows!Procs, Windows!Lock(p) PROVE MutexInv'
    BY <1>21, LockFx
<1>22. ASSUME NEW p \in Windows!Procs, Windows!Stage(p) PROVE MutexInv'
    BY <1>22, StageFx
<1>23. ASSUME NEW p \in Windows!Procs, Windows!Staged(p) PROVE MutexInv'
    BY <1>23, StagedFx
<1>24. ASSUME NEW p \in Windows!Procs, Windows!Prune(p) PROVE MutexInv'
    BY <1>24, PruneFx
<1>25. ASSUME NEW p \in Windows!Procs, Windows!AskStop(p) PROVE MutexInv'
    BY <1>25, AskStopFx
<1>26. ASSUME NEW p \in Windows!Procs, Windows!SeeStopped(p) PROVE MutexInv'
    BY <1>26, SeeStoppedFx
<1>27. ASSUME NEW p \in Windows!Procs, Windows!StopTimesOut(p) PROVE MutexInv'
    BY <1>27, StopTimesOutFx
<1>28. ASSUME NEW p \in Windows!Procs, Windows!MoveOld(p) PROVE MutexInv'
    BY <1>28, MoveOldFx
<1>29. ASSUME NEW p \in Windows!Procs, Windows!MoveNew(p) PROVE MutexInv'
    BY <1>29, MoveNewFx
<1>30. ASSUME NEW p \in Windows!Procs, Windows!Register(p) PROVE MutexInv'
    <2>1. CASE p = "helper"    BY ZenonT(40), <1>30, <2>1, RegisterFx
    <2>2. CASE p = "admin"     BY ZenonT(40), <1>30, <2>2, RegisterFx
    <2> QED BY <2>1, <2>2
<1>31. ASSUME NEW p \in Windows!Procs, Windows!Finish(p) PROVE MutexInv'
    BY <1>31, FinishFx
<1>32. ASSUME NEW p \in Windows!Procs, Windows!Throw(p) PROVE MutexInv'
    BY <1>32, ThrowFx
<1>33. ASSUME NEW p \in Windows!Procs, Windows!UndoNew(p) PROVE MutexInv'
    <2>1. /\ wproc[p].pc = "undo" /\ Only(p) /\ ThreadStays
          /\ \/ Left(p)
             \/ Kept(p, Flags) /\ wproc'[p].pc = "restart" /\ wlock' = wlock
        BY <1>33, UndoNewEnds
    <2>2. CASE Left(p) /\ p = "helper"    BY <2>1, <2>2
    <2>3. CASE Left(p) /\ p = "admin"     BY <2>1, <2>3
    <2>4. CASE Kept(p, Flags) /\ wproc'[p].pc = "restart" /\ wlock' = wlock
        BY <2>1, <2>4
    <2> QED BY <2>1, <2>2, <2>3, <2>4
<1>34. ASSUME NEW p \in Windows!Procs, Windows!UndoOld(p) PROVE MutexInv'
    BY <1>34, UndoOldFx
<1>35. ASSUME NEW p \in Windows!Procs, Windows!Delete(p) PROVE MutexInv'
    BY <1>35, DeleteFx
<1>36. ASSUME NEW p \in Windows!Procs, Windows!Fail(p) PROVE MutexInv'
    BY <1>36, FailFx
<1>37. ASSUME NEW p \in Windows!Procs, Windows!Kill(p) PROVE MutexInv'
    BY <1>37, KillFx
<1>38. CASE UNCHANGED windows
    BY <1>38 DEF windows
<1> QED BY <1>1, <1>2, <1>3, <1>4, <1>5, <1>6, <1>7, <1>8, <1>9, <1>10, <1>11, <1>12, <1>13,
           <1>14, <1>15, <1>16, <1>17, <1>18, <1>19, <1>20, <1>21, <1>22, <1>23, <1>24, <1>25,
           <1>26, <1>27, <1>28, <1>29, <1>30, <1>31, <1>32, <1>33, <1>34, <1>35, <1>36, <1>37,
           <1>38 DEF Windows!Next, Windows!Thread, Windows!Installer

LEMMA EnabledKeeps ==
    ASSUME ServiceInv, [Windows!Next]_windows
    PROVE  EnabledInv'
<1> USE Apart DEF ServiceInv, EnabledInv, MutexInv, Fields, Windows!TypeOK, Windows!Procs, Only,
       Typed, Kept, Flags, Rests, Left, SameDirs, ThreadStays, Windows!service, Windows!files,
       Windows!Quiet, Windows!Reply, Windows!Served, Windows!Serving, Windows!Process
<1>0. Typed /\ DOMAIN wdirs = Windows!Places
    BY Shape
<1> USE <1>0
<1>1. CASE Windows!Refuse
    BY <1>1 DEF Windows!Refuse
<1>2. CASE Windows!BeginStop
    BY <1>2 DEF Windows!BeginStop
<1>3. CASE Windows!ConfirmExit
    BY <1>3 DEF Windows!ConfirmExit
<1>4. CASE Windows!StopFails
    BY <1>4 DEF Windows!StopFails
<1>5. CASE Windows!CreateCore
    BY <1>5 DEF Windows!CreateCore
<1>6. CASE Windows!CreateFails
    BY <1>6 DEF Windows!CreateFails
<1>7. CASE Windows!Answer
    BY <1>7 DEF Windows!Answer
<1>8. CASE Windows!Reap
    BY <1>8 DEF Windows!Reap
<1>9. CASE Windows!TakeLock
    BY <1>9 DEF Windows!TakeLock
<1>10. CASE Windows!StageSource
    BY <1>10 DEF Windows!StageSource
<1>11. CASE Windows!SourceStaged
    BY <1>11 DEF Windows!SourceStaged
<1>12. CASE Windows!StartHelper
    BY <1>12, StartHelperFx
<1>13. CASE Windows!UpgradeThrows
    BY <1>13 DEF Windows!UpgradeThrows
<1>14. CASE Windows!ServiceEnds
    BY <1>14 DEF Windows!ServiceEnds
<1>15. ASSUME NEW written \in BOOLEAN, Windows!AnswerUpgrade(written) PROVE EnabledInv'
    BY <1>15, AnswerUpgradeFx
<1>16. CASE Windows!ServiceCrashes
    BY <1>16 DEF Windows!ServiceCrashes
<1>17. CASE Windows!ScmStart
    BY <1>17 DEF Windows!ScmStart, Windows!Started
<1>18. CASE Windows!KernelExits
    BY <1>18 DEF Windows!KernelExits
<1>19. ASSUME NEW op \in Windows!Ops, NEW f \in Configs \cup {None}, Windows!Serve(op, f)
      PROVE EnabledInv'
    BY <1>19 DEF Windows!Serve, Windows!Ops
<1>20. ASSUME NEW remove \in BOOLEAN, Windows!Elevate(remove) PROVE EnabledInv'
    BY <1>20, ElevateFx
<1>21. ASSUME NEW p \in Windows!Procs, Windows!Lock(p) PROVE EnabledInv'
    BY <1>21, LockFx
<1>22. ASSUME NEW p \in Windows!Procs, Windows!Stage(p) PROVE EnabledInv'
    BY <1>22, StageFx
<1>23. ASSUME NEW p \in Windows!Procs, Windows!Staged(p) PROVE EnabledInv'
    BY <1>23, StagedFx
<1>24. ASSUME NEW p \in Windows!Procs, Windows!Prune(p) PROVE EnabledInv'
    BY <1>24, PruneFx
<1>25. ASSUME NEW p \in Windows!Procs, Windows!AskStop(p) PROVE EnabledInv'
    BY <1>25, AskStopFx
<1>26. ASSUME NEW p \in Windows!Procs, Windows!SeeStopped(p) PROVE EnabledInv'
    BY <1>26, SeeStoppedFx
<1>27. ASSUME NEW p \in Windows!Procs, Windows!StopTimesOut(p) PROVE EnabledInv'
    BY <1>27, StopTimesOutFx
<1>28. ASSUME NEW p \in Windows!Procs, Windows!MoveOld(p) PROVE EnabledInv'
    BY <1>28, MoveOldFx
<1>29. ASSUME NEW p \in Windows!Procs, Windows!MoveNew(p) PROVE EnabledInv'
    BY <1>29, MoveNewFx
<1>30. ASSUME NEW p \in Windows!Procs, Windows!Register(p) PROVE EnabledInv'
    BY <1>30, RegisterFx
<1>31. ASSUME NEW p \in Windows!Procs, Windows!Finish(p) PROVE EnabledInv'
    BY <1>31, FinishFx
<1>32. ASSUME NEW p \in Windows!Procs, Windows!Throw(p) PROVE EnabledInv'
    BY <1>32, ThrowFx
<1>33. ASSUME NEW p \in Windows!Procs, Windows!UndoNew(p) PROVE EnabledInv'
    BY ZenonT(40), <1>33, UndoNewFx
<1>34. ASSUME NEW p \in Windows!Procs, Windows!UndoOld(p) PROVE EnabledInv'
    BY <1>34, UndoOldFx
<1>35. ASSUME NEW p \in Windows!Procs, Windows!Delete(p) PROVE EnabledInv'
    BY <1>35, DeleteFx
<1>36. ASSUME NEW p \in Windows!Procs, Windows!Fail(p) PROVE EnabledInv'
    BY <1>36, FailFx
<1>37. ASSUME NEW p \in Windows!Procs, Windows!Kill(p) PROVE EnabledInv'
    BY <1>37, KillFx
<1>38. CASE UNCHANGED windows
    BY <1>38 DEF windows
<1> QED BY <1>1, <1>2, <1>3, <1>4, <1>5, <1>6, <1>7, <1>8, <1>9, <1>10, <1>11, <1>12, <1>13,
           <1>14, <1>15, <1>16, <1>17, <1>18, <1>19, <1>20, <1>21, <1>22, <1>23, <1>24, <1>25,
           <1>26, <1>27, <1>28, <1>29, <1>30, <1>31, <1>32, <1>33, <1>34, <1>35, <1>36, <1>37,
           <1>38 DEF Windows!Next, Windows!Thread, Windows!Installer

LEMMA SourceKeeps ==
    ASSUME ServiceInv, [Windows!Next]_windows
    PROVE  SourceInv'
<1> USE Apart DEF ServiceInv, SourceInv, MutexInv, Fields, Preparing, Holding, Windows!TypeOK,
       Windows!Procs, Windows!Versions, Windows!Places, Only, Typed, Kept, Flags, Rests, Left,
       SameDirs, ThreadStays, Windows!service, Windows!files, Windows!Quiet, Windows!Reply,
       Windows!Served, Windows!Serving, Windows!Process
<1>0. Typed /\ DOMAIN wdirs = Windows!Places
    BY Shape
<1> USE <1>0
<1>1. CASE Windows!Refuse
    BY <1>1 DEF Windows!Refuse
<1>2. CASE Windows!BeginStop
    BY <1>2 DEF Windows!BeginStop
<1>3. CASE Windows!ConfirmExit
    BY <1>3 DEF Windows!ConfirmExit
<1>4. CASE Windows!StopFails
    BY <1>4 DEF Windows!StopFails
<1>5. CASE Windows!CreateCore
    BY <1>5 DEF Windows!CreateCore
<1>6. CASE Windows!CreateFails
    BY <1>6 DEF Windows!CreateFails
<1>7. CASE Windows!Answer
    BY <1>7 DEF Windows!Answer
<1>8. CASE Windows!Reap
    BY <1>8 DEF Windows!Reap
<1>9. CASE Windows!TakeLock
    BY <1>9 DEF Windows!TakeLock
<1>10. CASE Windows!StageSource
    BY <1>10 DEF Windows!StageSource
<1>11. CASE Windows!SourceStaged
    BY <1>11 DEF Windows!SourceStaged
<1>12. CASE Windows!StartHelper
    BY <1>12, StartHelperFx
<1>13. CASE Windows!UpgradeThrows
    BY <1>13 DEF Windows!UpgradeThrows
<1>14. CASE Windows!ServiceEnds
    BY <1>14 DEF Windows!ServiceEnds
<1>15. ASSUME NEW written \in BOOLEAN, Windows!AnswerUpgrade(written) PROVE SourceInv'
    BY <1>15, AnswerUpgradeFx
<1>16. CASE Windows!ServiceCrashes
    BY <1>16 DEF Windows!ServiceCrashes
<1>17. CASE Windows!ScmStart
    BY <1>17 DEF Windows!ScmStart, Windows!Started
<1>18. CASE Windows!KernelExits
    BY <1>18 DEF Windows!KernelExits
<1>19. ASSUME NEW op \in Windows!Ops, NEW f \in Configs \cup {None}, Windows!Serve(op, f)
      PROVE SourceInv'
    BY <1>19 DEF Windows!Serve, Windows!Ops
<1>20. ASSUME NEW remove \in BOOLEAN, Windows!Elevate(remove) PROVE SourceInv'
    BY <1>20, ElevateFx
<1>21. ASSUME NEW p \in Windows!Procs, Windows!Lock(p) PROVE SourceInv'
    BY <1>21, LockFx
<1>22. ASSUME NEW p \in Windows!Procs, Windows!Stage(p) PROVE SourceInv'
    BY <1>22, StageFx
<1>23. ASSUME NEW p \in Windows!Procs, Windows!Staged(p) PROVE SourceInv'
    BY <1>23, StagedFx
<1>24. ASSUME NEW p \in Windows!Procs, Windows!Prune(p) PROVE SourceInv'
    BY <1>24, PruneFx
<1>25. ASSUME NEW p \in Windows!Procs, Windows!AskStop(p) PROVE SourceInv'
    BY <1>25, AskStopFx
<1>26. ASSUME NEW p \in Windows!Procs, Windows!SeeStopped(p) PROVE SourceInv'
    BY <1>26, SeeStoppedFx
<1>27. ASSUME NEW p \in Windows!Procs, Windows!StopTimesOut(p) PROVE SourceInv'
    BY <1>27, StopTimesOutFx
<1>28. ASSUME NEW p \in Windows!Procs, Windows!MoveOld(p) PROVE SourceInv'
    BY <1>28, MoveOldFx
<1>29. ASSUME NEW p \in Windows!Procs, Windows!MoveNew(p) PROVE SourceInv'
    BY <1>29, MoveNewFx
<1>30. ASSUME NEW p \in Windows!Procs, Windows!Register(p) PROVE SourceInv'
    BY ZenonT(40), <1>30, RegisterFx
<1>31. ASSUME NEW p \in Windows!Procs, Windows!Finish(p) PROVE SourceInv'
    BY <1>31, FinishFx
<1>32. ASSUME NEW p \in Windows!Procs, Windows!Throw(p) PROVE SourceInv'
    BY <1>32, ThrowFx
<1>33. ASSUME NEW p \in Windows!Procs, Windows!UndoNew(p) PROVE SourceInv'
    BY ZenonT(40), <1>33, UndoNewFx
<1>34. ASSUME NEW p \in Windows!Procs, Windows!UndoOld(p) PROVE SourceInv'
    BY <1>34, UndoOldFx
<1>35. ASSUME NEW p \in Windows!Procs, Windows!Delete(p) PROVE SourceInv'
    BY <1>35, DeleteFx
<1>36. ASSUME NEW p \in Windows!Procs, Windows!Fail(p) PROVE SourceInv'
    BY <1>36, FailFx
<1>37. ASSUME NEW p \in Windows!Procs, Windows!Kill(p) PROVE SourceInv'
    BY <1>37, KillFx
<1>38. CASE UNCHANGED windows
    BY <1>38 DEF windows
<1> QED BY ZenonT(40), <1>1, <1>2, <1>3, <1>4, <1>5, <1>6, <1>7, <1>8, <1>9, <1>10, <1>11, <1>12,
       <1>13,
           <1>14, <1>15, <1>16, <1>17, <1>18, <1>19, <1>20, <1>21, <1>22, <1>23, <1>24, <1>25,
           <1>26, <1>27, <1>28, <1>29, <1>30, <1>31, <1>32, <1>33, <1>34, <1>35, <1>36, <1>37,
           <1>38 DEF Windows!Next, Windows!Thread, Windows!Installer

LEMMA WholeKeeps ==
    ASSUME ServiceInv, [Windows!Next]_windows
    PROVE  Windows!InstallsWholePayload'
<1> USE Apart DEF Windows!InstallsWholePayload, ServiceInv, PayloadInv, SourceInv, MutexInv,
       ThreadInv, Fields, Holding, Undisturbed, Windows!TypeOK, Windows!Procs, Windows!Versions,
       Windows!Places, Only, Typed, Kept, Flags, Rests, Left, SameDirs, ThreadStays,
       Windows!service, Windows!files, Windows!Quiet, Windows!Reply, Windows!Served,
       Windows!Serving, Windows!Process
<1>0. Typed /\ DOMAIN wdirs = Windows!Places
    BY Shape
<1> USE <1>0
<1>1. CASE Windows!Refuse
    BY <1>1 DEF Windows!Refuse
<1>2. CASE Windows!BeginStop
    BY <1>2 DEF Windows!BeginStop
<1>3. CASE Windows!ConfirmExit
    BY <1>3 DEF Windows!ConfirmExit
<1>4. CASE Windows!StopFails
    BY <1>4 DEF Windows!StopFails
<1>5. CASE Windows!CreateCore
    BY <1>5 DEF Windows!CreateCore
<1>6. CASE Windows!CreateFails
    BY <1>6 DEF Windows!CreateFails
<1>7. CASE Windows!Answer
    BY <1>7 DEF Windows!Answer
<1>8. CASE Windows!Reap
    BY <1>8 DEF Windows!Reap
<1>9. CASE Windows!TakeLock
    BY <1>9 DEF Windows!TakeLock
<1>10. CASE Windows!StageSource
    BY <1>10 DEF Windows!StageSource
<1>11. CASE Windows!SourceStaged
    BY <1>11 DEF Windows!SourceStaged
<1>12. CASE Windows!StartHelper
    BY <1>12, StartHelperFx
<1>13. CASE Windows!UpgradeThrows
    BY <1>13 DEF Windows!UpgradeThrows
<1>14. CASE Windows!ServiceEnds
    BY <1>14 DEF Windows!ServiceEnds
<1>15. ASSUME NEW written \in BOOLEAN, Windows!AnswerUpgrade(written)
      PROVE Windows!InstallsWholePayload'
    BY <1>15, AnswerUpgradeFx
<1>16. CASE Windows!ServiceCrashes
    BY <1>16 DEF Windows!ServiceCrashes
<1>17. CASE Windows!ScmStart
    BY <1>17 DEF Windows!ScmStart, Windows!Started
<1>18. CASE Windows!KernelExits
    BY <1>18 DEF Windows!KernelExits
<1>19. ASSUME NEW op \in Windows!Ops, NEW f \in Configs \cup {None}, Windows!Serve(op, f)
      PROVE Windows!InstallsWholePayload'
    BY <1>19 DEF Windows!Serve, Windows!Ops
<1>20. ASSUME NEW remove \in BOOLEAN, Windows!Elevate(remove) PROVE Windows!InstallsWholePayload'
    BY <1>20, ElevateFx
<1>21. ASSUME NEW p \in Windows!Procs, Windows!Lock(p) PROVE Windows!InstallsWholePayload'
    BY <1>21, LockFx
<1>22. ASSUME NEW p \in Windows!Procs, Windows!Stage(p) PROVE Windows!InstallsWholePayload'
    BY <1>22, StageFx
<1>23. ASSUME NEW p \in Windows!Procs, Windows!Staged(p) PROVE Windows!InstallsWholePayload'
    BY <1>23, StagedFx
<1>24. ASSUME NEW p \in Windows!Procs, Windows!Prune(p) PROVE Windows!InstallsWholePayload'
    BY <1>24, PruneFx
<1>25. ASSUME NEW p \in Windows!Procs, Windows!AskStop(p) PROVE Windows!InstallsWholePayload'
    BY <1>25, AskStopFx
<1>26. ASSUME NEW p \in Windows!Procs, Windows!SeeStopped(p) PROVE Windows!InstallsWholePayload'
    BY <1>26, SeeStoppedFx
<1>27. ASSUME NEW p \in Windows!Procs, Windows!StopTimesOut(p) PROVE Windows!InstallsWholePayload'
    BY <1>27, StopTimesOutFx
<1>28. ASSUME NEW p \in Windows!Procs, Windows!MoveOld(p) PROVE Windows!InstallsWholePayload'
    BY <1>28, MoveOldFx
<1>29. ASSUME NEW p \in Windows!Procs, Windows!MoveNew(p) PROVE Windows!InstallsWholePayload'
    BY <1>29, MoveNewFx
<1>30. ASSUME NEW p \in Windows!Procs, Windows!Register(p) PROVE Windows!InstallsWholePayload'
    BY <1>30, RegisterFx
<1>31. ASSUME NEW p \in Windows!Procs, Windows!Finish(p) PROVE Windows!InstallsWholePayload'
    BY <1>31, FinishFx
<1>32. ASSUME NEW p \in Windows!Procs, Windows!Throw(p) PROVE Windows!InstallsWholePayload'
    BY <1>32, ThrowFx
<1>33. ASSUME NEW p \in Windows!Procs, Windows!UndoNew(p) PROVE Windows!InstallsWholePayload'
    BY ZenonT(40), <1>33, UndoNewFx
<1>34. ASSUME NEW p \in Windows!Procs, Windows!UndoOld(p) PROVE Windows!InstallsWholePayload'
    BY <1>34, UndoOldFx
<1>35. ASSUME NEW p \in Windows!Procs, Windows!Delete(p) PROVE Windows!InstallsWholePayload'
    BY <1>35, DeleteFx
<1>36. ASSUME NEW p \in Windows!Procs, Windows!Fail(p) PROVE Windows!InstallsWholePayload'
    BY <1>36, FailFx
<1>37. ASSUME NEW p \in Windows!Procs, Windows!Kill(p) PROVE Windows!InstallsWholePayload'
    BY <1>37, KillFx
<1>38. CASE UNCHANGED windows
    BY <1>38 DEF windows
<1> QED BY <1>1, <1>2, <1>3, <1>4, <1>5, <1>6, <1>7, <1>8, <1>9, <1>10, <1>11, <1>12, <1>13,
           <1>14, <1>15, <1>16, <1>17, <1>18, <1>19, <1>20, <1>21, <1>22, <1>23, <1>24, <1>25,
           <1>26, <1>27, <1>28, <1>29, <1>30, <1>31, <1>32, <1>33, <1>34, <1>35, <1>36, <1>37,
           <1>38 DEF Windows!Next, Windows!Thread, Windows!Installer

LEMMA StartableKeeps ==
    ASSUME ServiceInv, [Windows!Next]_windows
    PROVE  StartableInv'
<1> USE Apart DEF StartableInv, HasPayload, PlacedInv, Placed, Moved,
       Windows!InstallsWholePayload, ServiceInv, PayloadInv, SourceInv, MutexInv, ThreadInv,
       Fields, Holding, Undisturbed, Windows!TypeOK, Windows!Procs, Windows!Versions,
       Windows!Places, Only, Typed, Kept, Flags, Rests, Left, SameDirs, ThreadStays,
       Windows!service, Windows!files, Windows!Quiet, Windows!Reply, Windows!Served,
       Windows!Serving, Windows!Process
<1>0. Typed /\ DOMAIN wdirs = Windows!Places
    BY Shape
<1> USE <1>0
<1>1. CASE Windows!Refuse
    BY <1>1 DEF Windows!Refuse
<1>2. CASE Windows!BeginStop
    BY <1>2 DEF Windows!BeginStop
<1>3. CASE Windows!ConfirmExit
    BY <1>3 DEF Windows!ConfirmExit
<1>4. CASE Windows!StopFails
    BY <1>4 DEF Windows!StopFails
<1>5. CASE Windows!CreateCore
    BY <1>5 DEF Windows!CreateCore
<1>6. CASE Windows!CreateFails
    BY <1>6 DEF Windows!CreateFails
<1>7. CASE Windows!Answer
    BY <1>7 DEF Windows!Answer
<1>8. CASE Windows!Reap
    BY <1>8 DEF Windows!Reap
<1>9. CASE Windows!TakeLock
    BY <1>9 DEF Windows!TakeLock
<1>10. CASE Windows!StageSource
    BY <1>10 DEF Windows!StageSource
<1>11. CASE Windows!SourceStaged
    BY <1>11 DEF Windows!SourceStaged
<1>12. CASE Windows!StartHelper
    BY <1>12, StartHelperFx
<1>13. CASE Windows!UpgradeThrows
    BY <1>13 DEF Windows!UpgradeThrows
<1>14. CASE Windows!ServiceEnds
    BY <1>14 DEF Windows!ServiceEnds
<1>15. ASSUME NEW written \in BOOLEAN, Windows!AnswerUpgrade(written) PROVE StartableInv'
    BY <1>15, AnswerUpgradeFx
<1>16. CASE Windows!ServiceCrashes
    BY <1>16 DEF Windows!ServiceCrashes
<1>17. CASE Windows!ScmStart
    BY <1>17 DEF Windows!ScmStart, Windows!Started
<1>18. CASE Windows!KernelExits
    BY <1>18 DEF Windows!KernelExits
<1>19. ASSUME NEW op \in Windows!Ops, NEW f \in Configs \cup {None}, Windows!Serve(op, f)
      PROVE StartableInv'
    BY <1>19 DEF Windows!Serve, Windows!Ops
<1>20. ASSUME NEW remove \in BOOLEAN, Windows!Elevate(remove) PROVE StartableInv'
    BY <1>20, ElevateFx
<1>21. ASSUME NEW p \in Windows!Procs, Windows!Lock(p) PROVE StartableInv'
    BY <1>21, LockFx
<1>22. ASSUME NEW p \in Windows!Procs, Windows!Stage(p) PROVE StartableInv'
    BY <1>22, StageFx
<1>23. ASSUME NEW p \in Windows!Procs, Windows!Staged(p) PROVE StartableInv'
    BY <1>23, StagedFx
<1>24. ASSUME NEW p \in Windows!Procs, Windows!Prune(p) PROVE StartableInv'
    BY <1>24, PruneFx
<1>25. ASSUME NEW p \in Windows!Procs, Windows!AskStop(p) PROVE StartableInv'
    BY <1>25, AskStopFx
<1>26. ASSUME NEW p \in Windows!Procs, Windows!SeeStopped(p) PROVE StartableInv'
    BY <1>26, SeeStoppedFx
<1>27. ASSUME NEW p \in Windows!Procs, Windows!StopTimesOut(p) PROVE StartableInv'
    BY <1>27, StopTimesOutFx
<1>28. ASSUME NEW p \in Windows!Procs, Windows!MoveOld(p) PROVE StartableInv'
    BY <1>28, MoveOldFx
<1>29. ASSUME NEW p \in Windows!Procs, Windows!MoveNew(p) PROVE StartableInv'
    BY <1>29, MoveNewFx
<1>30. ASSUME NEW p \in Windows!Procs, Windows!Register(p) PROVE StartableInv'
    BY <1>30, RegisterFx
<1>31. ASSUME NEW p \in Windows!Procs, Windows!Finish(p) PROVE StartableInv'
    BY <1>31, FinishFx
<1>32. ASSUME NEW p \in Windows!Procs, Windows!Throw(p) PROVE StartableInv'
    BY <1>32, ThrowFx
<1>33. ASSUME NEW p \in Windows!Procs, Windows!UndoNew(p) PROVE StartableInv'
    BY <1>33, UndoNewFx
<1>34. ASSUME NEW p \in Windows!Procs, Windows!UndoOld(p) PROVE StartableInv'
    BY <1>34, UndoOldFx
<1>35. ASSUME NEW p \in Windows!Procs, Windows!Delete(p) PROVE StartableInv'
    BY <1>35, DeleteFx
<1>36. ASSUME NEW p \in Windows!Procs, Windows!Fail(p) PROVE StartableInv'
    BY <1>36, FailFx
<1>37. ASSUME NEW p \in Windows!Procs, Windows!Kill(p) PROVE StartableInv'
    BY <1>37, KillFx
<1>38. CASE UNCHANGED windows
    BY <1>38 DEF windows
<1> QED BY ZenonT(40), <1>1, <1>2, <1>3, <1>4, <1>5, <1>6, <1>7, <1>8, <1>9, <1>10, <1>11, <1>12,
       <1>13,
           <1>14, <1>15, <1>16, <1>17, <1>18, <1>19, <1>20, <1>21, <1>22, <1>23, <1>24, <1>25,
           <1>26, <1>27, <1>28, <1>29, <1>30, <1>31, <1>32, <1>33, <1>34, <1>35, <1>36, <1>37,
           <1>38 DEF Windows!Next, Windows!Thread, Windows!Installer

LEMMA PlacedKeeps ==
    ASSUME ServiceInv, [Windows!Next]_windows
    PROVE  PlacedInv'
<1> USE Apart DEF PlacedInv, Placed, Moved, Windows!InstallsWholePayload, StartableInv,
       HasPayload, ServiceInv, PayloadInv, SourceInv, MutexInv, ThreadInv, Fields, Holding,
       Undisturbed, Windows!TypeOK, Windows!Procs, Windows!Versions, Windows!Places, Only, Typed,
       Kept, Flags, Rests, Left, SameDirs, ThreadStays, Windows!service, Windows!files,
       Windows!Quiet, Windows!Reply, Windows!Served, Windows!Serving, Windows!Process
<1>0. Typed /\ DOMAIN wdirs = Windows!Places
    BY Shape
<1> USE <1>0
<1>1. CASE Windows!Refuse
    BY <1>1 DEF Windows!Refuse
<1>2. CASE Windows!BeginStop
    BY <1>2 DEF Windows!BeginStop
<1>3. CASE Windows!ConfirmExit
    BY <1>3 DEF Windows!ConfirmExit
<1>4. CASE Windows!StopFails
    BY <1>4 DEF Windows!StopFails
<1>5. CASE Windows!CreateCore
    BY <1>5 DEF Windows!CreateCore
<1>6. CASE Windows!CreateFails
    BY <1>6 DEF Windows!CreateFails
<1>7. CASE Windows!Answer
    BY <1>7 DEF Windows!Answer
<1>8. CASE Windows!Reap
    BY <1>8 DEF Windows!Reap
<1>9. CASE Windows!TakeLock
    BY <1>9 DEF Windows!TakeLock
<1>10. CASE Windows!StageSource
    BY <1>10 DEF Windows!StageSource
<1>11. CASE Windows!SourceStaged
    BY <1>11 DEF Windows!SourceStaged
<1>12. CASE Windows!StartHelper
    BY <1>12, StartHelperPlaces
<1>13. CASE Windows!UpgradeThrows
    BY <1>13 DEF Windows!UpgradeThrows
<1>14. CASE Windows!ServiceEnds
    BY <1>14 DEF Windows!ServiceEnds
<1>15. ASSUME NEW written \in BOOLEAN, Windows!AnswerUpgrade(written) PROVE PlacedInv'
    BY <1>15, AnswerUpgradeFx
<1>16. CASE Windows!ServiceCrashes
    BY <1>16 DEF Windows!ServiceCrashes
<1>17. CASE Windows!ScmStart
    BY <1>17 DEF Windows!ScmStart, Windows!Started
<1>18. CASE Windows!KernelExits
    BY <1>18 DEF Windows!KernelExits
<1>19. ASSUME NEW op \in Windows!Ops, NEW f \in Configs \cup {None}, Windows!Serve(op, f)
      PROVE PlacedInv'
    BY <1>19 DEF Windows!Serve, Windows!Ops
<1>20. ASSUME NEW remove \in BOOLEAN, Windows!Elevate(remove) PROVE PlacedInv'
    BY <1>20, ElevateFx
<1>21. ASSUME NEW p \in Windows!Procs, Windows!Lock(p) PROVE PlacedInv'
    BY <1>21, LockFx
<1>22. ASSUME NEW p \in Windows!Procs, Windows!Stage(p) PROVE PlacedInv'
    BY <1>22, StageFx
<1>23. ASSUME NEW p \in Windows!Procs, Windows!Staged(p) PROVE PlacedInv'
    BY <1>23, StagedFx
<1>24. ASSUME NEW p \in Windows!Procs, Windows!Prune(p) PROVE PlacedInv'
    BY <1>24, PruneFx
<1>25. ASSUME NEW p \in Windows!Procs, Windows!AskStop(p) PROVE PlacedInv'
    BY <1>25, AskStopFx
<1>26. ASSUME NEW p \in Windows!Procs, Windows!SeeStopped(p) PROVE PlacedInv'
    BY <1>26, SeeStoppedFx
<1>27. ASSUME NEW p \in Windows!Procs, Windows!StopTimesOut(p) PROVE PlacedInv'
    BY <1>27, StopTimesOutFx
<1>28. ASSUME NEW p \in Windows!Procs, Windows!MoveOld(p) PROVE PlacedInv'
    BY <1>28, MoveOldFx
<1>29. ASSUME NEW p \in Windows!Procs, Windows!MoveNew(p) PROVE PlacedInv'
    BY <1>29, MoveNewFx
<1>30. ASSUME NEW p \in Windows!Procs, Windows!Register(p) PROVE PlacedInv'
    BY <1>30, RegisterPlaces
<1>31. ASSUME NEW p \in Windows!Procs, Windows!Finish(p) PROVE PlacedInv'
    BY <1>31, FinishFx
<1>32. ASSUME NEW p \in Windows!Procs, Windows!Throw(p) PROVE PlacedInv'
    BY <1>32, ThrowFx
<1>33. ASSUME NEW p \in Windows!Procs, Windows!UndoNew(p) PROVE PlacedInv'
    BY <1>33, UndoNewPlaces
<1>34. ASSUME NEW p \in Windows!Procs, Windows!UndoOld(p) PROVE PlacedInv'
    BY SMTT(30), <1>34, UndoOldFx
<1>35. ASSUME NEW p \in Windows!Procs, Windows!Delete(p) PROVE PlacedInv'
    BY <1>35, DeleteFx
<1>36. ASSUME NEW p \in Windows!Procs, Windows!Fail(p) PROVE PlacedInv'
    BY <1>36, FailFx
<1>37. ASSUME NEW p \in Windows!Procs, Windows!Kill(p) PROVE PlacedInv'
    BY <1>37, KillFx
<1>38. CASE UNCHANGED windows
    BY <1>38 DEF windows
<1> HIDE DEF PlacedInv
<1> QED BY <1>1, <1>2, <1>3, <1>4, <1>5, <1>6, <1>7, <1>8, <1>9, <1>10, <1>11, <1>12, <1>13,
           <1>14, <1>15, <1>16, <1>17, <1>18, <1>19, <1>20, <1>21, <1>22, <1>23, <1>24, <1>25,
           <1>26, <1>27, <1>28, <1>29, <1>30, <1>31, <1>32, <1>33, <1>34, <1>35, <1>36, <1>37,
           <1>38 DEF Windows!Next, Windows!Thread, Windows!Installer

LEMMA TypedKeeps ==
    ASSUME ServiceInv, [Windows!Next]_windows
    PROVE  Typed'
<1> USE Apart DEF Windows!Procs, Windows!service, Windows!files, Windows!Quiet, Windows!Reply,
       Windows!Served, Windows!Serving, Windows!Process, Only, Left, ThreadStays
<1>0. Typed /\ DOMAIN wdirs = Windows!Places
    BY Shape
<1> USE <1>0, TypedStays
<1>1. CASE Windows!Refuse
    BY <1>1 DEF Windows!Refuse
<1>2. CASE Windows!BeginStop
    BY <1>2 DEF Windows!BeginStop
<1>3. CASE Windows!ConfirmExit
    BY <1>3 DEF Windows!ConfirmExit
<1>4. CASE Windows!StopFails
    BY <1>4 DEF Windows!StopFails
<1>5. CASE Windows!CreateCore
    BY <1>5 DEF Windows!CreateCore
<1>6. CASE Windows!CreateFails
    BY <1>6 DEF Windows!CreateFails
<1>7. CASE Windows!Answer
    BY <1>7 DEF Windows!Answer
<1>8. CASE Windows!Reap
    BY <1>8 DEF Windows!Reap
<1>9. CASE Windows!TakeLock
    BY <1>9 DEF Windows!TakeLock
<1>10. CASE Windows!StageSource
    BY <1>10 DEF Windows!StageSource
<1>11. CASE Windows!SourceStaged
    BY <1>11 DEF Windows!SourceStaged
<1>12. CASE Windows!StartHelper
    BY <1>12, StartHelperFx
<1>13. CASE Windows!UpgradeThrows
    BY <1>13 DEF Windows!UpgradeThrows
<1>14. CASE Windows!ServiceEnds
    BY <1>14 DEF Windows!ServiceEnds
<1>15. ASSUME NEW written \in BOOLEAN, Windows!AnswerUpgrade(written) PROVE Typed'
    BY <1>15, AnswerUpgradeFx
<1>16. CASE Windows!ServiceCrashes
    BY <1>16 DEF Windows!ServiceCrashes
<1>17. CASE Windows!ScmStart
    BY <1>17 DEF Windows!ScmStart, Windows!Started
<1>18. CASE Windows!KernelExits
    BY <1>18 DEF Windows!KernelExits
<1>19. ASSUME NEW op \in Windows!Ops, NEW f \in Configs \cup {None}, Windows!Serve(op, f) PROVE Typed'
    BY <1>19 DEF Windows!Serve, Windows!Ops
<1>20. ASSUME NEW remove \in BOOLEAN, Windows!Elevate(remove) PROVE Typed'
    BY <1>20, ElevateFx
<1>21. ASSUME NEW p \in Windows!Procs, Windows!Lock(p) PROVE Typed'
    BY <1>21, LockFx
<1>22. ASSUME NEW p \in Windows!Procs, Windows!Stage(p) PROVE Typed'
    BY <1>22, StageFx
<1>23. ASSUME NEW p \in Windows!Procs, Windows!Staged(p) PROVE Typed'
    BY <1>23, StagedFx
<1>24. ASSUME NEW p \in Windows!Procs, Windows!Prune(p) PROVE Typed'
    BY <1>24, PruneFx
<1>25. ASSUME NEW p \in Windows!Procs, Windows!AskStop(p) PROVE Typed'
    BY <1>25, AskStopFx
<1>26. ASSUME NEW p \in Windows!Procs, Windows!SeeStopped(p) PROVE Typed'
    BY <1>26, SeeStoppedFx
<1>27. ASSUME NEW p \in Windows!Procs, Windows!StopTimesOut(p) PROVE Typed'
    BY <1>27, StopTimesOutFx
<1>28. ASSUME NEW p \in Windows!Procs, Windows!MoveOld(p) PROVE Typed'
    BY <1>28, MoveOldFx
<1>29. ASSUME NEW p \in Windows!Procs, Windows!MoveNew(p) PROVE Typed'
    BY <1>29, MoveNewFx
<1>30. ASSUME NEW p \in Windows!Procs, Windows!Register(p) PROVE Typed'
    BY <1>30, RegisterFx
<1>31. ASSUME NEW p \in Windows!Procs, Windows!Finish(p) PROVE Typed'
    BY <1>31, FinishFx
<1>32. ASSUME NEW p \in Windows!Procs, Windows!Throw(p) PROVE Typed'
    BY <1>32, ThrowFx
<1>33. ASSUME NEW p \in Windows!Procs, Windows!UndoNew(p) PROVE Typed'
    BY <1>33, UndoNewFx
<1>34. ASSUME NEW p \in Windows!Procs, Windows!UndoOld(p) PROVE Typed'
    BY <1>34, UndoOldFx
<1>35. ASSUME NEW p \in Windows!Procs, Windows!Delete(p) PROVE Typed'
    BY <1>35, DeleteFx
<1>36. ASSUME NEW p \in Windows!Procs, Windows!Fail(p) PROVE Typed'
    BY <1>36, FailFx
<1>37. ASSUME NEW p \in Windows!Procs, Windows!Kill(p) PROVE Typed'
    BY <1>37, KillFx
<1>38. CASE UNCHANGED windows
    BY <1>38 DEF windows
<1> QED BY <1>1, <1>2, <1>3, <1>4, <1>5, <1>6, <1>7, <1>8, <1>9, <1>10, <1>11, <1>12, <1>13,
           <1>14, <1>15, <1>16, <1>17, <1>18, <1>19, <1>20, <1>21, <1>22, <1>23, <1>24, <1>25,
           <1>26, <1>27, <1>28, <1>29, <1>30, <1>31, <1>32, <1>33, <1>34, <1>35, <1>36, <1>37,
           <1>38 DEF Windows!Next, Windows!Thread, Windows!Installer

LEMMA ProcsTyped ==
    ASSUME ServiceInv, [Windows!Next]_windows
    PROVE  ProcsOK'
<1> USE Apart DEF ProcsOK, Windows!Procs, Windows!service, Windows!files, Windows!Quiet,
       Windows!Reply, Windows!Served, Windows!Serving, Windows!Process, Only, Left, Rests,
       ThreadStays
<1>0. Typed /\ DOMAIN wdirs = Windows!Places /\ DirsOK /\ ProcsOK /\ ThreadOK
    BY Shape, TypeParts DEF ServiceInv
<1> USE <1>0
<1>1. CASE Windows!Refuse
    BY <1>1 DEF Windows!Refuse
<1>2. CASE Windows!BeginStop
    BY <1>2 DEF Windows!BeginStop
<1>3. CASE Windows!ConfirmExit
    BY <1>3 DEF Windows!ConfirmExit
<1>4. CASE Windows!StopFails
    BY <1>4 DEF Windows!StopFails
<1>5. CASE Windows!CreateCore
    BY <1>5 DEF Windows!CreateCore
<1>6. CASE Windows!CreateFails
    BY <1>6 DEF Windows!CreateFails
<1>7. CASE Windows!Answer
    BY <1>7 DEF Windows!Answer
<1>8. CASE Windows!Reap
    BY <1>8 DEF Windows!Reap
<1>9. CASE Windows!TakeLock
    BY <1>9 DEF Windows!TakeLock
<1>10. CASE Windows!StageSource
    BY <1>10 DEF Windows!StageSource
<1>11. CASE Windows!SourceStaged
    BY <1>11 DEF Windows!SourceStaged
<1>12. CASE Windows!StartHelper
    BY <1>12, StartHelperFx
<1>13. CASE Windows!UpgradeThrows
    BY <1>13 DEF Windows!UpgradeThrows
<1>14. CASE Windows!ServiceEnds
    BY <1>14 DEF Windows!ServiceEnds
<1>15. ASSUME NEW written \in BOOLEAN, Windows!AnswerUpgrade(written) PROVE ProcsOK'
    BY <1>15, AnswerUpgradeFx
<1>16. CASE Windows!ServiceCrashes
    BY <1>16 DEF Windows!ServiceCrashes
<1>17. CASE Windows!ScmStart
    BY <1>17 DEF Windows!ScmStart, Windows!Started
<1>18. CASE Windows!KernelExits
    BY <1>18 DEF Windows!KernelExits
<1>19. ASSUME NEW op \in Windows!Ops, NEW f \in Configs \cup {None}, Windows!Serve(op, f)
      PROVE ProcsOK'
    BY <1>19 DEF Windows!Serve, Windows!Ops
<1>20. ASSUME NEW remove \in BOOLEAN, Windows!Elevate(remove) PROVE ProcsOK'
    BY <1>20, ElevateFx
<1>21. ASSUME NEW p \in Windows!Procs, Windows!Lock(p) PROVE ProcsOK'
    BY <1>21, LockFx
<1>22. ASSUME NEW p \in Windows!Procs, Windows!Stage(p) PROVE ProcsOK'
    BY <1>22, StageFx
<1>23. ASSUME NEW p \in Windows!Procs, Windows!Staged(p) PROVE ProcsOK'
    BY <1>23, StagedFx
<1>24. ASSUME NEW p \in Windows!Procs, Windows!Prune(p) PROVE ProcsOK'
    BY <1>24, PruneFx
<1>25. ASSUME NEW p \in Windows!Procs, Windows!AskStop(p) PROVE ProcsOK'
    BY <1>25, AskStopFx
<1>26. ASSUME NEW p \in Windows!Procs, Windows!SeeStopped(p) PROVE ProcsOK'
    BY <1>26, SeeStoppedFx
<1>27. ASSUME NEW p \in Windows!Procs, Windows!StopTimesOut(p) PROVE ProcsOK'
    BY <1>27, StopTimesOutFx
<1>28. ASSUME NEW p \in Windows!Procs, Windows!MoveOld(p) PROVE ProcsOK'
    BY <1>28, MoveOldFx
<1>29. ASSUME NEW p \in Windows!Procs, Windows!MoveNew(p) PROVE ProcsOK'
    BY <1>29, MoveNewFx
<1>30. ASSUME NEW p \in Windows!Procs, Windows!Register(p) PROVE ProcsOK'
    BY <1>30, RegisterFx
<1>31. ASSUME NEW p \in Windows!Procs, Windows!Finish(p) PROVE ProcsOK'
    BY <1>31, FinishFx
<1>32. ASSUME NEW p \in Windows!Procs, Windows!Throw(p) PROVE ProcsOK'
    BY <1>32, ThrowFx
<1>33. ASSUME NEW p \in Windows!Procs, Windows!UndoNew(p) PROVE ProcsOK'
    BY <1>33, UndoNewFx
<1>34. ASSUME NEW p \in Windows!Procs, Windows!UndoOld(p) PROVE ProcsOK'
    BY <1>34, UndoOldFx
<1>35. ASSUME NEW p \in Windows!Procs, Windows!Delete(p) PROVE ProcsOK'
    BY <1>35, DeleteFx
<1>36. ASSUME NEW p \in Windows!Procs, Windows!Fail(p) PROVE ProcsOK'
    BY <1>36, FailFx
<1>37. ASSUME NEW p \in Windows!Procs, Windows!Kill(p) PROVE ProcsOK'
    BY <1>37, KillFx
<1>38. CASE UNCHANGED windows
    BY <1>38 DEF windows
<1> QED BY <1>1, <1>2, <1>3, <1>4, <1>5, <1>6, <1>7, <1>8, <1>9, <1>10, <1>11, <1>12, <1>13,
           <1>14, <1>15, <1>16, <1>17, <1>18, <1>19, <1>20, <1>21, <1>22, <1>23, <1>24, <1>25,
           <1>26, <1>27, <1>28, <1>29, <1>30, <1>31, <1>32, <1>33, <1>34, <1>35, <1>36, <1>37,
           <1>38 DEF Windows!Next, Windows!Thread, Windows!Installer

LEMMA DirsTyped ==
    ASSUME ServiceInv, [Windows!Next]_windows
    PROVE  DirsOK'
<1> USE Apart DEF DirsOK, Windows!Procs, Windows!Places, Windows!Versions, Windows!service,
       Windows!files, Windows!Quiet, Windows!Reply, Windows!Served, Windows!Serving, Windows!Process
<1>0. Typed /\ DOMAIN wdirs = Windows!Places /\ DirsOK /\ ProcsOK /\ ThreadOK
    BY Shape, TypeParts DEF ServiceInv
<1> USE <1>0
<1>1. CASE Windows!Refuse
    BY <1>1 DEF Windows!Refuse
<1>2. CASE Windows!BeginStop
    BY <1>2 DEF Windows!BeginStop
<1>3. CASE Windows!ConfirmExit
    BY <1>3 DEF Windows!ConfirmExit
<1>4. CASE Windows!StopFails
    BY <1>4 DEF Windows!StopFails
<1>5. CASE Windows!CreateCore
    BY <1>5 DEF Windows!CreateCore
<1>6. CASE Windows!CreateFails
    BY <1>6 DEF Windows!CreateFails
<1>7. CASE Windows!Answer
    BY <1>7 DEF Windows!Answer
<1>8. CASE Windows!Reap
    BY <1>8 DEF Windows!Reap
<1>9. CASE Windows!TakeLock
    BY <1>9 DEF Windows!TakeLock
<1>10. CASE Windows!StageSource
    BY <1>10 DEF Windows!StageSource
<1>11. CASE Windows!SourceStaged
    BY <1>11 DEF Windows!SourceStaged
<1>12. CASE Windows!StartHelper
    BY <1>12 DEF Windows!StartHelper
<1>13. CASE Windows!UpgradeThrows
    BY <1>13 DEF Windows!UpgradeThrows
<1>14. CASE Windows!ServiceEnds
    BY <1>14 DEF Windows!ServiceEnds
<1>15. ASSUME NEW written \in BOOLEAN, Windows!AnswerUpgrade(written) PROVE DirsOK'
    BY <1>15 DEF Windows!AnswerUpgrade
<1>16. CASE Windows!ServiceCrashes
    BY <1>16 DEF Windows!ServiceCrashes
<1>17. CASE Windows!ScmStart
    BY <1>17 DEF Windows!ScmStart, Windows!Started
<1>18. CASE Windows!KernelExits
    BY <1>18 DEF Windows!KernelExits
<1>19. ASSUME NEW op \in Windows!Ops, NEW f \in Configs \cup {None}, Windows!Serve(op, f)
      PROVE DirsOK'
    BY <1>19 DEF Windows!Serve, Windows!Ops
<1>20. ASSUME NEW remove \in BOOLEAN, Windows!Elevate(remove) PROVE DirsOK'
    BY <1>20 DEF Windows!Elevate
<1>21. ASSUME NEW p \in Windows!Procs, Windows!Lock(p) PROVE DirsOK'
    BY <1>21 DEF Windows!Lock, Windows!Step
<1>22. ASSUME NEW p \in Windows!Procs, Windows!Stage(p) PROVE DirsOK'
    BY <1>22 DEF Windows!Stage, Windows!Step
<1>23. ASSUME NEW p \in Windows!Procs, Windows!Staged(p) PROVE DirsOK'
    BY <1>23 DEF Windows!Staged, Windows!Step
<1>24. ASSUME NEW p \in Windows!Procs, Windows!Prune(p) PROVE DirsOK'
    BY <1>24 DEF Windows!Prune
<1>25. ASSUME NEW p \in Windows!Procs, Windows!AskStop(p) PROVE DirsOK'
    BY <1>25 DEF Windows!AskStop
<1>26. ASSUME NEW p \in Windows!Procs, Windows!SeeStopped(p) PROVE DirsOK'
    BY <1>26 DEF Windows!SeeStopped, Windows!Step
<1>27. ASSUME NEW p \in Windows!Procs, Windows!StopTimesOut(p) PROVE DirsOK'
    BY <1>27 DEF Windows!StopTimesOut, Windows!Leave
<1>28. ASSUME NEW p \in Windows!Procs, Windows!MoveOld(p) PROVE DirsOK'
    BY <1>28 DEF Windows!MoveOld, Windows!Step
<1>29. ASSUME NEW p \in Windows!Procs, Windows!MoveNew(p) PROVE DirsOK'
    BY <1>29 DEF Windows!MoveNew
<1>30. ASSUME NEW p \in Windows!Procs, Windows!Register(p) PROVE DirsOK'
    BY <1>30 DEF Windows!Register
<1>31. ASSUME NEW p \in Windows!Procs, Windows!Finish(p) PROVE DirsOK'
    BY <1>31 DEF Windows!Finish, Windows!Leave
<1>32. ASSUME NEW p \in Windows!Procs, Windows!Throw(p) PROVE DirsOK'
    BY <1>32 DEF Windows!Throw
<1>33. ASSUME NEW p \in Windows!Procs, Windows!UndoNew(p) PROVE DirsOK'
    BY <1>33 DEF Windows!UndoNew, Windows!Leave, Windows!Step
<1>34. ASSUME NEW p \in Windows!Procs, Windows!UndoOld(p) PROVE DirsOK'
    BY <1>34 DEF Windows!UndoOld, Windows!Leave
<1>35. ASSUME NEW p \in Windows!Procs, Windows!Delete(p) PROVE DirsOK'
    BY <1>35 DEF Windows!Delete, Windows!Leave
<1>36. ASSUME NEW p \in Windows!Procs, Windows!Fail(p) PROVE DirsOK'
    BY <1>36 DEF Windows!Fail, Windows!Leave
<1>37. ASSUME NEW p \in Windows!Procs, Windows!Kill(p) PROVE DirsOK'
    BY <1>37 DEF Windows!Kill
<1>38. CASE UNCHANGED windows
    BY <1>38 DEF windows
<1> QED BY <1>1, <1>2, <1>3, <1>4, <1>5, <1>6, <1>7, <1>8, <1>9, <1>10, <1>11, <1>12, <1>13,
           <1>14, <1>15, <1>16, <1>17, <1>18, <1>19, <1>20, <1>21, <1>22, <1>23, <1>24, <1>25,
           <1>26, <1>27, <1>28, <1>29, <1>30, <1>31, <1>32, <1>33, <1>34, <1>35, <1>36, <1>37,
           <1>38 DEF Windows!Next, Windows!Thread, Windows!Installer

LEMMA ThreadTyped ==
    ASSUME ServiceInv, [Windows!Next]_windows
    PROVE  ThreadOK'
<1> USE Apart DEF ThreadOK, Windows!Command, Windows!Ops, Windows!Procs, Windows!service,
       Windows!files, Windows!Quiet, Windows!Served, Windows!Serving, Windows!Process, Left,
       ThreadStays
<1>0. Typed /\ DOMAIN wdirs = Windows!Places /\ DirsOK /\ ProcsOK /\ ThreadOK
    BY Shape, TypeParts DEF ServiceInv
<1> USE <1>0
<1>1. CASE Windows!Refuse
    <2>1. \E ok \in BOOLEAN : Windows!Reply(ok)
        BY <1>1 DEF Windows!Refuse
    <2>2. wat # "idle"
        BY <1>1 DEF Windows!Refuse
    <2>3. /\ wsaid' \in [op : Windows!Ops, ok : BOOLEAN] \cup {None}
          /\ wheld' \in BOOLEAN /\ wserving' = None /\ wat' = "idle"
        BY <2>1, <2>2, ReplyTyped
    <2> QED BY <1>1, <2>3 DEF Windows!Refuse
<1>2. CASE Windows!BeginStop
    BY <1>2 DEF Windows!BeginStop
<1>3. CASE Windows!ConfirmExit
    BY ZenonT(40), <1>3 DEF Windows!ConfirmExit
<1>4. CASE Windows!StopFails
    <2>1. \E ok \in BOOLEAN : Windows!Reply(ok)
        BY <1>4 DEF Windows!StopFails
    <2>2. wat # "idle"
        BY <1>4 DEF Windows!StopFails
    <2>3. /\ wsaid' \in [op : Windows!Ops, ok : BOOLEAN] \cup {None}
          /\ wheld' \in BOOLEAN /\ wserving' = None /\ wat' = "idle"
        BY <2>1, <2>2, ReplyTyped
    <2> QED BY <1>4, <2>3 DEF Windows!StopFails
<1>5. CASE Windows!CreateCore
    <2>1. wat # "idle"
        BY <1>5 DEF Windows!CreateCore
    <2> QED BY <1>5, <2>1, ServingIs DEF Windows!CreateCore
<1>6. CASE Windows!CreateFails
    <2>1. \E ok \in BOOLEAN : Windows!Reply(ok)
        BY <1>6 DEF Windows!CreateFails
    <2>2. wat # "idle"
        BY <1>6 DEF Windows!CreateFails
    <2>3. /\ wsaid' \in [op : Windows!Ops, ok : BOOLEAN] \cup {None}
          /\ wheld' \in BOOLEAN /\ wserving' = None /\ wat' = "idle"
        BY <2>1, <2>2, ReplyTyped
    <2> QED BY <1>6, <2>3 DEF Windows!CreateFails
<1>7. CASE Windows!Answer
    <2>1. \E ok \in BOOLEAN : Windows!Reply(ok)
        BY <1>7 DEF Windows!Answer
    <2>2. wat # "idle"
        BY <1>7 DEF Windows!Answer
    <2>3. /\ wsaid' \in [op : Windows!Ops, ok : BOOLEAN] \cup {None}
          /\ wheld' \in BOOLEAN /\ wserving' = None /\ wat' = "idle"
        BY <2>1, <2>2, ReplyTyped
    <2> QED BY <1>7, <2>3 DEF Windows!Answer
<1>8. CASE Windows!Reap
    BY <1>8 DEF Windows!Reap
<1>9. CASE Windows!TakeLock
    BY <1>9 DEF Windows!TakeLock
<1>10. CASE Windows!StageSource
    BY <1>10 DEF Windows!StageSource
<1>11. CASE Windows!SourceStaged
    BY <1>11 DEF Windows!SourceStaged
<1>12. CASE Windows!StartHelper
    BY <1>12, StartHelperFx
<1>13. CASE Windows!UpgradeThrows
    <2>1. \E ok \in BOOLEAN : Windows!Reply(ok)
        BY <1>13 DEF Windows!UpgradeThrows
    <2>2. wat # "idle"
        BY <1>13 DEF Windows!UpgradeThrows
    <2>3. /\ wsaid' \in [op : Windows!Ops, ok : BOOLEAN] \cup {None}
          /\ wheld' \in BOOLEAN /\ wserving' = None /\ wat' = "idle"
        BY <2>1, <2>2, ReplyTyped
    <2> QED BY <1>13, <2>3 DEF Windows!UpgradeThrows
<1>14. CASE Windows!ServiceEnds
    BY <1>14 DEF Windows!ServiceEnds
<1>15. ASSUME NEW written \in BOOLEAN, Windows!AnswerUpgrade(written) PROVE ThreadOK'
    <2>1. \E ok \in BOOLEAN : Windows!Reply(ok)
        BY <1>15 DEF Windows!AnswerUpgrade
    <2>2. wat # "idle"
        BY <1>15 DEF Windows!AnswerUpgrade
    <2>3. /\ wsaid' \in [op : Windows!Ops, ok : BOOLEAN] \cup {None}
          /\ wheld' \in BOOLEAN /\ wserving' = None /\ wat' = "idle"
        BY <2>1, <2>2, ReplyTyped
    <2> QED BY <1>15, <2>3 DEF Windows!AnswerUpgrade
<1>16. CASE Windows!ServiceCrashes
    <2>1. wcrashes' \in 0 .. MaxCrashes /\ wlock' \in {None, "service"} \cup Windows!Procs
        BY <1>16 DEF Windows!ServiceCrashes
    <2> QED BY <1>16, <2>1 DEF Windows!ServiceCrashes
<1>17. CASE Windows!ScmStart
    BY <1>17 DEF Windows!ScmStart, Windows!Started
<1>18. CASE Windows!KernelExits
    BY <1>18 DEF Windows!KernelExits
<1>19. ASSUME NEW op \in Windows!Ops, NEW f \in Configs \cup {None}, Windows!Serve(op, f)
      PROVE ThreadOK'
    BY <1>19 DEF Windows!Serve, Windows!Ops
<1>20. ASSUME NEW remove \in BOOLEAN, Windows!Elevate(remove) PROVE ThreadOK'
    BY <1>20, ElevateFx
<1>21. ASSUME NEW p \in Windows!Procs, Windows!Lock(p) PROVE ThreadOK'
    BY <1>21, LockFx
<1>22. ASSUME NEW p \in Windows!Procs, Windows!Stage(p) PROVE ThreadOK'
    BY <1>22, StageFx
<1>23. ASSUME NEW p \in Windows!Procs, Windows!Staged(p) PROVE ThreadOK'
    BY <1>23, StagedFx
<1>24. ASSUME NEW p \in Windows!Procs, Windows!Prune(p) PROVE ThreadOK'
    <2>1. wenabled' \in BOOLEAN /\ waborted' \in BOOLEAN
        BY <1>24, EnabledTyped
    <2>2. /\ wlock' \in {wlock, None} /\ ThreadStays /\ wsaid' = None
          /\ UNCHANGED <<wsvc, wkills, winstalls>>
        BY <1>24, PruneFx
    <2> QED BY <2>1, <2>2
<1>25. ASSUME NEW p \in Windows!Procs, Windows!AskStop(p) PROVE ThreadOK'
    BY <1>25, AskStopFx
<1>26. ASSUME NEW p \in Windows!Procs, Windows!SeeStopped(p) PROVE ThreadOK'
    BY <1>26, SeeStoppedFx
<1>27. ASSUME NEW p \in Windows!Procs, Windows!StopTimesOut(p) PROVE ThreadOK'
    BY ZenonT(40), <1>27, StopTimesOutFx, FlagsAre
<1>28. ASSUME NEW p \in Windows!Procs, Windows!MoveOld(p) PROVE ThreadOK'
    BY <1>28, MoveOldFx
<1>29. ASSUME NEW p \in Windows!Procs, Windows!MoveNew(p) PROVE ThreadOK'
    BY <1>29, MoveNewFx
<1>30. ASSUME NEW p \in Windows!Procs, Windows!Register(p) PROVE ThreadOK'
    BY ZenonT(40), <1>30, RegisterFx
<1>31. ASSUME NEW p \in Windows!Procs, Windows!Finish(p) PROVE ThreadOK'
    BY ZenonT(40), <1>31, FinishFx, FlagsAre
<1>32. ASSUME NEW p \in Windows!Procs, Windows!Throw(p) PROVE ThreadOK'
    BY ZenonT(40), <1>32, ThrowFx, FlagsAre
<1>33. ASSUME NEW p \in Windows!Procs, Windows!UndoNew(p) PROVE ThreadOK'
    <2>1. wenabled' \in BOOLEAN /\ waborted' \in BOOLEAN
        BY <1>33, EnabledTyped
    <2>2. /\ wlock' \in {wlock, None} /\ ThreadStays /\ wsaid' = None
          /\ UNCHANGED <<wsvc, wkills, winstalls>>
        BY <1>33, UndoNewFx
    <2> QED BY <2>1, <2>2
<1>34. ASSUME NEW p \in Windows!Procs, Windows!UndoOld(p) PROVE ThreadOK'
    BY ZenonT(40), <1>34, UndoOldFx, FlagsAre
<1>35. ASSUME NEW p \in Windows!Procs, Windows!Delete(p) PROVE ThreadOK'
    BY ZenonT(40), <1>35, DeleteFx, FlagsAre
<1>36. ASSUME NEW p \in Windows!Procs, Windows!Fail(p) PROVE ThreadOK'
    BY ZenonT(40), <1>36, FailFx, FlagsAre
<1>37. ASSUME NEW p \in Windows!Procs, Windows!Kill(p) PROVE ThreadOK'
    BY <1>37, KillFx
<1>38. CASE UNCHANGED windows
    BY <1>38 DEF windows
<1> QED BY <1>1, <1>2, <1>3, <1>4, <1>5, <1>6, <1>7, <1>8, <1>9, <1>10, <1>11, <1>12, <1>13,
           <1>14, <1>15, <1>16, <1>17, <1>18, <1>19, <1>20, <1>21, <1>22, <1>23, <1>24, <1>25,
           <1>26, <1>27, <1>28, <1>29, <1>30, <1>31, <1>32, <1>33, <1>34, <1>35, <1>36, <1>37,
           <1>38 DEF Windows!Next, Windows!Thread, Windows!Installer

LEMMA ServiceStep ==
    ASSUME ServiceInv, [Windows!Next]_windows
    PROVE  ServiceInv'
<1>1. Typed /\ Typed'
    BY Shape, TypedKeeps
<1>2. Windows!TypeOK'
    <2>1. (Windows!TypeOK <=> DirsOK /\ ProcsOK /\ ThreadOK)'
        BY <1>1, TypeParts, PTL
    <2> QED BY <2>1, ProcsTyped, DirsTyped, ThreadTyped
<1> QED BY <1>2, ThreadKeeps, MutexKeeps, SourceKeeps, WholeKeeps, PlacedKeeps, StartableKeeps,
        EnabledKeeps DEF ServiceInv, PayloadInv

LEMMA ServiceInit ==
    ASSUME Windows!Init
    PROVE  ServiceInv
<1> USE Apart DEF Windows!Init
<1>1. /\ DOMAIN wproc = Windows!Procs /\ DOMAIN wdirs = Windows!Places
      /\ \A p \in Windows!Procs :
          /\ DOMAIN wproc[p] = Fields /\ wproc[p].pc = "none"
          /\ wproc[p].had = FALSE /\ wproc[p].movedOld = FALSE /\ wproc[p].movedNew = FALSE
          /\ wproc[p].disabled = FALSE /\ wproc[p].remove = FALSE
      /\ wdirs["bin"] = "old" /\ wdirs["previous"] = None
    BY DEF Windows!Resting, Fields, Windows!Places
<1>2. Typed
    BY <1>1 DEF Typed
<1>3. DirsOK /\ ProcsOK /\ ThreadOK
    <2>1. DirsOK
        BY DEF DirsOK, Windows!Versions, Windows!Places
    <2>2. ProcsOK
        BY <1>1 DEF ProcsOK
    <2>3. /\ wcalls \in 0 .. MaxCalls /\ wcrashes \in 0 .. MaxCrashes /\ wkills \in 0 .. MaxKills
          /\ winstalls \in 0 .. MaxInstalls
        OBVIOUS
    <2>4. ThreadOK
        BY <2>3 DEF ThreadOK
    <2> QED BY <2>1, <2>2, <2>4
<1>4. ThreadInv
    BY DEF ThreadInv, Windows!KernelIsHeld, Preparing
<1>5. MutexInv
    BY <1>1 DEF MutexInv, Windows!Procs, Holding, Preparing
<1>6. SourceInv
    BY <1>1 DEF SourceInv, Windows!Procs
<1>7. PayloadInv
    BY <1>1 DEF PayloadInv, Windows!InstallsWholePayload, PlacedInv, Placed, StartableInv,
           HasPayload,
       Windows!Versions
<1>8. EnabledInv
    BY DEF EnabledInv
<1> QED BY <1>2, <1>3, <1>4, <1>5, <1>6, <1>7, <1>8, TypeParts DEF ServiceInv

LEMMA ServicePromises ==
    ASSUME ServiceInv
    PROVE  /\ Windows!TypeOK /\ Windows!InstallsWholePayload /\ Windows!RegisteredHasPayload
           /\ Windows!NeverLeftDisabled /\ Windows!KernelIsHeld
<1>1. Windows!TypeOK /\ Windows!InstallsWholePayload /\ Windows!KernelIsHeld
    BY DEF ServiceInv, PayloadInv, ThreadInv
<1>2. wlock = None => \A p \in Windows!Procs : wproc[p].pc \in {"none", "gate", "lock"}
    BY Apart DEF ServiceInv, MutexInv, Windows!TypeOK, Holding
<1>3. Windows!RegisteredHasPayload
    BY <1>2 DEF ServiceInv, PayloadInv, StartableInv, Undisturbed, HasPayload,
       Windows!RegisteredHasPayload
<1>4. Windows!NeverLeftDisabled
    BY <1>2 DEF ServiceInv, MutexInv, EnabledInv, Windows!NeverLeftDisabled
<1> QED BY <1>1, <1>3, <1>4

----------------------------------------------------------------------------
\* What a kernel service sees of the Windows service.

WAcceptedOf(now) == IF now = None THEN <<>> ELSE <<now>>
WAccepted == WAcceptedOf(wserving)
WEffective == wat \in {"watch", "stopped"}

WSame == wlive' = wlive /\ WAccepted' = WAccepted /\ WEffective' = WEffective
WNext ==
    \/ /\ \E c \in Windows!Contract!Command : WAccepted' = Append(WAccepted, c)
       /\ wlive' = wlive /\ WEffective' = WEffective
    \/ wlive # None /\ wlive' = None /\ WAccepted' = WAccepted /\ WEffective' = WEffective
    \/ /\ WAccepted # <<>> /\ Head(WAccepted).op = "START" /\ ~WEffective
       /\ wlive = None /\ wlive' = Head(WAccepted).config
       /\ WEffective' = TRUE /\ WAccepted' = WAccepted
    \/ /\ WAccepted # <<>> /\ Head(WAccepted).op = "STOP" /\ ~WEffective
       /\ wlive = None /\ WEffective' = TRUE /\ wlive' = wlive /\ WAccepted' = WAccepted
    \/ WAccepted' = <<>> /\ WEffective' = FALSE /\ wlive' \in {wlive, None}
    \/ \E ok \in BOOLEAN :
        /\ WAccepted # <<>>
        /\ ok /\ Head(WAccepted).op \in {"START", "STOP"} => WEffective
        /\ WAccepted' = Tail(WAccepted) /\ WEffective' = FALSE /\ wlive' = wlive
    \/ WSame

LEMMA WNextIsContract ==
    WNext => [Windows!Contract!Next]_(Windows!Contract!vars)
BY DEF WNext, WSame, WAccepted, WAcceptedOf, WEffective, Windows!Contract!Next,
       Windows!Contract!vars, Windows!Contract!Accept, Windows!Contract!Exit,
       Windows!Contract!Start, Windows!Contract!Stopped, Windows!Contract!Answer,
       Windows!Contract!End

LEMMA WAcceptedIs ==
    /\ wserving # None => /\ WAccepted # <<>> /\ Head(WAccepted) = wserving
                          /\ Tail(WAccepted) = <<>>
    /\ wserving = None => WAccepted = <<>>
    /\ wserving' = None => WAccepted' = <<>>
    /\ wserving' = wserving => WAccepted' = WAccepted
BY DEF WAccepted, WAcceptedOf

WReplies ==
    \/ Windows!Refuse \/ Windows!StopFails \/ Windows!CreateFails \/ Windows!Answer
    \/ Windows!UpgradeThrows \/ \E written \in BOOLEAN : Windows!AnswerUpgrade(written)

LEMMA WRepliesAre ==
    ASSUME ServiceInv, WReplies
    PROVE  /\ wserving # None /\ wserving' = None /\ wat' = "idle" /\ wlive' = wlive
           /\ \E ok \in BOOLEAN :
               /\ wsaid' = [op |-> wserving.op, ok |-> ok]
               /\ ok /\ wserving.op \in {"START", "STOP"} => WEffective
               /\ ok /\ wserving.op = "STOP" => wat = "stopped"
<1>1. wat # "idle" /\ wserving' = None /\ wat' = "idle" /\ wlive' = wlive
    BY DEF WReplies, Windows!Refuse, Windows!StopFails, Windows!CreateFails, Windows!Answer,
       Windows!UpgradeThrows, Windows!AnswerUpgrade, Windows!Reply
<1>2. wserving # None
    BY <1>1 DEF ServiceInv, ThreadInv
<1>3. CASE Windows!Refuse \/ Windows!StopFails \/ Windows!CreateFails \/ Windows!UpgradeThrows
    BY <1>1, <1>2, <1>3 DEF Windows!Refuse, Windows!StopFails, Windows!CreateFails,
       Windows!UpgradeThrows, Windows!Reply
<1>4. CASE Windows!Answer
    <2>1. wat = "watch" => wserving.op = "START"
        BY DEF ServiceInv, ThreadInv
    <2> QED BY <1>1, <1>2, <1>4, <2>1 DEF Windows!Answer, Windows!Reply, WEffective
<1>5. CASE \E written \in BOOLEAN : Windows!AnswerUpgrade(written)
    <2>1. wat = "reply" /\ wsaid' = [op |-> wserving.op, ok |-> TRUE]
        BY <1>5 DEF Windows!AnswerUpgrade, Windows!Reply
    <2>2. wserving.op = "UPGRADE"
        BY <2>1 DEF ServiceInv, ThreadInv
    <2> QED BY <1>1, <1>2, <2>1, <2>2
<1> QED BY <1>3, <1>4, <1>5 DEF WReplies

LEMMA WStepIs ==
    ASSUME ServiceInv, Windows!Next
    PROVE  \/ WReplies
           \/ UNCHANGED <<wserving, wlive>> /\ WEffective' = WEffective /\ wsaid' = None
           \/ wserving' = None /\ wat' = "idle" /\ wlive' = None /\ wsaid' = None
           \/ Windows!BeginStop \/ Windows!ConfirmExit \/ Windows!CreateCore \/ Windows!KernelExits
           \/ \E op \in Windows!Ops, f \in Configs \cup {None} : Windows!Serve(op, f)
<1> USE DEF Windows!Quiet, Windows!service, Windows!files, WEffective, Windows!Served,
       Windows!Serving
<1>1. CASE Windows!Reap    BY <1>1 DEF Windows!Reap
<1>2. CASE Windows!TakeLock \/ Windows!StageSource \/ Windows!SourceStaged \/ Windows!StartHelper
    BY <1>2 DEF Windows!TakeLock, Windows!StageSource, Windows!SourceStaged, Windows!StartHelper
<1>3. CASE Windows!ServiceEnds \/ Windows!ServiceCrashes
    BY <1>3 DEF Windows!ServiceEnds, Windows!ServiceCrashes, ServiceInv, ThreadInv
<1>4. CASE Windows!ScmStart
    BY <1>4 DEF Windows!ScmStart, Windows!Started
<1>5. CASE \E remove \in BOOLEAN : Windows!Elevate(remove)
    BY <1>5 DEF Windows!Elevate
<1>6. CASE \E p \in Windows!Procs : Windows!Installer(p) \/ Windows!Kill(p)
    BY <1>6 DEF Windows!Installer, Windows!Lock, Windows!Stage, Windows!Staged, Windows!Prune,
       Windows!AskStop, Windows!SeeStopped, Windows!StopTimesOut, Windows!MoveOld, Windows!MoveNew,
       Windows!Register, Windows!Finish, Windows!Throw, Windows!UndoNew, Windows!UndoOld,
       Windows!Delete, Windows!Fail, Windows!Kill
<1> QED BY <1>1, <1>2, <1>3, <1>4, <1>5, <1>6 DEF Windows!Next, Windows!Thread, WReplies

LEMMA WStepImplements ==
    ASSUME ServiceInv, [Windows!Next]_windows
    PROVE  WNext
<1>1. CASE WReplies
    <2>1. WAccepted # <<>> /\ Head(WAccepted) = wserving /\ WAccepted' = Tail(WAccepted)
        BY <1>1, WRepliesAre, WAcceptedIs
    <2>2. WEffective' = FALSE
        BY <1>1, WRepliesAre DEF WEffective
    <2> QED BY <1>1, <2>1, <2>2, WRepliesAre DEF WNext
<1>2. CASE UNCHANGED <<wserving, wlive>> /\ WEffective' = WEffective
    BY <1>2, WAcceptedIs DEF WNext, WSame
<1>3. CASE wserving' = None /\ wat' = "idle" /\ wlive' = None
    BY <1>3, WAcceptedIs DEF WNext, WEffective
<1>4. CASE Windows!BeginStop \/ Windows!ConfirmExit
    <2>1. /\ wat \in {"read", "term"} /\ UNCHANGED <<wserving, wlive>>
          /\ wat' \in {"term", "create", "stopped"}
          /\ wat' = "stopped" => wserving.op = "STOP" /\ wlive = None
        BY <1>4 DEF Windows!BeginStop, Windows!ConfirmExit, ServiceInv, ThreadInv,
           Windows!KernelIsHeld
    <2>2. wserving # None /\ ~WEffective /\ WAccepted' = WAccepted
        BY <2>1, WAcceptedIs DEF ServiceInv, ThreadInv, WEffective
    <2>3. CASE wat' = "stopped"
        <3>1. Head(WAccepted).op = "STOP" /\ WAccepted # <<>> /\ WEffective' = TRUE
            BY <2>1, <2>2, <2>3, WAcceptedIs DEF WEffective
        <3> QED BY <2>1, <2>2, <2>3, <3>1 DEF WNext
    <2>4. CASE wat' # "stopped"
        BY <2>1, <2>2, <2>4 DEF WNext, WSame, WEffective
    <2> QED BY <2>3, <2>4
<1>5. CASE Windows!CreateCore
    <2>1. /\ wat = "create" /\ wat' = "watch" /\ wserving' = wserving /\ wlive' = wserving.config
          /\ wlive = None /\ wserving.op = "START" /\ wserving # None
        BY <1>5 DEF Windows!CreateCore, ServiceInv, ThreadInv
    <2>2. WAccepted # <<>> /\ Head(WAccepted) = wserving /\ WAccepted' = WAccepted
        BY <2>1, WAcceptedIs
    <2>3. ~WEffective /\ WEffective' = TRUE
        BY <2>1 DEF WEffective
    <2> QED BY <2>1, <2>2, <2>3 DEF WNext
<1>6. CASE Windows!KernelExits
    BY <1>6, WAcceptedIs DEF Windows!KernelExits, WNext, WEffective
<1>7. ASSUME NEW op \in Windows!Ops, NEW f \in Configs \cup {None}, Windows!Serve(op, f)
      PROVE  WNext
    <2> DEFINE c == [op |-> op, config |-> f]
    <2>1. /\ (op = "START") = (f # None) /\ wat = "idle" /\ wat' = "read" /\ wserving' = c
          /\ wlive' = wlive
        BY <1>7 DEF Windows!Serve
    <2>2. c \in Windows!Contract!Command
        BY <2>1 DEF Windows!Contract!Command, Windows!Ops
    <2>3. c \in Windows!Command
        BY DEF Windows!Command
    <2>4. c # None /\ wserving = None
        BY <2>1, <2>3, Apart DEF ServiceInv, ThreadInv
    <2> HIDE DEF c
    <2>5. WAccepted = <<>> /\ WAccepted' = <<c>>
        BY <2>1, <2>4, WAcceptedIs DEF WAccepted, WAcceptedOf
    <2>6. WAccepted' = Append(WAccepted, c)
        BY <2>5
    <2> QED BY <2>1, <2>2, <2>6 DEF WNext, WEffective
<1>8. CASE UNCHANGED windows
    BY <1>8, WAcceptedIs DEF windows, WNext, WSame, WEffective
<1> QED BY <1>1, <1>2, <1>3, <1>4, <1>5, <1>6, <1>7, <1>8, WStepIs

LEMMA WStopStep ==
    ASSUME ServiceInv, Windows!Next, wsaid' # None, wsaid'.op = "STOP", wsaid'.ok
    PROVE  wlive' = None
<1>1. WReplies
    BY WStepIs DEF WReplies, Windows!BeginStop, Windows!ConfirmExit, Windows!CreateCore,
       Windows!KernelExits, Windows!Serve, Windows!Quiet
<1>2. wlive' = wlive /\ wat = "stopped"
    BY <1>1, WRepliesAre
<1> QED BY <1>2 DEF ServiceInv, ThreadInv

----------------------------------------------------------------------------
\* The Windows service in a behaviour of both services, and both together.

LEMMA ServiceSteps ==
    ASSUME [Next]_vars
    PROVE  [Windows!Next]_windows
BY DEF Next, vars

LEMMA ServiceIsSafe == Spec => []ServiceInv
<1>1. Init => ServiceInv
    BY ServiceInit DEF Init
<1>2. ServiceInv /\ [Next]_vars => ServiceInv'
    BY ServiceSteps, ServiceStep
<1> QED BY <1>1, <1>2, PTL DEF Spec

\* The daemon never loses sight of a kernel; nothing half-copied is ever installed, a registered
\* service has a payload to start from and is not left disabled whatever failed, and no kernel
\* runs that the Windows service does not hold.
THEOREM BothAreSafe == Spec => []ServicesAreSafe
<1>1. DaemonInv /\ ServiceInv => ServicesAreSafe
    BY ServicePromises DEF ServicesAreSafe, DaemonInv, ChildInv
<1> QED BY <1>1, DaemonIsSafe, ServiceIsSafe, PTL

\* The Windows service only confirms a STOP when no kernel runs.
THEOREM StopIsConfirmed == Spec => Windows!StopIsTrue
<1>1. [Next]_vars => Windows!Next \/ UNCHANGED Windows!vars
    BY ServiceSteps DEF windows, Windows!vars, Windows!service, Windows!files
<1>2. ServiceInv /\ [Next]_vars =>
        [wsaid' # None /\ wsaid'.op = "STOP" /\ wsaid'.ok => wlive' = None]_(Windows!vars)
    BY <1>1, WStopStep
<1> QED BY <1>2, ServiceIsSafe, PTL DEF Spec, Windows!StopIsTrue

\* The Windows service, whoever installs, removes, upgrades or kills it, implements
\* KernelService as the Linux daemon does.
THEOREM ServiceImplements == Spec => Windows!KeepsContract
<1>1. Init => Windows!Contract!Init
    BY DEF Init, Windows!Init, Windows!Contract!Init
<1>2. ServiceInv /\ [Next]_vars => [Windows!Contract!Next]_(Windows!Contract!vars)
    BY ServiceSteps, WStepImplements, WNextIsContract
<1> QED BY <1>1, <1>2, ServiceIsSafe, PTL DEF Spec, Windows!KeepsContract, Windows!Contract!Spec
=============================================================================

----------------------------- MODULE NativeSession -----------------------------
(***************************************************************************)
(* PPTP connections: the store that dials, withdraws and disconnects them  *)
(* (store/vpn.cppm), the manager below it (vpn.cppm), the sessions of the  *)
(* privileged service (pptp.cpp), and the kernel whose plan refers to      *)
(* their interfaces.  One step is one request to the service or one        *)
(* publication of the plan: answers get lost, sessions die, the service    *)
(* crashes, and a kernel that would not stop leaves the store unsure.      *)
(***************************************************************************)
EXTENDS Naturals

CONSTANTS
    Ids,        \* PPTP profiles
    None,
    MaxOps,     \* bound: user commands
    MaxFaults   \* bound: sessions that die, crashes of the service

VARIABLES
    platform,   \* "linux" or "windows"
    conn,       \* the manager's state of each connection
    engine,     \* it has an active engine
    op,         \* the store's operation: kind, connection, step
    core,       \* the kernel runs
    belief,     \* CoreSnapshot.state: "running", "stopped" or "failed"
    plan,       \* connections whose interface the running plan refers to
    sess,       \* sessions of the service
    leaked,     \* sessions whose dial failed here and whose clean-up was lost as well
    ops, faults

vars == <<platform, conn, engine, op, core, belief, plan, sess, leaked, ops, faults>>
Idle == [kind |-> "none", id |-> None, at |-> "idle", was |-> FALSE, rest |-> {}]

TypeOK ==
    /\ platform \in {"linux", "windows"}
    /\ conn \in [Ids -> {"absent", "idle", "connecting", "connected", "failed"}]
    /\ engine \in [Ids -> BOOLEAN] /\ core \in BOOLEAN
    /\ op.kind \in {"none", "connect", "disconnect", "forget", "refresh", "undo", "stop", "exit"}
    /\ op.id \in Ids \cup {None} /\ op.was \in BOOLEAN /\ op.rest \subseteq Ids
    /\ op.at \in {"idle", "check", "block", "halt", "release", "evidence", "drop", "dial", "undial",
                  "routes", "publish", "resume", "next", "gone"}
    /\ belief \in {"running", "stopped", "failed"} /\ plan \subseteq Ids
    /\ sess \in [Ids -> {"absent", "alive", "dead", "lingering"}] /\ leaked \subseteq Ids
    /\ ops \in 0..MaxOps /\ faults \in 0..MaxFaults

Init ==
    /\ platform \in {"linux", "windows"}
    /\ conn = [i \in Ids |-> "absent"] /\ engine = [i \in Ids |-> FALSE] /\ op = Idle
    /\ core = TRUE /\ belief = "running" /\ plan = {}
    /\ sess = [i \in Ids |-> "absent"] /\ leaked = {} /\ ops = 0 /\ faults = 0

Service == UNCHANGED <<platform, sess, leaked, faults>>
Kernel == UNCHANGED <<core, belief, plan>>
At(s) == op.at = s
To(s) == op' = [op EXCEPT !.at = s] /\ UNCHANGED ops
Done == op' = Idle /\ UNCHANGED ops
Connected == {i \in Ids : conn[i] = "connected"}
InMap(i) == sess[i] \in {"alive", "dead"}

(***************************************************************************)
(* The service.                                                            *)
(***************************************************************************)

\* Linux erases the entry, kills the process group and waits for the interface,
\* which may outlive the wait.
LinuxStops(i) == {<<"absent", TRUE>>, <<"lingering", FALSE>>}
\* Windows keeps the entry until the hang-up is seen.
WindowsStops(i) == {<<"absent", TRUE>>, <<sess[i], FALSE>>, <<"dead", FALSE>>}

\* PPTP_STOP: an unknown connection is stopped already.
StopEffects(i) ==
    IF ~InMap(i) THEN {<<sess[i], TRUE>>}
    ELSE IF platform = "linux" THEN LinuxStops(i) ELSE WindowsStops(i)

\* The answer may be lost.  A request that was sent to the Linux socket is served
\* later if not now; a busy Windows pipe may never take it.
StopResults(i) ==
    StopEffects(i) \cup {<<e[1], FALSE>> : e \in StopEffects(i)}
    \cup (IF platform = "windows" THEN {<<sess[i], FALSE>>} ELSE {})

\* Session evidence: no entry, a dead process or another interface of that name are
\* proof of the end; a failed query is not.
LinuxEvidence(i) == IF sess[i] = "alive" THEN {"alive", "unknown"} ELSE {"gone"}
WindowsEvidence(i) == IF sess[i] = "alive" THEN {"alive", "unknown"}
                      ELSE IF sess[i] = "dead" THEN {"gone", "unknown"} ELSE {"gone"}
\* PPTP_STATUS; without an answer nothing is known.
Evidence(i) == {"unknown"} \cup IF platform = "linux" THEN LinuxEvidence(i) ELSE WindowsEvidence(i)

\* A duplicate is refused; a dial that fails after pppd started stops it again.
LinuxDials(i) == IF InMap(i) THEN {<<sess[i], FALSE>>}
                 ELSE {<<sess[i], FALSE>>, <<"lingering", FALSE>>, <<"alive", TRUE>>}
WindowsDials(i) == IF InMap(i) THEN {<<sess[i], FALSE>>}
                   ELSE {<<sess[i], FALSE>>, <<"lingering", FALSE>>, <<"alive", TRUE>>}

\* PPTP_START; its answer may be lost.
DialEffects(i) ==
    LET dials == IF platform = "linux" THEN LinuxDials(i) ELSE WindowsDials(i)
    IN  dials \cup {<<d[1], FALSE>> : d \in dials}

StopRequest(i, ok) == \E r \in StopResults(i) : sess' = [sess EXCEPT ![i] = r[1]] /\ ok = r[2]

SessionDies(i) ==
    /\ sess[i] = "alive" /\ faults < MaxFaults /\ faults' = faults + 1
    /\ sess' = [sess EXCEPT ![i] = "dead"]
    /\ UNCHANGED <<platform, conn, engine, op, core, belief, plan, leaked, ops>>

\* The dialers belong to the service's control group.
ServiceCrashes ==
    /\ faults < MaxFaults /\ faults' = faults + 1
    /\ sess' = [i \in Ids |-> "absent"]
    /\ UNCHANGED <<platform, conn, engine, op, core, belief, plan, leaked, ops>>

(***************************************************************************)
(* The kernel, as the store drives it.                                     *)
(***************************************************************************)

\* publishRouting: a running kernel gets the new plan, rejects it, or does not
\* survive it; otherwise the plan is only compiled.
Published(sessions, ok) ==
    \/ ~ok /\ Kernel
    \/ ok /\ belief # "running" /\ Kernel
    \/ belief = "running" /\ core /\ plan' = sessions /\ ok /\ UNCHANGED <<core, belief>>
    \/ belief = "running" /\ core' = FALSE /\ belief' = "failed" /\ plan' = {} /\ ~ok
    \/ belief = "running" /\ belief' = "failed" /\ ~ok /\ UNCHANGED <<core, plan>>

\* stopCore: confirmed, or not.
StopsCore ==
    \/ core' = FALSE /\ belief' = "stopped" /\ plan' = {}
    \/ belief' = "failed" /\ core' \in {core, FALSE} /\ plan' = IF core' THEN plan ELSE {}

UserStarts ==
    /\ op = Idle /\ belief # "running" /\ ~core /\ ops < MaxOps /\ ops' = ops + 1
    /\ core' = TRUE /\ belief' = "running" /\ plan' = Connected
    /\ Service /\ UNCHANGED <<conn, engine, op>>

(***************************************************************************)
(* Operations of the store, one at a time.                                 *)
(***************************************************************************)

Begin(kind, i, at) ==
    /\ op = Idle
    /\ op' = [kind |-> kind, id |-> i, at |-> at, was |-> belief = "running",
              rest |-> {j \in Ids : engine[j]}]

\* connectPptp with the stored configuration, or with a changed one.
Connect(i) ==
    /\ ops < MaxOps /\ ops' = ops + 1
    /\ \/ conn[i] = "connected" /\ Begin("connect", i, "check")
       \/ Begin("connect", i, "block")
    /\ \/ platform = "linux"
       \/ \A j \in Ids \ {i} : conn[j] \notin {"connected", "connecting"}
    /\ Kernel /\ Service /\ UNCHANGED <<conn, engine>>

Check ==
    /\ At("check") /\ \E e \in Evidence(op.id) : IF e = "gone" THEN To("block") ELSE Done
    /\ Kernel /\ Service /\ UNCHANGED <<conn, engine>>

Disconnect(i) ==
    /\ conn[i] # "absent" /\ ops < MaxOps /\ ops' = ops + 1
    /\ \E k \in {"disconnect", "forget"} : Begin(k, i, "block")
    /\ Kernel /\ Service /\ UNCHANGED <<conn, engine>>

\* setError and return: the connection stays as it was.
Refuse ==
    /\ UNCHANGED <<conn, engine>>
    /\ IF op.kind = "stop" THEN To("next") ELSE Done

AfterBlock == IF op.kind = "refresh" THEN "drop" ELSE "release"

\* Mutant: a rejected candidate is taken for a withdrawal.
BlockAnyway ==
    /\ At("block") /\ \E ok \in BOOLEAN : Published(Connected \ {op.id}, ok)
    /\ To(AfterBlock) /\ UNCHANGED <<conn, engine>> /\ Service

\* blockBeforeDisconnect: publish without it; else the running plan must not use it.
Block ==
    /\ At("block") /\ Service
    /\ IF conn[op.id] # "connected"
       THEN To(AfterBlock) /\ Kernel /\ UNCHANGED <<conn, engine>>
       ELSE \E ok \in BOOLEAN :
                /\ Published(Connected \ {op.id}, ok)
                /\ To(IF ok \/ op.id \notin plan' THEN AfterBlock ELSE "halt")
                /\ UNCHANGED <<conn, engine>>

\* The third argument of Withdraw: stop the kernel.
Halt ==
    /\ At("halt") /\ Service /\ StopsCore
    /\ IF belief' = "stopped" THEN To(AfterBlock) /\ UNCHANGED <<conn, engine>>
       ELSE Done /\ UNCHANGED <<conn, engine>>

\* disconnectConfirmed.
Release ==
    /\ At("release") /\ Kernel /\ UNCHANGED <<platform, leaked, faults>>
    /\ IF ~engine[op.id] THEN To("drop") /\ UNCHANGED <<sess, conn, engine>>
       ELSE \/ StopRequest(op.id, TRUE) /\ To("evidence") /\ UNCHANGED <<conn, engine>>
            \/ StopRequest(op.id, FALSE) /\ Refuse
Confirm ==
    /\ At("evidence") /\ Kernel /\ Service
    /\ \E e \in Evidence(op.id) :
        IF e = "gone" THEN To("drop") /\ UNCHANGED <<conn, engine>> ELSE Refuse

\* VpnManager::disconnect repeats the STOP for an active engine and forgets it.
Drop ==
    /\ At("drop") /\ Kernel /\ UNCHANGED <<platform, leaked, faults>>
    /\ IF engine[op.id] THEN StopRequest(op.id, TRUE) \/ StopRequest(op.id, FALSE) ELSE UNCHANGED sess
    /\ engine' = [engine EXCEPT ![op.id] = FALSE]
    /\ CASE op.kind = "connect" ->
                conn' = [conn EXCEPT ![op.id] = "connecting"] /\ To("dial")
         [] op.kind = "forget" -> conn' = [conn EXCEPT ![op.id] = "absent"] /\ Done
         [] OTHER -> /\ conn' = [conn EXCEPT ![op.id] = IF @ = "absent" THEN @ ELSE "idle"]
                     /\ CASE op.kind \in {"stop", "exit"} -> To("next")
                          [] op.kind = "undo" /\ op.was /\ belief # "running" -> To("resume")
                          [] OTHER -> Done

\* connectService.
Dial ==
    /\ At("dial") /\ Kernel /\ UNCHANGED <<platform, leaked, faults, conn, engine>>
    /\ \E r \in DialEffects(op.id) :
        sess' = [sess EXCEPT ![op.id] = r[1]] /\ To(IF r[2] THEN "routes" ELSE "undial")

\* The adapter's disconnect after a failure: the answer is ignored.
Undial ==
    /\ At("undial") /\ Kernel /\ UNCHANGED <<platform, faults>>
    /\ StopRequest(op.id, TRUE) \/ StopRequest(op.id, FALSE)
    /\ leaked' = IF sess'[op.id] = "alive" THEN leaked \cup {op.id} ELSE leaked \ {op.id}
    /\ conn' = [conn EXCEPT ![op.id] = "failed"] /\ UNCHANGED engine
    /\ IF op.was /\ belief # "running" THEN To("resume") ELSE Done

\* applyRoutes: a session that is gone has none.
Routes ==
    /\ At("routes") /\ Kernel /\ Service
    /\ \/ InMap(op.id) /\ To("publish")
          /\ conn' = [conn EXCEPT ![op.id] = "connected"]
          /\ engine' = [engine EXCEPT ![op.id] = TRUE]
       \/ To("undial") /\ UNCHANGED <<conn, engine>>

\* The plan gets the new interface; if it does not, the session is withdrawn.
Publish ==
    /\ At("publish") /\ Service /\ UNCHANGED <<conn, engine>>
    /\ \E ok \in BOOLEAN :
        /\ Published(Connected, ok)
        /\ IF ok THEN Done ELSE op' = [op EXCEPT !.kind = "undo", !.at = "block"] /\ UNCHANGED ops

\* resumeNativeRouting: the kernel ran before and does not now.
Resume ==
    /\ At("resume") /\ Service /\ Done /\ UNCHANGED <<conn, engine>>
    /\ \/ ~core /\ core' = TRUE /\ belief' = "running" /\ plan' = Connected
       \/ Kernel

\* refreshSessions, once a second: only a confirmed loss is acted on.
Refresh(i) ==
    /\ conn[i] = "connected" /\ "gone" \in Evidence(i)
    /\ Begin("refresh", i, "block") /\ UNCHANGED ops
    /\ Kernel /\ Service /\ UNCHANGED <<conn, engine>>

\* stopTraffic and shutdown stop the kernel first, then each session; stopTraffic
\* only if the stop was confirmed.  Then an empty plan is published or compiled.
StopTraffic ==
    /\ ops < MaxOps /\ ops' = ops + 1
    /\ \E k \in {"stop", "exit"} : Begin(k, None, "next")
    /\ StopsCore /\ Service /\ UNCHANGED <<conn, engine>>
NextSession ==
    /\ At("next") /\ Kernel /\ Service /\ UNCHANGED <<conn, engine, ops>>
    /\ IF (op.kind = "stop" /\ belief # "stopped") \/ op.rest = {}
       THEN op' = IF op.kind = "exit" THEN [op EXCEPT !.at = "gone"] ELSE Idle
       ELSE \E i \in op.rest :
                op' = [op EXCEPT !.id = i, !.rest = @ \ {i},
                                 !.at = IF op.kind = "exit" THEN "drop" ELSE "release"]

Next ==
    \/ ServiceCrashes \/ UserStarts \/ StopTraffic \/ NextSession
    \/ Check \/ Block \/ Halt \/ Release \/ Confirm \/ Drop \/ Dial \/ Undial \/ Routes \/ Publish \/ Resume
    \/ \E i \in Ids : SessionDies(i) \/ Connect(i) \/ Disconnect(i) \/ Refresh(i)

Spec == Init /\ [][Next]_vars

(***************************************************************************)
(* Properties.                                                             *)
(***************************************************************************)

\* A live session is taken down by the store.
Release_(i) ==
    /\ sess[i] = "alive" /\ sess'[i] # "alive" /\ faults' = faults
    /\ op.id = i /\ op.at \in {"release", "drop", "undial"}

\* A session is taken down, by a command or at exit, only after the running plan stopped
\* referring to its interface or the kernel was confirmed stopped, whatever was rejected,
\* refused or lost before; unless the store holds its kernel for failed.  Then a
\* withdrawal is only compiled, and counts as one whether the kernel still runs or not.
WithdrawnFirst ==
    [][\A i \in Ids : Release_(i) => ~core \/ i \notin plan \/ belief = "failed"]_vars

\* Not so: without that exemption, at exit aside, which asks nobody.  The comment on
\* native_routes::Withdraw has it that a release "requires either a successful withdrawal
\* or confirmed core stop"; but refreshRouting reports success without either when the
\* kernel's state is not Running, and a kernel that would not stop leaves it Failed.
ReleaseIsWithdrawn ==
    [][\A i \in Ids : Release_(i) /\ op.kind # "exit" => ~core \/ i \notin plan]_vars

\* Between operations the running plan refers to connected sessions only.
PlanIsConnected == op = Idle /\ belief = "running" => plan \subseteq Connected

\* A live session that no connection owns is the remainder of a dial whose answer
\* and whose clean-up were both lost; the next dial is refused and reclaims it.
OrphanIsLeaked ==
    op = Idle => \A i \in Ids : sess[i] = "alive" /\ ~engine[i] => i \in leaked
===============================================================================

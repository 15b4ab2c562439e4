------------------------ MODULE CoreLifecycleProofs -------------------------
(***************************************************************************)
(* Invariance proofs for CoreLifecycle, for every set of profile contents, *)
(* every platform and every number of kernels.                             *)
(***************************************************************************)
EXTENDS CoreLifecycle, TLAPS

----------------------------------------------------------------------------
\* The inductive invariant, part by part.

Launching == {"plan", "launch", "await"}

\* The state is Starting exactly while startCore works towards a kernel, and
\* while it stops one that did not answer.
StartingInv ==
    /\ at \in Launching => snap.state = "Starting"
    /\ snap.state = "Starting" =>
         at \in Launching \/ (at \in StopPoints /\ ret.stop = "timedOut")

\* A prepared plan waits only for the start that consumes it, and is made of
\* the content that start was called with.
PreparedInv ==
    /\ prepared # None \/ options # None => at \in {"check", "plan"}
    /\ prepared = None \/ options = None
    /\ prepared # None => prepared.main = call.main
    /\ options # None => options.main = call.main

\* What startCore remembers of its content is what it committed to disk.
CommittedInv ==
    /\ at = "plan" => lastMain = call.main
    /\ at \in {"launch", "await"} => file # None /\ file.main = lastMain

\* The candidate and the plan to go back to exist where they are started.
CandidateInv ==
    /\ \/ at \in {"prepare", "handoff", "handoffStopped"}
       \/ at \in StopPoints /\ ret.stop = "handoffStopped"
       => cmd.cand # None
    /\ \/ at = "rollbackStopped"
       \/ at \in StopPoints /\ ret.stop = "rollbackStopped"
       => cmd.prev # None

\* stopCore leaves no kernel Running, whatever it returns.
StoppedInv == at = "tunStopped" => ~Running

\* Only the daemon is late, and only it owns kernels where it exists; a kernel
\* that is awaited runs the committed plan unless it was adopted.
AwaitInv ==
    /\ ~Service => ~managed /\ late = {}
    /\ at = "await" => /\ engine \in {file, None} \/ (~Service /\ adopted)
                       /\ ~Service => pid

\* RunningPlanIsLive between the steps of an operation as well.
LiveInv ==
    Running => /\ applied # None /\ file = applied /\ engine \in {applied, None}
               /\ snap.tun = applied.tun /\ snap.listen = applied.listen
               /\ lastMain = applied.main

\* What the desktop shows is what the last other program set, or ours; a lease
\* over our own setting holds the former, also when it is not to be restored.
ProxyInv ==
    /\ user # "ours"
    /\ os # "ours" /\ user # None => user = os
    /\ os = "ours" /\ user # None => lease # None /\ lease.original = user

ControlInv == /\ StartingInv /\ PreparedInv /\ CommittedInv /\ CandidateInv
              /\ StoppedInv /\ AwaitInv /\ LiveInv

IInv == TypeOK /\ ControlInv

----------------------------------------------------------------------------
\* Types of the operators the actions are built from.

LEMMA AnyMainType == AnyMain \in Mains
BY ConstantsAssumption DEF ConstantsAssumption, AnyMain

\* None is told apart from plans, proxies and leases.
LEMMA NoneIsNone == None \notin Plans /\ None \notin Proxies /\ None \notin Leases
BY ConstantsAssumption DEF ConstantsAssumption

LEMMA PlanTypes ==
  /\ \A p \in Plans : p.main \in Mains /\ p.tun \in BOOLEAN /\ p.listen \in BOOLEAN
  /\ \A mm \in Mains, t \in BOOLEAN, l \in BOOLEAN :
       [main |-> mm, tun |-> t, listen |-> l] \in Plans
BY DEF Plans

LEMMA SnapFields ==
  \A s \in Snaps : /\ s.state \in States /\ s.tun \in BOOLEAN /\ s.listen \in BOOLEAN
                  /\ s.since \in Nat /\ s.epoch \in Nat /\ s.err \in BOOLEAN
BY DEF Snaps

LEMMA SnapTypes ==
  ASSUME NEW s \in Snaps
  PROVE  /\ Failed(s) \in Snaps /\ Erred(s) \in Snaps
         /\ [s EXCEPT !.state = "Starting", !.err = FALSE] \in Snaps
         /\ [s EXCEPT !.state = "Stopped", !.err = FALSE] \in Snaps
         /\ \A n \in Nat : /\ [s EXCEPT !.since = n] \in Snaps
                          /\ [Erred(s) EXCEPT !.since = n] \in Snaps
         /\ \A b \in BOOLEAN : [s EXCEPT !.tun = b] \in Snaps
         /\ \A b \in BOOLEAN : Stopped(s, b) \in Snaps
         /\ \A p \in Plans : Ready(s, p) \in Snaps
         /\ View(s) \in Views
<1>1. Failed(s) \in Snaps /\ Erred(s) \in Snaps
  BY DEF Snaps, States, Failed, Erred
<1>2. /\ [s EXCEPT !.state = "Starting", !.err = FALSE] \in Snaps
      /\ [s EXCEPT !.state = "Stopped", !.err = FALSE] \in Snaps
  BY DEF Snaps, States
<1>3. ASSUME NEW n \in Nat
      PROVE  [s EXCEPT !.since = n] \in Snaps /\ [Erred(s) EXCEPT !.since = n] \in Snaps
  BY DEF Snaps, States, Erred
<1>4. ASSUME NEW b \in BOOLEAN
      PROVE  [s EXCEPT !.tun = b] \in Snaps /\ Stopped(s, b) \in Snaps
  BY DEF Snaps, States, Stopped
<1>5. ASSUME NEW p \in Plans
      PROVE  Ready(s, p) \in Snaps
  <2>1. p.tun \in BOOLEAN /\ p.listen \in BOOLEAN
    BY PlanTypes
  <2>2. s.epoch + 1 \in Nat /\ 0 \in Nat
    BY SnapFields
  <2>3. (IF p.listen THEN s.epoch + 1 ELSE 0) \in Nat
    BY <2>2
  <2>. QED
    BY <2>1, <2>2, <2>3 DEF Snaps, States, Ready
<1>6. View(s) \in Views
  BY SnapFields DEF View, Views
<1>. QED
  BY <1>1, <1>2, <1>3, <1>4, <1>5, <1>6

LEMMA CommandTypes ==
  /\ NoCmd \in Commands
  /\ \A c \in Commands :
       /\ c.on \in BOOLEAN /\ c.proxy \in BOOLEAN /\ c.old \in Mains
       /\ c.cand \in Plans \cup {None} /\ c.prev \in Plans \cup {None}
       /\ c.before.since \in Nat /\ c.before.tun \in BOOLEAN
       /\ [c EXCEPT !.alone = FALSE] \in Commands
       /\ \A b \in BOOLEAN : [c EXCEPT !.proxy = b] \in Commands
       /\ \A b \in BOOLEAN : [c EXCEPT !.blind = b] \in Commands
       /\ \A p \in Plans \cup {None} : [c EXCEPT !.prev = p] \in Commands
<1>1. View(Start0) \in Views
  BY DEF View, Start0, Views, States
<1>2. NoCmd \in Commands
  BY <1>1, AnyMainType DEF NoCmd, Commands, Names
<1>3. ASSUME NEW c \in Commands
      PROVE  /\ c.on \in BOOLEAN /\ c.proxy \in BOOLEAN /\ c.old \in Mains
             /\ c.cand \in Plans \cup {None} /\ c.prev \in Plans \cup {None}
             /\ c.before.since \in Nat /\ c.before.tun \in BOOLEAN
  BY DEF Commands, Views
<1>4. ASSUME NEW c \in Commands
      PROVE  /\ [c EXCEPT !.alone = FALSE] \in Commands
             /\ \A b \in BOOLEAN : [c EXCEPT !.proxy = b] \in Commands
             /\ \A b \in BOOLEAN : [c EXCEPT !.blind = b] \in Commands
             /\ \A p \in Plans \cup {None} : [c EXCEPT !.prev = p] \in Commands
  BY DEF Commands
<1>. QED
  BY <1>2, <1>3, <1>4

LEMMA EnterType ==
  ASSUME TypeOK, NEW n \in Names, NEW b \in BOOLEAN, NEW p \in Plans \cup {None},
         Enter(n, b, p)
  PROVE  /\ at = "idle" /\ cmd' \in Commands
         /\ cmd'.name = n /\ cmd'.on = b /\ cmd'.cand = p
<1>1. PICK seen \in SeenOurs :
        cmd' = [NoCmd EXCEPT !.name = n, !.on = b, !.cand = p, !.before = View(snap),
                             !.proxy = seen, !.old = settings.main,
                             !.intent = settings.tun]
  BY DEF Enter
<1>2. seen \in BOOLEAN
  BY DEF SeenOurs
<1>3. View(snap) \in Views
  BY SnapTypes DEF TypeOK
<1>4. settings.main \in Mains /\ settings.tun \in BOOLEAN
  BY DEF TypeOK, Settings
<1>5. cmd' = [name |-> n, on |-> b, cand |-> p, before |-> View(snap), prev |-> None,
              proxy |-> seen, old |-> settings.main, intent |-> settings.tun,
              alone |-> TRUE, blind |-> FALSE]
  BY <1>1 DEF NoCmd
<1>. QED
  BY <1>2, <1>3, <1>4, <1>5 DEF Commands, Enter

LEMMA CallTypes ==
  /\ NoCall \in Calls
  /\ \A b : TakeIf(b) \in {"keep", "take", "drop"} /\ TakeOrDrop(b) \in {"keep", "take", "drop"}
  /\ \A mm \in Mains, t \in BOOLEAN, x \in {"keep", "take", "drop"} :
       /\ StartArgs(mm, t, x) \in Calls /\ StartArgs(mm, t, x).main = mm
       /\ [StartArgs(mm, t, x) EXCEPT !.detached = TRUE] \in Calls
       /\ [StartArgs(mm, t, x) EXCEPT !.detached = TRUE].main = mm
  /\ \A c \in Calls : /\ c.main \in Mains /\ c.tun \in BOOLEAN /\ c.detached \in BOOLEAN
                     /\ [c EXCEPT !.repair = FALSE] \in Calls
                     /\ [c EXCEPT !.repair = FALSE].main = c.main
<1>1. NoCall \in Calls
  BY AnyMainType DEF NoCall, Calls
<1>2. \A b : TakeIf(b) \in {"keep", "take", "drop"} /\ TakeOrDrop(b) \in {"keep", "take", "drop"}
  BY DEF TakeIf, TakeOrDrop
<1>3. ASSUME NEW mm \in Mains, NEW t \in BOOLEAN, NEW x \in {"keep", "take", "drop"}
      PROVE  /\ StartArgs(mm, t, x) \in Calls /\ StartArgs(mm, t, x).main = mm
             /\ [StartArgs(mm, t, x) EXCEPT !.detached = TRUE] \in Calls
             /\ [StartArgs(mm, t, x) EXCEPT !.detached = TRUE].main = mm
  BY DEF StartArgs, Calls
<1>4. ASSUME NEW c \in Calls
      PROVE  /\ c.main \in Mains /\ c.tun \in BOOLEAN /\ c.detached \in BOOLEAN
             /\ [c EXCEPT !.repair = FALSE] \in Calls
             /\ [c EXCEPT !.repair = FALSE].main = c.main
  BY DEF Calls
<1>. QED
  BY <1>1, <1>2, <1>3, <1>4

LEMMA SettingsTypes ==
  \A s \in Settings :
    /\ s.main \in Mains /\ s.tun \in BOOLEAN /\ s.proxy \in BOOLEAN
    /\ \A mm \in Mains : [s EXCEPT !.main = mm] \in Settings
    /\ \A b \in BOOLEAN : [s EXCEPT !.tun = b] \in Settings /\ [s EXCEPT !.proxy = b] \in Settings
BY DEF Settings

LEMMA PointTypes ==
  /\ StartReturns \subseteq Points /\ StopReturns \subseteq Points
  /\ {"idle", "prepare", "handoff", "release", "restore", "stopEngine"} \subseteq Points
  /\ StartPoints \subseteq Points
BY DEF Points, StopPoints

LEMMA ReturnTypes ==
  \A r \in Returns :
    /\ r.start \in StartReturns /\ r.stop \in StopReturns
    /\ \A x \in StartReturns : [r EXCEPT !.start = x] \in Returns
    /\ \A x \in StopReturns : [r EXCEPT !.stop = x] \in Returns
                            /\ [r EXCEPT !.stop = x].stop = x
BY DEF Returns

----------------------------------------------------------------------------
\* Type correctness.

FrameOK == /\ at \in Points /\ ret \in Returns /\ cmd \in Commands /\ call \in Calls
           /\ ok \in BOOLEAN /\ cleanup \in BOOLEAN
ProxyOK == /\ os \in Proxies /\ lease \in Leases \cup {None}
           /\ released \in Proxies \cup {None} /\ user \in Proxies \cup {None}
PlansOK == /\ applied \in Plans \cup {None} /\ file \in Plans \cup {None}
           /\ prepared \in Plans \cup {None} /\ options \in Plans \cup {None}
           /\ lastMain \in Mains
OwnerOK == managed \in BOOLEAN /\ adopted \in BOOLEAN
KernelOK == /\ engine \in Plans \cup {None} /\ child \in BOOLEAN /\ pid \in BOOLEAN
            /\ late \subseteq {"START", "STOP"}

LEMMA TypeParts ==
  /\ TypeOK <=> /\ snap \in Snaps /\ settings \in Settings /\ probe \in Probes
                /\ FrameOK /\ ProxyOK /\ PlansOK /\ OwnerOK /\ KernelOK
  /\ TypeOK' <=> /\ snap' \in Snaps /\ settings' \in Settings /\ probe' \in Probes
                 /\ FrameOK' /\ ProxyOK' /\ PlansOK' /\ OwnerOK' /\ KernelOK'
BY DEF TypeOK, FrameOK, ProxyOK, PlansOK, OwnerOK, KernelOK

\* A group of variables that a step leaves alone keeps its type.
LEMMA Unchanged ==
  /\ ProxyOK /\ UNCHANGED proxy => ProxyOK'
  /\ PlansOK /\ UNCHANGED plans => PlansOK'
  /\ OwnerOK /\ UNCHANGED owner => OwnerOK'
  /\ KernelOK /\ UNCHANGED kernel => KernelOK'
  /\ FrameOK /\ UNCHANGED frame => FrameOK'
BY DEF ProxyOK, PlansOK, OwnerOK, KernelOK, FrameOK, proxy, plans, owner, kernel, frame

LEMMA DoneType == Done => FrameOK' /\ at' = "idle"
<1>1. [start |-> "started", stop |-> "stopped"] \in Returns
  BY DEF Returns, StartReturns, StopReturns
<1>2. NoCmd \in Commands /\ NoCall \in Calls /\ "idle" \in Points
  BY CommandTypes, CallTypes, PointTypes
<1>. QED
  BY <1>1, <1>2 DEF Done, FrameOK

LEMMA CallStopType ==
  ASSUME FrameOK, NEW r \in StopReturns, CallStop(r)
  PROVE  /\ at' = "release" /\ at' \in Points /\ ret' \in Returns /\ ret'.stop = r
         /\ ok' \in BOOLEAN /\ cleanup' \in BOOLEAN
BY ReturnTypes, PointTypes DEF CallStop, FrameOK

LEMMA CallStartType ==
  ASSUME FrameOK, NEW c \in Calls, NEW r \in StartReturns, CallStart(c, r)
  PROVE  /\ at' = "check" /\ at' \in Points /\ ret' \in Returns /\ call' = c
         /\ call' \in Calls /\ ok' \in BOOLEAN /\ cleanup' \in BOOLEAN
BY ReturnTypes, PointTypes DEF CallStart, FrameOK, StartPoints

LEMMA StartReturnType ==
  ASSUME FrameOK, StartReturn
  PROVE  FrameOK' /\ at' \in StartReturns /\ prepared' = None /\ options' = None
BY ReturnTypes, PointTypes DEF StartReturn, FrameOK

LEMMA StopReturnType ==
  ASSUME FrameOK, NEW b \in BOOLEAN, StopReturn(b)
  PROVE  /\ at' = ret.stop /\ at' \in Points /\ ret' \in Returns /\ cmd' \in Commands
         /\ call' \in Calls /\ ok' \in BOOLEAN
BY ReturnTypes, PointTypes DEF StopReturn, FrameOK

LEMMA TakeType ==
  ASSUME ProxyOK, TakeSystemProxy \/ TakeRefused
  PROVE  ProxyOK'
<1>1. CASE TakeSystemProxy
  <2>1. os' \in Proxies /\ released' \in Proxies \cup {None} /\ user' \in Proxies \cup {None}
    BY <1>1 DEF TakeSystemProxy, ProxyOK, Proxies
  <2>2. (IF lease # None /\ os = "ours" THEN lease.original ELSE os) \in Proxies
    BY DEF ProxyOK, Leases
  <2>3. PICK seen \in SeenOurs :
          lease' = [original |-> IF lease # None /\ os = "ours" THEN lease.original ELSE os,
                    restore  |-> RestoreProxy /\ (lease # None \/ ~seen)]
    BY <1>1 DEF TakeSystemProxy
  <2>4. (RestoreProxy /\ (lease # None \/ ~seen)) \in BOOLEAN
    OBVIOUS
  <2>5. lease' \in Leases
    BY <2>2, <2>3, <2>4 DEF Leases
  <2>. QED
    BY <2>1, <2>5 DEF ProxyOK
<1>2. CASE TakeRefused
  BY <1>2 DEF TakeRefused, ProxyOK, Proxies, proxy
<1>. QED
  BY <1>1, <1>2

LEMMA ReleaseType ==
  ASSUME ProxyOK, ReleaseSystemProxy
  PROVE  ProxyOK'
<1>1. lease # None => lease.original \in Proxies
  BY DEF ProxyOK, Leases
<1>. QED
  BY <1>1 DEF ReleaseSystemProxy, ProxyOK, Proxies

LEMMA FailType ==
  ASSUME FrameOK, snap \in Snaps, Fail
  PROVE  /\ snap' \in Snaps /\ FrameOK' /\ at' \in StartReturns
         /\ prepared' = None /\ options' = None
BY StartReturnType, SnapTypes DEF Fail

LEMMA BeginTypes == ASSUME TypeOK, Begin PROVE TypeOK'
<1>. /\ snap \in Snaps /\ settings \in Settings /\ probe \in Probes
     /\ FrameOK /\ ProxyOK /\ PlansOK /\ OwnerOK /\ KernelOK
  BY TypeParts
<1>1. CASE StartReadyCore
  <2>1. Enter("ready", FALSE, None) /\ CallStart(StartArgs(settings.main, FALSE, "drop"), "started")
    BY <1>1 DEF StartReadyCore
  <2>2. settings.main \in Mains
    BY SettingsTypes
  <2>3. cmd' \in Commands
    BY <2>1, EnterType DEF Names
  <2>4. StartArgs(settings.main, FALSE, "drop") \in Calls
    BY <2>2, CallTypes
  <2>5. FrameOK'
    BY <2>1, <2>3, <2>4, CallStartType DEF FrameOK, StartReturns
  <2>6. PlansOK'
    BY <1>1, <2>2, PlanTypes DEF StartReadyCore, PlansOK
  <2>. QED
    BY <1>1, <2>5, <2>6, Unchanged, TypeParts DEF StartReadyCore
<1>2. CASE CliStart
  <2>1. /\ Enter("cli", FALSE, None)
        /\ CallStart([StartArgs(settings.main, FALSE, "keep") EXCEPT !.detached = TRUE], "started")
    BY <1>2 DEF CliStart
  <2>2. settings.main \in Mains
    BY SettingsTypes
  <2>3. cmd' \in Commands
    BY <2>1, EnterType DEF Names
  <2>4. [StartArgs(settings.main, FALSE, "keep") EXCEPT !.detached = TRUE] \in Calls
    BY <2>2, CallTypes
  <2>5. FrameOK'
    BY <2>1, <2>3, <2>4, CallStartType DEF FrameOK, StartReturns
  <2>. QED
    BY <1>2, <2>5, Unchanged, TypeParts DEF CliStart
<1>3. ASSUME NEW n \in Names, NEW b \in BOOLEAN, NEW p \in Plans, Propose(n, b, p)
      PROVE  TypeOK'
  <2>1. cmd' \in Commands
    BY <1>3, EnterType DEF Propose
  <2>2. FrameOK'
    BY <1>3, <2>1, PointTypes DEF Propose, FrameOK
  <2>. QED
    BY <1>3, <2>2, Unchanged, TypeParts DEF Propose
<1>4. CASE ConnectProxy
  <2>1. [main |-> settings.main, tun |-> settings.tun, listen |-> TRUE] \in Plans
    BY PlanTypes, SettingsTypes
  <2>. QED
    BY <1>3, <1>4, <2>1 DEF ConnectProxy, Names
<1>5. CASE RestartCore
  <2>1. [main |-> settings.main, tun |-> snap.tun, listen |-> snap.listen] \in Plans
    BY PlanTypes, SettingsTypes, SnapFields
  <2>. QED
    BY <1>3, <1>5, <2>1 DEF RestartCore, Names
<1>6. CASE ApplyMainProfile
  <2>1. PICK mm \in Mains :
          Propose("select", FALSE, [main |-> mm, tun |-> snap.tun,
                                    listen |-> Running => snap.listen])
    BY <1>6 DEF ApplyMainProfile
  <2>2. snap.tun \in BOOLEAN /\ (Running => snap.listen) \in BOOLEAN
    BY SnapFields
  <2>3. [main |-> mm, tun |-> snap.tun, listen |-> Running => snap.listen] \in Plans
    BY <2>2, PlanTypes
  <2>. QED
    BY <1>3, <2>1, <2>3 DEF Names
<1>7. CASE Stop
  <2>1. Enter("stop", FALSE, None) /\ CallStop("stopped") /\ UNCHANGED call
    BY <1>7 DEF Stop
  <2>2. cmd' \in Commands
    BY <2>1, EnterType DEF Names
  <2>3. FrameOK'
    BY <2>1, <2>2, CallStopType DEF FrameOK, StopReturns
  <2>. QED
    BY <1>7, <2>3, Unchanged, TypeParts DEF Stop
<1>8. CASE ApplyTun
  <2>1. PICK b \in BOOLEAN :
          /\ Enter("tun", b, None) /\ settings' = [settings EXCEPT !.tun = b]
          /\ IF Running /\ snap.listen
             THEN CallStop("tunStopped") /\ UNCHANGED call
             ELSE at' = "stopped" /\ UNCHANGED <<ret, call, ok, cleanup>>
          /\ UNCHANGED <<snap, plans, owner, kernel, proxy, probe>>
    BY <1>8 DEF ApplyTun
  <2>2. cmd' \in Commands
    BY <2>1, EnterType DEF Names
  <2>3. FrameOK'
    BY <2>1, <2>2, CallStopType, PointTypes DEF FrameOK, StopReturns
  <2>4. settings' \in Settings
    BY <2>1, SettingsTypes
  <2>. QED
    BY <2>1, <2>3, <2>4, Unchanged, TypeParts
<1>9. CASE DisableSystemProxy
  <2>1. ProxyOK' 
    BY <1>9, ReleaseType, Unchanged DEF DisableSystemProxy, proxy
  <2>2. settings' \in Settings /\ snap' \in Snaps
    BY <1>9, SettingsTypes, SnapTypes DEF DisableSystemProxy
  <2>. QED
    BY <1>9, <2>1, <2>2, Unchanged, TypeParts DEF DisableSystemProxy
<1>10. CASE EnableSystemProxy
  <2>1. ProxyOK' 
    BY <1>10, TakeType, Unchanged DEF EnableSystemProxy, proxy
  <2>2. settings' \in Settings /\ snap' \in Snaps
    BY <1>10, SettingsTypes, SnapTypes DEF EnableSystemProxy
  <2>. QED
    BY <1>10, <2>1, <2>2, Unchanged, TypeParts DEF EnableSystemProxy
<1>. QED
  BY <1>1, <1>2, <1>4, <1>5, <1>6, <1>7, <1>8, <1>9, <1>10 DEF Begin

LEMMA DeselectType == ASSUME TypeOK, Deselect PROVE settings' \in Settings
<1>1. settings \in Settings /\ cmd.old \in Mains
  BY TypeParts, CommandTypes DEF FrameOK
<1>. QED
  BY <1>1, SettingsTypes DEF Deselect

LEMMA RevertTunType ==
  ASSUME TypeOK, RevertTun PROVE settings' \in Settings /\ snap' \in Snaps
<1>1. settings \in Settings /\ snap \in Snaps /\ cmd.on \in BOOLEAN
  BY TypeParts, CommandTypes DEF FrameOK
<1>2. (~cmd.on) \in BOOLEAN
  OBVIOUS
<1>. QED
  BY <1>1, <1>2, SettingsTypes, SnapTypes DEF RevertTun

LEMMA ReconfigureTypes ==
  ASSUME TypeOK, CandidateInv, Reconfigure PROVE TypeOK'
<1>. /\ snap \in Snaps /\ settings \in Settings /\ probe \in Probes
     /\ FrameOK /\ ProxyOK /\ PlansOK /\ OwnerOK /\ KernelOK
  BY TypeParts
<1>a. /\ cmd \in Commands /\ cmd.on \in BOOLEAN /\ cmd.proxy \in BOOLEAN
      /\ cmd.before.since \in Nat /\ cmd.before.tun \in BOOLEAN
      /\ cmd.cand \in Plans \cup {None} /\ cmd.prev \in Plans \cup {None}
  BY CommandTypes DEF FrameOK
<1>b. /\ settings.main \in Mains /\ settings.tun \in BOOLEAN /\ settings.proxy \in BOOLEAN
      /\ lastMain \in Mains
  BY SettingsTypes DEF PlansOK
<1>c. \A mm \in Mains, t \in BOOLEAN, b \in BOOLEAN :
        StartArgs(mm, t, TakeIf(b)) \in Calls /\ StartArgs(mm, t, TakeOrDrop(b)) \in Calls
  BY CallTypes
<1>1. CASE CandidateRefused
  <2>1. snap' \in Snaps /\ FrameOK'
    BY <1>1, SnapTypes, DoneType DEF CandidateRefused
  <2>. QED
    BY <1>1, <2>1, Unchanged, TypeParts DEF CandidateRefused
<1>2. CASE CandidateAccepted
  <2>1. cmd.cand \in Plans /\ cmd.cand.main \in Mains
    BY <1>2, <1>a, PlanTypes DEF CandidateAccepted, CandidateInv
  <2>2. settings' \in Settings
    BY <1>2, <2>1, SettingsTypes DEF CandidateAccepted
  <2>3. CASE cmd.name = "connect" /\ cmd.before.state # "Running"
    <3>1. /\ prepared' = cmd.cand /\ cmd' = cmd
          /\ CallStart(StartArgs(cmd.cand.main, settings.tun, TakeOrDrop(settings.proxy)),
                       "connected")
      BY <1>2, <2>3 DEF CandidateAccepted
    <3>2. FrameOK'
      BY <3>1, <2>1, <1>a, <1>b, <1>c, CallStartType DEF FrameOK, StartReturns
    <3>3. PlansOK'
      BY <1>2, <3>1, <2>1 DEF CandidateAccepted, PlansOK
    <3>. QED
      BY <1>2, <2>2, <3>2, <3>3, Unchanged, TypeParts DEF CandidateAccepted
  <2>4. CASE ~(cmd.name = "connect" /\ cmd.before.state # "Running")
    <3>1. /\ prepared' = prepared /\ cmd' \in Commands
          /\ Handoff \/ Done
      BY <1>2, <2>4, <1>a, <1>b, CommandTypes, DoneType DEF CandidateAccepted, Handoff, FrameOK
    <3>2. FrameOK'
      BY <3>1, DoneType, PointTypes DEF Handoff, FrameOK
    <3>3. PlansOK'
      BY <1>2, <3>1 DEF CandidateAccepted, PlansOK
    <3>. QED
      BY <1>2, <2>2, <3>2, <3>3, Unchanged, TypeParts DEF CandidateAccepted
  <2>. QED
    BY <2>3, <2>4
<1>3. CASE SkipHandoff
  <2>1. settings' \in Settings /\ FrameOK'
    BY <1>3, DeselectType, DoneType DEF SkipHandoff
  <2>. QED
    BY <1>3, <2>1, Unchanged, TypeParts DEF SkipHandoff
<1>4. CASE BeginHandoff
  <2>1. /\ cmd' = [cmd EXCEPT !.prev = applied] /\ CallStop("handoffStopped") /\ call' = call
    BY <1>4 DEF BeginHandoff
  <2>2. cmd' \in Commands
    BY <2>1, <1>a, CommandTypes DEF PlansOK
  <2>3. FrameOK'
    BY <2>1, <2>2, CallStopType DEF FrameOK, StopReturns
  <2>. QED
    BY <1>4, <2>3, Unchanged, TypeParts DEF BeginHandoff
<1>5. CASE HandoffStopped
  <2>1. cmd.cand \in Plans /\ cmd.cand.main \in Mains
    BY <1>5, <1>a, PlanTypes DEF HandoffStopped, CandidateInv
  <2>2. CASE ok
    <3>1. FrameOK'
      BY <1>5, <2>1, <2>2, <1>a, <1>c, CallStartType
      DEF HandoffStopped, FrameOK, StartReturns
    <3>2. PlansOK' /\ settings' = settings
      BY <1>5, <2>1, <2>2 DEF HandoffStopped, PlansOK
    <3>. QED
      BY <1>5, <3>1, <3>2, Unchanged, TypeParts DEF HandoffStopped
  <2>3. CASE ~ok
    <3>1. FrameOK' /\ settings' \in Settings
      BY <1>5, <2>3, DoneType, DeselectType DEF HandoffStopped
    <3>2. PlansOK'
      BY <1>5, <2>3 DEF HandoffStopped, PlansOK
    <3>. QED
      BY <1>5, <3>1, <3>2, Unchanged, TypeParts DEF HandoffStopped
  <2>. QED
    BY <2>2, <2>3
<1>6. CASE HandoffStarted
  <2>1. snap' \in Snaps
    BY <1>6, <1>a, SnapTypes DEF HandoffStarted
  <2>2. FrameOK'
    BY <1>6, DoneType, CallStopType, PointTypes
    DEF HandoffStarted, FrameOK, StopReturns, StartReturns
  <2>. QED
    BY <1>6, <2>1, <2>2, Unchanged, TypeParts DEF HandoffStarted
<1>7. CASE RollbackStopped
  <2>1. cmd.prev \in Plans /\ cmd.prev.main \in Mains /\ cmd.prev.tun \in BOOLEAN
    BY <1>7, <1>a, PlanTypes DEF RollbackStopped, CandidateInv
  <2>2. FrameOK'
    BY <1>7, <2>1, <1>a, <1>c, CallStartType, PointTypes
    DEF RollbackStopped, FrameOK, StartReturns
  <2>3. PlansOK'
    BY <1>7, <2>1 DEF RollbackStopped, PlansOK
  <2>. QED
    BY <1>7, <2>2, <2>3, Unchanged, TypeParts DEF RollbackStopped
<1>8. CASE RestoreDone
  <2>1. snap' \in Snaps /\ settings' \in Settings /\ FrameOK'
    BY <1>8, <1>a, SnapTypes, DeselectType, DoneType DEF RestoreDone
  <2>. QED
    BY <1>8, <2>1, Unchanged, TypeParts DEF RestoreDone
<1>9. CASE TunStopped
  <2>1. FrameOK' /\ snap' \in Snaps /\ settings' \in Settings
    BY <1>9, <1>a, <1>b, <1>c, CallStartType, DoneType, RevertTunType
    DEF TunStopped, FrameOK, StartReturns
  <2>. QED
    BY <1>9, <2>1, Unchanged, TypeParts DEF TunStopped
<1>10. CASE TunStarted
  <2>1. snap' \in Snaps /\ settings' \in Settings
    BY <1>10, <1>a, SnapTypes, RevertTunType DEF TunStarted
  <2>2. FrameOK'
    BY <1>10, DoneType, CallStopType DEF TunStarted, FrameOK, StopReturns
  <2>. QED
    BY <1>10, <2>1, <2>2, Unchanged, TypeParts DEF TunStarted
<1>11. CASE TunBackStopped
  <2>1. (~cmd.on) \in BOOLEAN
    OBVIOUS
  <2>2. FrameOK'
    BY <1>11, <2>1, <1>a, <1>b, <1>c, CallStartType
    DEF TunBackStopped, FrameOK, StartReturns
  <2>. QED
    BY <1>11, <2>2, Unchanged, TypeParts DEF TunBackStopped
<1>12. CASE TunRestored
  <2>1. snap' \in Snaps /\ FrameOK'
    BY <1>12, <1>a, SnapTypes, DoneType DEF TunRestored
  <2>. QED
    BY <1>12, <2>1, Unchanged, TypeParts DEF TunRestored
<1>13. CASE Return
  BY <1>13, DoneType, Unchanged, TypeParts DEF Return
<1>. QED
  BY <1>1, <1>2, <1>3, <1>4, <1>5, <1>6, <1>7, <1>8, <1>9, <1>10, <1>11, <1>12, <1>13
  DEF Reconfigure

LEMMA StartingTypes ==
  ASSUME TypeOK, CommittedInv, PreparedInv, Starting PROVE TypeOK'
<1>. /\ snap \in Snaps /\ settings \in Settings /\ probe \in Probes
     /\ FrameOK /\ ProxyOK /\ PlansOK /\ OwnerOK /\ KernelOK
  BY TypeParts
<1>a. call \in Calls /\ call.main \in Mains /\ call.tun \in BOOLEAN /\ call.detached \in BOOLEAN
  BY CallTypes DEF FrameOK
<1>b. ASSUME Fail, UNCHANGED <<applied, file, lastMain>>
      PROVE  snap' \in Snaps /\ FrameOK' /\ PlansOK'
  BY <1>b, FailType DEF PlansOK
<1>c. ASSUME Launched, UNCHANGED <<applied, file, lastMain>>
      PROVE  snap' = snap /\ FrameOK' /\ PlansOK'
  BY <1>c, PointTypes DEF Launched, FrameOK, PlansOK, StartPoints
<1>1. CASE StartRefused
  BY <1>1, <1>b, Unchanged, TypeParts DEF StartRefused
<1>2. CASE StartBegins
  <2>1. snap' \in Snaps
    BY <1>2, SnapTypes DEF StartBegins
  <2>2. FrameOK' /\ PlansOK'
    BY <1>2, <1>a, StartReturnType, PointTypes DEF StartBegins, FrameOK, PlansOK, StartPoints
  <2>. QED
    BY <1>2, <2>1, <2>2, Unchanged, TypeParts DEF StartBegins
<1>3. CASE PlanFails
  BY <1>3, <1>b, Unchanged, TypeParts DEF PlanFails
<1>4. CASE CommitPlan
  <2>1. PlanToRun \in Plans
    BY <1>a, PlanTypes DEF PlanToRun, PlansOK
  <2>2. PlansOK'
    BY <1>4, <2>1 DEF CommitPlan, PlansOK
  <2>3. FrameOK'
    BY <1>4, PointTypes DEF CommitPlan, FrameOK, StartPoints
  <2>. QED
    BY <1>4, <2>2, <2>3, Unchanged, TypeParts DEF CommitPlan
<1>5. CASE ServiceStartOk
  <2>1. OwnerOK' /\ KernelOK'
    BY <1>5, NoneIsNone DEF ServiceStartOk, ServeStart, OwnerOK, KernelOK, PlansOK, Launched
  <2>. QED
    BY <1>5, <1>c, <2>1, Unchanged, TypeParts DEF ServiceStartOk
<1>6. CASE ServiceStartFails
  <2>1. KernelOK'
    BY <1>6 DEF ServiceStartFails, ServeStart, KernelOK
  <2>. QED
    BY <1>6, <1>b, <2>1, Unchanged, TypeParts DEF ServiceStartFails
<1>7. CASE Adopt
  <2>1. OwnerOK'
    BY <1>7 DEF Adopt, OwnerOK
  <2>. QED
    BY <1>7, <1>c, <2>1, Unchanged, TypeParts DEF Adopt
<1>8. CASE Spawn
  <2>1. (~call.detached) \in BOOLEAN /\ (adopted \/ call.detached) \in BOOLEAN
    OBVIOUS
  <2>2. OwnerOK' /\ KernelOK'
    BY <1>8, <2>1 DEF Spawn, OwnerOK, KernelOK, PlansOK
  <2>. QED
    BY <1>8, <1>c, <2>2, Unchanged, TypeParts DEF Spawn
<1>9. CASE SpawnFails
  <2>1. KernelOK'
    BY <1>9 DEF SpawnFails, KernelOK
  <2>. QED
    BY <1>9, <1>b, <2>1, Unchanged, TypeParts DEF SpawnFails
<1>10. CASE AwaitExited
  BY <1>10, <1>b, Unchanged, TypeParts DEF AwaitExited
<1>11. CASE AwaitRepairs
  <2>1. snap' \in Snaps
    BY <1>11, SnapTypes DEF AwaitRepairs
  <2>2. FrameOK'
    BY <1>11, <1>a, CallTypes, PointTypes DEF AwaitRepairs, FrameOK, StartPoints
  <2>. QED
    BY <1>11, <2>1, <2>2, Unchanged, TypeParts DEF AwaitRepairs
<1>12. CASE AwaitTimesOut
  <2>1. FrameOK'
    BY <1>12, CallStopType DEF AwaitTimesOut, FrameOK, StopReturns
  <2>. QED
    BY <1>12, <2>1, Unchanged, TypeParts DEF AwaitTimesOut
<1>13. CASE AwaitReady
  <2>1. file \in Plans
    BY <1>13 DEF AwaitReady, CommittedInv, PlansOK
  <2>2. snap' \in Snaps
    BY <1>13, <2>1, SnapTypes DEF AwaitReady
  <2>3. FrameOK' /\ PlansOK'
    BY <1>13, PointTypes DEF AwaitReady, FrameOK, PlansOK, StartPoints
  <2>. QED
    BY <1>13, <2>2, <2>3, Unchanged, TypeParts DEF AwaitReady
<1>14. CASE ModeReconciled
  <2>1. FrameOK'
    BY <1>14, PointTypes DEF ModeReconciled, FrameOK, StartPoints
  <2>. QED
    BY <1>14, <2>1, Unchanged, TypeParts DEF ModeReconciled
<1>15. CASE ModeRefused
  <2>1. FrameOK'
    BY <1>15, CallStopType DEF ModeRefused, FrameOK, StopReturns
  <2>. QED
    BY <1>15, <2>1, Unchanged, TypeParts DEF ModeRefused
<1>16. CASE StartTimedOut
  BY <1>16, <1>b, Unchanged, TypeParts DEF StartTimedOut
<1>17. CASE StartProxy
  <2>1. snap' \in Snaps
    BY <1>17, SnapTypes DEF StartProxy
  <2>2. ProxyOK'
    BY <1>17, ReleaseType, Unchanged DEF StartProxy, proxy
  <2>3. \/ at' = "take" /\ UNCHANGED <<prepared, options, ret, cmd, call, ok, cleanup>>
        \/ StartReturn
    BY <1>17 DEF StartProxy
  <2>4. FrameOK' /\ PlansOK'
    BY <1>17, <2>3, StartReturnType, PointTypes DEF StartProxy, FrameOK, PlansOK, StartPoints
  <2>. QED
    BY <1>17, <2>1, <2>2, <2>4, Unchanged, TypeParts DEF StartProxy
<1>18. CASE StartTakesProxy
  <2>1. snap' \in Snaps /\ ProxyOK'
    BY <1>18, SnapTypes, TakeType DEF StartTakesProxy
  <2>2. FrameOK' /\ PlansOK'
    BY <1>18, StartReturnType DEF StartTakesProxy, PlansOK
  <2>. QED
    BY <1>18, <2>1, <2>2, Unchanged, TypeParts DEF StartTakesProxy
<1>19. CASE StartThrows
  <2>1. snap' \in Snaps
    BY <1>19, SnapTypes DEF StartThrows
  <2>2. FrameOK' /\ PlansOK'
    BY <1>19, StartReturnType DEF StartThrows, PlansOK
  <2>. QED
    BY <1>19, <2>1, <2>2, Unchanged, TypeParts DEF StartThrows
<1>. QED
  BY <1>1, <1>2, <1>3, <1>4, <1>5, <1>6, <1>7, <1>8, <1>9, <1>10, <1>11, <1>12, <1>13,
     <1>14, <1>15, <1>16, <1>17, <1>18, <1>19
  DEF Starting

LEMMA StoppingTypes == ASSUME TypeOK, Stopping PROVE TypeOK'
<1>. /\ snap \in Snaps /\ settings \in Settings /\ probe \in Probes
     /\ FrameOK /\ ProxyOK /\ PlansOK /\ OwnerOK /\ KernelOK
  BY TypeParts
<1>a. ASSUME PublishStopped, UNCHANGED <<plans, settings, proxy, probe>>
      PROVE  snap' \in Snaps /\ FrameOK' /\ pid' \in BOOLEAN
  <2>1. PICK e \in BOOLEAN : /\ snap' = Stopped(snap, e) /\ StopReturn(~e)
                             /\ cleanup' = e /\ pid' = FALSE
    BY <1>a DEF PublishStopped, FrameOK
  <2>2. (~e) \in BOOLEAN
    OBVIOUS
  <2>. QED
    BY <2>1, <2>2, StopReturnType, SnapTypes DEF FrameOK
<1>b. ASSUME StopFails
      PROVE  snap' \in Snaps /\ FrameOK' /\ pid' = pid
  BY <1>b, StopReturnType, SnapTypes DEF StopFails, FrameOK
<1>1. CASE StopChecksProxy
  <2>1. cmd' \in Commands
    <3>1. PICK seen \in SeenOurs :
            cmd' = [cmd EXCEPT !.blind = cmd.name = "stop" /\ seen # (os = "ours")]
      BY <1>1 DEF StopChecksProxy
    <3>2. (cmd.name = "stop" /\ seen # (os = "ours")) \in BOOLEAN
      OBVIOUS
    <3>. QED
      BY <3>1, <3>2, CommandTypes DEF FrameOK
  <2>2. FrameOK'
    BY <1>1, <2>1, PointTypes DEF StopChecksProxy, FrameOK
  <2>. QED
    BY <1>1, <2>2, Unchanged, TypeParts DEF StopChecksProxy
<1>2. CASE StopReleasesProxy
  <2>1. ProxyOK'
    BY <1>2, ReleaseType, Unchanged DEF StopReleasesProxy, proxy
  <2>2. cleanup' \in BOOLEAN
    BY <1>2 DEF StopReleasesProxy, SeenOurs
  <2>3. cmd' \in Commands
    <3>1. (cmd.name = "stop" /\ cleanup' # (os' = "ours")) \in BOOLEAN
      OBVIOUS
    <3>. QED
      BY <1>2, <3>1, CommandTypes DEF StopReleasesProxy, FrameOK
  <2>4. FrameOK'
    BY <1>2, <2>2, <2>3, PointTypes DEF StopReleasesProxy, FrameOK
  <2>. QED
    BY <1>2, <2>1, <2>4, Unchanged, TypeParts DEF StopReleasesProxy
<1>3. CASE StopService
  <2>1. /\ PublishStopped \/ StopFails
        /\ managed' \in BOOLEAN /\ engine' \in {engine, None}
        /\ late' \in {late, late \cup {"STOP"}} /\ child' = child
        /\ adopted' = (IF managed' THEN adopted ELSE FALSE)
        /\ UNCHANGED <<plans, settings, proxy, probe>>
    BY <1>3 DEF StopService
  <2>2. snap' \in Snaps /\ FrameOK' /\ pid' \in BOOLEAN
    BY <2>1, <1>a, <1>b DEF KernelOK
  <2>3. OwnerOK' /\ KernelOK'
    BY <2>1, <2>2 DEF OwnerOK, KernelOK
  <2>. QED
    BY <2>1, <2>2, <2>3, Unchanged, TypeParts
<1>4. CASE StopUnreachable
  <2>1. snap' \in Snaps /\ FrameOK' /\ pid' \in BOOLEAN
    BY <1>4, <1>a DEF StopUnreachable
  <2>2. OwnerOK' /\ KernelOK'
    BY <1>4, <2>1 DEF StopUnreachable, OwnerOK, KernelOK
  <2>. QED
    BY <1>4, <2>1, <2>2, Unchanged, TypeParts DEF StopUnreachable
<1>5. CASE StopProcess
  <2>1. snap' \in Snaps /\ FrameOK' /\ pid' \in BOOLEAN
    BY <1>5, <1>a, <1>b DEF StopProcess, KernelOK
  <2>2. (adopted /\ child /\ engine # None) \in BOOLEAN
    OBVIOUS
  <2>3. OwnerOK' /\ KernelOK'
    BY <1>5, <2>1, <2>2 DEF StopProcess, OwnerOK, KernelOK
  <2>. QED
    BY <1>5, <2>1, <2>3, Unchanged, TypeParts DEF StopProcess
<1>. QED
  BY <1>1, <1>2, <1>3, <1>4, <1>5 DEF Stopping

LEMMA OtherTypes == ASSUME TypeOK, CheckAlive \/ Environment PROVE TypeOK'
<1>. /\ snap \in Snaps /\ settings \in Settings /\ probe \in Probes
     /\ FrameOK /\ ProxyOK /\ PlansOK /\ OwnerOK /\ KernelOK
  BY TypeParts
<1>1. CASE ProbeBegins
  <2>1. probe' \in Probes
    BY <1>1, SnapFields DEF ProbeBegins, Probes, OwnerOK
  <2>. QED
    BY <1>1, <2>1, Unchanged, TypeParts DEF ProbeBegins
<1>a. NoProbe \in Probes
  BY DEF NoProbe, Probes
<1>2. CASE ProbeDropped
  BY <1>2, <1>a, Unchanged, TypeParts DEF ProbeDropped
<1>3. CASE ProbeFindsNoCore
  <2>1. probe' \in Probes
    BY <1>3 DEF ProbeFindsNoCore, Probes
  <2>. QED
    BY <1>3, <2>1, Unchanged, TypeParts DEF ProbeFindsNoCore
<1>4. CASE ProbePublishes
  <2>1. snap' \in Snaps
    BY <1>4, SnapTypes DEF ProbePublishes
  <2>. QED
    BY <1>4, <2>1, <1>a, Unchanged, TypeParts DEF ProbePublishes
<1>5. CASE EngineDies
  <2>1. KernelOK'
    BY <1>5 DEF EngineDies, KernelOK
  <2>. QED
    BY <1>5, <2>1, Unchanged, TypeParts DEF EngineDies
<1>6. CASE DaemonServesLate
  <2>1. KernelOK'
    BY <1>6 DEF DaemonServesLate, KernelOK, PlansOK
  <2>. QED
    BY <1>6, <2>1, Unchanged, TypeParts DEF DaemonServesLate
<1>7. CASE OthersSetProxy
  <2>1. ProxyOK'
    BY <1>7 DEF OthersSetProxy, ProxyOK, Proxies
  <2>2. FrameOK'
    BY <1>7, CommandTypes DEF OthersSetProxy, FrameOK
  <2>. QED
    BY <1>7, <2>1, <2>2, Unchanged, TypeParts DEF OthersSetProxy
<1>. QED
  BY <1>1, <1>2, <1>3, <1>4, <1>5, <1>6, <1>7 DEF CheckAlive, Environment

----------------------------------------------------------------------------
\* What the helpers do to the variables the control invariants speak of.

LEMMA SnapValues ==
  ASSUME NEW s \in Snaps
  PROVE  /\ Failed(s).state = "Failed" /\ Failed(s).tun = s.tun /\ Failed(s).listen = s.listen
         /\ Erred(s).state = s.state /\ Erred(s).tun = s.tun /\ Erred(s).listen = s.listen
         /\ \A b : Stopped(s, b).state = "Stopped"
         /\ \A p : /\ Ready(s, p).state = "Running" /\ Ready(s, p).tun = p.tun
                   /\ Ready(s, p).listen = p.listen
         /\ \A n : /\ [s EXCEPT !.since = n].state = s.state
                   /\ [s EXCEPT !.since = n].tun = s.tun
                   /\ [s EXCEPT !.since = n].listen = s.listen
         /\ \A b : [s EXCEPT !.tun = b].state = s.state
         /\ [s EXCEPT !.state = "Starting", !.err = FALSE].state = "Starting"
         /\ [s EXCEPT !.state = "Stopped", !.err = FALSE].state = "Stopped"
<1>1. /\ Failed(s).state = "Failed" /\ Failed(s).tun = s.tun /\ Failed(s).listen = s.listen
      /\ Erred(s).state = s.state /\ Erred(s).tun = s.tun /\ Erred(s).listen = s.listen
  BY DEF Snaps, Failed, Erred
<1>2. \A b : Stopped(s, b).state = "Stopped"
  BY DEF Snaps, Stopped
<1>3. \A p : /\ Ready(s, p).state = "Running" /\ Ready(s, p).tun = p.tun
             /\ Ready(s, p).listen = p.listen
  BY DEF Snaps, Ready
<1>4. /\ \A n : /\ [s EXCEPT !.since = n].state = s.state
                /\ [s EXCEPT !.since = n].tun = s.tun
                /\ [s EXCEPT !.since = n].listen = s.listen
      /\ \A b : [s EXCEPT !.tun = b].state = s.state
  BY DEF Snaps
<1>5. /\ [s EXCEPT !.state = "Starting", !.err = FALSE].state = "Starting"
      /\ [s EXCEPT !.state = "Stopped", !.err = FALSE].state = "Stopped"
  BY DEF Snaps
<1>. QED
  BY <1>1, <1>2, <1>3, <1>4, <1>5

LEMMA CommandValues ==
  ASSUME NEW c \in Commands
  PROVE  /\ \A p : [c EXCEPT !.prev = p].cand = c.cand /\ [c EXCEPT !.prev = p].prev = p
         /\ \A b : [c EXCEPT !.proxy = b].cand = c.cand /\ [c EXCEPT !.proxy = b].prev = c.prev
         /\ [c EXCEPT !.alone = FALSE].cand = c.cand /\ [c EXCEPT !.alone = FALSE].prev = c.prev
BY DEF Commands

\* A stop only notes in its command whether it could read the proxy.
LEMMA BlindValues ==
  ASSUME cmd \in Commands, cmd' = cmd \/ \E b : cmd' = [cmd EXCEPT !.blind = b]
  PROVE  /\ cmd'.name = cmd.name /\ cmd'.old = cmd.old /\ cmd'.before = cmd.before
         /\ cmd'.cand = cmd.cand /\ cmd'.prev = cmd.prev
<1>1. CASE cmd' = cmd
  BY <1>1
<1>2. ASSUME NEW b, cmd' = [cmd EXCEPT !.blind = b]
      PROVE  /\ cmd'.name = cmd.name /\ cmd'.old = cmd.old /\ cmd'.before = cmd.before
             /\ cmd'.cand = cmd.cand /\ cmd'.prev = cmd.prev
  BY <1>2 DEF Commands
<1>. QED
  BY <1>1, <1>2

LEMMA CallStartValues ==
  ASSUME ret \in Returns, NEW c, NEW r, CallStart(c, r)
  PROVE  at' = "check" /\ ret'.stop = ret.stop /\ call' = c
BY DEF CallStart, Returns

LEMMA StartArgsMain == \A mm, t, x : StartArgs(mm, t, x).main = mm
BY DEF StartArgs

\* startCore returns with a state other than Starting.
LEMMA ReturnsControl ==
  ASSUME IInv, StartReturn, snap'.state # "Starting", LiveInv',
         ~Service => ~managed' /\ late' = {}
  PROVE  ControlInv'
<1>1. at' \in StartReturns /\ prepared' = None /\ options' = None
  BY StartReturnType, TypeParts DEF IInv
<1>. QED
  BY <1>1 DEF ControlInv, StartingInv, PreparedInv, CommittedInv, CandidateInv, StoppedInv,
              AwaitInv, Launching, StopPoints, StartReturns

LEMMA FailControl ==
  ASSUME IInv, Fail, ~Service => ~managed' /\ late' = {}
  PROVE  ControlInv'
<1>1. snap'.state = "Failed" /\ StartReturn
  BY SnapValues DEF Fail, IInv, TypeOK
<1>2. LiveInv'
  BY <1>1 DEF LiveInv, Running
<1>. QED
  BY <1>1, <1>2, ReturnsControl

\* An operation ends while startCore is not under way.
LEMMA DoneControl ==
  ASSUME IInv, Done, at \notin Launching \cup StopPoints \cup {"check"},
         snap'.state = snap.state, LiveInv', prepared' = prepared, options' = options,
         UNCHANGED <<owner, kernel>>
  PROVE  ControlInv'
BY DEF Done, IInv, ControlInv, StartingInv, PreparedInv, CommittedInv, CandidateInv,
       StoppedInv, AwaitInv, Launching, StopPoints, owner, kernel

\* stopCore is called while nothing is Starting.
LEMMA CallStopControl ==
  ASSUME IInv, NEW r \in StopReturns, CallStop(r),
         snap.state # "Starting", prepared = None, options = None,
         r = "handoffStopped" => cmd'.cand # None,
         r = "rollbackStopped" => cmd'.prev # None,
         UNCHANGED plans, UNCHANGED <<owner, kernel>>,
         snap'.state = snap.state, LiveInv'
  PROVE  ControlInv'
<1>1. at' = "release" /\ ret'.stop = r
  BY CallStopType, TypeParts DEF IInv
<1>. QED
  BY <1>1 DEF IInv, ControlInv, StartingInv, PreparedInv, CommittedInv, CandidateInv,
              StoppedInv, AwaitInv, Launching, StopPoints, plans, owner, kernel

\* startCore is called with the content of whatever plan waits for it.
LEMMA CallStartControl ==
  ASSUME IInv, NEW c, NEW r, CallStart(c, r), snap.state # "Starting", snap' = snap,
         prepared' = None \/ options' = None,
         prepared' # None => prepared'.main = c.main,
         options' # None => options'.main = c.main,
         UNCHANGED <<applied, file, lastMain, owner, kernel>>
  PROVE  ControlInv'
<1>1. at' = "check" /\ call' = c
  BY CallStartValues DEF IInv, TypeOK
<1>2. LiveInv'
  BY DEF IInv, ControlInv, LiveInv, Running, kernel
<1>. QED
  BY <1>1, <1>2 DEF IInv, ControlInv, StartingInv, PreparedInv, CommittedInv, CandidateInv,
              StoppedInv, AwaitInv, Launching, StopPoints, owner, kernel

LEMMA BeginControl == ASSUME IInv, Begin PROVE ControlInv'
<1>. snap \in Snaps /\ ret \in Returns
  BY DEF IInv, TypeOK
<1>a. at = "idle" => /\ snap.state # "Starting" /\ prepared = None /\ options = None
  BY DEF IInv, ControlInv, StartingInv, PreparedInv, Launching, StopPoints
<1>b. ASSUME UNCHANGED <<snap, plans, kernel>> PROVE LiveInv'
  BY <1>b DEF IInv, ControlInv, LiveInv, Running, plans, kernel
<1>c. \A n, b, p : Enter(n, b, p) => at = "idle"
  BY DEF Enter
<1>1. CASE StartReadyCore
  <2>. DEFINE c == StartArgs(settings.main, FALSE, "drop")
  <2>1. CallStart(c, "started") /\ at = "idle"
    BY <1>1, <1>c DEF StartReadyCore
  <2>2. options' # None => options'.main = c.main
    BY <1>1, StartArgsMain DEF StartReadyCore
  <2>3. snap' = snap /\ prepared' = None /\ UNCHANGED <<applied, file, lastMain, owner, kernel>>
    BY <1>1, <1>a, <2>1 DEF StartReadyCore
  <2>. QED
    BY <1>a, <2>1, <2>2, <2>3, CallStartControl
<1>2. CASE CliStart
  <2>. DEFINE c == [StartArgs(settings.main, FALSE, "keep") EXCEPT !.detached = TRUE]
  <2>1. CallStart(c, "started") /\ at = "idle" /\ UNCHANGED <<snap, plans, owner, kernel>>
    BY <1>2, <1>c DEF CliStart
  <2>2. snap' = snap /\ prepared' = None /\ options' = None
    BY <1>a, <2>1 DEF plans
  <2>3. UNCHANGED <<applied, file, lastMain, owner, kernel>>
    BY <2>1 DEF plans
  <2>. QED
    BY <1>a, <2>1, <2>2, <2>3, CallStartControl
<1>3. ASSUME NEW n \in Names, NEW b \in BOOLEAN, NEW p \in Plans, Propose(n, b, p)
      PROVE  ControlInv'
  <2>1. at = "idle" /\ at' = "prepare" /\ cmd'.cand # None
    BY <1>3, EnterType, NoneIsNone DEF Propose, IInv
  <2>2. UNCHANGED <<ret, snap, plans, owner, kernel>>
    BY <1>3 DEF Propose
  <2>. QED
    BY <1>a, <1>b, <2>1, <2>2 DEF IInv, ControlInv, StartingInv, PreparedInv, CommittedInv,
       CandidateInv, StoppedInv, AwaitInv, Launching, StopPoints, plans, owner, kernel
<1>4. CASE ConnectProxy
  <2>1. [main |-> settings.main, tun |-> settings.tun, listen |-> TRUE] \in Plans
    BY PlanTypes, SettingsTypes DEF IInv, TypeOK
  <2>. QED
    BY <1>3, <1>4, <2>1 DEF ConnectProxy, Names
<1>5. CASE RestartCore
  <2>1. [main |-> settings.main, tun |-> snap.tun, listen |-> snap.listen] \in Plans
    BY PlanTypes, SettingsTypes, SnapFields DEF IInv, TypeOK
  <2>. QED
    BY <1>3, <1>5, <2>1 DEF RestartCore, Names
<1>6. CASE ApplyMainProfile
  <2>1. PICK mm \in Mains :
          Propose("select", FALSE, [main |-> mm, tun |-> snap.tun,
                                    listen |-> Running => snap.listen])
    BY <1>6 DEF ApplyMainProfile
  <2>2. snap.tun \in BOOLEAN /\ (Running => snap.listen) \in BOOLEAN
    BY SnapFields
  <2>3. [main |-> mm, tun |-> snap.tun, listen |-> Running => snap.listen] \in Plans
    BY <2>2, PlanTypes
  <2>. QED
    BY <1>3, <2>1, <2>3 DEF Names
<1>7. CASE Stop
  <2>1. CallStop("stopped") /\ at = "idle" /\ UNCHANGED <<snap, plans, owner, kernel>>
    BY <1>7, <1>c DEF Stop
  <2>. QED
    BY <1>a, <1>b, <2>1, CallStopControl DEF StopReturns
<1>8. CASE ApplyTun
  <2>1. /\ \/ CallStop("tunStopped") /\ UNCHANGED call
           \/ at' = "stopped" /\ UNCHANGED <<ret, call, ok, cleanup>>
        /\ at = "idle" /\ UNCHANGED <<snap, plans, owner, kernel>>
    BY <1>8, <1>c DEF ApplyTun
  <2>2. CASE CallStop("tunStopped")
    BY <1>a, <1>b, <2>1, <2>2, CallStopControl DEF StopReturns
  <2>3. CASE at' = "stopped" /\ UNCHANGED <<ret, call, ok, cleanup>>
    BY <1>a, <1>b, <2>1, <2>3 DEF IInv, ControlInv, StartingInv, PreparedInv, CommittedInv,
       CandidateInv, StoppedInv, AwaitInv, Launching, StopPoints, plans, owner, kernel
  <2>. QED
    BY <2>1, <2>2, <2>3
<1>9. CASE DisableSystemProxy \/ EnableSystemProxy
  <2>1. /\ at = "idle" /\ snap' \in {snap, Erred(snap)}
        /\ UNCHANGED <<plans, owner, kernel, frame>>
    BY <1>9 DEF DisableSystemProxy, EnableSystemProxy
  <2>2. snap'.state = snap.state /\ snap'.tun = snap.tun /\ snap'.listen = snap.listen
    BY <2>1, SnapValues
  <2>. QED
    BY <1>a, <2>1, <2>2 DEF IInv, ControlInv, StartingInv, PreparedInv, CommittedInv,
       CandidateInv, StoppedInv, AwaitInv, LiveInv, Running, Launching, StopPoints,
       plans, owner, kernel, frame
<1>. QED
  BY <1>1, <1>2, <1>4, <1>5, <1>6, <1>7, <1>8, <1>9 DEF Begin

\* Outside startCore and its calls nothing is Starting and nothing is prepared.
LEMMA QuietControl ==
  ASSUME IInv, at \notin Launching \cup StopPoints \cup {"check"}
  PROVE  snap.state # "Starting" /\ prepared = None /\ options = None
BY DEF IInv, ControlInv, StartingInv, PreparedInv, Launching, StopPoints

\* The next point is one no control invariant speaks of.
LEMMA MoveControl ==
  ASSUME IInv, at \notin Launching \cup StopPoints \cup {"check"},
         at' \in {"handoff", "restoreDone"},
         at' = "handoff" => cmd'.cand # None,
         UNCHANGED <<snap, plans, owner, kernel>>
  PROVE  ControlInv'
<1>1. snap.state # "Starting" /\ prepared = None /\ options = None
  BY QuietControl
<1>. QED
  BY <1>1 DEF IInv, ControlInv, StartingInv, PreparedInv, CommittedInv, CandidateInv,
              StoppedInv, AwaitInv, LiveInv, Running, Launching, StopPoints, plans, owner, kernel

LEMMA ReconfigureControl == ASSUME IInv, Reconfigure PROVE ControlInv'
<1>. snap \in Snaps /\ cmd \in Commands
  BY DEF IInv, TypeOK
<1>a. ASSUME snap'.state = snap.state, snap'.tun = snap.tun, snap'.listen = snap.listen,
             UNCHANGED <<applied, file, lastMain, engine>>
      PROVE  LiveInv'
  BY <1>a DEF IInv, ControlInv, LiveInv, Running
<1>b. ASSUME snap'.state = snap.state, snap'.tun = snap.tun, snap'.listen = snap.listen,
             Done, at \notin Launching \cup StopPoints \cup {"check"},
             UNCHANGED <<plans, owner, kernel>>
      PROVE  ControlInv'
  <2>1. LiveInv'
    BY <1>a, <1>b DEF plans, kernel
  <2>2. prepared' = prepared /\ options' = options
    BY <1>b DEF plans
  <2>. QED
    BY <1>b, <2>1, <2>2, DoneControl
<1>1. CASE CandidateRefused
  <2>1. snap'.state = snap.state /\ snap'.tun = snap.tun /\ snap'.listen = snap.listen
    BY <1>1, SnapValues DEF CandidateRefused
  <2>. QED
    BY <1>1, <1>b, <2>1 DEF CandidateRefused, Launching, StopPoints
<1>2. CASE CandidateAccepted
  <2>1. /\ at = "prepare" /\ cmd.cand # None /\ snap.state # "Starting"
        /\ prepared = None /\ options = None
        /\ UNCHANGED <<snap, applied, file, options, lastMain, owner, kernel>>
    BY <1>2, QuietControl DEF CandidateAccepted, IInv, ControlInv, CandidateInv,
                              Launching, StopPoints
  <2>2. CASE cmd.name = "connect" /\ cmd.before.state # "Running"
    <3>. DEFINE c == StartArgs(cmd.cand.main, settings.tun, TakeOrDrop(settings.proxy))
    <3>1. CallStart(c, "connected") /\ prepared' = cmd.cand
      BY <1>2, <2>2 DEF CandidateAccepted
    <3>2. c.main = cmd.cand.main
      BY StartArgsMain
    <3>3. /\ snap' = snap /\ options' = None
          /\ prepared' # None => prepared'.main = c.main
          /\ UNCHANGED <<applied, file, lastMain, owner, kernel>>
      BY <2>1, <3>1, <3>2
    <3>. HIDE DEF c
    <3>. QED
      BY <2>1, <3>1, <3>3, CallStartControl
  <2>3. CASE ~(cmd.name = "connect" /\ cmd.before.state # "Running")
    <3>1. \/ Handoff /\ cmd' \in {cmd, [cmd EXCEPT !.proxy = settings.proxy]}
          \/ Done /\ prepared' = prepared
      BY <1>2, <2>3 DEF CandidateAccepted, Handoff
    <3>2. CASE Handoff /\ cmd' \in {cmd, [cmd EXCEPT !.proxy = settings.proxy]}
      <4>1. at' = "handoff" /\ cmd'.cand # None /\ prepared' = prepared
        BY <2>1, <3>2 DEF Handoff, Commands
      <4>. QED
        BY <2>1, <4>1, MoveControl DEF plans, Launching, StopPoints
    <3>3. CASE Done /\ prepared' = prepared
      BY <1>b, <2>1, <3>3 DEF plans, Launching, StopPoints
    <3>. QED
      BY <3>1, <3>2, <3>3
  <2>. QED
    BY <2>2, <2>3
<1>3. CASE SkipHandoff
  BY <1>3, <1>b DEF SkipHandoff, Launching, StopPoints
<1>4. CASE BeginHandoff
  <2>1. /\ at = "handoff" /\ cmd' = [cmd EXCEPT !.prev = applied]
        /\ CallStop("handoffStopped") /\ UNCHANGED <<snap, plans, owner, kernel>>
    BY <1>4 DEF BeginHandoff
  <2>2. snap.state # "Starting" /\ prepared = None /\ options = None /\ cmd.cand # None
    BY <2>1, QuietControl DEF IInv, ControlInv, CandidateInv, Launching, StopPoints
  <2>3. cmd'.cand # None
    BY <2>1, <2>2, CommandValues
  <2>4. LiveInv'
    BY <1>a, <2>1 DEF plans, kernel
  <2>. QED
    BY <2>1, <2>2, <2>3, <2>4, CallStopControl DEF StopReturns
<1>5. CASE HandoffStopped
  <2>1. /\ at = "handoffStopped" /\ snap.state # "Starting" /\ prepared = None /\ options = None
        /\ UNCHANGED <<snap, applied, file, options, lastMain, owner, kernel>>
    BY <1>5, QuietControl DEF HandoffStopped, Launching, StopPoints
  <2>2. CASE ok
    <3>. DEFINE c == StartArgs(cmd.cand.main, cmd.before.tun, TakeIf(cmd.proxy))
    <3>1. CallStart(c, "handoffStarted") /\ prepared' = cmd.cand
      BY <1>5, <2>2 DEF HandoffStopped
    <3>2. c.main = cmd.cand.main
      BY StartArgsMain
    <3>3. /\ snap' = snap /\ options' = None
          /\ prepared' # None => prepared'.main = c.main
          /\ UNCHANGED <<applied, file, lastMain, owner, kernel>>
      BY <2>1, <3>1, <3>2
    <3>. HIDE DEF c
    <3>. QED
      BY <2>1, <3>1, <3>3, CallStartControl
  <2>3. CASE ~ok
    BY <1>5, <1>b, <2>1, <2>3 DEF HandoffStopped, plans, Launching, StopPoints
  <2>. QED
    BY <2>2, <2>3
<1>6. CASE HandoffStarted
  <2>1. /\ at = "handoffStarted" /\ snap.state # "Starting" /\ prepared = None /\ options = None
        /\ UNCHANGED <<plans, owner, kernel>>
    BY <1>6, QuietControl DEF HandoffStarted, Launching, StopPoints
  <2>2. CASE Running
    <3>1. snap'.state = snap.state /\ snap'.tun = snap.tun /\ snap'.listen = snap.listen /\ Done
      BY <1>6, <2>2 DEF HandoffStarted, Snaps
    <3>. QED
      BY <1>b, <2>1, <3>1 DEF Launching, StopPoints
  <2>3. CASE ~Running
    <3>1. /\ snap' = snap /\ cmd' = cmd
          /\ \/ cmd.prev # None /\ CallStop("rollbackStopped")
             \/ at' = "restoreDone"
      BY <1>6, <2>3 DEF HandoffStarted
    <3>2. LiveInv'
      BY <1>a, <2>1, <3>1 DEF plans, kernel
    <3>3. CASE cmd.prev # None /\ CallStop("rollbackStopped")
      BY <2>1, <3>1, <3>2, <3>3, CallStopControl DEF StopReturns
    <3>4. CASE at' = "restoreDone"
      BY <2>1, <3>1, <3>4, MoveControl DEF Launching, StopPoints
    <3>. QED
      BY <3>1, <3>3, <3>4
  <2>. QED
    BY <2>2, <2>3
<1>7. CASE RollbackStopped
  <2>1. /\ at = "rollbackStopped" /\ snap.state # "Starting" /\ prepared = None /\ options = None
        /\ UNCHANGED <<cmd, snap, applied, file, prepared, lastMain, owner, kernel>>
    BY <1>7, QuietControl DEF RollbackStopped, Launching, StopPoints
  <2>2. CASE ok
    <3>. DEFINE c == StartArgs(cmd.prev.main, cmd.prev.tun, TakeIf(cmd.proxy))
    <3>1. CallStart(c, "restoreDone") /\ options' = cmd.prev
      BY <1>7, <2>2 DEF RollbackStopped
    <3>2. c.main = cmd.prev.main
      BY StartArgsMain
    <3>3. /\ snap' = snap /\ prepared' = None
          /\ options' # None => options'.main = c.main
          /\ UNCHANGED <<applied, file, lastMain, owner, kernel>>
      BY <2>1, <3>1, <3>2
    <3>. HIDE DEF c
    <3>. QED
      BY <2>1, <3>1, <3>3, CallStartControl
  <2>3. CASE ~ok
    <3>1. at' = "restoreDone" /\ options' = options
      BY <1>7, <2>3 DEF RollbackStopped
    <3>. QED
      BY <2>1, <3>1, MoveControl DEF plans, Launching, StopPoints
  <2>. QED
    BY <2>2, <2>3
<1>8. CASE RestoreDone
  <2>1. Erred(snap) \in Snaps
    BY SnapTypes
  <2>2. snap'.state = snap.state /\ snap'.tun = snap.tun /\ snap'.listen = snap.listen
    BY <1>8, <2>1, SnapValues DEF RestoreDone
  <2>. QED
    BY <1>8, <1>b, <2>2 DEF RestoreDone, Launching, StopPoints
<1>9. CASE TunStopped
  <2>1. /\ at = "tunStopped" /\ snap.state # "Starting" /\ prepared = None /\ options = None
        /\ UNCHANGED <<plans, owner, kernel>> /\ ~Running
    BY <1>9, QuietControl DEF TunStopped, Launching, StopPoints, IInv, ControlInv, StoppedInv
  <2>2. CASE ok
    <3>. DEFINE c == StartArgs(lastMain, cmd.on, TakeOrDrop(cmd.proxy))
    <3>1. CallStart(c, "tunStarted") /\ snap' = snap
      BY <1>9, <2>2 DEF TunStopped
    <3>. HIDE DEF c
    <3>. QED
      BY <2>1, <3>1, CallStartControl DEF plans
  <2>3. CASE ~ok
    <3>1. Done /\ snap'.state = snap.state
      BY <1>9, <2>3 DEF TunStopped, RevertTun, Snaps
    <3>2. LiveInv'
      BY <2>1, <3>1 DEF LiveInv, Running
    <3>. QED
      BY <2>1, <3>1, <3>2, DoneControl DEF plans, Launching, StopPoints
  <2>. QED
    BY <2>2, <2>3
<1>10. CASE TunStarted
  <2>1. /\ at = "tunStarted" /\ snap.state # "Starting" /\ prepared = None /\ options = None
        /\ UNCHANGED <<plans, owner, kernel>>
    BY <1>10, QuietControl DEF TunStarted, Launching, StopPoints
  <2>2. CASE Running
    <3>1. snap'.state = snap.state /\ snap'.tun = snap.tun /\ snap'.listen = snap.listen /\ Done
      BY <1>10, <2>2 DEF TunStarted, Snaps
    <3>. QED
      BY <1>b, <2>1, <3>1 DEF Launching, StopPoints
  <2>3. CASE ~Running
    <3>1. snap'.state = snap.state /\ CallStop("tunBackStopped")
      BY <1>10, <2>3 DEF TunStarted, RevertTun, Snaps
    <3>2. LiveInv'
      BY <2>3, <3>1 DEF LiveInv, Running
    <3>. QED
      BY <2>1, <3>1, <3>2, CallStopControl DEF StopReturns
  <2>. QED
    BY <2>2, <2>3
<1>11. CASE TunBackStopped
  <2>. DEFINE c == StartArgs(lastMain, ~cmd.on, TakeOrDrop(cmd.proxy))
  <2>1. CallStart(c, "tunRestored") /\ at = "tunBackStopped"
        /\ UNCHANGED <<snap, plans, owner, kernel>>
    BY <1>11 DEF TunBackStopped
  <2>2. snap.state # "Starting" /\ prepared = None /\ options = None
    BY <2>1, QuietControl DEF Launching, StopPoints
  <2>. HIDE DEF c
  <2>. QED
    BY <2>1, <2>2, CallStartControl DEF plans
<1>12. CASE TunRestored
  <2>1. Erred(snap) \in Snaps
    BY SnapTypes
  <2>2. snap'.state = snap.state /\ snap'.tun = snap.tun /\ snap'.listen = snap.listen
    BY <1>12, <2>1, SnapValues DEF TunRestored
  <2>. QED
    BY <1>12, <1>b, <2>2 DEF TunRestored, Launching, StopPoints
<1>13. CASE Return
  BY <1>13, <1>b DEF Return, Launching, StopPoints
<1>. QED
  BY <1>1, <1>2, <1>3, <1>4, <1>5, <1>6, <1>7, <1>8, <1>9, <1>10, <1>11, <1>12, <1>13
  DEF Reconfigure

LEMMA StartingControl == ASSUME IInv, Starting PROVE ControlInv'
<1>. /\ snap \in Snaps /\ cmd \in Commands /\ call \in Calls /\ ret \in Returns
     /\ file \in Plans \cup {None}
  BY DEF IInv, TypeOK
<1>a. ASSUME UNCHANGED <<managed, late>> PROVE ~Service => ~managed' /\ late' = {}
  BY <1>a DEF IInv, ControlInv, AwaitInv
<1>b. ASSUME snap'.state = snap.state, snap'.tun = snap.tun, snap'.listen = snap.listen,
             UNCHANGED <<applied, file, lastMain, engine>>
      PROVE  LiveInv'
  BY <1>b DEF IInv, ControlInv, LiveInv, Running
<1>c. /\ at \in Launching => snap.state = "Starting"
      /\ at \in StartPoints \ Launching => snap.state # "Starting"
      /\ at \in StartPoints \ {"check", "plan"} => prepared = None /\ options = None
  BY DEF IInv, ControlInv, StartingInv, PreparedInv, Launching, StopPoints, StartPoints
<1>d. ASSUME Launched, at = "launch", UNCHANGED <<applied, file, lastMain>>,
             ~Service => ~managed' /\ late' = {} /\ pid',
             engine' = file \/ (~Service /\ adopted')
      PROVE  ControlInv'
  <2>1. /\ snap.state = "Starting" /\ prepared = None /\ options = None
        /\ file # None /\ file.main = lastMain
    BY <1>c, <1>d DEF IInv, ControlInv, CommittedInv, Launching, StartPoints
  <2>2. at' = "await" /\ UNCHANGED <<snap, prepared, options, ret, cmd, call>>
    BY <1>d DEF Launched
  <2>. QED
    BY <1>d, <2>1, <2>2 DEF ControlInv, StartingInv, PreparedInv, CommittedInv, CandidateInv,
       StoppedInv, AwaitInv, LiveInv, Running, Launching, StopPoints
<1>1. CASE StartRefused
  BY <1>1, <1>a, FailControl DEF StartRefused, owner, kernel
<1>2. CASE StartBegins
  <2>1. at = "check" /\ snap.state # "Starting"
    BY <1>2, <1>c DEF StartBegins, StartPoints, Launching
  <2>2. /\ snap' = [snap EXCEPT !.state = "Starting", !.err = FALSE]
        /\ lastMain' = call.main /\ at' = "plan"
        /\ UNCHANGED <<prepared, options, ret, cmd, call, file, owner, kernel>>
    BY <1>2, <2>1 DEF StartBegins
  <2>3. snap'.state = "Starting"
    BY <2>2 DEF Snaps
  <2>. QED
    BY <2>1, <2>2, <2>3, <1>a DEF IInv, ControlInv, StartingInv, PreparedInv, CommittedInv,
       CandidateInv, StoppedInv, AwaitInv, LiveInv, Running, Launching, StopPoints, owner, kernel
<1>3. CASE PlanFails
  BY <1>3, <1>a, FailControl DEF PlanFails, owner, kernel
<1>4. CASE CommitPlan
  <2>1. /\ at = "plan" /\ at' = "launch" /\ file' = PlanToRun /\ prepared' = None
        /\ options' = (IF prepared # None THEN options ELSE None)
        /\ UNCHANGED <<snap, ret, cmd, call, lastMain, owner, kernel>>
    BY <1>4 DEF CommitPlan
  <2>2. snap.state = "Starting" /\ lastMain = call.main /\ options' = None
    BY <2>1, <1>c DEF IInv, ControlInv, PreparedInv, CommittedInv, Launching
  <2>3. PlanToRun # None /\ PlanToRun.main = call.main
    <3>1. call.main \in Mains /\ call.tun \in BOOLEAN
      BY CallTypes
    <3>2. [main |-> call.main, tun |-> call.tun, listen |-> TRUE] \in Plans
      BY <3>1, PlanTypes
    <3>3. [main |-> call.main, tun |-> call.tun, listen |-> TRUE] # None
      BY <3>2, NoneIsNone
    <3>. QED
      BY <3>3 DEF PlanToRun, IInv, ControlInv, PreparedInv
  <2>. QED
    BY <2>1, <2>2, <2>3, <1>a DEF IInv, ControlInv, StartingInv, PreparedInv, CommittedInv,
       CandidateInv, StoppedInv, AwaitInv, LiveInv, Running, Launching, StopPoints, owner, kernel
<1>5. CASE ServiceStartOk
  BY <1>5, <1>d DEF ServiceStartOk, ServeStart
<1>6. CASE ServiceStartFails
  BY <1>6, FailControl DEF ServiceStartFails
<1>7. CASE Adopt
  BY <1>7, <1>a, <1>d DEF Adopt, kernel
<1>8. CASE Spawn
  BY <1>8, <1>a, <1>d DEF Spawn
<1>9. CASE SpawnFails
  BY <1>9, <1>a, FailControl DEF SpawnFails, owner
<1>10. CASE AwaitExited
  BY <1>10, <1>a, FailControl DEF AwaitExited, owner, kernel
<1>11. CASE AwaitRepairs
  <2>1. at = "await" /\ at' = "check" /\ UNCHANGED <<plans, ret, cmd, owner, kernel>>
    BY <1>11 DEF AwaitRepairs
  <2>2. snap'.state = "Stopped"
    BY <1>11 DEF AwaitRepairs, Snaps
  <2>3. prepared = None /\ options = None
    BY <2>1, <1>c DEF StartPoints
  <2>. QED
    BY <2>1, <2>2, <2>3, <1>a DEF IInv, ControlInv, StartingInv, PreparedInv, CommittedInv,
       CandidateInv, StoppedInv, AwaitInv, LiveInv, Running, Launching, StopPoints,
       plans, owner, kernel
<1>12. CASE AwaitTimesOut
  <2>1. /\ at = "await" /\ CallStop("timedOut")
        /\ UNCHANGED <<snap, plans, cmd, owner, kernel>>
    BY <1>12 DEF AwaitTimesOut
  <2>2. at' = "release" /\ ret'.stop = "timedOut"
    BY <2>1 DEF CallStop, Returns
  <2>3. snap.state = "Starting" /\ prepared = None /\ options = None
    BY <2>1, <1>c DEF StartPoints, Launching
  <2>. QED
    BY <2>1, <2>2, <2>3, <1>a DEF IInv, ControlInv, StartingInv, PreparedInv, CommittedInv,
       CandidateInv, StoppedInv, AwaitInv, LiveInv, Running, Launching, StopPoints,
       plans, owner, kernel
<1>13. CASE AwaitReady
  <2>1. /\ at = "await" /\ TRUE \in CoreAlive /\ at' = "mode" /\ applied' = file
        /\ snap' = Ready(snap, file)
        /\ UNCHANGED <<file, prepared, options, lastMain, owner, kernel, ret, cmd, call>>
    BY <1>13 DEF AwaitReady
  <2>2. /\ snap'.state = "Running" /\ snap'.tun = file.tun /\ snap'.listen = file.listen
    BY <2>1, SnapValues
  <2>3. file # None /\ file.main = lastMain /\ prepared = None /\ options = None
    BY <2>1, <1>c DEF IInv, ControlInv, CommittedInv, StartPoints
  \* An adopted kernel never becomes ready.
  <2>4. engine \in {file, None}
    BY <2>1 DEF IInv, ControlInv, AwaitInv, CoreAlive
  <2>. QED
    BY <2>1, <2>2, <2>3, <2>4, <1>a DEF ControlInv, StartingInv, PreparedInv, CommittedInv,
       CandidateInv, StoppedInv, AwaitInv, LiveInv, Launching, StopPoints, owner, kernel
<1>14. CASE ModeReconciled
  <2>1. /\ at = "mode" /\ at' = "proxy"
        /\ UNCHANGED <<snap, plans, owner, kernel, ret, cmd, call>>
    BY <1>14 DEF ModeReconciled
  <2>. QED
    BY <2>1, <1>a, <1>b, <1>c DEF ControlInv, StartingInv, PreparedInv, CommittedInv,
       CandidateInv, StoppedInv, AwaitInv, Launching, StopPoints, StartPoints,
       plans, owner, kernel
<1>15. CASE ModeRefused
  <2>1. /\ at = "mode" /\ CallStop("timedOut")
        /\ UNCHANGED <<snap, plans, cmd, owner, kernel>>
    BY <1>15 DEF ModeRefused
  <2>2. snap.state # "Starting" /\ prepared = None /\ options = None /\ LiveInv'
    BY <2>1, <1>b, <1>c DEF StartPoints, Launching, plans, kernel
  <2>. QED
    BY <2>1, <2>2, CallStopControl DEF StopReturns
<1>16. CASE StartTimedOut
  BY <1>16, <1>a, FailControl DEF StartTimedOut, owner, kernel
<1>17. CASE StartProxy
  <2>1. /\ at = "proxy" /\ snap' \in {snap, Erred(snap)}
        /\ UNCHANGED <<applied, file, lastMain, owner, kernel>>
        /\ \/ at' = "take" /\ UNCHANGED <<prepared, options, ret, cmd, call>>
           \/ StartReturn
    BY <1>17 DEF StartProxy
  <2>2. snap'.state = snap.state /\ LiveInv' /\ snap.state # "Starting"
    BY <2>1, <1>b, <1>c, SnapValues DEF StartPoints, Launching, kernel
  <2>3. CASE StartReturn
    BY <2>1, <2>2, <2>3, <1>a, ReturnsControl DEF owner, kernel
  <2>4. CASE at' = "take" /\ UNCHANGED <<prepared, options, ret, cmd, call>>
    BY <2>1, <2>2, <2>4, <1>a, <1>c DEF ControlInv, StartingInv, PreparedInv, CommittedInv,
       CandidateInv, StoppedInv, AwaitInv, Launching, StopPoints, StartPoints, owner, kernel
  <2>. QED
    BY <2>1, <2>3, <2>4
<1>18. CASE StartTakesProxy
  <2>1. /\ at = "take" /\ snap' \in {snap, Erred(snap)} /\ StartReturn
        /\ UNCHANGED <<applied, file, lastMain, owner, kernel>>
    BY <1>18 DEF StartTakesProxy
  <2>2. snap'.state = snap.state /\ LiveInv' /\ snap.state # "Starting"
    BY <2>1, <1>b, <1>c, SnapValues DEF StartPoints, Launching, kernel
  <2>. QED
    BY <2>1, <2>2, <1>a, ReturnsControl DEF owner, kernel
<1>19. CASE StartThrows
  <2>1. /\ snap' = (IF snap.state = "Starting" THEN Failed(snap) ELSE Erred(snap))
        /\ StartReturn /\ UNCHANGED <<applied, file, lastMain, owner, kernel>>
    BY <1>19 DEF StartThrows
  <2>2. snap'.state # "Starting" /\ LiveInv'
    BY <2>1, <1>b, SnapValues DEF LiveInv, Running, kernel
  <2>. QED
    BY <2>1, <2>2, <1>a, ReturnsControl DEF owner, kernel
<1>. QED
  BY <1>1, <1>2, <1>3, <1>4, <1>5, <1>6, <1>7, <1>8, <1>9, <1>10, <1>11, <1>12, <1>13,
     <1>14, <1>15, <1>16, <1>17, <1>18, <1>19
  DEF Starting

LEMMA StoppingControl == ASSUME IInv, Stopping PROVE ControlInv'
<1>. snap \in Snaps /\ ret \in Returns
  BY DEF IInv, TypeOK
<1>a. at \in StopPoints => prepared = None /\ options = None
  BY DEF IInv, ControlInv, PreparedInv, StopPoints
<1>b. ASSUME at \in StopPoints, at' = ret.stop, snap'.state \in {"Stopped", "Failed"},
             UNCHANGED <<plans, ret, cmd>>, ~Service => ~managed' /\ late' = {}
      PROVE  ControlInv'
  <2>1. at' \in StopReturns
    BY <1>b DEF Returns
  <2>. QED
    BY <1>a, <1>b, <2>1 DEF IInv, ControlInv, StartingInv, PreparedInv, CommittedInv,
       CandidateInv, StoppedInv, AwaitInv, LiveInv, Running, Launching, StopPoints,
       StopReturns, plans
<1>c. ASSUME PublishStopped
      PROVE  at' = ret.stop /\ snap'.state = "Stopped" /\ UNCHANGED <<ret, cmd>>
  BY <1>c, SnapValues DEF PublishStopped, StopReturn
<1>d. ASSUME StopFails
      PROVE  at' = ret.stop /\ snap'.state = "Failed" /\ UNCHANGED <<ret, cmd>>
  BY <1>d, SnapValues DEF StopFails, StopReturn
<1>1. CASE StopChecksProxy \/ StopReleasesProxy
  <2>1. /\ at \in StopPoints /\ at' \in StopPoints
        /\ UNCHANGED <<snap, plans, ret, owner, kernel>>
        /\ cmd' = cmd \/ \E b : cmd' = [cmd EXCEPT !.blind = b]
    BY <1>1 DEF StopChecksProxy, StopReleasesProxy, StopPoints
  <2>2. cmd'.cand = cmd.cand /\ cmd'.prev = cmd.prev
    BY <2>1, BlindValues DEF IInv, TypeOK
  <2>. QED
    BY <1>a, <2>1, <2>2 DEF IInv, ControlInv, StartingInv, PreparedInv, CommittedInv,
       CandidateInv, StoppedInv, AwaitInv, LiveInv, Running, Launching, StopPoints,
       plans, owner, kernel
<1>2. CASE StopService
  <2>1. /\ at \in StopPoints /\ Service /\ UNCHANGED plans
        /\ PublishStopped \/ StopFails
    BY <1>2 DEF StopService, StopPoints
  <2>. QED
    BY <1>b, <1>c, <1>d, <2>1
<1>3. CASE StopUnreachable
  <2>1. at \in StopPoints /\ Service /\ UNCHANGED plans /\ PublishStopped
    BY <1>3 DEF StopUnreachable, StopPoints
  <2>. QED
    BY <1>b, <1>c, <2>1
<1>4. CASE StopProcess
  <2>1. /\ at \in StopPoints /\ UNCHANGED <<plans, managed, late>>
        /\ PublishStopped \/ StopFails
    BY <1>4 DEF StopProcess, StopPoints
  <2>2. ~Service => ~managed' /\ late' = {}
    BY <2>1 DEF IInv, ControlInv, AwaitInv
  <2>. QED
    BY <1>b, <1>c, <1>d, <2>1, <2>2
<1>. QED
  BY <1>1, <1>2, <1>3, <1>4 DEF Stopping

LEMMA OtherControl == ASSUME IInv, CheckAlive \/ Environment PROVE ControlInv'
<1>1. CASE ProbeBegins \/ ProbeDropped \/ ProbeFindsNoCore
  <2>1. UNCHANGED <<snap, plans, owner, kernel, frame>>
    BY <1>1 DEF ProbeBegins, ProbeDropped, ProbeFindsNoCore
  <2>. QED
    BY <2>1 DEF IInv, ControlInv, StartingInv, PreparedInv, CommittedInv, CandidateInv,
       StoppedInv, AwaitInv, LiveInv, Running, plans, owner, kernel, frame
<1>2. CASE ProbePublishes
  <2>1. snap'.state = "Failed" /\ at = "idle" /\ UNCHANGED <<plans, owner, kernel, frame>>
    BY <1>2, SnapValues DEF ProbePublishes, IInv, TypeOK
  <2>. QED
    BY <2>1 DEF IInv, ControlInv, StartingInv, PreparedInv, CommittedInv, CandidateInv,
       StoppedInv, AwaitInv, LiveInv, Running, Launching, StopPoints,
       plans, owner, kernel, frame
<1>3. CASE EngineDies
  <2>1. engine' = None /\ UNCHANGED <<snap, plans, owner, pid, late, frame>>
    BY <1>3 DEF EngineDies
  <2>. QED
    BY <2>1 DEF IInv, ControlInv, StartingInv, PreparedInv, CommittedInv, CandidateInv,
       StoppedInv, AwaitInv, LiveInv, Running, plans, owner, frame
<1>4. CASE DaemonServesLate
  <2>1. /\ engine' \in {file, engine, None} /\ late # {} /\ UNCHANGED <<snap, plans, owner, frame>>
    BY <1>4 DEF DaemonServesLate
  <2>2. Service
    BY <2>1 DEF IInv, ControlInv, AwaitInv
  <2>. QED
    BY <2>1, <2>2 DEF IInv, ControlInv, StartingInv, PreparedInv, CommittedInv, CandidateInv,
       StoppedInv, AwaitInv, LiveInv, Running, plans, owner, frame
<1>5. CASE OthersSetProxy
  <2>1. /\ cmd' \in {cmd, [cmd EXCEPT !.alone = FALSE]}
        /\ UNCHANGED <<snap, plans, owner, kernel, at, ret, call>>
    BY <1>5 DEF OthersSetProxy
  <2>2. cmd'.cand = cmd.cand /\ cmd'.prev = cmd.prev
    BY <2>1 DEF IInv, TypeOK, Commands
  <2>. QED
    BY <2>1, <2>2 DEF IInv, ControlInv, StartingInv, PreparedInv, CommittedInv, CandidateInv,
       StoppedInv, AwaitInv, LiveInv, Running, plans, owner, kernel
<1>. QED
  BY <1>1, <1>2, <1>3, <1>4, <1>5 DEF CheckAlive, Environment

----------------------------------------------------------------------------
\* The invariant holds in every reachable state.

LEMMA InitInv == ASSUME Init PROVE IInv
<1>1. Start0 \in Snaps /\ Start0.state = "Stopped"
  BY DEF Start0, Snaps, States
<1>2. settings \in Settings /\ lastMain \in Mains
  <2>1. settings \in Settings
    BY ConstantsAssumption DEF Init, Settings, ConstantsAssumption
  <2>. QED
    BY <2>1, SettingsTypes DEF Init
<1>3. file \in Plans \cup {None} /\ engine \in Plans \cup {None} /\ pid \in BOOLEAN
  <2>1. ASSUME NEW mm \in Mains PROVE [main |-> mm, tun |-> FALSE, listen |-> TRUE] \in Plans
    BY PlanTypes
  <2>. QED
    BY <2>1, ConstantsAssumption DEF Init, ConstantsAssumption
<1>4. /\ ret \in Returns /\ at \in Points /\ probe \in Probes
  BY DEF Init, Returns, StartReturns, StopReturns, Points, Probes, NoProbe
<1>5. cmd \in Commands /\ call \in Calls
  BY CommandTypes, CallTypes DEF Init
<1>6. os \in Proxies /\ user \in Proxies \cup {None}
  BY DEF Init, Proxies
<1>7. TypeOK
  BY <1>1, <1>2, <1>3, <1>4, <1>5, <1>6 DEF Init, TypeOK
<1>8. ControlInv
  BY <1>1 DEF Init, ControlInv, StartingInv, PreparedInv, CommittedInv, CandidateInv,
     StoppedInv, AwaitInv, LiveInv, Running, Launching, StopPoints
<1>. QED
  BY <1>7, <1>8 DEF IInv

LEMMA StepInv == ASSUME IInv, [Next]_vars PROVE IInv'
<1>. TypeOK /\ ControlInv
  BY DEF IInv
<1>1. CASE Begin
  BY <1>1, BeginTypes, BeginControl DEF IInv
<1>2. CASE Reconfigure
  BY <1>2, ReconfigureTypes, ReconfigureControl DEF IInv, ControlInv
<1>3. CASE Starting
  BY <1>3, StartingTypes, StartingControl DEF IInv, ControlInv
<1>4. CASE Stopping
  BY <1>4, StoppingTypes, StoppingControl DEF IInv
<1>5. CASE CheckAlive \/ Environment
  BY <1>5, OtherTypes, OtherControl DEF IInv
<1>6. CASE UNCHANGED vars
  BY <1>6 DEF vars, plans, owner, kernel, proxy, frame, IInv, TypeOK, ControlInv, StartingInv,
     PreparedInv, CommittedInv, CandidateInv, StoppedInv, AwaitInv, LiveInv, Running
<1>. QED
  BY <1>1, <1>2, <1>3, <1>4, <1>5, <1>6 DEF Next, Operation

LEMMA Invariance == Spec => []IInv
BY InitInv, StepInv, PTL DEF Spec

\* Every variable of the store keeps its type, whatever the operations, the
\* daemon, the kernel and other programs do.
THEOREM TypeCorrect == Spec => []TypeOK
<1>1. IInv => TypeOK
  BY DEF IInv
<1>. QED
  BY <1>1, Invariance, PTL

\* Between operations the store is never left Starting and no prepared plan is
\* left behind, also after an exception, a timeout or a failed stop.
THEOREM Settled == Spec => []IdleIsSettled
<1>1. IInv => IdleIsSettled
  BY DEF IInv, ControlInv, StartingInv, PreparedInv, IdleIsSettled, Launching, StopPoints
<1>. QED
  BY <1>1, Invariance, PTL

\* While Running is shown between operations, the live kernel, config.json, the
\* applied options and the published flags are one plan.
THEOREM PlanIsLive == Spec => []RunningPlanIsLive
<1>1. IInv => RunningPlanIsLive
  BY DEF IInv, ControlInv, LiveInv, RunningPlanIsLive
<1>. QED
  BY <1>1, Invariance, PTL

----------------------------------------------------------------------------
\* The lease on the system proxy.

LEMMA OthersAreOthers == \A v \in Others \cup {"empty"} : v # "ours"
BY ConstantsAssumption DEF ConstantsAssumption

LEMMA LeaseFields ==
  /\ \A a, b : [original |-> a, restore |-> b].original = a
  /\ \A a, b : [original |-> a, restore |-> b].restore = b
  /\ \A a \in Proxies, b \in BOOLEAN : [original |-> a, restore |-> b] # None
<1>1. \A a \in Proxies, b \in BOOLEAN : [original |-> a, restore |-> b] \in Leases
  BY DEF Leases
<1>. QED
  BY <1>1, NoneIsNone

LEMMA TakeProxy == ASSUME TypeOK, ProxyInv, TakeSystemProxy PROVE ProxyInv'
<1>1. os \in Proxies /\ lease \in Leases \cup {None} /\ RestoreProxy \in BOOLEAN
  BY ConstantsAssumption DEF TypeOK, ConstantsAssumption
<1>. DEFINE origin == IF lease # None /\ os = "ours" THEN lease.original ELSE os
<1>2. origin \in Proxies
  BY <1>1 DEF Leases
<1>3. /\ os' = "ours" /\ user' = user
      /\ \E back \in BOOLEAN : lease' = [original |-> origin, restore |-> back]
  BY DEF TakeSystemProxy
<1>4. lease' # None /\ lease'.original = origin
  BY <1>2, <1>3, LeaseFields
<1>5. user # None => origin = user
  BY DEF ProxyInv
<1>. QED
  BY <1>3, <1>4, <1>5 DEF ProxyInv

LEMMA ReleaseProxy == ASSUME TypeOK, ProxyInv, ReleaseSystemProxy PROVE ProxyInv'
<1>1. CASE lease # None /\ os # "ours"
  BY <1>1 DEF ReleaseSystemProxy, ProxyInv
<1>2. CASE lease # None /\ os = "ours" /\ lease.restore
  BY <1>2 DEF ReleaseSystemProxy, ProxyInv
<1>3. CASE ~(lease # None /\ lease.restore) /\ ~(lease # None /\ os # "ours")
  BY <1>3 DEF ReleaseSystemProxy, ProxyInv
<1>. QED
  BY <1>1, <1>2, <1>3

LEMMA RefusedProxy == ASSUME TypeOK, ProxyInv, TakeRefused PROVE ProxyInv'
<1>1. CASE UNCHANGED proxy
  BY <1>1 DEF proxy, ProxyInv
<1>2. CASE os' = "ours" /\ user' = (IF os = "ours" THEN user ELSE None) /\ lease' = lease
  BY <1>2, NoneIsNone DEF ProxyInv, Proxies
<1>. QED
  BY <1>1, <1>2 DEF TakeRefused

\* Only these steps touch the proxy.
LEMMA ProxySteps ==
  ASSUME [Next]_vars
  PROVE  \/ UNCHANGED proxy \/ TakeSystemProxy \/ ReleaseSystemProxy \/ TakeRefused
         \/ OthersSetProxy
<1>1. CASE Begin
  BY <1>1 DEF Begin, StartReadyCore, CliStart, ConnectProxy, RestartCore, ApplyMainProfile,
     Propose, Stop, ApplyTun, DisableSystemProxy, EnableSystemProxy
<1>2. CASE Reconfigure
  BY <1>2 DEF Reconfigure, CandidateRefused, CandidateAccepted, SkipHandoff, BeginHandoff,
     HandoffStopped, HandoffStarted, RollbackStopped, RestoreDone, TunStopped, TunStarted,
     TunBackStopped, TunRestored, Return
<1>3. CASE Starting
  BY <1>3 DEF Starting, StartRefused, StartBegins, PlanFails, CommitPlan, ServiceStartOk,
     ServiceStartFails, Adopt, Spawn, SpawnFails, AwaitExited, AwaitRepairs, AwaitTimesOut,
     AwaitReady, ModeReconciled, ModeRefused, StartTimedOut, StartProxy, StartTakesProxy,
     StartThrows
<1>4. CASE Stopping
  BY <1>4 DEF Stopping, StopChecksProxy, StopReleasesProxy, StopService, StopUnreachable,
     StopProcess
<1>5. CASE CheckAlive \/ EngineDies \/ DaemonServesLate \/ OthersSetProxy
  BY <1>5 DEF CheckAlive, ProbeBegins, ProbeDropped, ProbeFindsNoCore, ProbePublishes,
     EngineDies, DaemonServesLate
<1>6. CASE UNCHANGED vars
  BY <1>6 DEF vars
<1>. QED
  BY <1>1, <1>2, <1>3, <1>4, <1>5, <1>6 DEF Next, Operation, Environment

LEMMA InitProxy == ASSUME Init PROVE ProxyInv
<1>1. \/ os \in Others \cup {"empty"} /\ user = os
      \/ os = "ours" /\ user = None
  BY DEF Init
<1>. QED
  BY <1>1, OthersAreOthers, NoneIsNone DEF ProxyInv, Proxies

LEMMA StepProxy == ASSUME TypeOK, ProxyInv, [Next]_vars PROVE ProxyInv'
<1>1. CASE UNCHANGED proxy
  BY <1>1 DEF proxy, ProxyInv
<1>2. CASE OthersSetProxy
  BY <1>2, OthersAreOthers DEF OthersSetProxy, ProxyInv
<1>. QED
  BY <1>1, <1>2, ProxySteps, TakeProxy, ReleaseProxy, RefusedProxy

LEMMA ProxyInvariance == Spec => []ProxyInv
BY InitProxy, StepProxy, TypeCorrect, PTL DEF Spec

\* While the desktop points at this application, the lease that will be given
\* back holds what the last other program had set: over any sequence of takes,
\* handoffs, failed takes, releases and changes made by others.
THEOREM LeaseKeeps == Spec => []LeaseKeepsUserProxy
<1>1. ProxyInv => LeaseKeepsUserProxy
  BY DEF ProxyInv, LeaseKeepsUserProxy
<1>. QED
  BY <1>1, ProxyInvariance, PTL

----------------------------------------------------------------------------
(***************************************************************************)
(* The running plan is the selected profile's, and the session's clock     *)
(* runs exactly while the ports are open.  Both need to know which         *)
(* operation called startCore or stopCore, what it was called with, and    *)
(* what is gone back to when it fails.                                     *)
(***************************************************************************)

\* The inductive invariant, part by part.

TunStarts    == {"tunStarted", "tunRestored"}
TunStops     == {"tunStopped", "tunBackStopped"}
Handoffs     == {"handoffStarted", "restoreDone"}
HandoffStops == {"handoffStopped", "rollbackStopped"}

\* startCore is under way, the stop of a kernel that did not answer included.
InStart ==
    \/ at \in StartPoints \/ at = "timedOut"
    \/ at \in StopPoints /\ ret.stop = "timedOut"

\* At one of these returns, or in the call that returns there.
StartOf(R) == at \in R \/ (InStart /\ ret.start \in R)
StopOf(R)  == at \in R \/ (at \in StopPoints /\ ret.stop \in R)

\* Each operation takes its own way through the procedures all of them share.
WayInv ==
    /\ at = "idle" => cmd.name = "none"
    /\ at \in {"prepare", "handoff"} \/ StartOf(Handoffs) \/ StopOf(HandoffStops)
         => cmd.name \in {"connect", "restart", "select"}
    /\ StartOf(TunStarts) \/ StopOf(TunStops) => cmd.name = "tun"
    /\ StartOf({"started", "connected"}) => cmd.name \in {"ready", "cli", "connect"}
    /\ at = "stopped" => cmd.name \in {"stop", "tun"}
    /\ at \in StopPoints /\ ret.stop = "stopped" => cmd.name = "stop"
    /\ at \in {"idle", "prepare", "handoff"} => ret.start = "started"
    /\ at \in StartReturns \ {"restoreDone"} => ret.start = at
    /\ at = "restoreDone" => ret.start \in Handoffs
    /\ StopOf({"rollbackStopped"}) => WasActive /\ ret.start = "handoffStarted"

\* What the operation saw on entry is still so while the kernel is untouched,
\* and nothing runs after a stop until the next start.
EntryInv ==
    /\ at \in {"prepare", "handoff"} => cmd.before = View(snap)
    /\ at \in StopReturns \ {"stopped"} => ~Running
    /\ at = "restoreDone" /\ ret.start = "handoffStarted" => ~Running
    /\ at \in StopPoints /\ ret.stop \in {"rollbackStopped", "tunBackStopped"} => ~Running

\* The profile that is selected when the operation fails.
Chosen == IF cmd.name = "select" THEN cmd.old ELSE settings.main

SelectionInv ==
    /\ Running => applied.main = IF ret.start = "handoffStarted" THEN settings.main
                                                                 ELSE Chosen
    /\ at \in StartPoints => call.main = IF ret.start = "restoreDone" THEN Chosen
                                                                      ELSE settings.main
    /\ at \in Launching => lastMain = call.main
    /\ at = "prepare" => /\ settings.main = cmd.old
                         /\ cmd.name # "select" => cmd.cand.main = settings.main
    /\ at = "handoff" \/ StopOf({"handoffStopped"}) => cmd.cand.main = settings.main
    /\ WasActive /\ cmd.prev # None => cmd.prev.main = Chosen
    /\ cmd.name = "tun" /\ at # "stopped" => lastMain = settings.main

\* The operation ends by giving the session its clock back, if a kernel runs.
KeepsClock == ret.start \in TunStarts \/ (ret.start = "restoreDone" /\ cmd.before.listen)

ClockInv ==
    /\ snap.since # 0 <=> snap.listen
    /\ cmd.before.since # 0 <=> cmd.before.listen
    /\ cmd.before.state # "Starting"
    /\ StartOf(TunStarts) \/ StopOf(TunStops) =>
         cmd.before.listen /\ prepared = None /\ options = None
    /\ at \in StartPoints /\ ret.start = "restoreDone" =>
         prepared = None /\ (options # None /\ cmd.before.listen => options.listen)
    /\ at \in {"launch", "await"} /\ KeepsClock => file.listen
    /\ Running /\ KeepsClock => snap.listen
    /\ WasActive /\ cmd.prev # None => cmd.prev.listen = cmd.before.listen
    /\ at = "stopped" /\ cmd.name = "tun" => ~(WasActive /\ cmd.before.listen)

RouteInv == WayInv /\ EntryInv /\ SelectionInv /\ ClockInv

----------------------------------------------------------------------------
\* Fields of the records the steps change.

LEMMA SnapClock ==
  ASSUME NEW s \in Snaps
  PROVE  /\ Failed(s).since = s.since /\ Erred(s).since = s.since
         /\ \A b : Stopped(s, b).since = 0 /\ Stopped(s, b).listen = FALSE
         /\ \A p \in Plans : Ready(s, p).since # 0 <=> p.listen
         /\ \A n : [s EXCEPT !.since = n].since = n
         /\ \A n : [s EXCEPT !.since = n].state = s.state /\ [s EXCEPT !.since = n].listen = s.listen
         /\ \A b : [s EXCEPT !.tun = b].since = s.since /\ [s EXCEPT !.tun = b].listen = s.listen
         /\ \A x : /\ [s EXCEPT !.state = x, !.err = FALSE].since = s.since
                   /\ [s EXCEPT !.state = x, !.err = FALSE].listen = s.listen
<1>1. Failed(s).since = s.since /\ Erred(s).since = s.since
  BY DEF Snaps, Failed, Erred
<1>2. \A b : Stopped(s, b).since = 0 /\ Stopped(s, b).listen = FALSE
  BY DEF Snaps, Stopped
<1>3. ASSUME NEW p \in Plans PROVE Ready(s, p).since # 0 <=> p.listen
  <2>1. Ready(s, p).since = IF p.listen THEN s.epoch + 1 ELSE 0
    BY DEF Snaps, Ready
  <2>2. s.epoch + 1 # 0 /\ p.listen \in BOOLEAN
    BY SnapFields, PlanTypes
  <2>. QED
    BY <2>1, <2>2
<1>4. /\ \A n : [s EXCEPT !.since = n].since = n
      /\ \A n : [s EXCEPT !.since = n].state = s.state /\ [s EXCEPT !.since = n].listen = s.listen
      /\ \A b : [s EXCEPT !.tun = b].since = s.since /\ [s EXCEPT !.tun = b].listen = s.listen
  BY DEF Snaps
<1>5. \A x : /\ [s EXCEPT !.state = x, !.err = FALSE].since = s.since
             /\ [s EXCEPT !.state = x, !.err = FALSE].listen = s.listen
  BY DEF Snaps
<1>. QED
  BY <1>1, <1>2, <1>3, <1>4, <1>5

LEMMA CommandFields ==
  ASSUME NEW c \in Commands
  PROVE  /\ \A p : /\ [c EXCEPT !.prev = p].name = c.name /\ [c EXCEPT !.prev = p].old = c.old
                   /\ [c EXCEPT !.prev = p].before = c.before
         /\ \A b : /\ [c EXCEPT !.proxy = b].name = c.name /\ [c EXCEPT !.proxy = b].old = c.old
                   /\ [c EXCEPT !.proxy = b].before = c.before
         /\ \A b : /\ [c EXCEPT !.blind = b].name = c.name /\ [c EXCEPT !.blind = b].old = c.old
                   /\ [c EXCEPT !.blind = b].before = c.before
         /\ /\ [c EXCEPT !.alone = FALSE].name = c.name /\ [c EXCEPT !.alone = FALSE].old = c.old
            /\ [c EXCEPT !.alone = FALSE].before = c.before
BY DEF Commands

LEMMA SettingsFields ==
  ASSUME NEW s \in Settings
  PROVE  /\ \A x : [s EXCEPT !.main = x].main = x
         /\ \A b : [s EXCEPT !.tun = b].main = s.main /\ [s EXCEPT !.proxy = b].main = s.main
BY DEF Settings

LEMMA ViewFields ==
  \A s : /\ View(s).state = s.state /\ View(s).listen = s.listen /\ View(s).since = s.since
BY DEF View

LEMMA EnterFields ==
  ASSUME NEW n, NEW b, NEW p, Enter(n, b, p)
  PROVE  /\ at = "idle"
         /\ cmd'.name = n /\ cmd'.cand = p /\ cmd'.before = View(snap)
         /\ cmd'.prev = None /\ cmd'.old = settings.main
BY DEF Enter, NoCmd

LEMMA CallFields ==
  ASSUME ret \in Returns
  PROVE  /\ \A r : CallStop(r) => at' = "release" /\ ret'.stop = r /\ ret'.start = ret.start
         /\ \A c, r : CallStart(c, r) => at' = "check" /\ ret'.start = r /\ call' = c
BY DEF CallStop, CallStart, Returns

LEMMA NoCmdFields ==
  /\ NoCmd.name = "none" /\ NoCmd.prev = None /\ NoCmd.before.since = 0
  /\ NoCmd.before.listen = FALSE /\ NoCmd.before.state = "Stopped"
BY DEF NoCmd, View, Start0

----------------------------------------------------------------------------
\* Steps that many actions share.

LEMMA ErredFields ==
  ASSUME NEW s \in Snaps, NEW t \in {s, Erred(s)}
  PROVE  t.state = s.state /\ t.since = s.since /\ t.listen = s.listen
<1>1. Erred(s).state = s.state /\ Erred(s).since = s.since /\ Erred(s).listen = s.listen
  BY DEF Snaps, Erred
<1>. QED
  BY <1>1

LEMMA RouteTypes ==
  ASSUME IInv
  PROVE  /\ snap \in Snaps /\ cmd \in Commands /\ settings \in Settings /\ ret \in Returns
         /\ ret.start \in StartReturns /\ ret.stop \in StopReturns
BY ReturnTypes DEF IInv, TypeOK

\* The operation returns: what runs then is what is selected then.
LEMMA DoneRoute ==
  ASSUME Done, Running' => applied'.main = settings'.main, snap'.since # 0 <=> snap'.listen
  PROVE  RouteInv'
<1>1. /\ at' = "idle" /\ cmd'.name = "none" /\ cmd'.prev = None
      /\ cmd'.before.since = 0 /\ cmd'.before.listen = FALSE /\ cmd'.before.state = "Stopped"
      /\ ret'.start = "started" /\ ret'.stop = "stopped"
  BY NoCmdFields DEF Done
<1>2. WayInv' /\ EntryInv'
  BY <1>1 DEF WayInv, EntryInv, StartOf, StopOf, InStart, StopPoints, StartPoints, StopReturns,
     StartReturns, WasActive, TunStarts, TunStops, Handoffs, HandoffStops
<1>3. SelectionInv'
  BY <1>1 DEF SelectionInv, Chosen, WasActive, StopOf, StopPoints, StartPoints, Launching
<1>4. ClockInv'
  BY <1>1 DEF ClockInv, KeepsClock, WasActive, StartOf, StopOf, InStart, StopPoints, StartPoints,
     TunStarts, TunStops
<1>. QED
  BY <1>2, <1>3, <1>4 DEF RouteInv

\* startCore returns with the kernel it found or made, or with none.
LEMMA StartReturnRoute ==
  ASSUME IInv, RouteInv, at \in StartPoints \cup {"timedOut"}, StartReturn,
         snap'.since = snap.since, snap'.listen = snap.listen,
         Running' => Running,
         UNCHANGED <<applied, lastMain, settings>>
  PROVE  RouteInv'
<1>1. /\ at' = ret.start /\ at' \in StartReturns /\ prepared' = None /\ options' = None
      /\ UNCHANGED <<ret, cmd, call>>
  BY RouteTypes DEF StartReturn
<1>2. InStart
  BY DEF InStart
<1>3. WayInv'
  BY <1>1, <1>2 DEF RouteInv, WayInv, StartOf, StopOf, InStart, StopPoints, StartPoints,
     StartReturns, WasActive, TunStarts, TunStops, Handoffs, HandoffStops
<1>4. EntryInv'
  BY <1>1, <1>2 DEF RouteInv, EntryInv, StopPoints, StartReturns, StopReturns
<1>5. SelectionInv'
  BY <1>1, <1>2 DEF RouteInv, SelectionInv, Chosen, WasActive, StopOf, StopPoints, StartPoints,
     StartReturns, Launching
<1>6. ClockInv'
  BY <1>1, <1>2 DEF RouteInv, ClockInv, KeepsClock, WasActive, StartOf, StopOf, InStart,
     StopPoints, StartPoints, StartReturns, TunStarts, TunStops
<1>. QED
  BY <1>3, <1>4, <1>5, <1>6 DEF RouteInv

\* startCore stops a kernel that did not answer.
LEMMA TimedOutRoute ==
  ASSUME IInv, RouteInv, at \in StartPoints, CallStop("timedOut"),
         UNCHANGED <<snap, plans, cmd, call, settings>>
  PROVE  RouteInv'
<1>1. at' = "release" /\ ret'.stop = "timedOut" /\ ret'.start = ret.start /\ ret.start \in StartReturns
  BY RouteTypes, CallFields
<1>2. at \in StartPoints /\ InStart /\ InStart'
  BY <1>1 DEF InStart, StopPoints
<1>3. WayInv'
  BY <1>1, <1>2 DEF RouteInv, WayInv, StartOf, StopOf, StopPoints, StartPoints,
     StartReturns, WasActive, TunStarts, TunStops, Handoffs, HandoffStops
<1>4. EntryInv'
  BY <1>1, <1>2 DEF EntryInv, StopPoints, StopReturns
<1>5. SelectionInv'
  BY <1>1, <1>2 DEF RouteInv, SelectionInv, Chosen, WasActive, StopOf, StopPoints, StartPoints,
     Launching, plans, Running
<1>6. ClockInv'
  BY <1>1, <1>2 DEF RouteInv, ClockInv, KeepsClock, WasActive, StartOf, StopOf,
     StopPoints, StartPoints, StartReturns, TunStarts, TunStops, plans, Running
<1>. QED
  BY <1>3, <1>4, <1>5, <1>6 DEF RouteInv

LEMMA StoppingRoute == ASSUME IInv, RouteInv, Stopping PROVE RouteInv'
<1>1. CASE StopChecksProxy \/ StopReleasesProxy
  <2>1. /\ at \in StopPoints /\ at' \in StopPoints
        /\ UNCHANGED <<snap, plans, ret, call, settings>>
        /\ cmd' = cmd \/ \E b : cmd' = [cmd EXCEPT !.blind = b]
    BY <1>1 DEF StopChecksProxy, StopReleasesProxy, StopPoints
  <2>a. /\ cmd'.name = cmd.name /\ cmd'.old = cmd.old /\ cmd'.before = cmd.before
        /\ cmd'.cand = cmd.cand /\ cmd'.prev = cmd.prev
    BY <2>1, RouteTypes, BlindValues
  <2>2. WayInv' /\ EntryInv'
    BY <2>1, <2>a DEF RouteInv, WayInv, EntryInv, StartOf, StopOf, InStart, StopPoints, StartPoints,
       StopReturns, StartReturns, WasActive, TunStarts, TunStops, Handoffs, HandoffStops, Running
  <2>3. SelectionInv' /\ ClockInv'
    BY <2>1, <2>a DEF RouteInv, SelectionInv, ClockInv, KeepsClock, Chosen, WasActive, StartOf, StopOf,
       InStart, StopPoints, StartPoints, Launching, TunStarts, TunStops, plans, Running
  <2>. QED
    BY <2>2, <2>3 DEF RouteInv
<1>2. ASSUME at \in StopPoints, at' = ret.stop, UNCHANGED <<plans, ret, cmd, call, settings>>,
             snap'.state # "Running", snap'.since # 0 <=> snap'.listen
      PROVE  RouteInv'
  <2>1. ret.stop \in StopReturns /\ ~Running' /\ at \in StopPoints
    BY <1>2, RouteTypes DEF Running
  <2>2. WayInv'
    BY <1>2, <2>1 DEF RouteInv, WayInv, StartOf, StopOf, InStart, StopPoints, StartPoints,
       StopReturns, StartReturns, WasActive, TunStarts, TunStops, Handoffs, HandoffStops
  <2>3. EntryInv'
    BY <1>2, <2>1 DEF EntryInv, StopPoints, StopReturns
  <2>4. SelectionInv'
    BY <1>2, <2>1 DEF RouteInv, SelectionInv, Chosen, WasActive, StopOf,
       StopPoints, StartPoints, StopReturns, Launching, plans
  <2>5. at' # "stopped" /\ (StartOf(TunStarts) \/ StopOf(TunStops))'
          => StartOf(TunStarts) \/ StopOf(TunStops)
    BY <1>2, <2>1 DEF StartOf, StopOf, InStart, StopPoints, StartPoints, StopReturns, TunStarts, TunStops
  <2>6. ClockInv'
    BY <1>2, <2>1, <2>5 DEF RouteInv, WayInv, ClockInv, KeepsClock, WasActive, StartOf, StopOf,
       InStart, StopPoints, StartPoints, StopReturns, TunStarts, TunStops, plans
  <2>. QED
    BY <2>2, <2>3, <2>4, <2>6 DEF RouteInv
<1>3. CASE StopService \/ StopUnreachable \/ StopProcess
  <2>1. /\ at \in StopPoints /\ UNCHANGED <<plans, settings>>
        /\ PublishStopped \/ StopFails
    BY <1>3 DEF StopService, StopUnreachable, StopProcess, StopPoints
  <2>2. CASE PublishStopped
    <3>1. PICK e : snap' = Stopped(snap, e)
      BY <2>2 DEF PublishStopped
    <3>2. snap'.state = "Stopped" /\ snap'.since = 0 /\ ~snap'.listen
      BY <3>1, RouteTypes DEF Stopped, Snaps
    <3>3. at' = ret.stop /\ UNCHANGED <<ret, cmd, call>>
      BY <2>2 DEF PublishStopped, StopReturn
    <3>. QED
      BY <1>2, <2>1, <3>2, <3>3
  <2>3. CASE StopFails
    <3>1. snap'.state = "Failed" /\ snap'.since = snap.since /\ snap'.listen = snap.listen
      BY <2>3, RouteTypes, SnapValues, SnapClock DEF StopFails
    <3>2. at' = ret.stop /\ UNCHANGED <<ret, cmd, call>>
      BY <2>3 DEF StopFails, StopReturn
    <3>. QED
      BY <1>2, <2>1, <3>1, <3>2 DEF RouteInv, ClockInv
  <2>. QED
    BY <2>1, <2>2, <2>3
<1>. QED
  BY <1>1, <1>3 DEF Stopping

LEMMA OtherRoute == ASSUME IInv, RouteInv, CheckAlive \/ Environment PROVE RouteInv'
<1>1. ASSUME UNCHANGED <<snap, plans, at, ret, call, settings>>,
             cmd' \in {cmd, [cmd EXCEPT !.alone = FALSE]}
      PROVE  RouteInv'
  <2>1. /\ cmd'.name = cmd.name /\ cmd'.old = cmd.old /\ cmd'.before = cmd.before
        /\ cmd'.cand = cmd.cand /\ cmd'.prev = cmd.prev
    BY <1>1, RouteTypes, CommandFields, CommandValues
  <2>. QED
    BY <1>1, <2>1 DEF RouteInv, WayInv, EntryInv, SelectionInv, ClockInv, KeepsClock, Chosen,
       WasActive, StartOf, StopOf, InStart, Running, plans
<1>2. CASE ProbeBegins \/ ProbeDropped \/ ProbeFindsNoCore
  BY <1>1, <1>2 DEF ProbeBegins, ProbeDropped, ProbeFindsNoCore, frame
<1>3. CASE ProbePublishes
  <2>1. /\ snap' = Failed(snap) /\ at = "idle" /\ at' = "idle"
        /\ UNCHANGED <<plans, ret, cmd, call, settings>>
    BY <1>3 DEF ProbePublishes, frame
  <2>2. snap'.state = "Failed" /\ snap'.since = snap.since /\ snap'.listen = snap.listen
    BY <2>1, RouteTypes, SnapValues, SnapClock
  <2>3. ~Running'
    BY <2>2 DEF Running
  <2>. QED
    BY <2>1, <2>2, <2>3 DEF RouteInv, WayInv, EntryInv, SelectionInv, ClockInv, KeepsClock, Chosen,
       WasActive, StartOf, StopOf, InStart, StopPoints, StartPoints, StopReturns, Launching,
       StartReturns, WasActive, TunStarts, TunStops, Handoffs, HandoffStops, plans
<1>4. CASE EngineDies \/ DaemonServesLate
  BY <1>1, <1>4 DEF EngineDies, DaemonServesLate, frame
<1>5. CASE OthersSetProxy
  BY <1>1, <1>5 DEF OthersSetProxy
<1>. QED
  BY <1>2, <1>3, <1>4, <1>5 DEF CheckAlive, Environment

LEMMA BeginRoute == ASSUME IInv, RouteInv, Begin PROVE RouteInv'
<1>a. at = "idle" => /\ snap.state # "Starting" /\ prepared = None /\ options = None
                     /\ cmd.name = "none" /\ ret.start = "started"
  BY DEF IInv, ControlInv, StartingInv, PreparedInv, Launching, StopPoints, RouteInv, WayInv
<1>b. /\ snap.since # 0 <=> snap.listen
      /\ at = "idle" /\ Running => applied.main = settings.main
      /\ Running => applied # None /\ snap.listen = applied.listen /\ lastMain = applied.main
  BY <1>a DEF IInv, ControlInv, LiveInv, RouteInv, ClockInv, SelectionInv, Chosen
\* startCore is called at once, with the selected profile.
<1>c. ASSUME NEW n \in {"ready", "cli"}, Enter(n, FALSE, None), NEW c, CallStart(c, "started"),
             c.main = settings.main,
             UNCHANGED <<snap, applied, settings>>
      PROVE  RouteInv'
  <2>1. /\ at = "idle" /\ cmd'.name = n /\ cmd'.before = View(snap) /\ cmd'.prev = None
        /\ at' = "check" /\ ret'.start = "started" /\ call' = c
    BY <1>c, EnterFields, CallFields, RouteTypes
  <2>2. /\ cmd'.before.state # "Starting" /\ (cmd'.before.since # 0 <=> cmd'.before.listen)
    BY <1>a, <1>b, <2>1, ViewFields
  <2>3. WayInv' /\ EntryInv'
    BY <2>1 DEF WayInv, EntryInv, StartOf, StopOf, InStart, StopPoints, StartPoints, StopReturns,
       StartReturns, WasActive, TunStarts, TunStops, Handoffs, HandoffStops
  <2>4. SelectionInv' /\ ClockInv'
    BY <1>b, <1>c, <2>1, <2>2 DEF SelectionInv, ClockInv, KeepsClock, Chosen, WasActive, StartOf, StopOf,
       InStart, StopPoints, StartPoints, Launching, TunStarts, TunStops, Running
  <2>. QED
    BY <2>3, <2>4 DEF RouteInv
<1>d. ASSUME NEW n \in {"connect", "restart", "select"}, NEW b, NEW p, Propose(n, b, p),
             n # "select" => p.main = settings.main
      PROVE  RouteInv'
  <2>1. /\ at = "idle" /\ cmd'.name = n /\ cmd'.before = View(snap) /\ cmd'.prev = None
        /\ cmd'.cand = p /\ cmd'.old = settings.main /\ at' = "prepare"
        /\ UNCHANGED <<snap, plans, settings, ret, call>>
    BY <1>d, EnterFields DEF Propose
  <2>2. /\ cmd'.before.state # "Starting" /\ (cmd'.before.since # 0 <=> cmd'.before.listen)
        /\ View(snap)' = View(snap)
    BY <1>a, <1>b, <2>1, ViewFields
  <2>3. WayInv' /\ EntryInv'
    BY <1>a, <2>1, <2>2 DEF WayInv, EntryInv, StartOf, StopOf, InStart, StopPoints, StartPoints, StopReturns,
       StartReturns, WasActive, TunStarts, TunStops, Handoffs, HandoffStops
  <2>4. SelectionInv' /\ ClockInv'
    BY <1>a, <1>b, <1>d, <2>1, <2>2 DEF SelectionInv, ClockInv, KeepsClock, Chosen, WasActive, StartOf, StopOf,
       InStart, StopPoints, StartPoints, Launching, TunStarts, TunStops, Running, plans
  <2>. QED
    BY <2>3, <2>4 DEF RouteInv
<1>1. CASE StartReadyCore
  BY <1>1, <1>c, StartArgsMain DEF StartReadyCore
<1>2. CASE CliStart
  <2>1. settings.main \in Mains
    BY RouteTypes, SettingsTypes
  <2>2. [StartArgs(settings.main, FALSE, "keep") EXCEPT !.detached = TRUE].main = settings.main
    BY <2>1, CallTypes
  <2>. QED
    BY <1>2, <1>c, <2>2 DEF CliStart, plans
<1>3. CASE ConnectProxy
  BY <1>3, <1>d DEF ConnectProxy
<1>4. CASE RestartCore
  BY <1>4, <1>d DEF RestartCore
<1>5. CASE ApplyMainProfile
  BY <1>5, <1>d DEF ApplyMainProfile
<1>6. CASE Stop
  <2>1. /\ at = "idle" /\ cmd'.name = "stop" /\ cmd'.before = View(snap) /\ cmd'.prev = None
        /\ at' = "release" /\ ret'.stop = "stopped" /\ ret'.start = "started"
        /\ UNCHANGED <<snap, plans, settings, call>>
    BY <1>6, <1>a, EnterFields, CallFields, RouteTypes DEF Stop
  <2>2. /\ cmd'.before.state # "Starting" /\ (cmd'.before.since # 0 <=> cmd'.before.listen)
    BY <1>a, <1>b, <2>1, ViewFields
  <2>3. WayInv' /\ EntryInv'
    BY <2>1 DEF WayInv, EntryInv, StartOf, StopOf, InStart, StopPoints, StartPoints, StopReturns,
       StartReturns, WasActive, TunStarts, TunStops, Handoffs, HandoffStops
  <2>4. SelectionInv' /\ ClockInv'
    BY <1>b, <2>1, <2>2 DEF SelectionInv, ClockInv, KeepsClock, Chosen, WasActive, StartOf, StopOf,
       InStart, StopPoints, StartPoints, Launching, TunStarts, TunStops, Running, plans
  <2>. QED
    BY <2>3, <2>4 DEF RouteInv
<1>7. CASE ApplyTun
  <2>1. PICK b \in BOOLEAN :
          /\ Enter("tun", b, None) /\ settings' = [settings EXCEPT !.tun = b]
          /\ IF Running /\ snap.listen
             THEN CallStop("tunStopped") /\ UNCHANGED call
             ELSE at' = "stopped" /\ UNCHANGED <<ret, call, ok, cleanup>>
          /\ UNCHANGED <<snap, plans, owner, kernel, proxy, probe>>
    BY <1>7 DEF ApplyTun
  <2>2. /\ at = "idle" /\ cmd'.name = "tun" /\ cmd'.before = View(snap) /\ cmd'.prev = None
        /\ settings'.main = settings.main /\ UNCHANGED <<snap, plans, call>>
    BY <2>1, EnterFields, RouteTypes, SettingsFields
  <2>3. /\ cmd'.before.state # "Starting" /\ (cmd'.before.since # 0 <=> cmd'.before.listen)
        /\ cmd'.before.state = snap.state /\ cmd'.before.listen = snap.listen
    BY <1>a, <1>b, <2>2, ViewFields
  <2>4. CASE Running /\ snap.listen
    <3>1. at' = "release" /\ ret'.stop = "tunStopped" /\ ret'.start = "started"
      BY <1>a, <2>1, <2>2, <2>4, CallFields, RouteTypes
    <3>2. WayInv' /\ EntryInv'
      BY <2>2, <3>1 DEF WayInv, EntryInv, StartOf, StopOf, InStart, StopPoints, StartPoints,
         StopReturns, StartReturns, WasActive, TunStarts, TunStops, Handoffs, HandoffStops
    <3>3. SelectionInv' /\ ClockInv'
      BY <1>a, <1>b, <2>2, <2>3, <2>4, <3>1 DEF SelectionInv, ClockInv, KeepsClock, Chosen, WasActive,
         StartOf, StopOf, InStart, StopPoints, StartPoints, Launching, TunStarts, TunStops,
         Running, plans
    <3>. QED
      BY <3>2, <3>3 DEF RouteInv
  <2>5. CASE ~(Running /\ snap.listen)
    <3>1. at' = "stopped" /\ UNCHANGED ret
      BY <2>1, <2>5
    <3>2. WayInv' /\ EntryInv'
      BY <1>a, <2>2, <3>1 DEF WayInv, EntryInv, StartOf, StopOf, InStart, StopPoints, StartPoints,
         StopReturns, StartReturns, WasActive, TunStarts, TunStops, Handoffs, HandoffStops
    <3>3. SelectionInv' /\ ClockInv'
      BY <1>a, <1>b, <2>2, <2>3, <2>5, <3>1 DEF SelectionInv, ClockInv, KeepsClock, Chosen, WasActive,
         StartOf, StopOf, InStart, StopPoints, StartPoints, Launching, TunStarts, TunStops,
         Running, plans
    <3>. QED
      BY <3>2, <3>3 DEF RouteInv
  <2>. QED
    BY <2>4, <2>5
<1>8. CASE DisableSystemProxy \/ EnableSystemProxy
  <2>1. /\ at = "idle" /\ snap' \in {snap, Erred(snap)} /\ UNCHANGED <<plans, frame>>
        /\ settings' \in {settings} \cup {[settings EXCEPT !.proxy = b] : b \in BOOLEAN}
    BY <1>8 DEF DisableSystemProxy, EnableSystemProxy
  <2>2. /\ snap'.state = snap.state /\ snap'.since = snap.since /\ snap'.listen = snap.listen
        /\ settings'.main = settings.main
    <3>1. snap'.state = snap.state /\ snap'.since = snap.since /\ snap'.listen = snap.listen
      <4>1. snap \in Snaps
        BY RouteTypes
      <4>. QED
        BY <2>1, <4>1, ErredFields
    <3>2. settings'.main = settings.main
      <4>1. settings \in Settings
        BY RouteTypes
      <4>. QED
        BY <2>1, <4>1 DEF Settings
    <3>. QED
      BY <3>1, <3>2
  <2>3. UNCHANGED <<at, ret, cmd, call>>
    BY <2>1 DEF frame
  <2>4. WayInv' /\ EntryInv'
    BY <2>1, <2>2, <2>3 DEF RouteInv, WayInv, EntryInv, StartOf, StopOf, InStart, StopPoints,
       StartPoints, StopReturns, Running
  <2>5. SelectionInv' /\ ClockInv'
    BY <2>1, <2>2, <2>3 DEF RouteInv, SelectionInv, ClockInv, KeepsClock, Chosen, WasActive,
       StartOf, StopOf, InStart, Running, plans
  <2>. QED
    BY <2>4, <2>5 DEF RouteInv
<1>. QED
  BY <1>1, <1>2, <1>3, <1>4, <1>5, <1>6, <1>7, <1>8 DEF Begin

LEMMA StartingRoute == ASSUME IInv, RouteInv, Starting PROVE RouteInv'
<1>a. /\ at \in Launching => snap.state = "Starting"
      /\ at \in StartPoints \ Launching => snap.state # "Starting"
      /\ at \in StartPoints \ {"check", "plan"} => prepared = None /\ options = None
  BY DEF IInv, ControlInv, StartingInv, PreparedInv, Launching, StopPoints, StartPoints
<1>b. ASSUME at \in StartPoints \cup {"timedOut"}, Fail, UNCHANGED <<applied, lastMain, settings>>
      PROVE  RouteInv'
  <2>1. StartReturn /\ snap'.state = "Failed" /\ snap'.since = snap.since /\ snap'.listen = snap.listen
    BY <1>b, RouteTypes, SnapValues, SnapClock DEF Fail
  <2>. QED
    BY <1>b, <2>1, StartReturnRoute DEF Running
<1>c. ASSUME at = "launch", Launched, UNCHANGED <<applied, file, lastMain, settings>>
      PROVE  RouteInv'
  <2>1. at' = "await" /\ UNCHANGED <<snap, prepared, options, ret, cmd, call>>
    BY <1>c DEF Launched
  <2>2. WayInv' /\ EntryInv'
    BY <1>c, <2>1 DEF RouteInv, WayInv, EntryInv, StartOf, StopOf, InStart, StopPoints, StartPoints,
       StopReturns, StartReturns, WasActive, TunStarts, TunStops, Handoffs, HandoffStops
  <2>3. SelectionInv' /\ ClockInv'
    BY <1>c, <2>1 DEF RouteInv, SelectionInv, ClockInv, KeepsClock, Chosen, WasActive, StartOf, StopOf,
       InStart, StopPoints, StartPoints, Launching, TunStarts, TunStops, Running
  <2>. QED
    BY <2>2, <2>3 DEF RouteInv
<1>1. CASE StartRefused
  BY <1>1, <1>b DEF StartRefused, StartPoints
<1>2. CASE StartBegins
  <2>1. at = "check" /\ snap.state # "Starting"
    BY <1>2, <1>a DEF StartBegins, StartPoints, Launching
  <2>2. /\ snap' = [snap EXCEPT !.state = "Starting", !.err = FALSE]
        /\ lastMain' = call.main /\ at' = "plan"
        /\ UNCHANGED <<prepared, options, ret, cmd, call, applied, file, settings>>
    BY <1>2, <2>1 DEF StartBegins
  <2>3. snap'.state = "Starting" /\ snap'.since = snap.since /\ snap'.listen = snap.listen
    BY <2>2, RouteTypes, SnapValues, SnapClock
  <2>4. InStart /\ InStart' /\ at \in StartPoints
    BY <2>1, <2>2 DEF InStart, StartPoints
  <2>5. cmd.name = "tun" => call.main = settings.main
    BY <2>4 DEF RouteInv, SelectionInv, Chosen
  <2>6. WayInv' /\ EntryInv'
    BY <2>1, <2>2, <2>4 DEF RouteInv, WayInv, EntryInv, StartOf, StopOf, StopPoints, StartPoints,
       StopReturns, StartReturns, WasActive, TunStarts, TunStops, Handoffs, HandoffStops
  <2>7. SelectionInv' /\ ClockInv'
    BY <2>1, <2>2, <2>3, <2>4, <2>5 DEF RouteInv, SelectionInv, ClockInv, KeepsClock, Chosen, WasActive,
       StartOf, StopOf, StopPoints, StartPoints, Launching, TunStarts, TunStops, Running
  <2>. QED
    BY <2>6, <2>7 DEF RouteInv
<1>3. CASE PlanFails
  BY <1>3, <1>b DEF PlanFails, StartPoints
<1>4. CASE CommitPlan
  <2>1. /\ at = "plan" /\ at' = "launch" /\ file' = PlanToRun /\ prepared' = None
        /\ options' = (IF prepared # None THEN options ELSE None)
        /\ UNCHANGED <<snap, applied, ret, cmd, call, lastMain, settings>>
    BY <1>4 DEF CommitPlan
  <2>2. snap.state = "Starting" /\ options' = None
    BY <2>1, <1>a DEF IInv, ControlInv, PreparedInv, Launching
  <2>3. InStart /\ InStart' /\ at \in StartPoints
    BY <2>1 DEF InStart, StartPoints
  <2>4. KeepsClock => file'.listen
    BY <2>1, <2>3 DEF PlanToRun, RouteInv, ClockInv, KeepsClock, StartOf
  <2>5. WayInv' /\ EntryInv'
    BY <2>1, <2>3 DEF RouteInv, WayInv, EntryInv, StartOf, StopOf, StopPoints, StartPoints,
       StopReturns, StartReturns, WasActive, TunStarts, TunStops, Handoffs, HandoffStops
  <2>6. SelectionInv'
    BY <2>1, <2>2 DEF RouteInv, SelectionInv, Chosen, WasActive, StopOf, StopPoints, StartPoints,
       Launching, Running
  <2>7. ClockInv'
    BY <2>1, <2>2, <2>3, <2>4 DEF RouteInv, ClockInv, KeepsClock, WasActive, StartOf, StopOf,
       StopPoints, StartPoints, TunStarts, TunStops, Running
  <2>. QED
    BY <2>5, <2>6, <2>7 DEF RouteInv
<1>5. CASE ServiceStartOk \/ Adopt \/ Spawn
  BY <1>5, <1>c DEF ServiceStartOk, Adopt, Spawn
<1>6. CASE ServiceStartFails \/ SpawnFails
  BY <1>6, <1>b DEF ServiceStartFails, SpawnFails, StartPoints
<1>7. CASE AwaitExited
  BY <1>7, <1>b DEF AwaitExited, StartPoints
<1>8. CASE AwaitRepairs
  <2>1. /\ at = "await" /\ at' = "check" /\ call' = [call EXCEPT !.repair = FALSE]
        /\ snap' = [snap EXCEPT !.state = "Stopped", !.err = FALSE]
        /\ UNCHANGED <<plans, ret, cmd, settings>>
    BY <1>8 DEF AwaitRepairs
  <2>2. snap'.state = "Stopped" /\ snap'.since = snap.since /\ snap'.listen = snap.listen
    BY <2>1, RouteTypes, SnapValues, SnapClock
  <2>3. call'.main = call.main
    BY <2>1, CallTypes DEF IInv, TypeOK
  <2>4. InStart /\ InStart' /\ at \in StartPoints /\ prepared = None /\ options = None
    BY <2>1, <1>a DEF InStart, StartPoints
  <2>5. WayInv' /\ EntryInv'
    BY <2>1, <2>4 DEF RouteInv, WayInv, EntryInv, StartOf, StopOf, StopPoints, StartPoints,
       StopReturns, StartReturns, WasActive, TunStarts, TunStops, Handoffs, HandoffStops
  <2>6. SelectionInv'
    BY <2>1, <2>2, <2>3, <2>4 DEF RouteInv, SelectionInv, Chosen, WasActive, StopOf, StopPoints,
       StartPoints, Launching, Running, plans
  <2>7. ClockInv'
    BY <2>1, <2>2, <2>4 DEF RouteInv, ClockInv, KeepsClock, WasActive, StartOf, StopOf,
       StopPoints, StartPoints, TunStarts, TunStops, Running, plans
  <2>. QED
    BY <2>5, <2>6, <2>7 DEF RouteInv
<1>9. CASE AwaitTimesOut \/ ModeRefused
  BY <1>9, TimedOutRoute DEF AwaitTimesOut, ModeRefused, StartPoints
<1>10. CASE AwaitReady
  <2>1. /\ at = "await" /\ at' = "mode" /\ applied' = file /\ snap' = Ready(snap, file)
        /\ UNCHANGED <<file, prepared, options, lastMain, ret, cmd, call, settings>>
    BY <1>10 DEF AwaitReady
  <2>2. file \in Plans /\ file.main = lastMain
    BY <2>1 DEF IInv, TypeOK, ControlInv, CommittedInv
  <2>3. snap'.listen = file.listen /\ (snap'.since # 0 <=> snap'.listen)
    <3>1. snap \in Snaps
      BY RouteTypes
    <3>2. Ready(snap, file).listen = file.listen
      BY <3>1, SnapValues
    <3>3. Ready(snap, file).since # 0 <=> file.listen
      BY <2>2, <3>1, SnapClock
    <3>. QED
      BY <2>1, <3>2, <3>3
  <2>4. InStart /\ InStart' /\ at \in StartPoints /\ prepared = None /\ options = None
    BY <2>1, <1>a DEF InStart, StartPoints
  <2>5. lastMain = call.main
    BY <2>1 DEF RouteInv, SelectionInv, Launching
  \* A profile switch starts kernels only through its handoff.
  <2>6. call.main = IF ret.start = "handoffStarted" THEN settings.main ELSE Chosen
    <3>1. ret.start \in StartReturns
      BY RouteTypes
    <3>2. ret.start \notin Handoffs => cmd.name # "select"
      BY <2>4, <3>1 DEF RouteInv, WayInv, StartOf, StartReturns, Handoffs, TunStarts
    <3>. QED
      BY <2>4, <3>2 DEF RouteInv, SelectionInv, Chosen, Handoffs
  <2>7. WayInv' /\ EntryInv'
    BY <2>1, <2>4 DEF RouteInv, WayInv, EntryInv, StartOf, StopOf, StopPoints, StartPoints,
       StopReturns, StartReturns, WasActive, TunStarts, TunStops, Handoffs, HandoffStops
  <2>8. SelectionInv'
    BY <2>1, <2>2, <2>4, <2>5, <2>6 DEF RouteInv, SelectionInv, Chosen, WasActive, StopOf, StopPoints,
       StartPoints, Launching
  <2>9. ClockInv'
    BY <2>1, <2>3, <2>4 DEF RouteInv, ClockInv, KeepsClock, WasActive, StartOf, StopOf,
       StopPoints, StartPoints, TunStarts, TunStops
  <2>. QED
    BY <2>7, <2>8, <2>9 DEF RouteInv
<1>11. ASSUME at \in {"mode", "proxy"}, at' \in {"proxy", "take"},
              UNCHANGED <<snap, plans, ret, cmd, call, settings>>
       PROVE  RouteInv'
  <2>1. WayInv' /\ EntryInv'
    BY <1>11 DEF RouteInv, WayInv, EntryInv, StartOf, StopOf, InStart, StopPoints, StartPoints,
       StopReturns, StartReturns, WasActive, TunStarts, TunStops, Handoffs, HandoffStops
  <2>2. SelectionInv' /\ ClockInv'
    BY <1>11 DEF RouteInv, SelectionInv, ClockInv, KeepsClock, Chosen, WasActive, StartOf, StopOf,
       InStart, StopPoints, StartPoints, Launching, TunStarts, TunStops, Running, plans
  <2>. QED
    BY <2>1, <2>2 DEF RouteInv
<1>12. CASE ModeReconciled
  BY <1>11, <1>12 DEF ModeReconciled
<1>13. CASE StartTimedOut
  BY <1>13, <1>b DEF StartTimedOut
<1>14. ASSUME at \in StartPoints, StartReturn,
              snap' \in {snap, Erred(snap)} \/ (snap.state = "Starting" /\ snap' = Failed(snap)),
              UNCHANGED <<applied, lastMain, settings>>
       PROVE  RouteInv'
  <2>1. snap \in Snaps
    BY RouteTypes
  <2>2. /\ snap'.since = snap.since /\ snap'.listen = snap.listen
        /\ snap'.state \in {snap.state, "Failed"}
    <3>1. CASE snap' \in {snap, Erred(snap)}
      BY <2>1, <3>1, ErredFields
    <3>2. CASE snap' = Failed(snap)
      BY <2>1, <3>2, SnapValues, SnapClock
    <3>. QED
      BY <1>14, <3>1, <3>2
  <2>. QED
    BY <1>14, <2>2, StartReturnRoute DEF Running
<1>15. CASE StartProxy
  <2>1. /\ at = "proxy" /\ UNCHANGED <<applied, file, lastMain, settings>>
        /\ \/ at' = "take" /\ UNCHANGED <<snap, prepared, options, ret, cmd, call>>
           \/ snap' \in {snap, Erred(snap)} /\ StartReturn
    BY <1>15 DEF StartProxy
  <2>. QED
    BY <1>11, <1>14, <2>1 DEF StartPoints, plans
<1>16. CASE StartTakesProxy
  BY <1>16, <1>14 DEF StartTakesProxy, StartPoints
<1>17. CASE StartThrows
  BY <1>17, <1>14 DEF StartThrows
<1>. QED
  BY <1>1, <1>2, <1>3, <1>4, <1>5, <1>6, <1>7, <1>8, <1>9, <1>10, <1>12, <1>13, <1>15, <1>16, <1>17
  DEF Starting

\* An operation ends without having started or stopped a kernel, or after a stop.
LEMMA QuietDone ==
  ASSUME IInv, RouteInv, Done, snap'.state = snap.state,
         snap'.since = snap.since, snap'.listen = snap.listen, applied' = applied,
         Running => applied.main = settings'.main
  PROVE  RouteInv'
BY DoneRoute DEF Running, RouteInv, ClockInv

LEMMA DeselectMain == ASSUME IInv, Deselect PROVE settings'.main = Chosen
BY RouteTypes, SettingsFields DEF Deselect, Chosen

LEMMA ReconfigureRoute == ASSUME IInv, RouteInv, Reconfigure PROVE RouteInv'
<1>a. Running => applied # None /\ snap.listen = applied.listen /\ lastMain = applied.main
  BY DEF IInv, ControlInv, LiveInv
<1>b. snap \in Snaps /\ cmd \in Commands /\ settings \in Settings
  BY RouteTypes
<1>c. at \notin StartPoints \cup StopPoints => snap.state # "Starting" /\ prepared = None /\ options = None
  BY DEF IInv, ControlInv, StartingInv, PreparedInv, Launching, StopPoints, StartPoints
\* The running kernel is stopped; what was selected and entered with stays.
<1>d. ASSUME NEW r \in {"handoffStopped", "rollbackStopped", "tunBackStopped"}, CallStop(r),
             at = CASE r = "handoffStopped" -> "handoff"
                    [] r = "rollbackStopped" -> "handoffStarted"
                    [] OTHER -> "tunStarted",
             r # "handoffStopped" => ~Running,
             r = "rollbackStopped" => WasActive,
             snap'.state = snap.state, snap'.since = snap.since, snap'.listen = snap.listen,
             UNCHANGED <<plans, call>>, settings'.main = settings.main,
             cmd'.name = cmd.name, cmd'.old = cmd.old, cmd'.before = cmd.before,
             cmd'.cand = cmd.cand,
             cmd'.prev = IF r = "handoffStopped" THEN applied ELSE cmd.prev
      PROVE  RouteInv'
  <2>1. at' = "release" /\ ret'.stop = r /\ ret'.start = ret.start
    BY <1>d, CallFields, RouteTypes
  <2>2. /\ at \notin StartPoints \cup StopPoints /\ prepared = None /\ options = None
    BY <1>c, <1>d DEF StartPoints, StopPoints
  <2>3. WayInv' /\ EntryInv'
    BY <1>d, <2>1 DEF RouteInv, WayInv, EntryInv, StartOf, StopOf, InStart, StopPoints, StartPoints,
       StopReturns, StartReturns, WasActive, TunStarts, TunStops, Handoffs, HandoffStops, Running
  \* What runs when the handoff begins is what the operation found running.
  <2>4. r = "handoffStopped" /\ WasActive => /\ Running /\ applied.main = Chosen
                                            /\ cmd.before.listen = applied.listen
    BY <1>a, <1>c, <1>d, <2>2, ViewFields DEF RouteInv, WayInv, EntryInv, SelectionInv, WasActive, Running
  <2>5. SelectionInv'
    BY <1>d, <2>1, <2>4 DEF RouteInv, WayInv, SelectionInv, Chosen, WasActive, StopOf, StopPoints,
       StartOf, StartPoints, TunStarts, Launching, Running, plans
  <2>6. ClockInv'
    BY <1>d, <2>1, <2>2, <2>4 DEF RouteInv, WayInv, ClockInv, KeepsClock, WasActive, StartOf, StopOf,
       InStart, StopPoints, StartPoints, TunStarts, TunStops, Running, plans
  <2>. QED
    BY <2>3, <2>5, <2>6 DEF RouteInv
\* startCore is called with the selected profile, or with the previous plan's.
<1>e. ASSUME NEW r \in Handoffs \cup TunStarts \cup {"connected"}, NEW c, CallStart(c, r),
             c.main = (IF r = "restoreDone" THEN Chosen ELSE settings.main),
             ~Running, at \notin StartPoints \cup StopPoints,
             r \in Handoffs => cmd.name \in {"connect", "restart", "select"},
             r \in TunStarts => /\ cmd.name = "tun" /\ cmd.before.listen /\ prepared' = None
                                /\ lastMain = settings.main,
             r = "connected" => cmd.name = "connect",
             r # "restoreDone" => options' = None,
             r = "restoreDone" => /\ prepared' = None
                                  /\ cmd.before.listen => options'.listen,
             UNCHANGED <<snap, applied, file, lastMain, cmd, settings>>
      PROVE  RouteInv'
  <2>1. at' = "check" /\ ret'.start = r /\ call' = c
    BY <1>e, CallFields, RouteTypes
  <2>2. WayInv' /\ EntryInv'
    BY <1>e, <2>1 DEF RouteInv, WayInv, EntryInv, StartOf, StopOf, InStart, StopPoints, StartPoints,
       StopReturns, StartReturns, WasActive, TunStarts, TunStops, Handoffs, HandoffStops
  <2>3. SelectionInv'
    BY <1>e, <2>1 DEF RouteInv, SelectionInv, Chosen, WasActive, StopOf, StopPoints,
       StartPoints, TunStarts, Handoffs, Launching, Running
  <2>4. ClockInv'
    BY <1>e, <2>1 DEF RouteInv, ClockInv, KeepsClock, WasActive, StartOf, StopOf,
       InStart, StopPoints, StartPoints, TunStarts, TunStops, Handoffs, Running
  <2>. QED
    BY <2>2, <2>3, <2>4 DEF RouteInv
<1>1. CASE CandidateRefused
  <2>1. /\ at = "prepare" /\ snap' \in {snap, Erred(snap)} /\ Done /\ UNCHANGED <<plans, settings>>
    BY <1>1 DEF CandidateRefused
  <2>2. Running => applied.main = settings.main
    BY <2>1 DEF RouteInv, WayInv, SelectionInv, Chosen
  <2>. QED
    BY <1>b, <2>1, <2>2, ErredFields, QuietDone DEF plans
<1>2. CASE CandidateAccepted
  <2>1. /\ at = "prepare" /\ ret.start = "started" /\ cmd.name \in {"connect", "restart", "select"}
        /\ cmd.before.state = snap.state /\ settings.main = cmd.old
        /\ cmd.name # "select" => cmd.cand.main = settings.main
        /\ prepared = None /\ options = None
        /\ UNCHANGED <<snap, applied, file, options, lastMain>>
    BY <1>2, <1>c, ViewFields DEF CandidateAccepted, RouteInv, WayInv, EntryInv, SelectionInv,
                                  StartPoints, StopPoints
  <2>2. /\ settings'.main = cmd.cand.main
        /\ cmd.name # "select" => settings' = settings
    <3>1. settings' = IF cmd.name = "select" THEN [settings EXCEPT !.main = cmd.cand.main]
                                             ELSE settings
      BY <1>2 DEF CandidateAccepted
    <3>. QED
      BY <1>b, <2>1, <3>1, SettingsFields
  <2>3. CASE cmd.name = "connect" /\ cmd.before.state # "Running"
    <3>1. /\ CallStart(StartArgs(cmd.cand.main, settings.tun, TakeOrDrop(settings.proxy)), "connected")
          /\ cmd' = cmd
      BY <1>2, <2>3 DEF CandidateAccepted
    <3>. QED
      BY <1>e, <2>1, <2>2, <2>3, <3>1, StartArgsMain
      DEF Running, StartPoints, StopPoints, Handoffs, TunStarts
  <2>4. CASE cmd.name = "select" /\ cmd.before.state # "Running"
    <3>1. Done
      BY <1>2, <2>4 DEF CandidateAccepted
    <3>. QED
      BY <2>1, <2>4, <3>1, QuietDone DEF Running
  <2>5. CASE cmd.before.state = "Running"  \/ cmd.name = "restart"
    <3>1. Handoff /\ cmd' \in {cmd, [cmd EXCEPT !.proxy = settings.proxy]}
      BY <1>2, <2>1, <2>5 DEF CandidateAccepted, Handoff
    <3>2. /\ cmd'.name = cmd.name /\ cmd'.old = cmd.old /\ cmd'.before = cmd.before
          /\ cmd'.cand = cmd.cand /\ cmd'.prev = cmd.prev
      BY <1>b, <3>1 DEF Commands
    <3>3. at' = "handoff" /\ UNCHANGED <<ret, call, prepared>>
      BY <3>1 DEF Handoff
    <3>4. Chosen' = Chosen
      BY <2>2, <3>2 DEF Chosen
    <3>5. View(snap)' = View(snap) /\ cmd.before = View(snap)
      BY <2>1 DEF RouteInv, EntryInv, View
    <3>6. WayInv' /\ EntryInv'
      BY <2>1, <3>2, <3>3, <3>5 DEF RouteInv, WayInv, EntryInv, StartOf, StopOf, InStart, StopPoints,
         StartPoints, StopReturns, StartReturns, WasActive, TunStarts, TunStops, Handoffs, HandoffStops
    <3>7. SelectionInv'
      BY <2>1, <2>2, <3>2, <3>3, <3>4 DEF RouteInv, SelectionInv, WasActive, StopOf, StopPoints,
         StartPoints, Launching, Running
    <3>8. ClockInv'
      BY <2>1, <3>2, <3>3 DEF RouteInv, ClockInv, KeepsClock, WasActive, StartOf, StopOf,
         InStart, StopPoints, StartPoints, TunStarts, TunStops, Running
    <3>. QED
      BY <3>6, <3>7, <3>8 DEF RouteInv
  <2>. QED
    BY <2>1, <2>3, <2>4, <2>5
<1>3. CASE SkipHandoff
  <2>1. /\ at = "handoff" /\ ret.start = "started" /\ Done /\ UNCHANGED <<snap, plans>>
        /\ \/ cmd.name = "restart" /\ settings' = settings
           \/ Deselect
    BY <1>3 DEF SkipHandoff, RouteInv, WayInv
  <2>2. settings'.main = Chosen
    BY <2>1, DeselectMain DEF Chosen
  <2>. QED
    BY <2>1, <2>2, QuietDone DEF plans, RouteInv, SelectionInv
<1>4. CASE BeginHandoff
  <2>1. /\ at = "handoff" /\ cmd' = [cmd EXCEPT !.prev = applied] /\ CallStop("handoffStopped")
        /\ UNCHANGED <<snap, plans, call, settings>>
    BY <1>4 DEF BeginHandoff
  <2>2. /\ cmd'.name = cmd.name /\ cmd'.old = cmd.old /\ cmd'.before = cmd.before
        /\ cmd'.cand = cmd.cand /\ cmd'.prev = applied
    BY <1>b, <2>1, CommandFields, CommandValues
  <2>. QED
    BY <1>d, <2>1, <2>2
<1>5. CASE HandoffStopped
  <2>1. /\ at = "handoffStopped" /\ ~Running /\ prepared = None /\ options = None
        /\ cmd.name \in {"connect", "restart", "select"} /\ cmd.cand.main = settings.main
        /\ UNCHANGED <<snap, applied, file, options, lastMain>>
    BY <1>5, <1>c DEF HandoffStopped, StartPoints, StopPoints, StopReturns, RouteInv, WayInv, EntryInv,
                      SelectionInv, StopOf, HandoffStops
  <2>2. CASE ok
    <3>1. /\ CallStart(StartArgs(cmd.cand.main, cmd.before.tun, TakeIf(cmd.proxy)), "handoffStarted")
          /\ UNCHANGED <<cmd, settings>>
      BY <1>5, <2>2 DEF HandoffStopped
    <3>. QED
      BY <1>e, <2>1, <3>1, StartArgsMain DEF StartPoints, StopPoints, Handoffs, TunStarts
  <2>3. CASE ~ok
    <3>1. Done
      BY <1>5, <2>3 DEF HandoffStopped
    <3>. QED
      BY <2>1, <3>1, QuietDone
  <2>. QED
    BY <2>2, <2>3
<1>6. CASE HandoffStarted
  <2>1. at = "handoffStarted" /\ UNCHANGED <<plans, settings>>
    BY <1>6 DEF HandoffStarted
  <2>2. CASE Running
    <3>1. /\ Done
          /\ snap' = IF cmd.before.listen /\ snap.listen
                     THEN [snap EXCEPT !.since = cmd.before.since] ELSE snap
      BY <1>6, <2>2 DEF HandoffStarted
    <3>2. snap'.since # 0 <=> snap'.listen
      BY <1>b, <3>1, SnapClock DEF RouteInv, ClockInv
    <3>3. applied.main = settings.main
      BY <2>1, <2>2 DEF RouteInv, WayInv, SelectionInv, StartReturns
    <3>. QED
      BY <2>1, <3>1, <3>2, <3>3, DoneRoute DEF plans
  <2>3. CASE ~Running
    <3>1. /\ snap' = snap /\ cmd' = cmd /\ call' = call
          /\ \/ CallStop("rollbackStopped") /\ WasActive
             \/ at' = "restoreDone" /\ ret' = ret
      BY <1>6, <2>3 DEF HandoffStarted
    <3>2. CASE CallStop("rollbackStopped") /\ WasActive
      BY <1>d, <2>1, <2>3, <3>1, <3>2
    <3>3. CASE at' = "restoreDone" /\ ret' = ret
      <4>1. WayInv' /\ EntryInv'
        BY <2>1, <2>3, <3>1, <3>3 DEF RouteInv, WayInv, EntryInv, StartOf, StopOf, InStart, StopPoints,
           StartPoints, StopReturns, StartReturns, WasActive, TunStarts, TunStops, Handoffs, HandoffStops, Running
      <4>2. SelectionInv' /\ ClockInv'
        BY <2>1, <2>3, <3>1, <3>3 DEF RouteInv, SelectionInv, ClockInv, KeepsClock, Chosen, WasActive,
           StartOf, StopOf, InStart, StopPoints, StartPoints, Launching, TunStarts, TunStops,
           Running, plans
      <4>. QED
        BY <4>1, <4>2 DEF RouteInv
    <3>. QED
      BY <3>1, <3>2, <3>3
  <2>. QED
    BY <2>2, <2>3
<1>7. CASE RollbackStopped
  <2>1. /\ at = "rollbackStopped" /\ ~Running /\ prepared = None /\ options = None
        /\ cmd.name \in {"connect", "restart", "select"} /\ cmd.prev # None
        /\ UNCHANGED <<cmd, snap, applied, file, prepared, lastMain, settings>>
    BY <1>7, <1>c DEF RollbackStopped, StartPoints, StopPoints, StopReturns, RouteInv, WayInv, EntryInv,
                      StopOf, HandoffStops, IInv, ControlInv, CandidateInv
  <2>2. CASE ok
    <3>1. /\ CallStart(StartArgs(cmd.prev.main, cmd.prev.tun, TakeIf(cmd.proxy)), "restoreDone")
          /\ options' = cmd.prev
      BY <1>7, <2>2 DEF RollbackStopped
    <3>2. cmd.prev.main = Chosen /\ cmd.prev.listen = cmd.before.listen
      BY <2>1 DEF RouteInv, WayInv, SelectionInv, ClockInv, StopOf
    <3>. QED
      BY <1>e, <2>1, <3>1, <3>2, StartArgsMain DEF StartPoints, StopPoints, Handoffs, TunStarts
  <2>3. CASE ~ok
    <3>1. at' = "restoreDone" /\ UNCHANGED <<options, ret, call>>
      BY <1>7, <2>3 DEF RollbackStopped
    <3>2. WayInv' /\ EntryInv'
      BY <2>1, <3>1 DEF RouteInv, WayInv, EntryInv, StartOf, StopOf, InStart, StopPoints,
         StartPoints, StopReturns, StartReturns, WasActive, TunStarts, TunStops, Handoffs, HandoffStops, Running
    <3>3. SelectionInv' /\ ClockInv'
      BY <2>1, <3>1 DEF RouteInv, SelectionInv, ClockInv, KeepsClock, Chosen, WasActive,
         StartOf, StopOf, InStart, StopPoints, StartPoints, Launching, TunStarts, TunStops, Running
    <3>. QED
      BY <3>2, <3>3 DEF RouteInv
  <2>. QED
    BY <2>2, <2>3
<1>8. CASE RestoreDone
  <2>1. /\ at = "restoreDone" /\ Deselect /\ Done /\ UNCHANGED plans
        /\ snap' = IF Running /\ cmd.before.listen
                   THEN [Erred(snap) EXCEPT !.since = cmd.before.since] ELSE Erred(snap)
    BY <1>8 DEF RestoreDone
  <2>2. settings'.main = Chosen
    BY <2>1, DeselectMain
  <2>3. Running => ret.start = "restoreDone"
    BY <2>1 DEF RouteInv, WayInv, EntryInv, Handoffs
  <2>4. Running /\ cmd.before.listen => snap.listen
    BY <2>3 DEF RouteInv, ClockInv, KeepsClock
  <2>5. /\ Erred(snap) \in Snaps /\ Erred(snap).state = snap.state
        /\ Erred(snap).since = snap.since /\ Erred(snap).listen = snap.listen
    BY <1>b, ErredFields, SnapTypes
  <2>6. snap'.state = snap.state /\ snap'.listen = snap.listen
    BY <2>1, <2>5, SnapClock
  <2>7. snap'.since # 0 <=> snap'.listen
    <3>1. CASE Running /\ cmd.before.listen
      <4>1. snap'.since = cmd.before.since
        BY <2>1, <2>5, <3>1, SnapClock
      <4>. QED
        BY <2>4, <2>6, <3>1, <4>1 DEF RouteInv, ClockInv
    <3>2. CASE ~(Running /\ cmd.before.listen)
      BY <2>1, <2>5, <3>2 DEF RouteInv, ClockInv
    <3>. QED
      BY <3>1, <3>2
  <2>8. Running => applied.main = Chosen
    BY <2>3 DEF RouteInv, SelectionInv
  <2>. QED
    BY <2>1, <2>2, <2>6, <2>7, <2>8, DoneRoute DEF plans, Running
<1>9. CASE TunStopped
  <2>1. /\ at = "tunStopped" /\ ~Running /\ prepared = None /\ options = None
        /\ cmd.name = "tun" /\ cmd.before.listen /\ lastMain = settings.main
        /\ UNCHANGED plans
    BY <1>9, <1>c DEF TunStopped, StartPoints, StopPoints, StopReturns, RouteInv, WayInv, EntryInv,
                      SelectionInv, ClockInv, StopOf, TunStops
  <2>2. CASE ok
    <3>1. /\ CallStart(StartArgs(lastMain, cmd.on, TakeOrDrop(cmd.proxy)), "tunStarted")
          /\ UNCHANGED <<cmd, snap, settings>>
      BY <1>9, <2>2 DEF TunStopped
    <3>. QED
      BY <1>e, <2>1, <3>1, StartArgsMain DEF StartPoints, StopPoints, Handoffs, TunStarts, plans
  <2>3. CASE ~ok
    <3>1. Done /\ snap' = [snap EXCEPT !.tun = ~cmd.on]
      BY <1>9, <2>3 DEF TunStopped, RevertTun
    <3>2. snap'.state = snap.state /\ snap'.since = snap.since /\ snap'.listen = snap.listen
      BY <1>b, <3>1 DEF Snaps
    <3>. QED
      BY <2>1, <3>1, <3>2, QuietDone DEF plans
  <2>. QED
    BY <2>2, <2>3
<1>10. CASE TunStarted
  <2>1. /\ at = "tunStarted" /\ ret.start = "tunStarted" /\ cmd.name = "tun" /\ cmd.before.listen
        /\ UNCHANGED plans
    BY <1>10 DEF TunStarted, RouteInv, WayInv, ClockInv, StartOf, TunStarts, StartReturns
  <2>2. CASE Running
    <3>1. /\ snap' = [snap EXCEPT !.since = cmd.before.since] /\ Done /\ settings' = settings
      BY <1>10, <2>2 DEF TunStarted
    <3>2. snap.listen /\ cmd.before.since # 0
      BY <2>1, <2>2 DEF RouteInv, ClockInv, KeepsClock, TunStarts
    <3>3. snap'.since # 0 /\ snap'.listen
      BY <1>b, <3>1, <3>2, SnapClock
    <3>4. applied.main = settings.main
      BY <2>1, <2>2 DEF RouteInv, SelectionInv, Chosen
    <3>. QED
      BY <2>1, <3>1, <3>3, <3>4, DoneRoute DEF plans
  <2>3. CASE ~Running
    <3>1. /\ snap' = [snap EXCEPT !.tun = ~cmd.on] /\ settings' = [settings EXCEPT !.tun = ~cmd.on]
          /\ CallStop("tunBackStopped") /\ UNCHANGED <<cmd, call>>
      BY <1>10, <2>3 DEF TunStarted, RevertTun
    <3>2. snap'.state = snap.state /\ snap'.since = snap.since /\ snap'.listen = snap.listen
      BY <1>b, <3>1 DEF Snaps
    <3>3. settings'.main = settings.main
      BY <1>b, <3>1 DEF Settings
    <3>. QED
      BY <1>d, <2>1, <2>3, <3>1, <3>2, <3>3
  <2>. QED
    BY <2>2, <2>3
<1>11. CASE TunBackStopped
  <2>1. /\ at = "tunBackStopped" /\ ~Running /\ prepared = None /\ options = None
        /\ cmd.name = "tun" /\ cmd.before.listen /\ lastMain = settings.main
        /\ UNCHANGED <<cmd, snap, plans, settings>>
        /\ CallStart(StartArgs(lastMain, ~cmd.on, TakeOrDrop(cmd.proxy)), "tunRestored")
    BY <1>11, <1>c DEF TunBackStopped, StartPoints, StopPoints, StopReturns, RouteInv, WayInv, EntryInv,
                       SelectionInv, ClockInv, StopOf, TunStops
  <2>. QED
    BY <1>e, <2>1, StartArgsMain DEF StartPoints, StopPoints, Handoffs, TunStarts, plans
<1>12. CASE TunRestored
  <2>1. /\ at = "tunRestored" /\ ret.start = "tunRestored" /\ cmd.name = "tun" /\ cmd.before.listen
        /\ Done /\ UNCHANGED <<plans, settings>>
        /\ snap' = IF Running THEN [Erred(snap) EXCEPT !.since = cmd.before.since] ELSE Erred(snap)
    BY <1>12 DEF TunRestored, RouteInv, WayInv, ClockInv, StartOf, TunStarts, StartReturns
  <2>2. /\ Erred(snap) \in Snaps /\ Erred(snap).state = snap.state
        /\ Erred(snap).since = snap.since /\ Erred(snap).listen = snap.listen
    BY <1>b, ErredFields, SnapTypes
  <2>3. snap'.state = snap.state /\ snap'.listen = snap.listen
    BY <2>1, <2>2, SnapClock
  <2>4. snap'.since # 0 <=> snap'.listen
    <3>1. CASE Running
      <4>1. snap'.since = cmd.before.since /\ snap.listen
        BY <2>1, <2>2, <3>1, SnapClock DEF RouteInv, ClockInv, KeepsClock, TunStarts
      <4>. QED
        BY <2>1, <2>3, <4>1 DEF RouteInv, ClockInv
    <3>2. CASE ~Running
      BY <2>1, <2>2, <3>2 DEF RouteInv, ClockInv
    <3>. QED
      BY <3>1, <3>2
  <2>5. Running => applied.main = settings.main
    BY <2>1 DEF RouteInv, SelectionInv, Chosen
  <2>. QED
    BY <2>1, <2>3, <2>4, <2>5, DoneRoute DEF plans, Running
<1>13. CASE Return
  <2>1. /\ at \in {"stopped", "started", "connected"} /\ Done /\ UNCHANGED <<snap, plans, settings>>
    BY <1>13 DEF Return
  <2>2. cmd.name # "select"
    BY <2>1 DEF RouteInv, WayInv, StartOf
  <2>3. Running => applied.main = settings.main
    BY <2>2 DEF RouteInv, SelectionInv, Chosen
  <2>. QED
    BY <2>1, <2>3, QuietDone DEF plans
<1>. QED
  BY <1>1, <1>2, <1>3, <1>4, <1>5, <1>6, <1>7, <1>8, <1>9, <1>10, <1>11, <1>12, <1>13
  DEF Reconfigure

----------------------------------------------------------------------------
\* The invariant holds in every reachable state.

LEMMA InitRoute == ASSUME Init PROVE RouteInv
<1>1. /\ snap.state = "Stopped" /\ snap.since = 0 /\ snap.listen = FALSE
      /\ at = "idle" /\ ret.start = "started" /\ cmd = NoCmd
  BY DEF Init, Start0
<1>2. WayInv /\ EntryInv
  BY <1>1, NoCmdFields DEF WayInv, EntryInv, StartOf, StopOf, InStart, StopPoints, StartPoints,
     StartReturns, StopReturns, TunStarts, TunStops, Handoffs, HandoffStops
<1>3. SelectionInv /\ ClockInv
  BY <1>1, NoCmdFields DEF SelectionInv, ClockInv, KeepsClock, WasActive, StartOf, StopOf, InStart,
     StopPoints, StartPoints, Launching, TunStarts, TunStops, Running
<1>. QED
  BY <1>2, <1>3 DEF RouteInv

LEMMA StepRoute == ASSUME IInv, RouteInv, [Next]_vars PROVE RouteInv'
<1>1. CASE UNCHANGED vars
  BY <1>1 DEF vars, plans, frame, RouteInv, WayInv, EntryInv, SelectionInv, ClockInv, KeepsClock,
     Chosen, WasActive, StartOf, StopOf, InStart, Running, View
<1>. QED
  BY <1>1, BeginRoute, ReconfigureRoute, StartingRoute, StoppingRoute, OtherRoute
  DEF Next, Operation

LEMMA RouteInvariance == Spec => []RouteInv
BY InitRoute, StepRoute, Invariance, PTL DEF Spec

\* While a kernel is shown as running between operations, its plan is the
\* selected profile's: after connects, restarts, switches, TUN changes, their
\* failures and roll-backs, stops, crashes and starts from the command line.
THEOREM SelectedIsRun == Spec => []RunsSelectedProfile
<1>1. RouteInv => RunsSelectedProfile
  BY DEF RouteInv, WayInv, SelectionInv, Chosen, RunsSelectedProfile
<1>. QED
  BY <1>1, RouteInvariance, PTL

\* The clock runs between operations exactly while the running plan has its
\* ports open, whichever operation gave an earlier session its clock back.
THEOREM ClockRuns == Spec => []ClockRunsIffListening
<1>1. RouteInv => ClockRunsIffListening
  BY DEF RouteInv, ClockInv, ClockRunsIffListening
<1>. QED
  BY <1>1, RouteInvariance, PTL

----------------------------------------------------------------------------
\* How operations end.

\* Only the last step of an operation unlocks.
LEMMA OnlyReconfigureReturns ==
  ASSUME IInv, [Next]_vars, at # "idle", at' = "idle"
  PROVE  Reconfigure
<1>a. ret.start \in StartReturns /\ ret.stop \in StopReturns
  BY RouteTypes
<1>1. CASE Begin
  BY <1>1 DEF Begin, StartReadyCore, CliStart, ConnectProxy, RestartCore, ApplyMainProfile,
     Propose, Stop, ApplyTun, DisableSystemProxy, EnableSystemProxy, Enter
<1>2. CASE Starting
  <2>1. \/ at' \in {"plan", "launch", "await", "check", "release", "mode", "proxy", "take"}
        \/ at' = ret.start
    BY <1>2 DEF Starting, StartRefused, StartBegins, PlanFails, CommitPlan, ServiceStartOk,
       ServiceStartFails, Adopt, Spawn, SpawnFails, AwaitExited, AwaitRepairs, AwaitTimesOut,
       AwaitReady, ModeReconciled, ModeRefused, StartTimedOut, StartProxy, StartTakesProxy,
       StartThrows, Fail, StartReturn, Launched, CallStop
  <2>. QED
    BY <1>a, <2>1 DEF StartReturns
<1>3. CASE Stopping
  <2>1. at' \in {"restore", "stopEngine"} \/ at' = ret.stop
    BY <1>3 DEF Stopping, StopChecksProxy, StopReleasesProxy, StopService, StopUnreachable,
       StopProcess, PublishStopped, StopFails, StopReturn
  <2>. QED
    BY <1>a, <2>1 DEF StopReturns
<1>4. CASE CheckAlive \/ Environment
  BY <1>4 DEF CheckAlive, ProbeBegins, ProbeDropped, ProbeFindsNoCore, ProbePublishes,
     Environment, EngineDies, DaemonServesLate, OthersSetProxy, frame
<1>5. CASE UNCHANGED vars
  BY <1>5 DEF vars, frame
<1>. QED
  BY <1>1, <1>2, <1>3, <1>4, <1>5 DEF Next, Operation

LEMMA ClockKept ==
  ASSUME IInv, RouteInv, Reconfigure, at' = "idle",
         cmd.name \in {"restart", "select", "tun"},
         cmd.before.state = "Running", cmd.before.listen,
         snap'.state = "Running", snap'.listen
  PROVE  snap'.since = cmd.before.since
<1>a. snap \in Snaps /\ Erred(snap) \in Snaps /\ WasActive
  BY RouteTypes, SnapTypes DEF WasActive
<1>b. /\ Erred(snap).state = snap.state /\ Erred(snap).since = snap.since
      /\ Erred(snap).listen = snap.listen
  BY <1>a, ErredFields
<1>1. CASE CandidateRefused
  <2>1. at = "prepare" /\ snap' \in {snap, Erred(snap)}
    BY <1>1 DEF CandidateRefused
  <2>. QED
    BY <1>b, <2>1, ViewFields DEF RouteInv, EntryInv
<1>2. CASE SkipHandoff
  BY <1>2, ViewFields DEF SkipHandoff, RouteInv, EntryInv
<1>3. CASE HandoffStopped
  BY <1>3 DEF HandoffStopped, CallStart, RouteInv, EntryInv, StopReturns, Running
<1>4. CASE HandoffStarted
  <2>1. Running /\ snap' = IF cmd.before.listen /\ snap.listen
                           THEN [snap EXCEPT !.since = cmd.before.since] ELSE snap
    BY <1>4 DEF HandoffStarted, CallStop
  <2>. QED
    BY <1>a, <2>1, SnapClock
<1>5. CASE RestoreDone \/ TunRestored
  <2>1. snap' = IF Running THEN [Erred(snap) EXCEPT !.since = cmd.before.since] ELSE Erred(snap)
    BY <1>5 DEF RestoreDone, TunRestored
  <2>. QED
    BY <1>a, <1>b, <2>1, SnapClock DEF Running
<1>6. CASE TunStarted
  <2>1. snap' = [snap EXCEPT !.since = cmd.before.since]
    BY <1>6 DEF TunStarted, CallStop
  <2>. QED
    BY <1>a, <2>1, SnapClock
<1>7. CASE TunStopped
  <2>1. ~Running /\ snap' = [snap EXCEPT !.tun = ~cmd.on]
    BY <1>7 DEF TunStopped, RevertTun, CallStart, RouteInv, EntryInv, StopReturns
  <2>. QED
    BY <1>a, <2>1, SnapValues DEF Running
<1>8. CASE Return
  BY <1>8, <1>a DEF Return, RouteInv, WayInv, ClockInv, StartOf
<1>9. CASE CandidateAccepted
  BY <1>9 DEF CandidateAccepted, CallStart, Handoff
<1>10. CASE BeginHandoff \/ RollbackStopped \/ TunBackStopped
  BY <1>10 DEF BeginHandoff, RollbackStopped, TunBackStopped, CallStop, CallStart
<1>. QED
  BY <1>1, <1>2, <1>3, <1>4, <1>5, <1>6, <1>7, <1>8, <1>9, <1>10 DEF Reconfigure

\* A restart, a profile switch or a TUN change of a connected session ends with
\* the clock it began with whenever a connected kernel runs at its end, be it
\* the new one, the untouched one or the one rolled back to.
THEOREM SessionSurvives == Spec => SessionSurvivesReconfiguration
<1>1. IInv /\ RouteInv /\ [Next]_vars =>
        [(\E n \in {"restart", "select", "tun"} : Returned(n))
           /\ cmd.before.state = "Running" /\ cmd.before.listen
           /\ snap'.state = "Running" /\ snap'.listen
         => snap'.since = cmd.before.since]_vars
  BY OnlyReconfigureReturns, ClockKept DEF Returned
<1>. QED
  BY <1>1, Invariance, RouteInvariance, PTL DEF Spec, SessionSurvivesReconfiguration

----------------------------------------------------------------------------
\* Standby.

\* startReadyCore's options reach the kernel, unless the start is retried: the
\* retry compiles anew, with open ports and still without TUN.
StandbyInv ==
    cmd.name = "ready" =>
        /\ at \in {"check", "plan", "launch", "await"} =>
             ~call.tun /\ prepared = None /\ (options # None => ~options.tun)
        /\ at \in {"check", "plan"} /\ call.repair => options # None /\ ~options.listen
        /\ at \in {"launch", "await"} => ~file.tun /\ (call.repair => ~file.listen)
        /\ Running => ~snap.tun /\ (call.repair => ~snap.listen)

LEMMA StepStandby ==
  ASSUME IInv, RouteInv, StandbyInv, [Next]_vars PROVE StandbyInv'
<1>a. snap \in Snaps /\ cmd \in Commands /\ ret.start \in StartReturns /\ ret.stop \in StopReturns
  BY RouteTypes
<1>b. /\ Erred(snap).state = snap.state /\ Erred(snap).listen = snap.listen
      /\ Erred(snap).tun = snap.tun /\ Failed(snap).state = "Failed"
  BY <1>a, SnapValues
<1>c. cmd.name = "ready" => at \in {"started", "connected"} \/ at \in StartPoints \cup StopPoints \cup {"timedOut"}
  <2>1. at \in Points
    BY DEF IInv, TypeOK
  <2>. QED
    BY <2>1 DEF RouteInv, WayInv, StartOf, StopOf, Points, StartPoints, StopReturns, StartReturns,
                Handoffs, HandoffStops, TunStarts, TunStops
<1>1. CASE StartReadyCore
  <2>1. /\ ~Running /\ at' = "check" /\ snap' = snap /\ prepared' = prepared /\ at = "idle"
        /\ options' = [main |-> settings.main, tun |-> FALSE, listen |-> FALSE]
        /\ call' = StartArgs(settings.main, FALSE, "drop")
    BY <1>1, EnterFields DEF StartReadyCore, CallStart
  <2>2. prepared = None
    BY <2>1 DEF IInv, ControlInv, PreparedInv
  <2>3. options' \in Plans /\ ~options'.listen /\ ~options'.tun
    BY <2>1, PlanTypes, SettingsTypes, RouteTypes
  <2>4. ~call'.tun
    BY <2>1 DEF StartArgs
  <2>. QED
    BY <2>1, <2>2, <2>3, <2>4, NoneIsNone DEF StandbyInv, Running
<1>2. CASE CliStart \/ ConnectProxy \/ RestartCore \/ ApplyMainProfile \/ Stop \/ ApplyTun
  <2>1. \E n \in {"cli", "connect", "restart", "select", "stop", "tun"} : \E b, p : Enter(n, b, p)
    BY <1>2 DEF CliStart, ConnectProxy, RestartCore, ApplyMainProfile, Propose, Stop, ApplyTun
  <2>2. cmd'.name # "ready"
    BY <2>1, EnterFields
  <2>. QED
    BY <2>2 DEF StandbyInv
<1>3. CASE DisableSystemProxy \/ EnableSystemProxy
  <2>1. cmd'.name # "ready"
    BY <1>3 DEF DisableSystemProxy, EnableSystemProxy, frame, RouteInv, WayInv
  <2>. QED
    BY <2>1 DEF StandbyInv
<1>4. CASE Reconfigure
  <2>1. CASE cmd.name # "ready"
    <3>1. \/ cmd' = cmd \/ Done
          \/ cmd' = [cmd EXCEPT !.proxy = settings.proxy] \/ cmd' = [cmd EXCEPT !.prev = applied]
      BY <1>4 DEF Reconfigure, CandidateRefused, CandidateAccepted, SkipHandoff, BeginHandoff,
         HandoffStopped, HandoffStarted, RollbackStopped, RestoreDone, TunStopped, TunStarted,
         TunBackStopped, TunRestored, Return
    <3>2. cmd'.name # "ready"
      <4>1. CASE Done
        BY <4>1, NoCmdFields DEF Done
      <4>2. CASE ~Done
        BY <1>a, <2>1, <3>1, <4>2 DEF Commands
      <4>. QED
        BY <4>1, <4>2
    <3>. QED
      BY <3>2 DEF StandbyInv
  <2>2. CASE cmd.name = "ready"
    <3>1. Done
      BY <1>4, <1>c, <2>2 DEF Reconfigure, CandidateRefused, CandidateAccepted, SkipHandoff, BeginHandoff,
         HandoffStopped, HandoffStarted, RollbackStopped, RestoreDone, TunStopped, TunStarted,
         TunBackStopped, TunRestored, Return, StartPoints, StopPoints
    <3>. QED
      BY <3>1, NoCmdFields DEF Done, StandbyInv
  <2>. QED
    BY <2>1, <2>2
<1>5. CASE Starting
  <2>1. UNCHANGED cmd
    BY <1>5 DEF Starting, StartRefused, StartBegins, PlanFails, CommitPlan, ServiceStartOk,
       ServiceStartFails, Adopt, Spawn, SpawnFails, AwaitExited, AwaitRepairs, AwaitTimesOut,
       AwaitReady, ModeReconciled, ModeRefused, StartTimedOut, StartProxy, StartTakesProxy,
       StartThrows, Fail, StartReturn, Launched, CallStop
  <2>2. CASE StartBegins
    <3>1. at = "check" /\ snap.state # "Starting"
      BY <2>2 DEF StartBegins, IInv, ControlInv, StartingInv, Launching, StopPoints
    <3>2. /\ snap' = [snap EXCEPT !.state = "Starting", !.err = FALSE] /\ at' = "plan"
          /\ UNCHANGED <<prepared, options, call>>
      BY <2>2, <3>1 DEF StartBegins
    <3>3. snap'.state = "Starting"
      BY <1>a, <3>2, SnapValues
    <3>. QED
      BY <2>1, <3>1, <3>2, <3>3 DEF StandbyInv, Running
  <2>3. CASE CommitPlan
    <3>1. /\ at = "plan" /\ at' = "launch" /\ file' = PlanToRun /\ snap' = snap
          /\ prepared' = None /\ options' \in {options, None} /\ call' = call
      BY <2>3 DEF CommitPlan
    <3>2. cmd.name = "ready" => ~file'.tun /\ (call.repair => ~file'.listen)
      BY <3>1 DEF StandbyInv, PlanToRun
    <3>. QED
      BY <2>1, <3>1, <3>2 DEF StandbyInv, Running
  <2>4. CASE AwaitReady
    <3>1. /\ at = "await" /\ at' = "mode" /\ snap' = Ready(snap, file) /\ call' = call
      BY <2>4 DEF AwaitReady
    <3>2. snap'.listen = file.listen /\ snap'.tun = file.tun
      BY <1>a, <3>1, SnapValues
    <3>. QED
      BY <2>1, <3>1, <3>2 DEF StandbyInv
  <2>5. CASE AwaitRepairs
    <3>1. /\ at = "await" /\ at' = "check" /\ UNCHANGED <<prepared, options>>
          /\ snap' = [snap EXCEPT !.state = "Stopped", !.err = FALSE]
          /\ call' = [call EXCEPT !.repair = FALSE]
      BY <2>5 DEF AwaitRepairs, plans
    <3>2. ~call'.repair /\ call'.tun = call.tun
      BY <3>1 DEF IInv, TypeOK, Calls
    <3>3. ~Running'
      BY <1>a, <3>1, SnapValues DEF Running
    <3>. QED
      BY <2>1, <3>1, <3>2, <3>3 DEF StandbyInv
  <2>6. ASSUME snap'.listen = snap.listen, snap'.tun = snap.tun,
               snap'.state \in {snap.state, "Failed"}, call' = call,
               \/ at' \in StartReturns \cup {"release", "mode", "proxy", "take"}
               \/ at = "launch" /\ at' = "await" /\ UNCHANGED <<file, prepared, options>>
        PROVE  StandbyInv'
    BY <2>1, <2>6 DEF StandbyInv, Running, StartReturns
  <2>7. CASE StartRefused \/ PlanFails \/ ServiceStartFails \/ SpawnFails \/ AwaitExited \/ StartTimedOut
    <3>1. snap' = Failed(snap) /\ at' = ret.start /\ call' = call
      BY <2>7 DEF StartRefused, PlanFails, ServiceStartFails, SpawnFails, AwaitExited,
         StartTimedOut, Fail, StartReturn
    <3>2. Failed(snap).listen = snap.listen /\ Failed(snap).tun = snap.tun
      BY <1>a, SnapValues
    <3>. QED
      BY <1>a, <1>b, <2>6, <3>1, <3>2
  <2>8. CASE ServiceStartOk \/ Adopt \/ Spawn
    BY <2>6, <2>8 DEF ServiceStartOk, Adopt, Spawn, Launched
  <2>9. CASE AwaitTimesOut \/ ModeRefused \/ ModeReconciled
    BY <2>6, <2>9 DEF AwaitTimesOut, ModeRefused, ModeReconciled, CallStop
  <2>10. CASE StartProxy \/ StartTakesProxy \/ StartThrows
    <3>1. /\ snap' \in {snap, Erred(snap), Failed(snap)}
          /\ at' \in {"take", ret.start} /\ call' = call
      BY <2>10 DEF StartProxy, StartTakesProxy, StartThrows, StartReturn
    <3>2. Failed(snap).listen = snap.listen /\ Failed(snap).tun = snap.tun
      BY <1>a, SnapValues
    <3>3. snap'.listen = snap.listen /\ snap'.tun = snap.tun /\ snap'.state \in {snap.state, "Failed"}
      BY <1>b, <3>1, <3>2
    <3>. QED
      BY <1>a, <2>6, <3>1, <3>3
  <2>. QED
    BY <1>5, <2>2, <2>3, <2>4, <2>5, <2>7, <2>8, <2>9, <2>10 DEF Starting
<1>6. CASE Stopping
  <2>1. /\ cmd'.name = cmd.name /\ UNCHANGED call
        /\ \/ at' \in {"restore", "stopEngine"} /\ UNCHANGED snap
           \/ at' = ret.stop /\ ~Running'
    <3>1. CASE StopChecksProxy \/ StopReleasesProxy
      <4>1. /\ at' \in {"restore", "stopEngine"} /\ UNCHANGED <<snap, call>>
            /\ cmd' = cmd \/ \E b : cmd' = [cmd EXCEPT !.blind = b]
        BY <3>1 DEF StopChecksProxy, StopReleasesProxy
      <4>2. cmd'.name = cmd.name
        BY <1>a, <4>1, BlindValues
      <4>. QED
        BY <4>1, <4>2
    <3>2. CASE StopService \/ StopUnreachable \/ StopProcess
      <4>1. /\ PublishStopped \/ StopFails
            /\ UNCHANGED <<cmd, call>>
            /\ at' = ret.stop
        BY <3>2 DEF StopService, StopUnreachable, StopProcess, PublishStopped, StopFails, StopReturn
      <4>2. CASE PublishStopped
        <5>1. PICK e : snap' = Stopped(snap, e)
          BY <4>2 DEF PublishStopped
        <5>. QED
          BY <1>a, <4>1, <5>1 DEF Stopped, Snaps, Running
      <4>3. CASE StopFails
        BY <1>b, <4>1, <4>3 DEF StopFails, Running
      <4>. QED
        BY <4>1, <4>2, <4>3
    <3>. QED
      BY <1>6, <3>1, <3>2 DEF Stopping
  <2>. QED
    BY <1>a, <2>1 DEF StandbyInv, Running, StopReturns
<1>7. CASE CheckAlive \/ Environment
  <2>1. /\ UNCHANGED <<at, plans, call>>
        /\ cmd' \in {cmd, [cmd EXCEPT !.alone = FALSE]}
        /\ snap' = snap \/ snap' = Failed(snap)
    BY <1>7 DEF CheckAlive, ProbeBegins, ProbeDropped, ProbeFindsNoCore, ProbePublishes,
       Environment, EngineDies, DaemonServesLate, OthersSetProxy, frame
  <2>2. cmd'.name = cmd.name
    BY <1>a, <2>1, CommandFields
  <2>. QED
    BY <1>b, <2>1, <2>2 DEF StandbyInv, Running, plans
<1>8. CASE UNCHANGED vars
  BY <1>8 DEF vars, plans, frame, StandbyInv, Running
<1>. QED
  BY <1>1, <1>2, <1>3, <1>4, <1>5, <1>6, <1>7, <1>8 DEF Next, Operation, Begin

\* A start on standby that reports success has opened no tunnel, whatever is
\* selected and however often it is retried, and no proxy port but on the retry
\* after a cache repair, which forgets the standby options.
THEOREM StandbyClosed == Spec => StandbyOpensOnlyAfterRepair
<1>1. Init => StandbyInv
  BY NoCmdFields DEF Init, StandbyInv
<1>2. IInv /\ RouteInv /\ StandbyInv /\ [Next]_vars => StandbyInv'
  BY StepStandby
<1>3. IInv /\ RouteInv /\ StandbyInv /\ [Next]_vars =>
        [Returned("ready") /\ snap'.state = "Running" =>
             ~snap'.tun /\ (snap'.listen => ~call.repair)]_vars
  <2>. SUFFICES ASSUME IInv, RouteInv, StandbyInv, [Next]_vars, Returned("ready"),
                       snap'.state = "Running"
                PROVE  ~snap'.tun /\ (snap'.listen => ~call.repair)
    OBVIOUS
  <2>1. Reconfigure /\ cmd.name = "ready"
    BY OnlyReconfigureReturns DEF Returned
  <2>2. Return
    BY <2>1 DEF Reconfigure, CandidateRefused, CandidateAccepted, SkipHandoff, BeginHandoff,
       HandoffStopped, HandoffStarted, RollbackStopped, RestoreDone, TunStopped, TunStarted,
       TunBackStopped, TunRestored, RouteInv, WayInv, StartOf, StopOf, Handoffs, HandoffStops,
       TunStarts, TunStops
  <2>. QED
    BY <2>1, <2>2 DEF Return, StandbyInv, Running
<1>. QED
  BY <1>1, <1>2, <1>3, Invariance, RouteInvariance, PTL DEF Spec, StandbyOpensOnlyAfterRepair

----------------------------------------------------------------------------
\* checkAlive.

\* The kernel an answer is about is the one it was asked about.
ProbeInv ==
    /\ "START" \in late => ~Running /\ at \notin Launching
    /\ Running \/ at = "await" => managed \/ adopted \/ child \/ engine = None
    /\ probe.at # "none" => probe.epoch <= snap.epoch
    /\ probe.at # "none" /\ Running /\ probe.epoch = snap.epoch =>
         probe.managed = managed /\ probe.adopted = adopted
    /\ probe.at = "exited" /\ Running /\ probe.epoch = snap.epoch => engine = None

LEMMA SnapEpoch ==
  ASSUME NEW s \in Snaps
  PROVE  /\ Failed(s).epoch = s.epoch /\ Erred(s).epoch = s.epoch
         /\ \A b : Stopped(s, b).epoch = s.epoch
         /\ \A p : Ready(s, p).epoch = s.epoch + 1
         /\ \A n : [s EXCEPT !.since = n].epoch = s.epoch
         /\ \A b : [s EXCEPT !.tun = b].epoch = s.epoch
         /\ \A x : [s EXCEPT !.state = x, !.err = FALSE].epoch = s.epoch
<1>1. Failed(s).epoch = s.epoch /\ Erred(s).epoch = s.epoch
  BY DEF Snaps, Failed, Erred
<1>2. \A b : Stopped(s, b).epoch = s.epoch
  BY DEF Snaps, Stopped
<1>3. \A p : Ready(s, p).epoch = s.epoch + 1
  BY DEF Snaps, Ready
<1>4. /\ \A n : [s EXCEPT !.since = n].epoch = s.epoch
      /\ \A b : [s EXCEPT !.tun = b].epoch = s.epoch
      /\ \A x : [s EXCEPT !.state = x, !.err = FALSE].epoch = s.epoch
  BY DEF Snaps
<1>. QED
  BY <1>1, <1>2, <1>3, <1>4

\* A step that leaves the kernel and its instance alone.
LEMMA SameKernel ==
  ASSUME ProbeInv, Running' => Running, snap'.epoch = snap.epoch,
         at' \in Launching => at = at',
         UNCHANGED <<owner, kernel, probe>>
  PROVE  ProbeInv'
BY DEF ProbeInv, owner, kernel, Launching

LEMMA StepProbe ==
  ASSUME IInv, ProbeInv, [Next]_vars PROVE ProbeInv'
<1>a. /\ snap \in Snaps /\ Erred(snap) \in Snaps /\ snap.epoch \in Nat
      /\ probe.epoch \in Nat
  BY RouteTypes, SnapTypes, SnapFields DEF IInv, TypeOK, Probes
<1>b. /\ Erred(snap).state = snap.state /\ Erred(snap).epoch = snap.epoch
      /\ Failed(snap).state = "Failed" /\ Failed(snap).epoch = snap.epoch
  BY <1>a, SnapValues, SnapEpoch
<1>c. at \in Launching => snap.state = "Starting"
  BY DEF IInv, ControlInv, StartingInv
<1>d. ret.start \in StartReturns /\ ret.stop \in StopReturns
  BY RouteTypes
<1>1. CASE Begin
  <2>1. /\ UNCHANGED <<owner, kernel, probe>> /\ snap' \in {snap, Erred(snap)}
        /\ at' \in {at, "check", "prepare", "release", "stopped"}
    BY <1>1 DEF Begin, StartReadyCore, CliStart, ConnectProxy, RestartCore, ApplyMainProfile,
       Propose, Stop, ApplyTun, DisableSystemProxy, EnableSystemProxy, CallStart, CallStop, frame
  <2>2. snap'.state = snap.state /\ snap'.epoch = snap.epoch
    BY <1>b, <2>1
  <2>. QED
    BY <2>1, <2>2, SameKernel DEF Running, Launching
<1>2. CASE Reconfigure
  <2>1. /\ UNCHANGED <<owner, kernel, probe>>
        /\ at' \in {"idle", "handoff", "check", "release", "restoreDone"}
    BY <1>2 DEF Reconfigure, CandidateRefused, CandidateAccepted, SkipHandoff, BeginHandoff,
       HandoffStopped, HandoffStarted, RollbackStopped, RestoreDone, TunStopped, TunStarted,
       TunBackStopped, TunRestored, Return, Done, CallStart, CallStop, Handoff
  <2>2. \/ snap' \in {snap, Erred(snap)}
        \/ \E n : snap' \in {[snap EXCEPT !.since = n], [Erred(snap) EXCEPT !.since = n],
                             [snap EXCEPT !.tun = n]}
    BY <1>2 DEF Reconfigure, CandidateRefused, CandidateAccepted, SkipHandoff, BeginHandoff,
       HandoffStopped, HandoffStarted, RollbackStopped, RestoreDone, TunStopped, TunStarted,
       TunBackStopped, TunRestored, Return, RevertTun
  <2>3. snap'.state = snap.state /\ snap'.epoch = snap.epoch
    <3>1. CASE snap' \in {snap, Erred(snap)}
      BY <1>b, <3>1
    <3>2. ASSUME NEW n, snap' = [snap EXCEPT !.since = n] PROVE snap'.state = snap.state /\ snap'.epoch = snap.epoch
      BY <1>a, <3>2 DEF Snaps
    <3>3. ASSUME NEW n, snap' = [snap EXCEPT !.tun = n] PROVE snap'.state = snap.state /\ snap'.epoch = snap.epoch
      BY <1>a, <3>3 DEF Snaps
    <3>4. ASSUME NEW n, snap' = [Erred(snap) EXCEPT !.since = n]
          PROVE  snap'.state = snap.state /\ snap'.epoch = snap.epoch
      BY <1>a, <1>b, <3>4 DEF Snaps
    <3>. QED
      BY <2>2, <3>1, <3>2, <3>3, <3>4
  <2>. QED
    BY <2>1, <2>3, SameKernel DEF Running, Launching
<1>3. CASE Starting
  <2>1. probe' = probe
    BY <1>3 DEF Starting, StartRefused, StartBegins, PlanFails, CommitPlan, ServiceStartOk,
       ServiceStartFails, Adopt, Spawn, SpawnFails, AwaitExited, AwaitRepairs, AwaitTimesOut,
       AwaitReady, ModeReconciled, ModeRefused, StartTimedOut, StartProxy, StartTakesProxy,
       StartThrows
  <2>2. CASE StartBegins
    <3>1. /\ at = "check" /\ snap.state # "Starting" /\ (Service => late = {})
      BY <2>2 DEF StartBegins, Answered, IInv, ControlInv, StartingInv, Launching, StopPoints
    <3>2. /\ snap' = [snap EXCEPT !.state = "Starting", !.err = FALSE] /\ at' = "plan"
          /\ UNCHANGED <<owner, kernel>>
      BY <2>2, <3>1 DEF StartBegins
    <3>3. snap'.state = "Starting" /\ snap'.epoch = snap.epoch /\ late = {}
      BY <1>a, <3>1, <3>2, SnapValues, SnapEpoch DEF IInv, ControlInv, AwaitInv
    <3>. QED
      BY <2>1, <3>1, <3>2, <3>3 DEF ProbeInv, Running, owner, kernel
  <2>3. CASE CommitPlan
    BY <1>c, <2>1, <2>3 DEF CommitPlan, ProbeInv, Launching, Running, owner, kernel
  \* The kernel changes only while the state is Starting or the start has failed.
  <2>4. CASE ServiceStartOk \/ Adopt \/ Spawn
    <3>1. /\ at = "launch" /\ at' = "await" /\ snap' = snap /\ late' = late
          /\ managed' \/ adopted' \/ child' \/ engine' = None
      BY <2>4 DEF ServiceStartOk, Adopt, Spawn, Launched, kernel
    <3>. QED
      BY <1>c, <2>1, <3>1 DEF ProbeInv, Launching, Running
  <2>5. CASE AwaitReady
    <3>1. /\ at = "await" /\ at' = "mode" /\ snap' = Ready(snap, file)
          /\ UNCHANGED <<owner, kernel>>
      BY <2>5 DEF AwaitReady
    <3>2. snap'.epoch = snap.epoch + 1
      BY <1>a, <3>1, SnapEpoch
    <3>3. probe'.at # "none" => probe'.epoch <= snap'.epoch /\ probe'.epoch # snap'.epoch
      BY <1>a, <2>1, <3>2 DEF ProbeInv
    <3>. QED
      BY <3>1, <3>3 DEF ProbeInv, Launching, owner, kernel
  <2>6. CASE AwaitRepairs
    <3>1. /\ snap' = [snap EXCEPT !.state = "Stopped", !.err = FALSE] /\ at' = "check"
          /\ UNCHANGED <<owner, kernel>>
      BY <2>6 DEF AwaitRepairs
    <3>2. snap'.state = "Stopped" /\ snap'.epoch = snap.epoch
      BY <1>a, <3>1, SnapValues, SnapEpoch
    <3>. QED
      BY <2>1, <3>1, <3>2, SameKernel DEF Running, Launching
  <2>7. CASE StartRefused \/ PlanFails \/ ServiceStartFails \/ SpawnFails \/ AwaitExited \/ StartTimedOut
    <3>1. snap' = Failed(snap) /\ at' = ret.start
      BY <2>7 DEF StartRefused, PlanFails, ServiceStartFails, SpawnFails, AwaitExited,
         StartTimedOut, Fail, StartReturn
    <3>2. ~Running' /\ snap'.epoch = snap.epoch /\ at' \notin Launching
      BY <1>b, <1>d, <3>1 DEF Running, Launching, StartReturns
    <3>. QED
      BY <2>1, <3>2 DEF ProbeInv, Launching
  <2>8. CASE AwaitTimesOut \/ ModeRefused \/ ModeReconciled
    <3>1. snap' = snap /\ at' \in {"release", "proxy"} /\ UNCHANGED <<owner, kernel>>
      BY <2>8 DEF AwaitTimesOut, ModeRefused, ModeReconciled, CallStop
    <3>. QED
      BY <2>1, <3>1, SameKernel DEF Running, Launching
  <2>9. CASE StartProxy \/ StartTakesProxy \/ StartThrows
    <3>1. /\ snap' \in {snap, Erred(snap), Failed(snap)} /\ at' \in {"take", ret.start}
          /\ UNCHANGED <<owner, kernel>>
      BY <2>9 DEF StartProxy, StartTakesProxy, StartThrows, StartReturn
    <3>. QED
      BY <1>b, <1>d, <2>1, <3>1, SameKernel DEF Running, Launching, StartReturns
  <2>. QED
    BY <1>3, <2>2, <2>3, <2>4, <2>5, <2>6, <2>7, <2>8, <2>9 DEF Starting
<1>4. CASE Stopping
  <2>1. CASE StopChecksProxy \/ StopReleasesProxy
    <3>1. snap' = snap /\ at' \in {"restore", "stopEngine"} /\ UNCHANGED <<owner, kernel, probe>>
      BY <2>1 DEF StopChecksProxy, StopReleasesProxy
    <3>. QED
      BY <3>1, SameKernel DEF Running, Launching
  <2>2. CASE StopService \/ StopUnreachable \/ StopProcess
    <3>1. /\ PublishStopped \/ StopFails
          /\ UNCHANGED probe
          /\ at' = ret.stop /\ "START" \in late' => "START" \in late
      BY <2>2 DEF StopService, StopUnreachable, StopProcess, PublishStopped, StopFails, StopReturn
    <3>2. snap'.state # "Running" /\ snap'.epoch = snap.epoch
      <4>1. CASE PublishStopped
        <5>1. PICK e : snap' = Stopped(snap, e)
          BY <4>1 DEF PublishStopped
        <5>. QED
          BY <1>a, <5>1 DEF Stopped, Snaps
      <4>2. CASE StopFails
        BY <1>b, <4>2 DEF StopFails
      <4>. QED
        BY <3>1, <4>1, <4>2
    <3>3. at' \notin Launching
      BY <1>d, <2>2 DEF StopService, StopUnreachable, StopProcess, PublishStopped, StopFails,
         StopReturn, Launching, StopReturns
    <3>. QED
      BY <3>1, <3>2, <3>3 DEF ProbeInv, Running, Launching
  <2>. QED
    BY <1>4, <2>1, <2>2 DEF Stopping
<1>5. CASE ProbeBegins
  <2>1. /\ probe' = [at |-> "asking", epoch |-> snap.epoch, managed |-> managed, adopted |-> adopted]
        /\ UNCHANGED <<snap, owner, kernel, at>>
    BY <1>5 DEF ProbeBegins, frame
  <2>2. /\ probe'.at = "asking" /\ probe'.epoch = snap.epoch
        /\ probe'.managed = managed /\ probe'.adopted = adopted
    BY <2>1
  <2>3. probe'.epoch <= snap'.epoch
    BY <1>a, <2>1, <2>2
  <2>. QED
    BY <2>1, <2>2, <2>3 DEF ProbeInv, Running, owner, kernel
<1>6. CASE ProbeDropped
  <2>1. probe'.at = "none" /\ UNCHANGED <<snap, owner, kernel, at>>
    BY <1>6 DEF ProbeDropped, NoProbe, frame
  <2>. QED
    BY <2>1 DEF ProbeInv, Running, owner, kernel
<1>7. CASE ProbeFindsNoCore
  <2>1. /\ probe' = [probe EXCEPT !.at = "exited"] /\ probe.at = "asking"
        /\ UNCHANGED <<snap, owner, kernel, at>>
    BY <1>7 DEF ProbeFindsNoCore, frame
  <2>2. /\ probe'.at = "exited" /\ probe'.epoch = probe.epoch
        /\ probe'.managed = probe.managed /\ probe'.adopted = probe.adopted
    BY <2>1 DEF IInv, TypeOK, Probes
  <2>3. Running /\ probe.epoch = snap.epoch => engine = None
    <3>. SUFFICES ASSUME Running, probe.epoch = snap.epoch PROVE engine = None
      OBVIOUS
    <3>1. probe.managed = managed /\ probe.adopted = adopted
      BY <2>1 DEF ProbeInv
    <3>2. managed \/ adopted \/ child \/ engine = None
      BY DEF ProbeInv
    <3>. QED
      BY <1>7, <3>1, <3>2 DEF ProbeFindsNoCore
  <2>. QED
    BY <2>1, <2>2, <2>3 DEF ProbeInv, Running, owner, kernel
<1>8. CASE ProbePublishes
  <2>1. /\ snap' = Failed(snap) /\ probe'.at = "none" /\ at' = "idle"
        /\ UNCHANGED <<owner, kernel>>
    BY <1>8 DEF ProbePublishes, NoProbe, frame
  <2>2. ~Running'
    BY <1>b, <2>1 DEF Running
  <2>. QED
    BY <2>1, <2>2 DEF ProbeInv, Launching, owner, kernel
<1>9. CASE EngineDies
  BY <1>9 DEF EngineDies, ProbeInv, Running, owner, frame
<1>10. CASE DaemonServesLate
  <2>1. /\ UNCHANGED <<snap, owner, child, at, probe>> /\ late' \subseteq late
        /\ \/ "START" \in late
           \/ engine' \in {engine, None}
    BY <1>10 DEF DaemonServesLate, frame
  <2>. QED
    BY <2>1 DEF ProbeInv, Running, owner, Launching
<1>11. CASE OthersSetProxy
  BY <1>11 DEF OthersSetProxy, ProbeInv, Running, owner, kernel
<1>12. CASE UNCHANGED vars
  BY <1>12 DEF vars, owner, kernel, frame, ProbeInv, Running
<1>. QED
  BY <1>1, <1>2, <1>3, <1>4, <1>5, <1>6, <1>7, <1>8, <1>9, <1>10, <1>11, <1>12
  DEF Next, Operation, CheckAlive, Environment

\* checkAlive asks without the lock, and its answer may arrive after stops,
\* starts and late requests: a kernel is declared crashed only when it exited.
THEOREM CrashVerdict == Spec => CrashVerdictIsTrue
<1>1. Init => ProbeInv
  BY DEF Init, ProbeInv, NoProbe, Start0, Running, Launching
<1>2. IInv /\ ProbeInv /\ [Next]_vars => ProbeInv'
  BY StepProbe
<1>3. IInv /\ ProbeInv /\ [Next]_vars =>
        [at = "idle" /\ Running /\ snap'.state = "Failed" => engine = None]_vars
  <2>. SUFFICES ASSUME IInv, ProbeInv, [Next]_vars, at = "idle", Running, snap'.state = "Failed"
                PROVE  engine = None
    OBVIOUS
  <2>1. Erred(snap).state = "Running"
    BY RouteTypes, SnapValues DEF Running
  <2>2. CASE Begin
    <3>1. snap' \in {snap, Erred(snap)}
      BY <2>2 DEF Begin, StartReadyCore, CliStart, ConnectProxy, RestartCore, ApplyMainProfile,
         Propose, Stop, ApplyTun, DisableSystemProxy, EnableSystemProxy
    <3>. QED
      BY <2>1, <3>1 DEF Running
  <2>3. CASE Operation
    BY <2>3 DEF Operation, Reconfigure, CandidateRefused, CandidateAccepted, SkipHandoff, BeginHandoff,
       HandoffStopped, HandoffStarted, RollbackStopped, RestoreDone, TunStopped, TunStarted,
       TunBackStopped, TunRestored, Return,
       Starting, StartRefused, StartBegins, PlanFails, CommitPlan, ServiceStartOk,
       ServiceStartFails, Adopt, Spawn, SpawnFails, AwaitExited, AwaitRepairs, AwaitTimesOut,
       AwaitReady, ModeReconciled, ModeRefused, StartTimedOut, StartProxy, StartTakesProxy,
       StartThrows, StartPoints, Stopping, StopChecksProxy, StopReleasesProxy, StopService,
       StopUnreachable, StopProcess
  <2>4. CASE ProbePublishes
    BY <2>4 DEF ProbePublishes, ProbeInv
  <2>5. CASE ProbeBegins \/ ProbeDropped \/ ProbeFindsNoCore \/ Environment \/ UNCHANGED vars
    BY <2>5 DEF ProbeBegins, ProbeDropped, ProbeFindsNoCore, Environment, EngineDies,
       DaemonServesLate, OthersSetProxy, vars, Running
  <2>. QED
    BY <2>2, <2>3, <2>4, <2>5 DEF Next, CheckAlive
<1>. QED
  BY <1>1, <1>2, <1>3, Invariance, PTL DEF Spec, CrashVerdictIsTrue

----------------------------------------------------------------------------
\* The system proxy at the end of an operation.

\* What stopCore knows of the system proxy it took away.
ReleasedInv ==
    /\ at = "stopEngine" /\ cmd.name = "stop" /\ ~cleanup => os # "ours" \/ cmd.blind
    /\ at = "stopped" /\ cmd.name = "stop" /\ ok => os # "ours" \/ cmd.blind

LEMMA StepReleased ==
  ASSUME IInv, RouteInv, ReleasedInv, [Next]_vars PROVE ReleasedInv'
<1>a. ret.start \in StartReturns /\ ret.stop \in StopReturns /\ cmd \in Commands
  BY RouteTypes
<1>b. \A b \in BOOLEAN : [cmd EXCEPT !.blind = b].blind = b
  BY <1>a DEF Commands
<1>1. CASE Begin
  <2>1. at = "idle" /\ at' \in {"idle", "check", "prepare", "release", "stopped"}
    BY <1>1, EnterFields DEF Begin, StartReadyCore, CliStart, ConnectProxy, RestartCore, ApplyMainProfile,
       Propose, Stop, ApplyTun, DisableSystemProxy, EnableSystemProxy, CallStart, CallStop, frame
  <2>2. at' = "stopped" => cmd'.name = "tun"
    BY <1>1, <2>1, EnterFields DEF Begin, StartReadyCore, CliStart, ConnectProxy, RestartCore, ApplyMainProfile,
       Propose, Stop, ApplyTun, DisableSystemProxy, EnableSystemProxy, CallStart, CallStop, frame
  <2>. QED
    BY <2>1, <2>2 DEF ReleasedInv
<1>2. CASE Reconfigure
  <2>1. at' \in {"idle", "handoff", "check", "release", "restoreDone"}
    BY <1>2 DEF Reconfigure, CandidateRefused, CandidateAccepted, SkipHandoff, BeginHandoff,
       HandoffStopped, HandoffStarted, RollbackStopped, RestoreDone, TunStopped, TunStarted,
       TunBackStopped, TunRestored, Return, Done, CallStart, CallStop, Handoff
  <2>. QED
    BY <2>1 DEF ReleasedInv
<1>3. CASE Starting
  <2>1. \/ at' \in {"plan", "launch", "await", "check", "release", "mode", "proxy", "take"}
        \/ at' = ret.start
    BY <1>3 DEF Starting, StartRefused, StartBegins, PlanFails, CommitPlan, ServiceStartOk,
       ServiceStartFails, Adopt, Spawn, SpawnFails, AwaitExited, AwaitRepairs, AwaitTimesOut,
       AwaitReady, ModeReconciled, ModeRefused, StartTimedOut, StartProxy, StartTakesProxy,
       StartThrows, Fail, StartReturn, Launched, CallStop
  <2>. QED
    BY <1>a, <2>1 DEF ReleasedInv, StartReturns
<1>4. CASE StopChecksProxy
  <2>1. PICK seen \in SeenOurs :
          /\ at' = IF seen THEN "restore" ELSE "stopEngine"
          /\ cmd' = [cmd EXCEPT !.blind = cmd.name = "stop" /\ seen # (os = "ours")]
    BY <1>4 DEF StopChecksProxy
  <2>2. os' = os /\ at' \in {"restore", "stopEngine"}
    BY <1>4, <2>1 DEF StopChecksProxy, proxy
  <2>3. cmd'.name = cmd.name /\ cmd'.blind = (cmd.name = "stop" /\ seen # (os = "ours"))
    BY <1>a, <1>b, <2>1, CommandFields
  <2>4. seen \in BOOLEAN
    BY DEF SeenOurs
  <2>5. at' = "stopEngine" => ~seen
    BY <2>1
  <2>. QED
    BY <2>2, <2>3, <2>4, <2>5 DEF ReleasedInv
<1>5. CASE StopReleasesProxy
  <2>1. at' = "stopEngine" /\ cleanup' \in BOOLEAN
    BY <1>5 DEF StopReleasesProxy, SeenOurs
  <2>2. CASE cleanup'
    BY <2>1, <2>2 DEF ReleasedInv
  <2>3. CASE ~cleanup'
    <3>1. cmd' = [cmd EXCEPT !.blind = cmd.name = "stop" /\ cleanup' # (os' = "ours")]
      BY <1>5, <2>3 DEF StopReleasesProxy
    <3>2. /\ cmd'.name = cmd.name
          /\ cmd'.blind = (cmd.name = "stop" /\ cleanup' # (os' = "ours"))
      BY <1>a, <1>b, <3>1, CommandFields
    <3>. QED
      BY <2>1, <2>3, <3>2 DEF ReleasedInv
  <2>. QED
    BY <2>2, <2>3
<1>6. CASE StopService \/ StopUnreachable \/ StopProcess
  <2>1. /\ at = "stopEngine" /\ at' = ret.stop /\ os' = os /\ cmd' = cmd
        /\ ok' => ~cleanup
    BY <1>6 DEF StopService, StopUnreachable, StopProcess, PublishStopped, StopFails, StopReturn, proxy
  <2>. QED
    BY <1>a, <2>1 DEF ReleasedInv, StopReturns
<1>7. CASE CheckAlive \/ EngineDies \/ DaemonServesLate \/ UNCHANGED vars
  <2>1. UNCHANGED <<at, cleanup, os, cmd, ok>>
    BY <1>7 DEF CheckAlive, ProbeBegins, ProbeDropped, ProbeFindsNoCore, ProbePublishes,
       EngineDies, DaemonServesLate, frame, proxy, vars
  <2>. QED
    BY <2>1 DEF ReleasedInv
<1>8. CASE OthersSetProxy
  <2>1. os' # "ours"
    BY <1>8, OthersAreOthers DEF OthersSetProxy
  <2>. QED
    BY <2>1 DEF ReleasedInv
<1>. QED
  BY <1>1, <1>2, <1>3, <1>4, <1>5, <1>6, <1>7, <1>8 DEF Next, Operation, Stopping, Environment

\* A stop that reports success has taken the system proxy away from the port
\* that is now dead, whatever its lease held and whoever changed it meanwhile;
\* unless it could not read that the proxy was ours, and then the lease still
\* holds what its owner had set, to be given back at the next start.
THEOREM StopReleases == Spec => StopReleasesOurProxy
<1>1. Init => ReleasedInv
  BY DEF Init, ReleasedInv
<1>2. IInv /\ RouteInv /\ ReleasedInv /\ [Next]_vars => ReleasedInv'
  BY StepReleased
<1>3. IInv /\ RouteInv /\ ReleasedInv /\ ProxyInv /\ [Next]_vars =>
        [Returned("stop") /\ ok /\ cmd.alone =>
           \/ os # "ours"
           \/ /\ cmd.blind
              /\ user # None => lease # None /\ (lease.restore => lease.original = user)]_vars
  <2>. SUFFICES ASSUME IInv, RouteInv, ReleasedInv, ProxyInv, [Next]_vars, Returned("stop"), ok,
                       os = "ours"
                PROVE  /\ cmd.blind
                       /\ user # None => lease # None /\ (lease.restore => lease.original = user)
    OBVIOUS
  <2>1. Reconfigure /\ cmd.name = "stop"
    BY OnlyReconfigureReturns DEF Returned
  <2>2. Return /\ at = "stopped"
    BY <2>1 DEF Reconfigure, CandidateRefused, CandidateAccepted, SkipHandoff, BeginHandoff,
       HandoffStopped, HandoffStarted, RollbackStopped, RestoreDone, TunStopped, TunStarted,
       TunBackStopped, TunRestored, RouteInv, WayInv, StartOf, StopOf, Handoffs, HandoffStops,
       TunStarts, TunStops, Return
  <2>. QED
    BY <2>1, <2>2 DEF ReleasedInv, ProxyInv
<1>. QED
  BY <1>1, <1>2, <1>3, Invariance, RouteInvariance, ProxyInvariance, PTL
  DEF Spec, StopReleasesOurProxy

\* A reconfiguration that found the system proxy ours.
Ours == cmd.proxy /\ cmd.alone

KeptInv ==
    /\ at \in {"prepare", "handoff"} /\ cmd.name \in {"restart", "select"} /\ Ours => os = "ours"
    /\ at = "stopped" /\ cmd.name = "tun" /\ Ours => os = "ours"
    /\ at \in StartPoints /\ ret.start \in {"handoffStarted", "tunStarted"} /\ cmd.proxy =>
         call.proxy = "take"
    /\ at \in {"handoffStarted", "tunStarted"} /\ Running /\ ~snap.err /\ Ours => os = "ours"

LEMMA EnterOurs ==
  ASSUME NEW n, NEW b, NEW p, Enter(n, b, p)
  PROVE  cmd'.proxy => os = "ours"
<1>1. PICK seen \in SeenOurs : cmd'.proxy = seen
  BY DEF Enter, NoCmd
<1>. QED
  BY <1>1 DEF SeenOurs

LEMMA StepKept ==
  ASSUME IInv, RouteInv, KeptInv, [Next]_vars PROVE KeptInv'
<1>a. /\ snap \in Snaps /\ cmd \in Commands /\ call \in Calls /\ ret \in Returns
      /\ ret.start \in StartReturns /\ ret.stop \in StopReturns
  BY RouteTypes DEF IInv, TypeOK
<1>b. Erred(snap).err /\ Failed(snap).state = "Failed"
  BY <1>a DEF Snaps, Erred, Failed
<1>1. CASE Begin
  <2>1. CASE DisableSystemProxy \/ EnableSystemProxy
    BY <2>1 DEF DisableSystemProxy, EnableSystemProxy, frame, KeptInv, StartPoints
  <2>2. CASE ~(DisableSystemProxy \/ EnableSystemProxy)
    <3>1. /\ \E n, b, p : Enter(n, b, p)
          /\ os' = os /\ at' \in {"check", "prepare", "release", "stopped"}
      BY <1>1, <2>2 DEF Begin, StartReadyCore, CliStart, ConnectProxy, RestartCore, ApplyMainProfile,
         Propose, Stop, ApplyTun, CallStart, CallStop, proxy
    <3>2. at' = "check" => ret'.start = "started"
      BY <1>1, <1>a, <2>2, CallFields DEF Begin, StartReadyCore, CliStart, ConnectProxy, RestartCore,
         ApplyMainProfile, Propose, Stop, ApplyTun, CallStop
    <3>3. cmd'.proxy => os' = "ours"
      BY <3>1, EnterOurs
    <3>. QED
      BY <3>1, <3>2, <3>3 DEF KeptInv, Ours, StartPoints
  <2>. QED
    BY <2>1, <2>2
<1>2. CASE Reconfigure
  <2>1. UNCHANGED os
    BY <1>2 DEF Reconfigure, CandidateRefused, CandidateAccepted, SkipHandoff, BeginHandoff,
       HandoffStopped, HandoffStarted, RollbackStopped, RestoreDone, TunStopped, TunStarted,
       TunBackStopped, TunRestored, Return, proxy
  <2>2. CASE CandidateAccepted
    <3>1. CASE at' = "handoff"
      <4>1. /\ at = "prepare"
            /\ cmd' = cmd \/ (cmd.name = "connect" /\ cmd' = [cmd EXCEPT !.proxy = settings.proxy])
        BY <2>2, <3>1 DEF CandidateAccepted, Done, CallStart
      <4>2. CASE cmd' = cmd
        BY <2>1, <3>1, <4>1, <4>2 DEF KeptInv, Ours, StartPoints
      <4>3. CASE cmd.name = "connect" /\ cmd' = [cmd EXCEPT !.proxy = settings.proxy]
        <5>1. cmd'.name = "connect"
          BY <1>a, <4>3 DEF Commands
        <5>. QED
          BY <3>1, <5>1 DEF KeptInv, StartPoints
      <4>. QED
        BY <4>1, <4>2, <4>3
    <3>2. CASE at' # "handoff"
      <4>1. at' = "idle" \/ (at' = "check" /\ ret'.start = "connected")
        BY <1>a, <2>2, <3>2, CallFields DEF CandidateAccepted, Handoff, Done
      <4>. QED
        BY <4>1 DEF KeptInv, StartPoints
    <3>. QED
      BY <3>1, <3>2
  <2>3. ASSUME at' = "check", NEW m, NEW t, NEW r, cmd' = cmd,
               \/ CallStart(StartArgs(m, t, TakeIf(cmd.proxy)), r)
               \/ CallStart(StartArgs(m, t, TakeOrDrop(cmd.proxy)), r)
        PROVE  KeptInv'
    <3>1. cmd.proxy => call'.proxy = "take"
      BY <2>3 DEF CallStart, StartArgs, TakeIf, TakeOrDrop
    <3>. QED
      BY <2>3, <3>1 DEF KeptInv
  <2>4. CASE HandoffStopped \/ RollbackStopped \/ TunStopped \/ TunBackStopped
    <3>1. \/ at' \in {"idle", "restoreDone"}
          \/ /\ cmd' = cmd /\ at' = "check"
             /\ \E m, t, r : \/ CallStart(StartArgs(m, t, TakeIf(cmd.proxy)), r)
                             \/ CallStart(StartArgs(m, t, TakeOrDrop(cmd.proxy)), r)
      BY <2>4 DEF HandoffStopped, RollbackStopped, TunStopped, TunBackStopped, Done, CallStart
    <3>. QED
      BY <2>3, <3>1 DEF KeptInv, StartPoints
  <2>5. CASE CandidateRefused \/ SkipHandoff \/ BeginHandoff \/ HandoffStarted \/ RestoreDone
             \/ TunStarted \/ TunRestored \/ Return
    <3>1. at' \in {"idle", "release", "restoreDone"}
      BY <2>5 DEF CandidateRefused, SkipHandoff, BeginHandoff, HandoffStarted, RestoreDone,
         TunStarted, TunRestored, Return, Done, CallStop
    <3>. QED
      BY <3>1 DEF KeptInv, StartPoints
  <2>. QED
    BY <1>2, <2>2, <2>4, <2>5 DEF Reconfigure
<1>3. CASE Starting
  <2>1. cmd' = cmd /\ ret'.start = ret.start
    <3>1. cmd' = cmd /\ (ret' = ret \/ CallStop("timedOut"))
      BY <1>3 DEF Starting, StartRefused, StartBegins, PlanFails, CommitPlan, ServiceStartOk,
         ServiceStartFails, Adopt, Spawn, SpawnFails, AwaitExited, AwaitRepairs, AwaitTimesOut,
         AwaitReady, ModeReconciled, ModeRefused, StartTimedOut, StartProxy, StartTakesProxy,
         StartThrows, Fail, StartReturn, Launched
    <3>. QED
      BY <1>a, <3>1, CallFields
  <2>2. CASE at' \in StartPoints
    <3>1. at \in StartPoints /\ call'.proxy = call.proxy
      BY <1>3, <1>a, <2>2 DEF Starting, StartRefused, StartBegins, PlanFails, CommitPlan, ServiceStartOk,
         ServiceStartFails, Adopt, Spawn, SpawnFails, AwaitExited, AwaitRepairs, AwaitTimesOut,
         AwaitReady, ModeReconciled, ModeRefused, StartTimedOut, StartProxy, StartTakesProxy,
         StartThrows, Fail, StartReturn, Launched, CallStop, StartPoints, StartReturns, Calls
    <3>. QED
      BY <2>1, <2>2, <3>1 DEF KeptInv, StartPoints
  <2>3. CASE at' \notin StartPoints
    <3>1. CASE StartProxy \/ StartTakesProxy \/ StartThrows
      <4>1. at' = ret.start /\ at \in StartPoints
        BY <2>3, <3>1 DEF StartProxy, StartTakesProxy, StartThrows, StartReturn, StartPoints
      <4>2. \/ Running' /\ ~snap'.err /\ cmd.proxy /\ call.proxy = "take" => os' = "ours"
        BY <1>b, <2>3, <3>1 DEF StartProxy, StartTakesProxy, StartThrows, TakeSystemProxy, Running, StartPoints
      <4>. QED
        BY <1>a, <2>1, <4>1, <4>2 DEF KeptInv, Ours, StartReturns, StartPoints
    <3>2. CASE StartRefused \/ PlanFails \/ ServiceStartFails \/ SpawnFails \/ AwaitExited \/ StartTimedOut
      <4>1. at' = ret.start /\ ~Running'
        BY <1>b, <3>2 DEF StartRefused, PlanFails, ServiceStartFails, SpawnFails, AwaitExited,
           StartTimedOut, Fail, StartReturn, Running
      <4>. QED
        BY <1>a, <4>1 DEF KeptInv, StartReturns, StartPoints
    <3>3. CASE AwaitTimesOut \/ ModeRefused
      BY <3>3 DEF AwaitTimesOut, ModeRefused, CallStop, KeptInv, StartPoints
    <3>4. CASE StartBegins
      <4>1. snap.state # "Starting"
        BY <3>4 DEF StartBegins, IInv, ControlInv, StartingInv, Launching, StopPoints
      <4>. QED
        BY <2>3, <3>4, <4>1 DEF StartBegins, StartPoints
    <3>5. CASE CommitPlan \/ ServiceStartOk \/ Adopt \/ Spawn \/ AwaitRepairs \/ AwaitReady \/ ModeReconciled
      BY <2>3, <3>5 DEF CommitPlan, ServiceStartOk, Adopt, Spawn, AwaitRepairs, AwaitReady,
         ModeReconciled, Launched, StartPoints
    <3>. QED
      BY <1>3, <3>1, <3>2, <3>3, <3>4, <3>5 DEF Starting
  <2>. QED
    BY <2>2, <2>3
<1>4. CASE Stopping
  <2>1. /\ at \in StopPoints /\ (cmd' = cmd \/ \E b : cmd' = [cmd EXCEPT !.blind = b])
        /\ at' \in {"restore", "stopEngine"} \/ at' = ret.stop
    BY <1>4 DEF Stopping, StopChecksProxy, StopReleasesProxy, StopService, StopUnreachable,
       StopProcess, PublishStopped, StopFails, StopReturn, StopPoints
  \* applyTun returns through "stopped" without a stop.
  <2>2. at' = "stopped" => cmd.name = "stop"
    BY <1>a, <2>1 DEF RouteInv, WayInv, StopPoints
  <2>3. cmd'.name = cmd.name
    BY <1>a, <2>1, BlindValues
  <2>. QED
    BY <1>a, <2>1, <2>2, <2>3 DEF KeptInv, StopReturns, StartPoints
<1>5. CASE CheckAlive \/ EngineDies \/ DaemonServesLate \/ UNCHANGED vars
  <2>1. UNCHANGED <<at, ret, call, os, cmd>> /\ (snap' = snap \/ at = "idle")
    BY <1>5 DEF CheckAlive, ProbeBegins, ProbeDropped, ProbeFindsNoCore, ProbePublishes,
       EngineDies, DaemonServesLate, frame, proxy, vars
  <2>. QED
    BY <2>1 DEF KeptInv, Ours, Running, StartPoints
<1>6. CASE OthersSetProxy
  <2>1. UNCHANGED <<at, ret, call, snap>>
    BY <1>6 DEF OthersSetProxy
  <2>2. CASE at = "idle"
    BY <2>1, <2>2 DEF KeptInv, StartPoints
  <2>3. CASE at # "idle"
    <3>1. cmd' = [cmd EXCEPT !.alone = FALSE]
      BY <1>6, <2>3 DEF OthersSetProxy
    <3>2. ~cmd'.alone /\ cmd'.proxy = cmd.proxy
      BY <1>a, <3>1 DEF Commands
    <3>. QED
      BY <2>1, <3>2 DEF KeptInv, Ours
  <2>. QED
    BY <2>2, <2>3
<1>. QED
  BY <1>1, <1>2, <1>3, <1>4, <1>5, <1>6 DEF Next, Operation, Environment

\* A restart, a profile switch or a TUN change that found the system proxy ours
\* and ends without an error leaves it ours, although the stop in its middle
\* gave it back.
THEOREM ProxySurvives == Spec => SystemProxySurvivesReconfiguration
<1>1. Init => KeptInv
  BY DEF Init, KeptInv, StartPoints
<1>2. IInv /\ RouteInv /\ KeptInv /\ [Next]_vars => KeptInv'
  BY StepKept
<1>3. IInv /\ RouteInv /\ KeptInv /\ [Next]_vars =>
        [(\E n \in {"restart", "select", "tun"} : Returned(n))
           /\ cmd.proxy /\ cmd.alone /\ snap'.state = "Running" /\ ~snap'.err
         => os = "ours"]_vars
  <2>. SUFFICES ASSUME IInv, RouteInv, KeptInv, [Next]_vars,
                       NEW n \in {"restart", "select", "tun"}, Returned(n),
                       Ours, snap'.state = "Running", ~snap'.err
                PROVE  os = "ours"
    BY DEF Ours
  <2>a. /\ snap \in Snaps /\ Erred(snap) \in Snaps /\ Erred(snap).err
        /\ Erred(snap).state = snap.state /\ cmd.name = n /\ Reconfigure
    BY RouteTypes, SnapTypes, SnapValues, OnlyReconfigureReturns DEF Returned, Erred, Snaps
  <2>1. CASE CandidateRefused \/ SkipHandoff
    <3>1. at \in {"prepare", "handoff"} /\ cmd.name \in {"restart", "select"}
      BY <2>1, <2>a DEF CandidateRefused, SkipHandoff, RouteInv, WayInv
    <3>. QED
      BY <3>1 DEF KeptInv
  <2>2. CASE HandoffStarted \/ TunStarted
    <3>1. /\ Running /\ at \in {"handoffStarted", "tunStarted"}
          /\ snap' \in {snap, [snap EXCEPT !.since = cmd.before.since]}
      BY <2>2 DEF HandoffStarted, TunStarted, CallStop, Returned
    <3>2. snap'.err = snap.err
      BY <2>a, <3>1 DEF Snaps
    <3>. QED
      BY <3>1, <3>2 DEF KeptInv
  <2>3. CASE RestoreDone \/ TunRestored
    <3>1. snap' \in {Erred(snap), [Erred(snap) EXCEPT !.since = cmd.before.since]}
      BY <2>3 DEF RestoreDone, TunRestored
    <3>. QED
      BY <2>a, <3>1 DEF Snaps
  <2>4. CASE HandoffStopped \/ TunStopped
    <3>1. ~Running /\ snap' \in {snap, [snap EXCEPT !.tun = ~cmd.on]}
      BY <2>4 DEF HandoffStopped, TunStopped, RevertTun, RouteInv, EntryInv, StopReturns
    <3>. QED
      BY <2>a, <3>1 DEF Snaps, Running
  <2>5. CASE Return
    <3>1. at = "stopped" /\ cmd.name = "tun"
      BY <2>5, <2>a DEF Return, RouteInv, WayInv, StartOf
    <3>. QED
      BY <3>1 DEF KeptInv
  <2>6. CASE CandidateAccepted
    <3>1. cmd.name = "select" /\ cmd.before.state # "Running" /\ snap' = snap /\ at = "prepare"
      BY <2>6 DEF CandidateAccepted, CallStart, Handoff, Returned
    <3>. QED
      BY <3>1, ViewFields DEF RouteInv, EntryInv
  <2>7. CASE BeginHandoff \/ RollbackStopped \/ TunBackStopped
    BY <2>7 DEF BeginHandoff, RollbackStopped, TunBackStopped, CallStop, CallStart, Returned
  <2>. QED
    BY <2>a, <2>1, <2>2, <2>3, <2>4, <2>5, <2>6, <2>7 DEF Reconfigure
<1>. QED
  BY <1>1, <1>2, <1>3, Invariance, RouteInvariance, PTL DEF Spec, SystemProxySurvivesReconfiguration

=============================================================================

------------------------ MODULE CoreOperationsProofs ------------------------
(***************************************************************************)
(* Proofs about CoreOperations, for every set of commands and sources and  *)
(* every bound.                                                            *)
(***************************************************************************)
EXTENDS CoreOperations, TLAPS

-----------------------------------------------------------------------------
(* Values: what the operators return, of which type *)

LEMMA WorldValues ==
    ASSUME NEW w \in Worlds
    PROVE  /\ w.core \in Nat /\ w.proxy \in Nat /\ w.installed \in BOOLEAN
           /\ CoreMoved(w) \in Worlds
           /\ CoreMoved(w).core = w.core + 1 /\ CoreMoved(w).proxy = w.proxy
           /\ ProxyMoved(w) \in Worlds
           /\ ProxyMoved(w).core = w.core /\ ProxyMoved(w).proxy = w.proxy + 1
           /\ \A exists \in BOOLEAN : /\ Serviced(w, exists) \in Worlds
                                      /\ Serviced(w, exists).core = w.core
                                      /\ Serviced(w, exists).proxy = w.proxy
<1>1. w.core \in Nat /\ w.proxy \in Nat /\ w.installed \in BOOLEAN
  BY DEF Worlds
<1>2. /\ CoreMoved(w) \in Worlds
      /\ CoreMoved(w).core = w.core + 1 /\ CoreMoved(w).proxy = w.proxy
  BY DEF Worlds, CoreMoved
<1>3. /\ ProxyMoved(w) \in Worlds
      /\ ProxyMoved(w).core = w.core /\ ProxyMoved(w).proxy = w.proxy + 1
  BY DEF Worlds, ProxyMoved
<1>4. ASSUME NEW exists \in BOOLEAN
      PROVE  /\ Serviced(w, exists) \in Worlds
             /\ Serviced(w, exists).core = w.core
             /\ Serviced(w, exists).proxy = w.proxy
  BY DEF Worlds, Serviced
<1> QED BY <1>1, <1>2, <1>3, <1>4

\* Whatever store code leaves behind is nothing older.
LEMMA MovedValues ==
    ASSUME world \in Worlds
    PROVE  \A next \in Moved :
             /\ next \in Worlds
             /\ next.core \in Nat /\ next.proxy \in Nat
             /\ next.core >= world.core /\ next.proxy >= world.proxy
<1>1. /\ CoreMoved(world) \in Worlds /\ ProxyMoved(CoreMoved(world)) \in Worlds
      /\ world.core \in Nat /\ world.proxy \in Nat
      /\ CoreMoved(world).core = world.core + 1
      /\ CoreMoved(world).proxy = world.proxy
      /\ ProxyMoved(CoreMoved(world)).core = world.core + 1
      /\ ProxyMoved(CoreMoved(world)).proxy = world.proxy + 1
  BY ZenonT(40), WorldValues
<1>2. ASSUME NEW next \in Moved
      PROVE  next \in Worlds /\ next.core >= world.core /\ next.proxy >= world.proxy
  BY <1>1 DEF Moved
<1> QED BY <1>2, WorldValues

TaskPoints == {"none", "execute", "standby", "install", "read", "settle"}

LEMMA TaskAt ==
    ASSUME NEW t \in Tasks, NEW a \in TaskPoints
    PROVE  /\ [t EXCEPT !.at = a] \in Tasks /\ [t EXCEPT !.at = a].at = a
           /\ [t EXCEPT !.at = a].core = t.core /\ [t EXCEPT !.at = a].proxy = t.proxy
BY DEF Tasks, TaskPoints

LEMMA TaskAgain ==
    ASSUME NEW t \in Tasks, NEW a \in TaskPoints
    PROVE  /\ [t EXCEPT !.again = TRUE, !.at = a] \in Tasks
           /\ [t EXCEPT !.again = TRUE, !.at = a].at = a
           /\ [t EXCEPT !.again = TRUE, !.at = a].core = t.core
           /\ [t EXCEPT !.again = TRUE, !.at = a].proxy = t.proxy
BY DEF Tasks, TaskPoints

LEMMA TaskLeaves ==
    ASSUME NEW t \in Tasks, NEW w \in Worlds
    PROVE  /\ Leaves(t, w) \in Tasks
           /\ Leaves(t, w).core = w.core /\ Leaves(t, w).proxy = w.proxy
<1>1. w.core \in Nat /\ w.proxy \in Nat
  BY WorldValues
<1> QED BY <1>1 DEF Tasks, Leaves

LEMMA ReadValues ==
    ASSUME NEW f \in [Readers -> Reads], NEW r \in Readers, NEW v \in Reads
    PROVE  /\ [f EXCEPT ![r] = v] \in [Readers -> Reads]
           /\ [f EXCEPT ![r] = v][r] = v
           /\ \A q \in Readers \ {r} : [f EXCEPT ![r] = v][q] = f[q]
OBVIOUS

LEMMA NoReadValue ==
    NoRead \in Reads /\ NoRead.at = "none" /\ NoRead.core = 0 /\ NoRead.proxy = 0
BY DEF NoRead, Reads

-----------------------------------------------------------------------------
(* What becomes of a slot *)

LEMMA StartsSlot ==
    ASSUME read \in [Readers -> Reads], view \in Views,
           NEW r \in Readers, NEW slow \in BOOLEAN, Starts(r, slow)
    PROVE  /\ read' \in [Readers -> Reads]
           /\ read[r].at = "none"
           /\ read'[r].at = "snapshot"
           /\ read'[r].slow = slow
           /\ read'[r].core = 0
           /\ read'[r].proxy = IF slow THEN 0 ELSE view.proxy
           /\ \A q \in Readers \ {r} : read'[q] = read[q]
<1> DEFINE p == IF slow THEN 0 ELSE view.proxy
           v == [NoRead EXCEPT !.at = "snapshot", !.slow = slow, !.proxy = p]
<1>1. read[r].at = "none" /\ read' = [read EXCEPT ![r] = v]
  BY DEF Starts
<1>2. p \in Nat
  BY DEF Views
<1> HIDE DEF p
<1>3. v \in Reads /\ v.at = "snapshot" /\ v.slow = slow /\ v.core = 0 /\ v.proxy = p
  BY <1>2 DEF NoRead, Reads
<1> HIDE DEF v
<1> QED BY <1>1, <1>3, ReadValues DEF p

LEMMA FreesSlot ==
    ASSUME read \in [Readers -> Reads], NEW r \in Readers,
           read' = [read EXCEPT ![r] = NoRead]
    PROVE  /\ read' \in [Readers -> Reads]
           /\ read'[r].at = "none" /\ read'[r].core = 0 /\ read'[r].proxy = 0
           /\ \A q \in Readers \ {r} : read'[q] = read[q]
BY NoReadValue, ReadValues

LEMMA SnapshotSlot ==
    ASSUME read \in [Readers -> Reads], world \in Worlds,
           NEW r \in Readers, ReadSnapshot(r)
    PROVE  /\ read' \in [Readers -> Reads]
           /\ read[r].at = "snapshot"
           /\ read'[r].at \in {"probe", "done"}
           /\ read'[r].at = "done" => r = "writer"
           /\ read'[r].slow = read[r].slow
           /\ read'[r].core = world.core
           /\ read'[r].proxy = read[r].proxy
           /\ \A q \in Readers \ {r} : read'[q] = read[q]
<1> DEFINE v == [read[r] EXCEPT !.core = world.core,
                                !.at = IF r = "writer" THEN "done" ELSE "probe"]
<1>0. read[r] \in Reads /\ world.core \in Nat
  BY WorldValues
<1>1. /\ v \in Reads /\ v.at \in {"probe", "done"} /\ (v.at = "done" => r = "writer")
      /\ v.slow = read[r].slow /\ v.core = world.core /\ v.proxy = read[r].proxy
  BY <1>0 DEF Reads
<1>2. read[r].at = "snapshot" /\ read' = [read EXCEPT ![r] = v]
  BY DEF ReadSnapshot
<1> HIDE DEF v
<1> QED BY <1>1, <1>2, ReadValues

LEMMA ProbeSlot ==
    ASSUME read \in [Readers -> Reads], world \in Worlds,
           NEW r \in Readers, ReadProbe(r)
    PROVE  /\ read' \in [Readers -> Reads]
           /\ read[r].at = "probe"
           /\ read'[r].at = "done"
           /\ read'[r].slow = read[r].slow
           /\ read'[r].core = read[r].core
           /\ read[r].slow => read'[r].proxy = world.proxy
           /\ ~read[r].slow => read'[r].proxy = read[r].proxy
           /\ \A q \in Readers \ {r} : read'[q] = read[q]
<1> DEFINE p == IF read[r].slow THEN world.proxy ELSE read[r].proxy
           v == [read[r] EXCEPT !.proxy = p, !.installed = world.installed,
                                !.at = "done"]
<1>0. read[r] \in Reads /\ p \in Nat /\ world.installed \in BOOLEAN
  BY WorldValues DEF Reads
<1> HIDE DEF p
<1>1. /\ v \in Reads /\ v.at = "done" /\ v.slow = read[r].slow
      /\ v.core = read[r].core /\ v.proxy = p
  BY <1>0 DEF Reads
<1>2. read[r].at = "probe" /\ read' = [read EXCEPT ![r] = v]
  BY DEF ReadProbe, p
<1> HIDE DEF v
<1> QED BY <1>1, <1>2, ReadValues DEF p

LEMMA ShownValue ==
    ASSUME read \in [Readers -> Reads], NEW r \in Readers
    PROVE  /\ Shown(r) \in Views
           /\ Shown(r).core = read[r].core
           /\ Shown(r).proxy = read[r].proxy
<1>1. read[r] \in Reads
  OBVIOUS
<1> QED BY <1>1 DEF Shown, Views, Reads
-----------------------------------------------------------------------------
(* The inductive invariant, part by part *)

\* A slot is in use only while its owner waits for the read, a command and the
\* startup maintenance always read slowly, and a fast poll has a countdown left
\* to take down.
Slots ==
    /\ read["diagnostics"].at = "none"
    /\ read["command"].at # "none" => task.at = "read" /\ read["command"].slow
    /\ read["maintenance"].at # "none" => /\ maint.kind = "startup" /\ maint.at = "read"
                                         /\ read["maintenance"].slow
    /\ read["pump"].at # "none" /\ ~read["pump"].slow => countdown > 0

\* Each gate is closed exactly while it has an owner, and one of them is open.
Gates ==
    /\ Busy <=> task.at # "none"
    /\ checking <=> maint.at # "none"
    /\ ~(Busy /\ checking)

\* A poll that no request overtook carries an answer as new as the last request,
\* and so does what a command is about to show, unless a request is pending.
Requests ==
    /\ asked <= world.proxy
    /\ ~refresh => view.proxy >= asked
    /\ ticked => read["pump"].at # "none"
    /\ ~ticked /\ read["pump"].at # "none" =>
         /\ read["pump"].slow /\ read["pump"].at = "done" => read["pump"].proxy >= asked
         /\ ~read["pump"].slow => read["pump"].proxy >= asked
    /\ read["command"].at = "done" => refresh \/ read["command"].proxy >= asked

IInv == TypeOK /\ Slots /\ Gates /\ Requests

LEMMA InitIInv == Init => IInv
<1> SUFFICES ASSUME Init PROVE IInv
  OBVIOUS
<1>1. TypeOK
  <2>1. world \in Worlds /\ view \in Views /\ done \in Effects
    BY DEF Init, Worlds, Views, Effects
  <2>2. task \in Tasks
    BY BoundsAssumption DEF Init, BoundsAssumption, Tasks, NoTask
  <2>3. maint \in Maintenances /\ writer \in Writers
    BY DEF Init, Maintenances, NoMaintenance, Writers
  <2>4. read \in [Readers -> Reads]
    BY NoReadValue DEF Init
  <2>5. /\ serial \in 0..MaxCommands /\ countdown \in 0..SlowInterval
        /\ changes \in 0..MaxChanges /\ asked \in Nat
    BY BoundsAssumption DEF Init, BoundsAssumption
  <2>6. /\ command \in CoreActions \cup {"Idle"} /\ refresh \in BOOLEAN
        /\ ticked \in BOOLEAN /\ checking \in BOOLEAN /\ started \in BOOLEAN
        /\ diagnosis \in {"none", "running", "cancelled"}
        /\ current \subseteq Readers /\ crossed \subseteq Readers
        /\ stale \subseteq Readers
    BY DEF Init
  <2> QED BY <2>1, <2>2, <2>3, <2>4, <2>5, <2>6 DEF TypeOK
<1>2. Slots
  BY NoReadValue DEF Init, Slots, Readers
<1>3. Gates
  BY DEF Init, Gates, Busy, NoTask, NoMaintenance
<1>4. Requests
  BY NoReadValue DEF Init, Requests, Readers
<1> QED BY <1>1, <1>2, <1>3, <1>4 DEF IInv

LEMMA Requested ==
    ASSUME TypeOK, RequestRefresh
    PROVE  /\ refresh' = TRUE /\ ticked' \in BOOLEAN /\ countdown' = countdown
           /\ asked' = world.proxy /\ asked' \in Nat
           /\ ticked' <=> read["pump"].at # "none"
<1>1. "pump" \in Reading <=> read["pump"].at # "none"
  BY DEF Reading, Readers
<1>2. ticked' = ("pump" \in Reading)
  BY DEF RequestRefresh
<1>3. ticked' \in BOOLEAN
  BY <1>2
<1>4. ticked' <=> read["pump"].at # "none"
  BY <1>1, <1>2
<1>5. world.proxy \in Nat
  BY WorldValues DEF TypeOK
<1> QED BY <1>3, <1>4, <1>5 DEF RequestRefresh

\* The proxy versions the invariant compares are numbers.
LEMMA Proxies ==
    ASSUME TypeOK
    PROVE  /\ world.proxy \in Nat /\ view.proxy \in Nat /\ asked \in Nat
           /\ \A r \in Readers : read[r] \in Reads /\ read[r].proxy \in Nat
<1>1. world.proxy \in Nat /\ view.proxy \in Nat /\ asked \in Nat
  BY DEF TypeOK, Worlds, Views
<1>2. \A r \in Readers : read[r] \in Reads
  BY DEF TypeOK
<1> QED BY <1>1, <1>2 DEF Reads

\* A command begins only when none is under way, and takes the task over.
LEMMA Begun ==
    ASSUME TypeOK, NEW action \in CoreActions, NEW window \in BOOLEAN,
           Begin(action, window)
    PROVE  /\ ~Busy /\ command' = action /\ command' # "Idle"
           /\ command' \in CoreActions \cup {"Idle"}
           /\ serial' \in 0..MaxCommands
           /\ task' \in Tasks /\ task'.at = "execute"
           /\ done' = done
<1>1. serial + 1 \in 0..MaxCommands
  BY BoundsAssumption DEF TypeOK, Begin, BoundsAssumption
<1>2. done.core \in Nat /\ done.proxy \in Nat
  BY DEF TypeOK, Effects
<1>3. task' \in Tasks /\ task'.at = "execute"
  BY <1>1, <1>2 DEF Begin, Tasks
<1> QED BY <1>1, <1>3 DEF Begin, CoreActions, Busy

LEMMA Cancelled ==
    ASSUME TypeOK
    PROVE  /\ CancelDiagnostics => diagnosis' \in {"none", "running", "cancelled"}
           /\ Reading \subseteq Readers /\ crossed \subseteq Readers
BY DEF TypeOK, CancelDiagnostics, Reading

LEMMA UserCommandsStep ==
    ASSUME IInv, NEW action \in Actions, UserCommands(action)
    PROVE  IInv'
<1> USE BoundsAssumption DEF BoundsAssumption, IInv, commandVars, pumpVars, maintVars,
        readVars, pageVars
<1>1. task' \in Tasks /\ task'.at = "execute"
  BY DEF TypeOK, Tasks, Effects, Begin, UserCommands
<1>2. TypeOK'
  BY <1>1 DEF TypeOK, UserCommands, Begin, ControlBusy, Busy,
     CancelDiagnostics, Invalidate, Reading, CoreActions
<1>3. Slots'
  BY <1>1 DEF TypeOK, Slots, Gates, Readers, UserCommands, Begin, ControlBusy,
     Busy, CancelDiagnostics, Invalidate, Reading, CoreActions
<1>4. Gates'
  BY <1>1 DEF TypeOK, Gates, Busy, UserCommands, Begin, ControlBusy,
     CancelDiagnostics, Invalidate, Reading, CoreActions
<1>5. Requests'
  BY <1>1, Proxies DEF TypeOK, Slots, Gates, Requests, Readers, UserCommands,
     Begin, ControlBusy, Busy, CancelDiagnostics, Invalidate, Reading,
     CoreActions
<1> QED BY <1>2, <1>3, <1>4, <1>5

LEMMA ExecuteDeniedStep ==
    ASSUME IInv, ExecuteDenied
    PROVE  IInv'
<1> USE BoundsAssumption DEF BoundsAssumption, IInv, commandVars, pumpVars, maintVars,
        readVars, pageVars
<1>1. task' \in Tasks /\ task'.at \in {"install", "read"}
  <2> DEFINE a == IF task.window /\ ~task.again /\ ~world.installed
                  THEN "install" ELSE "read"
  <2>1. task' = [task EXCEPT !.at = a] /\ a \in {"install", "read"}
    BY DEF ExecuteDenied
  <2>2. a \in TaskPoints /\ task \in Tasks
    BY <2>1 DEF TaskPoints, TypeOK
  <2> HIDE DEF a
  <2>3. task' \in Tasks /\ task'.at = a
    BY <2>1, <2>2, TaskAt
  <2> QED BY <2>1, <2>3
<1>2. TypeOK'
  BY <1>1 DEF TypeOK, ExecuteDenied, Busy
<1>3. Slots'
  BY <1>1 DEF TypeOK, Slots, Gates, Readers, ExecuteDenied, Busy
<1>4. Gates'
  BY <1>1 DEF TypeOK, Gates, Busy, ExecuteDenied
<1>5. Requests'
  BY <1>1, Proxies DEF TypeOK, Slots, Gates, Requests, Readers, ExecuteDenied,
     Busy
<1> QED BY <1>2, <1>3, <1>4, <1>5

LEMMA ExecuteStep ==
    ASSUME IInv, Execute
    PROVE  IInv'
<1> USE BoundsAssumption DEF BoundsAssumption, IInv, commandVars, pumpVars, maintVars,
        readVars, pageVars
<1>1. \E next \in Moved, a \in {"standby", "read", "settle"} :
         /\ world' = next
         /\ task' = [Leaves(task, next) EXCEPT !.at = a]
  BY DEF Execute, Effect, AfterExecute
<1>2. PICK next \in Moved, a \in {"standby", "read", "settle"} :
         /\ world' = next
         /\ task' = [Leaves(task, next) EXCEPT !.at = a]
  BY <1>1
<1>3. next \in Worlds /\ next.proxy \in Nat /\ next.proxy >= world.proxy
  BY MovedValues DEF TypeOK
<1>4. task' \in Tasks /\ task'.at = a
  <2>1. Leaves(task, next) \in Tasks /\ a \in TaskPoints
    BY <1>3, TaskLeaves DEF TypeOK, TaskPoints
  <2> QED BY <1>2, <2>1, TaskAt
<1>5. /\ world' \in Worlds /\ world'.proxy \in Nat /\ world'.proxy >= world.proxy
      /\ task' \in Tasks /\ task'.at \in {"standby", "read", "settle"}
  BY <1>2, <1>3, <1>4
<1>6. TypeOK'
  BY <1>5 DEF TypeOK, Execute, Busy
<1>7. Slots'
  BY <1>5 DEF TypeOK, Slots, Gates, Readers, Execute, Busy
<1>8. Gates'
  BY <1>5 DEF TypeOK, Gates, Busy, Execute
<1>9. Requests'
  BY <1>5, Proxies DEF TypeOK, Slots, Gates, Requests, Readers, Execute,
     Busy
<1> QED BY <1>6, <1>7, <1>8, <1>9

LEMMA ExecuteStandbyStep ==
    ASSUME IInv, ExecuteStandby
    PROVE  IInv'
<1> USE BoundsAssumption DEF BoundsAssumption, IInv, commandVars, pumpVars, maintVars,
        readVars, pageVars
<1>1. \E next \in Moved, a \in {"standby", "read", "settle"} :
         /\ world' = next
         /\ task' = [Leaves(task, next) EXCEPT !.at = a]
  BY DEF ExecuteStandby, Effect, AfterExecute
<1>2. PICK next \in Moved, a \in {"standby", "read", "settle"} :
         /\ world' = next
         /\ task' = [Leaves(task, next) EXCEPT !.at = a]
  BY <1>1
<1>3. next \in Worlds /\ next.proxy \in Nat /\ next.proxy >= world.proxy
  BY MovedValues DEF TypeOK
<1>4. task' \in Tasks /\ task'.at = a
  <2>1. Leaves(task, next) \in Tasks /\ a \in TaskPoints
    BY <1>3, TaskLeaves DEF TypeOK, TaskPoints
  <2> QED BY <1>2, <2>1, TaskAt
<1>5. /\ world' \in Worlds /\ world'.proxy \in Nat /\ world'.proxy >= world.proxy
      /\ task' \in Tasks /\ task'.at \in {"standby", "read", "settle"}
  BY <1>2, <1>3, <1>4
<1>6. TypeOK'
  BY <1>5 DEF TypeOK, ExecuteStandby, Busy
<1>7. Slots'
  BY <1>5 DEF TypeOK, Slots, Gates, Readers, ExecuteStandby, Busy
<1>8. Gates'
  BY <1>5 DEF TypeOK, Gates, Busy, ExecuteStandby
<1>9. Requests'
  BY <1>5, Proxies DEF TypeOK, Slots, Gates, Requests, Readers,
     ExecuteStandby, Busy
<1> QED BY <1>6, <1>7, <1>8, <1>9

LEMMA CommandReadsStep ==
    ASSUME IInv, CommandReads
    PROVE  IInv'
<1> USE BoundsAssumption DEF BoundsAssumption, IInv, commandVars, pumpVars, maintVars,
        readVars, pageVars
<1>1. /\ read' \in [Readers -> Reads] /\ read["command"].at = "none"
      /\ read'["command"].at = "snapshot" /\ read'["command"].slow = (TRUE)
      /\ ~(TRUE) => read'["command"].proxy = view.proxy
      /\ \A q \in Readers \ {"command"} : read'[q] = read[q]
  BY StartsSlot DEF TypeOK, Readers, CommandReads
<1>2. TypeOK'
  BY <1>1 DEF TypeOK, CommandReads, Captures
<1>3. Slots'
  BY <1>1 DEF TypeOK, Slots, Gates, Readers, CommandReads, Captures
<1>4. Gates'
  BY <1>1 DEF TypeOK, Gates, Busy, CommandReads, Captures
<1>5. Requests'
  BY <1>1, Proxies DEF TypeOK, Slots, Gates, Requests, Readers, CommandReads,
     Captures
<1> QED BY <1>2, <1>3, <1>4, <1>5

LEMMA CommandShowsStep ==
    ASSUME IInv, CommandShows
    PROVE  IInv'
<1> USE BoundsAssumption DEF BoundsAssumption, IInv, commandVars, pumpVars, maintVars,
        readVars, pageVars
<1>1. /\ read' \in [Readers -> Reads] /\ read'["command"].at = "none"
      /\ \A q \in Readers \ {"command"} : read'[q] = read[q]
  BY FreesSlot DEF TypeOK, Readers, Publishes, Drops, CommandShows
<1>2. view' \in Views /\ view'.proxy = read["command"].proxy
  BY ShownValue DEF TypeOK, Readers, CommandShows
<1>3. task' \in Tasks /\ task'.at = "settle"
  BY TaskAt DEF TypeOK, TaskPoints, CommandShows
<1>4. TypeOK'
  BY <1>1, <1>2, <1>3 DEF TypeOK, CommandShows, Publishes, Invalidate, Busy
<1>5. Slots'
  BY <1>1, <1>2, <1>3 DEF TypeOK, Slots, Gates, Readers, CommandShows,
     Publishes, Invalidate, Busy
<1>6. Gates'
  BY <1>1, <1>2, <1>3 DEF TypeOK, Gates, Busy, CommandShows, Publishes,
     Invalidate
<1>7. Requests'
  BY <1>1, <1>2, <1>3, Proxies DEF TypeOK, Slots, Gates, Requests, Readers,
     CommandShows, Publishes, Invalidate, Busy
<1> QED BY <1>4, <1>5, <1>6, <1>7

LEMMA CommandReadsAgainStep ==
    ASSUME IInv, CommandReadsAgain
    PROVE  IInv'
<1> USE BoundsAssumption DEF BoundsAssumption, IInv, commandVars, pumpVars, maintVars,
        readVars, pageVars
<1>1. /\ read' \in [Readers -> Reads] /\ read'["command"].at = "none"
      /\ \A q \in Readers \ {"command"} : read'[q] = read[q]
  BY FreesSlot DEF TypeOK, Readers, Publishes, Drops, CommandReadsAgain
<1>2. TypeOK'
  BY <1>1 DEF TypeOK, CommandReadsAgain, Drops
<1>3. Slots'
  BY <1>1 DEF TypeOK, Slots, Gates, Readers, CommandReadsAgain, Drops
<1>4. Gates'
  BY <1>1 DEF TypeOK, Gates, Busy, CommandReadsAgain, Drops
<1>5. Requests'
  BY <1>1, Proxies DEF TypeOK, Slots, Gates, Requests, Readers,
     CommandReadsAgain, Drops
<1> QED BY <1>2, <1>3, <1>4, <1>5

LEMMA CommandReadThrowsStep ==
    ASSUME IInv, CommandReadThrows
    PROVE  IInv'
<1> USE BoundsAssumption DEF BoundsAssumption, IInv, commandVars, pumpVars, maintVars,
        readVars, pageVars
<1>1. /\ read' \in [Readers -> Reads] /\ read'["command"].at = "none"
      /\ \A q \in Readers \ {"command"} : read'[q] = read[q]
  BY FreesSlot DEF TypeOK, Readers, Publishes, Drops, CommandReadThrows
<1>2. task' \in Tasks /\ task'.at = "settle"
  BY TaskAt DEF TypeOK, TaskPoints, CommandReadThrows
<1>3. TypeOK'
  BY <1>1, <1>2 DEF TypeOK, CommandReadThrows, Drops, Busy
<1>4. Slots'
  BY <1>1, <1>2 DEF TypeOK, Slots, Gates, Readers, CommandReadThrows, Drops,
     Busy
<1>5. Gates'
  BY <1>1, <1>2 DEF TypeOK, Gates, Busy, CommandReadThrows, Drops
<1>6. Requests'
  BY <1>1, <1>2, Proxies DEF TypeOK, Slots, Gates, Requests, Readers,
     CommandReadThrows, Drops, Busy
<1> QED BY <1>3, <1>4, <1>5, <1>6

LEMMA CommandSettlesStep ==
    ASSUME IInv, CommandSettles
    PROVE  IInv'
<1> USE BoundsAssumption DEF BoundsAssumption, IInv, commandVars, pumpVars, maintVars,
        readVars, pageVars
<1>1. task' \in Tasks /\ task'.at = "none" /\ done' \in Effects
  BY DEF TypeOK, Tasks, Effects, Finish, NoTask, CommandSettles
<1>2. /\ refresh' = TRUE /\ ticked' \in BOOLEAN /\ countdown' = countdown
      /\ asked' = world.proxy /\ asked' \in Nat
      /\ ticked' <=> read["pump"].at # "none"
  BY Requested DEF CommandSettles
<1>3. TypeOK'
  BY <1>1, <1>2 DEF TypeOK, CommandSettles, Finish, Invalidate, Busy
<1>4. Slots'
  BY <1>1, <1>2 DEF TypeOK, Slots, Gates, Readers, CommandSettles, Finish,
     Invalidate, Busy
<1>5. Gates'
  BY <1>1, <1>2 DEF TypeOK, Gates, Busy, CommandSettles, Finish, Invalidate
<1>6. Requests'
  BY <1>1, <1>2, Proxies DEF TypeOK, Slots, Gates, Requests, Readers,
     CommandSettles, Finish, Invalidate, Busy
<1> QED BY <1>3, <1>4, <1>5, <1>6

LEMMA SaveSettlesStep ==
    ASSUME IInv, SaveSettles
    PROVE  IInv'
<1> USE BoundsAssumption DEF BoundsAssumption, IInv, commandVars, pumpVars, maintVars,
        readVars, pageVars
<1>1. /\ read' \in [Readers -> Reads] /\ read'["command"].at = "none"
      /\ \A q \in Readers \ {"command"} : read'[q] = read[q]
  BY FreesSlot DEF TypeOK, Readers, Publishes, Drops, SaveSettles
<1>2. view' \in Views /\ view'.proxy = read["command"].proxy
  BY ShownValue DEF TypeOK, Readers, SaveSettles
<1>3. task' \in Tasks /\ task'.at = "none" /\ done' \in Effects
  BY DEF TypeOK, Tasks, Effects, Finish, NoTask, SaveSettles
<1>4. TypeOK'
  BY <1>1, <1>2, <1>3 DEF TypeOK, SaveSettles, Finish, Invalidate, Publishes,
     Busy
<1>5. Slots'
  BY <1>1, <1>2, <1>3 DEF TypeOK, Slots, Gates, Readers, SaveSettles, Finish,
     Invalidate, Publishes, Busy
<1>6. Gates'
  BY <1>1, <1>2, <1>3 DEF TypeOK, Gates, Busy, SaveSettles, Finish,
     Invalidate, Publishes
<1>7. Requests'
  BY <1>1, <1>2, <1>3, Proxies DEF TypeOK, Slots, Gates, Requests, Readers,
     SaveSettles, Finish, Invalidate, Publishes, Busy
<1> QED BY <1>4, <1>5, <1>6, <1>7

LEMMA SaveThrowsStep ==
    ASSUME IInv, SaveThrows
    PROVE  IInv'
<1> USE BoundsAssumption DEF BoundsAssumption, IInv, commandVars, pumpVars, maintVars,
        readVars, pageVars
<1>1. /\ read' \in [Readers -> Reads] /\ read'["command"].at = "none"
      /\ \A q \in Readers \ {"command"} : read'[q] = read[q]
  BY FreesSlot DEF TypeOK, Readers, Publishes, Drops, SaveThrows
<1>2. task' \in Tasks /\ task'.at = "none" /\ done' \in Effects
  BY DEF TypeOK, Tasks, Effects, Finish, NoTask, SaveThrows
<1>3. TypeOK'
  BY <1>1, <1>2 DEF TypeOK, SaveThrows, Finish, Invalidate, Drops, Busy
<1>4. Slots'
  BY <1>1, <1>2 DEF TypeOK, Slots, Gates, Readers, SaveThrows, Finish,
     Invalidate, Drops, Busy
<1>5. Gates'
  BY <1>1, <1>2 DEF TypeOK, Gates, Busy, SaveThrows, Finish, Invalidate, Drops
<1>6. Requests'
  BY <1>1, <1>2, Proxies DEF TypeOK, Slots, Gates, Requests, Readers,
     SaveThrows, Finish, Invalidate, Drops, Busy
<1> QED BY <1>3, <1>4, <1>5, <1>6

LEMMA InstallForCommandStep ==
    ASSUME IInv, InstallForCommand
    PROVE  IInv'
<1> USE BoundsAssumption DEF BoundsAssumption, IInv, commandVars, pumpVars, maintVars,
        readVars, pageVars
<1>1. /\ world' \in Worlds /\ world'.proxy \in Nat /\ world'.proxy >= world.proxy
      /\ task' \in Tasks /\ task'.at \in {"read", "execute"}
  <2>1. CASE UNCHANGED world /\ task' = [task EXCEPT !.at = "read"]
    <3>1. task' \in Tasks /\ task'.at = "read"
      BY <2>1, TaskAt DEF TypeOK, TaskPoints
    <3> QED BY <2>1, <3>1, Proxies DEF TypeOK
  <2>2. ASSUME NEW next \in Moved, NEW stopped \in BOOLEAN,
               world' = Serviced(next, TRUE),
               task' = [Leaves(task, world') EXCEPT !.again = TRUE,
                            !.at = IF stopped THEN "execute" ELSE "read"]
        PROVE  /\ world' \in Worlds /\ world'.proxy \in Nat
               /\ world'.proxy >= world.proxy
               /\ task' \in Tasks /\ task'.at \in {"read", "execute"}
    <3>1. next \in Worlds /\ next.proxy \in Nat /\ next.proxy >= world.proxy
      BY MovedValues DEF TypeOK
    <3>2. world' \in Worlds /\ world'.proxy = next.proxy
      BY <2>2, <3>1, WorldValues
    <3> DEFINE a == IF stopped THEN "execute" ELSE "read"
    <3>3. a \in TaskPoints /\ a \in {"read", "execute"}
      BY DEF TaskPoints
    <3>4. task' = [Leaves(task, world') EXCEPT !.again = TRUE, !.at = a]
      BY <2>2
    <3> HIDE DEF a
    <3>5. Leaves(task, world') \in Tasks
      BY <3>2, TaskLeaves DEF TypeOK
    <3>6. task' \in Tasks /\ task'.at = a
      BY <3>3, <3>4, <3>5, TaskAgain
    <3> QED BY <3>1, <3>2, <3>3, <3>6
  <2> QED BY <2>1, <2>2 DEF InstallForCommand
<1>2. TypeOK'
  BY <1>1 DEF TypeOK, InstallForCommand, Busy
<1>3. Slots'
  BY <1>1 DEF TypeOK, Slots, Gates, Readers, InstallForCommand, Busy
<1>4. Gates'
  BY <1>1 DEF TypeOK, Gates, Busy, InstallForCommand
<1>5. Requests'
  <2>1. UNCHANGED <<view, read, refresh, ticked, asked>>
    BY DEF InstallForCommand
  <2> QED BY <1>1, <2>1, Proxies DEF Requests
<1> QED BY <1>2, <1>3, <1>4, <1>5

LEMMA PumpReadsStep ==
    ASSUME IInv, PumpReads
    PROVE  IInv'
<1> USE BoundsAssumption DEF BoundsAssumption, IInv, commandVars, pumpVars, maintVars,
        readVars, pageVars
<1>1. /\ read' \in [Readers -> Reads] /\ read["pump"].at = "none"
      /\ read'["pump"].at = "snapshot" /\ read'["pump"].slow = (countdown = 0 \/ refresh)
      /\ ~(countdown = 0 \/ refresh) => read'["pump"].proxy = view.proxy
      /\ \A q \in Readers \ {"pump"} : read'[q] = read[q]
  BY StartsSlot DEF TypeOK, Readers, PumpReads
<1>2. TypeOK'
  BY <1>1 DEF TypeOK, PumpReads, Captures, Busy
<1>3. Slots'
  <2>1. read'["pump"].slow <=> countdown = 0 \/ refresh
    BY <1>1
  <2>2. ~read'["pump"].slow => countdown' > 0
    BY <2>1, BoundsAssumption DEF TypeOK, PumpReads, BoundsAssumption
  <2> QED BY <1>1, <2>2 DEF TypeOK, Slots, Readers, PumpReads
<1>4. Gates'
  BY <1>1 DEF TypeOK, Gates, Busy, PumpReads, Captures
<1>5. Requests'
  BY <1>1, Proxies DEF TypeOK, Slots, Gates, Requests, Readers, PumpReads,
     Captures, Busy
<1> QED BY <1>2, <1>3, <1>4, <1>5

LEMMA PumpPublishesStep ==
    ASSUME IInv, PumpPublishes
    PROVE  IInv'
<1> USE BoundsAssumption DEF BoundsAssumption, IInv, commandVars, pumpVars, maintVars,
        readVars, pageVars
<1>1. /\ read' \in [Readers -> Reads] /\ read'["pump"].at = "none"
      /\ \A q \in Readers \ {"pump"} : read'[q] = read[q]
  BY FreesSlot DEF TypeOK, Readers, Publishes, Drops, PumpPublishes
<1>2. view' \in Views /\ view'.proxy = read["pump"].proxy
  BY ShownValue DEF TypeOK, Readers, PumpPublishes
<1>3. TypeOK'
  <2>1. countdown' \in 0..SlowInterval
    <3>1. read["pump"].slow => countdown' = SlowInterval
      BY DEF PumpPublishes, NextCountdown
    <3>2. ~read["pump"].slow => countdown > 0 /\ countdown' = countdown - 1
      BY DEF PumpPublishes, NextCountdown, Slots
    <3> QED BY <3>1, <3>2 DEF TypeOK
  <2>2. crossed' \subseteq Readers /\ stale' \subseteq Readers
    BY DEF TypeOK, PumpPublishes, Publishes
  <2> QED BY <1>1, <1>2, <2>1, <2>2 DEF TypeOK, PumpPublishes
<1>4. Slots'
  BY <1>1, <1>2 DEF TypeOK, Slots, Gates, Readers, PumpPublishes, Publishes,
     AcceptsPoll, NextCountdown, Busy
<1>5. Gates'
  BY <1>1, <1>2 DEF TypeOK, Gates, Busy, PumpPublishes, Publishes,
     AcceptsPoll, NextCountdown
<1>6. Requests'
  BY <1>1, <1>2, Proxies DEF TypeOK, Slots, Gates, Requests, Readers,
     PumpPublishes, Publishes, AcceptsPoll, NextCountdown, Busy
<1> QED BY <1>3, <1>4, <1>5, <1>6

LEMMA PumpDropsStep ==
    ASSUME IInv, PumpDrops
    PROVE  IInv'
<1> USE BoundsAssumption DEF BoundsAssumption, IInv, commandVars, pumpVars, maintVars,
        readVars, pageVars
<1>1. /\ read' \in [Readers -> Reads] /\ read'["pump"].at = "none"
      /\ \A q \in Readers \ {"pump"} : read'[q] = read[q]
  BY FreesSlot DEF TypeOK, Readers, Publishes, Drops, PumpDrops
<1>2. TypeOK'
  BY <1>1 DEF TypeOK, PumpDrops, Drops
<1>3. Slots'
  BY <1>1 DEF TypeOK, Slots, Gates, Readers, PumpDrops, Drops
<1>4. Gates'
  BY <1>1 DEF TypeOK, Gates, Busy, PumpDrops, Drops
<1>5. Requests'
  BY <1>1, Proxies DEF TypeOK, Slots, Gates, Requests, Readers, PumpDrops,
     Drops
<1> QED BY <1>2, <1>3, <1>4, <1>5

LEMMA ReadSnapshotStep ==
    ASSUME IInv, NEW r \in Readers, ReadSnapshot(r)
    PROVE  IInv'
<1> USE BoundsAssumption DEF BoundsAssumption, IInv, commandVars, pumpVars, maintVars,
        readVars, pageVars
<1>1. /\ read' \in [Readers -> Reads] /\ read[r].at = "snapshot"
      /\ read'[r].at \in {"probe", "done"} /\ (read'[r].at = "done" => r = "writer")
      /\ read'[r].slow = read[r].slow /\ read'[r].proxy = read[r].proxy
      /\ \A q \in Readers \ {r} : read'[q] = read[q]
  BY SnapshotSlot DEF TypeOK
<1>2. TypeOK'
  BY <1>1 DEF TypeOK, ReadSnapshot
<1>3. Slots'
  BY <1>1 DEF TypeOK, Slots, Gates, Readers, ReadSnapshot
<1>4. Gates'
  BY <1>1 DEF TypeOK, Gates, Busy, ReadSnapshot
<1>5. Requests'
  BY <1>1, Proxies DEF TypeOK, Slots, Gates, Requests, Readers, ReadSnapshot
<1> QED BY <1>2, <1>3, <1>4, <1>5

LEMMA ReadProbeStep ==
    ASSUME IInv, NEW r \in Readers, ReadProbe(r)
    PROVE  IInv'
<1> USE BoundsAssumption DEF BoundsAssumption, IInv, commandVars, pumpVars, maintVars,
        readVars, pageVars
<1>1. /\ read' \in [Readers -> Reads] /\ read[r].at = "probe"
      /\ read'[r].at = "done" /\ read'[r].slow = read[r].slow
      /\ read[r].slow => read'[r].proxy = world.proxy
      /\ ~read[r].slow => read'[r].proxy = read[r].proxy
      /\ \A q \in Readers \ {r} : read'[q] = read[q]
  BY ProbeSlot DEF TypeOK
<1>2. TypeOK'
  BY <1>1 DEF TypeOK, ReadProbe
<1>3. Slots'
  BY <1>1 DEF TypeOK, Slots, Gates, Readers, ReadProbe
<1>4. Gates'
  BY <1>1 DEF TypeOK, Gates, Busy, ReadProbe
<1>5. Requests'
  BY SMTT(30), <1>1, Proxies DEF TypeOK, Slots, Gates, Requests, Readers, ReadProbe
<1> QED BY <1>2, <1>3, <1>4, <1>5

LEMMA StartupMaintenanceStep ==
    ASSUME IInv, StartupMaintenance
    PROVE  IInv'
<1> USE BoundsAssumption DEF BoundsAssumption, IInv, commandVars, pumpVars, maintVars,
        readVars, pageVars
<1>1. maint' \in Maintenances /\ maint'.at = "work"
  BY DEF Maintenances, NoMaintenance, MaintenanceStarts, StartupMaintenance
<1>2. TypeOK'
  BY <1>1 DEF TypeOK, StartupMaintenance, MaintenanceStarts
<1>3. Slots'
  BY <1>1 DEF TypeOK, Slots, Gates, Readers, StartupMaintenance,
     MaintenanceStarts
<1>4. Gates'
  BY <1>1 DEF TypeOK, Gates, Busy, StartupMaintenance, MaintenanceStarts
<1>5. Requests'
  BY <1>1, Proxies DEF TypeOK, Slots, Gates, Requests, Readers,
     StartupMaintenance, MaintenanceStarts
<1> QED BY <1>2, <1>3, <1>4, <1>5

LEMMA ServiceMaintenanceStep ==
    ASSUME IInv, NEW kind \in {"install", "uninstall"}, ServiceMaintenance(kind)
    PROVE  IInv'
<1> USE BoundsAssumption DEF BoundsAssumption, IInv, commandVars, pumpVars, maintVars,
        readVars, pageVars
<1>1. maint' \in Maintenances /\ maint'.at = "work"
  BY DEF Maintenances, NoMaintenance, MaintenanceStarts, ServiceMaintenance
<1>2. TypeOK'
  BY <1>1 DEF TypeOK, ServiceMaintenance, MaintenanceStarts
<1>3. Slots'
  BY <1>1 DEF TypeOK, Slots, Gates, Readers, ServiceMaintenance,
     MaintenanceStarts
<1>4. Gates'
  BY <1>1 DEF TypeOK, Gates, Busy, ServiceMaintenance, MaintenanceStarts
<1>5. Requests'
  BY <1>1, Proxies DEF TypeOK, Slots, Gates, Requests, Readers,
     ServiceMaintenance, MaintenanceStarts
<1> QED BY <1>2, <1>3, <1>4, <1>5

LEMMA StartupWorksStep ==
    ASSUME IInv, StartupWorks
    PROVE  IInv'
<1> USE BoundsAssumption DEF BoundsAssumption, IInv, commandVars, pumpVars, maintVars,
        readVars, pageVars
<1>1. world' \in Worlds /\ world'.proxy \in Nat /\ world'.proxy >= world.proxy
  BY MovedValues DEF TypeOK, StartupWorks
<1>2. maint' \in Maintenances /\ maint'.at = "read" /\ maint'.kind = "startup"
  BY DEF TypeOK, Maintenances, StartupWorks
<1>3. TypeOK'
  BY <1>1, <1>2 DEF TypeOK, StartupWorks
<1>4. Slots'
  BY <1>1, <1>2 DEF TypeOK, Slots, Gates, Readers, StartupWorks
<1>5. Gates'
  BY <1>1, <1>2 DEF TypeOK, Gates, Busy, StartupWorks
<1>6. Requests'
  BY <1>1, <1>2, Proxies DEF TypeOK, Slots, Gates, Requests, Readers,
     StartupWorks
<1> QED BY <1>3, <1>4, <1>5, <1>6

LEMMA StartupReadsStep ==
    ASSUME IInv, StartupReads
    PROVE  IInv'
<1> USE BoundsAssumption DEF BoundsAssumption, IInv, commandVars, pumpVars, maintVars,
        readVars, pageVars
<1>1. /\ read' \in [Readers -> Reads] /\ read["maintenance"].at = "none"
      /\ read'["maintenance"].at = "snapshot" /\ read'["maintenance"].slow = (TRUE)
      /\ ~(TRUE) => read'["maintenance"].proxy = view.proxy
      /\ \A q \in Readers \ {"maintenance"} : read'[q] = read[q]
  BY StartsSlot DEF TypeOK, Readers, StartupReads
<1>2. TypeOK'
  BY <1>1 DEF TypeOK, StartupReads
<1>3. Slots'
  BY <1>1 DEF TypeOK, Slots, Gates, Readers, StartupReads
<1>4. Gates'
  BY <1>1 DEF TypeOK, Gates, Busy, StartupReads
<1>5. Requests'
  BY <1>1, Proxies DEF TypeOK, Slots, Gates, Requests, Readers, StartupReads
<1> QED BY <1>2, <1>3, <1>4, <1>5

LEMMA StartupShowsStep ==
    ASSUME IInv, StartupShows
    PROVE  IInv'
<1> USE BoundsAssumption DEF BoundsAssumption, IInv, commandVars, pumpVars, maintVars,
        readVars, pageVars
<1>1. /\ read' \in [Readers -> Reads] /\ read'["maintenance"].at = "none"
      /\ \A q \in Readers \ {"maintenance"} : read'[q] = read[q]
  BY FreesSlot DEF TypeOK, Readers, Publishes, Drops, StartupShows
<1>2. view' \in Views /\ view'.proxy = read["maintenance"].proxy
  BY ShownValue DEF TypeOK, Readers, StartupShows
<1>3. maint' \in Maintenances /\ maint'.at = "none" /\ checking' = FALSE
  BY DEF Maintenances, NoMaintenance, MaintenanceEnds, StartupShows
<1>4. /\ task' \in Tasks /\ (task'.at # "none" <=> command' # "Idle")
      /\ command' \in CoreActions \cup {"Idle"} /\ serial' \in 0..MaxCommands
      /\ done' = done /\ diagnosis' \in {"none", "running", "cancelled"}
      /\ crossed' \subseteq Readers
      /\ Busy' => ~Busy \/ UNCHANGED commandVars
  <2>1. CASE UNCHANGED <<commandVars, diagnosis, crossed>>
    BY <2>1 DEF TypeOK, Gates, Busy
  <2>2. ASSUME NEW action \in {"Start", "Connect"}, Runs(action, FALSE, "maintenance")
        PROVE  /\ Begin(action, FALSE) /\ action \in CoreActions
               /\ CancelDiagnostics
               /\ crossed' = crossed \cup (Reading \ {"maintenance"})
    BY <2>2 DEF Runs, CoreActions
  <2> QED BY <2>1, <2>2, Begun, Cancelled DEF StartupShows
<1>5. /\ refresh' = TRUE /\ ticked' \in BOOLEAN /\ countdown' = countdown
      /\ asked' = world.proxy /\ asked' \in Nat
      /\ ticked' <=> read["pump"].at # "none"
  BY Requested DEF StartupShows
<1>6. TypeOK'
  BY <1>1, <1>2, <1>3, <1>4, <1>5 DEF TypeOK, StartupShows, Invalidate,
     MaintenanceEnds
<1>7. Slots'
  BY <1>1, <1>2, <1>3, <1>4, <1>5 DEF TypeOK, Slots, Gates, Readers,
     StartupShows, Runs, Begin, CancelDiagnostics, Invalidate, Busy,
     MaintenanceEnds, CoreActions
<1>8. Gates'
  BY <1>1, <1>2, <1>3, <1>4, <1>5 DEF TypeOK, Gates, Busy, StartupShows, Runs,
     Begin, CancelDiagnostics, Invalidate, MaintenanceEnds, CoreActions
<1>9. Requests'
  BY <1>1, <1>2, <1>3, <1>4, <1>5, Proxies DEF TypeOK, Slots, Gates, Requests,
     Readers, StartupShows, Runs, Begin, CancelDiagnostics, Invalidate, Busy,
     MaintenanceEnds, CoreActions
<1> QED BY <1>6, <1>7, <1>8, <1>9

LEMMA StartupThrowsStep ==
    ASSUME IInv, StartupThrows
    PROVE  IInv'
<1> USE BoundsAssumption DEF BoundsAssumption, IInv, commandVars, pumpVars, maintVars,
        readVars, pageVars
<1>1. /\ read' \in [Readers -> Reads] /\ read'["maintenance"].at = "none"
      /\ \A q \in Readers \ {"maintenance"} : read'[q] = read[q]
  BY FreesSlot DEF TypeOK, Readers, Publishes, Drops, StartupThrows
<1>2. maint' \in Maintenances /\ maint'.at = "none" /\ checking' = FALSE
  BY DEF Maintenances, NoMaintenance, MaintenanceEnds, StartupThrows
<1>3. /\ refresh' = TRUE /\ ticked' \in BOOLEAN /\ countdown' = countdown
      /\ asked' = world.proxy /\ asked' \in Nat
      /\ ticked' <=> read["pump"].at # "none"
  BY Requested DEF StartupThrows
<1>4. TypeOK'
  BY <1>1, <1>2, <1>3 DEF TypeOK, StartupThrows, Drops, Invalidate,
     MaintenanceEnds
<1>5. Slots'
  BY <1>1, <1>2, <1>3 DEF TypeOK, Slots, Gates, Readers, StartupThrows, Drops,
     Invalidate, MaintenanceEnds
<1>6. Gates'
  BY <1>1, <1>2, <1>3 DEF TypeOK, Gates, Busy, StartupThrows, Drops,
     Invalidate, MaintenanceEnds
<1>7. Requests'
  BY <1>1, <1>2, <1>3, Proxies DEF TypeOK, Slots, Gates, Requests, Readers,
     StartupThrows, Drops, Invalidate, MaintenanceEnds
<1> QED BY <1>4, <1>5, <1>6, <1>7

LEMMA ServiceShowsStep ==
    ASSUME IInv, ServiceShows
    PROVE  IInv'
<1> USE BoundsAssumption DEF BoundsAssumption, IInv, commandVars, pumpVars, maintVars,
        readVars, pageVars
<1>1. maint' \in Maintenances /\ maint'.at = "none" /\ checking' = FALSE
  BY DEF Maintenances, NoMaintenance, MaintenanceEnds, ServiceShows
<1>2. view' \in Views /\ view'.proxy = view.proxy
  BY DEF TypeOK, Views, Maintenances, ServiceShows
<1>3. /\ refresh' = TRUE /\ ticked' \in BOOLEAN /\ countdown' = countdown
      /\ asked' = world.proxy /\ asked' \in Nat
      /\ ticked' <=> read["pump"].at # "none"
  BY Requested DEF ServiceShows
<1>4. TypeOK'
  BY <1>1, <1>2, <1>3 DEF TypeOK, ServiceShows, Invalidate, MaintenanceEnds
<1>5. Slots'
  BY <1>1, <1>2, <1>3 DEF TypeOK, Slots, Gates, Readers, ServiceShows,
     Invalidate, MaintenanceEnds
<1>6. Gates'
  BY <1>1, <1>2, <1>3 DEF TypeOK, Gates, Busy, ServiceShows, Invalidate,
     MaintenanceEnds
<1>7. Requests'
  BY <1>1, <1>2, <1>3, Proxies DEF TypeOK, Slots, Gates, Requests, Readers,
     ServiceShows, Invalidate, MaintenanceEnds
<1> QED BY <1>4, <1>5, <1>6, <1>7

LEMMA ServiceThrowsStep ==
    ASSUME IInv, ServiceThrows
    PROVE  IInv'
<1> USE BoundsAssumption DEF BoundsAssumption, IInv, commandVars, pumpVars, maintVars,
        readVars, pageVars
<1>1. maint' \in Maintenances /\ maint'.at = "none" /\ checking' = FALSE
  BY DEF Maintenances, NoMaintenance, MaintenanceEnds, ServiceThrows
<1>2. TypeOK'
  BY <1>1 DEF TypeOK, ServiceThrows, MaintenanceEnds
<1>3. Slots'
  BY <1>1 DEF TypeOK, Slots, Gates, Readers, ServiceThrows, MaintenanceEnds
<1>4. Gates'
  BY <1>1 DEF TypeOK, Gates, Busy, ServiceThrows, MaintenanceEnds
<1>5. Requests'
  BY <1>1, Proxies DEF TypeOK, Slots, Gates, Requests, Readers, ServiceThrows,
     MaintenanceEnds
<1> QED BY <1>2, <1>3, <1>4, <1>5

LEMMA ServiceWorksStep ==
    ASSUME IInv, ServiceWorks
    PROVE  IInv'
<1> USE BoundsAssumption DEF BoundsAssumption, IInv, commandVars, pumpVars, maintVars,
        readVars, pageVars
<1>1. world' \in Worlds /\ world'.proxy \in Nat /\ world'.proxy >= world.proxy
  <2>1. CASE UNCHANGED world
    BY <2>1, Proxies DEF TypeOK
  <2>2. ASSUME NEW next \in Moved, world' = Serviced(next, maint.kind = "install")
        PROVE  world' \in Worlds /\ world'.proxy = next.proxy
    <3>1. next \in Worlds /\ (maint.kind = "install") \in BOOLEAN
      BY MovedValues DEF TypeOK
    <3> QED BY <2>2, <3>1, WorldValues
  <2> QED BY <2>1, <2>2, MovedValues DEF TypeOK, ServiceWorks
<1>2. maint' \in Maintenances /\ maint'.at = "report"
  BY <1>1, WorldValues DEF TypeOK, Maintenances, ServiceWorks
<1>3. TypeOK'
  BY <1>1, <1>2 DEF TypeOK, ServiceWorks
<1>4. Slots'
  BY <1>1, <1>2 DEF TypeOK, Slots, Gates, Readers, ServiceWorks
<1>5. Gates'
  BY <1>1, <1>2 DEF TypeOK, Gates, Busy, ServiceWorks
<1>6. Requests'
  BY <1>1, <1>2, Proxies DEF TypeOK, Slots, Gates, Requests, Readers,
     ServiceWorks
<1> QED BY <1>3, <1>4, <1>5, <1>6

LEMMA WriterStartsStep ==
    ASSUME IInv, NEW kind \in Sources \cap {"Edit", "Activate", "Open"},
           WriterStarts(kind)
    PROVE  IInv'
<1> USE BoundsAssumption DEF BoundsAssumption, IInv, commandVars, pumpVars, maintVars,
        readVars, pageVars
<1>1. writer' \in Writers
  BY DEF Writers, AllSources, WriterStarts
<1>2. TypeOK'
  BY <1>1 DEF TypeOK, WriterStarts
<1>3. Slots'
  BY <1>1 DEF TypeOK, Slots, Gates, Readers, WriterStarts
<1>4. Gates'
  BY <1>1 DEF TypeOK, Gates, Busy, WriterStarts
<1>5. Requests'
  BY <1>1, Proxies DEF TypeOK, Slots, Gates, Requests, Readers, WriterStarts
<1> QED BY <1>2, <1>3, <1>4, <1>5

LEMMA WriterWorksStep ==
    ASSUME IInv, WriterWorks
    PROVE  IInv'
<1> USE BoundsAssumption DEF BoundsAssumption, IInv, commandVars, pumpVars, maintVars,
        readVars, pageVars
<1>1. world' \in Worlds /\ world'.proxy \in Nat /\ world'.proxy >= world.proxy
  BY MovedValues DEF TypeOK, WriterWorks
<1>2. writer' \in Writers
  BY DEF TypeOK, Writers, WriterWorks
<1>3. TypeOK'
  BY <1>1, <1>2 DEF TypeOK, WriterWorks
<1>4. Slots'
  BY <1>1, <1>2 DEF TypeOK, Slots, Gates, Readers, WriterWorks
<1>5. Gates'
  BY <1>1, <1>2 DEF TypeOK, Gates, Busy, WriterWorks
<1>6. Requests'
  BY <1>1, <1>2, Proxies DEF TypeOK, Slots, Gates, Requests, Readers,
     WriterWorks
<1> QED BY <1>3, <1>4, <1>5, <1>6

LEMMA EditReportsStep ==
    ASSUME IInv, EditReports
    PROVE  IInv'
<1> USE BoundsAssumption DEF BoundsAssumption, IInv, commandVars, pumpVars, maintVars,
        readVars, pageVars
<1>1. writer' \in Writers
  BY DEF Writers, WriterEnds, EditReports
<1>2. /\ refresh' = TRUE /\ ticked' \in BOOLEAN /\ countdown' = countdown
      /\ asked' = world.proxy /\ asked' \in Nat
      /\ ticked' <=> read["pump"].at # "none"
  BY Requested DEF EditReports
<1>3. TypeOK'
  BY <1>1, <1>2 DEF TypeOK, EditReports, Invalidate
<1>4. Slots'
  BY <1>1, <1>2 DEF TypeOK, Slots, Gates, Readers, EditReports, Invalidate
<1>5. Gates'
  BY <1>1, <1>2 DEF TypeOK, Gates, Busy, EditReports, Invalidate
<1>6. Requests'
  BY <1>1, <1>2, Proxies DEF TypeOK, Slots, Gates, Requests, Readers,
     EditReports, Invalidate
<1> QED BY <1>3, <1>4, <1>5, <1>6

LEMMA WriterReadsStep ==
    ASSUME IInv, WriterReads
    PROVE  IInv'
<1> USE BoundsAssumption DEF BoundsAssumption, IInv, commandVars, pumpVars, maintVars,
        readVars, pageVars
<1>1. /\ read' \in [Readers -> Reads] /\ read["writer"].at = "none"
      /\ read'["writer"].at = "snapshot" /\ read'["writer"].slow = (TRUE)
      /\ ~(TRUE) => read'["writer"].proxy = view.proxy
      /\ \A q \in Readers \ {"writer"} : read'[q] = read[q]
  BY StartsSlot DEF TypeOK, Readers, WriterReads
<1>2. TypeOK'
  BY <1>1 DEF TypeOK, WriterReads
<1>3. Slots'
  BY <1>1 DEF TypeOK, Slots, Gates, Readers, WriterReads
<1>4. Gates'
  BY <1>1 DEF TypeOK, Gates, Busy, WriterReads
<1>5. Requests'
  BY <1>1, Proxies DEF TypeOK, Slots, Gates, Requests, Readers, WriterReads
<1> QED BY <1>2, <1>3, <1>4, <1>5

LEMMA WriterShowsStep ==
    ASSUME IInv, WriterShows
    PROVE  IInv'
<1> USE BoundsAssumption DEF BoundsAssumption, IInv, commandVars, pumpVars, maintVars,
        readVars, pageVars
<1>1. /\ read' \in [Readers -> Reads] /\ read'["writer"].at = "none"
      /\ \A q \in Readers \ {"writer"} : read'[q] = read[q]
  BY FreesSlot DEF TypeOK, Readers, Publishes, Drops, WriterShows
<1>2. writer' \in Writers
  BY DEF Writers, WriterEnds, WriterShows
<1>3. view' \in Views /\ view'.proxy = view.proxy
  BY DEF TypeOK, Views, Reads, Readers, WriterShows
<1>4. /\ task' \in Tasks /\ (task'.at # "none" <=> command' # "Idle")
      /\ command' \in CoreActions \cup {"Idle"} /\ serial' \in 0..MaxCommands
      /\ done' = done /\ diagnosis' \in {"none", "running", "cancelled"}
      /\ crossed' \subseteq Readers
      /\ Busy' => ~Busy \/ UNCHANGED commandVars
  <2>1. CASE UNCHANGED <<commandVars, diagnosis>> /\ crossed' = crossed \ {"writer"}
    BY <2>1 DEF TypeOK, Gates, Busy
  <2>2. CASE Runs("Connect", TRUE, "writer")
    <3>1. /\ Begin("Connect", TRUE) /\ "Connect" \in CoreActions
          /\ CancelDiagnostics
          /\ crossed' = crossed \cup (Reading \ {"writer"})
      BY <2>2 DEF Runs, CoreActions
    <3> QED BY <3>1, Begun, Cancelled
  <2> QED BY <2>1, <2>2 DEF WriterShows
<1>5. TypeOK'
  BY <1>1, <1>2, <1>3, <1>4 DEF TypeOK, WriterShows, Runs, Begin,
     CancelDiagnostics, Invalidate, ControlBusy, Busy, Reading, Readers,
     CoreActions
<1>6. Slots'
  BY <1>1, <1>2, <1>3, <1>4 DEF TypeOK, Slots, Gates, Readers, WriterShows,
     Runs, Begin, CancelDiagnostics, Invalidate, ControlBusy, Busy, Reading,
     CoreActions
<1>7. Gates'
  BY <1>1, <1>2, <1>3, <1>4 DEF TypeOK, Gates, Busy, WriterShows, Runs, Begin,
     CancelDiagnostics, Invalidate, ControlBusy, Reading, Readers, CoreActions
<1>8. Requests'
  BY <1>1, <1>2, <1>3, <1>4, Proxies DEF TypeOK, Slots, Gates, Requests,
     Readers, WriterShows, Runs, Begin, CancelDiagnostics, Invalidate,
     ControlBusy, Busy, Reading, CoreActions
<1> QED BY <1>5, <1>6, <1>7, <1>8

LEMMA OpenRequestsRefreshStep ==
    ASSUME IInv, OpenRequestsRefresh
    PROVE  IInv'
<1> USE BoundsAssumption DEF BoundsAssumption, IInv, commandVars, pumpVars, maintVars,
        readVars, pageVars
<1>1. /\ read' \in [Readers -> Reads] /\ read'["writer"].at = "none"
      /\ \A q \in Readers \ {"writer"} : read'[q] = read[q]
  BY FreesSlot DEF TypeOK, Readers, Publishes, Drops, OpenRequestsRefresh
<1>2. writer' \in Writers
  BY DEF Writers, WriterEnds, OpenRequestsRefresh
<1>3. /\ refresh' = TRUE /\ ticked' \in BOOLEAN /\ countdown' = countdown
      /\ asked' = world.proxy /\ asked' \in Nat
      /\ ticked' <=> read["pump"].at # "none"
  BY Requested DEF OpenRequestsRefresh
<1>4. TypeOK'
  BY <1>1, <1>2, <1>3 DEF TypeOK, OpenRequestsRefresh, Drops, Invalidate
<1>5. Slots'
  BY <1>1, <1>2, <1>3 DEF TypeOK, Slots, Gates, Readers, OpenRequestsRefresh,
     Drops, Invalidate
<1>6. Gates'
  BY <1>1, <1>2, <1>3 DEF TypeOK, Gates, Busy, OpenRequestsRefresh, Drops,
     Invalidate
<1>7. Requests'
  BY <1>1, <1>2, <1>3, Proxies DEF TypeOK, Slots, Gates, Requests, Readers,
     OpenRequestsRefresh, Drops, Invalidate
<1> QED BY <1>4, <1>5, <1>6, <1>7

LEMMA DiagnosticsStartStep ==
    ASSUME IInv, DiagnosticsStart
    PROVE  IInv'
<1> USE BoundsAssumption DEF BoundsAssumption, IInv, commandVars, pumpVars, maintVars,
        readVars, pageVars
<1>1. TypeOK'
  BY DEF TypeOK, DiagnosticsStart, Captures, Readers
<1>2. Slots'
  BY DEF TypeOK, Slots, Gates, Readers, DiagnosticsStart, Captures
<1>3. Gates'
  BY DEF TypeOK, Gates, Busy, DiagnosticsStart, Captures, Readers
<1>4. Requests'
  BY Proxies DEF TypeOK, Slots, Gates, Requests, Readers, DiagnosticsStart,
     Captures
<1> QED BY <1>1, <1>2, <1>3, <1>4

LEMMA DiagnosticsCancelStep ==
    ASSUME IInv, DiagnosticsCancel
    PROVE  IInv'
<1> USE BoundsAssumption DEF BoundsAssumption, IInv, commandVars, pumpVars, maintVars,
        readVars, pageVars
<1>1. TypeOK'
  BY DEF TypeOK, DiagnosticsCancel
<1>2. Slots'
  BY DEF TypeOK, Slots, Gates, Readers, DiagnosticsCancel
<1>3. Gates'
  BY DEF TypeOK, Gates, Busy, DiagnosticsCancel
<1>4. Requests'
  BY Proxies DEF TypeOK, Slots, Gates, Requests, Readers, DiagnosticsCancel
<1> QED BY <1>1, <1>2, <1>3, <1>4

LEMMA DiagnosticsEndStep ==
    ASSUME IInv, DiagnosticsEnd
    PROVE  IInv'
<1> USE BoundsAssumption DEF BoundsAssumption, IInv, commandVars, pumpVars, maintVars,
        readVars, pageVars
<1>1. TypeOK'
  BY DEF TypeOK, DiagnosticsEnd
<1>2. Slots'
  BY DEF TypeOK, Slots, Gates, Readers, DiagnosticsEnd
<1>3. Gates'
  BY DEF TypeOK, Gates, Busy, DiagnosticsEnd
<1>4. Requests'
  BY Proxies DEF TypeOK, Slots, Gates, Requests, Readers, DiagnosticsEnd
<1> QED BY <1>1, <1>2, <1>3, <1>4

LEMMA WorldMovesStep ==
    ASSUME IInv, WorldMoves
    PROVE  IInv'
<1> USE BoundsAssumption DEF BoundsAssumption, IInv, commandVars, pumpVars, maintVars,
        readVars, pageVars
<1>1. world' \in Worlds /\ world'.proxy \in Nat /\ world'.proxy >= world.proxy
  <2> DEFINE installed == ~world.installed
  <2>1. world \in Worlds /\ world.proxy \in Nat
    BY WorldValues DEF TypeOK
  <2>2. installed \in BOOLEAN
    OBVIOUS
  <2>3. world' \in {CoreMoved(world), ProxyMoved(world), Serviced(world, installed)}
    BY DEF WorldMoves
  <2> HIDE DEF installed
  <2>4. /\ CoreMoved(world) \in Worlds /\ CoreMoved(world).proxy = world.proxy
        /\ ProxyMoved(world) \in Worlds /\ ProxyMoved(world).proxy = world.proxy + 1
        /\ Serviced(world, installed) \in Worlds
        /\ Serviced(world, installed).proxy = world.proxy
    BY <2>1, <2>2, WorldValues
  <2> QED BY <2>1, <2>3, <2>4
<1>2. TypeOK'
  BY <1>1 DEF TypeOK, WorldMoves
<1>3. Slots'
  BY <1>1 DEF TypeOK, Slots, Gates, Readers, WorldMoves
<1>4. Gates'
  BY <1>1 DEF TypeOK, Gates, Busy, WorldMoves
<1>5. Requests'
  BY <1>1, Proxies DEF TypeOK, Slots, Gates, Requests, Readers, WorldMoves
<1> QED BY <1>2, <1>3, <1>4, <1>5

-----------------------------------------------------------------------------
(* The invariant *)

LEMMA NextIInv == IInv /\ [Next]_vars => IInv'
<1> SUFFICES ASSUME IInv, [Next]_vars PROVE IInv'
  OBVIOUS
<1>1. ASSUME NEW action \in Actions, UserCommands(action) PROVE IInv'
  BY <1>1, UserCommandsStep
<1>2. CASE ExecuteDenied
  BY <1>2, ExecuteDeniedStep
<1>3. CASE Execute
  BY <1>3, ExecuteStep
<1>4. CASE ExecuteStandby
  BY <1>4, ExecuteStandbyStep
<1>5. CASE CommandReads
  BY <1>5, CommandReadsStep
<1>6. CASE CommandShows
  BY <1>6, CommandShowsStep
<1>7. CASE CommandReadsAgain
  BY <1>7, CommandReadsAgainStep
<1>8. CASE CommandReadThrows
  BY <1>8, CommandReadThrowsStep
<1>9. CASE CommandSettles
  BY <1>9, CommandSettlesStep
<1>10. CASE SaveSettles
  BY <1>10, SaveSettlesStep
<1>11. CASE SaveThrows
  BY <1>11, SaveThrowsStep
<1>12. CASE InstallForCommand
  BY <1>12, InstallForCommandStep
<1>13. CASE PumpReads
  BY <1>13, PumpReadsStep
<1>14. CASE PumpPublishes
  BY <1>14, PumpPublishesStep
<1>15. CASE PumpDrops
  BY <1>15, PumpDropsStep
<1>16. ASSUME NEW r \in Readers, ReadSnapshot(r) PROVE IInv'
  BY <1>16, ReadSnapshotStep
<1>17. ASSUME NEW r \in Readers, ReadProbe(r) PROVE IInv'
  BY <1>17, ReadProbeStep
<1>18. CASE StartupMaintenance
  BY <1>18, StartupMaintenanceStep
<1>19. ASSUME NEW kind \in {"install", "uninstall"}, ServiceMaintenance(kind)
       PROVE  IInv'
  BY <1>19, ServiceMaintenanceStep
<1>20. CASE StartupWorks
  BY <1>20, StartupWorksStep
<1>21. CASE StartupReads
  BY <1>21, StartupReadsStep
<1>22. CASE StartupShows
  BY <1>22, StartupShowsStep
<1>23. CASE StartupThrows
  BY <1>23, StartupThrowsStep
<1>24. CASE ServiceShows
  BY <1>24, ServiceShowsStep
<1>25. CASE ServiceThrows
  BY <1>25, ServiceThrowsStep
<1>26. CASE ServiceWorks
  BY <1>26, ServiceWorksStep
<1>27. ASSUME NEW kind \in Sources \cap {"Edit", "Activate", "Open"}, WriterStarts(kind)
       PROVE  IInv'
  BY <1>27, WriterStartsStep
<1>28. CASE WriterWorks
  BY <1>28, WriterWorksStep
<1>29. CASE EditReports
  BY <1>29, EditReportsStep
<1>30. CASE WriterReads
  BY <1>30, WriterReadsStep
<1>31. CASE WriterShows
  BY <1>31, WriterShowsStep
<1>32. CASE OpenRequestsRefresh
  BY <1>32, OpenRequestsRefreshStep
<1>33. CASE DiagnosticsStart
  BY <1>33, DiagnosticsStartStep
<1>34. CASE DiagnosticsCancel
  BY <1>34, DiagnosticsCancelStep
<1>35. CASE DiagnosticsEnd
  BY <1>35, DiagnosticsEndStep
<1>36. CASE WorldMoves
  BY <1>36, WorldMovesStep
<1>37. CASE UNCHANGED vars
  <2>1. TypeOK'
    BY <1>37 DEF IInv, TypeOK, vars, commandVars, pumpVars, maintVars,
       readVars, pageVars
  <2>2. Slots' /\ Gates' /\ Requests'
    BY <1>37 DEF IInv, Slots, Gates, Requests, Busy, vars, commandVars, pumpVars,
       maintVars, readVars, pageVars
  <2> QED BY <2>1, <2>2 DEF IInv
<1> QED
  BY <1>1, <1>2, <1>3, <1>4, <1>5, <1>6, <1>7, <1>8, <1>9, <1>10, <1>11,
     <1>12, <1>13, <1>14, <1>15, <1>16, <1>17, <1>18, <1>19, <1>20, <1>21,
     <1>22, <1>23, <1>24, <1>25, <1>26, <1>27, <1>28, <1>29, <1>30, <1>31,
     <1>32, <1>33, <1>34, <1>35, <1>36, <1>37 DEF Next, CommandStep,
     ReadCoreView, MaintenanceStep, WriterStep

LEMMA Invariant == Spec => []IInv
<1>1. Init => IInv
  BY InitIInv
<1>2. IInv /\ [Next]_vars => IInv'
  BY NextIInv
<1> QED BY <1>1, <1>2, PTL DEF Spec

\* Every variable of the UI's core model keeps its type: the countdown of the
\* slow probe never goes below zero, whatever requests, fast polls and dropped
\* polls follow each other (common.cpp, DriveCoreModel).
THEOREM TypeCorrect == Spec => []TypeOK
<1>1. IInv => TypeOK
  BY DEF IInv
<1> QED BY <1>1, Invariant, PTL

\* The gate of the commands and the gate of service maintenance are never both
\* closed, whoever tests them first and whatever fails behind them.
THEOREM GatesExclude == Spec => []MaintenanceExcludesCommands
<1>1. IInv => MaintenanceExcludesCommands
  BY DEF IInv, Gates, MaintenanceExcludesCommands
<1> QED BY <1>1, Invariant, PTL

\* A requested refresh ends only with an answer of the desktop's proxy at least
\* as new as the request.
THEOREM RefreshIsAnswered == Spec => []RefreshReprobes
<1>1. IInv => RefreshReprobes
  BY DEF IInv, Requests, RefreshReprobes
<1> QED BY <1>1, Invariant, PTL

-----------------------------------------------------------------------------
(* Without the pages that write a snapshot through, nothing overtaken is shown *)

NoWriteThrough == Sources \cap {"Activate", "Open"} = {}

\* A reader that a command overtook is still reading and has lost its revision;
\* the two readers that check no revision are never overtaken, because their
\* owners keep the commands out.
CrossedInv ==
    /\ writer.kind \in {"none", "Edit"} /\ (writer.kind = "none" => writer.at = "none")
    /\ read["writer"].at = "none"
    /\ \A r \in crossed : /\ r \notin current
                         /\ IF r = "diagnostics" THEN diagnosis # "none"
                            ELSE read[r].at # "none"
    /\ "command" \notin crossed /\ "maintenance" \notin crossed
    /\ stale = {}

LEMMA InitCrossedInv == Init => CrossedInv
BY NoReadValue DEF Init, CrossedInv, Readers

LEMMA NextCrossedInv ==
    ASSUME NoWriteThrough, IInv, CrossedInv, [Next]_vars
    PROVE  CrossedInv'
<1> USE DEF commandVars, pumpVars, maintVars, readVars, pageVars
<1>0. TypeOK /\ Slots /\ Gates
  BY DEF IInv
<1>1. CASE ExecuteDenied
  BY <1>1 DEF CrossedInv, ExecuteDenied
<1>2. CASE Execute
  BY <1>2 DEF CrossedInv, Execute
<1>3. CASE ExecuteStandby
  BY <1>3 DEF CrossedInv, ExecuteStandby
<1>4. CASE InstallForCommand
  BY <1>4 DEF CrossedInv, InstallForCommand
<1>5. CASE StartupMaintenance
  BY <1>5 DEF CrossedInv, StartupMaintenance, MaintenanceStarts
<1>6. CASE StartupWorks
  BY <1>6 DEF CrossedInv, StartupWorks
<1>7. CASE ServiceThrows
  BY <1>7 DEF CrossedInv, ServiceThrows
<1>8. CASE ServiceWorks
  BY <1>8 DEF CrossedInv, ServiceWorks
<1>9. CASE WriterWorks
  BY <1>9 DEF CrossedInv, WriterWorks
<1>10. CASE DiagnosticsCancel
  BY <1>10 DEF CrossedInv, DiagnosticsCancel
<1>11. CASE WorldMoves
  BY <1>11 DEF CrossedInv, WorldMoves
<1>12. ASSUME NEW kind \in {"install", "uninstall"}, ServiceMaintenance(kind)
       PROVE  CrossedInv'
  BY <1>12 DEF CrossedInv, ServiceMaintenance, MaintenanceStarts
<1>13. ASSUME NEW kind \in Sources \cap {"Edit", "Activate", "Open"}, WriterStarts(kind)
      PROVE  CrossedInv'
  BY <1>13 DEF CrossedInv, WriterStarts, NoWriteThrough
<1>14. CASE ServiceShows
  BY <1>14 DEF CrossedInv, ServiceShows, Invalidate
<1>15. CASE CommandSettles
  BY <1>15 DEF CrossedInv, CommandSettles, Invalidate
<1>16. CASE EditReports
  BY <1>16 DEF CrossedInv, EditReports, Invalidate, WriterEnds
<1>17. CASE WriterReads
  BY <1>17, <1>0 DEF CrossedInv, WriterReads, TypeOK, Writers
<1>18. CASE WriterShows
  <2>1. FALSE
    BY <1>18 DEF CrossedInv, WriterShows
  <2> QED BY <2>1
<1>19. CASE OpenRequestsRefresh
  <2>1. FALSE
    BY <1>19 DEF CrossedInv, OpenRequestsRefresh
  <2> QED BY <2>1
<1>20. ASSUME NEW r \in Readers, ReadSnapshot(r) PROVE CrossedInv'
  <2>1. /\ read[r].at = "snapshot" /\ read'[r].at # "none"
        /\ \A q \in Readers \ {r} : read'[q] = read[q]
    BY <1>20, <1>0, SnapshotSlot DEF TypeOK
  <2> QED BY <1>20, <1>0, <2>1 DEF CrossedInv, TypeOK, ReadSnapshot, Readers
<1>21. ASSUME NEW r \in Readers, ReadProbe(r) PROVE CrossedInv'
  <2>1. /\ read[r].at = "probe" /\ read'[r].at # "none"
        /\ \A q \in Readers \ {r} : read'[q] = read[q]
    BY <1>21, <1>0, ProbeSlot DEF TypeOK
  <2> QED BY <1>21, <1>0, <2>1 DEF CrossedInv, TypeOK, ReadProbe, Readers
<1>22. CASE PumpReads
  <2>1. /\ read["pump"].at = "none"
        /\ \A q \in Readers \ {"pump"} : read'[q] = read[q]
    BY <1>22, <1>0, StartsSlot DEF TypeOK, Readers, PumpReads
  <2> QED BY <1>22, <1>0, <2>1 DEF CrossedInv, TypeOK, Readers, PumpReads, Captures
<1>23. CASE CommandReads
  <2>1. /\ read["command"].at = "none"
        /\ \A q \in Readers \ {"command"} : read'[q] = read[q]
    BY <1>23, <1>0, StartsSlot DEF TypeOK, Readers, CommandReads
  <2> QED BY <1>23, <1>0, <2>1 DEF CrossedInv, TypeOK, Readers, CommandReads,
     Captures
<1>24. CASE StartupReads
  <2>1. /\ read["maintenance"].at = "none"
        /\ \A q \in Readers \ {"maintenance"} : read'[q] = read[q]
    BY <1>24, <1>0, StartsSlot DEF TypeOK, Readers, StartupReads
  <2> QED BY <1>24, <1>0, <2>1 DEF CrossedInv, TypeOK, Readers, StartupReads
<1>25. CASE PumpPublishes
  <2>1. \A q \in Readers \ {"pump"} : read'[q] = read[q]
    BY <1>25, <1>0, FreesSlot DEF TypeOK, Readers, PumpPublishes, Publishes, Drops
  <2> QED BY <1>25, <1>0, <2>1 DEF CrossedInv, TypeOK, Readers, PumpPublishes,
     Publishes, AcceptsPoll
<1>26. CASE PumpDrops
  <2>1. \A q \in Readers \ {"pump"} : read'[q] = read[q]
    BY <1>26, <1>0, FreesSlot DEF TypeOK, Readers, PumpDrops, Publishes, Drops
  <2> QED BY <1>26, <1>0, <2>1 DEF CrossedInv, TypeOK, Readers, PumpDrops, Drops
<1>27. CASE CommandShows
  <2>1. \A q \in Readers \ {"command"} : read'[q] = read[q]
    BY <1>27, <1>0, FreesSlot DEF TypeOK, Readers, CommandShows, Publishes, Drops
  <2> QED BY <1>27, <1>0, <2>1 DEF CrossedInv, TypeOK, Readers, CommandShows,
     Publishes, Invalidate
<1>28. CASE CommandReadsAgain
  <2>1. \A q \in Readers \ {"command"} : read'[q] = read[q]
    BY <1>28, <1>0, FreesSlot DEF TypeOK, Readers, CommandReadsAgain,
       Publishes, Drops
  <2> QED BY <1>28, <1>0, <2>1 DEF CrossedInv, TypeOK, Readers,
     CommandReadsAgain, Drops
<1>29. CASE CommandReadThrows
  <2>1. \A q \in Readers \ {"command"} : read'[q] = read[q]
    BY <1>29, <1>0, FreesSlot DEF TypeOK, Readers, CommandReadThrows,
       Publishes, Drops
  <2> QED BY <1>29, <1>0, <2>1 DEF CrossedInv, TypeOK, Readers,
     CommandReadThrows, Drops
<1>30. CASE SaveSettles
  <2>1. \A q \in Readers \ {"command"} : read'[q] = read[q]
    BY <1>30, <1>0, FreesSlot DEF TypeOK, Readers, SaveSettles, Publishes, Drops
  <2> QED BY <1>30, <1>0, <2>1 DEF CrossedInv, TypeOK, Readers, SaveSettles,
     Publishes, Invalidate
<1>31. CASE SaveThrows
  <2>1. \A q \in Readers \ {"command"} : read'[q] = read[q]
    BY <1>31, <1>0, FreesSlot DEF TypeOK, Readers, SaveThrows, Publishes, Drops
  <2> QED BY <1>31, <1>0, <2>1 DEF CrossedInv, TypeOK, Readers, SaveThrows,
     Drops, Invalidate
<1>32. CASE StartupThrows
  <2>1. \A q \in Readers \ {"maintenance"} : read'[q] = read[q]
    BY <1>32, <1>0, FreesSlot DEF TypeOK, Readers, StartupThrows, Publishes, Drops
  <2> QED BY <1>32, <1>0, <2>1 DEF CrossedInv, TypeOK, Readers, StartupThrows,
     Drops, Invalidate
<1>33. CASE StartupShows
  <2>1. /\ \A q \in Readers \ {"maintenance"} : read'[q] = read[q]
        /\ read["maintenance"].at # "none"
    BY <1>33, <1>0, FreesSlot DEF TypeOK, Readers, StartupShows
  <2>2. CASE UNCHANGED <<commandVars, diagnosis, crossed>>
    BY <1>33, <1>0, <2>1, <2>2 DEF CrossedInv, TypeOK, Readers,
       StartupShows, Invalidate
  <2>3. ASSUME NEW action \in {"Start", "Connect"}, Runs(action, FALSE, "maintenance")
        PROVE  CrossedInv'
    <3>1. /\ ~Busy /\ read["command"].at = "none"
          /\ crossed' = crossed \cup (Reading \ {"maintenance"})
          /\ diagnosis # "none" => diagnosis' # "none"
      BY <1>0, <2>3 DEF Runs, Begin, Gates, Slots, CancelDiagnostics
    <3>2. /\ \A r \in crossed' : /\ r \in Readers /\ r # "maintenance"
                                /\ IF r = "diagnostics" THEN diagnosis # "none"
                                   ELSE read[r].at # "none"
          /\ "command" \notin crossed'
      BY <1>0, <3>1 DEF CrossedInv, TypeOK, Reading, Readers
    <3>3. /\ current' = {} /\ stale' = stale /\ writer' = writer
          /\ read'["writer"].at = "none"
      BY <1>33, <2>1 DEF CrossedInv, StartupShows, Invalidate, Readers
    <3> QED BY <2>1, <3>1, <3>2, <3>3 DEF CrossedInv
  <2> QED BY <1>33, <2>2, <2>3 DEF StartupShows
<1>34. ASSUME NEW action \in Actions, UserCommands(action) PROVE CrossedInv'
  <2>1. /\ read["command"].at = "none" /\ read["maintenance"].at = "none"
        /\ diagnosis # "none" => diagnosis' # "none"
    BY <1>34, <1>0 DEF UserCommands, ControlBusy, Begin, Gates, Slots,
       CancelDiagnostics
  <2>2. /\ crossed' = crossed \cup Reading /\ current' = {}
        /\ UNCHANGED <<read, stale, writer>>
    BY <1>34 DEF UserCommands, Invalidate
  <2>3. \A r \in crossed' : /\ r # "command" /\ r # "maintenance"
                           /\ IF r = "diagnostics" THEN diagnosis # "none"
                              ELSE read[r].at # "none"
    BY <2>1, <2>2 DEF CrossedInv, Reading
  <2> QED BY <2>1, <2>2, <2>3 DEF CrossedInv
<1>35. CASE DiagnosticsStart
  BY <1>35 DEF CrossedInv, DiagnosticsStart, Captures
<1>36. CASE DiagnosticsEnd
  <2>1. stale' = {}
    BY <1>36 DEF CrossedInv, DiagnosticsEnd, AcceptsPoll
  <2> QED BY <1>36, <2>1 DEF CrossedInv, DiagnosticsEnd
<1>37. CASE UNCHANGED vars
  BY <1>37 DEF CrossedInv, vars
<1> QED
  BY <1>1, <1>2, <1>3, <1>4, <1>5, <1>6, <1>7, <1>8, <1>9, <1>10, <1>11,
     <1>12, <1>13, <1>14, <1>15, <1>16, <1>17, <1>18, <1>19, <1>20, <1>21,
     <1>22, <1>23, <1>24, <1>25, <1>26, <1>27, <1>28, <1>29, <1>30, <1>31,
     <1>32, <1>33, <1>34, <1>35, <1>36, <1>37 DEF Next, CommandStep,
     ReadCoreView, MaintenanceStep, WriterStep

\* While no page writes a snapshot through, nothing the view or a diagnosis shows
\* was read, even in part, before a command that began during the read
\* (core_operation.h:24).
THEOREM NothingOvertaken ==
    ASSUME NoWriteThrough
    PROVE  Spec => []NoOvertakenRead
<1>1. Init => CrossedInv
  BY InitCrossedInv
<1>2. IInv /\ CrossedInv /\ [Next]_vars => CrossedInv'
  BY NextCrossedInv
<1>3. CrossedInv => NoOvertakenRead
  BY DEF CrossedInv, NoOvertakenRead
<1> QED BY <1>1, <1>2, <1>3, Invariant, PTL DEF Spec

-----------------------------------------------------------------------------
(* What the reads under way carry is as new as what the view shows and as what
   the last command left *)

Numbers ==
    /\ world.core \in Nat /\ world.proxy \in Nat
    /\ view.core \in Nat /\ view.proxy \in Nat
    /\ done.core \in Nat /\ done.proxy \in Nat
    /\ task.core \in Nat /\ task.proxy \in Nat
    /\ \A r \in Readers : read[r].core \in Nat /\ read[r].proxy \in Nat

\* Nothing is newer than the store.
Bounded ==
    /\ view.core <= world.core /\ view.proxy <= world.proxy
    /\ done.core <= world.core /\ done.proxy <= world.proxy
    /\ task.core <= world.core /\ task.proxy <= world.proxy
    /\ \A r \in Readers : read[r].core <= world.core /\ read[r].proxy <= world.proxy

\* A command reads after its work.
CommandFresh ==
    /\ read["command"].at \in {"probe", "done"} =>
         read["command"].core >= task.core /\ read["command"].core >= view.core
    /\ read["command"].at = "done" =>
         read["command"].proxy >= task.proxy /\ read["command"].proxy >= view.proxy

\* A poll whose revision still holds was not crossed by another publication.
PumpFresh ==
    "pump" \in current /\ read["pump"].at # "none" =>
      /\ read["pump"].at \in {"probe", "done"} =>
           read["pump"].core >= done.core /\ read["pump"].core >= view.core
      /\ read["pump"].at = "done" /\ read["pump"].slow =>
           read["pump"].proxy >= done.proxy /\ read["pump"].proxy >= view.proxy
      /\ ~read["pump"].slow => read["pump"].proxy = view.proxy

\* No command ends during the startup maintenance.
MaintenanceFresh ==
    /\ read["maintenance"].at \in {"probe", "done"} =>
         read["maintenance"].core >= done.core
    /\ read["maintenance"].at = "done" => read["maintenance"].proxy >= done.proxy

FreshInv == Bounded /\ CommandFresh /\ PumpFresh /\ MaintenanceFresh

LEMMA AreNumbers == TypeOK => Numbers
<1> SUFFICES ASSUME TypeOK PROVE Numbers
  OBVIOUS
<1>1. world.core \in Nat /\ world.proxy \in Nat
  BY DEF TypeOK, Worlds
<1>2. view.core \in Nat /\ view.proxy \in Nat
  BY DEF TypeOK, Views
<1>3. done.core \in Nat /\ done.proxy \in Nat
  BY DEF TypeOK, Effects
<1>4. task.core \in Nat /\ task.proxy \in Nat
  BY DEF TypeOK, Tasks
<1>5. \A r \in Readers : read[r].core \in Nat /\ read[r].proxy \in Nat
  BY Proxies DEF Reads
<1> QED BY <1>1, <1>2, <1>3, <1>4, <1>5 DEF Numbers

\* A step of the store's own, or of others, that only moves the world on.
LEMMA WorldOnly ==
    ASSUME Numbers, Numbers', FreshInv,
           world'.core >= world.core, world'.proxy >= world.proxy,
           UNCHANGED <<view, done, task, read, current>>
    PROVE  FreshInv'
<1>1. Bounded'
  BY DEF Numbers, FreshInv, Bounded
<1>2. CommandFresh' /\ PumpFresh' /\ MaintenanceFresh'
  BY DEF FreshInv, CommandFresh, PumpFresh, MaintenanceFresh
<1> QED BY <1>1, <1>2 DEF FreshInv

\* A step that only withdraws revisions, or grants one to the diagnostics.
LEMMA RevisionsOnly ==
    ASSUME FreshInv, current' \subseteq current \cup {"diagnostics"},
           view'.core = view.core, view'.proxy = view.proxy,
           UNCHANGED <<world, done, task, read>>
    PROVE  FreshInv'
BY DEF FreshInv, Bounded, CommandFresh, PumpFresh, MaintenanceFresh

\* A step of a command that is not reading.
LEMMA TaskOnly ==
    ASSUME Numbers, Numbers', FreshInv, read["command"].at = "none",
           world'.core >= world.core, world'.proxy >= world.proxy,
           task'.core <= world'.core, task'.proxy <= world'.proxy,
           current' \subseteq current,
           UNCHANGED <<view, done, read>>
    PROVE  FreshInv'
<1>1. Bounded'
  BY DEF Numbers, FreshInv, Bounded
<1>2. CommandFresh' /\ PumpFresh' /\ MaintenanceFresh'
  BY DEF FreshInv, CommandFresh, PumpFresh, MaintenanceFresh
<1> QED BY <1>1, <1>2 DEF FreshInv

\* What the store's steps leave in the task.
LEMMA EffectNumbers ==
    ASSUME TypeOK, NEW next \in Moved, NEW a \in TaskPoints, Effect(next, a)
    PROVE  /\ world'.core >= world.core /\ world'.proxy >= world.proxy
           /\ world'.core \in Nat /\ world'.proxy \in Nat
           /\ task'.core = world'.core /\ task'.proxy = world'.proxy
<1>1. next \in Worlds /\ next.core >= world.core /\ next.proxy >= world.proxy
  BY MovedValues DEF TypeOK
<1>2. Leaves(task, next) \in Tasks
  BY <1>1, TaskLeaves DEF TypeOK
<1>3. /\ task'.core = Leaves(task, next).core
      /\ task'.proxy = Leaves(task, next).proxy
  BY <1>2, TaskAt DEF Effect
<1> QED BY <1>1, <1>3, TaskLeaves, WorldValues DEF Effect, TypeOK

LEMMA NextFreshInv ==
    ASSUME IInv, IInv', CrossedInv, FreshInv, [Next]_vars
    PROVE  FreshInv'
<1> USE DEF commandVars, pumpVars, maintVars, readVars, pageVars
<1>0. /\ TypeOK /\ Slots /\ Gates /\ TypeOK'
      /\ Numbers /\ Numbers'
  <2>1. TypeOK /\ Slots /\ Gates /\ TypeOK'
    BY DEF IInv
  <2>2. Numbers
    BY <2>1, AreNumbers
  <2>3. Numbers'
    <3>1. world'.core \in Nat /\ world'.proxy \in Nat
      BY <2>1 DEF TypeOK, Worlds
    <3>2. view'.core \in Nat /\ view'.proxy \in Nat
      BY <2>1 DEF TypeOK, Views
    <3>3. done'.core \in Nat /\ done'.proxy \in Nat
      BY <2>1 DEF TypeOK, Effects
    <3>4. task'.core \in Nat /\ task'.proxy \in Nat
      BY <2>1 DEF TypeOK, Tasks
    <3>5. \A r \in Readers : read'[r] \in Reads
      BY <2>1 DEF TypeOK
    <3> QED BY <3>1, <3>2, <3>3, <3>4, <3>5 DEF Numbers, Reads
  <2> QED BY <2>1, <2>2, <2>3
<1>1. CASE StartupWorks
  <2>1. world'.core >= world.core /\ world'.proxy >= world.proxy
    BY <1>1, <1>0, MovedValues DEF StartupWorks, TypeOK
  <2> QED BY <1>1, <1>0, <2>1, WorldOnly DEF StartupWorks
<1>2. CASE WriterWorks
  <2>1. world'.core >= world.core /\ world'.proxy >= world.proxy
    BY <1>2, <1>0, MovedValues DEF WriterWorks, TypeOK
  <2> QED BY <1>2, <1>0, <2>1, WorldOnly DEF WriterWorks
<1>3. CASE ServiceWorks
  <2>1. world'.core >= world.core /\ world'.proxy >= world.proxy
    <3>1. CASE UNCHANGED world
      BY <1>0, <3>1 DEF Numbers
    <3>2. ASSUME NEW next \in Moved, world' = Serviced(next, maint.kind = "install")
          PROVE  world'.core >= world.core /\ world'.proxy >= world.proxy
      <4>1. next \in Worlds /\ (maint.kind = "install") \in BOOLEAN
        BY <1>0, MovedValues DEF TypeOK
      <4>2. world'.core = next.core /\ world'.proxy = next.proxy
        BY <3>2, <4>1, WorldValues
      <4> QED BY <1>0, <4>2, MovedValues DEF TypeOK
    <3> QED BY <1>3, <3>1, <3>2 DEF ServiceWorks
  <2> QED BY <1>3, <1>0, <2>1, WorldOnly DEF ServiceWorks
<1>4. CASE WorldMoves
  <2>1. world'.core >= world.core /\ world'.proxy >= world.proxy
    <3> DEFINE installed == ~world.installed
    <3>1. world \in Worlds
      BY <1>0 DEF TypeOK
    <3>2. installed \in BOOLEAN
      OBVIOUS
    <3>3. world' \in {CoreMoved(world), ProxyMoved(world), Serviced(world, installed)}
      BY <1>4 DEF WorldMoves
    <3> HIDE DEF installed
    <3>4. /\ CoreMoved(world).core = world.core + 1
          /\ CoreMoved(world).proxy = world.proxy
          /\ ProxyMoved(world).core = world.core
          /\ ProxyMoved(world).proxy = world.proxy + 1
          /\ Serviced(world, installed).core = world.core
          /\ Serviced(world, installed).proxy = world.proxy
      BY <3>1, <3>2, WorldValues
    <3> QED BY <1>0, <3>3, <3>4 DEF Numbers
  <2> QED BY <1>4, <1>0, <2>1, WorldOnly DEF WorldMoves
<1>5. CASE StartupMaintenance
  BY <1>5, RevisionsOnly DEF StartupMaintenance, MaintenanceStarts
<1>6. CASE ServiceThrows
  BY <1>6, RevisionsOnly DEF ServiceThrows
<1>7. CASE EditReports
  BY <1>7, RevisionsOnly DEF EditReports, Invalidate
<1>8. CASE DiagnosticsStart
  BY <1>8, RevisionsOnly DEF DiagnosticsStart, Captures
<1>9. CASE DiagnosticsCancel
  BY <1>9, RevisionsOnly DEF DiagnosticsCancel
<1>10. CASE DiagnosticsEnd
  BY <1>10, RevisionsOnly DEF DiagnosticsEnd
<1>11. ASSUME NEW kind \in {"install", "uninstall"}, ServiceMaintenance(kind)
      PROVE  FreshInv'
  BY <1>11, RevisionsOnly DEF ServiceMaintenance, MaintenanceStarts
<1>12. ASSUME NEW kind \in Sources \cap {"Edit", "Activate", "Open"}, WriterStarts(kind)
      PROVE  FreshInv'
  BY <1>12, RevisionsOnly DEF WriterStarts
<1>13. CASE ServiceShows
  <2>1. view'.core = view.core /\ view'.proxy = view.proxy
    BY <1>13, <1>0 DEF ServiceShows, TypeOK, Views
  <2> QED BY <1>13, <2>1, RevisionsOnly DEF ServiceShows, Invalidate
<1>14. CASE UNCHANGED vars
  BY <1>14, RevisionsOnly DEF vars
<1>15. CASE ExecuteDenied
  <2> DEFINE a == IF task.window /\ ~task.again /\ ~world.installed
                  THEN "install" ELSE "read"
  <2>1. task' = [task EXCEPT !.at = a] /\ a \in {"install", "read"}
    BY <1>15 DEF ExecuteDenied
  <2>2. a \in TaskPoints /\ task \in Tasks
    BY <1>0, <2>1 DEF TaskPoints, TypeOK
  <2> HIDE DEF a
  <2>3. task'.core = task.core /\ task'.proxy = task.proxy
    BY <2>1, <2>2, TaskAt
  <2>4. read["command"].at = "none"
    BY <1>15, <1>0 DEF ExecuteDenied, Slots
  <2> QED BY <1>15, <1>0, <2>3, <2>4, TaskOnly DEF ExecuteDenied, Numbers,
     FreshInv, Bounded
<1>16. CASE Execute
  <2>1. \E next \in Moved, a \in TaskPoints : Effect(next, a)
    BY <1>16 DEF Execute, AfterExecute, TaskPoints
  <2>2. /\ world'.core >= world.core /\ world'.proxy >= world.proxy
        /\ task'.core = world'.core /\ task'.proxy = world'.proxy
    BY <1>0, <2>1, EffectNumbers
  <2>3. read["command"].at = "none"
    BY <1>16, <1>0 DEF Execute, Slots
  <2>4. task'.core <= world'.core /\ task'.proxy <= world'.proxy
    BY <1>0, <2>2 DEF Numbers
  <2> QED BY <1>16, <1>0, <2>2, <2>3, <2>4, TaskOnly DEF Execute
<1>17. CASE ExecuteStandby
  <2>1. \E next \in Moved, a \in TaskPoints : Effect(next, a)
    BY <1>17 DEF ExecuteStandby, AfterExecute, TaskPoints
  <2>2. /\ world'.core >= world.core /\ world'.proxy >= world.proxy
        /\ task'.core = world'.core /\ task'.proxy = world'.proxy
    BY <1>0, <2>1, EffectNumbers
  <2>3. read["command"].at = "none"
    BY <1>17, <1>0 DEF ExecuteStandby, Slots
  <2>4. task'.core <= world'.core /\ task'.proxy <= world'.proxy
    BY <1>0, <2>2 DEF Numbers
  <2> QED BY <1>17, <1>0, <2>2, <2>3, <2>4, TaskOnly DEF ExecuteStandby
<1>18. CASE InstallForCommand
  <2>1. /\ world'.core >= world.core /\ world'.proxy >= world.proxy
        /\ task'.core <= world'.core /\ task'.proxy <= world'.proxy
    <3>1. CASE UNCHANGED world /\ task' = [task EXCEPT !.at = "read"]
      <4>1. task'.core = task.core /\ task'.proxy = task.proxy
        BY <1>0, <3>1, TaskAt DEF TypeOK, TaskPoints
      <4> QED BY <1>0, <3>1, <4>1 DEF Numbers, FreshInv, Bounded
    <3>2. ASSUME NEW next \in Moved, NEW stopped \in BOOLEAN,
                 world' = Serviced(next, TRUE),
                 task' = [Leaves(task, world') EXCEPT !.again = TRUE,
                              !.at = IF stopped THEN "execute" ELSE "read"]
          PROVE  /\ world'.core >= world.core /\ world'.proxy >= world.proxy
                 /\ task'.core <= world'.core /\ task'.proxy <= world'.proxy
      <4>1. next \in Worlds /\ next.core >= world.core /\ next.proxy >= world.proxy
        BY <1>0, MovedValues DEF TypeOK
      <4>2. world'.core = next.core /\ world'.proxy = next.proxy
        BY <3>2, <4>1, WorldValues
      <4> DEFINE a == IF stopped THEN "execute" ELSE "read"
      <4>3. a \in TaskPoints
        BY DEF TaskPoints
      <4>4. task' = [Leaves(task, world') EXCEPT !.again = TRUE, !.at = a]
        BY <3>2
      <4> HIDE DEF a
      <4>5. /\ Leaves(task, world') \in Tasks
            /\ Leaves(task, world').core = world'.core
            /\ Leaves(task, world').proxy = world'.proxy
        <5>1. task \in Tasks /\ world' \in Worlds
          BY <1>0 DEF TypeOK
        <5> QED BY <5>1, TaskLeaves
      <4>6. task'.core = world'.core /\ task'.proxy = world'.proxy
        BY <4>3, <4>4, <4>5, TaskAgain
      <4> QED BY <1>0, <4>1, <4>2, <4>6 DEF Numbers
    <3> QED BY <1>18, <3>1, <3>2 DEF InstallForCommand
  <2>2. read["command"].at = "none"
    BY <1>18, <1>0 DEF InstallForCommand, Slots
  <2> QED BY <1>18, <1>0, <2>1, <2>2, TaskOnly DEF InstallForCommand
<1>19. ASSUME NEW action \in Actions, UserCommands(action) PROVE FreshInv'
  <2>1. /\ task'.core = done.core /\ task'.proxy = done.proxy
        /\ read["command"].at = "none"
        /\ UNCHANGED <<world, view, read, done>> /\ current' = {}
    BY <1>19, <1>0 DEF UserCommands, Begin, Invalidate, Gates, Slots
  <2> QED BY <1>0, <2>1, TaskOnly DEF Numbers, FreshInv, Bounded
<1>20. CASE CommandSettles
  <2>1. /\ done'.core = task.core /\ done'.proxy = task.proxy
        /\ task'.core = 0 /\ task'.proxy = 0
        /\ UNCHANGED <<world, view, read>> /\ current' = {}
        /\ Busy /\ read["command"].at = "none"
    BY <1>20, <1>0 DEF CommandSettles, Finish, NoTask, Invalidate, Slots
  <2>2. read["maintenance"].at = "none"
    BY <1>0, <2>1 DEF Slots, Gates
  <2>3. Bounded'
    BY <1>0, <2>1 DEF Numbers, FreshInv, Bounded
  <2> QED BY <2>1, <2>2, <2>3 DEF FreshInv, CommandFresh, PumpFresh,
     MaintenanceFresh
<1>21. CASE SaveSettles
  <2>1. /\ done'.core = task.core /\ done'.proxy = task.proxy
        /\ task'.core = 0 /\ task'.proxy = 0
        /\ UNCHANGED world /\ current' = {} /\ Busy
    BY <1>21 DEF SaveSettles, Finish, NoTask, Invalidate
  <2>2. /\ read'["command"].at = "none" /\ read'["command"].core = 0
        /\ read'["command"].proxy = 0
        /\ \A q \in Readers \ {"command"} : read'[q] = read[q]
    BY <1>21, <1>0, FreesSlot DEF SaveSettles, Publishes, Drops, TypeOK, Readers
  <2>3. view'.core = read["command"].core /\ view'.proxy = read["command"].proxy
    BY <1>21, <1>0, ShownValue DEF SaveSettles, TypeOK, Readers
  <2>4. read["maintenance"].at = "none"
    BY <1>0, <2>1 DEF Slots, Gates
  <2>5. Bounded'
    BY <1>0, <2>1, <2>2, <2>3 DEF Numbers, FreshInv, Bounded, Readers
  <2> QED
    BY <2>1, <2>2, <2>4, <2>5
       DEF FreshInv, CommandFresh, PumpFresh, MaintenanceFresh, Readers
<1>22. CASE SaveThrows
  <2>1. /\ done'.core = task.core /\ done'.proxy = task.proxy
        /\ task'.core = 0 /\ task'.proxy = 0
        /\ UNCHANGED world /\ current' = {} /\ Busy
    BY <1>22 DEF SaveThrows, Finish, NoTask, Invalidate
  <2>2. /\ read'["command"].at = "none" /\ read'["command"].core = 0
        /\ read'["command"].proxy = 0
        /\ \A q \in Readers \ {"command"} : read'[q] = read[q]
    BY <1>22, <1>0, FreesSlot DEF SaveThrows, Publishes, Drops, TypeOK, Readers
  <2>3. UNCHANGED view
    BY <1>22, <1>0, ShownValue DEF SaveThrows, TypeOK, Readers
  <2>4. read["maintenance"].at = "none"
    BY <1>0, <2>1 DEF Slots, Gates
  <2>5. Bounded'
    BY <1>0, <2>1, <2>2, <2>3 DEF Numbers, FreshInv, Bounded, Readers
  <2> QED
    BY <2>1, <2>2, <2>4, <2>5
       DEF FreshInv, CommandFresh, PumpFresh, MaintenanceFresh, Readers
<1>23. CASE CommandReads
  <2>1. /\ read'["command"].at = "snapshot" /\ read'["command"].core = 0
        /\ read'["command"].proxy = 0
        /\ \A q \in Readers \ {"command"} : read'[q] = read[q]
    BY <1>23, <1>0, StartsSlot DEF CommandReads, TypeOK, Readers
  <2>2. UNCHANGED <<world, view, done, task>> /\ current' \subseteq current \cup {"command"}
    BY <1>23 DEF CommandReads, Captures
  <2>3. Bounded'
    BY <1>0, <2>1, <2>2 DEF Numbers, FreshInv, Bounded, Readers
  <2>4. CommandFresh' /\ MaintenanceFresh'
    BY <2>1, <2>2 DEF FreshInv, CommandFresh, MaintenanceFresh, Readers
  <2>5. PumpFresh'
    BY <2>1, <2>2 DEF FreshInv, PumpFresh, Readers
  <2> QED BY <2>3, <2>4, <2>5 DEF FreshInv
<1>24. CASE PumpReads
  <2> DEFINE slow == countdown = 0 \/ refresh
  <2>0. slow \in BOOLEAN /\ Starts("pump", slow)
    BY <1>24 DEF PumpReads
  <2> HIDE DEF slow
  <2>1. /\ read'["pump"].at = "snapshot" /\ read'["pump"].core = 0
        /\ read'["pump"].proxy = IF slow THEN 0 ELSE view.proxy
        /\ read'["pump"].slow = slow
        /\ \A q \in Readers \ {"pump"} : read'[q] = read[q]
    BY <1>0, <2>0, StartsSlot DEF TypeOK, Readers
  <2>2. UNCHANGED <<world, view, done, task>> /\ current' \subseteq current \cup {"pump"}
    BY <1>24 DEF PumpReads, Captures
  <2>3. Bounded'
    BY <1>0, <2>1, <2>2, <2>0 DEF Numbers, FreshInv, Bounded, Readers
  <2>4. CommandFresh' /\ MaintenanceFresh'
    BY <2>1, <2>2 DEF FreshInv, CommandFresh, MaintenanceFresh, Readers
  <2>5. PumpFresh'
    BY <2>1, <2>2, <2>0 DEF FreshInv, PumpFresh, Readers
  <2> QED BY <2>3, <2>4, <2>5 DEF FreshInv
<1>25. CASE StartupReads
  <2>1. /\ read'["maintenance"].at = "snapshot" /\ read'["maintenance"].core = 0
        /\ read'["maintenance"].proxy = 0
        /\ \A q \in Readers \ {"maintenance"} : read'[q] = read[q]
    BY <1>25, <1>0, StartsSlot DEF StartupReads, TypeOK, Readers
  <2>2. UNCHANGED <<world, view, done, task>> /\ current' = current
    BY <1>25 DEF StartupReads
  <2>3. Bounded'
    BY <1>0, <2>1, <2>2 DEF Numbers, FreshInv, Bounded, Readers
  <2>4. CommandFresh' /\ MaintenanceFresh'
    BY <2>1, <2>2 DEF FreshInv, CommandFresh, MaintenanceFresh, Readers
  <2>5. PumpFresh'
    BY <2>1, <2>2 DEF FreshInv, PumpFresh, Readers
  <2> QED BY <2>3, <2>4, <2>5 DEF FreshInv
<1>26. CASE WriterReads
  BY <1>26, <1>0 DEF CrossedInv, WriterReads, TypeOK, Writers
<1>27. CASE WriterShows
  BY <1>27 DEF CrossedInv, WriterShows
<1>28. CASE OpenRequestsRefresh
  BY <1>28 DEF CrossedInv, OpenRequestsRefresh
<1>29. CASE PumpPublishes
  <2>1. /\ read'["pump"].at = "none" /\ read'["pump"].core = 0
        /\ read'["pump"].proxy = 0
        /\ \A q \in Readers \ {"pump"} : read'[q] = read[q]
    BY <1>29, <1>0, FreesSlot DEF PumpPublishes, Publishes, TypeOK, Readers
  <2>2. UNCHANGED <<world, done>> /\ current' = current \ {"pump"}
    BY <1>29 DEF PumpPublishes
  <2>3. view'.core = read["pump"].core /\ view'.proxy = read["pump"].proxy
    BY <1>29, <1>0, ShownValue DEF PumpPublishes, TypeOK, Readers
  <2>4. task'.core = task.core /\ task'.proxy = task.proxy
    BY <1>29, <1>0, TaskAt DEF PumpPublishes, TypeOK, TaskPoints
  <2>5. ~Busy /\ read["command"].at = "none"
    BY <1>29, <1>0 DEF PumpPublishes, AcceptsPoll, Gates, Slots
  <2>6. Bounded'
    BY <1>0, <2>1, <2>2, <2>3, <2>4 DEF Numbers, FreshInv, Bounded, Readers
  <2> QED
    BY <2>1, <2>2, <2>3, <2>4, <2>5, <2>6
       DEF FreshInv, CommandFresh, PumpFresh, MaintenanceFresh, Readers
<1>30. CASE PumpDrops
  <2>1. /\ read'["pump"].at = "none" /\ read'["pump"].core = 0
        /\ read'["pump"].proxy = 0
        /\ \A q \in Readers \ {"pump"} : read'[q] = read[q]
    BY <1>30, <1>0, FreesSlot DEF PumpDrops, Drops, TypeOK, Readers
  <2>2. UNCHANGED <<world, done>> /\ current' = current \ {"pump"}
    BY <1>30 DEF PumpDrops
  <2>3. UNCHANGED view
    BY <1>30, <1>0, ShownValue DEF PumpDrops, TypeOK, Readers
  <2>4. task'.core = task.core /\ task'.proxy = task.proxy
    BY <1>30, <1>0, TaskAt DEF PumpDrops, TypeOK, TaskPoints
  <2>6. Bounded'
    BY <1>0, <2>1, <2>2, <2>3, <2>4 DEF Numbers, FreshInv, Bounded, Readers
  <2> QED
    BY <2>1, <2>2, <2>3, <2>4, <2>6
       DEF FreshInv, CommandFresh, PumpFresh, MaintenanceFresh, Readers
<1>31. CASE CommandShows
  <2>1. /\ read'["command"].at = "none" /\ read'["command"].core = 0
        /\ read'["command"].proxy = 0
        /\ \A q \in Readers \ {"command"} : read'[q] = read[q]
    BY <1>31, <1>0, FreesSlot DEF CommandShows, Publishes, TypeOK, Readers
  <2>2. UNCHANGED <<world, done>> /\ current' = {}
    BY <1>31 DEF CommandShows, Invalidate
  <2>3. view'.core = read["command"].core /\ view'.proxy = read["command"].proxy
    BY <1>31, <1>0, ShownValue DEF CommandShows, TypeOK, Readers
  <2>4. task'.core = task.core /\ task'.proxy = task.proxy
    BY <1>31, <1>0, TaskAt DEF CommandShows, TypeOK, TaskPoints
  <2>6. Bounded'
    BY <1>0, <2>1, <2>2, <2>3, <2>4 DEF Numbers, FreshInv, Bounded, Readers
  <2> QED
    BY <2>1, <2>2, <2>3, <2>4, <2>6
       DEF FreshInv, CommandFresh, PumpFresh, MaintenanceFresh, Readers
<1>32. CASE CommandReadsAgain
  <2>1. /\ read'["command"].at = "none" /\ read'["command"].core = 0
        /\ read'["command"].proxy = 0
        /\ \A q \in Readers \ {"command"} : read'[q] = read[q]
    BY <1>32, <1>0, FreesSlot DEF CommandReadsAgain, Drops, TypeOK, Readers
  <2>2. UNCHANGED <<world, done>> /\ current' = current
    BY <1>32 DEF CommandReadsAgain
  <2>3. UNCHANGED view
    BY <1>32, <1>0, ShownValue DEF CommandReadsAgain, TypeOK, Readers
  <2>4. task'.core = task.core /\ task'.proxy = task.proxy
    BY <1>32, <1>0, TaskAt DEF CommandReadsAgain, TypeOK, TaskPoints
  <2>6. Bounded'
    BY <1>0, <2>1, <2>2, <2>3, <2>4 DEF Numbers, FreshInv, Bounded, Readers
  <2> QED
    BY <2>1, <2>2, <2>3, <2>4, <2>6
       DEF FreshInv, CommandFresh, PumpFresh, MaintenanceFresh, Readers
<1>33. CASE CommandReadThrows
  <2>1. /\ read'["command"].at = "none" /\ read'["command"].core = 0
        /\ read'["command"].proxy = 0
        /\ \A q \in Readers \ {"command"} : read'[q] = read[q]
    BY <1>33, <1>0, FreesSlot DEF CommandReadThrows, Drops, TypeOK, Readers
  <2>2. UNCHANGED <<world, done>> /\ current' = current \ {"command"}
    BY <1>33 DEF CommandReadThrows
  <2>3. UNCHANGED view
    BY <1>33, <1>0, ShownValue DEF CommandReadThrows, TypeOK, Readers
  <2>4. task'.core = task.core /\ task'.proxy = task.proxy
    BY <1>33, <1>0, TaskAt DEF CommandReadThrows, TypeOK, TaskPoints
  <2>6. Bounded'
    BY <1>0, <2>1, <2>2, <2>3, <2>4 DEF Numbers, FreshInv, Bounded, Readers
  <2> QED
    BY <2>1, <2>2, <2>3, <2>4, <2>6
       DEF FreshInv, CommandFresh, PumpFresh, MaintenanceFresh, Readers
<1>34. CASE StartupThrows
  <2>1. /\ read'["maintenance"].at = "none" /\ read'["maintenance"].core = 0
        /\ read'["maintenance"].proxy = 0
        /\ \A q \in Readers \ {"maintenance"} : read'[q] = read[q]
    BY <1>34, <1>0, FreesSlot DEF StartupThrows, Drops, TypeOK, Readers
  <2>2. UNCHANGED <<world, done>> /\ current' = {}
    BY <1>34 DEF StartupThrows, Invalidate
  <2>3. UNCHANGED view
    BY <1>34, <1>0, ShownValue DEF StartupThrows, TypeOK, Readers
  <2>4. task'.core = task.core /\ task'.proxy = task.proxy
    BY <1>34, <1>0, TaskAt DEF StartupThrows, TypeOK, TaskPoints
  <2>6. Bounded'
    BY <1>0, <2>1, <2>2, <2>3, <2>4 DEF Numbers, FreshInv, Bounded, Readers
  <2> QED
    BY <2>1, <2>2, <2>3, <2>4, <2>6
       DEF FreshInv, CommandFresh, PumpFresh, MaintenanceFresh, Readers
<1>35. CASE StartupShows
  <2>1. /\ read'["maintenance"].at = "none" /\ read'["maintenance"].core = 0
        /\ read'["maintenance"].proxy = 0
        /\ \A q \in Readers \ {"maintenance"} : read'[q] = read[q]
    BY <1>35, <1>0, FreesSlot DEF StartupShows, TypeOK, Readers
  <2>2. UNCHANGED world /\ current' = {}
    BY <1>35 DEF StartupShows, Invalidate
  <2>3. view'.core = read["maintenance"].core /\ view'.proxy = read["maintenance"].proxy
    BY <1>35, <1>0, ShownValue DEF StartupShows, TypeOK, Readers
  <2>4. read["command"].at = "none"
    BY <1>35, <1>0 DEF StartupShows, Slots, Gates
  <2>5. /\ done' = done
        /\ \/ task'.core = task.core /\ task'.proxy = task.proxy
           \/ task'.core = done.core /\ task'.proxy = done.proxy
    BY <1>35 DEF StartupShows, Runs, Begin
  <2>6. Bounded'
    BY <1>0, <2>1, <2>2, <2>3, <2>5 DEF Numbers, FreshInv, Bounded, Readers
  <2> QED
    BY <2>1, <2>2, <2>4, <2>6
       DEF FreshInv, CommandFresh, PumpFresh, MaintenanceFresh, Readers
<1>36. ASSUME NEW r \in Readers, ReadSnapshot(r) PROVE FreshInv'
  <2>1. /\ read[r].at = "snapshot" /\ read'[r].at \in {"probe", "done"}
        /\ read'[r].at = "done" => r = "writer"
        /\ read'[r].slow = read[r].slow
        /\ read'[r].core = world.core /\ read'[r].proxy = read[r].proxy
        /\ \A q \in Readers \ {r} : read'[q] = read[q]
    BY <1>36, <1>0, SnapshotSlot DEF TypeOK
  <2>2. UNCHANGED <<world, view, done, task, current>>
    BY <1>36 DEF ReadSnapshot
  <2>3. Bounded'
    BY <1>0, <2>1, <2>2 DEF Numbers, FreshInv, Bounded
  <2>4. CommandFresh'
    BY <1>0, <2>1, <2>2 DEF FreshInv, CommandFresh, Bounded, Numbers, Readers
  <2>5. PumpFresh'
    BY <1>0, <2>1, <2>2 DEF FreshInv, PumpFresh, Bounded, Numbers, Readers
  <2>6. MaintenanceFresh'
    BY <1>0, <2>1, <2>2 DEF FreshInv, MaintenanceFresh, Bounded, Numbers, Readers
  <2> QED BY <2>3, <2>4, <2>5, <2>6 DEF FreshInv
<1>37. ASSUME NEW r \in Readers, ReadProbe(r) PROVE FreshInv'
  <2>1. /\ read[r].at = "probe" /\ read'[r].at = "done"
        /\ read'[r].slow = read[r].slow /\ read'[r].core = read[r].core
        /\ read[r].slow => read'[r].proxy = world.proxy
        /\ ~read[r].slow => read'[r].proxy = read[r].proxy
        /\ \A q \in Readers \ {r} : read'[q] = read[q]
    BY <1>37, <1>0, ProbeSlot DEF TypeOK
  <2>2. /\ UNCHANGED <<world, view, done, task, current>>
        /\ read[r].slow \in BOOLEAN
        /\ r \in {"command", "maintenance"} => read[r].slow
    BY <1>37, <1>0, Proxies DEF ReadProbe, Slots, Reads
  <2>3. Bounded'
    BY <1>0, <2>1, <2>2 DEF Numbers, FreshInv, Bounded
  <2>4. CommandFresh'
    BY <1>0, <2>1, <2>2 DEF FreshInv, CommandFresh, Bounded, Numbers, Readers
  <2>5. PumpFresh'
    BY <1>0, <2>1, <2>2 DEF FreshInv, PumpFresh, Bounded, Numbers, Readers
  <2>6. MaintenanceFresh'
    BY <1>0, <2>1, <2>2 DEF FreshInv, MaintenanceFresh, Bounded, Numbers, Readers
  <2> QED BY <2>3, <2>4, <2>5, <2>6 DEF FreshInv
<1> QED
  BY <1>1, <1>2, <1>3, <1>4, <1>5, <1>6, <1>7, <1>8, <1>9, <1>10, <1>11,
     <1>12, <1>13, <1>14, <1>15, <1>16, <1>17, <1>18, <1>19, <1>20, <1>21,
     <1>22, <1>23, <1>24, <1>25, <1>26, <1>27, <1>28, <1>29, <1>30, <1>31,
     <1>32, <1>33, <1>34, <1>35, <1>36, <1>37 DEF Next, CommandStep,
     ReadCoreView, MaintenanceStep, WriterStep

LEMMA InitFreshInv == Init => FreshInv
BY NoReadValue DEF Init, FreshInv, Bounded, CommandFresh, PumpFresh,
   MaintenanceFresh,
   NoTask, Readers

\* The five steps that change what the view shows of the store, and what they
\* show.
LEMMA ViewSteps ==
    ASSUME IInv, CrossedInv, [Next]_vars,
           view'.core # view.core \/ view'.proxy # view.proxy
    PROVE  \/ /\ PumpPublishes
              /\ view'.core = read["pump"].core /\ view'.proxy = read["pump"].proxy
           \/ /\ CommandShows \/ SaveSettles
              /\ view'.core = read["command"].core
              /\ view'.proxy = read["command"].proxy
           \/ /\ StartupShows
              /\ view'.core = read["maintenance"].core
              /\ view'.proxy = read["maintenance"].proxy
<1> USE DEF commandVars, pumpVars, maintVars, readVars, pageVars
<1>0. TypeOK
  BY DEF IInv
<1>1. PumpPublishes =>
        view'.core = read["pump"].core /\ view'.proxy = read["pump"].proxy
  BY <1>0, ShownValue DEF PumpPublishes, TypeOK, Readers
<1>2. CommandShows \/ SaveSettles =>
        view'.core = read["command"].core /\ view'.proxy = read["command"].proxy
  BY <1>0, ShownValue DEF CommandShows, SaveSettles, TypeOK, Readers
<1>3. StartupShows =>
        /\ view'.core = read["maintenance"].core
        /\ view'.proxy = read["maintenance"].proxy
  BY <1>0, ShownValue DEF StartupShows, TypeOK, Readers
<1>4. ~ServiceShows
  BY <1>0 DEF ServiceShows, TypeOK, Views
<1>5. ~WriterShows
  BY DEF WriterShows, CrossedInv
<1>6. /\ ~CommandSettles /\ ~CommandReads /\ ~CommandReadsAgain
      /\ ~CommandReadThrows /\ ~SaveThrows /\ ~ExecuteDenied /\ ~Execute
      /\ ~ExecuteStandby /\ ~InstallForCommand
  BY DEF CommandSettles, CommandReads, CommandReadsAgain, CommandReadThrows,
     SaveThrows, ExecuteDenied, Execute, ExecuteStandby, InstallForCommand
<1>7. /\ ~PumpReads /\ ~PumpDrops /\ ~ReadCoreView
      /\ ~\E action \in Actions : UserCommands(action)
  BY DEF PumpReads, PumpDrops, ReadCoreView, ReadSnapshot, ReadProbe, UserCommands
<1>8. /\ ~StartupMaintenance /\ ~StartupWorks /\ ~StartupReads /\ ~StartupThrows
      /\ ~ServiceThrows /\ ~ServiceWorks
      /\ ~\E kind \in {"install", "uninstall"} : ServiceMaintenance(kind)
  BY DEF StartupMaintenance, StartupWorks, StartupReads, StartupThrows,
     ServiceThrows, ServiceWorks, ServiceMaintenance, MaintenanceStarts
<1>9. /\ ~WriterWorks /\ ~EditReports /\ ~WriterReads /\ ~OpenRequestsRefresh
      /\ ~\E kind \in Sources \cap {"Edit", "Activate", "Open"} : WriterStarts(kind)
  BY DEF WriterWorks, EditReports, WriterReads, OpenRequestsRefresh, WriterStarts
<1>10. /\ ~DiagnosticsStart /\ ~DiagnosticsCancel /\ ~DiagnosticsEnd
       /\ ~WorldMoves /\ ~UNCHANGED vars
  BY DEF DiagnosticsStart, DiagnosticsCancel, DiagnosticsEnd, WorldMoves, vars
<1> QED
  BY <1>1, <1>2, <1>3, <1>4, <1>5, <1>6, <1>7, <1>8, <1>9, <1>10
     DEF Next, CommandStep, MaintenanceStep, WriterStep

LEMMA ShowsWhatIsLeft ==
    ASSUME IInv, CrossedInv, FreshInv, [Next]_vars
    PROVE  /\ view'.core # view.core => view'.core >= Left'.core
           /\ view'.proxy # view.proxy => view'.proxy >= Left'.proxy
<1> USE DEF commandVars, pumpVars, maintVars, readVars, pageVars
<1> SUFFICES ASSUME view'.core # view.core \/ view'.proxy # view.proxy
             PROVE  /\ view'.core # view.core => view'.core >= Left'.core
                    /\ view'.proxy # view.proxy => view'.proxy >= Left'.proxy
  OBVIOUS
<1>0. TypeOK /\ Slots /\ Gates
  BY DEF IInv
<1>1. CASE /\ PumpPublishes
           /\ view'.core = read["pump"].core /\ view'.proxy = read["pump"].proxy
  <2>1. task'.at = "none" /\ done' = done
    BY <1>0, <1>1 DEF PumpPublishes, AcceptsPoll, Gates
  <2>2. Left'.core = done.core /\ Left'.proxy = done.proxy
    BY <2>1 DEF Left
  <2>3. "pump" \in current /\ read["pump"].at = "done"
    BY <1>1 DEF PumpPublishes, AcceptsPoll
  <2>4. read["pump"].slow \in BOOLEAN
    BY <1>0, Proxies DEF Reads, Readers
  <2> QED BY <1>1, <2>2, <2>3, <2>4 DEF FreshInv, PumpFresh
<1>2. CASE /\ CommandShows
           /\ view'.core = read["command"].core /\ view'.proxy = read["command"].proxy
  <2>1. task'.at = "settle" /\ task'.core = task.core /\ task'.proxy = task.proxy
    BY <1>0, <1>2, TaskAt DEF CommandShows, TypeOK, TaskPoints
  <2>2. Left'.core = task.core /\ Left'.proxy = task.proxy
    BY <2>1 DEF Left
  <2>3. read["command"].at = "done"
    BY <1>2 DEF CommandShows
  <2> QED BY <1>2, <2>2, <2>3 DEF FreshInv, CommandFresh
<1>3. CASE /\ SaveSettles
           /\ view'.core = read["command"].core /\ view'.proxy = read["command"].proxy
  <2>1. /\ task'.at = "none" /\ done'.core = task.core /\ done'.proxy = task.proxy
        /\ read["command"].at = "done"
    BY <1>3 DEF SaveSettles, Finish, NoTask
  <2>2. Left'.core = task.core /\ Left'.proxy = task.proxy
    BY <2>1 DEF Left
  <2> QED BY <1>3, <2>1, <2>2 DEF FreshInv, CommandFresh
<1>4. CASE /\ StartupShows
           /\ view'.core = read["maintenance"].core
           /\ view'.proxy = read["maintenance"].proxy
  <2>1. read["maintenance"].at = "done"
    BY <1>4 DEF StartupShows
  <2>2. task.at = "none"
    BY <1>0, <2>1 DEF Slots, Gates
  <2>3. task'.at # "settle" /\ done' = done
    BY <1>4, <2>2 DEF StartupShows, Runs, Begin
  <2>4. Left'.core = done.core /\ Left'.proxy = done.proxy
    BY <2>3 DEF Left
  <2> QED BY <1>4, <2>1, <2>4 DEF FreshInv, MaintenanceFresh
<1> QED BY <1>1, <1>2, <1>3, <1>4, ViewSteps

LEMMA ShowsNothingOlder ==
    ASSUME IInv, CrossedInv, FreshInv, [Next]_vars, ~checking
    PROVE  view'.core >= view.core /\ view'.proxy >= view.proxy
<1> USE DEF commandVars, pumpVars, maintVars, readVars, pageVars
<1>0. TypeOK /\ Slots /\ Gates /\ view.core \in Nat /\ view.proxy \in Nat
  BY AreNumbers DEF IInv, Numbers
<1>1. CASE view'.core = view.core /\ view'.proxy = view.proxy
  BY <1>0, <1>1
<1>2. CASE /\ PumpPublishes
           /\ view'.core = read["pump"].core /\ view'.proxy = read["pump"].proxy
  <2>1. "pump" \in current /\ read["pump"].at = "done"
    BY <1>2 DEF PumpPublishes, AcceptsPoll
  <2>2. read["pump"].slow \in BOOLEAN
    BY <1>0, Proxies DEF Reads, Readers
  <2> QED BY <1>0, <1>2, <2>1, <2>2 DEF FreshInv, PumpFresh
<1>3. CASE /\ CommandShows \/ SaveSettles
           /\ view'.core = read["command"].core /\ view'.proxy = read["command"].proxy
  <2>1. read["command"].at = "done"
    BY <1>3 DEF CommandShows, SaveSettles
  <2> QED BY <1>3, <2>1 DEF FreshInv, CommandFresh
<1>4. ~StartupShows
  BY <1>0 DEF StartupShows, Slots, Gates
<1> QED BY <1>1, <1>2, <1>3, <1>4, ViewSteps

LEMMA CrossedAndFresh ==
    ASSUME NoWriteThrough
    PROVE  Spec => [](IInv /\ CrossedInv /\ FreshInv)
<1>1. Init => CrossedInv /\ FreshInv
  BY InitCrossedInv, InitFreshInv
<1>2. IInv /\ IInv' /\ CrossedInv /\ FreshInv /\ [Next]_vars => CrossedInv' /\ FreshInv'
  BY NextCrossedInv, NextFreshInv
<1> QED BY <1>1, <1>2, Invariant, PTL DEF Spec

\* While no page writes a snapshot through: whatever changes the view once the
\* work of a command is over shows what that command left, whether it is the
\* command's own read, a poll, or the startup read (common.cpp, CoreControl::Run
\* and DriveCoreModel).
THEOREM CommandIsPublished ==
    ASSUME NoWriteThrough
    PROVE  Spec => PublishedAfterCommand
<1>1. IInv /\ CrossedInv /\ FreshInv /\ [Next]_vars
        => [/\ view'.core # view.core => view'.core >= Left'.core
            /\ view'.proxy # view.proxy => view'.proxy >= Left'.proxy]_vars
  BY ShowsWhatIsLeft
<1> QED BY <1>1, CrossedAndFresh, PTL DEF Spec, PublishedAfterCommand

\* While no page writes a snapshot through, no poll and no command takes the view
\* back to an older state of the store; only the startup read may
\* (core_model.h, Update and PublishPolled).
THEOREM ViewAdvances ==
    ASSUME NoWriteThrough
    PROVE  Spec => ViewNeverGoesBack
<1>1. IInv /\ CrossedInv /\ FreshInv /\ [Next]_vars
        => [~checking => view'.core >= view.core /\ view'.proxy >= view.proxy]_vars
  BY ShowsNothingOlder
<1> QED BY <1>1, CrossedAndFresh, PTL DEF Spec, ViewNeverGoesBack

=============================================================================

----------------------------- MODULE RouteRegistry -----------------------------
(***************************************************************************)
(* The Linux route registry of vpn_compensation.cpp, one `ip' command at a *)
(* time: reference-counted leases of policy routes in private tables, the  *)
(* sentinel that reserves a table against other processes, the sweep that  *)
(* a STOP of the root service makes, and a crash at any point.             *)
(*                                                                         *)
(* Threads share one registry and its mutex.  A shared_ptr whose last copy *)
(* is dropped runs its destructor, which waits for that mutex: meanwhile   *)
(* another thread may install a replacement for the same key.              *)
(***************************************************************************)
EXTENDS Integers, FiniteSets

CONSTANTS
    Threads,
    Keys,       \* route targets after normalizeTarget
    None,
    LastTable,  \* bound: the range 52000..52999 is 1..LastTable
    MaxSteps    \* bound: acquisitions, crashes, sweeps, foreign tables, and commands
                \* whose failure leaves something in a table

Tables == 1..LastTable
Lease == [key : Keys, table : Tables]
Empty == [sentinel |-> FALSE, route |-> None, rule |-> None, foreign |-> FALSE]

VARIABLES
    os,         \* per table: our sentinel, route and rule, and foreign content
    mutex,      \* the thread inside the registry, or None
    entries,    \* the weak map: key -> table of its latest entry
    owned,      \* ownedTables
    held,       \* per thread: the leases it has copies of
    pc,         \* per thread: where it is
    want,       \* per thread: the key it acquires
    at,         \* per thread: the table it tries, fills or empties
    busy,       \* per thread: tables seen occupied
    dying,      \* per thread: the lease whose last copy it dropped
    swept,      \* a sweep removed tables of live leases
    stuck,      \* history: tables in which a command that failed left a rule or a route
    steps

vars == <<os, mutex, entries, owned, held, pc, want, at, busy, dying, swept, stuck, steps>>

TypeOK ==
    /\ os \in [Tables -> [sentinel : BOOLEAN, route : Keys \cup {None}, rule : Keys \cup {None},
                          foreign : BOOLEAN]]
    /\ mutex \in Threads \cup {None}
    /\ DOMAIN entries \subseteq Keys /\ \A k \in DOMAIN entries : entries[k] \in Tables
    /\ owned \subseteq Tables
    /\ held \in [Threads -> SUBSET Lease] /\ busy \in [Threads -> SUBSET Tables]
    /\ pc \in [Threads -> {"idle", "acquire", "list", "reserve", "route", "rule", "fail",
                           "release", "unrule", "unroute", "unreserve"}]
    /\ want \in [Threads -> Keys \cup {None}] /\ at \in [Threads -> 0..LastTable + 1]
    /\ dying \in [Threads -> Lease \cup {None}] /\ swept \in BOOLEAN
    /\ stuck \subseteq Tables /\ steps \in 0..MaxSteps

Init ==
    /\ os = [n \in Tables |-> Empty] /\ mutex = None /\ entries = <<>> /\ owned = {}
    /\ held = [t \in Threads |-> {}] /\ pc = [t \in Threads |-> "idle"]
    /\ want = [t \in Threads |-> None] /\ at = [t \in Threads |-> 0]
    /\ busy = [t \in Threads |-> {}] /\ dying = [t \in Threads |-> None]
    /\ swept = FALSE /\ stuck = {} /\ steps = 0

Go(t, l) == pc' = [pc EXCEPT ![t] = l]
Live(l) == \E t \in Threads : l \in held[t]
Used == {n \in Tables : os[n] # Empty}

\* weak_ptr::lock: the entry of a key, if some thread still has a copy.
Existing(k) ==
    IF k \in DOMAIN entries /\ Live([key |-> k, table |-> entries[k]])
    THEN [key |-> k, table |-> entries[k]] ELSE None

Count == steps < MaxSteps /\ steps' = steps + 1
Free(n) == os' = [os EXCEPT ![n].sentinel = FALSE]

(***************************************************************************)
(* acquire.                                                                *)
(***************************************************************************)

Acquire(t, k) ==
    /\ pc[t] = "idle" /\ steps < MaxSteps
    /\ want' = [want EXCEPT ![t] = k] /\ Go(t, "acquire") /\ steps' = steps + 1
    /\ UNCHANGED <<os, mutex, entries, owned, held, at, busy, dying, swept, stuck>>

\* Another copy of a lease that is held.
Share(t) ==
    /\ pc[t] = "acquire" /\ mutex = None /\ Existing(want[t]) # None
    /\ held' = [held EXCEPT ![t] = @ \cup {Existing(want[t])}]
    /\ Go(t, "idle")
    /\ UNCHANGED <<os, mutex, entries, owned, want, at, busy, dying, swept, stuck, steps>>

Enter(t) ==
    /\ pc[t] = "acquire" /\ mutex = None /\ Existing(want[t]) = None
    /\ mutex' = t /\ Go(t, "list")
    /\ UNCHANGED <<os, entries, owned, held, want, at, busy, dying, swept, stuck, steps>>

\* ip rule show, ip route show table all: tables with anything in them, and our own.
List(t) ==
    /\ pc[t] = "list"
    /\ busy' = [busy EXCEPT ![t] = owned \cup Used]
    /\ at' = [at EXCEPT ![t] = 1] /\ Go(t, "reserve")
    /\ UNCHANGED <<os, mutex, entries, owned, held, want, dying, swept, stuck, steps>>

\* The first table that is not occupied and whose sentinel can be added.
Reserve(t) ==
    /\ pc[t] = "reserve" /\ at[t] \in Tables
    /\ IF at[t] \in busy[t] \/ os[at[t]].sentinel
       THEN at' = [at EXCEPT ![t] = @ + 1] /\ UNCHANGED <<os, owned, pc>>
       ELSE /\ os' = [os EXCEPT ![at[t]].sentinel = TRUE]
            /\ owned' = owned \cup {at[t]} /\ Go(t, "route") /\ UNCHANGED at
    /\ UNCHANGED <<mutex, entries, held, want, busy, dying, swept, stuck, steps>>

AddRoute(t) ==
    /\ pc[t] = "route"
    /\ os' = [os EXCEPT ![at[t]].route = want[t]] /\ Go(t, "rule")
    /\ UNCHANGED <<mutex, entries, owned, held, want, at, busy, dying, swept, stuck, steps>>

\* The rule makes it effective; the entry is published and the lease returned.
AddRule(t) ==
    /\ pc[t] = "rule"
    /\ os' = [os EXCEPT ![at[t]].rule = want[t]]
    /\ entries' = [k \in DOMAIN entries \cup {want[t]} |->
                        IF k = want[t] THEN at[t] ELSE entries[k]]
    /\ held' = [held EXCEPT ![t] = @ \cup {[key |-> want[t], table |-> at[t]]}]
    /\ mutex' = None /\ Go(t, "idle")
    /\ UNCHANGED <<owned, want, at, busy, dying, swept, stuck, steps>>

\* What the command under way does to the system.
Effect(t) ==
    CASE pc[t] = "reserve" /\ at[t] \in Tables \ busy[t] -> [os EXCEPT ![at[t]].sentinel = TRUE]
      [] pc[t] = "route" -> [os EXCEPT ![at[t]].route = want[t]]
      [] pc[t] = "rule"  -> [os EXCEPT ![at[t]].rule = want[t]]
      [] OTHER -> os

\* A command fails: removeObjects takes back what was created, then the error.  A command
\* that was killed after five seconds may have had its effect all the same; what it created
\* does not count as created.
AcquireFails(t) ==
    /\ pc[t] \in {"list", "reserve", "route", "rule"}
    /\ \/ UNCHANGED <<os, stuck, steps>>
       \/ /\ os' = Effect(t) /\ Count
          /\ stuck' = IF pc[t] \in {"route", "rule"} THEN stuck \cup {at[t]} ELSE stuck
    /\ IF pc[t] \in {"route", "rule"}
       THEN Go(t, IF pc[t] = "rule" THEN "unroute" ELSE "unreserve") /\ UNCHANGED mutex
       ELSE Go(t, "idle") /\ mutex' = None
    /\ UNCHANGED <<entries, owned, held, want, at, busy, dying, swept>>

(***************************************************************************)
(* Release of the last copy.                                               *)
(***************************************************************************)

Drop(t, l) ==
    /\ pc[t] = "idle" /\ l \in held[t]
    /\ held' = [held EXCEPT ![t] = @ \ {l}]
    /\ IF \E u \in Threads \ {t} : l \in held[u]
       THEN UNCHANGED <<pc, dying>>
       ELSE dying' = [dying EXCEPT ![t] = l] /\ Go(t, "release")
    /\ UNCHANGED <<os, mutex, entries, owned, want, at, busy, swept, stuck, steps>>

BeginRelease(t) ==
    /\ pc[t] = "release" /\ mutex = None
    /\ mutex' = t /\ at' = [at EXCEPT ![t] = dying[t].table] /\ Go(t, "unrule")
    /\ UNCHANGED <<os, entries, owned, held, want, busy, dying, swept, stuck, steps>>

\* The rule, the route, then the sentinel: a crash in between leaves a table that a sweep
\* still recognises.  Each deletion may fail or be killed, and the next one is made anyway.
DelRule(t) ==
    /\ pc[t] = "unrule" /\ Go(t, "unroute")
    /\ \/ os' = [os EXCEPT ![at[t]].rule = None] /\ UNCHANGED <<stuck, steps>>
       \/ stuck' = stuck \cup {at[t]} /\ Count /\ UNCHANGED os
    /\ UNCHANGED <<mutex, entries, owned, held, want, at, busy, dying, swept>>
DelRoute(t) ==
    /\ pc[t] = "unroute" /\ Go(t, "unreserve")
    /\ \/ os' = [os EXCEPT ![at[t]].route = None] /\ UNCHANGED <<stuck, steps>>
       \/ stuck' = stuck \cup {at[t]} /\ Count /\ UNCHANGED os
    /\ UNCHANGED <<mutex, entries, owned, held, want, at, busy, dying, swept>>

\* The map entry is erased only while nobody installed a replacement, and the table is
\* nobody's whatever is left in it.
DelSentinel(t) ==
    /\ pc[t] = "unreserve"
    /\ (Free(at[t]) /\ UNCHANGED steps) \/ (Count /\ UNCHANGED os)
    /\ owned' = owned \ {at[t]}
    /\ entries' = [k \in DOMAIN entries \ {k \in Keys : dying[t] # None /\ k = dying[t].key
                                                        /\ Existing(k) = None} |-> entries[k]]
    /\ dying' = [dying EXCEPT ![t] = None] /\ mutex' = None /\ Go(t, "idle")
    /\ UNCHANGED <<held, want, at, busy, swept, stuck>>

(***************************************************************************)
(* The sweep, the other processes, and a crash.                            *)
(***************************************************************************)

\* cleanupManagedLinuxRoutesImpl, in a STOP that the same thread serves between
\* two requests: the tables with our sentinel lose our rules and then, if those could be
\* deleted, our routes and the sentinel.  It does not know about leases.
Sweep ==
    /\ \A t \in Threads : pc[t] = "idle"
    /\ steps < MaxSteps /\ steps' = steps + 1
    /\ \E ruled, routed \in SUBSET {n \in Tables : os[n].sentinel} :
         os' = [n \in Tables |->
                    CASE ~os[n].sentinel \/ n \in ruled -> os[n]       \* a rule may stay
                      [] n \in routed \ ruled -> [os[n] EXCEPT !.rule = None]
                      [] OTHER -> [Empty EXCEPT !.foreign = os[n].foreign]]
    /\ swept' = (swept \/ \E l \in Lease : Live(l))
    /\ UNCHANGED <<mutex, entries, owned, held, pc, want, at, busy, dying, stuck>>

\* Some other software uses a table of the range.
Foreign(n) ==
    /\ ~os[n].foreign /\ steps < MaxSteps /\ steps' = steps + 1
    /\ os' = [os EXCEPT ![n].foreign = TRUE]
    /\ UNCHANGED <<mutex, entries, owned, held, pc, want, at, busy, dying, swept, stuck>>

\* Another instance of the program reserves a table and never fills it.
Rival(n) ==
    /\ ~os[n].sentinel /\ steps < MaxSteps /\ steps' = steps + 1
    /\ os' = [os EXCEPT ![n].sentinel = TRUE]
    /\ UNCHANGED <<mutex, entries, owned, held, pc, want, at, busy, dying, swept, stuck>>

Crash ==
    /\ steps < MaxSteps /\ steps' = steps + 1
    /\ mutex' = None /\ entries' = <<>> /\ owned' = {}
    /\ held' = [t \in Threads |-> {}] /\ pc' = [t \in Threads |-> "idle"]
    /\ want' = [t \in Threads |-> None] /\ at' = [t \in Threads |-> 0]
    /\ busy' = [t \in Threads |-> {}] /\ dying' = [t \in Threads |-> None]
    /\ UNCHANGED <<os, swept, stuck>>

Inside(t) ==
    \/ Share(t) \/ Enter(t) \/ List(t) \/ Reserve(t) \/ AddRoute(t) \/ AddRule(t)
    \/ AcquireFails(t) \/ BeginRelease(t) \/ DelRule(t) \/ DelRoute(t) \/ DelSentinel(t)

Next ==
    \/ Sweep \/ Crash
    \/ \E n \in Tables : Foreign(n) \/ Rival(n)
    \/ \E t \in Threads :
        \/ Inside(t)
        \/ \E k \in Keys : Acquire(t, k)
        \/ \E l \in held[t] : Drop(t, l)

Spec == Init /\ [][Next]_vars
FairSpec == Spec /\ \A t \in Threads : WF_vars(Inside(t))

(***************************************************************************)
(* Properties.                                                             *)
(***************************************************************************)

\* A lease that is held has its rule, its route and its reserved table, whatever
\* other threads release, replace or share, unless a STOP swept it.
HeldIsInstalled ==
    ~swept => \A l \in Lease : Live(l) =>
        /\ os[l.table].sentinel /\ os[l.table].route = l.key /\ os[l.table].rule = l.key

\* What the comment in stopLinuxSession asks for: the bypass outlives the
\* session that holds it.
HeldStaysInstalled == \A l \in Lease : Live(l) => os[l.table].rule = l.key

\* Our routes and rules are only in a table that carries the sentinel, so that after a
\* crash at any point the next sweep finds all of them; unless one of the `ip' commands
\* that filled or emptied the table failed.
SentinelGuards ==
    \A n \in Tables :
        os[n].route # None \/ os[n].rule # None => os[n].sentinel \/ n \in stuck

\* Not so: without that exemption.  removeObjects deletes the sentinel although the rule
\* or the route could not be deleted, and what is left is swept by nobody.
SentinelAlwaysGuards ==
    \A n \in Tables : os[n].route # None \/ os[n].rule # None => os[n].sentinel

\* What a failed command left is never taken for a free table: a route is added only to
\* one that has neither a route nor a rule of ours.
FillsCleanTable ==
    \A t \in Threads : pc[t] = "route" => os[at[t]].route = None /\ os[at[t]].rule = None

\* Live leases of one process are unique per key and per table.
NoTableTwice ==
    \A l, m \in Lease : Live(l) /\ Live(m) /\ (l.table = m.table \/ l.key = m.key) => l = m

\* A call that entered the registry returns: it holds the mutex for a bounded
\* number of commands.
CallsReturn == \A t \in Threads : pc[t] # "idle" ~> pc[t] = "idle"

\* The contract of both registries, as long as nothing is swept.
Contract == INSTANCE RouteLeases WITH
    Holders <- Threads,
    granted <- IF swept THEN {} ELSE {p \in Threads \X Keys : \E l \in held[p[1]] : l.key = p[2]},
    installed <- IF swept THEN {} ELSE
        {k \in Keys : \E n \in owned : os[n].rule = k /\ os[n].route = k}

KeepsContract == Contract!Spec
===============================================================================

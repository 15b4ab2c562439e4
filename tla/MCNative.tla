------------------------------- MODULE MCNative -------------------------------
(***************************************************************************)
(* The parts of the native connections for TLC, one at a time: the Linux   *)
(* and the Windows routes, the sessions, and the search for a transport    *)
(* address.                                                                *)
(***************************************************************************)
EXTENDS Integers, Sequences, FiniteSets

CONSTANTS
    Threads, Keys, None, LastTable, MaxSteps,
    Cidrs, MaxTuns, MaxCalls,
    Ids, MaxOps, MaxFaults,
    Width, Packet, Steps, Passes

VARIABLES
    subject,
    os, mutex, entries, owned, held, pc, want, at, busy, dying, swept, stuck, steps,
    wtun, wtuns, wos, wentries, wlease, wmain, wcalls,
    platform, conn, engine, op, core, belief, plan, sess, leaked, ops, faults,
    input, tat, left, found, leases, result

Linux == INSTANCE RouteRegistry
Windows == INSTANCE WindowsRoutes WITH tun <- wtun, tuns <- wtuns, os <- wos, entries <- wentries,
    lease <- wlease, main <- wmain, calls <- wcalls
Session == INSTANCE NativeSession
Lookup == INSTANCE Transport WITH at <- tat

ASSUME BoundsAreNumbers ==
    {LastTable, MaxSteps, MaxTuns, MaxCalls, MaxOps, MaxFaults} \subseteq Nat

\* None is no thread, no route and no lease.
ASSUME NoneIsNothing == None \notin Threads \cup Keys \cup Linux!Lease

linux == <<os, mutex, entries, owned, held, pc, want, at, busy, dying, swept, stuck, steps>>
windows == <<wtun, wtuns, wos, wentries, wlease, wmain, wcalls>>
session == <<platform, conn, engine, op, core, belief, plan, sess, leaked, ops, faults>>
lookup == <<input, tat, left, found, leases, result>>
vars == <<subject, linux, windows, session, lookup>>

Init ==
    /\ subject \in {"linux", "windows", "session", "lookup"}
    /\ Linux!Init /\ Windows!Init /\ Session!Init /\ Lookup!Init
    /\ subject # "session" => platform = "linux"

InLinux == subject = "linux" /\ UNCHANGED <<subject, windows, session, lookup>>
InWindows == subject = "windows" /\ UNCHANGED <<subject, linux, session, lookup>>
InSession == subject = "session" /\ UNCHANGED <<subject, linux, windows, lookup>>
InLookup == subject = "lookup" /\ UNCHANGED <<subject, linux, windows, session>>

Next ==
    \/ InLinux /\ Linux!Next
    \/ InWindows /\ Windows!Next
    \/ InSession /\ Session!Next
    \/ InLookup /\ Lookup!Next

Spec ==
    /\ Init /\ [][Next]_vars
    /\ \A t \in Threads : WF_vars(InLinux /\ Linux!Inside(t))
    /\ WF_vars(InWindows /\ Windows!Moves)

\* Linux: a lease that is held is installed, no two leases share a table, and no table in
\* which a failed command left something is filled again, whatever other threads and
\* processes install, release or replace; its routes are only in a table that carries the
\* sentinel the sweep looks for, but for those a failed command left. Windows: in no order
\* of replacement, failure and watching is the default route leased without the captures
\* of its TUN, what is leased is in the system, and routes of other software stay. Both
\* registries keep the contract of route leases. A lookup leaves no bypass but the one in
\* use.
RoutesAreSafe ==
    /\ []Linux!TypeOK
    /\ []Linux!HeldIsInstalled
    /\ []Linux!SentinelGuards
    /\ []Linux!FillsCleanTable
    /\ []Linux!NoTableTwice
    /\ []Windows!TypeOK
    /\ []Windows!DefaultIsCovered
    /\ []Windows!LeasedIsInstalled
    /\ []Lookup!OneLease
    /\ Windows!ForeignStays
    /\ Linux!KeepsContract
    /\ Windows!KeepsContract

\* Every call of a registry returns and what a core left behind is given up; a lookup
\* answers what its reference definition says: the best physical route, captures that
\* cover exactly the networks minus the exclusions, names that end, aliases in any order.
CallsAreAnswered ==
    /\ Linux!CallsReturn
    /\ Windows!GivenUp
    /\ []Lookup!RouteIsBest
    /\ []Lookup!CaptureIsExact
    /\ []Lookup!NameEnds
    /\ []Lookup!AliasesAreFollowed

\* A session is taken down only after the running plan let go of its interface or the
\* kernel stopped, whatever was refused or lost before, as long as the store does not hold
\* the kernel for failed; a plan refers to connected sessions, and a session nobody owns is
\* the remainder of a dial that lost two answers.
SessionsAreWithdrawn ==
    /\ []Session!TypeOK
    /\ []Session!PlanIsConnected
    /\ []Session!OrphanIsLeaked
    /\ Session!WithdrawnFirst
===============================================================================

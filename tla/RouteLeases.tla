------------------------------ MODULE RouteLeases ------------------------------
(***************************************************************************)
(* What a route registry promises, whatever the platform: a route is in    *)
(* the system from before its lease is granted until after the last holder *)
(* let it go.  Only a crash of the process or an explicit sweep breaks     *)
(* that.  RouteRegistry (Linux) and WindowsRoutes implement it.            *)
(***************************************************************************)
CONSTANTS Holders, Keys

VARIABLES
    granted,    \* who holds a lease of what: pairs <<holder, key>>
    installed   \* routes this process has put into the system

vars == <<granted, installed>>

Init == granted = {} /\ installed = {}

Install(k) == installed' = installed \cup {k} /\ UNCHANGED granted

\* The last step of an installation may be the grant.
Grant(h, k) ==
    /\ granted' = granted \cup {<<h, k>>}
    /\ installed' = installed \cup {k}

Drop(leases) == granted' = granted \ leases /\ UNCHANGED installed

Uninstall(k) ==
    /\ \A h \in Holders : <<h, k>> \notin granted
    /\ installed' = installed \ {k}
    /\ UNCHANGED granted

\* The process dies with its leases; what it installed stays behind, unowned.
Crash == granted' = {} /\ installed' = {}

Next ==
    \/ Crash
    \/ \E k \in Keys : Install(k) \/ Uninstall(k) \/ \E h \in Holders : Grant(h, k)
    \/ \E leases \in SUBSET granted : Drop(leases)

Spec == Init /\ [][Next]_vars
===============================================================================

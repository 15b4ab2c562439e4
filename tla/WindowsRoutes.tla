----------------------------- MODULE WindowsRoutes -----------------------------
(***************************************************************************)
(* The Windows route registry (vpn_compensation.cpp) and the capture lease *)
(* of the main TUN (vpn_compensation_windows.cpp).  A lease captures the   *)
(* native networks on the TUN, then adds the default route of the PPP      *)
(* interface that sing-box needs to bind to it.  The main thread replaces  *)
(* the accepted lease by a candidate; each lease has a watcher thread that *)
(* gives its routes up when the TUN disappears.                            *)
(*                                                                         *)
(* A TUN that returns has a new LUID, so the keys of a capture carry the   *)
(* generation of the TUN.  When an adapter goes, its routes go with it.    *)
(***************************************************************************)
EXTENDS Naturals

CONSTANTS
    Cidrs,      \* what WindowsCaptureDestinations returned for the PPP interface
    MaxTuns,    \* bound: how often the TUN appears
    MaxCalls    \* bound: replacements, releases, and routes of other software

Slots == {"current", "candidate"}
Default == <<"ppp", 0>>
Captures(g) == {<<c, g>> : c \in Cidrs}
Routes == {Default} \cup UNION {Captures(g) : g \in 1..MaxTuns}
Empty == [tun |-> 0, captures |-> {}, defaults |-> {}, watcher |-> "none"]

VARIABLES
    tun,        \* generation of the TUN, 0 while there is none
    tuns,       \* TUNs so far
    os,         \* key -> "ours", "foreign" or absent
    entries,    \* registered entries: key -> is it owned (created, not borrowed)
    lease,      \* per slot: the TunLease in it
    main,       \* what the main thread does
    calls

vars == <<tun, tuns, os, entries, lease, main, calls>>

TypeOK ==
    /\ tun \in 0..MaxTuns /\ tuns \in 0..MaxTuns
    /\ os \in [Routes -> {"ours", "foreign", "absent"}]
    /\ DOMAIN entries \subseteq Routes /\ \A k \in DOMAIN entries : entries[k] \in BOOLEAN
    /\ lease \in [Slots -> [tun : 0..MaxTuns, captures : SUBSET Routes, defaults : SUBSET {Default},
                            watcher : {"none", "watching", "clearing", "done"}]]
    /\ main \in {"idle", "capture", "default", "apply", "drop", "join", "release"}
    /\ calls \in 0..MaxCalls

Init ==
    /\ tun = 0 /\ tuns = 0 /\ os = [k \in Routes |-> "absent"] /\ entries = <<>>
    /\ lease = [s \in Slots |-> Empty] /\ main = "idle" /\ calls = 0

Holds(s) == lease[s].captures \cup lease[s].defaults
Held == UNION {Holds(s) : s \in Slots}
Expired == DOMAIN entries \ Held

(***************************************************************************)
(* WindowsRouteRegistry.                                                   *)
(***************************************************************************)

\* A live entry is shared; an expired one still waits for its deleter and is
\* refused; otherwise the route is created, or borrowed if the system has it.
CanAcquire(k) == k \notin Expired
Register(k) ==
    IF k \in DOMAIN entries THEN UNCHANGED <<os, entries>>
    ELSE /\ entries' = [j \in DOMAIN entries \cup {k} |->
                            IF j = k THEN os[k] = "absent" ELSE entries[j]]
         /\ os' = [os EXCEPT ![k] = IF @ = "absent" THEN "ours" ELSE @]

\* Mutant: a route that was only borrowed is removed as well.
DeleteBorrowed(k) ==
    /\ k \in Expired
    /\ os' = [os EXCEPT ![k] = "absent"]
    /\ entries' = [j \in DOMAIN entries \ {k} |-> entries[j]]
    /\ UNCHANGED <<tun, tuns, lease, main, calls>>

\* ~Entry, once it has the mutex.
Delete(k) ==
    /\ k \in Expired
    /\ os' = [os EXCEPT ![k] = IF entries[k] THEN "absent" ELSE @]
    /\ entries' = [j \in DOMAIN entries \ {k} |-> entries[j]]
    /\ UNCHANGED <<tun, tuns, lease, main, calls>>

(***************************************************************************)
(* PrepareWindowsTun, Replace and the destruction of a TunLease.           *)
(***************************************************************************)

Call == calls < MaxCalls /\ calls' = calls + 1

\* Replace(current, prepare, apply): needs a TUN with full routes.
Prepare ==
    /\ main = "idle" /\ tun # 0 /\ Call
    /\ lease' = [lease EXCEPT !["candidate"] = [Empty EXCEPT !.tun = tun]]
    /\ main' = "capture" /\ UNCHANGED <<tun, tuns, os, entries>>

\* A route can be created only on an interface that exists.
Capture(k) ==
    /\ main = "capture" /\ k \in Captures(lease["candidate"].tun) \ lease["candidate"].captures
    /\ CanAcquire(k) /\ (k \in DOMAIN entries \/ lease["candidate"].tun = tun)
    /\ Register(k)
    /\ lease' = [lease EXCEPT !["candidate"].captures = @ \cup {k}]
    /\ main' = IF lease'["candidate"].captures = Captures(lease["candidate"].tun)
               THEN "default" ELSE "capture"
    /\ UNCHANGED <<tun, tuns, calls>>

AddDefault ==
    /\ main = "default" /\ CanAcquire(Default) /\ Register(Default)
    /\ lease' = [lease EXCEPT !["candidate"].defaults = {Default},
                              !["candidate"].watcher = "watching"]
    /\ main' = "apply" /\ UNCHANGED <<tun, tuns, calls>>

\* A route is refused, or the replacement of the PPP routes fails: the candidate goes.
PrepareFails ==
    /\ main \in {"capture", "default", "apply"}
    /\ main' = "drop" /\ UNCHANGED <<tun, tuns, os, entries, lease, calls>>

\* current = std::move(candidate): what was current is destroyed.
Accept ==
    /\ main = "apply"
    /\ lease' = [s \in Slots |-> lease[IF s = "current" THEN "candidate" ELSE "current"]]
    /\ main' = "drop" /\ UNCHANGED <<tun, tuns, os, entries, calls>>

\* A disconnect resets the accepted lease.
Reset ==
    /\ main = "idle" /\ lease["current"] # Empty /\ Call
    /\ lease' = [lease EXCEPT !["candidate"] = lease["current"], !["current"] = Empty]
    /\ main' = "drop" /\ UNCHANGED <<tun, tuns, os, entries>>

\* ~TunLease: the watcher is joined, then the defaults go, then the captures.
Join ==
    /\ main = "drop" /\ lease["candidate"].watcher \in {"none", "watching", "done"}
    /\ lease' = [lease EXCEPT !["candidate"].defaults = {}, !["candidate"].watcher = "none"]
    /\ main' = "release" /\ UNCHANGED <<tun, tuns, os, entries, calls>>

Release ==
    /\ main = "release" /\ Default \notin Expired
    /\ lease' = [lease EXCEPT !["candidate"] = Empty]
    /\ main' = "idle" /\ UNCHANGED <<tun, tuns, os, entries, calls>>

\* Mutant: another TUN in the place of the leased one goes unnoticed.
NoticeNone(s) ==
    /\ lease[s].watcher = "watching" /\ tun = 0
    /\ lease' = [lease EXCEPT ![s].defaults = {}, ![s].watcher = "clearing"]
    /\ UNCHANGED <<tun, tuns, os, entries, main, calls>>

\* The watcher of a lease: the interface or its broadest core route is gone.
Notice(s) ==
    /\ lease[s].watcher = "watching" /\ tun # lease[s].tun
    /\ lease' = [lease EXCEPT ![s].defaults = {}, ![s].watcher = "clearing"]
    /\ UNCHANGED <<tun, tuns, os, entries, main, calls>>
Clear(s) ==
    /\ lease[s].watcher = "clearing" /\ Default \notin Expired
    /\ lease' = [lease EXCEPT ![s].captures = {}, ![s].watcher = "done"]
    /\ UNCHANGED <<tun, tuns, os, entries, main, calls>>

(***************************************************************************)
(* The system.                                                             *)
(***************************************************************************)

TunAppears ==
    /\ tun = 0 /\ tuns < MaxTuns
    /\ tun' = tuns + 1 /\ tuns' = tuns + 1 /\ UNCHANGED <<os, entries, lease, main, calls>>
TunVanishes ==
    /\ tun # 0 /\ tun' = 0
    /\ os' = [k \in Routes |-> IF k \in Captures(tun) THEN "absent" ELSE os[k]]
    /\ UNCHANGED <<tuns, entries, lease, main, calls>>

\* An earlier process or the system has the same route already.
ForeignRoute(k) ==
    /\ os[k] = "absent" /\ (k # Default => k \in Captures(tun)) /\ k \notin DOMAIN entries /\ Call
    /\ os' = [os EXCEPT ![k] = "foreign"] /\ UNCHANGED <<tun, tuns, entries, lease, main>>

Main == Prepare \/ (\E k \in Routes : Capture(k)) \/ AddDefault \/ PrepareFails \/ Accept \/ Reset
        \/ Join \/ Release
Watcher(s) == Notice(s) \/ Clear(s)

Next ==
    \/ Main \/ TunAppears \/ TunVanishes
    \/ \E s \in Slots : Watcher(s)
    \/ \E k \in Routes : Delete(k) \/ ForeignRoute(k)

Spec == Init /\ [][Next]_vars
Moves == (\E s \in Slots : Watcher(s)) \/ (\E k \in Routes : Delete(k)) \/ Join \/ Release
FairSpec == Spec /\ WF_vars(Moves)

(***************************************************************************)
(* Properties.                                                             *)
(***************************************************************************)

\* The default route of a PPP interface is leased only together with every
\* capture of its TUN: in no order of replacement, failure and watching is
\* ordinary traffic left to the bare default.
DefaultIsCovered ==
    \A s \in Slots : lease[s].defaults # {} => lease[s].captures = Captures(lease[s].tun)

\* A leased route is in the system while its interface is.
LeasedIsInstalled ==
    \A k \in Held : os[k] # "absent" \/ (k # Default /\ k \notin Captures(tun))

\* A route that the program did not create is never removed by it.
ForeignStays == [][\A k \in Routes : os[k] = "foreign" => os'[k] = "foreign" \/ tun' # tun]_vars

\* A core that crashed does not leave its captures and the default behind.
GivenUp ==
    \A g \in 1..MaxTuns :
        tuns >= g /\ tun # g ~> Held \cap Captures(g) = {} \/ main \in {"capture", "default"}

\* The contract of both registries.
Contract == INSTANCE RouteLeases WITH
    Keys <- Routes,
    Holders <- {"service"},
    granted <- {"service"} \X Held,
    installed <- DOMAIN entries
KeepsContract == Contract!Spec
===============================================================================

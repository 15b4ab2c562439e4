------------------------------ MODULE ProxyLease ------------------------------
(***************************************************************************)
(* The system proxy across crashes.  takeSystemProxy changes the desktop   *)
(* at once, but its lease, which says what the desktop had before, reaches *)
(* the disk only with the next flush.  Each setting is saved by a          *)
(* transaction of its own.  A start releases what an earlier run left.     *)
(***************************************************************************)
EXTENDS Naturals, FiniteSets

CONSTANTS
    Ports,       \* ports the accepted plan may listen on
    MixedPort,   \* the one systemProxyOurs assumes when none is stored
    User,        \* what the user or other software has set
    MaxTakes, MaxCrashes

VARIABLES
    os,       \* the desktop's proxy: "none", User, or one that points at this program
    lease,    \* proxy.system_lease: <<>> or <<[original, applied, restore]>>
    port,     \* proxy.system_port: <<>> or <<p>>
    saved,    \* [lease, port] on disk
    up,       \* "no", "clean" (released what was left), "yes"
    owed,     \* what the desktop had before this program pointed it at itself
    lost,     \* history: the desktop points at this program by a take whose lease was not
              \* on disk when the program crashed
    takes, crashes

vars == <<os, lease, port, saved, up, owed, lost, takes, crashes>>

Kinds == {"manual", "pac"}
OursValues == Kinds \X Ports
Values == {<<"none", 0>>, <<"user", User>>} \cup OursValues
Ours(v) == v \in OursValues

\* systemProxyOurs: by the lease or, without one, by the port that was stored.
SystemProxyOurs ==
    IF lease # <<>> THEN lease[1].applied = os
    ELSE os = <<"manual", IF port = <<>> THEN MixedPort ELSE port[1]>>

\* takeSystemProxy: capture, enable, store the lease and the port.
TakeSystemProxy(kind, p) ==
    LET prior == lease # <<>> /\ lease[1].applied = os
        original == IF prior THEN lease[1].original ELSE os
        restore == lease # <<>> \/ ~SystemProxyOurs
    IN
    /\ up # "no" /\ takes < MaxTakes /\ takes' = takes + 1
    /\ os' = <<kind, p>>
    /\ lease' = <<[original |-> original, applied |-> os', restore |-> restore]>>
    /\ port' = <<p>> /\ up' = "yes"
    /\ owed' = IF Ours(os) THEN owed ELSE os
    /\ UNCHANGED <<saved, lost, crashes>>

\* releaseSystemProxy, reached only when the desktop points at this program.
Release ==
    /\ SystemProxyOurs
    /\ os' = IF lease # <<>> /\ lease[1].restore THEN lease[1].original ELSE <<"none", 0>>
    /\ lease' = <<>> /\ port' = port /\ lost' = (lost /\ Ours(os'))

ReleaseSystemProxy == up = "yes" /\ Release /\ UNCHANGED <<saved, up, owed, takes, crashes>>

\* Mutant of ReleaseStaleOwnedSystemProxy.
ReleaseAnyway ==
    /\ up = "no" /\ up' = "clean"
    /\ IF lease # <<>> THEN os' = lease[1].original /\ lease' = <<>> ELSE UNCHANGED <<os, lease>>
    /\ lost' = (lost /\ Ours(os'))
    /\ UNCHANGED <<port, saved, owed, takes, crashes>>

\* releaseStaleOwnedSystemProxy, first thing after hydration.
ReleaseStaleOwnedSystemProxy ==
    /\ up = "no" /\ up' = "clean"
    /\ IF SystemProxyOurs THEN Release ELSE UNCHANGED <<os, lease, port, lost>>
    /\ UNCHANGED <<saved, owed, takes, crashes>>

Flush ==
    /\ up # "no"
    /\ \/ saved' = [saved EXCEPT !.lease = lease] \/ saved' = [saved EXCEPT !.port = port]
    /\ UNCHANGED <<os, lease, port, up, owed, lost, takes, crashes>>

\* The user or another program takes the desktop's proxy.
UserChanges ==
    /\ \E v \in {<<"none", 0>>, <<"user", User>>} : os # v /\ os' = v
    /\ lost' = FALSE
    /\ UNCHANGED <<lease, port, saved, up, owed, takes, crashes>>

Crash ==
    /\ up # "no" /\ up' = "no" /\ crashes < MaxCrashes /\ crashes' = crashes + 1
    /\ lease' = saved.lease /\ port' = saved.port
    /\ lost' = (Ours(os) /\ (lost \/ saved.lease # lease))
    /\ UNCHANGED <<os, saved, owed, takes>>

Init ==
    /\ os \in {<<"none", 0>>, <<"user", User>>} /\ owed = os
    /\ lease = <<>> /\ port = <<>> /\ saved = [lease |-> <<>>, port |-> <<>>]
    /\ up = "no" /\ lost = FALSE /\ takes = 0 /\ crashes = 0

Next ==
    \/ \E k \in Kinds, p \in Ports : TakeSystemProxy(k, p)
    \/ ReleaseSystemProxy \/ ReleaseStaleOwnedSystemProxy \/ Flush \/ UserChanges \/ Crash

Spec == Init /\ [][Next]_vars

Lease == [original : Values, applied : OursValues, restore : BOOLEAN]
AtMostOne(S) == {<<>>} \cup {<<x>> : x \in S}

\* Every variable keeps its type.
TypeOK ==
    /\ os \in Values /\ owed \in Values /\ up \in {"no", "clean", "yes"} /\ lost \in BOOLEAN
    /\ lease \in AtMostOne(Lease) /\ port \in AtMostOne(Ports)
    /\ saved \in [lease : AtMostOne(Lease), port : AtMostOne(Ports)]

\* A crash between any two steps: a start that finds the proxy of its lease gives back
\* what the desktop had before the first take, and not merely nothing.
CrashGivesBack ==
    [][(up = "no" /\ up' = "clean" /\ ~lost /\ lease # <<>> /\ lease[1].applied = os) =>
          os' = IF lease[1].restore THEN owed ELSE <<"none", 0>>]_vars

\* A start takes nothing from the user: a proxy that is not this program's
\* stays, although a lease of an earlier run is still stored.
UsersProxyStays == [][(up = "no" /\ up' = "clean" /\ ~Ours(os)) => os' = os]_vars

\* No start leaves the desktop pointing at a program that does not listen, but for the
\* take whose own lease the crash caught before its flush; the next change of the desktop by
\* anybody else ends that.
NotStranded == up = "clean" /\ Ours(os) => lost

\* And no release ever points it at this program again, with the same exception.
NeverGivenBackToUs ==
    SystemProxyOurs /\ ~lost => lease # <<>> /\ (lease[1].restore => ~Ours(lease[1].original))

\* Not so: without that exception, as the comment on releaseStaleOwnedSystemProxy has it.
\* The desktop is changed at once and the lease is written behind it, so that a crash before
\* the flush leaves a proxy of which the next start knows nothing: it stays, and if it is
\* taken again it becomes what a release gives back.
NeverStranded == up = "clean" => ~Ours(os)
==============================================================================

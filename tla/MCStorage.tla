------------------------------ MODULE MCStorage ------------------------------
(***************************************************************************)
(* What is kept and what is replaced, for TLC: the database, the lease of  *)
(* the system proxy and the application's own update, one at a time.       *)
(***************************************************************************)
EXTENDS Integers, Sequences, FiniteSets

CONSTANTS
    Ids, MaxRevision, MaxErrors, MaxStops,
    Ports, MixedPort, User, MaxTakes, MaxCrashes,
    Platforms, Size, MaxSerial, MaxInstalls, MaxSpoils

VARIABLES
    subject,
    mode, list, rows, set, dirty, dirtyRow, gone, disk, files, task, flag, rev, errors, stops, reused,
    os, lease, port, saved, up, owed, lost, takes, crashes,
    platform, checking, phase, serial, release, package, job, pack, install, helper, app, ran,
    channel, call, installs, spoils

S == INSTANCE Storage
P == INSTANCE ProxyLease
U == INSTANCE AppUpdate

ASSUME BoundsAreNumbers == {MaxRevision, Size, MaxSerial} \subseteq Nat

\* Ids are dense, and a database of an earlier run has up to two of them.
ASSUME IdsAreNumbers == Cardinality(Ids) \in Nat \ {0, 1} /\ Ids = 1..Cardinality(Ids)

\* The port assumed without a lease is one the plan may listen on.
ASSUME MixedPortIsPort == MixedPort \in Ports

storage == <<mode, list, rows, set, dirty, dirtyRow, gone, disk, files, task, flag, rev, errors,
             stops, reused>>
proxy == <<os, lease, port, saved, up, owed, lost, takes, crashes>>
update == <<platform, checking, phase, serial, release, package, job, pack, install, helper, app,
            ran, channel, call, installs, spoils>>
vars == <<subject, storage, proxy, update>>

InStorage == subject = "storage" /\ UNCHANGED <<subject, proxy, update>>
InLease   == subject = "lease" /\ UNCHANGED <<subject, storage, update>>
InUpdate  == subject = "update" /\ UNCHANGED <<subject, storage, proxy>>

Init ==
    /\ subject \in {"storage", "lease", "update"}
    /\ S!Init /\ P!Init /\ U!Init
    /\ subject # "storage" => set = S!Nothing
    /\ subject # "lease" => os = <<"none", 0>>
    /\ subject # "update" => platform = "linux"

Next ==
    \/ InStorage /\ S!Next
    \/ InLease /\ P!Next
    \/ InUpdate /\ U!Next

Spec ==
    /\ Init /\ [][Next]_vars
    /\ WF_vars(InStorage /\ S!Pump)
    /\ \A t \in S!Tasks : WF_vars(InStorage /\ S!Flush(t))
    /\ \A t \in U!Tickets : WF_vars(InUpdate /\ U!Task(t))
    /\ WF_vars(InUpdate /\ U!Install)

\* No deletion takes a file from a row that a restart may bring back, rules never outlive
\* their profile to be inherited by the next one of that id, and whoever is told that
\* nothing is pending finds everything on disk.
RowsAreWhole ==
    /\ S!TypeOK
    /\ S!FilesOutliveRows
    /\ S!RulesHaveOwner
    /\ S!NothingPendingIsSaved

\* The cache and its database are a write-behind store: the disk never holds a setting the
\* program did not write, and an upgrade is handed over with nothing pending.
StorageKeepsContract == S!KeepsContract

\* After a crash the next start gives back the proxy the user had, and only that: it touches
\* no proxy that is not ours, leaves the desktop pointing at no program that does not listen,
\* and never gives our own address back as the user's.  A take is exempt while its own
\* lease was still unwritten as the program crashed (P!NeverStranded does not hold), until
\* the desktop is changed by somebody else.
ProxyIsGivenBack ==
    /\ []P!TypeOK
    /\ []P!NotStranded
    /\ []P!NeverGivenBackToUs
    /\ P!CrashGivesBack
    /\ P!UsersProxyStays

\* Only what was downloaded completely and verified is offered and installed, after the
\* program ended; a task that was overtaken changes nothing, a failed installation is over,
\* and every directory has an owner.
UpdateIsSafe ==
    /\ []U!TypeOK
    /\ []U!OfferedIsComplete
    /\ []U!RunsOnlyVerified
    /\ []U!DirectoryIsOwned
    /\ []U!InstallsAfterExit
    /\ []U!FailedIsOver
    /\ U!StaleIsSilent

\* What is pending is saved in the end, every check, transfer and installation ends, and
\* the profiles are shown once and in the order in which the next start shows them.
WorkIsFinished ==
    /\ S!PendingIsSaved
    /\ U!InstallationEnds
    /\ U!TransferEnds
    /\ []S!ListShowsRows
    /\ []S!OrderSurvives
==============================================================================

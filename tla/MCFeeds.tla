------------------------------- MODULE MCFeeds -------------------------------
(***************************************************************************)
(* What the running kernel reports, for TLC, one part at a time: the       *)
(* streams and their health, the log store and its notices, the record of  *)
(* the runtime's health, and the rules live connections matched.           *)
(***************************************************************************)
EXTENDS Integers, Sequences, TLC

CONSTANTS
    Channels, Periodic, Threshold, Grace, Step, Cap, Window, MaxOps,
    Writers, MaxLines, MaxLog, MaxShown, Times, Compact, MaxMounts, MaxStarts,
    States, MaxRecent, MaxIncidents, Gap, MaxClock, MaxStores, MaxRestarts,
    Readers, MaxInstances, MaxConns, Unread

ASSUME BoundsAreNumbers ==
    /\ {MaxLines, MaxLog, MaxShown, Compact, MaxMounts, MaxStarts, MaxRecent, MaxIncidents, Gap, MaxClock,
        MaxStores, MaxRestarts, MaxInstances, MaxConns} \subseteq Nat
    /\ Times \subseteq Nat

\* The times of a channel are in the order of the code's (5 s, 10 s, 30 s to 120 s, 300 s).
ASSUME TimesAreInOrder ==
    /\ {Threshold, Grace, Step, Cap, Window, MaxOps} \subseteq Nat
    /\ 0 < Threshold /\ Threshold <= Grace /\ 0 < Step /\ Step <= Cap /\ Cap < Window

\* A channel is not one of the steps of the monitor that are not about one.
ASSUME ChannelsAreNoSteps ==
    Periodic \subseteq Channels /\ Channels \cap {"idle", "probe", "repair"} = {}

\* Each list of the health record keeps something, and its clock, which began long ago,
\* shows some time.
ASSUME RowsAreKept == MaxRecent > 0 /\ MaxIncidents > 0 /\ Gap > 0 /\ Gap <= MaxClock

\* A connection without a verdict is shown as none of the verdicts.
ASSUME UnreadIsNoVerdict == Unread \notin {"prior", "unmapped", "ambiguous"}

VARIABLES
    subject,
    active, epoch, pauses, observation, control, chan, sock, push, slot, owner, monitor,
    lifecycle, slept, taken, reserved, since,
    line, stamp, history, pending, loaded, appends, file, flag, observers, writer, posts, page, batch,
    entries, mounts, starts, cleared,
    clock, session, stores, recent, incidents, read, dirty, persisted, lastWrite, disk, last,
    core, live, conns, opened, binding, reader, shown, known

\* Two plans: rules that share a description, within a plan and across the two, one that
\* is alone with it, and one that is no rule of the user's.
Rule(description, origin) == [description |-> description, origin |-> origin]
Plans == <<<<Rule("a", "x"), Rule("a", "y")>>,
           <<Rule("a", "y"), Rule("b", "")>>>>

S == INSTANCE Streams
N == INSTANCE StreamNotices
H == INSTANCE HealthHistory WITH loaded <- read
C == INSTANCE ConnectionTrace

streams == <<active, epoch, pauses, observation, control, chan, sock, push, slot, owner, monitor,
             lifecycle, slept, taken, reserved, since>>
notices == <<line, stamp, history, pending, loaded, appends, file, flag, observers, writer, posts, page,
             batch, entries, mounts, starts, cleared>>
health == <<clock, session, stores, recent, incidents, read, dirty, persisted, lastWrite, disk, last>>
trace == <<core, live, conns, opened, binding, reader, shown, known>>
vars == <<subject, streams, notices, health, trace>>

Init ==
    /\ subject \in {"streams", "notices", "health", "trace"}
    /\ S!Init /\ N!Init /\ H!Init /\ C!Init

Next ==
    /\ UNCHANGED subject
    /\ \/ subject = "streams" /\ S!Next /\ UNCHANGED <<notices, health, trace>>
       \/ subject = "notices" /\ N!Next /\ UNCHANGED <<streams, health, trace>>
       \/ subject = "health" /\ H!Next /\ UNCHANGED <<streams, notices, trace>>
       \/ subject = "trace" /\ C!Next /\ UNCHANGED <<streams, notices, health>>

Spec == Init /\ [][Next]_vars

\* The list and the detail page read alike, and threads log alike.
Alike == Permutations(Readers) \cup Permutations(Writers)

\* Frames and evidence are of the kernel that runs; a channel is fresh only on frames of
\* its connection, no socket is deaf, only a silent one is reopened, about the runtime it
\* was decided for, and at most three times in a window.
StreamsAreCurrent ==
    /\ []S!TypeOK
    /\ []S!FrameIsOfThisKernel
    /\ []S!FreshIsEarned
    /\ []S!RepairsAreRare
    /\ []S!RepairIsCurrent
    /\ []S!EvidenceIsCurrent
    /\ []S!NoDeafSocket
    /\ S!OnlySilentIsReopened

\* Of the lines the store keeps the log page shows each once and in the order of their
\* times, or it is still queued, or the page is full of later ones; what was cleared stays
\* away, the file ends with the lines of the history, and a merged notice is never waited
\* for in vain: one is on its way.
LogIsComplete ==
    /\ N!TypeOK
    /\ N!ShownOnce
    /\ N!ShownOrQueued
    /\ N!ClearedIsGone
    /\ N!FileHoldsHistory
    /\ N!NoticeIsOut

\* The records are true: the file holds what the health report calls persisted, but for
\* rows of the time in which no write is due, its last incident is the present state, and
\* none is replaced by a process that could not read it; a connection is attributed to the
\* rule that accepted it, once and for all.
RecordsAreTrue ==
    /\ []H!TypeOK
    /\ []H!PersistedIsTrue
    /\ []H!LastIncidentIsState
    /\ H!IncidentsAreKept
    /\ []C!TypeOK
    /\ []C!AttributedToItsRule
    /\ C!NeverReclassified
==============================================================================

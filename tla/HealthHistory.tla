---------------------------- MODULE HealthHistory ----------------------------
(***************************************************************************)
(* The record of the runtime's health (health_history.cpp): every sample   *)
(* the application takes is compared with the last one kept; a change goes *)
(* to the recent rows. Both lists are bounded and written to one file, at  *)
(* a change or five seconds after the last write; the file may be          *)
(* unreadable, unwritable or older than the process.                       *)
(*                                                                         *)
(* A sample is when it was taken, by a wall clock that may be set back,    *)
(* and the fields that are compared. Samples come more often than Gap.     *)
(***************************************************************************)
EXTENDS Integers, Sequences, SequencesExt

CONSTANTS
    States,        \* what the compared fields may say
    MaxRecent,     \* recent rows kept (128 in the code)
    MaxIncidents,  \* incidents kept (64 in the code)
    Gap,           \* between rows, and between writes, without a change (five seconds)
    MaxClock,      \* bound on the clock
    MaxStores,     \* bound on the samples taken
    MaxRestarts    \* bound on restarts

VARIABLES
    clock, session, stores,
    recent, incidents,                     \* the rows in memory
    loaded, dirty, persisted, lastWrite,
    disk,                                  \* the file: [recent, incidents]
    last                                   \* the compared fields of this process's last sample

vars == <<clock, session, stores, recent, incidents, loaded, dirty, persisted, lastWrite, disk, last>>

Unknown == <<0, 0>>
Newest(s, n) == IF Len(s) > n THEN SubSeq(s, Len(s) - n + 1, Len(s)) ELSE s

Init ==
    /\ clock = Gap /\ session = 1 /\ stores = 0
    /\ recent = <<>> /\ incidents = <<>> /\ loaded = FALSE /\ dirty = FALSE /\ persisted = TRUE
    /\ lastWrite = 0 /\ disk = [recent |-> <<>>, incidents |-> <<>>] /\ last = Unknown

\* History::Load: the rows of the file come before those collected while it
\* could not be read.
Load(readable) ==
    IF loaded \/ ~readable
    THEN [ok |-> loaded, recent |-> recent, incidents |-> incidents]
    ELSE [ok |-> TRUE, recent |-> Newest(disk.recent \o recent, MaxRecent),
          incidents |-> Newest(disk.incidents \o incidents, MaxIncidents)]

\* changed: against the last recent row; the session counts as a field.
Changed(rows, key) == rows = <<>> \/ Last(rows).key # key

\* The rows after a sample: a change keeps what was before it.
Collected(rows, sample) ==
    Newest(rows.incidents
             \o (IF rows.recent = <<>> THEN <<>> ELSE <<Last(rows.recent)>>) \o <<sample>>,
           MaxIncidents)

\* Five seconds passed, or the clock was set back.
Due(t) == clock < t \/ clock - t >= Gap

\* History::Store, whole: load, collect, and write if there is something and it is a
\* change or a write is due. Until the file was read nothing is written.
Store(state, readable, writable) ==
    LET key == <<session, state>>
        sample == [at |-> clock, key |-> key]
        rows == Load(readable)
        event == Changed(rows.recent, key)
        push == event \/ Due(Last(rows.recent).at)
        dirtied == dirty \/ push
        write == rows.ok /\ dirtied /\ (event \/ Due(lastWrite))
        newRecent == IF push THEN Newest(Append(rows.recent, sample), MaxRecent) ELSE rows.recent
        newIncidents == IF event THEN Collected(rows, sample) ELSE rows.incidents
    IN  /\ stores < MaxStores /\ stores' = stores + 1
        /\ recent' = newRecent /\ incidents' = newIncidents /\ loaded' = rows.ok
        /\ lastWrite' = IF write THEN clock ELSE lastWrite
        /\ dirty' = (dirtied /\ ~(write /\ writable))
        /\ persisted' = IF ~rows.ok THEN FALSE ELSE IF write THEN writable ELSE persisted
        /\ disk' = IF write /\ writable THEN [recent |-> newRecent, incidents |-> newIncidents] ELSE disk
        /\ last' = key
        /\ UNCHANGED <<clock, session>>

\* History::Report also tries to read the file.
Report(readable) ==
    LET rows == Load(readable)
    IN  /\ recent' = rows.recent /\ incidents' = rows.incidents /\ loaded' = rows.ok
        /\ persisted' = (persisted /\ rows.ok)
        /\ UNCHANGED <<clock, session, stores, dirty, lastWrite, disk, last>>

\* Time passes, or the user sets the clock back.
Clock == \E t \in Gap..MaxClock : t \in {clock - 1, clock + 1} /\ clock' = t
         /\ UNCHANGED <<session, stores, recent, incidents, loaded, dirty, persisted, lastWrite, disk, last>>

\* The process ends, at any moment, and another starts. The file is replaced by
\* renaming, so it is the one before or the one after.
Restart ==
    /\ session <= MaxRestarts /\ session' = session + 1
    /\ recent' = <<>> /\ incidents' = <<>> /\ loaded' = FALSE /\ dirty' = FALSE
    /\ persisted' = TRUE /\ lastWrite' = 0 /\ last' = Unknown
    /\ UNCHANGED <<clock, stores, disk>>

Next ==
    \/ \E s \in States : \E r, w \in BOOLEAN : Store(s, r, w)
    \/ \E r \in BOOLEAN : Report(r)
    \/ Clock \/ Restart

Spec == Init /\ [][Next]_vars

----------------------------------------------------------------------------
TypeOK ==
    /\ clock \in Gap..MaxClock /\ loaded \in BOOLEAN /\ dirty \in BOOLEAN /\ persisted \in BOOLEAN
    /\ lastWrite \in 0..MaxClock
    /\ Len(recent) <= MaxRecent /\ Len(incidents) <= MaxIncidents
    /\ Len(disk.recent) <= MaxRecent /\ Len(disk.incidents) <= MaxIncidents

\* "persisted=yes" in the report is true, after any failures, clock changes and late reads
\* (Report, Store): the file holds every incident the report prints and every recent row but
\* those of the time in which no write is due yet, and with nothing pending exactly these.
PersistedIsTrue ==
    loaded /\ persisted =>
        /\ disk.incidents = incidents
        /\ ~dirty => disk.recent = recent
        /\ \A n \in 1..Len(recent) :
               \/ \E m \in 1..Len(disk.recent) : disk.recent[m] = recent[n]
               \/ lastWrite <= recent[n].at /\ recent[n].at < lastWrite + Gap

\* The last incident tells the state the runtime is in: no change was taken for
\* a repetition, not even one that came while the file could not be read (Store).
LastIncidentIsState == last # Unknown => Last(incidents).key = last

\* An incident on the file is only ever pushed out by later ones: a process that
\* could not read the file does not replace it by its own rows (Load, Flush).
IncidentsAreKept ==
    [][disk'.incidents # disk.incidents =>
        \/ IsPrefix(disk.incidents, disk'.incidents)
        \/ Len(disk'.incidents) = MaxIncidents
           /\ \E n \in 1..Len(disk.incidents) :
                  IsPrefix(SubSeq(disk.incidents, n + 1, Len(disk.incidents)), disk'.incidents)]_vars
==============================================================================

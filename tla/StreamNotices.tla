---------------------------- MODULE StreamNotices ----------------------------
(***************************************************************************)
(* The log store and how a page learns of a new line (stream.cpp,          *)
(* logs_page.cpp, SubscribeStreamUpdates): threads append lines under the  *)
(* store's mutex and then announce them outside it. Announcements of one   *)
(* channel are merged by a flag the page clears when it has handled one.   *)
(*                                                                         *)
(* A line is its number: they are appended in that order. Its time is by a *)
(* wall clock that may be set back, and the page shows its lines by time.  *)
(* The file holds what a restart reads back. The output of the kernel's    *)
(* process, which the page mixes in from a queue of its own, is left out.  *)
(***************************************************************************)
EXTENDS Integers, Sequences, SequencesExt, FiniteSets

CONSTANTS
    Writers,    \* threads that log: the socket of the core's log, any other thread
    MaxLines,   \* bound on lines logged
    MaxLog,     \* lines the store keeps, in memory and in the queue (2000)
    MaxShown,   \* lines the page shows (800)
    Times,      \* what the clock may say
    Compact,    \* lines appended past the cap before the file is rewritten
    MaxMounts,  \* bound on how often the page is mounted
    MaxStarts   \* bound on restarts of the application

VARIABLES
    line,       \* lines logged so far
    stamp,      \* the time of each
    history, pending, loaded, appends,   \* the store
    file,       \* lines in the log file
    flag,       \* a notice of this channel is out and unconfirmed
    observers,  \* the mounted pages observing, by mount number
    writer,     \* what each writer is in: [pc, observers it is to call]
    posts,      \* notices queued on the UI thread, by mount number
    page,       \* the page: [on, id, pc]
    batch,      \* lines the page has taken and not yet put in the list
    entries,    \* the lines the page shows
    mounts, starts,
    cleared     \* the last line the user cleared: what is promised about it

vars == <<line, stamp, history, pending, loaded, appends, file, flag, observers, writer, posts, page,
          batch, entries, mounts, starts, cleared>>
lines == <<line, stamp>>
list == <<batch, entries>>
store == <<history, pending, loaded, appends, file>>

Idle == [pc |-> "idle", to |-> {}]
NoPage == [on |-> FALSE, id |-> 0, pc |-> "off"]

\* The last n of a sequence: trimLogs.
Newest(s, n) == IF Len(s) > n THEN SubSeq(s, Len(s) - n + 1, Len(s)) ELSE s

\* loadLogsLocked: once, from the file.
Loaded == IF loaded THEN history ELSE Newest(file, MaxLog)

Init ==
    /\ line = 0 /\ stamp = <<>> /\ history = <<>> /\ pending = <<>> /\ loaded = FALSE /\ appends = 0
    /\ file = <<>> /\ flag = FALSE /\ observers = {}
    /\ writer = [w \in Writers |-> Idle]
    /\ posts = {} /\ page = NoPage /\ batch = <<>> /\ entries = <<>>
    /\ mounts = 0 /\ starts = 0 /\ cleared = 0

----------------------------------------------------------------------------
(* A writer *)

\* appendLog: under the store's mutex. Past the cap the file is only appended
\* to, and rewritten once in Compact lines.
Append1(w, time) ==
    LET old == Loaded
        full == Len(old) >= MaxLog
        rewrite == full /\ appends + 1 >= Compact
        next == Newest(Append(old, line + 1), MaxLog)
    IN  /\ writer[w].pc = "idle" /\ line < MaxLines
        /\ line' = line + 1 /\ stamp' = Append(stamp, time) /\ loaded' = TRUE /\ history' = next
        /\ pending' = Newest(Append(pending, line + 1), MaxLog)
        /\ appends' = IF rewrite THEN 0 ELSE IF full THEN appends + 1 ELSE appends
        /\ file' = IF rewrite THEN next ELSE Append(file, line + 1)
        /\ writer' = [writer EXCEPT ![w] = [pc |-> "notify", to |-> {}]]
        /\ UNCHANGED <<flag, observers, posts, page, list, mounts, starts, cleared>>

\* notifyStreamUpdate: an unconfirmed notice stands for this line too ...
Reserve(w) ==
    /\ writer[w].pc = "notify"
    /\ flag' = TRUE
    /\ writer' = [writer EXCEPT ![w] = IF flag THEN Idle ELSE [pc |-> "copy", to |-> {}]]
    /\ UNCHANGED <<lines, store, observers, posts, page, list, mounts, starts, cleared>>

\* ... otherwise the observers are copied under the registry's mutex ...
Copy(w) ==
    /\ writer[w].pc = "copy"
    /\ writer' = [writer EXCEPT ![w] = [pc |-> "deliver", to |-> observers]]
    /\ UNCHANGED <<lines, store, flag, observers, posts, page, list, mounts, starts, cleared>>

\* ... and called outside it. Each posts to its page's scope, where a closed
\* scope ignores it; it may fail instead, which releases the notice.
Deliver(w, fails) ==
    /\ writer[w].pc = "deliver"
    /\ fails => writer[w].to # {}
    /\ flag' = IF writer[w].to = {} \/ fails THEN FALSE ELSE flag
    /\ posts' = IF fails THEN posts
                ELSE posts \cup {id \in writer[w].to : page.on /\ page.id = id}
    /\ writer' = [writer EXCEPT ![w] = Idle]
    /\ UNCHANGED <<lines, store, observers, page, list, mounts, starts, cleared>>

----------------------------------------------------------------------------
(* The page, on the UI thread: one step at a time, others never between *)

\* The list with a line at the place after the k-th.
Inserted(s, k, n) == [i \in 1..(Len(s) + 1) |-> IF i <= k THEN s[i] ELSE IF i = k + 1 THEN n ELSE s[i - 1]]

\* AppendLogEntry: a line goes behind those of its time and earlier, and the earliest
\* is dropped from a list that is too long.
Insert ==
    /\ batch # <<>> /\ batch' = Tail(batch)
    /\ \E k \in 0..Len(entries) :
           /\ \A i \in 1..k : stamp[entries[i]] <= stamp[Head(batch)]
           /\ \A i \in (k + 1)..Len(entries) : stamp[Head(batch)] < stamp[entries[i]]
           /\ LET next == Inserted(entries, k, Head(batch))
              IN  entries' = IF Len(next) > MaxShown THEN Tail(next) ELSE next
    /\ UNCHANGED <<lines, store, flag, observers, writer, posts, page, mounts, starts, cleared>>

\* Mounting takes the history, which empties the queue, and shows it.
Mount ==
    /\ ~page.on /\ mounts < MaxMounts
    /\ page' = [on |-> TRUE, id |-> mounts + 1, pc |-> "mounting"] /\ mounts' = mounts + 1
    /\ history' = Loaded /\ loaded' = TRUE /\ pending' = <<>>
    /\ batch' = Loaded
    /\ UNCHANGED <<lines, entries, appends, file, flag, observers, writer, posts, starts, cleared>>

\* addStreamUpdateObserver: registered under the registry's mutex ...
Subscribe ==
    /\ page.pc = "mounting" /\ batch = <<>>
    /\ observers' = observers \cup {page.id}
    /\ page' = [page EXCEPT !.pc = "subscribed"]
    /\ UNCHANGED <<lines, store, flag, writer, posts, list, mounts, starts, cleared>>

\* ... then a notice left by a page that is gone is released.
Unlatch ==
    /\ page.pc = "subscribed"
    /\ flag' = FALSE
    /\ page' = [page EXCEPT !.pc = "idle"]
    /\ UNCHANGED <<lines, store, observers, writer, posts, list, mounts, starts, cleared>>

HandleDrainsFirst(throws) ==
    /\ page.pc = "idle" /\ page.id \in posts
    /\ posts' = posts \ {page.id}
    /\ pending' = <<>>
    /\ IF throws THEN UNCHANGED <<history, loaded, batch>>
       ELSE history' = Loaded /\ loaded' = TRUE /\ batch' = pending
    /\ page' = [page EXCEPT !.pc = "confirm"]
    /\ UNCHANGED <<lines, entries, appends, file, flag, observers, writer, mounts, starts, cleared>>

\* consumeStreamUpdate: the handler drains the queue, or throws before it does ...
Handle(throws) ==
    /\ page.pc = "idle" /\ page.id \in posts
    /\ posts' = posts \ {page.id}
    /\ IF throws THEN UNCHANGED <<history, loaded, pending, batch>>
       ELSE history' = Loaded /\ loaded' = TRUE /\ pending' = <<>> /\ batch' = pending
    /\ page' = [page EXCEPT !.pc = "confirm"]
    /\ UNCHANGED <<lines, entries, appends, file, flag, observers, writer, mounts, starts, cleared>>

\* ... and confirms either way, with the lines in the list.
Confirm ==
    /\ page.pc = "confirm" /\ batch = <<>>
    /\ flag' = FALSE /\ page' = [page EXCEPT !.pc = "idle"]
    /\ UNCHANGED <<lines, store, observers, writer, posts, list, mounts, starts, cleared>>

\* The user clears the page, then the store: history, queue and file.
Clear ==
    /\ page.pc = "idle"
    /\ entries' = <<>> /\ page' = [page EXCEPT !.pc = "clear"]
    /\ UNCHANGED <<lines, store, batch, flag, observers, writer, posts, mounts, starts, cleared>>

ClearStore ==
    /\ page.pc = "clear"
    /\ history' = <<>> /\ pending' = <<>> /\ loaded' = TRUE /\ file' = <<>>
    /\ cleared' = line
    /\ page' = [page EXCEPT !.pc = "idle"]
    /\ UNCHANGED <<lines, appends, flag, observers, writer, posts, list, mounts, starts>>

\* Unmounting closes the scope, which drops its queued notices, and unsubscribes.
Unmount ==
    /\ page.pc = "idle"
    /\ posts' = posts \ {page.id} /\ observers' = observers \ {page.id}
    /\ page' = NoPage /\ entries' = <<>>
    /\ UNCHANGED <<lines, store, batch, flag, writer, mounts, starts, cleared>>

\* The application dies at any moment and is started again: the file remains.
Restart ==
    /\ starts < MaxStarts /\ starts' = starts + 1
    /\ history' = <<>> /\ pending' = <<>> /\ loaded' = FALSE /\ appends' = 0
    /\ flag' = FALSE /\ observers' = {} /\ writer' = [w \in Writers |-> Idle]
    /\ posts' = {} /\ page' = NoPage /\ batch' = <<>> /\ entries' = <<>>
    /\ UNCHANGED <<lines, file, mounts, cleared>>

Next ==
    \/ \E w \in Writers : \/ \E t \in Times : Append1(w, t)
                          \/ Reserve(w) \/ Copy(w) \/ \E f \in BOOLEAN : Deliver(w, f)
    \/ Insert \/ Mount \/ Subscribe \/ Unlatch \/ Confirm \/ Clear \/ ClearStore \/ Unmount \/ Restart
    \/ \E t \in BOOLEAN : Handle(t)

Spec == Init /\ [][Next]_vars

\* Every thread that began finishes, and the UI thread runs what is queued.
FairSpec ==
    /\ Spec
    /\ \A w \in Writers : WF_vars(Reserve(w)) /\ WF_vars(Copy(w)) /\ WF_vars(Deliver(w, FALSE))
    /\ WF_vars(Insert) /\ WF_vars(Subscribe) /\ WF_vars(Unlatch) /\ WF_vars(Handle(FALSE))
    /\ WF_vars(Confirm) /\ WF_vars(ClearStore)

----------------------------------------------------------------------------
TypeOK ==
    /\ line \in 0..MaxLines /\ Len(stamp) = line /\ loaded \in BOOLEAN /\ appends \in 0..Compact
    /\ Len(history) <= MaxLog /\ Len(pending) <= MaxLog
    /\ flag \in BOOLEAN /\ observers \subseteq 1..MaxMounts /\ posts \subseteq 1..MaxMounts
    /\ page \in [on : BOOLEAN, id : 0..MaxMounts,
                 pc : {"off", "mounting", "subscribed", "idle", "confirm", "clear"}]
    /\ writer \in [Writers -> [pc : {"idle", "notify", "copy", "deliver"},
                               to : SUBSET (1..MaxMounts)]]

\* The order of the page: by time, and of one time as they were logged.
Earlier(m, n) == stamp[m] < stamp[n] \/ (stamp[m] = stamp[n] /\ m < n)

\* The page shows no line twice and none out of order, though the history it began with
\* holds the lines that were queued, and the clock is set back (readLogHistory,
\* drainLogQueue, AppendLogEntry).
ShownOnce ==
    /\ Len(entries) <= MaxShown
    /\ \A i, j \in 1..Len(entries) : i < j => Earlier(entries[i], entries[j])

\* Of the lines the store still keeps, none is lost between the history read at the
\* mount, the queue and the drains: the page shows it, or it is queued, or the page is
\* full of later ones, for it shows fewer than the store keeps (logHistory, drainLogs).
ShownOrQueued ==
    page.pc \in {"idle", "confirm", "subscribed", "mounting"} =>
        \A n \in ToSet(history) \ (ToSet(entries) \cup ToSet(batch) \cup ToSet(pending)) :
            Len(entries) = MaxShown /\ \A m \in ToSet(entries) : Earlier(n, m)

\* What was cleared does not come back, not even after a restart.
ClearedIsGone ==
    page.pc # "clear" =>
        \A n \in UNION {ToSet(s) : s \in {entries, batch, Loaded, file}} : n > cleared

\* The file ends with every line the store keeps, through appends, compactions
\* and restarts: a crash loses no line (appendLog, loadLogsLocked).
FileHoldsHistory == loaded => IsSuffix(history, file)

\* The file never holds more than the cap and a compaction's worth of lines
\* ("at most that many lines more than the cap", appendLog).
FileIsBounded == Len(file) <= MaxLog + Compact

\* While a page observes, an unconfirmed notice is on its way to it: the flag is
\* never left set with nobody to clear it, which would silence the channel for
\* as long as the page is open (notifyStreamUpdate, addStreamUpdateObserver).
NoticeIsOut ==
    page.pc = "idle" /\ flag =>
        posts # {} \/ \E w \in Writers : writer[w].pc \in {"copy", "deliver"}

\* A line that was logged while the page is open is shown or cleared in the end,
\* if nothing else is logged, without a timer ("pages drain on demand ... no
\* longer poll the queue", stream_updates.h).
EveryLineIsShown ==
    \A n \in 1..MaxLines :
        (n \in ToSet(pending)) ~> (n \in ToSet(entries) \cup ToSet(batch) \/ ~page.on \/ cleared >= n \/ n \notin ToSet(history))
==============================================================================

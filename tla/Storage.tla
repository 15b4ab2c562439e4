------------------------------- MODULE Storage -------------------------------
(***************************************************************************)
(* Persistence (store/persistence.cpp): profiles and settings are changed  *)
(* in memory and saved by tasks that flush them, row by row, while the UI  *)
(* goes on changing them.  The pump of app.cpp flushes once a second; on   *)
(* the way out DesktopTrayRuntime::RequestExit flushes, and InstallUpdate  *)
(* freezes writes, flushes and hands over to the installer.  A profile is  *)
(* deleted together with its rules, and its file only after the commit.    *)
(*                                                                         *)
(* A value is the revision of the mutation that wrote it, so that two      *)
(* values are equal only when one write made both.                         *)
(***************************************************************************)
EXTENDS Integers, Orderings, SequencesExt, Functions

CONSTANTS
    Ids,          \* profile ids, 1..n
    MaxRevision,  \* bound: mutations
    MaxErrors,    \* bound: transactions that fail
    MaxStops      \* bound: crashes, exits and upgrades

VARIABLES
    mode,      \* "down", "open", "frozen", "handed"
    list,      \* the cached profiles, in the order they are shown
    rows,      \* id -> cached row, for the ids in list
    set,       \* key -> cached setting
    dirty,     \* key -> revision still to be saved
    dirtyRow,  \* id -> revision still to be saved
    gone,      \* id -> deletion still to be saved
    disk,      \* [rows, set]: what the database holds
    files,     \* ids whose profile file exists
    task,      \* what the pump and the task that ends the process are doing
    flag,      \* [settings, profiles]: a flush holds it
    rev, errors, stops,  \* bounded counters
    reused     \* ids given to a new profile before their deletion was saved

vars == <<mode, list, rows, set, dirty, dirtyRow, gone, disk, files, task, flag, rev, errors,
          stops, reused>>

Nothing == <<>>                       \* the function with no entry
Order == 0                            \* "profiles.order"
Plain == -1                           \* a setting that belongs to nothing
Keys == {Order, Plain} \cup Ids       \* an id stands for "profile.rules.<id>"
Tasks == {"pump", "end"}
Idle == [pc |-> "rest", step |-> "idle", ok |-> TRUE, todo |-> {}, cut |-> {}, cur |-> <<>>]

Put(f, k, v) == [x \in DOMAIN f \cup {k} |-> IF x = k THEN v ELSE f[x]]
Without(f, k) == Restrict(f, DOMAIN f \ {k})
Has(f, k) == k \in DOMAIN f

(*************************** the order of profiles ************************)

\* A later mention of an id wins; ids the order does not mention come last.
Place(order, i) ==
    LET at == {n \in DOMAIN order : order[n] = i}
    IN IF at = {} THEN Len(order) + i ELSE CHOOSE n \in at : \A m \in at : m <= n

Sorted(S, order) ==
    LET at == Ascending({Place(order, i) : i \in S})
    IN [n \in DOMAIN at |-> CHOOSE i \in S : Place(order, i) = at[n]]
OrderIn(s) == IF Has(s, Order) THEN s[Order] ELSE <<>>

(****************************** mutations *********************************)

Writable == mode = "open" /\ rev < MaxRevision

SetSetting(k) ==
    /\ mode \in {"open", "down"} /\ rev < MaxRevision
    /\ k \in Ids => mode = "open" /\ Has(rows, k)
    /\ rev' = rev + 1
    /\ set' = Put(set, k, <<rev'>>) /\ dirty' = Put(dirty, k, rev')
    /\ UNCHANGED <<mode, list, rows, dirtyRow, gone, disk, files, task, flag, errors, stops, reused>>

\* An import allocates the id by saving the row, before there is a file.
NewId == IF list = <<>> THEN 1 ELSE 1 + CHOOSE i \in Range(list) : \A j \in Range(list) : j <= i

SaveNew ==
    LET i == NewId IN
    /\ Writable /\ i \in Ids
    /\ rev' = rev + 1
    /\ rows' = Put(rows, i, [file |-> 0, selected |-> FALSE, version |-> rev'])
    /\ IF OrderIn(set) = <<>>
       THEN list' = Sorted(Range(list) \cup {i}, <<>>) /\ UNCHANGED <<set, dirty>>
       ELSE /\ list' = Append(list, i)
            /\ set' = Put(set, Order, Append(OrderIn(set), i))
            /\ dirty' = Put(dirty, Order, rev')
    /\ dirtyRow' = Put(dirtyRow, i, rev') /\ gone' = Without(gone, i)
    /\ reused' = IF Has(gone, i) THEN reused \cup {i} ELSE reused
    /\ UNCHANGED <<mode, disk, files, task, flag, errors, stops>>

\* The download wrote <id>.yaml, then the row is saved again.
SaveRow(i) ==
    /\ Writable /\ Has(rows, i)
    /\ rev' = rev + 1 /\ files' = files \cup {i}
    /\ rows' = [rows EXCEPT ![i].file = i, ![i].version = rev']
    /\ dirtyRow' = Put(dirtyRow, i, rev')
    /\ UNCHANGED <<mode, list, set, dirty, gone, disk, task, flag, errors, stops, reused>>

\* A failed import is rolled back without its file, a profile is removed with it.
DeleteProfile(i, removeFile) ==
    /\ Writable /\ Has(rows, i)
    /\ rev' = rev + 1
    /\ list' = Kept(list, Ids \ {i}) /\ rows' = Without(rows, i)
    /\ LET order == OrderIn(set)
           rest == Without(set, i)
       IN IF order = <<>>
          THEN set' = rest /\ dirty' = Without(dirty, i)
          ELSE /\ set' = Put(rest, Order, Kept(order, Ids \ {i}))
               /\ dirty' = Put(Without(dirty, i), Order, rev')
    /\ dirtyRow' = Without(dirtyRow, i)
    /\ gone' = Put(gone, i, [revision |-> rev', file |-> IF removeFile THEN rows[i].file ELSE 0])
    /\ UNCHANGED <<mode, disk, files, task, flag, errors, stops, reused>>

SetProfileOrder(order) ==
    /\ Writable /\ order # <<>> /\ order # list
    /\ rev' = rev + 1
    /\ list' = Sorted(Range(list), order)
    /\ set' = Put(set, Order, list') /\ dirty' = Put(dirty, Order, rev')
    /\ UNCHANGED <<mode, rows, dirtyRow, gone, disk, files, task, flag, errors, stops, reused>>

SetSelected(i) ==
    /\ Writable /\ Has(rows, i) /\ ~rows[i].selected
    /\ rev' = rev + 1
    /\ rows' = [j \in DOMAIN rows |-> [rows[j] EXCEPT !.selected = j = i]]
    /\ dirtyRow' = [j \in DOMAIN rows |-> rev']
    /\ UNCHANGED <<mode, list, set, dirty, gone, disk, files, task, flag, errors, stops, reused>>

(******************************* flushing *********************************)

Cached == UNCHANGED <<mode, list, rows, set, rev, stops, reused>>
Step(t, s) == task' = [task EXCEPT ![t] = s]
At(t, pc, step) == task[t].pc \in pc /\ task[t].step = step

\* A flush has returned; what the task does next is Proceed below.
Return(t, ok) ==
    Step(t, [Idle EXCEPT !.pc = task[t].pc, !.step = "done", !.ok = task[t].ok /\ ok])

FlushSettings(t) ==
    /\ At(t, {"settings", "settings2"}, "idle") /\ ~flag.settings
    /\ flag' = [flag EXCEPT !.settings = TRUE]
    /\ Step(t, [task[t] EXCEPT !.step = "set", !.todo =
           {[key |-> k, value |-> set[k], revision |-> dirty[k],
             owner |-> IF k \in Ids THEN <<rows[k]>> ELSE <<>>]
            : k \in {d \in DOMAIN dirty : Has(set, d) /\ (d \in Ids => Has(rows, d))}}])
    /\ Cached /\ UNCHANGED <<dirty, dirtyRow, gone, disk, files, errors>>

\* One transaction: the owner's row if the database has none, and the setting.
SaveSetting(t) ==
    /\ task[t].step = "set"
    /\ \E e \in task[t].todo :
          /\ disk' = [rows |-> IF e.owner = <<>> \/ Has(disk.rows, e.key) THEN disk.rows
                               ELSE Put(disk.rows, e.key, e.owner[1]),
                      set |-> Put(disk.set, e.key, e.value)]
          /\ Step(t, [task[t] EXCEPT !.step = "ackSet", !.cur = <<e>>])
    /\ Cached /\ UNCHANGED <<dirty, dirtyRow, gone, files, flag, errors>>

\* Only the version that was saved is confirmed.
AckSetting(t) ==
    LET e == task[t].cur[1] IN
    /\ task[t].step = "ackSet"
    /\ dirty' = IF Has(dirty, e.key) /\ dirty[e.key] = e.revision THEN Without(dirty, e.key) ELSE dirty
    /\ Step(t, [task[t] EXCEPT !.step = "set", !.todo = @ \ {e}, !.cur = <<>>])
    /\ Cached /\ UNCHANGED <<dirtyRow, gone, disk, files, flag, errors>>

\* Profiles wait for an older flush of settings, and hold both flags.
FlushProfiles(t) ==
    /\ At(t, {"profiles", "profiles2"}, "idle") /\ ~flag.settings /\ ~flag.profiles
    /\ flag' = [settings |-> TRUE, profiles |-> TRUE]
    /\ Step(t, [task[t] EXCEPT !.step = "row",
           !.todo = {[id |-> i, row |-> rows[i], revision |-> dirtyRow[i]] : i \in DOMAIN dirtyRow},
           !.cut = {[id |-> i, del |-> gone[i]] : i \in DOMAIN gone}])
    /\ Cached /\ UNCHANGED <<dirty, dirtyRow, gone, disk, files, errors>>

SaveProfileRow(t) ==
    /\ task[t].step = "row"
    /\ \E e \in task[t].todo :
          /\ disk' = [disk EXCEPT !.rows = Put(@, e.id, e.row)]
          /\ Step(t, [task[t] EXCEPT !.step = "ackRow", !.cur = <<e>>])
    /\ Cached /\ UNCHANGED <<dirty, dirtyRow, gone, files, flag, errors>>

AckRow(t) ==
    LET e == task[t].cur[1] IN
    /\ task[t].step = "ackRow"
    /\ dirtyRow' = IF Has(dirtyRow, e.id) /\ dirtyRow[e.id] = e.revision
                   THEN Without(dirtyRow, e.id) ELSE dirtyRow
    /\ Step(t, [task[t] EXCEPT !.step = "row", !.todo = @ \ {e}, !.cur = <<>>])
    /\ Cached /\ UNCHANGED <<dirty, gone, disk, files, flag, errors>>

StillGone(d) == Has(gone, d.id) /\ gone[d.id].revision = d.del.revision

\* A deletion that was revoked since the snapshot is left alone.
BeginRemove(t) ==
    /\ task[t].step = "row" /\ task[t].todo = {}
    /\ \E d \in task[t].cut :
          Step(t, [task[t] EXCEPT !.cut = @ \ {d},
                                  !.step = IF StillGone(d) THEN "delete" ELSE "row",
                                  !.cur = IF StillGone(d) THEN <<d>> ELSE <<>>])
    /\ Cached /\ UNCHANGED <<dirty, dirtyRow, gone, disk, files, flag, errors>>

\* One transaction: the row, its rules, and a look at the rows that remain.
DeleteRow(t) ==
    LET d == task[t].cur[1] IN
    /\ task[t].step = "delete"
    /\ disk' = [rows |-> Without(disk.rows, d.id), set |-> Without(disk.set, d.id)]
    /\ Step(t, [task[t] EXCEPT !.step = "clean",
                               !.cur = <<d, {disk'.rows[i].file : i \in DOMAIN disk'.rows}>>])
    /\ Cached /\ UNCHANGED <<dirty, dirtyRow, gone, files, flag, errors>>

\* Mutant of CleanFile: nobody is asked who else refers to the file.
CleanShared(t) ==
    LET d == task[t].cur[1] IN
    /\ task[t].step = "clean"
    /\ IF StillGone(d) THEN files' = files \ {d.del.file} /\ gone' = Without(gone, d.id)
                       ELSE UNCHANGED <<files, gone>>
    /\ Step(t, [task[t] EXCEPT !.step = "row", !.cur = <<>>])
    /\ Cached /\ UNCHANGED <<dirty, dirtyRow, disk, flag, errors>>

\* On a worker, under the cache's mutex.
CleanFile(t) ==
    LET d == task[t].cur[1]
        referenced == task[t].cur[2] \cup {rows[i].file : i \in DOMAIN rows}
    IN
    /\ task[t].step = "clean"
    /\ IF StillGone(d)
       THEN /\ files' = IF d.del.file \in referenced THEN files ELSE files \ {d.del.file}
            /\ gone' = Without(gone, d.id)
       ELSE UNCHANGED <<files, gone>>
    /\ Step(t, [task[t] EXCEPT !.step = "row", !.cur = <<>>])
    /\ Cached /\ UNCHANGED <<dirty, dirtyRow, disk, flag, errors>>

\* A transaction fails: the flush returns false and keeps what is pending.
Fails(t) ==
    /\ errors < MaxErrors /\ errors' = errors + 1
    /\ \/ task[t].step \in {"set", "row"} /\ task[t].todo # {}
       \/ task[t].step = "delete"
    /\ flag' = [settings |-> FALSE, profiles |-> flag.profiles /\ task[t].step = "set"]
    /\ Return(t, FALSE)
    /\ Cached /\ UNCHANGED <<dirty, dirtyRow, gone, disk, files>>

Finish(t) ==
    /\ task[t].todo = {} /\ errors' = errors
    /\ \/ task[t].step = "set" /\ flag' = [flag EXCEPT !.settings = FALSE]
       \/ task[t].step = "row" /\ task[t].cut = {}
          /\ flag' = [settings |-> FALSE, profiles |-> FALSE]
    /\ Return(t, TRUE)
    /\ Cached /\ UNCHANGED <<dirty, dirtyRow, gone, disk, files>>

(************************** the pump and the end **************************)

Pending == DOMAIN dirty # {} \/ DOMAIN dirtyRow # {} \/ DOMAIN gone # {}
Quietly == UNCHANGED <<list, rows, set, dirty, dirtyRow, gone, disk, files, flag, rev, errors, stops, reused>>
Goto(t, pc) == Step(t, [Idle EXCEPT !.pc = pc])

\* Once a second, whatever the flushes return.
Pump ==
    /\ \/ mode \in {"open", "frozen"} /\ At("pump", {"rest"}, "idle") /\ Goto("pump", "settings")
       \/ At("pump", {"settings"}, "done") /\ Goto("pump", "profiles")
       \/ At("pump", {"profiles"}, "done") /\ Goto("pump", "rest")
    /\ Quietly /\ mode' = mode

\* RequestExit: both flushes, then the process ends, saved or not.
Exit ==
    /\ \/ mode = "open" /\ At("end", {"rest"}, "idle") /\ stops < MaxStops
          /\ Step("end", [Idle EXCEPT !.pc = "settings"])
       \/ At("end", {"settings"}, "done") /\ Step("end", [task["end"] EXCEPT !.pc = "profiles", !.step = "idle"])
    /\ Quietly /\ mode' = mode

\* InstallUpdate: with everything saved the core is stopped, which may write again;
\* then writes are frozen, flushed and looked at once more, and handed over.
Freeze ==
    /\ \/ At("end", {"profiles"}, "done") /\ task["end"].ok /\ ~Pending
          /\ mode' = mode /\ Goto("end", "stop")
       \/ At("end", {"stop"}, "idle") /\ mode = "open"
          /\ mode' = "frozen" /\ Goto("end", "settings2")
    /\ Quietly

\* Mutant of Install: what is still pending is not looked at.
InstallAtOnce ==
    /\ \/ At("end", {"settings2"}, "done") /\ mode' = mode
          /\ Step("end", [task["end"] EXCEPT !.pc = "profiles2", !.step = "idle"])
       \/ At("end", {"profiles2"}, "done") /\ mode' = "handed" /\ Goto("end", "quit")
    /\ Quietly

Install ==
    /\ \/ At("end", {"settings2"}, "done") /\ task["end"].ok /\ mode' = mode
          /\ Step("end", [task["end"] EXCEPT !.pc = "profiles2", !.step = "idle"])
       \/ At("end", {"profiles2"}, "done") /\ task["end"].ok /\ ~Pending
          /\ mode' = "handed" /\ Goto("end", "quit")
    /\ Quietly

\* Anything that throws: the session is writable again.
Resume ==
    /\ \/ At("end", {"profiles"}, "done") \/ At("end", {"stop"}, "idle")
       \/ At("end", {"settings2"}, "done") /\ ~task["end"].ok
       \/ At("end", {"profiles2"}, "done")
    /\ mode' = "open" /\ Goto("end", "rest")
    /\ Quietly

\* The process ends: after an exit, after the hand-over, or by a crash.
Stop ==
    /\ mode # "down" /\ stops < MaxStops /\ stops' = stops + 1
    /\ mode' = "down"
    /\ list' = <<>> /\ rows' = disk.rows /\ set' = disk.set
    /\ dirty' = Nothing /\ dirtyRow' = Nothing /\ gone' = Nothing
    /\ task' = [t \in Tasks |-> Idle] /\ flag' = [settings |-> FALSE, profiles |-> FALSE]
    /\ UNCHANGED <<disk, files, rev, errors, reused>>

\* Hydration.  What was set before it stays, and stays to be saved.
Open ==
    /\ mode = "down" /\ mode' = "open"
    /\ set' = [k \in DOMAIN disk.set \cup DOMAIN dirty |-> IF Has(dirty, k) THEN set[k] ELSE disk.set[k]]
    /\ rows' = disk.rows
    /\ list' = Sorted(DOMAIN disk.rows, OrderIn(set'))
    /\ dirtyRow' = Nothing /\ gone' = Nothing
    /\ UNCHANGED <<dirty, disk, files, task, flag, rev, errors, stops, reused>>

\* A database of an earlier run: one profile, or two in an order of the user's,
\* which share a file as rows of old versions may, and the second has rules.
Init ==
    /\ \E two \in BOOLEAN :
          LET first == Put(Nothing, 1, [file |-> 1, selected |-> TRUE, version |-> 0])
              second == [file |-> 1, selected |-> FALSE, version |-> 0]
          IN disk = IF two THEN [rows |-> Put(first, 2, second),
                                 set |-> Put(Put(Nothing, Order, <<2, 1>>), 2, <<0>>)]
                    ELSE [rows |-> first, set |-> Nothing]
    /\ files = {1}
    /\ mode = "down" /\ list = <<>> /\ rows = disk.rows /\ set = disk.set
    /\ dirty = Nothing /\ dirtyRow = Nothing /\ gone = Nothing
    /\ task = [t \in Tasks |-> Idle] /\ flag = [settings |-> FALSE, profiles |-> FALSE]
    /\ rev = 0 /\ errors = 0 /\ stops = 0 /\ reused = {}

Mutate ==
    \/ \E k \in Keys \ {Order} : SetSetting(k)
    \/ SaveNew
    \/ \E i \in Ids : SaveRow(i) \/ SetSelected(i) \/ \E b \in BOOLEAN : DeleteProfile(i, b)
    \/ SetProfileOrder(Reverse(list))

Flush(t) ==
    \/ FlushSettings(t) \/ SaveSetting(t) \/ AckSetting(t)
    \/ FlushProfiles(t) \/ SaveProfileRow(t) \/ AckRow(t)
    \/ BeginRemove(t) \/ DeleteRow(t) \/ CleanFile(t) \/ Finish(t)

End == Exit \/ Freeze \/ Install \/ Resume
Work == Pump \/ \E t \in Tasks : Flush(t)

Next == Mutate \/ Work \/ (\E t \in Tasks : Fails(t)) \/ End \/ Stop \/ Open

Spec ==
    /\ Init /\ [][Next]_vars
    /\ WF_vars(Pump) /\ \A t \in Tasks : WF_vars(Flush(t))

(******************************* properties *******************************)

Revisions == 0..MaxRevision
Row == [file : {0} \cup Ids, selected : BOOLEAN, version : Revisions]
Partly(f, S, T) == DOMAIN f \subseteq S /\ \A k \in DOMAIN f : f[k] \in T

\* Every variable keeps its type.
TypeOK ==
    /\ mode \in {"down", "open", "frozen", "handed"}
    /\ Partly(rows, Ids, Row) /\ Partly(disk.rows, Ids, Row)
    /\ DOMAIN set \subseteq Keys /\ DOMAIN disk.set \subseteq Keys
    /\ Partly(dirty, Keys, Revisions) /\ Partly(dirtyRow, Ids, Revisions)
    /\ DOMAIN gone \subseteq Ids \ DOMAIN rows /\ files \subseteq Ids
    /\ \A t \in Tasks : task[t].step \in {"idle", "done", "set", "ackSet", "row", "ackRow", "delete", "clean"}

\* A file is never taken from a row that refers to it, in memory or on disk:
\* neither by a deletion that shares it nor by one that a restart undoes.
FilesOutliveRows ==
    /\ \A i \in DOMAIN rows : rows[i].file \in files \cup {0}
    /\ \A i \in DOMAIN disk.rows : disk.rows[i].file \in files \cup {0}

\* Rules without a profile on disk would be inherited by the next profile
\* that gets the id: the database never holds them.
RulesHaveOwner == \A i \in Ids : Has(disk.set, i) => Has(disk.rows, i)

\* Every profile is shown once.
ListShowsRows == IsInjective(list) /\ (mode # "down" => Range(list) = DOMAIN rows)

\* What is shown is what the next start will show: with nothing pending, the
\* order on disk puts the profiles in the order of the cached list.
OrderSurvives ==
    (~Pending /\ mode # "down" /\ stops = 0) => list = Sorted(DOMAIN disk.rows, OrderIn(disk.set))

\* Whoever is told that nothing is pending may stop: everything is on disk,
\* except that a reused id may find the rules of its predecessor there.
NothingPendingIsSaved ==
    (~Pending /\ mode # "down") =>
        /\ rows = disk.rows
        /\ \A k \in Keys \ reused : Has(set, k) = Has(disk.set, k) /\ (Has(set, k) => set[k] = disk.set[k])

\* The same without the exception: rules that were deleted are not on disk.
DeletedRulesStayDeleted ==
    (~Pending /\ mode # "down") => DOMAIN disk.set = DOMAIN set

\* With failures over, whatever is pending is eventually saved, unless the
\* process ends or the writes never pause.
PendingIsSaved == (Pending /\ mode = "open") ~> (~Pending \/ mode # "open")

\* Row i is entry n + i of the n profiles' store.
RowEntry(i) == Cardinality(Ids) + i
View(r, s) == [k \in Keys \cup {RowEntry(i) : i \in Ids} |->
                 IF k \in Keys THEN IF Has(s, k) THEN <<s[k]>> ELSE <<>>
                 ELSE IF \E i \in DOMAIN r : RowEntry(i) = k THEN <<r[k - Cardinality(Ids)]>> ELSE <<>>]

Abstract == INSTANCE WriteBehind WITH
    mem <- View(rows, set), disk <- View(disk.rows, disk.set),
    lost <- reused, pending <- ((DOMAIN dirty \cup DOMAIN gone) \ reused) \cup
               {RowEntry(i) : i \in DOMAIN dirtyRow \cup DOMAIN gone}

\* The cache and its database keep the contract of a write-behind store.
KeepsContract == Abstract!Contract
=============================================================================

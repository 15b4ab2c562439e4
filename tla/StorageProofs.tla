--------------------------- MODULE StorageProofs ----------------------------
(***************************************************************************)
(* What is kept and what is replaced.  The database: what is on disk while *)
(* rows and settings are saved one by one and changed in between, and that *)
(* the cache and its database implement a write-behind store.  The system  *)
(* proxy and the application's update, through crashes and stale tasks.    *)
(* The list of profiles, which is shown in the order the next start finds. *)
(***************************************************************************)
EXTENDS MCStorage, Orderings, TLAPS, SequenceTheorems, FiniteSetTheorems

----------------------------------------------------------------------------
\* The inductive invariant, part by part.

RowType == [file : {0} \cup Ids, selected : BOOLEAN, version : S!Revisions]
IsTask(x) ==
    /\ DOMAIN x = {"pc", "step", "ok", "todo", "cut", "cur"}
    /\ x.step \in {"idle", "done", "set", "ackSet", "row", "ackRow", "delete", "clean"}

ShapeInv ==
    /\ DOMAIN rows \subseteq Ids /\ rows \in [DOMAIN rows -> RowType]
    /\ DOMAIN disk.rows \subseteq Ids /\ disk.rows \in [DOMAIN disk.rows -> RowType]
    /\ disk = [rows |-> disk.rows, set |-> disk.set]
    /\ DOMAIN set \subseteq S!Keys /\ DOMAIN disk.set \subseteq S!Keys
    /\ DOMAIN dirty \subseteq DOMAIN set /\ DOMAIN dirtyRow \subseteq DOMAIN rows
    /\ DOMAIN gone \subseteq Ids \ (DOMAIN rows \cup DOMAIN set) /\ reused \subseteq Ids
    /\ DOMAIN flag = {"settings", "profiles"}
    /\ rev \in Nat /\ rev \in S!Revisions /\ files \subseteq Ids
    /\ \A k \in DOMAIN dirty : dirty[k] \in Nat /\ dirty[k] <= rev
    /\ \A i \in DOMAIN dirtyRow : dirtyRow[i] \in Nat /\ dirtyRow[i] <= rev
    /\ task = [t \in S!Tasks |-> task[t]] /\ \A t \in S!Tasks : IsTask(task[t])

\* One flush at a time touches the disk.
OnSettings(t) == task[t].step \in {"set", "ackSet"}
OnProfiles(t) == task[t].step \in {"row", "ackRow", "delete", "clean"}
Busy(t) == OnSettings(t) \/ OnProfiles(t)

FlushInv ==
    /\ \A t \in S!Tasks : Busy(t) => flag.settings /\ \A u \in S!Tasks : Busy(u) => u = t

\* What the task that ends the process has come to, and what may be done while it is down.
ModeInv ==
    /\ mode \in {"down", "open", "frozen", "handed"}
    /\ task["end"].pc \in {"settings", "profiles", "stop"} => mode = "open"
    /\ task["end"].pc \in {"settings2", "profiles2"} => mode = "frozen"
    /\ mode = "down" => /\ \A t \in S!Tasks : task[t].step = "idle" /\ task[t].pc = "rest"
                        /\ rows = disk.rows /\ DOMAIN dirtyRow = {} /\ DOMAIN gone = {}
                        /\ DOMAIN dirty \subseteq {S!Plain}

\* Entries that need not be saved are as on disk.
Same(f, g, k) == (S!Has(f, k) <=> S!Has(g, k)) /\ (S!Has(f, k) => f[k] = g[k])
SameInv ==
    /\ \A i \in Ids : i \notin DOMAIN dirtyRow \cup DOMAIN gone => Same(rows, disk.rows, i)
    /\ \A k \in S!Keys : k \notin DOMAIN dirty \cup DOMAIN gone \cup reused => Same(set, disk.set, k)

\* A setting in a flush's snapshot is still to be saved, is what is cached if it has not been
\* written since, and brings the row of its owner along.
Setting(e) ==
    /\ e.key \in S!Keys /\ e.key \in DOMAIN dirty \cup DOMAIN gone \cup reused
    /\ e.revision \in Int /\ e.revision <= rev
    /\ S!Has(dirty, e.key) /\ dirty[e.key] = e.revision => S!Has(set, e.key) /\ set[e.key] = e.value
    /\ e.key \in Ids => e.owner # <<>>
    /\ e.owner # <<>> =>
           /\ e.key \in Ids /\ e.owner[1] \in RowType /\ e.owner[1].file \in files \cup {0}
           /\ e.key \in DOMAIN disk.rows \cup DOMAIN dirtyRow \cup DOMAIN gone

SettingsInv ==
    \A t \in S!Tasks : OnSettings(t) =>
        /\ \A e \in task[t].todo : Setting(e) /\ \A f \in task[t].todo : f.key = e.key => f = e
        /\ task[t].step = "ackSet" =>
               \E e \in task[t].todo : /\ task[t].cur = <<e>>
                                       /\ S!Has(disk.set, e.key) /\ disk.set[e.key] = e.value

\* So is a row, and a deletion that began is not yet saved, or revoked by a new profile.
Saving(e) ==
    /\ e.id \in Ids /\ e.id \in DOMAIN dirtyRow \cup DOMAIN gone
    /\ e.row \in RowType /\ e.row.file \in files \cup {0}
    /\ e.revision \in Int /\ e.revision <= rev
    /\ S!Has(dirtyRow, e.id) /\ dirtyRow[e.id] = e.revision => S!Has(rows, e.id) /\ rows[e.id] = e.row

ProfilesInv ==
    \A t \in S!Tasks : OnProfiles(t) =>
        /\ \A e \in task[t].todo : Saving(e) /\ \A f \in task[t].todo : f.id = e.id => f = e
        /\ \A d \in task[t].cut : d.id \in Ids
        /\ task[t].step = "ackRow" =>
               \E e \in task[t].todo : /\ task[t].cur = <<e>>
                                       /\ S!Has(disk.rows, e.id) /\ disk.rows[e.id] = e.row
        /\ task[t].step \in {"delete", "clean"} => task[t].todo = {} /\ task[t].cur[1].id \in Ids
        /\ task[t].step = "delete" =>
               LET i == task[t].cur[1].id IN i \in DOMAIN gone \/ (i \in DOMAIN dirtyRow /\ i \in reused)
        /\ task[t].step = "clean" =>
               /\ task[t].cur[1].id \notin DOMAIN disk.rows \cup DOMAIN disk.set
               /\ task[t].cur[2] = {disk.rows[i].file : i \in DOMAIN disk.rows}

StoreInv ==
    /\ ShapeInv /\ FlushInv /\ ModeInv /\ SameInv /\ SettingsInv /\ ProfilesInv
    /\ S!FilesOutliveRows /\ S!RulesHaveOwner

----------------------------------------------------------------------------
\* The operators the model is built from.

LEMMA PutTyped ==
    ASSUME NEW T, NEW f, f \in [DOMAIN f -> T], NEW k, NEW v \in T
    PROVE  S!Put(f, k, v) \in [DOMAIN f \cup {k} -> T]
BY DEF S!Put

LEMMA WithoutTyped ==
    ASSUME NEW T, NEW f, f \in [DOMAIN f -> T], NEW k
    PROVE  S!Without(f, k) \in [DOMAIN f \ {k} -> T]
BY DEF S!Without, S!Restrict

LEMMA TaskStep ==
    ASSUME ShapeInv, NEW t \in S!Tasks, NEW s, IsTask(s), S!Step(t, s)
    PROVE  /\ task'[t] = s /\ \A u \in S!Tasks : u # t => task'[u] = task[u]
           /\ task' = [u \in S!Tasks |-> task'[u]] /\ \A u \in S!Tasks : IsTask(task'[u])
BY DEF ShapeInv, S!Step

\* What a mutation leaves of every setting and row: written now, deleted, as it was, or of an
\* id that was used again.
Mutates ==
    /\ UNCHANGED <<disk, task, flag>> /\ files \subseteq files' /\ rev' = rev + 1
    /\ reused \subseteq reused'
    /\ \A k \in S!Keys : \/ S!Has(dirty', k) /\ dirty'[k] = rev'
                         \/ S!Has(gone', k) /\ ~S!Has(dirty', k)
                         \/ /\ Same(dirty, dirty', k) /\ Same(set, set', k)
                            /\ (S!Has(gone, k) <=> S!Has(gone', k)) \/ k \in reused'
    /\ \A i \in Ids : \/ S!Has(dirtyRow', i) /\ dirtyRow'[i] = rev' /\ (S!Has(gone, i) => S!Has(gone', i) \/ i \in reused')
                      \/ S!Has(gone', i) /\ ~S!Has(dirtyRow', i)
                      \/ /\ Same(dirtyRow, dirtyRow', i) /\ Same(rows, rows', i)
                         /\ (S!Has(gone, i) <=> S!Has(gone', i))

LEMMA MutationKeeps ==
    ASSUME StoreInv, Mutates
    PROVE  FlushInv' /\ SameInv' /\ SettingsInv' /\ ProfilesInv' /\ S!RulesHaveOwner'
<1> USE DEF StoreInv
<1>1. FlushInv'
    BY DEF Mutates, FlushInv, Busy, OnSettings, OnProfiles
<1>2. S!RulesHaveOwner'
    BY DEF Mutates, S!RulesHaveOwner, S!Has
<1>3. SameInv'
    BY DEF Mutates, SameInv, Same, S!Has
<1>4. ASSUME NEW e, Setting(e) PROVE Setting(e)'
    <2>1. e.key \in S!Keys /\ e.key \in DOMAIN dirty' \cup DOMAIN gone' \cup reused'
        BY <1>4 DEF Setting, Mutates, Same, S!Has
    <2>2. e.revision \in Int /\ e.revision <= rev' /\ e.revision # rev'
        BY <1>4 DEF Setting, Mutates, ShapeInv
    <2>3. S!Has(dirty', e.key) /\ dirty'[e.key] = e.revision => S!Has(set', e.key) /\ set'[e.key] = e.value
        BY <1>4, <2>2 DEF Setting, Mutates, Same, S!Has
    <2>4. e.owner # <<>> =>
              /\ e.key \in Ids /\ e.owner[1] \in RowType /\ e.owner[1].file \in files' \cup {0}
              /\ e.key \in DOMAIN disk'.rows \cup DOMAIN dirtyRow' \cup DOMAIN gone'
        BY <1>4 DEF Setting, Mutates, Same, S!Has
    <2> QED BY <1>4, <2>1, <2>2, <2>3, <2>4 DEF Setting
<1>5. ASSUME NEW e, Saving(e) PROVE Saving(e)'
    <2>1. e.id \in Ids /\ e.id \in DOMAIN dirtyRow' \cup DOMAIN gone'
        BY <1>5 DEF Saving, Mutates, Same, S!Has
    <2>2. e.revision \in Int /\ e.revision <= rev' /\ e.revision # rev'
        BY <1>5 DEF Saving, Mutates, ShapeInv
    <2>3. S!Has(dirtyRow', e.id) /\ dirtyRow'[e.id] = e.revision => S!Has(rows', e.id) /\ rows'[e.id] = e.row
        BY <1>5, <2>1, <2>2 DEF Mutates, Same, S!Has, Saving
    <2>4. e.row \in RowType /\ e.row.file \in files' \cup {0}
        BY <1>5 DEF Saving, Mutates
    <2> QED BY <2>1, <2>2, <2>3, <2>4 DEF Saving
<1>6. SettingsInv'
    BY <1>4 DEF SettingsInv, OnSettings, Mutates, S!Has
<1>7. ProfilesInv'
    <2> SUFFICES ASSUME NEW t \in S!Tasks, OnProfiles(t)'
                 PROVE  (/\ \A e \in task[t].todo : Saving(e) /\ \A f \in task[t].todo : f.id = e.id => f = e
                         /\ \A d \in task[t].cut : d.id \in Ids
                         /\ task[t].step = "ackRow" =>
                                \E e \in task[t].todo : /\ task[t].cur = <<e>>
                                                        /\ S!Has(disk.rows, e.id) /\ disk.rows[e.id] = e.row
                         /\ task[t].step \in {"delete", "clean"} => task[t].todo = {} /\ task[t].cur[1].id \in Ids
                         /\ task[t].step = "delete" =>
                                LET i == task[t].cur[1].id
                                IN  i \in DOMAIN gone \/ (i \in DOMAIN dirtyRow /\ i \in reused)
                         /\ task[t].step = "clean" =>
                                /\ task[t].cur[1].id \notin DOMAIN disk.rows \cup DOMAIN disk.set
                                /\ task[t].cur[2] = {disk.rows[i].file : i \in DOMAIN disk.rows})'
        BY DEF ProfilesInv
    <2>1. OnProfiles(t) /\ task' = task /\ disk' = disk
        BY DEF OnProfiles, Mutates
    <2>2. ASSUME task[t].step = "delete", NEW i, i = task[t].cur[1].id
          PROVE  i \in DOMAIN gone' \/ (i \in DOMAIN dirtyRow' /\ i \in reused')
        <3>1. i \in Ids /\ (i \in DOMAIN gone \/ (i \in DOMAIN dirtyRow /\ i \in reused))
            BY <2>1, <2>2 DEF ProfilesInv
        <3> QED BY <3>1 DEF Mutates, Same, S!Has
    <2> QED BY <1>5, <2>1, <2>2 DEF ProfilesInv, S!Has
<1> QED BY <1>1, <1>2, <1>3, <1>6, <1>7

----------------------------------------------------------------------------
\* Mutations.

LEMMA KeysApart ==
    /\ S!Order \in S!Keys /\ S!Plain \in S!Keys /\ S!Order # S!Plain /\ Ids \subseteq S!Keys
    /\ S!Order \notin Ids /\ S!Plain \notin Ids /\ 0 \notin Ids /\ Ids \subseteq Nat
BY IdsAreNumbers DEF S!Keys, S!Order, S!Plain

LEMMA SetSettingKeeps ==
    ASSUME StoreInv, NEW k \in S!Keys \ {S!Order}, S!SetSetting(k)
    PROVE  Mutates /\ ShapeInv' /\ ModeInv' /\ S!FilesOutliveRows'
<1> USE KeysApart DEF StoreInv, S!SetSetting
<1>1. /\ rev' = rev + 1 /\ rev' \in Nat /\ rev' \in S!Revisions
      /\ DOMAIN set' = DOMAIN set \cup {k}
      /\ DOMAIN dirty' = DOMAIN dirty \cup {k} /\ dirty'[k] = rev'
      /\ \A j \in DOMAIN set \ {k} : set'[j] = set[j]
      /\ \A j \in DOMAIN dirty \ {k} : dirty'[j] = dirty[j]
    BY BoundsAreNumbers DEF ShapeInv, S!Put, S!Revisions
<1>2. UNCHANGED <<mode, rows, dirtyRow, gone, disk, files, task, flag, reused>>
    OBVIOUS
<1>3. k \notin DOMAIN gone
    BY DEF ShapeInv, S!Has
<1>4. Mutates
    BY <1>1, <1>2, <1>3 DEF Mutates, Same, S!Has
<1>5. ShapeInv'
    BY <1>1, <1>2, <1>3 DEF ShapeInv, S!Has
<1>6. ModeInv'
    BY <1>1, <1>2, <1>3 DEF ModeInv, S!Keys
<1>7. S!FilesOutliveRows'
    BY <1>2 DEF S!FilesOutliveRows
<1> QED BY <1>4, <1>5, <1>6, <1>7

LEMMA SaveNewKeeps ==
    ASSUME StoreInv, S!SaveNew
    PROVE  Mutates /\ ShapeInv' /\ ModeInv' /\ S!FilesOutliveRows'
<1> USE KeysApart DEF StoreInv
<1> DEFINE i == S!NewId
           row == [file |-> 0, selected |-> FALSE, version |-> rev']
<1>1. /\ i \in Ids /\ mode = "open" /\ rev' = rev + 1 /\ rev' \in Nat /\ rev' \in S!Revisions /\ row \in RowType
      /\ UNCHANGED <<mode, disk, files, task, flag>>
    BY BoundsAreNumbers DEF S!SaveNew, S!Writable, ShapeInv, RowType, S!Revisions
<1>2. /\ rows' = S!Put(rows, i, row) /\ dirtyRow' = S!Put(dirtyRow, i, rev') /\ gone' = S!Without(gone, i)
      /\ reused' = IF S!Has(gone, i) THEN reused \cup {i} ELSE reused
      /\ \/ UNCHANGED <<set, dirty>>
         \/ set' = S!Put(set, S!Order, Append(S!OrderIn(set), i)) /\ dirty' = S!Put(dirty, S!Order, rev')
    BY DEF S!SaveNew
<1> HIDE DEF i, row
<1>3. /\ DOMAIN rows' = DOMAIN rows \cup {i} /\ rows'[i] = row
      /\ \A j \in DOMAIN rows \ {i} : rows'[j] = rows[j]
      /\ DOMAIN dirtyRow' = DOMAIN dirtyRow \cup {i} /\ dirtyRow'[i] = rev'
      /\ \A j \in DOMAIN dirtyRow \ {i} : dirtyRow'[j] = dirtyRow[j]
      /\ DOMAIN gone' = DOMAIN gone \ {i}
    BY <1>2 DEF S!Put, S!Without, S!Restrict
<1>4. \/ UNCHANGED <<set, dirty>>
      \/ /\ DOMAIN set' = DOMAIN set \cup {S!Order} /\ DOMAIN dirty' = DOMAIN dirty \cup {S!Order}
         /\ dirty'[S!Order] = rev' /\ \A j \in DOMAIN set \ {S!Order} : set'[j] = set[j]
         /\ \A j \in DOMAIN dirty \ {S!Order} : dirty'[j] = dirty[j]
    BY <1>2 DEF S!Put
<1>5. rows' \in [DOMAIN rows' -> RowType]
    BY <1>1, <1>2, <1>3, PutTyped DEF ShapeInv
<1>6. i \in reused' \/ i \notin DOMAIN gone
    BY <1>2 DEF S!Has
<1>7. reused \subseteq reused' /\ reused' \subseteq Ids
    BY <1>1, <1>2 DEF ShapeInv
<1>8. Mutates
    <2>1. \A k \in S!Keys : \/ S!Has(dirty', k) /\ dirty'[k] = rev'
                            \/ /\ Same(dirty, dirty', k) /\ Same(set, set', k)
                               /\ (S!Has(gone, k) <=> S!Has(gone', k)) \/ k \in reused'
        BY <1>3, <1>4, <1>6 DEF Same, S!Has
    <2>2. \A j \in Ids : \/ S!Has(dirtyRow', j) /\ dirtyRow'[j] = rev' /\ (S!Has(gone, j) => S!Has(gone', j) \/ j \in reused')
                         \/ /\ Same(dirtyRow, dirtyRow', j) /\ Same(rows, rows', j)
                            /\ (S!Has(gone, j) <=> S!Has(gone', j))
        BY <1>3, <1>6 DEF Same, S!Has
    <2> QED BY <1>1, <1>7, <2>1, <2>2 DEF Mutates
<1>9. ShapeInv'
    <2>1. \A k \in DOMAIN dirty' : dirty'[k] \in Nat /\ dirty'[k] <= rev'
        BY <1>1, <1>4 DEF ShapeInv
    <2>2. \A j \in DOMAIN dirtyRow' : dirtyRow'[j] \in Nat /\ dirtyRow'[j] <= rev'
        BY <1>1, <1>3 DEF ShapeInv
    <2>3. /\ DOMAIN rows' \subseteq Ids /\ DOMAIN set' \subseteq S!Keys /\ DOMAIN dirty' \subseteq DOMAIN set'
          /\ DOMAIN dirtyRow' \subseteq DOMAIN rows'
          /\ DOMAIN gone' \subseteq Ids \ (DOMAIN rows' \cup DOMAIN set')
        BY <1>1, <1>3, <1>4 DEF ShapeInv
    <2> QED BY <1>1, <1>5, <1>7, <2>1, <2>2, <2>3 DEF ShapeInv
<1>10. ModeInv'
    BY <1>1 DEF ModeInv
<1>11. S!FilesOutliveRows'
    BY <1>1, <1>3 DEF S!FilesOutliveRows, row
<1> QED BY <1>8, <1>9, <1>10, <1>11

LEMMA SaveRowKeeps ==
    ASSUME StoreInv, NEW i \in Ids, S!SaveRow(i)
    PROVE  Mutates /\ ShapeInv' /\ ModeInv' /\ S!FilesOutliveRows'
<1> USE KeysApart DEF StoreInv, S!SaveRow, S!Writable
<1>1. /\ S!Has(rows, i) /\ rev' = rev + 1 /\ rev' \in Nat /\ rev' \in S!Revisions /\ files' = files \cup {i} /\ mode = "open"
      /\ UNCHANGED <<mode, set, dirty, gone, disk, task, flag, reused>>
    BY BoundsAreNumbers DEF ShapeInv, S!Revisions
<1>2. DOMAIN rows' = DOMAIN rows /\ \A j \in DOMAIN rows \ {i} : rows'[j] = rows[j]
    OBVIOUS
<1>3. rows' \in [DOMAIN rows' -> RowType] /\ rows'[i].file = i
    <2>1. rows[i] \in RowType
        BY <1>1 DEF ShapeInv, S!Has
    <2>2. rows'[i] \in RowType /\ rows'[i].file = i
        BY <2>1, <1>1 DEF RowType, S!Has
    <2>3. rows' = [j \in DOMAIN rows |-> rows'[j]]
        OBVIOUS
    <2> QED BY <1>2, <2>2, <2>3 DEF ShapeInv
<1>4. /\ DOMAIN dirtyRow' = DOMAIN dirtyRow \cup {i} /\ dirtyRow'[i] = rev'
      /\ \A j \in DOMAIN dirtyRow \ {i} : dirtyRow'[j] = dirtyRow[j]
    BY DEF S!Put
<1>5. Mutates
    BY <1>1, <1>2, <1>4 DEF Mutates, Same, S!Has
<1>6. ShapeInv'
    BY <1>1, <1>2, <1>3, <1>4 DEF ShapeInv, S!Has
<1>7. ModeInv'
    BY <1>1 DEF ModeInv
<1>8. S!FilesOutliveRows'
    BY <1>1, <1>2, <1>3 DEF S!FilesOutliveRows
<1> QED BY <1>5, <1>6, <1>7, <1>8

LEMMA DeleteProfileKeeps ==
    ASSUME StoreInv, NEW i \in Ids, NEW b \in BOOLEAN, S!DeleteProfile(i, b)
    PROVE  Mutates /\ ShapeInv' /\ ModeInv' /\ S!FilesOutliveRows'
<1> USE KeysApart DEF StoreInv
<1>1. /\ S!Has(rows, i) /\ rev' = rev + 1 /\ rev' \in Nat /\ rev' \in S!Revisions /\ mode = "open"
      /\ UNCHANGED <<mode, disk, files, task, flag, reused>>
    BY BoundsAreNumbers DEF ShapeInv, S!DeleteProfile, S!Writable, S!Revisions
<1>2. /\ rows' = S!Without(rows, i) /\ dirtyRow' = S!Without(dirtyRow, i)
      /\ DOMAIN gone' = DOMAIN gone \cup {i}
    BY DEF S!DeleteProfile, S!Put
<1>3. /\ DOMAIN rows' = DOMAIN rows \ {i} /\ \A j \in DOMAIN rows \ {i} : rows'[j] = rows[j]
      /\ DOMAIN dirtyRow' = DOMAIN dirtyRow \ {i}
      /\ \A j \in DOMAIN dirtyRow \ {i} : dirtyRow'[j] = dirtyRow[j]
    BY <1>2 DEF S!Without, S!Restrict
<1>4. rows' \in [DOMAIN rows' -> RowType]
    BY <1>2, <1>3, WithoutTyped DEF ShapeInv
<1>5. \/ set' = S!Without(set, i) /\ dirty' = S!Without(dirty, i)
      \/ \E o : set' = S!Put(S!Without(set, i), S!Order, o) /\ dirty' = S!Put(S!Without(dirty, i), S!Order, rev')
    BY DEF S!DeleteProfile
<1>6. \/ /\ DOMAIN set' = DOMAIN set \ {i} /\ DOMAIN dirty' = DOMAIN dirty \ {i}
         /\ \A j \in DOMAIN set \ {i} : set'[j] = set[j]
         /\ \A j \in DOMAIN dirty \ {i} : dirty'[j] = dirty[j]
      \/ /\ DOMAIN set' = (DOMAIN set \ {i}) \cup {S!Order} /\ DOMAIN dirty' = (DOMAIN dirty \ {i}) \cup {S!Order}
         /\ dirty'[S!Order] = rev' /\ \A j \in DOMAIN set \ {i, S!Order} : set'[j] = set[j]
         /\ \A j \in DOMAIN dirty \ {i, S!Order} : dirty'[j] = dirty[j]
    BY <1>5 DEF S!Put, S!Without, S!Restrict
<1>7. Mutates
    <2>1. \A k \in S!Keys : \/ S!Has(dirty', k) /\ dirty'[k] = rev'
                            \/ S!Has(gone', k) /\ ~S!Has(dirty', k)
                            \/ /\ Same(dirty, dirty', k) /\ Same(set, set', k)
                               /\ (S!Has(gone, k) <=> S!Has(gone', k)) \/ k \in reused'
        BY <1>2, <1>6 DEF Same, S!Has
    <2>2. \A j \in Ids : \/ S!Has(gone', j) /\ ~S!Has(dirtyRow', j)
                         \/ /\ Same(dirtyRow, dirtyRow', j) /\ Same(rows, rows', j)
                            /\ (S!Has(gone, j) <=> S!Has(gone', j))
        BY <1>2, <1>3 DEF Same, S!Has
    <2> QED BY <1>1, <2>1, <2>2 DEF Mutates
<1>8. ShapeInv'
    <2>1. \A k \in DOMAIN dirty' : dirty'[k] \in Nat /\ dirty'[k] <= rev'
        BY <1>1, <1>6 DEF ShapeInv
    <2>2. \A j \in DOMAIN dirtyRow' : dirtyRow'[j] \in Nat /\ dirtyRow'[j] <= rev'
        BY <1>1, <1>3 DEF ShapeInv
    <2>3. /\ DOMAIN rows' \subseteq Ids /\ DOMAIN set' \subseteq S!Keys /\ DOMAIN dirty' \subseteq DOMAIN set'
          /\ DOMAIN dirtyRow' \subseteq DOMAIN rows'
          /\ DOMAIN gone' \subseteq Ids \ (DOMAIN rows' \cup DOMAIN set')
        BY <1>1, <1>2, <1>3, <1>6 DEF ShapeInv
    <2> QED BY <1>1, <1>4, <2>1, <2>2, <2>3 DEF ShapeInv
<1>9. ModeInv'
    BY <1>1 DEF ModeInv
<1>10. S!FilesOutliveRows'
    BY <1>1, <1>3 DEF S!FilesOutliveRows
<1> QED BY <1>7, <1>8, <1>9, <1>10

LEMMA SetProfileOrderKeeps ==
    ASSUME StoreInv, NEW order, S!SetProfileOrder(order)
    PROVE  Mutates /\ ShapeInv' /\ ModeInv' /\ S!FilesOutliveRows'
<1> USE KeysApart DEF StoreInv
<1>1. /\ rev' = rev + 1 /\ rev' \in Nat /\ rev' \in S!Revisions /\ mode = "open"
      /\ UNCHANGED <<mode, rows, dirtyRow, gone, disk, files, task, flag, reused>>
      /\ set' = S!Put(set, S!Order, list') /\ dirty' = S!Put(dirty, S!Order, rev')
    BY BoundsAreNumbers DEF ShapeInv, S!SetProfileOrder, S!Writable, S!Revisions
<1>2. /\ DOMAIN set' = DOMAIN set \cup {S!Order} /\ DOMAIN dirty' = DOMAIN dirty \cup {S!Order}
      /\ dirty'[S!Order] = rev' /\ \A j \in DOMAIN set \ {S!Order} : set'[j] = set[j]
      /\ \A j \in DOMAIN dirty \ {S!Order} : dirty'[j] = dirty[j]
    BY <1>1 DEF S!Put
<1>3. Mutates
    BY <1>1, <1>2 DEF Mutates, Same, S!Has
<1>4. ShapeInv'
    BY <1>1, <1>2 DEF ShapeInv
<1>5. ModeInv' /\ S!FilesOutliveRows'
    BY <1>1 DEF ModeInv, S!FilesOutliveRows
<1> QED BY <1>3, <1>4, <1>5

LEMMA SetSelectedKeeps ==
    ASSUME StoreInv, NEW i \in Ids, S!SetSelected(i)
    PROVE  Mutates /\ ShapeInv' /\ ModeInv' /\ S!FilesOutliveRows'
<1> USE KeysApart DEF StoreInv, S!SetSelected, S!Writable
<1>1. /\ rev' = rev + 1 /\ rev' \in Nat /\ rev' \in S!Revisions /\ mode = "open"
      /\ UNCHANGED <<mode, set, dirty, gone, disk, files, task, flag, reused>>
      /\ DOMAIN rows' = DOMAIN rows
      /\ DOMAIN dirtyRow' = DOMAIN rows /\ \A j \in DOMAIN rows : dirtyRow'[j] = rev'
    BY BoundsAreNumbers DEF ShapeInv, S!Revisions
<1>2. \A j \in DOMAIN rows : rows'[j] \in RowType /\ rows'[j].file = rows[j].file
    <2> TAKE j \in DOMAIN rows
    <2>1. rows[j] \in RowType
        BY DEF ShapeInv
    <2>2. rows'[j] = [rows[j] EXCEPT !.selected = (j = i)]
        OBVIOUS
    <2> QED BY <2>1, <2>2 DEF RowType
<1>3. rows' \in [DOMAIN rows' -> RowType]
    BY <1>1, <1>2
<1>4. Mutates
    BY <1>1 DEF Mutates, Same, S!Has, ShapeInv
<1>5. ShapeInv'
    BY <1>1, <1>3 DEF ShapeInv
<1>6. ModeInv' /\ S!FilesOutliveRows'
    BY <1>1, <1>2 DEF ModeInv, S!FilesOutliveRows
<1> QED BY <1>4, <1>5, <1>6

LEMMA MutateKeeps ==
    ASSUME StoreInv, S!Mutate
    PROVE  StoreInv' /\ Mutates
<1>1. Mutates /\ ShapeInv' /\ ModeInv' /\ S!FilesOutliveRows'
    BY SetSettingKeeps, SaveNewKeeps, SaveRowKeeps, DeleteProfileKeeps, SetProfileOrderKeeps,
       SetSelectedKeeps DEF S!Mutate
<1> QED BY <1>1, MutationKeeps DEF StoreInv

----------------------------------------------------------------------------
\* Flushes.

LEMMA FlushMode ==
    ASSUME StoreInv, NEW t \in S!Tasks, task[t].pc # "rest" \/ task[t].step # "idle", mode' = mode,
           task'[t].pc = task[t].pc, \A u \in S!Tasks : u # t => task'[u] = task[u]
    PROVE  ModeInv'
<1>1. mode # "down"
    BY DEF StoreInv, ModeInv
<1> QED BY <1>1 DEF StoreInv, ModeInv, S!Tasks

\* What a step of t does to its own record and to nobody else's.
StepsTo(t, step) ==
    /\ task'[t].step = step /\ task'[t].pc = task[t].pc
    /\ \A u \in S!Tasks : u # t => task'[u] = task[u]
    /\ task' = [u \in S!Tasks |-> task'[u]] /\ \A u \in S!Tasks : IsTask(task'[u])

LEMMA Alone ==
    ASSUME StoreInv, NEW t \in S!Tasks, Busy(t) \/ ~flag.settings, NEW step, StepsTo(t, step)
    PROVE  \A u \in S!Tasks : u # t => ~Busy(u) /\ ~Busy(u)' /\ ~OnSettings(u)' /\ ~OnProfiles(u)'
<1>1. ASSUME NEW u \in S!Tasks, u # t PROVE ~Busy(u)
    BY <1>1 DEF StoreInv, FlushInv
<1>2. ASSUME NEW u \in S!Tasks, u # t PROVE task'[u] = task[u]
    BY <1>2 DEF StepsTo
<1> QED BY <1>1, <1>2 DEF Busy, OnSettings, OnProfiles

LEMMA FlushSettingsKeeps ==
    ASSUME StoreInv, NEW t \in S!Tasks, S!FlushSettings(t)
    PROVE  StoreInv'
<1> DEFINE owner(k) == IF k \in Ids THEN <<rows[k]>> ELSE <<>>
           entry(k) == [key |-> k, value |-> set[k], revision |-> dirty[k], owner |-> owner(k)]
           ready == {d \in DOMAIN dirty : S!Has(set, d) /\ (d \in Ids => S!Has(rows, d))}
<1>1. /\ ~flag.settings /\ task[t].pc # "rest"
      /\ UNCHANGED <<mode, list, rows, set, rev, stops, reused, dirty, dirtyRow, gone, disk, files>>
      /\ flag'.settings /\ DOMAIN flag' = {"settings", "profiles"}
    BY DEF S!FlushSettings, S!At, S!Cached, StoreInv, ShapeInv
<1>2. StepsTo(t, "set") /\ task'[t].todo = {entry(k) : k \in ready}
    <2>1. S!Step(t, [task[t] EXCEPT !.step = "set", !.todo = {entry(k) : k \in ready}])
        BY DEF S!FlushSettings
    <2> QED BY <2>1 DEF S!Step, IsTask, StepsTo, StoreInv, ShapeInv
<1>3. \A u \in S!Tasks : u # t => ~Busy(u) /\ ~Busy(u)' /\ ~OnSettings(u)' /\ ~OnProfiles(u)'
    BY <1>1, <1>2, Alone
<1>4. ~OnProfiles(t)' /\ ~(task'[t].step = "ackSet")
    BY <1>2 DEF OnProfiles, StepsTo
<1>5. FlushInv'
    BY <1>1, <1>3 DEF FlushInv
<1>6. ShapeInv' /\ SameInv' /\ S!FilesOutliveRows' /\ S!RulesHaveOwner'
    BY <1>1, <1>2 DEF StoreInv, ShapeInv, StepsTo, SameInv, Same, S!Has, S!FilesOutliveRows,
           S!RulesHaveOwner
<1>7. ModeInv'
    BY <1>1, <1>2, FlushMode DEF StepsTo
<1>8. ASSUME NEW k \in ready, NEW e, e = entry(k) PROVE Setting(e)'
    <2>1. /\ k \in S!Keys /\ S!Has(dirty, k) /\ S!Has(set, k) /\ dirty[k] \in Nat /\ dirty[k] <= rev
        BY DEF StoreInv, ShapeInv, S!Has
    <2>2. k \in Ids => /\ rows[k] \in RowType /\ rows[k].file \in files \cup {0}
                       /\ k \in DOMAIN disk.rows \cup DOMAIN dirtyRow \cup DOMAIN gone
        BY DEF StoreInv, ShapeInv, S!Has, S!FilesOutliveRows, SameInv, Same
    <2>3. (k \in Ids => owner(k) # <<>> /\ owner(k)[1] = rows[k]) /\ (k \notin Ids => owner(k) = <<>>)
        OBVIOUS
    <2>4. e.key = k /\ e.value = set[k] /\ e.revision = dirty[k] /\ e.owner = owner(k)
        BY <1>8
    <2> HIDE DEF owner, entry, ready
    <2> QED BY <1>1, <2>1, <2>2, <2>3, <2>4 DEF Setting, S!Has
<1>9. SettingsInv'
    <2> SUFFICES ASSUME NEW e \in task'[t].todo
                 PROVE  Setting(e)' /\ \A f \in task'[t].todo : f.key = e.key => f = e
        BY <1>3, <1>4 DEF SettingsInv
    <2>1. PICK k \in ready : e = entry(k)
        BY <1>2
    <2>2. Setting(e)'
        BY <1>8, <2>1
    <2>3. ASSUME NEW f \in task'[t].todo, f.key = e.key PROVE f = e
        <3>1. PICK j \in ready : f = entry(j)
            BY <1>2
        <3>2. j = k
            BY <2>1, <2>3, <3>1
        <3> QED BY <2>1, <3>1, <3>2
    <2> QED BY <2>2, <2>3
<1>10. ProfilesInv'
    BY <1>3, <1>4 DEF ProfilesInv
<1> QED BY <1>5, <1>6, <1>7, <1>9, <1>10 DEF StoreInv

LEMMA SaveSettingKeeps ==
    ASSUME StoreInv, NEW t \in S!Tasks, S!SaveSetting(t)
    PROVE  StoreInv'
<1>1. task[t].step = "set"
      /\ UNCHANGED <<mode, list, rows, set, rev, stops, reused, dirty, dirtyRow, gone, files, flag>>
    BY DEF S!SaveSetting, S!Cached
<1>2. PICK e \in task[t].todo :
          /\ disk' = [rows |-> IF e.owner = <<>> \/ S!Has(disk.rows, e.key) THEN disk.rows
                               ELSE S!Put(disk.rows, e.key, e.owner[1]),
                      set |-> S!Put(disk.set, e.key, e.value)]
          /\ S!Step(t, [task[t] EXCEPT !.step = "ackSet", !.cur = <<e>>])
    BY DEF S!SaveSetting
<1>3. StepsTo(t, "ackSet") /\ task'[t].todo = task[t].todo /\ task'[t].cur = <<e>>
    BY <1>2 DEF S!Step, IsTask, StepsTo, StoreInv, ShapeInv
<1>4. OnSettings(t) /\ Busy(t)
    BY <1>1 DEF OnSettings, Busy
<1>5. /\ \A u \in S!Tasks : u # t => ~Busy(u) /\ ~Busy(u)' /\ ~OnSettings(u)' /\ ~OnProfiles(u)'
      /\ ~OnProfiles(t)'
    BY <1>3, <1>4, Alone DEF StepsTo, OnProfiles
<1>6. Setting(e) /\ \A f \in task[t].todo : Setting(f) /\ \A g \in task[t].todo : g.key = f.key => g = f
    BY <1>4 DEF StoreInv, SettingsInv
<1>7. /\ disk'.set = S!Put(disk.set, e.key, e.value)
      /\ \/ disk'.rows = disk.rows /\ (e.owner = <<>> \/ S!Has(disk.rows, e.key))
         \/ /\ disk'.rows = S!Put(disk.rows, e.key, e.owner[1])
            /\ e.owner # <<>> /\ e.key \in DOMAIN dirtyRow \cup DOMAIN gone
    BY <1>2, <1>6 DEF S!Has, Setting
<1>8. /\ DOMAIN disk'.set = DOMAIN disk.set \cup {e.key} /\ disk'.set[e.key] = e.value
      /\ \A k \in DOMAIN disk.set : k # e.key => disk'.set[k] = disk.set[k]
    BY <1>7 DEF S!Put
<1>9. \/ disk'.rows = disk.rows /\ (e.owner = <<>> \/ S!Has(disk.rows, e.key))
      \/ /\ DOMAIN disk'.rows = DOMAIN disk.rows \cup {e.key} /\ disk'.rows[e.key] = e.owner[1]
         /\ \A i \in DOMAIN disk.rows : i # e.key => disk'.rows[i] = disk.rows[i]
         /\ e.owner # <<>> /\ e.key \in DOMAIN dirtyRow \cup DOMAIN gone
    BY <1>7 DEF S!Put
<1>10. ShapeInv'
    <2>1. disk'.rows \in [DOMAIN disk'.rows -> RowType]
        <3>1. disk.rows \in [DOMAIN disk.rows -> RowType] /\ (e.owner # <<>> => e.owner[1] \in RowType)
            BY <1>6 DEF StoreInv, ShapeInv, Setting
        <3>2. CASE disk'.rows = disk.rows
            BY <3>1, <3>2
        <3>3. CASE disk'.rows = S!Put(disk.rows, e.key, e.owner[1]) /\ e.owner # <<>>
            <4>1. S!Put(disk.rows, e.key, e.owner[1]) \in [DOMAIN disk.rows \cup {e.key} -> RowType]
                BY <3>1, <3>3, PutTyped
            <4>2. DOMAIN S!Put(disk.rows, e.key, e.owner[1]) = DOMAIN disk.rows \cup {e.key}
                BY DEF S!Put
            <4> QED BY <3>3, <4>1, <4>2
        <3> QED BY <1>7, <3>2, <3>3
    <2>2. DOMAIN disk'.rows \subseteq Ids /\ DOMAIN disk'.set \subseteq S!Keys
        BY <1>6, <1>8, <1>9 DEF StoreInv, ShapeInv, Setting
    <2>3. disk' = [rows |-> disk'.rows, set |-> disk'.set]
        BY <1>2
    <2> QED BY <1>1, <1>3, <2>1, <2>2, <2>3 DEF StoreInv, ShapeInv, StepsTo
<1>11. FlushInv'
    BY <1>1, <1>4, <1>5 DEF StoreInv, FlushInv
<1>12. ModeInv'
    BY <1>1, <1>3, FlushMode DEF StepsTo
<1>13. SameInv'
    BY <1>1, <1>6, <1>8, <1>9 DEF StoreInv, SameInv, Same, S!Has, Setting
<1>14. S!FilesOutliveRows'
    BY <1>1, <1>6, <1>9 DEF StoreInv, S!FilesOutliveRows, Setting
<1>15. S!RulesHaveOwner'
    BY <1>6, <1>8, <1>9 DEF StoreInv, S!RulesHaveOwner, S!Has, Setting
<1>16. \A f \in task'[t].todo : Setting(f)'
    BY <1>1, <1>3, <1>6, <1>9 DEF Setting, S!Has
<1>17. SettingsInv'
    BY <1>3, <1>5, <1>6, <1>8, <1>16 DEF SettingsInv, S!Has
<1>18. ProfilesInv'
    BY <1>5 DEF ProfilesInv
<1> QED BY <1>10, <1>11, <1>12, <1>13, <1>14, <1>15, <1>17, <1>18 DEF StoreInv

LEMMA AckSettingKeeps ==
    ASSUME StoreInv, NEW t \in S!Tasks, S!AckSetting(t)
    PROVE  StoreInv'
<1>1. /\ task[t].step = "ackSet"
      /\ UNCHANGED <<mode, list, rows, set, rev, stops, reused, dirtyRow, gone, disk, files, flag>>
    BY DEF S!AckSetting, S!Cached
<1>2. OnSettings(t) /\ Busy(t)
    BY <1>1 DEF OnSettings, Busy
<1>3. PICK e \in task[t].todo : task[t].cur = <<e>> /\ S!Has(disk.set, e.key) /\ disk.set[e.key] = e.value
    BY <1>1, <1>2 DEF StoreInv, SettingsInv
<1>4. task[t].cur[1] = e
    BY <1>3
<1>5. /\ dirty' = IF S!Has(dirty, e.key) /\ dirty[e.key] = e.revision THEN S!Without(dirty, e.key) ELSE dirty
      /\ S!Step(t, [task[t] EXCEPT !.step = "set", !.todo = @ \ {e}, !.cur = <<>>])
    BY <1>4 DEF S!AckSetting
<1>6. StepsTo(t, "set") /\ task'[t].todo = task[t].todo \ {e}
    BY <1>5 DEF S!Step, IsTask, StepsTo, StoreInv, ShapeInv
<1>7. /\ \A u \in S!Tasks : u # t => ~Busy(u) /\ ~Busy(u)' /\ ~OnSettings(u)' /\ ~OnProfiles(u)'
      /\ ~OnProfiles(t)' /\ ~(task'[t].step = "ackSet")
    BY <1>2, <1>6, Alone DEF StepsTo, OnProfiles
<1>8. Setting(e) /\ \A f \in task[t].todo : Setting(f) /\ \A g \in task[t].todo : g.key = f.key => g = f
    BY <1>2 DEF StoreInv, SettingsInv
<1>9. \/ dirty' = dirty
      \/ /\ DOMAIN dirty' = DOMAIN dirty \ {e.key} /\ \A k \in DOMAIN dirty' : dirty'[k] = dirty[k]
         /\ S!Has(dirty, e.key) /\ dirty[e.key] = e.revision
    BY <1>5 DEF S!Without, S!Restrict
<1>10. ShapeInv'
    BY <1>1, <1>6, <1>9 DEF StoreInv, ShapeInv, StepsTo
<1>11. FlushInv'
    BY <1>1, <1>2, <1>7 DEF StoreInv, FlushInv
<1>12. ModeInv'
    BY <1>1, <1>6, FlushMode DEF StepsTo
<1>13. S!FilesOutliveRows' /\ S!RulesHaveOwner'
    BY <1>1 DEF StoreInv, S!FilesOutliveRows, S!RulesHaveOwner, S!Has
<1>14. DOMAIN dirty' \subseteq DOMAIN dirty /\ \A k \in DOMAIN dirty \ DOMAIN dirty' : k \in S!Keys /\ Same(set, disk.set, k)
    BY <1>3, <1>8, <1>9 DEF Setting, Same, S!Has
<1>15. SameInv'
    BY <1>1, <1>14 DEF StoreInv, SameInv, Same, S!Has
<1>16. ASSUME NEW f \in task'[t].todo PROVE Setting(f)'
    <2>1. f.key # e.key /\ Setting(f)
        BY <1>6, <1>8
    <2> QED BY <1>1, <1>9, <2>1 DEF Setting, S!Has
<1>17. SettingsInv'
    BY <1>6, <1>7, <1>8, <1>16 DEF SettingsInv
<1>18. ProfilesInv'
    BY <1>7 DEF ProfilesInv
<1> QED BY <1>10, <1>11, <1>12, <1>13, <1>14, <1>15, <1>17, <1>18 DEF StoreInv

LEMMA FlushProfilesKeeps ==
    ASSUME StoreInv, NEW t \in S!Tasks, S!FlushProfiles(t)
    PROVE  StoreInv'
<1> DEFINE entry(i) == [id |-> i, row |-> rows[i], revision |-> dirtyRow[i]]
<1>1. /\ ~flag.settings /\ task[t].pc # "rest" /\ flag' = [settings |-> TRUE, profiles |-> TRUE]
      /\ UNCHANGED <<mode, list, rows, set, rev, stops, reused, dirty, dirtyRow, gone, disk, files>>
    BY DEF S!FlushProfiles, S!At, S!Cached
<1>2. /\ StepsTo(t, "row") /\ task'[t].todo = {entry(i) : i \in DOMAIN dirtyRow}
      /\ task'[t].cut = {[id |-> i, del |-> gone[i]] : i \in DOMAIN gone}
    <2>1. S!Step(t, [task[t] EXCEPT !.step = "row", !.todo = {entry(i) : i \in DOMAIN dirtyRow},
                                    !.cut = {[id |-> i, del |-> gone[i]] : i \in DOMAIN gone}])
        BY DEF S!FlushProfiles
    <2> QED BY <2>1 DEF S!Step, IsTask, StepsTo, StoreInv, ShapeInv
<1>3. \A u \in S!Tasks : u # t => ~Busy(u) /\ ~Busy(u)' /\ ~OnSettings(u)' /\ ~OnProfiles(u)'
    BY <1>1, <1>2, Alone
<1>4. ~OnSettings(t)' /\ task'[t].step \notin {"ackRow", "delete", "clean"}
    BY <1>2 DEF OnSettings, StepsTo
<1>5. FlushInv'
    BY <1>1, <1>3 DEF FlushInv
<1>6. ShapeInv' /\ SameInv' /\ S!FilesOutliveRows' /\ S!RulesHaveOwner'
    BY <1>1, <1>2 DEF StoreInv, ShapeInv, StepsTo, SameInv, Same, S!Has, S!FilesOutliveRows,
           S!RulesHaveOwner
<1>7. ModeInv'
    BY <1>1, <1>2, FlushMode DEF StepsTo
<1>8. ASSUME NEW i \in DOMAIN dirtyRow, NEW e, e = entry(i) PROVE Saving(e)'
    <2>1. i \in Ids /\ S!Has(rows, i) /\ dirtyRow[i] \in Nat /\ dirtyRow[i] <= rev
        BY DEF StoreInv, ShapeInv, S!Has
    <2>2. rows[i] \in RowType /\ rows[i].file \in files \cup {0}
        BY <2>1 DEF StoreInv, ShapeInv, S!Has, S!FilesOutliveRows
    <2>3. e.id = i /\ e.row = rows[i] /\ e.revision = dirtyRow[i]
        BY <1>8
    <2> HIDE DEF entry
    <2> QED BY <1>1, <2>1, <2>2, <2>3 DEF Saving, S!Has
<1>9. ProfilesInv'
    <2>1. ASSUME NEW e \in task'[t].todo
          PROVE  Saving(e)' /\ \A f \in task'[t].todo : f.id = e.id => f = e
        <3>1. PICK k \in DOMAIN dirtyRow : e = entry(k)
            BY <1>2
        <3>2. Saving(e)'
            BY <1>8, <3>1
        <3>3. ASSUME NEW f \in task'[t].todo, f.id = e.id PROVE f = e
            <4>1. PICK j \in DOMAIN dirtyRow : f = entry(j)
                BY <1>2
            <4>2. j = k
                BY <3>1, <3>3, <4>1
            <4> QED BY <3>1, <4>1, <4>2
        <3> QED BY <3>2, <3>3
    <2>2. \A d \in task'[t].cut : d.id \in Ids
        BY <1>2 DEF StoreInv, ShapeInv
    <2> QED BY <1>3, <1>4, <2>1, <2>2 DEF ProfilesInv
<1>10. SettingsInv'
    BY <1>3, <1>4 DEF SettingsInv
<1> QED BY <1>5, <1>6, <1>7, <1>9, <1>10 DEF StoreInv

LEMMA SaveProfileRowKeeps ==
    ASSUME StoreInv, NEW t \in S!Tasks, S!SaveProfileRow(t)
    PROVE  StoreInv'
<1>1. /\ task[t].step = "row"
      /\ UNCHANGED <<mode, list, rows, set, rev, stops, reused, dirty, dirtyRow, gone, files, flag>>
    BY DEF S!SaveProfileRow, S!Cached
<1>2. PICK e \in task[t].todo : /\ disk' = [disk EXCEPT !.rows = S!Put(@, e.id, e.row)]
                                /\ S!Step(t, [task[t] EXCEPT !.step = "ackRow", !.cur = <<e>>])
    BY DEF S!SaveProfileRow
<1>3. /\ StepsTo(t, "ackRow") /\ task'[t].todo = task[t].todo /\ task'[t].cur = <<e>>
      /\ task'[t].cut = task[t].cut
    BY <1>2 DEF S!Step, IsTask, StepsTo, StoreInv, ShapeInv
<1>4. OnProfiles(t) /\ Busy(t)
    BY <1>1 DEF OnProfiles, Busy
<1>5. /\ \A u \in S!Tasks : u # t => ~Busy(u) /\ ~Busy(u)' /\ ~OnSettings(u)' /\ ~OnProfiles(u)'
      /\ ~OnSettings(t)' /\ ~(task'[t].step \in {"delete", "clean"})
    BY <1>3, <1>4, Alone DEF StepsTo, OnSettings
<1>6. /\ Saving(e) /\ \A d \in task[t].cut : d.id \in Ids
      /\ \A f \in task[t].todo : Saving(f) /\ \A g \in task[t].todo : g.id = f.id => g = f
    BY <1>4 DEF StoreInv, ProfilesInv
<1>7. disk'.rows = S!Put(disk.rows, e.id, e.row) /\ disk'.set = disk.set
      /\ disk' = [rows |-> disk'.rows, set |-> disk'.set]
    BY <1>2 DEF StoreInv, ShapeInv
<1>8. /\ DOMAIN disk'.rows = DOMAIN disk.rows \cup {e.id} /\ disk'.rows[e.id] = e.row
      /\ \A i \in DOMAIN disk.rows : i # e.id => disk'.rows[i] = disk.rows[i]
    BY <1>7 DEF S!Put
<1>9. ShapeInv'
    <2>1. e.row \in RowType /\ e.id \in Ids /\ disk.rows \in [DOMAIN disk.rows -> RowType]
        BY <1>6 DEF StoreInv, ShapeInv, Saving
    <2>2. S!Put(disk.rows, e.id, e.row) \in [DOMAIN disk.rows \cup {e.id} -> RowType]
        BY <2>1, PutTyped
    <2>3. disk'.rows \in [DOMAIN disk'.rows -> RowType]
        BY <1>7, <1>8, <2>2
    <2> QED BY <1>1, <1>3, <1>7, <1>8, <2>1, <2>3 DEF StoreInv, ShapeInv, StepsTo
<1>10. FlushInv'
    BY <1>1, <1>4, <1>5 DEF StoreInv, FlushInv
<1>11. ModeInv'
    BY <1>1, <1>3, FlushMode DEF StepsTo
<1>12. SameInv'
    BY <1>1, <1>6, <1>7, <1>8 DEF StoreInv, SameInv, Same, S!Has, Saving
<1>13. S!FilesOutliveRows' /\ S!RulesHaveOwner'
    BY <1>1, <1>6, <1>7, <1>8 DEF StoreInv, S!FilesOutliveRows, S!RulesHaveOwner, S!Has, Saving
<1>14. ProfilesInv'
    <2>1. \A f \in task'[t].todo : Saving(f)'
        BY <1>1, <1>3, <1>6 DEF Saving, S!Has
    <2> QED BY <1>3, <1>5, <1>6, <1>8, <2>1 DEF ProfilesInv, S!Has
<1>15. SettingsInv'
    BY <1>5 DEF SettingsInv
<1> QED BY <1>9, <1>10, <1>11, <1>12, <1>13, <1>14, <1>15 DEF StoreInv

LEMMA AckRowKeeps ==
    ASSUME StoreInv, NEW t \in S!Tasks, S!AckRow(t)
    PROVE  StoreInv'
<1>1. /\ task[t].step = "ackRow"
      /\ UNCHANGED <<mode, list, rows, set, rev, stops, reused, dirty, gone, disk, files, flag>>
    BY DEF S!AckRow, S!Cached
<1>2. OnProfiles(t) /\ Busy(t)
    BY <1>1 DEF OnProfiles, Busy
<1>3. PICK e \in task[t].todo : task[t].cur = <<e>> /\ S!Has(disk.rows, e.id) /\ disk.rows[e.id] = e.row
    BY <1>1, <1>2 DEF StoreInv, ProfilesInv
<1>4. task[t].cur[1] = e
    BY <1>3
<1>5. /\ dirtyRow' = IF S!Has(dirtyRow, e.id) /\ dirtyRow[e.id] = e.revision
                     THEN S!Without(dirtyRow, e.id) ELSE dirtyRow
      /\ S!Step(t, [task[t] EXCEPT !.step = "row", !.todo = @ \ {e}, !.cur = <<>>])
    BY <1>4 DEF S!AckRow
<1>6. StepsTo(t, "row") /\ task'[t].todo = task[t].todo \ {e} /\ task'[t].cut = task[t].cut
    BY <1>5 DEF S!Step, IsTask, StepsTo, StoreInv, ShapeInv
<1>7. /\ \A u \in S!Tasks : u # t => ~Busy(u) /\ ~Busy(u)' /\ ~OnSettings(u)' /\ ~OnProfiles(u)'
      /\ ~OnSettings(t)' /\ task'[t].step \notin {"ackRow", "delete", "clean"}
    BY <1>2, <1>6, Alone DEF StepsTo, OnSettings
<1>8. /\ Saving(e) /\ \A d \in task[t].cut : d.id \in Ids
      /\ \A f \in task[t].todo : Saving(f) /\ \A g \in task[t].todo : g.id = f.id => g = f
    BY <1>2 DEF StoreInv, ProfilesInv
<1>9. \/ dirtyRow' = dirtyRow
      \/ /\ DOMAIN dirtyRow' = DOMAIN dirtyRow \ {e.id}
         /\ \A i \in DOMAIN dirtyRow' : dirtyRow'[i] = dirtyRow[i]
         /\ S!Has(dirtyRow, e.id) /\ dirtyRow[e.id] = e.revision
    BY <1>5 DEF S!Without, S!Restrict
<1>10. ShapeInv'
    BY <1>1, <1>6, <1>9 DEF StoreInv, ShapeInv, StepsTo
<1>11. FlushInv'
    BY <1>1, <1>2, <1>7 DEF StoreInv, FlushInv
<1>12. ModeInv'
    BY <1>1, <1>6, FlushMode DEF StepsTo
<1>13. S!FilesOutliveRows' /\ S!RulesHaveOwner'
    BY <1>1 DEF StoreInv, S!FilesOutliveRows, S!RulesHaveOwner, S!Has
<1>14. SameInv'
    BY <1>1, <1>3, <1>8, <1>9 DEF StoreInv, SameInv, Same, S!Has, Saving
<1>15. ASSUME NEW f \in task'[t].todo PROVE Saving(f)'
    <2>1. f.id # e.id /\ Saving(f)
        BY <1>6, <1>8
    <2> QED BY <1>1, <1>9, <2>1 DEF Saving, S!Has
<1>16. ProfilesInv'
    BY <1>6, <1>7, <1>8, <1>15 DEF ProfilesInv
<1>17. SettingsInv'
    BY <1>7 DEF SettingsInv
<1> QED BY <1>10, <1>11, <1>12, <1>13, <1>14, <1>16, <1>17 DEF StoreInv

LEMMA BeginRemoveKeeps ==
    ASSUME StoreInv, NEW t \in S!Tasks, S!BeginRemove(t)
    PROVE  StoreInv'
<1>1. /\ task[t].step = "row" /\ task[t].todo = {}
      /\ UNCHANGED <<mode, list, rows, set, rev, stops, reused, dirty, dirtyRow, gone, disk, files, flag>>
    BY DEF S!BeginRemove, S!Cached
<1>2. PICK d \in task[t].cut :
          S!Step(t, [task[t] EXCEPT !.cut = @ \ {d},
                                    !.step = IF S!StillGone(d) THEN "delete" ELSE "row",
                                    !.cur = IF S!StillGone(d) THEN <<d>> ELSE <<>>])
    BY DEF S!BeginRemove
<1>3. OnProfiles(t) /\ Busy(t)
    BY <1>1 DEF OnProfiles, Busy
<1>4. \A c \in task[t].cut : c.id \in Ids
    BY <1>3 DEF StoreInv, ProfilesInv
<1>5. /\ StepsTo(t, IF S!StillGone(d) THEN "delete" ELSE "row")
      /\ task'[t].todo = {} /\ task'[t].cut = task[t].cut \ {d}
      /\ S!StillGone(d) => task'[t].cur = <<d>>
    BY <1>1, <1>2 DEF S!Step, IsTask, StepsTo, StoreInv, ShapeInv
<1>6. \/ task'[t].step = "row"
      \/ task'[t].step = "delete" /\ task'[t].cur[1] = d /\ d.id \in DOMAIN gone
    BY <1>5 DEF StepsTo, S!StillGone, S!Has
<1>7. /\ \A u \in S!Tasks : u # t => ~Busy(u) /\ ~Busy(u)' /\ ~OnSettings(u)' /\ ~OnProfiles(u)'
      /\ ~OnSettings(t)'
    BY <1>3, <1>5, <1>6, Alone DEF OnSettings
<1>8. ShapeInv' /\ SameInv' /\ S!FilesOutliveRows' /\ S!RulesHaveOwner'
    BY <1>1, <1>5 DEF StoreInv, ShapeInv, StepsTo, SameInv, Same, S!Has, S!FilesOutliveRows,
           S!RulesHaveOwner
<1>9. FlushInv'
    BY <1>1, <1>3, <1>7 DEF StoreInv, FlushInv
<1>10. ModeInv'
    BY <1>1, <1>5, FlushMode DEF StepsTo
<1>11. ProfilesInv'
    BY <1>1, <1>4, <1>5, <1>6, <1>7 DEF ProfilesInv
<1>12. SettingsInv'
    BY <1>7 DEF SettingsInv
<1> QED BY <1>8, <1>9, <1>10, <1>11, <1>12 DEF StoreInv

LEMMA DeleteRowKeeps ==
    ASSUME StoreInv, NEW t \in S!Tasks, S!DeleteRow(t)
    PROVE  StoreInv'
<1> DEFINE d == task[t].cur[1]
           remain == {disk'.rows[i].file : i \in DOMAIN disk'.rows}
<1>1. /\ task[t].step = "delete"
      /\ disk' = [rows |-> S!Without(disk.rows, d.id), set |-> S!Without(disk.set, d.id)]
      /\ S!Step(t, [task[t] EXCEPT !.step = "clean", !.cur = <<d, remain>>])
      /\ UNCHANGED <<mode, list, rows, set, rev, stops, reused, dirty, dirtyRow, gone, files, flag>>
    BY DEF S!DeleteRow, S!Cached
<1>2. OnProfiles(t) /\ Busy(t)
    BY <1>1 DEF OnProfiles, Busy
<1>3. /\ d.id \in Ids /\ task[t].todo = {} /\ \A c \in task[t].cut : c.id \in Ids
      /\ d.id \in DOMAIN gone \/ (d.id \in DOMAIN dirtyRow /\ d.id \in reused)
    BY <1>1, <1>2 DEF StoreInv, ProfilesInv
<1>4. /\ StepsTo(t, "clean") /\ task'[t].todo = task[t].todo /\ task'[t].cut = task[t].cut
      /\ task'[t].cur = <<d, remain>>
    BY <1>1 DEF S!Step, IsTask, StepsTo, StoreInv, ShapeInv
<1>5. task'[t].cur[1] = d /\ task'[t].cur[2] = remain
    BY <1>4
<1> HIDE DEF d
<1>6. /\ DOMAIN disk'.rows = DOMAIN disk.rows \ {d.id} /\ DOMAIN disk'.set = DOMAIN disk.set \ {d.id}
      /\ \A i \in DOMAIN disk'.rows : disk'.rows[i] = disk.rows[i]
      /\ \A k \in DOMAIN disk'.set : disk'.set[k] = disk.set[k]
      /\ disk' = [rows |-> disk'.rows, set |-> disk'.set]
    BY <1>1 DEF S!Without, S!Restrict
<1>7. /\ \A u \in S!Tasks : u # t => ~Busy(u) /\ ~Busy(u)' /\ ~OnSettings(u)' /\ ~OnProfiles(u)'
      /\ ~OnSettings(t)' /\ task'[t].step = "clean"
    BY <1>2, <1>4, Alone DEF StepsTo, OnSettings
<1>8. ShapeInv'
    <2>1. S!Without(disk.rows, d.id) \in [DOMAIN disk.rows \ {d.id} -> RowType]
        BY WithoutTyped DEF StoreInv, ShapeInv
    <2>2. disk'.rows \in [DOMAIN disk'.rows -> RowType]
        BY <1>1, <1>6, <2>1
    <2> QED BY <1>1, <1>4, <1>6, <2>2 DEF StoreInv, ShapeInv, StepsTo
<1>9. SameInv'
    BY <1>1, <1>3, <1>6 DEF StoreInv, SameInv, Same, S!Has
<1>10. S!FilesOutliveRows' /\ S!RulesHaveOwner'
    BY <1>1, <1>6 DEF StoreInv, S!FilesOutliveRows, S!RulesHaveOwner, S!Has
<1>11. FlushInv'
    BY <1>1, <1>2, <1>7 DEF StoreInv, FlushInv
<1>12. ModeInv'
    BY <1>1, <1>4, FlushMode DEF StepsTo
<1>13. ProfilesInv'
    BY <1>3, <1>4, <1>5, <1>6, <1>7 DEF ProfilesInv
<1>14. SettingsInv'
    BY <1>7 DEF SettingsInv
<1> QED BY <1>8, <1>9, <1>10, <1>11, <1>12, <1>13, <1>14 DEF StoreInv

LEMMA CleanFileKeeps ==
    ASSUME StoreInv, NEW t \in S!Tasks, S!CleanFile(t)
    PROVE  StoreInv'
<1> DEFINE d == task[t].cur[1]
           referenced == task[t].cur[2] \cup {rows[i].file : i \in DOMAIN rows}
<1>1. /\ task[t].step = "clean"
      /\ \/ UNCHANGED <<files, gone>>
         \/ /\ S!StillGone(d) /\ gone' = S!Without(gone, d.id)
            /\ files' = IF d.del.file \in referenced THEN files ELSE files \ {d.del.file}
      /\ S!Step(t, [task[t] EXCEPT !.step = "row", !.cur = <<>>])
      /\ UNCHANGED <<mode, list, rows, set, rev, stops, reused, dirty, dirtyRow, disk, flag>>
    BY DEF S!CleanFile, S!Cached
<1>2. OnProfiles(t) /\ Busy(t)
    BY <1>1 DEF OnProfiles, Busy
<1>3. /\ d.id \in Ids /\ task[t].todo = {} /\ \A c \in task[t].cut : c.id \in Ids
      /\ d.id \notin DOMAIN disk.rows \cup DOMAIN disk.set
      /\ task[t].cur[2] = {disk.rows[i].file : i \in DOMAIN disk.rows}
    BY <1>1, <1>2 DEF StoreInv, ProfilesInv
<1>4. StepsTo(t, "row") /\ task'[t].todo = {} /\ task'[t].cut = task[t].cut
    BY ZenonT(40), <1>1, <1>3 DEF S!Step, IsTask, StepsTo, StoreInv, ShapeInv
<1>5. /\ \A i \in DOMAIN rows : rows[i].file \in referenced
      /\ \A i \in DOMAIN disk.rows : disk.rows[i].file \in referenced
    BY <1>3
<1>6. \A f \in referenced : f \in files \cup {0} => f \in files' \cup {0}
    BY <1>1
<1> HIDE DEF d, referenced
<1>7. \/ gone' = gone
      \/ DOMAIN gone' = DOMAIN gone \ {d.id} /\ d.id \in DOMAIN gone
    BY <1>1 DEF S!Without, S!Restrict, S!StillGone, S!Has
<1>8. S!FilesOutliveRows' /\ S!RulesHaveOwner'
    BY <1>1, <1>5, <1>6 DEF StoreInv, S!FilesOutliveRows, S!RulesHaveOwner, S!Has
<1>9. /\ \A u \in S!Tasks : u # t => ~Busy(u) /\ ~Busy(u)' /\ ~OnSettings(u)' /\ ~OnProfiles(u)'
      /\ ~OnSettings(t)' /\ task'[t].step = "row"
    BY <1>2, <1>4, Alone DEF StepsTo, OnSettings
<1>10. ShapeInv'
    BY <1>1, <1>4, <1>7 DEF StoreInv, ShapeInv, StepsTo
<1>11. SameInv'
    BY <1>1, <1>3, <1>7 DEF StoreInv, ShapeInv, SameInv, Same, S!Has
<1>12. FlushInv'
    BY <1>1, <1>2, <1>9 DEF StoreInv, FlushInv
<1>13. ModeInv'
    BY <1>1, <1>4, FlushMode DEF StepsTo
<1>14. ProfilesInv'
    BY <1>3, <1>4, <1>9 DEF ProfilesInv
<1>15. SettingsInv'
    BY <1>9 DEF SettingsInv
<1> QED BY <1>8, <1>10, <1>11, <1>12, <1>13, <1>14, <1>15 DEF StoreInv

LEMMA EndOfFlushKeeps ==
    ASSUME StoreInv, NEW t \in S!Tasks, S!Fails(t) \/ S!Finish(t)
    PROVE  StoreInv'
<1>1. /\ Busy(t) /\ task[t].step # "idle"
      /\ UNCHANGED <<mode, list, rows, set, rev, stops, reused, dirty, dirtyRow, gone, disk, files>>
      /\ \E ok \in BOOLEAN : S!Return(t, ok)
    BY DEF S!Fails, S!Finish, S!Cached, Busy, OnSettings, OnProfiles
<1>2. DOMAIN flag' = {"settings", "profiles"}
    BY DEF S!Fails, S!Finish, StoreInv, ShapeInv
<1>3. StepsTo(t, "done")
    <2>1. PICK ok : S!Step(t, [S!Idle EXCEPT !.pc = task[t].pc, !.step = "done", !.ok = ok])
        BY <1>1 DEF S!Return
    <2> DEFINE s == [S!Idle EXCEPT !.pc = task[t].pc, !.step = "done", !.ok = ok]
    <2>2. S!Step(t, s)
        BY <2>1
    <2>3. IsTask(s) /\ s.step = "done" /\ s.pc = task[t].pc
        BY DEF IsTask, S!Idle
    <2> HIDE DEF s
    <2> QED BY <2>2, <2>3, TaskStep DEF StepsTo, StoreInv
<1>4. \A u \in S!Tasks : ~Busy(u)' /\ ~OnSettings(u)' /\ ~OnProfiles(u)'
    BY <1>1, <1>3, Alone DEF StepsTo, Busy, OnSettings, OnProfiles
<1>5. FlushInv' /\ SettingsInv' /\ ProfilesInv'
    BY <1>4 DEF FlushInv, SettingsInv, ProfilesInv
<1>6. ModeInv'
    BY <1>1, <1>3, FlushMode DEF StepsTo
<1>7. ShapeInv' /\ SameInv' /\ S!FilesOutliveRows' /\ S!RulesHaveOwner'
    BY <1>1, <1>2, <1>3 DEF StoreInv, ShapeInv, StepsTo, SameInv, Same, S!Has, S!FilesOutliveRows,
           S!RulesHaveOwner
<1> QED BY <1>5, <1>6, <1>7 DEF StoreInv

LEMMA FlushKeeps ==
    ASSUME StoreInv, NEW t \in S!Tasks, S!Flush(t) \/ S!Fails(t)
    PROVE  StoreInv'
BY FlushSettingsKeeps, SaveSettingKeeps, AckSettingKeeps, FlushProfilesKeeps, SaveProfileRowKeeps,
   AckRowKeeps, BeginRemoveKeeps, DeleteRowKeeps, CleanFileKeeps, EndOfFlushKeeps DEF S!Flush

----------------------------------------------------------------------------
\* The pump, the end of the process, and the next one.

LEMMA Quiet ==
    ASSUME StoreInv, S!Quietly, NEW t \in S!Tasks, ~Busy(t), NEW s, IsTask(s), S!Step(t, s),
           s.step = "idle", ModeInv', UNCHANGED flag
    PROVE  StoreInv'
<1>1. UNCHANGED <<list, rows, set, dirty, dirtyRow, gone, disk, files, flag, rev, errors, stops, reused>>
    BY DEF S!Quietly
<1>2. /\ task'[t] = s /\ \A u \in S!Tasks : u # t => task'[u] = task[u]
      /\ task' = [u \in S!Tasks |-> task'[u]] /\ \A u \in S!Tasks : IsTask(task'[u])
    BY TaskStep DEF StoreInv
<1>3. ~Busy(t)' /\ ~OnSettings(t)' /\ ~OnProfiles(t)'
    BY <1>2 DEF Busy, OnSettings, OnProfiles
<1>4. FlushInv'
    BY <1>1, <1>2, <1>3 DEF StoreInv, FlushInv, Busy, OnSettings, OnProfiles
<1>5. ShapeInv' /\ SameInv' /\ S!FilesOutliveRows' /\ S!RulesHaveOwner'
    BY <1>1, <1>2 DEF StoreInv, ShapeInv, SameInv, Same, S!Has, S!FilesOutliveRows, S!RulesHaveOwner
<1>6. \A e : Setting(e) <=> Setting(e)'
    BY <1>1 DEF Setting, S!Has
<1>7. \A e : Saving(e) <=> Saving(e)'
    BY <1>1 DEF Saving, S!Has
<1>8. ASSUME NEW u \in S!Tasks, u # t
      PROVE  task'[u] = task[u] /\ (OnSettings(u)' <=> OnSettings(u)) /\ (OnProfiles(u)' <=> OnProfiles(u))
    BY <1>2, <1>8 DEF OnSettings, OnProfiles
<1>9. SettingsInv'
    BY <1>1, <1>3, <1>6, <1>8 DEF StoreInv, SettingsInv, S!Has
<1>10. ProfilesInv'
    BY <1>1, <1>3, <1>7, <1>8 DEF StoreInv, ProfilesInv, S!Has
<1> QED BY <1>4, <1>5, <1>9, <1>10 DEF StoreInv

LEMMA PumpKeeps ==
    ASSUME StoreInv, S!Pump
    PROVE  StoreInv'
<1>1. PICK pc \in {"settings", "profiles", "rest"} : S!Goto("pump", pc)
    BY DEF S!Pump
<1> DEFINE s == [S!Idle EXCEPT !.pc = pc]
<1>2. /\ "pump" \in S!Tasks /\ ~Busy("pump") /\ mode' = mode /\ mode # "down" /\ S!Quietly
    BY DEF S!Pump, S!At, Busy, OnSettings, OnProfiles, S!Tasks, StoreInv, ModeInv
<1>3. IsTask(s) /\ s.step = "idle" /\ S!Step("pump", s) /\ UNCHANGED flag
    BY <1>1, <1>2 DEF IsTask, S!Idle, S!Goto, S!Quietly
<1>4. \A u \in S!Tasks : u # "pump" => task'[u] = task[u]
    BY <1>2, <1>3, TaskStep DEF StoreInv
<1>5. ModeInv'
    BY <1>2, <1>4 DEF StoreInv, ModeInv, S!Tasks
<1> HIDE DEF s
<1> QED BY <1>2, <1>3, <1>5, Quiet

LEMMA EndKeeps ==
    ASSUME StoreInv, S!End
    PROVE  StoreInv'
<1>1. /\ "end" \in S!Tasks /\ ~Busy("end") /\ S!Quietly /\ mode # "down"
      /\ IsTask(task["end"]) /\ UNCHANGED flag
    BY DEF S!End, S!Exit, S!Freeze, S!Install, S!Resume, S!At, Busy, OnSettings, OnProfiles, S!Tasks,
           StoreInv, ModeInv, ShapeInv, S!Quietly
<1>2. PICK s : /\ IsTask(s) /\ s.step = "idle" /\ S!Step("end", s)
               /\ mode' \in {"open", "frozen", "handed"}
               /\ s.pc \in {"settings", "profiles", "stop"} => mode' = "open"
               /\ s.pc \in {"settings2", "profiles2"} => mode' = "frozen"
    <2>1. CASE S!Exit
        <3>1. CASE S!Step("end", [S!Idle EXCEPT !.pc = "settings"]) /\ mode = "open" /\ mode' = mode
            <4>1. LET s == [S!Idle EXCEPT !.pc = "settings"] IN IsTask(s) /\ s.step = "idle" /\ s.pc = "settings"
                BY DEF IsTask, S!Idle
            <4> QED BY <3>1, <4>1
        <3>2. CASE /\ S!At("end", {"settings"}, "done") /\ mode' = mode
                   /\ S!Step("end", [task["end"] EXCEPT !.pc = "profiles", !.step = "idle"])
            <4>1. LET s == [task["end"] EXCEPT !.pc = "profiles", !.step = "idle"]
                  IN  IsTask(s) /\ s.step = "idle" /\ s.pc = "profiles"
                BY <1>1 DEF IsTask
            <4>2. mode = "open"
                BY <3>2 DEF S!At, StoreInv, ModeInv
            <4> QED BY <3>2, <4>1, <4>2
        <3> QED BY <2>1, <3>1, <3>2 DEF S!Exit
    <2>2. ASSUME NEW pc, S!Goto("end", pc)
          PROVE  \E s : IsTask(s) /\ s.step = "idle" /\ s.pc = pc /\ S!Step("end", s)
        <3>1. LET s == [S!Idle EXCEPT !.pc = pc] IN IsTask(s) /\ s.step = "idle" /\ s.pc = pc
            BY DEF IsTask, S!Idle
        <3> QED BY <2>2, <3>1 DEF S!Goto
    <2>3. CASE S!Freeze
        <3>1. CASE S!At("end", {"profiles"}, "done") /\ mode' = mode /\ S!Goto("end", "stop")
            BY <2>2, <3>1 DEF S!At, StoreInv, ModeInv
        <3>2. CASE mode' = "frozen" /\ S!Goto("end", "settings2")
            BY <2>2, <3>2
        <3> QED BY <2>3, <3>1, <3>2 DEF S!Freeze
    <2>4. CASE S!Install
        <3>1. CASE /\ S!At("end", {"settings2"}, "done") /\ mode' = mode
                   /\ S!Step("end", [task["end"] EXCEPT !.pc = "profiles2", !.step = "idle"])
            <4>1. LET s == [task["end"] EXCEPT !.pc = "profiles2", !.step = "idle"]
                  IN  IsTask(s) /\ s.step = "idle" /\ s.pc = "profiles2"
                BY <1>1 DEF IsTask
            <4>2. mode = "frozen"
                BY <3>1 DEF S!At, StoreInv, ModeInv
            <4> QED BY <3>1, <4>1, <4>2
        <3>2. CASE mode' = "handed" /\ S!Goto("end", "quit")
            BY <2>2, <3>2
        <3> QED BY <2>4, <3>1, <3>2 DEF S!Install
    <2>5. CASE S!Resume
        BY <2>2, <2>5 DEF S!Resume
    <2> QED BY <2>1, <2>3, <2>4, <2>5 DEF S!End
<1>3. task'["end"] = s /\ \A u \in S!Tasks : u # "end" => task'[u] = task[u]
    BY <1>1, <1>2, TaskStep DEF StoreInv
<1>4. ModeInv'
    BY <1>2, <1>3 DEF ModeInv
<1> QED BY <1>1, <1>2, <1>4, Quiet

LEMMA Nobody == S!Nothing = <<>> /\ DOMAIN S!Nothing = {}
BY DEF S!Nothing

LEMMA AtRest ==
    ASSUME task' = [t \in S!Tasks |-> S!Idle]
    PROVE  /\ \A t \in S!Tasks : ~Busy(t)' /\ ~OnSettings(t)' /\ ~OnProfiles(t)'
           /\ \A t \in S!Tasks : IsTask(task'[t]) /\ task'[t].step = "idle" /\ task'[t].pc = "rest"
           /\ task' = [t \in S!Tasks |-> task'[t]] /\ FlushInv' /\ SettingsInv' /\ ProfilesInv'
<1>1. \A t \in S!Tasks : task'[t] = S!Idle
    OBVIOUS
<1>2. IsTask(S!Idle) /\ S!Idle.step = "idle" /\ S!Idle.pc = "rest"
    BY DEF IsTask, S!Idle
<1>3. task' = [t \in S!Tasks |-> task'[t]]
    OBVIOUS
<1>4. \A t \in S!Tasks : ~Busy(t)' /\ ~OnSettings(t)' /\ ~OnProfiles(t)'
    BY <1>1, <1>2 DEF Busy, OnSettings, OnProfiles
<1>5. FlushInv' /\ SettingsInv' /\ ProfilesInv'
    BY <1>4 DEF FlushInv, SettingsInv, ProfilesInv
<1> QED BY <1>1, <1>2, <1>3, <1>4, <1>5

LEMMA StopKeeps ==
    ASSUME StoreInv, S!Stop
    PROVE  StoreInv'
<1>1. /\ rows' = disk.rows /\ set' = disk.set /\ DOMAIN dirty' = {} /\ DOMAIN dirtyRow' = {}
      /\ DOMAIN gone' = {} /\ task' = [t \in S!Tasks |-> S!Idle] /\ mode' = "down"
      /\ UNCHANGED <<disk, files, rev, reused>>
      /\ DOMAIN flag' = {"settings", "profiles"}
    BY Nobody DEF S!Stop
<1>2. ShapeInv'
    BY <1>1, AtRest DEF StoreInv, ShapeInv
<1>3. ModeInv'
    BY <1>1, AtRest DEF ModeInv, S!Tasks
<1>4. SameInv' /\ S!FilesOutliveRows' /\ S!RulesHaveOwner'
    BY <1>1 DEF StoreInv, SameInv, Same, S!Has, S!FilesOutliveRows, S!RulesHaveOwner
<1> QED BY <1>1, <1>2, <1>3, <1>4, AtRest DEF StoreInv

LEMMA OpenKeeps ==
    ASSUME StoreInv, S!Open
    PROVE  StoreInv'
<1>1. /\ mode = "down" /\ mode' = "open" /\ rows' = disk.rows
      /\ DOMAIN set' = DOMAIN disk.set \cup DOMAIN dirty
      /\ \A k \in DOMAIN set' : set'[k] = IF S!Has(dirty, k) THEN set[k] ELSE disk.set[k]
      /\ DOMAIN dirtyRow' = {} /\ DOMAIN gone' = {}
      /\ UNCHANGED <<dirty, disk, files, task, flag, rev, reused>>
    BY Nobody DEF S!Open
<1>2. \A t \in S!Tasks : task[t].step = "idle" /\ task[t].pc = "rest"
    BY <1>1 DEF StoreInv, ModeInv
<1>3. \A t \in S!Tasks : ~Busy(t)' /\ ~OnSettings(t)' /\ ~OnProfiles(t)'
    BY <1>1, <1>2 DEF Busy, OnSettings, OnProfiles
<1>4. FlushInv' /\ SettingsInv' /\ ProfilesInv'
    BY <1>3 DEF FlushInv, SettingsInv, ProfilesInv
<1>5. ModeInv'
    BY <1>1, <1>2 DEF ModeInv, S!Tasks
<1>6. ShapeInv'
    BY <1>1 DEF StoreInv, ShapeInv
<1>7. SameInv' /\ S!FilesOutliveRows' /\ S!RulesHaveOwner'
    BY <1>1 DEF StoreInv, ShapeInv, SameInv, Same, S!Has, S!FilesOutliveRows, S!RulesHaveOwner
<1> QED BY <1>4, <1>5, <1>6, <1>7 DEF StoreInv

LEMMA InitHolds ==
    ASSUME S!Init
    PROVE  StoreInv
<1> USE KeysApart
<1>1. 1 \in Ids /\ 2 \in Ids
    BY IdsAreNumbers
<1> DEFINE first == S!Put(S!Nothing, 1, [file |-> 1, selected |-> TRUE, version |-> 0])
           second == [file |-> 1, selected |-> FALSE, version |-> 0]
           two == S!Put(first, 2, second)
           rules == S!Put(S!Put(S!Nothing, S!Order, <<2, 1>>), 2, <<0>>)
<1>2. \/ disk = [rows |-> two, set |-> rules]
      \/ disk = [rows |-> first, set |-> S!Nothing]
    BY DEF S!Init
<1>3. /\ files = {1} /\ mode = "down" /\ rows = disk.rows /\ set = disk.set
      /\ DOMAIN dirty = {} /\ DOMAIN dirtyRow = {} /\ DOMAIN gone = {} /\ reused = {} /\ rev = 0
      /\ task = [t \in S!Tasks |-> S!Idle] /\ flag = [settings |-> FALSE, profiles |-> FALSE]
    BY Nobody DEF S!Init
<1>4. DOMAIN first = {1} /\ first[1] = [file |-> 1, selected |-> TRUE, version |-> 0]
    BY Nobody DEF S!Put
<1>5. DOMAIN two = {1, 2} /\ two[1] = first[1] /\ two[2] = second
    BY <1>4 DEF S!Put
<1>6. DOMAIN rules = {S!Order, 2}
    BY Nobody DEF S!Put
<1>7. first \in [DOMAIN first -> RowType] /\ two \in [DOMAIN two -> RowType]
    <2>1. first[1] \in RowType /\ second \in RowType
        <3>1. \A b \in BOOLEAN : [file |-> 1, selected |-> b, version |-> 0] \in RowType
            BY <1>1, BoundsAreNumbers DEF RowType, S!Revisions
        <3> QED BY <1>4, <3>1
    <2>2. first = [x \in DOMAIN first |-> first[x]] /\ two = [x \in DOMAIN two |-> two[x]]
        BY <1>4, <1>5 DEF S!Put
    <2> HIDE DEF first, two, second
    <2> QED BY <1>4, <1>5, <2>1, <2>2
<1>8. DOMAIN first \subseteq DOMAIN two /\ first[1].file = 1 /\ second.file = 1
    BY <1>4, <1>5
<1> HIDE DEF first, two, second, rules
<1>9. /\ DOMAIN disk.rows \subseteq Ids /\ disk.rows \in [DOMAIN disk.rows -> RowType]
      /\ disk = [rows |-> disk.rows, set |-> disk.set] /\ DOMAIN disk.set \subseteq S!Keys
      /\ \A i \in DOMAIN disk.rows : disk.rows[i].file = 1
      /\ \A i \in Ids : i \in DOMAIN disk.set => i \in DOMAIN disk.rows
    BY <1>1, <1>2, <1>4, <1>5, <1>6, <1>7, <1>8, Nobody
<1>10. /\ \A t \in S!Tasks : IsTask(task[t]) /\ task[t].step = "idle" /\ task[t].pc = "rest"
       /\ task = [t \in S!Tasks |-> task[t]]
    BY <1>3 DEF IsTask, S!Idle
<1>11. ShapeInv
    BY <1>1, <1>3, <1>9, <1>10, BoundsAreNumbers DEF ShapeInv, S!Revisions
<1>12. \A t \in S!Tasks : ~Busy(t) /\ ~OnSettings(t) /\ ~OnProfiles(t)
    BY <1>10 DEF Busy, OnSettings, OnProfiles
<1>13. FlushInv /\ SettingsInv /\ ProfilesInv
    BY <1>12 DEF FlushInv, SettingsInv, ProfilesInv
<1>14. ModeInv
    BY <1>3, <1>10 DEF ModeInv, S!Tasks
<1>15. SameInv /\ S!FilesOutliveRows /\ S!RulesHaveOwner
    BY <1>3, <1>9 DEF SameInv, Same, S!Has, S!FilesOutliveRows, S!RulesHaveOwner
<1> QED BY <1>11, <1>13, <1>14, <1>15 DEF StoreInv

LEMMA StutterKeeps ==
    ASSUME StoreInv, UNCHANGED S!vars
    PROVE  StoreInv'
<1> USE DEF S!vars
<1>1. ShapeInv' /\ FlushInv' /\ ModeInv'
    BY DEF StoreInv, ShapeInv, FlushInv, Busy, OnSettings, OnProfiles, ModeInv
<1>2. SameInv' /\ S!FilesOutliveRows' /\ S!RulesHaveOwner'
    BY DEF StoreInv, SameInv, Same, S!Has, S!FilesOutliveRows, S!RulesHaveOwner
<1>3. SettingsInv'
    BY DEF StoreInv, SettingsInv, Setting, OnSettings, S!Has
<1>4. ProfilesInv'
    BY DEF StoreInv, ProfilesInv, Saving, OnProfiles, S!Has
<1> QED BY <1>1, <1>2, <1>3, <1>4 DEF StoreInv

LEMMA StoreStep ==
    ASSUME StoreInv, [S!Next]_(S!vars)
    PROVE  StoreInv'
<1>1. CASE S!Mutate    BY <1>1, MutateKeeps
<1>2. CASE S!Work      BY <1>2, PumpKeeps, FlushKeeps DEF S!Work
<1>3. CASE \E t \in S!Tasks : S!Fails(t)    BY <1>3, FlushKeeps
<1>4. CASE S!End       BY <1>4, EndKeeps
<1>5. CASE S!Stop      BY <1>5, StopKeeps
<1>6. CASE S!Open      BY <1>6, OpenKeeps
<1>7. CASE UNCHANGED S!vars    BY <1>7, StutterKeeps
<1> QED BY <1>1, <1>2, <1>3, <1>4, <1>5, <1>6, <1>7 DEF S!Next

----------------------------------------------------------------------------
\* The store implements the abstract one.

Mem == S!View(rows, set)
Dsk == S!View(disk.rows, disk.set)
Pend == ((DOMAIN dirty \cup DOMAIN gone) \ reused) \cup
            {S!RowEntry(i) : i \in DOMAIN dirtyRow \cup DOMAIN gone}
AllEntries == S!Keys \cup {S!RowEntry(i) : i \in Ids}

\* What is to be saved, what need not be, and the shape of it all, in these terms.
PendFacts ==
    /\ \A k \in S!Keys : k \in Pend <=> k \in (DOMAIN dirty \cup DOMAIN gone) \ reused
    /\ \A i \in Ids : S!RowEntry(i) \in Pend <=> i \in DOMAIN dirtyRow \cup DOMAIN gone
    /\ Pend \subseteq AllEntries \ reused
CleanFacts == \A k \in AllEntries \ reused : k \notin Pend => Mem[k] = Dsk[k]
ShownFacts ==
    /\ DOMAIN Mem = AllEntries /\ DOMAIN Dsk = AllEntries
    /\ Mem = [k \in AllEntries |-> Mem[k]] /\ Dsk = [k \in AllEntries |-> Dsk[k]]

LEMMA RowEntries ==
    \A i \in Ids : /\ S!RowEntry(i) \notin S!Keys /\ S!RowEntry(i) - S!Cardinality(Ids) = i
                   /\ \A j \in Ids : S!RowEntry(i) = S!RowEntry(j) => i = j
<1>1. S!Cardinality(Ids) = Cardinality(Ids)
    BY DEF S!Cardinality, Cardinality
<1>2. \A i \in Ids : S!RowEntry(i) = Cardinality(Ids) + i
    BY <1>1 DEF S!RowEntry
<1> QED BY <1>1, <1>2, IdsAreNumbers DEF S!Keys, S!Order, S!Plain

LEMMA ViewIs ==
    ASSUME NEW r, NEW s, DOMAIN r \subseteq Ids
    PROVE  /\ DOMAIN S!View(r, s) = AllEntries /\ S!View(r, s) = [k \in AllEntries |-> S!View(r, s)[k]]
           /\ \A k \in S!Keys : S!View(r, s)[k] = IF S!Has(s, k) THEN <<s[k]>> ELSE <<>>
           /\ \A i \in Ids : S!View(r, s)[S!RowEntry(i)] = IF S!Has(r, i) THEN <<r[i]>> ELSE <<>>
<1>1. DOMAIN S!View(r, s) = AllEntries /\ S!View(r, s) = [k \in AllEntries |-> S!View(r, s)[k]]
    BY DEF S!View, AllEntries
<1>2. \A k \in S!Keys : S!View(r, s)[k] = IF S!Has(s, k) THEN <<s[k]>> ELSE <<>>
    BY DEF S!View
<1>3. ASSUME NEW i \in Ids
      PROVE  S!View(r, s)[S!RowEntry(i)] = IF S!Has(r, i) THEN <<r[i]>> ELSE <<>>
    <2>1. S!RowEntry(i) \notin S!Keys /\ S!RowEntry(i) - S!Cardinality(Ids) = i
        BY RowEntries
    <2>2. (\E j \in DOMAIN r : S!RowEntry(j) = S!RowEntry(i)) <=> S!Has(r, i)
        BY RowEntries DEF S!Has
    <2>3. S!View(r, s)[S!RowEntry(i)] =
                IF \E j \in DOMAIN r : S!RowEntry(j) = S!RowEntry(i)
                THEN <<r[S!RowEntry(i) - S!Cardinality(Ids)]>> ELSE <<>>
        BY <2>1 DEF S!View
    <2> QED BY <2>1, <2>2, <2>3
<1> QED BY <1>1, <1>2, <1>3

LEMMA PendIs ==
    ASSUME ShapeInv
    PROVE  PendFacts
<1>1. DOMAIN dirty \cup DOMAIN gone \cup reused \subseteq S!Keys /\ DOMAIN dirtyRow \cup DOMAIN gone \cup reused \subseteq Ids
    BY DEF ShapeInv, S!Keys
<1> QED BY <1>1, RowEntries DEF PendFacts, Pend, AllEntries

LEMMA CleanIs ==
    ASSUME StoreInv
    PROVE  CleanFacts
<1>1. DOMAIN rows \subseteq Ids /\ DOMAIN disk.rows \subseteq Ids /\ ShapeInv
    BY DEF StoreInv, ShapeInv
<1>2. /\ \A k \in S!Keys : /\ Mem[k] = IF S!Has(set, k) THEN <<set[k]>> ELSE <<>>
                          /\ Dsk[k] = IF S!Has(disk.set, k) THEN <<disk.set[k]>> ELSE <<>>
      /\ \A i \in Ids : /\ Mem[S!RowEntry(i)] = IF S!Has(rows, i) THEN <<rows[i]>> ELSE <<>>
                       /\ Dsk[S!RowEntry(i)] = IF S!Has(disk.rows, i) THEN <<disk.rows[i]>> ELSE <<>>
    BY <1>1, ViewIs DEF Mem, Dsk
<1>3. ASSUME NEW k \in S!Keys \ reused, k \notin Pend PROVE Mem[k] = Dsk[k]
    <2>1. Same(set, disk.set, k)
        BY <1>1, <1>3, PendIs DEF PendFacts, StoreInv, SameInv
    <2> QED BY <1>2, <2>1 DEF Same
<1>4. ASSUME NEW i \in Ids, S!RowEntry(i) \notin Pend PROVE Mem[S!RowEntry(i)] = Dsk[S!RowEntry(i)]
    <2>1. Same(rows, disk.rows, i)
        BY <1>1, <1>4, PendIs DEF PendFacts, StoreInv, SameInv
    <2> QED BY <1>2, <2>1 DEF Same
<1> QED BY <1>3, <1>4 DEF AllEntries, CleanFacts

LEMMA Shown ==
    ASSUME StoreInv
    PROVE  ShownFacts
BY ViewIs DEF StoreInv, ShapeInv, Mem, Dsk, ShownFacts

LEMMA FactsHold ==
    /\ StoreInv => PendFacts /\ CleanFacts /\ ShownFacts
    /\ StoreInv' => PendFacts' /\ CleanFacts' /\ ShownFacts'
<1>1. StoreInv => PendFacts /\ CleanFacts /\ ShownFacts
    BY PendIs, CleanIs, Shown DEF StoreInv
<1> QED BY <1>1, PTL

\* The abstract actions, in these terms.
ChangeA ==
    /\ mode \in {"down", "open"} /\ mode' = mode /\ Dsk' = Dsk
    /\ DOMAIN Mem' = DOMAIN Mem /\ reused \subseteq reused'
    /\ \A k \in DOMAIN Mem \ reused' : Mem'[k] # Mem[k] => k \in Pend'
    /\ Pend \cap (DOMAIN Mem \ reused') \subseteq Pend'
SaveA ==
    /\ UNCHANGED <<mode, Mem, Pend, reused>> /\ DOMAIN Dsk' = DOMAIN Mem
    /\ \A k \in DOMAIN Mem \ reused' : Dsk'[k] # Dsk[k] => k \in Pend
ConfirmA ==
    /\ UNCHANGED <<mode, Mem, Dsk, reused>> /\ Pend' \subseteq Pend
    /\ \A k \in Pend \ Pend' : Dsk[k] = Mem[k]
FreezeA == mode = "open" /\ mode' = "frozen" /\ UNCHANGED <<Mem, Dsk, Pend, reused>>
ResumeA == mode = "frozen" /\ mode' = "open" /\ UNCHANGED <<Mem, Dsk, Pend, reused>>
HandA == mode = "frozen" /\ Pend = {} /\ mode' = "handed" /\ UNCHANGED <<Mem, Dsk, Pend, reused>>
StopA == mode' = "down" /\ Dsk' = Dsk /\ Mem' = Dsk /\ Pend' = {} /\ reused' = reused
OpenA ==
    /\ mode = "down" /\ mode' = "open" /\ UNCHANGED <<Dsk, Pend, reused>>
    /\ \A k \in DOMAIN Mem : Mem'[k] = IF k \in Pend THEN Mem[k] ELSE Dsk[k]
RestA == UNCHANGED <<Mem, Dsk, Pend, reused, mode>>
NextA == \/ ChangeA \/ SaveA \/ ConfirmA \/ FreezeA \/ ResumeA \/ HandA \/ StopA \/ OpenA \/ RestA

LEMMA NextIs == NextA => [S!Abstract!Next]_(S!Abstract!vars)
<1> USE DEF S!Abstract!Entries, S!Abstract!Kept
<1>1. ChangeA => S!Abstract!Change    BY DEF ChangeA, S!Abstract!Change, Mem, Dsk, Pend
<1>2. SaveA => S!Abstract!Save        BY DEF SaveA, S!Abstract!Save, Mem, Dsk, Pend
<1>3. ConfirmA => S!Abstract!Confirm  BY DEF ConfirmA, S!Abstract!Confirm, Mem, Dsk, Pend
<1>4. FreezeA => S!Abstract!Freeze    BY DEF FreezeA, S!Abstract!Freeze, Mem, Dsk, Pend
<1>5. ResumeA => S!Abstract!Resume    BY DEF ResumeA, S!Abstract!Resume, Mem, Dsk, Pend
<1>6. HandA => S!Abstract!Hand        BY DEF HandA, S!Abstract!Hand, Mem, Dsk, Pend
<1>7. StopA => S!Abstract!Stop        BY DEF StopA, S!Abstract!Stop, Mem, Dsk, Pend
<1>8. OpenA => S!Abstract!Open        BY DEF OpenA, S!Abstract!Open, Mem, Dsk, Pend
<1>9. RestA => UNCHANGED S!Abstract!vars    BY DEF RestA, S!Abstract!vars, Mem, Dsk, Pend
<1> QED BY <1>1, <1>2, <1>3, <1>4, <1>5, <1>6, <1>7, <1>8, <1>9 DEF NextA, S!Abstract!Next

LEMMA FlushImplements ==
    ASSUME StoreInv, StoreInv', NEW t \in S!Tasks, S!Flush(t) \/ S!Fails(t)
    PROVE  NextA
<1> USE FactsHold DEF PendFacts, CleanFacts, ShownFacts
<1>1. UNCHANGED <<mode, rows, set, reused>>
    BY DEF S!Flush, S!Fails, S!FlushSettings, S!SaveSetting, S!AckSetting, S!FlushProfiles, S!SaveProfileRow,
           S!AckRow, S!BeginRemove, S!DeleteRow, S!CleanFile, S!Finish, S!Cached
<1>2. \/ UNCHANGED <<dirty, dirtyRow, gone>>
      \/ /\ disk' = disk /\ DOMAIN dirty' \subseteq DOMAIN dirty
         /\ DOMAIN dirtyRow' \subseteq DOMAIN dirtyRow /\ DOMAIN gone' \subseteq DOMAIN gone
    <2>1. CASE S!AckSetting(t)    BY <2>1 DEF S!AckSetting, S!Cached, S!Without, S!Restrict
    <2>2. CASE S!AckRow(t)        BY <2>2 DEF S!AckRow, S!Cached, S!Without, S!Restrict
    <2>3. CASE S!CleanFile(t)     BY <2>3 DEF S!CleanFile, S!Cached, S!Without, S!Restrict
    <2>4. CASE \/ S!FlushSettings(t) \/ S!SaveSetting(t) \/ S!FlushProfiles(t) \/ S!SaveProfileRow(t)
               \/ S!BeginRemove(t) \/ S!DeleteRow(t) \/ S!Finish(t) \/ S!Fails(t)
        BY <2>4 DEF S!FlushSettings, S!SaveSetting, S!FlushProfiles, S!SaveProfileRow, S!BeginRemove,
                    S!DeleteRow, S!Finish, S!Fails, S!Cached
    <2> QED BY <2>1, <2>2, <2>3, <2>4 DEF S!Flush
<1>3. Mem' = Mem
    BY <1>1 DEF Mem
<1>4. CASE UNCHANGED <<dirty, dirtyRow, gone>>
    <2>1. Pend' = Pend
        BY <1>1, <1>4 DEF Pend
    <2>2. \A k \in DOMAIN Mem \ reused' : Dsk'[k] # Dsk[k] => k \in Pend
        BY <1>1, <1>3, <2>1
    <2> QED BY <1>1, <1>3, <2>1, <2>2 DEF SaveA, NextA
<1>5. CASE /\ disk' = disk /\ DOMAIN dirty' \subseteq DOMAIN dirty
           /\ DOMAIN dirtyRow' \subseteq DOMAIN dirtyRow /\ DOMAIN gone' \subseteq DOMAIN gone
    <2>1. Dsk' = Dsk
        BY <1>5 DEF Dsk
    <2>2. Pend' \subseteq Pend
        BY <1>1, <1>5 DEF Pend
    <2>3. Pend \subseteq AllEntries \ reused
        OBVIOUS
    <2>4. \A k \in Pend \ Pend' : Dsk[k] = Mem[k]
        BY <1>1, <1>3, <2>1, <2>3
    <2> QED BY <1>1, <1>3, <2>1, <2>2, <2>4 DEF ConfirmA, NextA
<1> QED BY <1>2, <1>4, <1>5

LEMMA MutateImplements ==
    ASSUME StoreInv, StoreInv', S!Mutate
    PROVE  NextA
<1> USE FactsHold DEF PendFacts, CleanFacts, ShownFacts
<1>1. mode \in {"down", "open"} /\ mode' = mode
    BY DEF S!Mutate, S!SetSetting, S!SaveNew, S!SaveRow, S!SetSelected, S!DeleteProfile, S!SetProfileOrder,
           S!Writable
<1>2. Mutates
    BY MutateKeeps
<1>3. Dsk' = Dsk /\ reused \subseteq reused'
    BY <1>2 DEF Mutates, Dsk
<1>4. ASSUME NEW k \in S!Keys \ reused', k \in Pend PROVE k \in Pend'
    <2>1. k \in DOMAIN dirty \cup DOMAIN gone
        BY <1>4
    <2>2. k \in DOMAIN dirty' \cup DOMAIN gone'
        BY <1>2, <1>4, <2>1 DEF Mutates, Same, S!Has
    <2> QED BY <1>4, <2>2
<1>5. ASSUME NEW i \in Ids, S!RowEntry(i) \in Pend PROVE S!RowEntry(i) \in Pend'
    <2>1. i \in DOMAIN dirtyRow \cup DOMAIN gone
        BY <1>5
    <2>2. i \in DOMAIN dirtyRow' \cup DOMAIN gone'
        BY <1>2, <2>1 DEF Mutates, Same, S!Has
    <2> QED BY <2>2
<1>6. Pend \cap (DOMAIN Mem \ reused') \subseteq Pend'
    BY <1>4, <1>5 DEF AllEntries
<1>7. \A k \in DOMAIN Mem \ reused' : Mem'[k] # Mem[k] => k \in Pend'
    BY <1>3, <1>6
<1> QED BY <1>1, <1>3, <1>6, <1>7 DEF ChangeA, NextA

LEMMA EndImplements ==
    ASSUME StoreInv, S!End \/ S!Pump
    PROVE  NextA
<1>1. UNCHANGED <<Mem, Dsk, Pend, reused>>
    BY DEF S!End, S!Exit, S!Freeze, S!Install, S!Resume, S!Pump, S!Quietly, Mem, Dsk, Pend
<1>2. \/ mode' = mode \/ (mode = "open" /\ mode' = "frozen") \/ (mode = "frozen" /\ mode' = "open")
      \/ mode = "frozen" /\ mode' = "handed" /\ ~S!Pending
    BY DEF S!End, S!Exit, S!Freeze, S!Install, S!Resume, S!Pump, S!At, StoreInv, ModeInv
<1>3. ~S!Pending => Pend = {}
    BY DEF S!Pending, Pend
<1> QED BY <1>1, <1>2, <1>3 DEF NextA, RestA, FreezeA, ResumeA, HandA

LEMMA StopImplements ==
    ASSUME S!Stop
    PROVE  NextA
<1>1. /\ rows' = disk.rows /\ set' = disk.set /\ UNCHANGED <<disk, reused>> /\ mode' = "down"
      /\ DOMAIN dirty' = {} /\ DOMAIN dirtyRow' = {} /\ DOMAIN gone' = {}
    BY Nobody DEF S!Stop
<1>2. Mem' = Dsk /\ Dsk' = Dsk
    BY <1>1 DEF Mem, Dsk
<1>3. Pend' = {}
    BY <1>1 DEF Pend
<1> QED BY <1>1, <1>2, <1>3 DEF NextA, StopA

LEMMA OpenImplements ==
    ASSUME StoreInv, StoreInv', S!Open
    PROVE  NextA
<1>1. /\ mode = "down" /\ mode' = "open" /\ rows' = disk.rows
      /\ DOMAIN set' = DOMAIN disk.set \cup DOMAIN dirty
      /\ \A k \in DOMAIN set' : set'[k] = IF S!Has(dirty, k) THEN set[k] ELSE disk.set[k]
      /\ DOMAIN dirtyRow' = {} /\ DOMAIN gone' = {}
      /\ UNCHANGED <<dirty, disk, reused>>
    BY Nobody DEF S!Open
<1>2. DOMAIN dirtyRow = {} /\ DOMAIN gone = {} /\ DOMAIN dirty \subseteq {S!Plain} /\ rows = disk.rows
    BY <1>1 DEF StoreInv, ModeInv
<1>3. Dsk' = Dsk /\ Pend' = Pend
    BY <1>1, <1>2 DEF Dsk, Pend
<1>4. Pend = DOMAIN dirty /\ DOMAIN dirty \subseteq S!Keys /\ DOMAIN dirty \subseteq DOMAIN set
    BY ZenonT(40), <1>2, KeysApart DEF Pend, StoreInv, ShapeInv
<1>5. ASSUME NEW k \in S!Keys PROVE Mem'[k] = IF k \in Pend THEN Mem[k] ELSE Dsk[k]
    <2>1. Mem'[k] = IF S!Has(set', k) THEN <<set'[k]>> ELSE <<>>
        BY <1>1, ViewIs DEF Mem, StoreInv, ShapeInv
    <2>2. /\ Mem[k] = IF S!Has(set, k) THEN <<set[k]>> ELSE <<>>
          /\ Dsk[k] = IF S!Has(disk.set, k) THEN <<disk.set[k]>> ELSE <<>>
        BY ViewIs DEF Mem, Dsk, StoreInv, ShapeInv
    <2> QED BY <1>1, <1>4, <2>1, <2>2 DEF S!Has
<1>6. ASSUME NEW i \in Ids
      PROVE  Mem'[S!RowEntry(i)] = IF S!RowEntry(i) \in Pend THEN Mem[S!RowEntry(i)] ELSE Dsk[S!RowEntry(i)]
    <2>1. Mem'[S!RowEntry(i)] = IF S!Has(rows', i) THEN <<rows'[i]>> ELSE <<>>
        BY <1>1, ViewIs DEF Mem, StoreInv, ShapeInv
    <2>2. Dsk[S!RowEntry(i)] = IF S!Has(disk.rows, i) THEN <<disk.rows[i]>> ELSE <<>>
        BY ViewIs DEF Dsk, StoreInv, ShapeInv
    <2>3. S!RowEntry(i) \notin Pend
        BY <1>4, RowEntries
    <2> QED BY <1>1, <2>1, <2>2, <2>3
<1>7. \A k \in DOMAIN Mem : Mem'[k] = IF k \in Pend THEN Mem[k] ELSE Dsk[k]
    BY <1>5, <1>6, FactsHold DEF AllEntries, ShownFacts
<1> QED BY <1>1, <1>3, <1>7 DEF NextA, OpenA

LEMMA StepImplements ==
    ASSUME StoreInv, [S!Next]_(S!vars)
    PROVE  NextA
<1>1. StoreInv'
    BY StoreStep
<1>2. CASE S!Mutate    BY <1>1, <1>2, MutateImplements
<1>3. CASE S!Work      BY <1>1, <1>3, EndImplements, FlushImplements DEF S!Work
<1>4. CASE \E t \in S!Tasks : S!Fails(t)    BY <1>1, <1>4, FlushImplements
<1>5. CASE S!End       BY <1>5, EndImplements
<1>6. CASE S!Stop      BY <1>6, StopImplements
<1>7. CASE S!Open      BY <1>1, <1>7, OpenImplements
<1>8. CASE UNCHANGED S!vars
    BY <1>8 DEF S!vars, NextA, RestA, Mem, Dsk, Pend
<1> QED BY <1>2, <1>3, <1>4, <1>5, <1>6, <1>7, <1>8 DEF S!Next

----------------------------------------------------------------------------
\* The lease of the system proxy.  A desktop that points at this program has a lease, and
\* the lease owes what the desktop had, unless a crash lost the lease of that very take.

OwedInv ==
    P!Ours(os) /\ ~lost =>
        /\ lease # <<>> /\ lease[1].applied = os
        /\ lease[1].original = owed /\ ~P!Ours(owed)
LostInv == lost => P!Ours(os)
CleanInv == up = "clean" /\ P!Ours(os) => lost
LeaseInv == P!TypeOK /\ OwedInv /\ LostInv /\ CleanInv

LEMMA ValuesApart ==
    /\ \A p \in Ports : <<"manual", p>> \in P!OursValues
    /\ \A k \in P!Kinds, p \in Ports : <<k, p>> \in P!OursValues
    /\ P!OursValues \subseteq P!Values
    /\ \A v \in {<<"none", 0>>, <<"user", User>>} : v \in P!Values /\ v \notin P!OursValues
BY DEF P!OursValues, P!Values, P!Kinds

LEMMA LeaseIs ==
    ASSUME P!TypeOK, lease # <<>>
    PROVE  /\ lease = <<lease[1]>> /\ lease[1].applied \in P!OursValues
           /\ lease[1].original \in P!Values /\ lease[1].restore \in BOOLEAN
BY DEF P!TypeOK, P!AtMostOne, P!Lease

\* Without a lease the port that was stored, or the assumed one, is one of ours.
LEMMA OursIsOurs ==
    ASSUME P!TypeOK, P!SystemProxyOurs
    PROVE  P!Ours(os)
<1>1. CASE lease # <<>>
    BY <1>1, LeaseIs DEF P!SystemProxyOurs, P!Ours
<1>2. CASE lease = <<>>
    <2>1. port # <<>> => port[1] \in Ports
        BY DEF P!TypeOK, P!AtMostOne
    <2> QED BY <1>2, <2>1, MixedPortIsPort, ValuesApart DEF P!SystemProxyOurs, P!Ours
<1> QED BY <1>1, <1>2

\* A release ends at the desktop's own value, or at one that is nobody's.
LEMMA Released ==
    ASSUME P!TypeOK, P!Release
    PROVE  /\ lease' = <<>> /\ port' = port /\ os' \in P!Values
           /\ lost' = (lost /\ P!Ours(os'))
           /\ OwedInv /\ ~lost => ~P!Ours(os')
           /\ OwedInv /\ ~lost => os' = IF lease[1].restore THEN owed ELSE <<"none", 0>>
<1>1. lease' = <<>> /\ port' = port /\ lost' = (lost /\ P!Ours(os'))
    BY DEF P!Release
<1>2. os' = IF lease # <<>> /\ lease[1].restore THEN lease[1].original ELSE <<"none", 0>>
    BY DEF P!Release
<1>3. P!Ours(os)
    BY OursIsOurs DEF P!Release
<1>4. os' \in P!Values
    BY <1>2, LeaseIs, ValuesApart
<1>5. OwedInv /\ ~lost => /\ ~P!Ours(os')
                         /\ os' = IF lease[1].restore THEN owed ELSE <<"none", 0>>
    BY <1>2, <1>3, ValuesApart DEF OwedInv, P!Ours
<1> QED BY <1>1, <1>4, <1>5

LEMMA TakeKeepsLease ==
    ASSUME LeaseInv, NEW k \in P!Kinds, NEW p \in Ports, P!TakeSystemProxy(k, p)
    PROVE  LeaseInv'
<1> DEFINE prior == lease # <<>> /\ lease[1].applied = os
           original == IF prior THEN lease[1].original ELSE os
           restore == lease # <<>> \/ ~P!SystemProxyOurs
<1>1. /\ os' = <<k, p>> /\ port' = <<p>> /\ up' = "yes" /\ UNCHANGED <<saved, lost>>
      /\ lease' = <<[original |-> original, applied |-> <<k, p>>, restore |-> restore]>>
      /\ owed' = IF P!Ours(os) THEN owed ELSE os
    BY DEF P!TakeSystemProxy
<1>2. original \in P!Values /\ restore \in BOOLEAN /\ <<k, p>> \in P!OursValues
    BY LeaseIs, ValuesApart DEF LeaseInv, P!TypeOK
<1>3. ~lost => original = owed' /\ ~P!Ours(owed')
    <2>1. ASSUME ~lost, P!Ours(os) PROVE original = owed' /\ ~P!Ours(owed')
        BY <1>1, <2>1 DEF LeaseInv, OwedInv
    <2>2. ASSUME ~lost, ~P!Ours(os) PROVE original = owed' /\ ~P!Ours(owed')
        BY <1>1, <2>2, LeaseIs DEF LeaseInv, P!Ours
    <2> QED BY <2>1, <2>2
<1> HIDE DEF original, restore
<1>4. lease' # <<>> /\ lease'[1].applied = <<k, p>> /\ lease'[1].original = original
    BY <1>1
<1>5. P!TypeOK'
    <2>1. [original |-> original, applied |-> <<k, p>>, restore |-> restore] \in P!Lease
        BY <1>2 DEF P!Lease
    <2>2. lease' \in P!AtMostOne(P!Lease) /\ port' \in P!AtMostOne(Ports)
        BY <1>1, <2>1 DEF P!AtMostOne
    <2>3. os' \in P!Values /\ owed' \in P!Values
        BY <1>1, <1>2, ValuesApart DEF LeaseInv, P!TypeOK
    <2> QED BY <1>1, <2>2, <2>3 DEF LeaseInv, P!TypeOK
<1>6. OwedInv' /\ LostInv' /\ CleanInv'
    BY <1>1, <1>2, <1>3, <1>4 DEF OwedInv, LostInv, CleanInv, P!Ours
<1> QED BY <1>5, <1>6 DEF LeaseInv

LEMMA ReleaseKeepsLease ==
    ASSUME LeaseInv, P!ReleaseSystemProxy \/ P!ReleaseStaleOwnedSystemProxy
    PROVE  LeaseInv'
<1>1. /\ up' \in {"clean", "yes"} /\ UNCHANGED <<saved, owed>>
      /\ P!Release \/ (~P!SystemProxyOurs /\ UNCHANGED <<os, lease, port, lost>>)
    BY DEF P!ReleaseSystemProxy, P!ReleaseStaleOwnedSystemProxy, LeaseInv, P!TypeOK
<1>2. CASE P!Release
    <2>1. /\ lease' = <<>> /\ port' = port /\ os' \in P!Values /\ lost' = (lost /\ P!Ours(os'))
          /\ ~lost => ~P!Ours(os')
        BY <1>2, Released DEF LeaseInv
    <2>2. P!TypeOK'
        BY <1>1, <2>1 DEF LeaseInv, P!TypeOK, P!AtMostOne
    <2>3. (P!Ours(os))' = P!Ours(os')
        BY DEF P!Ours
    <2> QED BY <1>1, <2>1, <2>2, <2>3 DEF LeaseInv, OwedInv, LostInv, CleanInv
<1>3. CASE ~P!SystemProxyOurs /\ UNCHANGED <<os, lease, port, lost>>
    <2>1. P!Ours(os) => lost
        BY <1>3 DEF LeaseInv, OwedInv, P!SystemProxyOurs
    <2> QED BY <1>1, <1>3, <2>1 DEF LeaseInv, P!TypeOK, OwedInv, LostInv, CleanInv, P!Ours
<1> QED BY <1>1, <1>2, <1>3

LEMMA LeaseStep ==
    ASSUME LeaseInv, P!Next
    PROVE  LeaseInv'
<1>1. CASE \E k \in P!Kinds, p \in Ports : P!TakeSystemProxy(k, p)
    BY <1>1, TakeKeepsLease
<1>2. CASE P!ReleaseSystemProxy \/ P!ReleaseStaleOwnedSystemProxy
    BY <1>2, ReleaseKeepsLease
<1>3. CASE P!Flush
    <2>1. UNCHANGED <<os, lease, port, up, owed, lost>>
        BY <1>3 DEF P!Flush
    <2>2. saved' \in [lease : P!AtMostOne(P!Lease), port : P!AtMostOne(Ports)]
        BY <1>3 DEF P!Flush, LeaseInv, P!TypeOK
    <2> QED BY <2>1, <2>2 DEF LeaseInv, P!TypeOK, OwedInv, LostInv, CleanInv, P!Ours
<1>4. CASE P!UserChanges
    <2>1. /\ os' \in {<<"none", 0>>, <<"user", User>>} /\ lost' = FALSE
          /\ UNCHANGED <<saved, lease, port, up, owed>>
        BY <1>4 DEF P!UserChanges
    <2>2. os' \in P!Values /\ ~P!Ours(os')
        BY <2>1, ValuesApart DEF P!Ours
    <2> QED BY <2>1, <2>2 DEF LeaseInv, P!TypeOK, OwedInv, LostInv, CleanInv
<1>5. CASE P!Crash
    <2>1. /\ up' = "no" /\ lease' = saved.lease /\ port' = saved.port
          /\ lost' = (P!Ours(os) /\ (lost \/ saved.lease # lease)) /\ UNCHANGED <<os, saved, owed>>
        BY <1>5 DEF P!Crash
    <2>2. P!TypeOK'
        BY <2>1 DEF LeaseInv, P!TypeOK
    <2> QED BY <2>1, <2>2 DEF LeaseInv, OwedInv, LostInv, CleanInv, P!Ours
<1> QED BY <1>1, <1>2, <1>3, <1>4, <1>5 DEF P!Next

LEMMA LeaseInit ==
    ASSUME P!Init
    PROVE  LeaseInv
BY ValuesApart DEF P!Init, LeaseInv, P!TypeOK, P!AtMostOne, OwedInv, LostInv, CleanInv, P!Ours

LEMMA LeaseStutter ==
    ASSUME LeaseInv, UNCHANGED proxy
    PROVE  LeaseInv'
BY DEF proxy, LeaseInv, P!TypeOK, OwedInv, LostInv, CleanInv, P!Ours

LEMMA StartOnly ==
    ASSUME [P!Next]_(P!vars), up = "no", up' = "clean"
    PROVE  P!ReleaseStaleOwnedSystemProxy
BY DEF P!Next, P!vars, P!TakeSystemProxy, P!ReleaseSystemProxy, P!Flush, P!UserChanges, P!Crash

LEMMA StartGivesBack ==
    ASSUME LeaseInv, [P!Next]_(P!vars), up = "no", up' = "clean", ~lost, lease # <<>>, lease[1].applied = os
    PROVE  os' = IF lease[1].restore THEN owed ELSE <<"none", 0>>
<1>1. P!Release
    BY StartOnly DEF P!ReleaseStaleOwnedSystemProxy, P!SystemProxyOurs
<1> QED BY <1>1, Released DEF LeaseInv

LEMMA StartTakesNothing ==
    ASSUME LeaseInv, [P!Next]_(P!vars), up = "no", up' = "clean", ~P!Ours(os)
    PROVE  os' = os
<1>1. ~P!SystemProxyOurs
    BY OursIsOurs DEF LeaseInv
<1> QED BY <1>1, StartOnly DEF P!ReleaseStaleOwnedSystemProxy

----------------------------------------------------------------------------
\* The update.  A task that is current has no package to disturb; a package is complete, and
\* only while one is being installed may a helper still install.

Dir == [file : {"none", "part", "package", "gone"}, chunks : 0..Size, good : BOOLEAN, handed : BOOLEAN]
Job == [kind : {"check", "download"}, pc : {"await", "body", "wrote", "verify", "committed"}]
Live == helper \in {"verify", "ready"}

ModelInv ==
    /\ serial \in 0..MaxSerial /\ package \in 0..serial /\ checking \in BOOLEAN
    /\ phase \in {"Idle", "Downloading", "Verifying", "Ready", "DownloadFailed", "Installing", "InstallFailed"}
    /\ package # 0 <=> phase \in {"Ready", "Installing", "InstallFailed"}

TaskInv ==
    /\ DOMAIN job \subseteq 1..serial /\ job \in [DOMAIN job -> Job]
    /\ package # 0 => package \notin DOMAIN job /\ serial \notin DOMAIN job
    /\ \A t \in DOMAIN job : job[t].kind = "check" => pack[t].file = "none"
    /\ \A t \in DOMAIN job : job[t].pc = "committed" => pack[t].file = "package" /\ pack[t].chunks = Size

PackInv ==
    /\ pack \in [U!Tickets -> Dir]
    /\ \A t \in U!Tickets : pack[t].file # "none" => t <= serial
    /\ U!DirectoryIsOwned
    /\ package # 0 => pack[package].file \in {"package", "gone"} /\ pack[package].chunks = Size

InstallInv ==
    /\ install # "no" => phase = "Installing" /\ app = "open"
    /\ Live => phase = "Installing" /\ (install = "wait" \/ app # "open")
    /\ U!Android => helper = "no"
    /\ ~U!Android => call = "none" /\ install # "permission"
    /\ U!Android /\ install = "wait" => U!Intact
    /\ helper # "install" /\ call \in {"none", "waiting", "yes", "no", "error"}
    /\ ran \in {"nothing", "good"} /\ U!InstallsAfterExit

UpdateInv == ModelInv /\ TaskInv /\ PackInv /\ InstallInv

LEMMA UpdateInit ==
    ASSUME U!Init
    PROVE  UpdateInv
<1>1. ModelInv
    <2>1. 0 \in 0..MaxSerial /\ 0 \in 0..0
        BY BoundsAreNumbers
    <2>2. serial = 0 /\ package = 0 /\ checking = FALSE /\ phase = "Idle"
        BY DEF U!Init
    <2> QED BY <2>1, <2>2 DEF ModelInv
<1>4. InstallInv
    BY DEF U!Init, InstallInv, Live, U!Android, U!InstallsAfterExit
<1>2. U!NoDir \in Dir /\ U!NoDir.file = "none"
    BY BoundsAreNumbers DEF U!NoDir, Dir
<1>3. PackInv
    BY <1>2 DEF U!Init, PackInv, U!DirectoryIsOwned
<1>5. TaskInv
    BY DEF U!Init, TaskInv
<1> QED BY <1>1, <1>3, <1>4, <1>5 DEF UpdateInv

LEMMA UpdateStutter ==
    ASSUME UpdateInv, UNCHANGED update
    PROVE  UpdateInv'
BY DEF update, UpdateInv, ModelInv, TaskInv, PackInv, InstallInv, Live, U!Android, U!Intact,
       U!InstallsAfterExit, U!DirectoryIsOwned

----------------------------------------------------------------------------
\* What the steps of the tasks have in common.

LEMMA StartsIs ==
    ASSUME NEW t, NEW k \in {"check", "download"}, TaskInv
    PROVE  /\ DOMAIN U!Starts(t, k) = DOMAIN job \cup {t} /\ U!Starts(t, k)[t] = [kind |-> k, pc |-> "await"]
           /\ \A u \in DOMAIN job \ {t} : U!Starts(t, k)[u] = job[u]
           /\ U!Starts(t, k) \in [DOMAIN U!Starts(t, k) -> Job]
BY DEF U!Starts, TaskInv, Job

LEMMA EndsIs ==
    ASSUME NEW t, TaskInv
    PROVE  /\ DOMAIN U!Ends(t) = DOMAIN job \ {t} /\ \A u \in DOMAIN job \ {t} : U!Ends(t)[u] = job[u]
           /\ U!Ends(t) \in [DOMAIN U!Ends(t) -> Job]
BY DEF U!Ends, TaskInv

LEMMA MovesIs ==
    ASSUME NEW t \in DOMAIN job, NEW pc \in {"await", "body", "wrote", "verify", "committed"}, TaskInv
    PROVE  /\ DOMAIN U!Moves(t, pc) = DOMAIN job /\ \A u \in DOMAIN job \ {t} : U!Moves(t, pc)[u] = job[u]
           /\ U!Moves(t, pc)[t].kind = job[t].kind /\ U!Moves(t, pc)[t].pc = pc
           /\ U!Moves(t, pc) \in [DOMAIN U!Moves(t, pc) -> Job]
<1>1. job[t] \in Job /\ job = [u \in DOMAIN job |-> job[u]]
    BY DEF TaskInv
<1>2. [job[t] EXCEPT !.pc = pc] \in Job
    BY <1>1 DEF Job
<1>3. U!Moves(t, pc) = [job EXCEPT ![t] = [job[t] EXCEPT !.pc = pc]]
    BY DEF U!Moves
<1>4. [job[t] EXCEPT !.pc = pc].kind = job[t].kind /\ [job[t] EXCEPT !.pc = pc].pc = pc
    BY <1>1 DEF Job
<1> QED BY <1>1, <1>2, <1>3, <1>4 DEF TaskInv

LEMMA DroppedIs ==
    ASSUME NEW jobs, NEW held, PackInv
    PROVE  LET p == U!Dropped(pack, jobs, held) IN
           /\ p \in [U!Tickets -> Dir]
           /\ \A t \in U!Tickets : p[t] = pack[t] \/ (p[t].file = "none" /\ t \notin DOMAIN jobs /\ t # held)
           /\ \A t \in U!Tickets : p[t].file # "none" => t \in DOMAIN jobs \/ t = held \/ p[t].handed
<1>1. U!NoDir \in Dir /\ U!NoDir.file = "none"
    BY BoundsAreNumbers DEF U!NoDir, Dir
<1> QED BY <1>1 DEF U!Dropped, PackInv

\* A task's directory changes: nothing else does.
LEMMA DirectoryChanges ==
    ASSUME UpdateInv, NEW t \in DOMAIN job, NEW d \in Dir, NEW pc \in {"await", "body", "wrote", "verify", "committed"},
           UNCHANGED <<platform, checking, phase, serial, release, package>>, UNCHANGED U!rest,
           pack' = [pack EXCEPT ![t] = d], job' = U!Moves(t, pc), job[t].kind = "download",
           pc = "committed" => d.file = "package" /\ d.chunks = Size
    PROVE  UpdateInv'
<1>1. t \in 1..serial /\ t \in U!Tickets /\ serial \in Nat /\ t # package
    BY BoundsAreNumbers DEF UpdateInv, TaskInv, ModelInv, U!Tickets
<1>2. ModelInv'
    BY DEF UpdateInv, ModelInv
<1>3. /\ pack'[t] = d /\ \A u \in U!Tickets \ {t} : pack'[u] = pack[u]
      /\ pack' \in [U!Tickets -> Dir]
    BY <1>1 DEF UpdateInv, PackInv
<1>4. TaskInv'
    BY <1>1, <1>3, MovesIs, BoundsAreNumbers DEF UpdateInv, TaskInv, ModelInv, U!Tickets
<1>5. PackInv'
    <2>1. DOMAIN job' = DOMAIN job
        BY MovesIs DEF UpdateInv
    <2> QED BY <1>1, <1>3, <2>1, BoundsAreNumbers DEF UpdateInv, PackInv, U!DirectoryIsOwned, ModelInv, U!Tickets
<1>6. InstallInv'
    <2>1. U!Android /\ install = "wait" => package \in U!Tickets \ {t}
        BY <1>1, BoundsAreNumbers DEF UpdateInv, InstallInv, ModelInv, U!Tickets
    <2> QED BY <1>3, <2>1 DEF UpdateInv, InstallInv, Live, U!Android, U!Intact, U!InstallsAfterExit, U!rest
<1> QED BY <1>2, <1>4, <1>5, <1>6 DEF UpdateInv

\* A task of another ticket ends: its directory goes with it.
LEMMA TaskLeaves ==
    ASSUME UpdateInv, NEW t \in DOMAIN job, U!Leave(t), UNCHANGED platform, UNCHANGED <<checking, serial, release>>,
           \/ UNCHANGED <<phase, package>>
           \/ t = serial /\ package' = 0 /\ phase' = "DownloadFailed"
           \/ t = serial /\ package' = t /\ phase' = "Ready" /\ job[t].pc = "committed"
    PROVE  UpdateInv'
<1>1. t \in 1..serial /\ t \in U!Tickets /\ serial \in Nat /\ t # package /\ (t = serial => package = 0)
    BY BoundsAreNumbers DEF UpdateInv, TaskInv, ModelInv, U!Tickets
<1>2. job' = U!Ends(t) /\ pack' = U!Dropped(pack, job', package') /\ UNCHANGED U!rest
    BY DEF U!Leave
<1>3. /\ DOMAIN job' = DOMAIN job \ {t} /\ \A u \in DOMAIN job \ {t} : job'[u] = job[u]
      /\ job' \in [DOMAIN job' -> Job]
    BY <1>2, EndsIs DEF UpdateInv
<1>4. /\ pack' \in [U!Tickets -> Dir]
      /\ \A u \in U!Tickets : pack'[u] = pack[u] \/ (pack'[u].file = "none" /\ u \notin DOMAIN job' /\ u # package')
      /\ \A u \in U!Tickets : pack'[u].file # "none" => u \in DOMAIN job' \/ u = package' \/ pack'[u].handed
    BY <1>2, DroppedIs DEF UpdateInv
<1>5. ModelInv'
    BY <1>1 DEF UpdateInv, ModelInv
<1>6. DOMAIN job \subseteq U!Tickets /\ (package' # 0 => package' \in U!Tickets)
    BY <1>1, <1>5, BoundsAreNumbers DEF UpdateInv, TaskInv, ModelInv, U!Tickets
<1>7. TaskInv'
    BY <1>1, <1>3, <1>4, <1>6 DEF UpdateInv, TaskInv
<1>8. package' # 0 => pack'[package'].file \in {"package", "gone"} /\ pack'[package'].chunks = Size
    BY <1>1, <1>4, <1>6 DEF UpdateInv, PackInv, TaskInv
<1>9. PackInv'
    BY <1>4, <1>8 DEF UpdateInv, PackInv, U!DirectoryIsOwned
<1>10. InstallInv'
    <2>1. install # "no" \/ Live => UNCHANGED <<phase, package>>
        BY <1>1 DEF UpdateInv, InstallInv, ModelInv
    <2>2. install # "no" => package # 0 /\ package' = package /\ package \in U!Tickets /\ pack'[package] = pack[package]
        BY <1>4, <1>6, <2>1 DEF UpdateInv, InstallInv, ModelInv
    <2> QED BY <1>2, <2>1, <2>2 DEF UpdateInv, InstallInv, Live, U!Android, U!Intact, U!InstallsAfterExit, U!rest
<1> QED BY <1>5, <1>7, <1>9, <1>10 DEF UpdateInv

LEMMA CheckedKeeps ==
    ASSUME UpdateInv, NEW t \in DOMAIN job, U!Checked(t), UNCHANGED platform
    PROVE  UpdateInv'
<1>1. t \in 1..serial /\ t \in U!Tickets /\ t # package /\ (t = serial => package = 0) /\ pack[t].file = "none"
    BY BoundsAreNumbers DEF UpdateInv, TaskInv, ModelInv, U!Tickets, U!Checked
<1>2. /\ job' = U!Ends(t) /\ UNCHANGED <<serial, package, pack>> /\ UNCHANGED U!rest
      /\ checking' \in BOOLEAN /\ (t # serial => phase' = phase) /\ (t = serial => phase' = "Idle")
    BY DEF U!Checked, U!Current, U!model, UpdateInv, ModelInv
<1>3. /\ DOMAIN job' = DOMAIN job \ {t} /\ \A u \in DOMAIN job \ {t} : job'[u] = job[u]
      /\ job' \in [DOMAIN job' -> Job]
    BY <1>2, EndsIs DEF UpdateInv
<1>4. ModelInv'
    BY <1>1, <1>2 DEF UpdateInv, ModelInv
<1>5. TaskInv'
    BY <1>2, <1>3 DEF UpdateInv, TaskInv
<1>6. PackInv'
    BY <1>1, <1>2, <1>3 DEF UpdateInv, PackInv, U!DirectoryIsOwned
<1>7. InstallInv'
    <2>1. install # "no" \/ Live => phase' = phase
        BY <1>1, <1>2 DEF UpdateInv, InstallInv, ModelInv
    <2> QED BY <1>2, <2>1 DEF UpdateInv, InstallInv, Live, U!Android, U!Intact, U!InstallsAfterExit, U!rest
<1> QED BY <1>4, <1>5, <1>6, <1>7 DEF UpdateInv

LEMMA TransferKeeps ==
    ASSUME UpdateInv, NEW t \in DOMAIN job, UNCHANGED platform,
           U!Prepare(t) \/ U!Write(t) \/ U!Written(t) \/ U!BodyEnds(t) \/ U!Commit(t)
    PROVE  UpdateInv'
<1>1. /\ t \in U!Tickets /\ pack[t] \in Dir /\ pack = [u \in U!Tickets |-> pack[u]] /\ job[t].kind = "download"
      /\ serial \in Nat /\ t \in 1..serial /\ (t = serial => package = 0)
    BY BoundsAreNumbers DEF UpdateInv, TaskInv, ModelInv, PackInv, U!Tickets, U!Prepare, U!Write, U!Written,
        U!BodyEnds, U!Commit
<1>2. CASE U!Prepare(t)
    <2>1. [U!NoDir EXCEPT !.file = "part"] \in Dir
        <3>1. U!NoDir \in Dir
            BY BoundsAreNumbers DEF U!NoDir, Dir
        <3>2. \A d \in Dir : [d EXCEPT !.file = "part"] \in Dir
            BY DEF Dir
        <3> QED BY <3>1, <3>2
    <2> QED BY <1>1, <1>2, <2>1, DirectoryChanges DEF U!Prepare, U!model
<1>3. CASE U!Write(t)
    <2>1. PICK ok \in BOOLEAN : pack' = [pack EXCEPT ![t].chunks = @ + 1, ![t].good = @ /\ ok]
        BY <1>3 DEF U!Write
    <2> DEFINE d == [pack[t] EXCEPT !.chunks = @ + 1, !.good = @ /\ ok]
    <2>2. d \in Dir
        <3>1. pack[t].chunks + 1 \in 0..Size
            <4>1. pack[t].chunks \in 0..Size
                BY <1>1 DEF Dir
            <4>2. pack[t].chunks < Size
                BY <1>3 DEF U!Write
            <4>3. Size \in Nat
                BY BoundsAreNumbers
            <4> QED BY <4>1, <4>2, <4>3
        <3>2. (pack[t].good /\ ok) \in BOOLEAN
            OBVIOUS
        <3> DEFINE c == pack[t].chunks + 1
                   g == pack[t].good /\ ok
        <3>3. d = [pack[t] EXCEPT !.chunks = c, !.good = g]
            OBVIOUS
        <3> HIDE DEF d, c, g
        <3>4. c \in 0..Size /\ g \in BOOLEAN
            BY <3>1, <3>2 DEF c, g
        <3> QED BY <1>1, <3>3, <3>4 DEF Dir
    <2>3. pack' = [pack EXCEPT ![t] = d]
        BY <1>1, <2>1
    <2> HIDE DEF d
    <2> QED BY <1>1, <1>3, <2>2, <2>3, DirectoryChanges DEF U!Write, U!model
<1>4. CASE U!Commit(t)
    <2> DEFINE d == [pack[t] EXCEPT !.file = "package"]
    <2>1. d \in Dir /\ d.file = "package" /\ d.chunks = Size
        BY <1>1, <1>4 DEF U!Commit, Dir
    <2>2. pack' = [pack EXCEPT ![t] = d]
        BY <1>1, <1>4 DEF U!Commit
    <2> HIDE DEF d
    <2> QED BY <1>1, <1>4, <2>1, <2>2, DirectoryChanges DEF U!Commit, U!model
<1>5. ASSUME job' = U!Moves(t, "body") \/ job' = U!Moves(t, "verify"), UNCHANGED <<serial, package, pack, checking>>,
             UNCHANGED U!rest, phase' = phase \/ (t = serial /\ phase' = "Verifying")
      PROVE  UpdateInv'
    <2>1. PICK pc \in {"body", "verify"} : job' = U!Moves(t, pc)
        BY <1>5
    <2>2. /\ DOMAIN job' = DOMAIN job /\ \A u \in DOMAIN job \ {t} : job'[u] = job[u]
          /\ job'[t].kind = "download" /\ job'[t].pc # "committed" /\ job' \in [DOMAIN job' -> Job]
        BY <1>1, <2>1, MovesIs DEF UpdateInv
    <2>3. ModelInv'
        BY <1>1, <1>5 DEF UpdateInv, ModelInv
    <2>4. TaskInv' /\ PackInv'
        BY <1>5, <2>2 DEF UpdateInv, TaskInv, PackInv, U!DirectoryIsOwned
    <2>5. install # "no" \/ Live => phase' = phase
        BY <1>1, <1>5 DEF UpdateInv, InstallInv, ModelInv
    <2>6. InstallInv'
        BY <1>5, <2>5 DEF UpdateInv, InstallInv, Live, U!Android, U!Intact, U!InstallsAfterExit, U!rest
    <2> QED BY <2>3, <2>4, <2>6 DEF UpdateInv
<1>6. CASE U!Written(t)
    <2>1. CASE U!Current(t)
        BY <1>5, <1>6, <2>1 DEF U!Written, U!model
    <2>2. CASE ~U!Current(t)
        BY <1>6, <2>2, TaskLeaves DEF U!Written, U!model
    <2> QED BY <2>1, <2>2
<1>7. CASE U!BodyEnds(t)
    <2>1. CASE U!Current(t)
        BY <1>5, <1>7, <2>1 DEF U!BodyEnds, U!Current
    <2>2. CASE ~U!Current(t)
        BY <1>7, <2>2, TaskLeaves DEF U!BodyEnds, U!model
    <2> QED BY <2>1, <2>2
<1> QED BY <1>2, <1>3, <1>4, <1>6, <1>7

LEMMA TaskKeeps ==
    ASSUME UpdateInv, NEW t \in U!Tickets, U!Task(t)
    PROVE  UpdateInv'
<1>1. t \in DOMAIN job /\ UNCHANGED platform
    BY DEF U!Task
<1>2. CASE U!Checked(t)
    BY <1>1, <1>2, CheckedKeeps
<1>3. CASE U!Prepare(t) \/ U!Write(t) \/ U!Written(t) \/ U!BodyEnds(t) \/ U!Commit(t)
    BY <1>1, <1>3, TransferKeeps
<1>4. CASE U!Committed(t)
    <2>1. job[t].pc = "committed" /\ U!Leave(t) /\ UNCHANGED <<checking, serial, release>>
        BY <1>4 DEF U!Committed, U!model
    <2>2. UNCHANGED <<phase, package>> \/ (t = serial /\ package' = t /\ phase' = "Ready")
        BY <1>4 DEF U!Committed, U!model, U!Current
    <2> QED BY <1>1, <2>1, <2>2, TaskLeaves
<1>5. CASE U!DownloadThrows(t)
    <2>1. U!Leave(t) /\ UNCHANGED <<checking, serial, release, package>>
        BY <1>5 DEF U!DownloadThrows, U!model
    <2>2. UNCHANGED phase \/ (t = serial /\ phase' = "DownloadFailed")
        BY <1>5 DEF U!DownloadThrows, U!model, U!Current
    <2>3. t = serial => package = 0
        BY <1>1 DEF UpdateInv, TaskInv
    <2> QED BY <1>1, <2>1, <2>2, <2>3, TaskLeaves
<1> QED BY <1>2, <1>3, <1>4, <1>5 DEF U!Task

----------------------------------------------------------------------------
\* What is given to the model.

LEMMA StartKeeps ==
    ASSUME UpdateInv, UNCHANGED platform, U!Check \/ U!Download
    PROVE  UpdateInv'
<1>1. /\ app = "open" /\ package = 0 /\ phase # "Installing" /\ serial < MaxSerial /\ serial' = serial + 1
      /\ UNCHANGED <<package, pack>> /\ UNCHANGED U!rest /\ checking' \in BOOLEAN
      /\ phase' = phase \/ phase' = "Downloading"
    BY DEF U!Check, U!Download, U!CanInstall, UpdateInv, ModelInv
<1>2. PICK k \in {"check", "download"} : job' = U!Starts(serial', k)
    BY DEF U!Check, U!Download
<1>3. serial' \in 1..MaxSerial /\ serial' \in U!Tickets /\ serial \in Nat /\ serial' \notin DOMAIN job
    BY <1>1, BoundsAreNumbers DEF UpdateInv, ModelInv, TaskInv, U!Tickets
<1>4. /\ DOMAIN job' = DOMAIN job \cup {serial'} /\ job'[serial'] = [kind |-> k, pc |-> "await"]
      /\ \A u \in DOMAIN job : job'[u] = job[u]
      /\ job' \in [DOMAIN job' -> Job]
    <2>1. \A u \in DOMAIN job : u \in DOMAIN job \ {serial'}
        BY <1>3
    <2> QED BY <1>2, <2>1, StartsIs DEF UpdateInv
<1>5. ModelInv'
    BY <1>1, <1>3, BoundsAreNumbers DEF UpdateInv, ModelInv
<1>6. pack[serial'].file = "none"
    BY <1>1, <1>3 DEF UpdateInv, PackInv
<1>7. TaskInv'
    <2>1. DOMAIN job' \subseteq 1..serial'
        BY <1>1, <1>3, <1>4 DEF UpdateInv, TaskInv
    <2> QED BY <1>1, <1>3, <1>4, <1>6, <2>1 DEF UpdateInv, TaskInv
<1>8. PackInv'
    BY <1>1, <1>3, <1>4, BoundsAreNumbers DEF UpdateInv, PackInv, U!DirectoryIsOwned, U!Tickets
<1>9. InstallInv'
    BY <1>1 DEF UpdateInv, InstallInv, ModelInv, Live, U!Android, U!Intact, U!InstallsAfterExit, U!rest
<1> QED BY <1>5, <1>7, <1>8, <1>9 DEF UpdateInv

LEMMA CancelKeeps ==
    ASSUME UpdateInv, UNCHANGED platform, U!CancelDownload
    PROVE  UpdateInv'
<1>1. /\ serial < MaxSerial /\ serial' = serial + 1 /\ package' = 0 /\ phase' = "Idle" /\ package = 0
      /\ pack' = U!Dropped(pack, job', 0) /\ UNCHANGED checking /\ UNCHANGED U!rest
      /\ phase # "Installing" /\ (job' = U!Ends(serial) \/ job' = job)
    BY DEF U!CancelDownload, U!Transferring, UpdateInv, ModelInv
<1>2. serial' \in 1..MaxSerial /\ serial \in Nat
    BY <1>1, BoundsAreNumbers DEF UpdateInv, ModelInv
<1>3. /\ DOMAIN job' \subseteq DOMAIN job /\ \A u \in DOMAIN job' : job'[u] = job[u]
      /\ job' \in [DOMAIN job' -> Job]
    <2>1. CASE job' = job
        BY <2>1 DEF UpdateInv, TaskInv
    <2>2. CASE job' = U!Ends(serial)
        BY <2>2, EndsIs DEF UpdateInv
    <2> QED BY <1>1, <2>1, <2>2
<1>4. /\ pack' \in [U!Tickets -> Dir]
      /\ \A u \in U!Tickets : pack'[u] = pack[u] \/ (pack'[u].file = "none" /\ u \notin DOMAIN job')
      /\ \A u \in U!Tickets : pack'[u].file # "none" => u \in DOMAIN job' \/ u = 0 \/ pack'[u].handed
    BY <1>1, DroppedIs DEF UpdateInv
<1>5. ModelInv'
    BY <1>1, <1>2 DEF UpdateInv, ModelInv
<1>6. DOMAIN job \subseteq U!Tickets
    BY <1>2, BoundsAreNumbers DEF UpdateInv, TaskInv, ModelInv, U!Tickets
<1>7. TaskInv'
    <2>1. DOMAIN job' \subseteq 1..serial'
        BY <1>1, <1>2, <1>3 DEF UpdateInv, TaskInv
    <2> QED BY <1>1, <1>3, <1>4, <1>6, <2>1 DEF UpdateInv, TaskInv
<1>8. PackInv'
    BY <1>1, <1>2, <1>4, BoundsAreNumbers DEF UpdateInv, PackInv, U!DirectoryIsOwned, U!Tickets
<1>9. InstallInv'
    BY <1>1 DEF UpdateInv, InstallInv, ModelInv, Live, U!Android, U!Intact, U!InstallsAfterExit, U!rest
<1> QED BY <1>5, <1>7, <1>8, <1>9 DEF UpdateInv

\* The tasks and their directories while an installation goes on.
LEMMA TasksStay ==
    ASSUME UpdateInv, UNCHANGED <<checking, serial, package, job, pack>>,
           phase' = phase \/ (package # 0 /\ phase' \in {"Ready", "Installing", "InstallFailed"})
    PROVE  ModelInv' /\ TaskInv' /\ PackInv'
BY DEF UpdateInv, ModelInv, TaskInv, PackInv, U!DirectoryIsOwned

LEMMA PackageChanges ==
    ASSUME UpdateInv, UNCHANGED <<checking, serial, package, job>>, package # 0, NEW d \in Dir,
           phase' \in {"Ready", "Installing", "InstallFailed"},
           pack' = [pack EXCEPT ![package] = d], d.file \in {"package", "gone"}, d.chunks = Size
    PROVE  ModelInv' /\ TaskInv' /\ PackInv'
<1>1. package \in U!Tickets /\ package \in 1..serial /\ serial \in Nat
    BY BoundsAreNumbers DEF UpdateInv, ModelInv, U!Tickets
<1>2. /\ pack' \in [U!Tickets -> Dir] /\ pack'[package] = d
      /\ \A u \in U!Tickets \ {package} : pack'[u] = pack[u]
    BY <1>1 DEF UpdateInv, PackInv
<1>3. ModelInv'
    BY DEF UpdateInv, ModelInv
<1>4. TaskInv'
    BY <1>1, <1>2, BoundsAreNumbers DEF UpdateInv, ModelInv, TaskInv, U!Tickets
<1>5. PackInv'
    BY <1>1, <1>2 DEF UpdateInv, PackInv, U!DirectoryIsOwned
<1> QED BY <1>3, <1>4, <1>5

LEMMA PackageIs ==
    ASSUME UpdateInv, phase \in {"Ready", "Installing", "InstallFailed"}
    PROVE  /\ package # 0 /\ package \in U!Tickets /\ pack = [u \in U!Tickets |-> pack[u]]
           /\ pack[package] \in Dir /\ pack[package].file \in {"package", "gone"} /\ pack[package].chunks = Size
BY BoundsAreNumbers DEF UpdateInv, ModelInv, PackInv, U!Tickets

----------------------------------------------------------------------------
\* The installation.

\* Steps that leave the tasks and their directories alone.
LEMMA InstallationMoves ==
    ASSUME UpdateInv, UNCHANGED <<platform, checking, serial, package, job, pack>>,
           phase' = phase \/ (package # 0 /\ phase' \in {"Ready", "Installing", "InstallFailed"}),
           InstallInv'
    PROVE  UpdateInv'
BY TasksStay DEF UpdateInv

LEMMA BeginsKeep ==
    ASSUME UpdateInv, UNCHANGED platform, U!InstallUpdate \/ U!InstallAndroid
    PROVE  UpdateInv'
<1>1. /\ app = "open" /\ install = "no" /\ package # 0 /\ phase \in {"Ready", "InstallFailed"}
      /\ phase' = "Installing" /\ UNCHANGED <<checking, serial, package, job, helper, app, ran>>
    BY DEF U!InstallUpdate, U!InstallAndroid, U!CanInstall
<1>2. ~Live
    BY <1>1 DEF UpdateInv, InstallInv
<1>3. CASE U!InstallUpdate
    <2>1. ~U!Android /\ install' = "save" /\ UNCHANGED <<pack, call>>
        BY <1>3 DEF U!InstallUpdate
    <2>2. InstallInv'
        BY <1>1, <1>2, <2>1 DEF UpdateInv, InstallInv, Live, U!Android, U!InstallsAfterExit
    <2> QED BY <1>1, <2>1, <2>2, InstallationMoves
<1>4. CASE U!InstallAndroid
    <2>1. U!Android /\ install' = "permission" /\ call' = "waiting" /\ pack' = [pack EXCEPT ![package].handed = TRUE]
        BY <1>4 DEF U!InstallAndroid
    <2>2. InstallInv'
        BY <1>1, <1>2, <2>1 DEF UpdateInv, InstallInv, Live, U!Android, U!InstallsAfterExit
    <2> DEFINE d == [pack[package] EXCEPT !.handed = TRUE]
    <2>3. d \in Dir /\ d.file \in {"package", "gone"} /\ d.chunks = Size /\ pack' = [pack EXCEPT ![package] = d]
        BY <1>1, <2>1, PackageIs DEF Dir
    <2> HIDE DEF d
    <2> QED BY <1>1, <2>2, <2>3, PackageChanges DEF UpdateInv
<1> QED BY <1>3, <1>4

LEMMA PreparesKeep ==
    ASSUME UpdateInv, UNCHANGED platform, U!InstallPrepares \/ U!InstallThrows
    PROVE  UpdateInv'
<1>1. /\ install \in {"save", "stop", "freeze"} /\ install' \in {"stop", "freeze", "verify", "no"}
      /\ UNCHANGED <<checking, serial, package, job, pack, helper, app, ran, call>>
      /\ phase' = phase \/ (phase' = "InstallFailed" /\ install' = "no")
    BY DEF U!InstallPrepares, U!InstallThrows, U!Installing, U!model
<1>2. ~Live /\ phase = "Installing" /\ package # 0
    BY <1>1 DEF UpdateInv, InstallInv, ModelInv
<1>3. InstallInv'
    BY <1>1, <1>2 DEF UpdateInv, InstallInv, Live, U!Android, U!InstallsAfterExit
<1> QED BY <1>1, <1>2, <1>3, InstallationMoves

LEMMA HelperStarts ==
    ASSUME UpdateInv, UNCHANGED platform, U!StartHelper
    PROVE  UpdateInv'
<1>1. /\ install = "verify" /\ ~U!Android /\ UNCHANGED <<checking, serial, package, job, pack, app, ran, call>>
      /\ \/ install' = "wait" /\ helper' = "verify" /\ phase' = phase
         \/ install' = "no" /\ helper' = helper /\ phase' = "InstallFailed"
    BY DEF U!StartHelper, U!Installing, U!model
<1>2. ~Live /\ phase = "Installing" /\ package # 0 /\ app = "open"
    BY <1>1 DEF UpdateInv, InstallInv, ModelInv, Live
<1>3. InstallInv'
    BY <1>1, <1>2 DEF UpdateInv, InstallInv, Live, U!Android, U!InstallsAfterExit
<1> QED BY <1>1, <1>2, <1>3, InstallationMoves

\* The helper on its own.
LEMMA HelperKeeps ==
    ASSUME UpdateInv, UNCHANGED platform, U!HelperVerifies \/ U!HelperInstalls \/ U!HelperGivesUp
    PROVE  UpdateInv'
<1>1. /\ Live /\ UNCHANGED <<checking, phase, serial, package, job, install, app, call>>
      /\ helper' \in {"ready", "failed", "done"} /\ (helper' = "ready" => helper = "verify")
    BY DEF U!HelperVerifies, U!HelperInstalls, U!HelperGivesUp, U!Run, U!model, Live
<1>2. ~U!Android /\ phase = "Installing"
    BY <1>1 DEF UpdateInv, InstallInv, Live
<1>3. CASE U!HelperVerifies \/ U!HelperGivesUp
    <2>1. UNCHANGED <<pack, ran>>
        BY <1>3 DEF U!HelperVerifies, U!HelperGivesUp
    <2>2. InstallInv'
        BY <1>1, <1>2, <2>1 DEF UpdateInv, InstallInv, Live, U!Android, U!InstallsAfterExit
    <2> QED BY <1>1, <2>1, <2>2, InstallationMoves
<1>4. CASE U!HelperInstalls
    <2>1. /\ platform = "windows" => app = "exited"
          /\ ran' \in {"nothing", "good"}
          /\ pack' = pack \/ pack' = [pack EXCEPT ![package].file = "gone"]
        BY <1>4 DEF U!HelperInstalls, U!Run, UpdateInv, InstallInv
    <2>2. InstallInv'
        BY <1>1, <1>2, <2>1 DEF UpdateInv, InstallInv, Live, U!Android, U!InstallsAfterExit
    <2>3. CASE pack' = pack
        BY <1>1, <2>2, <2>3, InstallationMoves
    <2>4. CASE pack' = [pack EXCEPT ![package].file = "gone"]
        <3> DEFINE d == [pack[package] EXCEPT !.file = "gone"]
        <3>1. d \in Dir /\ d.file \in {"package", "gone"} /\ d.chunks = Size /\ pack' = [pack EXCEPT ![package] = d]
            BY <1>2, <2>4, PackageIs DEF Dir
        <3> HIDE DEF d
        <3> QED BY <1>1, <1>2, <2>2, <3>1, PackageIs, PackageChanges DEF UpdateInv
    <2> QED BY <2>1, <2>3, <2>4
<1> QED BY <1>3, <1>4

\* The application hears of it.
LEMMA OutcomeKeeps ==
    ASSUME UpdateInv, UNCHANGED platform, U!HandOver \/ U!HelperFails
    PROVE  UpdateInv'
<1>1. /\ install = "wait" /\ ~U!Android /\ install' = "no"
      /\ UNCHANGED <<checking, serial, package, job, ran, call>>
    BY DEF U!HandOver, U!HelperFails, U!model
<1>2. phase = "Installing" /\ app = "open" /\ package # 0
    BY <1>1 DEF UpdateInv, InstallInv, ModelInv
<1>3. CASE U!HelperFails
    <2>1. helper' = "failed" /\ phase' = "InstallFailed" /\ UNCHANGED <<pack, app>>
        BY <1>3 DEF U!HelperFails
    <2>2. InstallInv'
        BY <1>1, <1>2, <2>1 DEF UpdateInv, InstallInv, Live, U!Android, U!InstallsAfterExit
    <2> QED BY <1>1, <1>2, <2>1, <2>2, InstallationMoves
<1>4. CASE U!HandOver
    <2>1. /\ helper' = helper /\ phase' = phase /\ app' = "closing"
          /\ pack' = [pack EXCEPT ![package].handed = TRUE]
        BY <1>4 DEF U!HandOver, U!model
    <2>2. InstallInv'
        BY <1>1, <1>2, <2>1 DEF UpdateInv, InstallInv, Live, U!Android, U!InstallsAfterExit
    <2> DEFINE d == [pack[package] EXCEPT !.handed = TRUE]
    <2>3. d \in Dir /\ d.file \in {"package", "gone"} /\ d.chunks = Size /\ pack' = [pack EXCEPT ![package] = d]
        BY <1>2, <2>1, PackageIs DEF Dir
    <2> HIDE DEF d
    <2> QED BY <1>1, <1>2, <2>1, <2>2, <2>3, PackageChanges DEF UpdateInv
<1> QED BY <1>3, <1>4

LEMMA AndroidKeeps ==
    ASSUME UpdateInv, UNCHANGED platform, U!Permission \/ U!CallInstaller \/ U!Installed
    PROVE  UpdateInv'
<1>1. /\ U!Android /\ install # "no" /\ UNCHANGED <<checking, serial, package, job, pack, helper, app, ran>>
      /\ phase' \in {phase, "Ready", "InstallFailed"}
      /\ install' \in {"no", "save"} \/ (install' = "wait" /\ U!Intact)
      /\ install' # "no" => phase' = phase
      /\ call' \in {"none", "waiting", "error", call}
    BY DEF U!Permission, U!CallInstaller, U!Installed, U!Call, UpdateInv, InstallInv
<1>2. phase = "Installing" /\ app = "open" /\ package # 0 /\ helper = "no" /\ ~Live
    BY <1>1 DEF UpdateInv, InstallInv, ModelInv, Live
<1>3. InstallInv'
    BY <1>1, <1>2 DEF UpdateInv, InstallInv, Live, U!Android, U!Intact, U!InstallsAfterExit
<1> QED BY <1>1, <1>2, <1>3, InstallationMoves

\* The installer is called only while the package is whole.
LEMMA ChannelKeeps ==
    ASSUME UpdateInv, UNCHANGED platform, U!Answer \/ U!Close \/ U!Reopen \/ U!Quit
    PROVE  UpdateInv'
<1>1. /\ UNCHANGED <<checking, phase, serial, package, job, pack, install, helper>>
      /\ app' = app \/ (app = "closing" /\ app' = "exited")
      /\ call' \in {"none", "waiting", "yes", "no", "error"} /\ (call' # call => U!Android)
    BY DEF U!Answer, U!Close, U!Reopen, U!Quit, U!model, UpdateInv, InstallInv
<1>2. ran' = ran \/ (U!Android /\ ran' \in {"nothing", "good"})
    BY DEF U!Answer, U!Close, U!Reopen, U!Quit, UpdateInv, InstallInv
<1>3. U!Android => platform # "windows"
    BY DEF U!Android
<1>4. InstallInv'
    BY <1>1, <1>2, <1>3 DEF UpdateInv, InstallInv, Live, U!Android, U!Intact, U!InstallsAfterExit
<1> QED BY <1>1, <1>4, InstallationMoves

LEMMA SpoilKeeps ==
    ASSUME UpdateInv, UNCHANGED platform, U!Spoil
    PROVE  UpdateInv'
<1>1. /\ package # 0 /\ ~U!Android /\ pack' = [pack EXCEPT ![package].good = FALSE]
      /\ UNCHANGED <<checking, phase, serial, package, job, install, helper, app, ran, call>>
    BY DEF U!Spoil, U!model, U!rest
<1>2. phase \in {"Ready", "Installing", "InstallFailed"}
    BY <1>1 DEF UpdateInv, ModelInv
<1>3. InstallInv'
    BY <1>1 DEF UpdateInv, InstallInv, Live, U!Android, U!InstallsAfterExit
<1> DEFINE d == [pack[package] EXCEPT !.good = FALSE]
<1>4. d \in Dir /\ d.file \in {"package", "gone"} /\ d.chunks = Size /\ pack' = [pack EXCEPT ![package] = d]
    BY <1>1, <1>2, PackageIs DEF Dir
<1> HIDE DEF d
<1> QED BY <1>1, <1>2, <1>3, <1>4, PackageChanges DEF UpdateInv

LEMMA UpdateStep ==
    ASSUME UpdateInv, U!Next
    PROVE  UpdateInv'
<1>1. CASE U!Given
    BY <1>1, StartKeeps, CancelKeeps, BeginsKeep, ChannelKeeps, SpoilKeeps DEF U!Given
<1>2. CASE \E t \in U!Tickets : U!Task(t)
    BY <1>2, TaskKeeps
<1>3. CASE U!Install
    BY <1>3, PreparesKeep, HelperStarts, HelperKeeps, OutcomeKeeps, AndroidKeeps DEF U!Install
<1> QED BY <1>1, <1>2, <1>3 DEF U!Next

\* Every part of UpdateIsSafe that is about one state.
LEMMA UpdateInvariants ==
    UpdateInv => /\ U!TypeOK /\ U!OfferedIsComplete /\ U!RunsOnlyVerified
                 /\ U!DirectoryIsOwned /\ U!InstallsAfterExit /\ U!FailedIsOver
<1> SUFFICES ASSUME UpdateInv
             PROVE  /\ U!TypeOK /\ U!OfferedIsComplete /\ U!RunsOnlyVerified
                    /\ U!DirectoryIsOwned /\ U!InstallsAfterExit /\ U!FailedIsOver
    OBVIOUS
<1>1. U!TypeOK
    <2>1. DOMAIN job \subseteq U!Tickets
        BY BoundsAreNumbers DEF UpdateInv, ModelInv, TaskInv, U!Tickets
    <2>2. \A t \in DOMAIN job : job[t].kind \in {"check", "download"}
        BY DEF UpdateInv, TaskInv, Job
    <2>3. \A t \in U!Tickets : pack[t].file \in {"none", "part", "package", "gone"}
        BY DEF UpdateInv, PackInv, Dir
    <2> QED BY <2>1, <2>2, <2>3 DEF UpdateInv, ModelInv, InstallInv, U!TypeOK
<1>2. U!OfferedIsComplete
    BY DEF UpdateInv, PackInv, U!OfferedIsComplete, U!CanInstall
<1>3. U!RunsOnlyVerified /\ U!DirectoryIsOwned /\ U!InstallsAfterExit
    BY DEF UpdateInv, PackInv, InstallInv, U!RunsOnlyVerified
<1>4. U!FailedIsOver
    BY DEF UpdateInv, InstallInv, Live, U!FailedIsOver
<1> QED BY <1>1, <1>2, <1>3, <1>4

\* A task ends in a step of its own or of a cancellation, and changes the model only while
\* its ticket is the current one.
LEMMA StaleStep ==
    ASSUME UpdateInv, [U!Next]_(U!vars), NEW t \in U!Tickets,
           t \in DOMAIN job, t # serial, t \notin DOMAIN job', serial' = serial
    PROVE  <<checking, phase, release, package>>' = <<checking, phase, release, package>>
<1>1. serial \in Nat
    BY BoundsAreNumbers DEF UpdateInv, ModelInv
<1>2. ~U!Given
    <2>1. U!Check \/ U!Download \/ U!CancelDownload => serial' = serial + 1
        BY DEF U!Check, U!Download, U!CancelDownload
    <2>2. U!InstallUpdate \/ U!InstallAndroid \/ U!Answer \/ U!Close \/ U!Reopen \/ U!Spoil \/ U!Quit => job' = job
        BY DEF U!InstallUpdate, U!InstallAndroid, U!Answer, U!Close, U!Reopen, U!Spoil, U!Quit
    <2> QED BY <1>1, <2>1, <2>2 DEF U!Given
<1>3. ~U!Install
    BY DEF U!Install, U!InstallPrepares, U!InstallThrows, U!StartHelper, U!HelperVerifies, U!HelperInstalls,
           U!HelperGivesUp, U!HandOver, U!HelperFails, U!Permission, U!CallInstaller, U!Installed
<1>4. UNCHANGED U!vars => job' = job
    BY DEF U!vars
<1>5. PICK u \in U!Tickets : U!Task(u)
    BY <1>2, <1>3, <1>4 DEF U!Next
<1>6. u \in DOMAIN job
    BY <1>5 DEF U!Task
<1>7. CASE u = t
    BY <1>5, <1>7 DEF U!Task, U!Checked, U!Prepare, U!Write, U!Written, U!BodyEnds, U!Commit, U!Committed,
        U!DownloadThrows, U!Current, U!model, U!Moves
<1>8. CASE u # t
    <2>1. job' = U!Ends(u) \/ \E pc : job' = U!Moves(u, pc)
        BY <1>5 DEF U!Task, U!Checked, U!Prepare, U!Write, U!Written, U!BodyEnds, U!Commit, U!Committed,
            U!DownloadThrows, U!Leave
    <2>2. t \in DOMAIN job'
        BY <1>8, <2>1 DEF U!Ends, U!Moves
    <2> QED BY <2>2
<1> QED BY <1>7, <1>8

----------------------------------------------------------------------------
\* What holds of the store, of the lease and of the update.

LEMMA StoreTypes == StoreInv => S!TypeOK
<1> SUFFICES ASSUME StoreInv PROVE S!TypeOK
    OBVIOUS
<1>1. RowType = S!Row
    BY DEF RowType, S!Row
<1>2. S!Partly(rows, Ids, S!Row) /\ S!Partly(disk.rows, Ids, S!Row)
    BY <1>1 DEF StoreInv, ShapeInv, S!Partly
<1>3. S!Partly(dirty, S!Keys, S!Revisions) /\ S!Partly(dirtyRow, Ids, S!Revisions)
    BY BoundsAreNumbers DEF StoreInv, ShapeInv, S!Partly, S!Revisions
<1>4. \A t \in S!Tasks : task[t].step \in {"idle", "done", "set", "ackSet", "row", "ackRow", "delete", "clean"}
    BY DEF StoreInv, ShapeInv, IsTask
<1>5. /\ DOMAIN set \subseteq S!Keys /\ DOMAIN disk.set \subseteq S!Keys
      /\ DOMAIN gone \subseteq Ids \ DOMAIN rows /\ files \subseteq Ids
    BY DEF StoreInv, ShapeInv
<1> QED BY <1>2, <1>3, <1>4, <1>5 DEF StoreInv, ModeInv, S!TypeOK

LEMMA StoreTells == StoreInv => S!NothingPendingIsSaved
<1>1. ASSUME StoreInv, ~S!Pending PROVE rows = disk.rows
    <2>1. \A i \in Ids : Same(rows, disk.rows, i)
        BY <1>1 DEF StoreInv, SameInv, S!Pending
    <2>2. DOMAIN rows = DOMAIN disk.rows /\ \A i \in DOMAIN rows : rows[i] = disk.rows[i]
        BY <1>1, <2>1 DEF StoreInv, ShapeInv, Same, S!Has
    <2> QED BY <1>1, <2>2 DEF StoreInv, ShapeInv
<1>2. ASSUME StoreInv, ~S!Pending, NEW k \in S!Keys \ reused
      PROVE  S!Has(set, k) = S!Has(disk.set, k) /\ (S!Has(set, k) => set[k] = disk.set[k])
    <2>1. Same(set, disk.set, k)
        BY <1>2 DEF StoreInv, SameInv, S!Pending
    <2> QED BY <2>1 DEF Same, S!Has
<1> QED BY <1>1, <1>2 DEF S!NothingPendingIsSaved

\* Each part moves by its own steps, one at a time.
LEMMA OneMoves ==
    ASSUME [Next]_vars
    PROVE  /\ [S!Next]_(S!vars) /\ (P!Next \/ UNCHANGED proxy) /\ (U!Next \/ UNCHANGED update)
           /\ [P!Next]_(P!vars) /\ [U!Next]_(U!vars)
BY DEF Next, InStorage, InLease, InUpdate, vars, storage, proxy, update, S!vars, P!vars, U!vars, U!model, U!rest

KeptInv == StoreInv /\ LeaseInv /\ UpdateInv

LEMMA AllIsKept == Spec => []KeptInv
<1>1. Init => KeptInv
    BY InitHolds, LeaseInit, UpdateInit DEF Init, KeptInv
<1>2. KeptInv /\ [Next]_vars => KeptInv'
    <2> SUFFICES ASSUME KeptInv, [Next]_vars PROVE KeptInv'
        OBVIOUS
    <2>1. StoreInv'
        BY OneMoves, StoreStep DEF KeptInv
    <2>2. LeaseInv'
        BY OneMoves, LeaseStep, LeaseStutter DEF KeptInv
    <2>3. UpdateInv'
        BY OneMoves, UpdateStep, UpdateStutter DEF KeptInv
    <2> QED BY <2>1, <2>2, <2>3 DEF KeptInv
<1> QED BY <1>1, <1>2, PTL DEF Spec

\* No file is taken from a row that refers to it, and the database has no
\* rules whose profile it does not have (flush saves the owner's row with a
\* setting, and cleans a file after the deletion is committed).
THEOREM FilesAreKept == Spec => [](S!FilesOutliveRows /\ S!RulesHaveOwner)
<1>1. KeptInv => S!FilesOutliveRows /\ S!RulesHaveOwner
    BY DEF KeptInv, StoreInv
<1> QED BY <1>1, AllIsKept, PTL

\* Whoever is told that nothing is pending may stop (hasPendingWrites): the
\* database then holds the cached rows and settings.
THEOREM PendingTellsAll == Spec => []S!NothingPendingIsSaved
<1>1. KeptInv => S!NothingPendingIsSaved
    BY StoreTells DEF KeptInv
<1> QED BY <1>1, AllIsKept, PTL

\* Persistence, between any two transactions, mutations, failures and crashes: the types,
\* the files, the owners of the rules, and what is told of the disk.
THEOREM RowsHold == Spec => []RowsAreWhole
<1>1. KeptInv => RowsAreWhole
    BY StoreTypes, StoreTells DEF KeptInv, StoreInv, RowsAreWhole
<1> QED BY <1>1, AllIsKept, PTL

\* The cache, its pending sets and the database are a write-behind store
\* (Persistence as a whole): an entry stops being pending only when the
\* database has its value, a transaction changes nothing that is not pending,
\* an upgrade finds nothing pending, and a restart finds what is on disk.
THEOREM ImplementsContract == Spec => StorageKeepsContract
<1>1. Init => S!Abstract!Init
    BY Nobody DEF Init, S!Init, S!Abstract!Init
<1>2. KeptInv /\ [Next]_vars => [S!Abstract!Next]_(S!Abstract!vars)
    BY OneMoves, StepImplements, NextIs DEF KeptInv
<1> QED BY <1>1, <1>2, AllIsKept, PTL DEF Spec, StorageKeepsContract, S!KeepsContract, S!Abstract!Contract

\* The system proxy (takeSystemProxy, releaseStaleOwnedSystemProxy): whatever is taken,
\* flushed, changed by the user or cut off by a crash, a start gives back what the desktop
\* had and takes nothing from the user.  Exempt is the one take whose own lease a crash lost
\* before its flush, for as long as nobody else changes the desktop.
THEOREM ProxyHolds == Spec => ProxyIsGivenBack
<1>1. KeptInv => P!TypeOK /\ P!NotStranded /\ P!NeverGivenBackToUs
    BY OursIsOurs DEF KeptInv, LeaseInv, OwedInv, CleanInv, P!NotStranded, P!NeverGivenBackToUs
<1>2. KeptInv /\ [Next]_vars =>
          [(up = "no" /\ up' = "clean" /\ ~lost /\ lease # <<>> /\ lease[1].applied = os) =>
              os' = IF lease[1].restore THEN owed ELSE <<"none", 0>>]_(P!vars)
    BY OneMoves, StartGivesBack DEF KeptInv
<1>3. KeptInv /\ [Next]_vars => [(up = "no" /\ up' = "clean" /\ ~P!Ours(os)) => os' = os]_(P!vars)
    BY OneMoves, StartTakesNothing DEF KeptInv
<1>4. Spec => []P!TypeOK /\ []P!NotStranded /\ []P!NeverGivenBackToUs
    BY <1>1, AllIsKept, PTL
<1>5. Spec => P!CrashGivesBack
    BY <1>2, AllIsKept, PTL DEF Spec, P!CrashGivesBack
<1>6. Spec => P!UsersProxyStays
    BY <1>3, AllIsKept, PTL DEF Spec, P!UsersProxyStays
<1> QED BY <1>4, <1>5, <1>6 DEF ProxyIsGivenBack

\* The update (AppUpdateModel, AppUpdatePackage and the helper): only what is complete and
\* verified is offered and run, an overtaken task is silent, no directory is left without
\* an owner, and a failed installation is over.
THEOREM UpdateHolds == Spec => UpdateIsSafe
<1>1. KeptInv => /\ U!TypeOK /\ U!OfferedIsComplete /\ U!RunsOnlyVerified
                 /\ U!DirectoryIsOwned /\ U!InstallsAfterExit /\ U!FailedIsOver
    BY UpdateInvariants DEF KeptInv
<1>2. KeptInv /\ [Next]_vars =>
          [\A t \in U!Tickets :
              (t \in DOMAIN job /\ t # serial /\ t \notin DOMAIN job' /\ serial' = serial)
                 => <<checking, phase, release, package>>' = <<checking, phase, release, package>>]_(U!vars)
    BY OneMoves, StaleStep DEF KeptInv
<1>3. Spec => U!StaleIsSilent
    BY <1>2, AllIsKept, PTL DEF Spec, U!StaleIsSilent
<1>4. Spec => /\ []U!TypeOK /\ []U!OfferedIsComplete /\ []U!RunsOnlyVerified
              /\ []U!DirectoryIsOwned /\ []U!InstallsAfterExit /\ []U!FailedIsOver
    BY <1>1, AllIsKept, PTL
<1> QED BY <1>3, <1>4 DEF UpdateIsSafe

----------------------------------------------------------------------------
\* Lists that are sorted and filtered.

\* How many of the numbers are not greater.
Rank(J, i) == Cardinality({j \in J : j <= i})

LEMMA RankIs ==
    ASSUME NEW J, J \subseteq Nat, IsFiniteSet(J), NEW i \in J
    PROVE  /\ Rank(J, i) \in 1 .. Cardinality(J)
           /\ \A k \in J : i < k => Rank(J, i) < Rank(J, k)
<1>1. \A k \in J : /\ IsFiniteSet({j \in J : j <= k}) /\ Cardinality({j \in J : j <= k}) \in Nat
                   /\ Cardinality({j \in J : j <= k}) <= Cardinality(J)
    BY FS_Subset, FS_CardinalityType
<1>2. Cardinality(J) \in Nat
    BY FS_CardinalityType
<1>3. i \in {j \in J : j <= i}
    OBVIOUS
<1>4. Cardinality({j \in J : j <= i}) # 0
    BY <1>1, <1>3, FS_EmptySet
<1>5. ASSUME NEW k \in J, i < k PROVE Rank(J, i) < Rank(J, k)
    <2> DEFINE low == {j \in J : j <= i}  high == {j \in J : j <= k}
    <2>1. low \in SUBSET high /\ k \in high /\ k \notin low
        <3>1. i \in Nat /\ k \in Nat /\ J \subseteq Nat
            OBVIOUS
        <3>2. \A j \in Nat : j <= i => j <= k
            BY <1>5, <3>1
        <3>3. low \in SUBSET high
            BY <3>1, <3>2
        <3>4. k <= k /\ ~(k <= i)
            BY <1>5, <3>1
        <3> QED BY <3>3, <3>4
    <2>2. IsFiniteSet(high) /\ Cardinality(low) \in Nat /\ Cardinality(high) \in Nat
        BY <1>1
    <2> HIDE DEF low, high
    <2>3. Cardinality(low) <= Cardinality(high) /\ (Cardinality(high) = Cardinality(low) => high = low)
        BY <2>1, <2>2, FS_Subset
    <2>4. Cardinality(low) < Cardinality(high)
        BY <2>1, <2>2, <2>3
    <2> QED BY <2>4 DEF Rank, low, high
<1> QED BY <1>1, <1>2, <1>4, <1>5 DEF Rank

\* The numbers of a finite set can be listed from the least on.
LEMMA AscendingIs ==
    ASSUME NEW J, J \subseteq Nat, IsFiniteSet(J)
    PROVE  /\ Cardinality(J) \in Nat
           /\ Ascending(J) \in [1 .. Cardinality(J) -> J]
           /\ \A m, n \in 1 .. Cardinality(J) : m < n => Ascending(J)[m] < Ascending(J)[n]
           /\ \A m, n \in 1 .. Cardinality(J) : Ascending(J)[m] = Ascending(J)[n] => m = n
           /\ \A j \in J : \E n \in 1 .. Cardinality(J) : Ascending(J)[n] = j
<1> DEFINE N_ == Cardinality(J)  rank == [i \in J |-> Rank(J, i)]
<1>1. N_ \in Nat
    BY FS_CardinalityType
<1>2. IsFiniteSet(1 .. N_) /\ Cardinality(1 .. N_) = N_
    BY <1>1, FS_Interval
<1> HIDE DEF N_
<1>3. \A i \in J : rank[i] \in 1 .. N_ /\ \A k \in J : i < k => rank[i] < rank[k]
    BY RankIs DEF N_
<1>4. rank \in [J -> 1 .. N_]
    BY <1>3
<1>5. \A i, k \in J : i < k => rank[i] < rank[k]
    BY <1>3
<1> HIDE DEF rank
<1>6. \A i, k \in J : i = k \/ i < k \/ k < i
    OBVIOUS
<1>7. \A i, k \in J : rank[i] = rank[k] => i = k
    <2> SUFFICES ASSUME NEW i \in J, NEW k \in J, rank[i] = rank[k] PROVE i = k
        OBVIOUS
    <2>1. rank[i] \in Int /\ rank[k] \in Int
        BY <1>4
    <2> QED BY <1>5, <1>6, <2>1
<1>8. \A n \in 1 .. N_ : \E i \in J : rank[i] = n
    <2>1. rank \in Injection(J, 1 .. N_)
        BY <1>4, <1>7 DEF Injection, IsInjective
    <2>2. Cardinality(J) = Cardinality(1 .. N_)
        BY <1>2 DEF N_
    <2>3. rank \in Surjection(J, 1 .. N_)
        BY <1>2, <2>1, <2>2, FS_Injection
    <2> QED BY <2>3 DEF Surjection
<1> DEFINE f == [n \in 1 .. N_ |-> CHOOSE i \in J : rank[i] = n]
<1>9. \A n \in 1 .. N_ : f[n] \in J /\ rank[f[n]] = n
    BY <1>8
<1>10. f \in [1 .. N_ -> J]
    BY <1>9
<1> HIDE DEF f
<1>11. \A m, n \in 1 .. N_ : m < n => f[m] < f[n]
    <2> SUFFICES ASSUME NEW m \in 1 .. N_, NEW n \in 1 .. N_, m < n PROVE f[m] < f[n]
        OBVIOUS
    <2>1. f[m] \in J /\ f[n] \in J /\ rank[f[m]] = m /\ rank[f[n]] = n
        BY <1>9
    <2>2. m \in Int /\ n \in Int /\ ~(n < m) /\ m # n
        BY <1>1
    <2>3. CASE f[n] < f[m]
        BY <1>5, <2>1, <2>2, <2>3
    <2>4. CASE f[n] = f[m]
        BY <2>1, <2>2, <2>4
    <2> QED BY <1>6, <2>1, <2>3, <2>4
<1> DEFINE A == Ascending(J)
<1>12. A \in [1 .. N_ -> J] /\ \A m, n \in 1 .. N_ : m < n => A[m] < A[n]
    BY <1>10, <1>11 DEF Ascending, N_
<1> HIDE DEF A
<1>13. \A m, n \in 1 .. N_ : A[m] = A[n] => m = n
    <2> SUFFICES ASSUME NEW m \in 1 .. N_, NEW n \in 1 .. N_, A[m] = A[n] PROVE m = n
        OBVIOUS
    <2>1. A[m] \in Nat /\ A[n] \in Nat
        BY <1>12
    <2>2. m = n \/ m < n \/ n < m
        BY <1>1
    <2> QED BY <1>12, <2>1, <2>2
<1>14. \A j \in J : \E n \in 1 .. N_ : A[n] = j
    <2>1. A \in Injection(1 .. N_, J)
        BY <1>12, <1>13 DEF Injection, IsInjective
    <2>2. Cardinality(1 .. N_) = Cardinality(J)
        BY <1>2 DEF N_
    <2>3. A \in Surjection(1 .. N_, J)
        BY <1>2, <2>1, <2>2, FS_Injection
    <2> QED BY <2>3 DEF Surjection
<1> QED BY <1>1, <1>12, <1>13, <1>14 DEF A, N_


\* There is one way to do so.
LEMMA RankOf ==
    ASSUME NEW J, J \subseteq Nat, NEW N \in Nat, NEW f \in [1 .. N -> J],
           \A m, n \in 1 .. N : m < n => f[m] < f[n], \A j \in J : \E n \in 1 .. N : f[n] = j,
           NEW n \in 1 .. N
    PROVE  Rank(J, f[n]) = n
<1> DEFINE low == {j \in J : j <= f[n]}  g == [m \in 1 .. n |-> f[m]]
<1>1. n \in Nat /\ \A m \in 1 .. N : m \in Nat /\ f[m] \in Nat
    <2>1. \A m \in 1 .. N : f[m] \in J
        OBVIOUS
    <2>2. \A m \in 1 .. N : m \in Nat
        OBVIOUS
    <2> QED BY <2>1, <2>2
<1>2. \A m \in 1 .. n : m \in 1 .. N /\ f[m] \in J /\ (m < n \/ m = n)
    BY <1>1
<1>3. \A m \in 1 .. n : f[m] <= f[n]
    <2> TAKE m \in 1 .. n
    <2>1. m \in 1 .. N /\ f[m] \in Nat /\ f[n] \in Nat /\ (m < n \/ m = n)
        BY <1>1, <1>2
    <2>2. m < n => f[m] < f[n]
        BY <2>1
    <2> QED BY <2>1, <2>2
<1>4. g \in [1 .. n -> low]
    BY <1>2, <1>3
<1>5. ASSUME NEW m \in 1 .. n, NEW k \in 1 .. n, g[m] = g[k] PROVE m = k
    <2>1. m \in 1 .. N /\ k \in 1 .. N /\ f[m] = f[k] /\ f[m] \in Nat /\ m \in Nat /\ k \in Nat
        BY <1>1, <1>2, <1>5
    <2>2. ~(m < k) /\ ~(k < m)
        <3>1. m < k => f[m] < f[k]
            BY <2>1
        <3>2. k < m => f[k] < f[m]
            BY <2>1
        <3> QED BY <2>1, <3>1, <3>2
    <2> QED BY <2>1, <2>2
<1>6. ASSUME NEW j \in low PROVE \E m \in 1 .. n : g[m] = j
    <2>1. PICK m \in 1 .. N : f[m] = j
        OBVIOUS
    <2>2. m \in Nat /\ f[m] \in Nat /\ f[n] \in Nat /\ f[m] <= f[n]
        BY <1>1, <2>1
    <2>3. ~(n < m)
        <3>1. n < m => f[n] < f[m]
            OBVIOUS
        <3> QED BY <2>2, <3>1
    <2>4. m \in 1 .. n
        BY <1>1, <2>2, <2>3
    <2> QED BY <2>1, <2>4
<1> HIDE DEF g
<1>7. g \in Bijection(1 .. n, low)
    BY <1>4, <1>5, <1>6 DEF Bijection, Injection, Surjection, IsInjective
<1>8. ExistsBijection(1 .. n, low)
    BY <1>7 DEF ExistsBijection
<1> HIDE DEF low
<1>9. Cardinality(low) = n
    BY <1>1, <1>8, FS_CountingElements
<1> QED BY <1>9 DEF Rank, low

LEMMA OneAscending ==
    ASSUME NEW J, J \subseteq Nat, IsFiniteSet(J), NEW N \in Nat, NEW f \in [1 .. N -> J],
           \A m, n \in 1 .. N : m < n => f[m] < f[n], \A j \in J : \E n \in 1 .. N : f[n] = j
    PROVE  Ascending(J) = f
<1> DEFINE A == Ascending(J)  C == Cardinality(J)
<1>1. /\ C \in Nat /\ A \in [1 .. C -> J]
      /\ \A m, n \in 1 .. C : m < n => A[m] < A[n]
      /\ \A j \in J : \E n \in 1 .. C : A[n] = j
    BY AscendingIs
<1>2. C = N
    <2>1. \A m, n \in 1 .. N : f[m] = f[n] => m = n
        <3> TAKE m, n \in 1 .. N
        <3> HAVE f[m] = f[n]
        <3>1. Rank(J, f[m]) = m /\ Rank(J, f[n]) = n
            BY RankOf
        <3> QED BY <3>1
    <2>2. f \in Bijection(1 .. N, J)
        BY <2>1 DEF Bijection, Injection, Surjection, IsInjective
    <2>3. ExistsBijection(1 .. N, J)
        BY <2>2 DEF ExistsBijection
    <2> QED BY <2>3, FS_CountingElements
<1> HIDE DEF A, C
<1>3. ASSUME NEW n \in 1 .. N PROVE A[n] = f[n]
    <2>1. Rank(J, f[n]) = n
        BY RankOf
    <2>2. Rank(J, A[n]) = n
        <3>1. /\ A \in [1 .. N -> J] /\ \A m, k \in 1 .. N : m < k => A[m] < A[k]
              /\ \A j \in J : \E k \in 1 .. N : A[k] = j
            BY <1>1, <1>2
        <3> QED BY <3>1, RankOf
    <2>3. A[n] \in J /\ f[n] \in J /\ A[n] \in Nat /\ f[n] \in Nat /\ n \in Nat
        <3>1. A[n] \in J /\ f[n] \in J
            BY <1>1, <1>2
        <3>2. n \in Nat
            OBVIOUS
        <3> QED BY <3>1, <3>2
    <2>4. f[n] < A[n] => Rank(J, f[n]) < Rank(J, A[n])
        BY <2>3, RankIs
    <2>5. A[n] < f[n] => Rank(J, A[n]) < Rank(J, f[n])
        BY <2>3, RankIs
    <2> QED BY <2>1, <2>2, <2>3, <2>4, <2>5
<1> QED BY <1>1, <1>2, <1>3 DEF A

LEMMA GreatestIs ==
    ASSUME NEW J, J \subseteq Nat, IsFiniteSet(J), J # {}
    PROVE  \E i \in J : \A j \in J : j <= i
<1> DEFINE A == Ascending(J)  N == Cardinality(J)
<1>1. /\ N \in Nat /\ A \in [1 .. N -> J]
      /\ \A m, n \in 1 .. N : m < n => A[m] < A[n]
      /\ \A j \in J : \E n \in 1 .. N : A[n] = j
    BY AscendingIs
<1>2. N # 0
    BY FS_EmptySet
<1> HIDE DEF A, N
<1>3. N \in 1 .. N /\ A[N] \in J
    BY <1>1, <1>2
<1>4. ASSUME NEW j \in J PROVE j <= A[N]
    <2>1. PICK n \in 1 .. N : A[n] = j
        BY <1>1
    <2>2. n \in Nat /\ (n < N \/ n = N) /\ A[n] \in Nat /\ A[N] \in Nat
        <3>1. A[n] \in J /\ A[N] \in J
            BY <1>1, <1>3
        <3>2. n \in Nat /\ (n < N \/ n = N)
            BY <1>1
        <3> QED BY <3>1, <3>2
    <2>3. n < N => A[n] < A[N]
        BY <1>1, <1>3
    <2> QED BY <2>1, <2>2, <2>3
<1> QED BY <1>3, <1>4

Elements(s) == {s[i] : i \in 1 .. Len(s)}

\* What is kept of a list: its members that are in the set, each where it was among the others.
LEMMA KeptIs ==
    ASSUME NEW V, NEW s \in Seq(V), NEW keep
    PROVE  /\ Kept(s, keep) \in Seq(V)
           /\ Elements(Kept(s, keep)) = Elements(s) \cap keep
           /\ (\A i, k \in 1 .. Len(s) : s[i] = s[k] => i = k) =>
                  \A m, n \in 1 .. Len(Kept(s, keep)) : Kept(s, keep)[m] = Kept(s, keep)[n] => m = n
           /\ s \in Seq(Nat) /\ (\A m, n \in 1 .. Len(s) : m < n => s[m] < s[n]) =>
                  \A m, n \in 1 .. Len(Kept(s, keep)) : m < n => Kept(s, keep)[m] < Kept(s, keep)[n]
<1> DEFINE J_ == {i \in DOMAIN s : s[i] \in keep}  at == Ascending(J_)  N_ == Cardinality(J_)
<1>1. DOMAIN s = 1 .. Len(s) /\ Len(s) \in Nat /\ \A i \in 1 .. Len(s) : s[i] \in V
    BY LenProperties, ElementOfSeq
<1>2. J_ \subseteq Nat /\ IsFiniteSet(J_)
    <2>1. IsFiniteSet(1 .. Len(s))
        BY <1>1, FS_Interval
    <2>2. J_ \in SUBSET (1 .. Len(s))
        BY <1>1
    <2>3. 1 .. Len(s) \subseteq Nat
        BY <1>1
    <2> QED BY <2>1, <2>2, <2>3, FS_Subset
<1>3. \A i : i \in J_ <=> i \in 1 .. Len(s) /\ s[i] \in keep
    BY <1>1
<1>4. Kept(s, keep) = [n \in DOMAIN at |-> s[at[n]]]
    BY DEF Kept
<1> HIDE DEF J_
<1>5. /\ N_ \in Nat /\ at \in [1 .. N_ -> J_]
      /\ \A m, n \in 1 .. N_ : at[m] = at[n] => m = n
      /\ \A m, n \in 1 .. N_ : m < n => at[m] < at[n]
      /\ \A j \in J_ : \E n \in 1 .. N_ : at[n] = j
    BY <1>2, AscendingIs
<1> HIDE DEF at, N_
<1> DEFINE k == Kept(s, keep)
<1>6. k = [n \in 1 .. N_ |-> s[at[n]]]
    BY <1>4, <1>5
<1> HIDE DEF k
<1>7. \A n \in 1 .. N_ : at[n] \in 1 .. Len(s) /\ s[at[n]] \in keep /\ k[n] = s[at[n]]
    BY <1>3, <1>5, <1>6
<1>8. k \in [1 .. N_ -> V]
    BY <1>1, <1>6, <1>7
<1>9. k \in Seq(V) /\ Len(k) = N_
    <2>1. k \in Seq(V)
        BY <1>5, <1>8, SeqDef
    <2>2. DOMAIN k = 1 .. N_ /\ DOMAIN k = 1 .. Len(k) /\ Len(k) \in Nat
        BY <1>8, <2>1, LenProperties
    <2> QED BY <1>5, <2>1, <2>2
<1>10. Elements(k) = Elements(s) \cap keep
    <2>1. ASSUME NEW i \in 1 .. Len(s), s[i] \in keep PROVE \E n \in 1 .. N_ : k[n] = s[i]
        <3>1. PICK n \in 1 .. N_ : at[n] = i
            BY <1>3, <1>5, <2>1
        <3> QED BY <1>7, <3>1
    <2>2. \A e : e \in Elements(k) <=> \E n \in 1 .. N_ : e = k[n]
        BY <1>9 DEF Elements
    <2>3. \A e : e \in Elements(s) <=> \E i \in 1 .. Len(s) : e = s[i]
        BY DEF Elements
    <2>4. \A e : e \in Elements(k) <=> e \in Elements(s) /\ e \in keep
        BY <1>7, <2>1, <2>2, <2>3
    <2> QED BY <2>4
<1>11. ASSUME \A i, j \in 1 .. Len(s) : s[i] = s[j] => i = j,
              NEW m \in 1 .. N_, NEW n \in 1 .. N_, k[m] = k[n]
       PROVE  m = n
    BY <1>5, <1>7, <1>11
<1>12. ASSUME \A m, n \in 1 .. Len(s) : m < n => s[m] < s[n],
              NEW m \in 1 .. N_, NEW n \in 1 .. N_, m < n
       PROVE  k[m] < k[n]
    <2>1. at[m] \in 1 .. Len(s) /\ at[n] \in 1 .. Len(s) /\ at[m] < at[n] /\ k[m] = s[at[m]] /\ k[n] = s[at[n]]
        BY <1>5, <1>7, <1>12
    <2> QED BY <1>12, <2>1
<1> QED BY <1>9, <1>10, <1>11, <1>12 DEF k


----------------------------------------------------------------------------
\* The places of profiles in an order.

LEMMA SameKept == \A s, keep : S!Kept(s, keep) = Kept(s, keep)
BY DEF S!Kept, S!Ascending, S!Cardinality, Kept, Ascending, Cardinality

LEMMA SameAscending == \A J : S!Ascending(J) = Ascending(J)
BY DEF S!Ascending, S!Cardinality, Ascending, Cardinality

LEMMA IdsAreNat == IsFiniteSet(Ids) /\ \A i \in Ids : i \in Nat /\ i > 0
<1>1. Cardinality(Ids) \in Nat /\ Ids = 1 .. Cardinality(Ids)
    BY IdsAreNumbers
<1>2. IsFiniteSet(1 .. Cardinality(Ids))
    BY <1>1, FS_Interval
<1> QED BY <1>1, <1>2

LEMMA PlaceIs ==
    ASSUME NEW order \in Seq(Ids), NEW i \in Ids
    PROVE  /\ S!Place(order, i) \in Nat
           /\ IF i \in Elements(order)
              THEN S!Place(order, i) \in 1 .. Len(order) /\ order[S!Place(order, i)] = i
              ELSE S!Place(order, i) = Len(order) + i
<1> DEFINE at == {n \in DOMAIN order : order[n] = i}
<1>1. DOMAIN order = 1 .. Len(order) /\ Len(order) \in Nat /\ i \in Nat
    BY LenProperties, IdsAreNat
<1>2. S!Place(order, i) = IF at = {} THEN Len(order) + i ELSE CHOOSE n \in at : \A m \in at : m <= n
    BY DEF S!Place
<1>3. i \in Elements(order) <=> at # {}
    BY <1>1 DEF Elements
<1>4. at \in SUBSET (1 .. Len(order)) /\ \A n \in at : order[n] = i
    BY <1>1
<1> HIDE DEF at
<1>5. CASE at # {}
    <2>1. IsFiniteSet(at) /\ at \subseteq Nat
        <3>1. IsFiniteSet(1 .. Len(order)) /\ 1 .. Len(order) \subseteq Nat
            BY <1>1, FS_Interval
        <3> QED BY <1>4, <3>1, FS_Subset
    <2>2. \E n \in at : \A m \in at : m <= n
        BY <1>5, <2>1, GreatestIs
    <2>3. S!Place(order, i) \in at
        BY <1>2, <1>5, <2>2
    <2>4. S!Place(order, i) \in 1 .. Len(order) /\ order[S!Place(order, i)] = i /\ S!Place(order, i) \in Nat
        BY <1>4, <2>1, <2>3
    <2> QED BY <1>3, <1>5, <2>4
<1>6. CASE at = {}
    BY <1>1, <1>2, <1>3, <1>6
<1> QED BY <1>5, <1>6

LEMMA PlacesApart ==
    ASSUME NEW order \in Seq(Ids), NEW i \in Ids, NEW j \in Ids, S!Place(order, i) = S!Place(order, j)
    PROVE  i = j
<1>1. i \in Nat /\ j \in Nat /\ i > 0 /\ j > 0 /\ Len(order) \in Nat
    BY LenProperties, IdsAreNat
<1>2. CASE i \in Elements(order) /\ j \in Elements(order)
    BY <1>2, PlaceIs
<1>3. CASE i \in Elements(order) /\ j \notin Elements(order)
    <2>1. S!Place(order, i) \in 1 .. Len(order) /\ S!Place(order, j) = Len(order) + j
        BY <1>3, PlaceIs
    <2> QED BY <1>1, <2>1
<1>4. CASE i \notin Elements(order) /\ j \in Elements(order)
    <2>1. S!Place(order, j) \in 1 .. Len(order) /\ S!Place(order, i) = Len(order) + i
        BY <1>4, PlaceIs
    <2> QED BY <1>1, <2>1
<1>5. CASE i \notin Elements(order) /\ j \notin Elements(order)
    <2>1. S!Place(order, j) = Len(order) + j /\ S!Place(order, i) = Len(order) + i
        BY <1>5, PlaceIs
    <2> QED BY <1>1, <2>1
<1> QED BY <1>2, <1>3, <1>4, <1>5

Ascends(s) == \A m, n \in 1 .. Len(s) : m < n => s[m] < s[n]
Once(s) == \A m, n \in 1 .. Len(s) : s[m] = s[n] => m = n

\* A sorted list has what was sorted, once each, in the order of the places.
LEMMA SortedIs ==
    ASSUME NEW T \in SUBSET Ids, NEW order \in Seq(Ids)
    PROVE  LET s == S!Sorted(T, order)
           IN  /\ s \in Seq(Ids) /\ Elements(s) = T /\ Once(s)
               /\ order = <<>> => Ascends(s)
<1> DEFINE J == {S!Place(order, i) : i \in T}  at == Ascending(J)  N == Cardinality(J)
           s == S!Sorted(T, order)  p == [i \in T |-> S!Place(order, i)]
<1>1. \A i \in T : S!Place(order, i) \in Nat /\ p[i] = S!Place(order, i) /\ p[i] \in J
    BY PlaceIs
<1>2. J \subseteq Nat /\ IsFiniteSet(J)
    <2>1. IsFiniteSet(T)
        BY IdsAreNat, FS_Subset
    <2>2. p \in Surjection(T, J)
        BY <1>1 DEF Surjection
    <2> HIDE DEF J, p
    <2>4. IsFiniteSet(J)
        BY <2>1, <2>2, FS_Surjection
    <2>5. J \subseteq Nat
        BY <1>1 DEF J
    <2> QED BY <2>4, <2>5
<1>3. /\ N \in Nat /\ at \in [1 .. N -> J]
      /\ \A m, n \in 1 .. N : m < n => at[m] < at[n]
      /\ \A m, n \in 1 .. N : at[m] = at[n] => m = n
      /\ \A j \in J : \E n \in 1 .. N : at[n] = j
    <2> HIDE DEF J
    <2> QED BY <1>2, AscendingIs
<1>4. s = [n \in 1 .. N |-> CHOOSE i \in T : S!Place(order, i) = at[n]]
    <2>1. s = [n \in DOMAIN S!Ascending(J) |-> CHOOSE i \in T : S!Place(order, i) = S!Ascending(J)[n]]
        BY DEF S!Sorted
    <2>2. S!Ascending(J) = at
        BY SameAscending
    <2> HIDE DEF J, at, s
    <2>3. DOMAIN at = 1 .. N
        BY <1>3
    <2> QED BY <2>1, <2>2, <2>3
<1>5. \A j \in J : \E i \in T : S!Place(order, i) = j
    OBVIOUS
<1>6. \A i \in T : S!Place(order, i) \in J
    OBVIOUS
<1> HIDE DEF J, at, N, s
<1>7. \A n \in 1 .. N : s[n] \in T /\ S!Place(order, s[n]) = at[n]
    BY <1>3, <1>4, <1>5
<1>8. s \in [1 .. N -> Ids]
    BY <1>4, <1>7
<1>9. s \in Seq(Ids) /\ Len(s) = N
    <2>1. s \in Seq(Ids)
        BY <1>3, <1>8, SeqDef
    <2>2. DOMAIN s = 1 .. N /\ DOMAIN s = 1 .. Len(s) /\ Len(s) \in Nat
        BY <1>8, <2>1, LenProperties
    <2> QED BY <1>3, <2>1, <2>2
<1>10. Elements(s) = T
    <2>1. ASSUME NEW i \in T PROVE \E n \in 1 .. N : s[n] = i
        <3>1. PICK n \in 1 .. N : at[n] = S!Place(order, i)
            BY <1>3, <1>6
        <3>2. S!Place(order, s[n]) = S!Place(order, i) /\ s[n] \in Ids /\ i \in Ids
            BY <1>7, <3>1
        <3>3. s[n] = i
            BY <3>2, PlacesApart
        <3> QED BY <3>3
    <2>2. \A e : e \in Elements(s) <=> \E n \in 1 .. N : e = s[n]
        BY <1>9 DEF Elements
    <2>3. \A e : e \in Elements(s) <=> e \in T
        BY <1>7, <2>1, <2>2
    <2> QED BY <2>3
<1>11. Once(s)
    BY <1>3, <1>7, <1>9 DEF Once
<1>12. ASSUME order = <<>> PROVE Ascends(s)
    <2>1. \A i \in Ids : S!Place(order, i) = i
        <3>1. Elements(order) = {} /\ Len(order) = 0
            BY <1>12 DEF Elements
        <3>2. \A i \in Ids : S!Place(order, i) = Len(order) + i
            BY <3>1, PlaceIs
        <3> QED BY <3>1, <3>2, IdsAreNat
    <2>2. \A n \in 1 .. N : s[n] = at[n]
        BY <1>7, <2>1
    <2> QED BY <1>3, <1>9, <2>2 DEF Ascends
<1> QED BY <1>9, <1>10, <1>11, <1>12 DEF s

\* A list is in its own order.
LEMMA SortedSelf ==
    ASSUME NEW s \in Seq(Ids), Once(s)
    PROVE  S!Sorted(Elements(s), s) = s
<1> DEFINE J == {S!Place(s, i) : i \in Elements(s)}  L == Len(s)  f == [n \in 1 .. L |-> n]
<1>1. L \in Nat /\ DOMAIN s = 1 .. L /\ \A n \in 1 .. L : s[n] \in Ids /\ s[n] \in Elements(s)
    BY LenProperties, ElementOfSeq DEF Elements
<1>2. ASSUME NEW n \in 1 .. L PROVE S!Place(s, s[n]) = n
    <2>1. S!Place(s, s[n]) \in 1 .. Len(s) /\ s[S!Place(s, s[n])] = s[n]
        BY <1>1, PlaceIs
    <2> QED BY <2>1 DEF Once
<1>3. J = 1 .. L
    <2>1. \A i : i \in Elements(s) <=> \E n \in 1 .. L : i = s[n]
        BY DEF Elements
    <2>2. \A j : j \in J <=> \E n \in 1 .. L : j = S!Place(s, s[n])
        BY <2>1
    <2> HIDE DEF J, L
    <2>3. \A j : j \in J <=> j \in 1 .. L
        BY <1>2, <2>2
    <2> QED BY <2>3
<1>4. Ascending(1 .. L) = f
    <2>1. IsFiniteSet(1 .. L) /\ 1 .. L \subseteq Nat
        BY <1>1, FS_Interval
    <2>2. f \in [1 .. L -> 1 .. L] /\ \A n \in 1 .. L : f[n] = n
        OBVIOUS
    <2> HIDE DEF f, L
    <2>3. \A m, n \in 1 .. L : m < n => f[m] < f[n]
        BY <2>2
    <2>4. \A j \in 1 .. L : \E n \in 1 .. L : f[n] = j
        BY <2>2
    <2> QED BY <1>1, <2>1, <2>2, <2>3, <2>4, OneAscending
<1>5. S!Sorted(Elements(s), s) = [n \in 1 .. L |-> CHOOSE i \in Elements(s) : S!Place(s, i) = n]
    <2>1. S!Sorted(Elements(s), s) =
              [n \in DOMAIN S!Ascending(J) |-> CHOOSE i \in Elements(s) : S!Place(s, i) = S!Ascending(J)[n]]
        BY DEF S!Sorted
    <2>2. S!Ascending(J) = f
        BY <1>3, <1>4, SameAscending
    <2>3. DOMAIN f = 1 .. L /\ \A n \in 1 .. L : f[n] = n
        OBVIOUS
    <2> HIDE DEF f, J, L
    <2> QED BY <2>1, <2>2, <2>3
<1>6. ASSUME NEW n \in 1 .. L PROVE (CHOOSE i \in Elements(s) : S!Place(s, i) = n) = s[n]
    <2>1. \A i \in Elements(s) : i \in Ids
        BY <1>1 DEF Elements
    <2>2. \A i \in Elements(s) : S!Place(s, i) = n => i = s[n]
        BY <1>1, <1>2, <2>1, PlacesApart
    <2>3. s[n] \in Elements(s) /\ S!Place(s, s[n]) = n
        BY <1>1, <1>2
    <2> HIDE DEF L
    <2> QED BY <2>2, <2>3
<1>7. s = [n \in 1 .. L |-> s[n]]
    BY <1>1
<1> HIDE DEF L
<1> QED BY <1>5, <1>6, <1>7

\* Without an order the list goes by the ids.
LEMMA SortedPlain ==
    ASSUME NEW s \in Seq(Ids), Ascends(s)
    PROVE  S!Sorted(Elements(s), <<>>) = s
<1> DEFINE E == Elements(s)  J == {S!Place(<<>>, i) : i \in E}  L == Len(s)
<1>1. /\ L \in Nat /\ DOMAIN s = 1 .. L /\ s = [n \in 1 .. L |-> s[n]]
      /\ \A n \in 1 .. L : s[n] \in Ids /\ s[n] \in E
    BY LenProperties, ElementOfSeq DEF Elements
<1>2. \A i \in Ids : S!Place(<<>>, i) = i
    <2>1. <<>> \in Seq(Ids) /\ Elements(<<>>) = {} /\ Len(<<>>) = 0
        BY DEF Elements
    <2>2. \A i \in Ids : S!Place(<<>>, i) = Len(<<>>) + i
        BY <2>1, PlaceIs
    <2> QED BY <2>1, <2>2, IdsAreNat
<1>3. E \subseteq Ids /\ \A e \in E : \E n \in 1 .. L : s[n] = e
    BY <1>1 DEF Elements
<1>4. J = E
    <2>1. \A j : j \in J <=> \E i \in E : j = S!Place(<<>>, i)
        OBVIOUS
    <2> HIDE DEF E, J
    <2>2. \A j : j \in J <=> j \in E
        BY <1>2, <1>3, <2>1
    <2> QED BY <2>2
<1>5. Ascending(E) = s
    <2>1. IsFiniteSet(E) /\ E \subseteq Nat
        BY <1>3, IdsAreNat, FS_Subset
    <2>2. s \in [1 .. L -> E]
        BY <1>1
    <2>3. \A m, n \in 1 .. L : m < n => s[m] < s[n]
        BY DEF Ascends
    <2> HIDE DEF E, L
    <2> QED BY <1>1, <1>3, <2>1, <2>2, <2>3, OneAscending
<1>6. S!Sorted(E, <<>>) = [n \in 1 .. L |-> CHOOSE i \in E : S!Place(<<>>, i) = s[n]]
    <2>1. S!Sorted(E, <<>>) =
              [n \in DOMAIN S!Ascending(J) |-> CHOOSE i \in E : S!Place(<<>>, i) = S!Ascending(J)[n]]
        BY DEF S!Sorted
    <2>2. S!Ascending(J) = s
        BY <1>4, <1>5, SameAscending
    <2> HIDE DEF E, J, L
    <2> QED BY <1>1, <2>1, <2>2
<1>7. ASSUME NEW n \in 1 .. L PROVE (CHOOSE i \in E : S!Place(<<>>, i) = s[n]) = s[n]
    <2> HIDE DEF E, L
    <2>1. s[n] \in E /\ S!Place(<<>>, s[n]) = s[n]
        BY <1>1, <1>2
    <2>2. \A i \in E : S!Place(<<>>, i) = s[n] => i = s[n]
        BY <1>2, <1>3
    <2> QED BY <2>1, <2>2
<1> HIDE DEF E, L
<1> QED BY <1>1, <1>6, <1>7 DEF E

----------------------------------------------------------------------------
\* The list of profiles and its order.

\* The profiles are listed once each, and their order is one of ids, in memory, in a flush
\* and on disk.
ListedInv ==
    /\ stops \in Nat /\ list \in Seq(Ids) /\ Once(list)
    /\ IF mode = "down" THEN list = <<>> ELSE Elements(list) = DOMAIN rows
    /\ S!OrderIn(set) \in Seq(Ids) /\ S!OrderIn(disk.set) \in Seq(Ids)

SnapshotInv ==
    \A t \in S!Tasks : OnSettings(t) => \A e \in task[t].todo : e.key = S!Order => e.value \in Seq(Ids)

\* Before the first stop the list is by the ids, or is the order kept in the settings.
Ordered == \/ S!OrderIn(set) = <<>> /\ Ascends(list)
           \/ S!OrderIn(set) = list
OrderedOnDisk == \/ S!OrderIn(disk.set) = <<>>
                 \/ Once(S!OrderIn(disk.set)) /\ Elements(S!OrderIn(disk.set)) = DOMAIN disk.rows
OrderInv == stops = 0 => IF mode = "down" THEN OrderedOnDisk ELSE Ordered

OrdersInv == ListedInv /\ SnapshotInv /\ OrderInv

LEMMA RangeIs ==
    ASSUME NEW s \in Seq(Ids)
    PROVE  /\ S!Range(s) = Elements(s) /\ (S!IsInjective(s) <=> Once(s)) /\ Elements(s) \subseteq Ids
           /\ DOMAIN s = 1 .. Len(s) /\ Len(s) \in Nat
<1>1. DOMAIN s = 1 .. Len(s) /\ Len(s) \in Nat /\ \A n \in 1 .. Len(s) : s[n] \in Ids
    BY LenProperties, ElementOfSeq
<1> QED BY <1>1 DEF S!Range, S!IsInjective, Elements, Once

LEMMA OrderOf ==
    ASSUME NEW f, NEW k, NEW v
    PROVE  S!OrderIn(S!Put(f, k, v)) = IF k = S!Order THEN v ELSE S!OrderIn(f)
BY DEF S!OrderIn, S!Put, S!Has

LEMMA OrderLeft ==
    ASSUME NEW f, NEW k, k # S!Order
    PROVE  S!OrderIn(S!Without(f, k)) = S!OrderIn(f)
BY DEF S!OrderIn, S!Without, S!Restrict, S!Has

LEMMA NoOrder == S!OrderIn(S!Nothing) = <<>>
BY Nobody DEF S!OrderIn, S!Has

LEMMA OrderIsNoId == S!Order \notin Ids
BY IdsAreNat DEF S!Order

\* What touches neither the list nor the order.
LEMMA Apart ==
    ASSUME OrdersInv, UNCHANGED <<list, stops>>, DOMAIN rows' = DOMAIN rows,
           S!OrderIn(set') = S!OrderIn(set), mode # "down", mode' # "down",
           S!OrderIn(disk'.set) \in Seq(Ids), SnapshotInv'
    PROVE  OrdersInv'
<1>1. S!OrderIn(set)' = S!OrderIn(set) /\ S!OrderIn(disk.set)' \in Seq(Ids)
    BY DEF S!OrderIn, S!Has
<1>2. ListedInv'
    BY <1>1 DEF OrdersInv, ListedInv
<1>3. Ordered' <=> Ordered
    BY <1>1 DEF Ordered
<1>4. OrderInv'
    BY <1>3 DEF OrdersInv, OrderInv
<1> QED BY <1>2, <1>4 DEF OrdersInv

LEMMA SnapshotKept ==
    ASSUME SnapshotInv, NEW t \in S!Tasks, \A u \in S!Tasks : u # t => task'[u] = task[u],
           OnSettings(t)' => \A e \in task'[t].todo : e.key = S!Order => e.value \in Seq(Ids)
    PROVE  SnapshotInv'
<1>1. ASSUME NEW u \in S!Tasks, u # t, OnSettings(u)'
      PROVE  OnSettings(u) /\ task'[u] = task[u]
    BY <1>1 DEF OnSettings
<1> QED BY <1>1 DEF SnapshotInv

LEMMA FlushOrders ==
    ASSUME StoreInv, OrdersInv, NEW t \in S!Tasks, S!Flush(t) \/ S!Fails(t)
    PROVE  OrdersInv'
<1>1. UNCHANGED <<mode, list, rows, set, rev, stops, reused>>
    BY DEF S!Flush, S!Fails, S!FlushSettings, S!SaveSetting, S!AckSetting, S!FlushProfiles, S!SaveProfileRow,
           S!AckRow, S!BeginRemove, S!DeleteRow, S!CleanFile, S!Finish, S!Cached
<1>2. mode # "down"
    BY DEF S!Flush, S!Fails, S!FlushSettings, S!SaveSetting, S!AckSetting, S!FlushProfiles, S!SaveProfileRow,
           S!AckRow, S!BeginRemove, S!DeleteRow, S!CleanFile, S!Finish, S!At, StoreInv, ModeInv
<1>3. IsTask(task[t]) /\ task = [u \in S!Tasks |-> task[u]]
    BY DEF StoreInv, ShapeInv
<1>4. S!OrderIn(set) = S!OrderIn(set') /\ S!OrderIn(set) \in Seq(Ids) /\ S!OrderIn(disk.set) \in Seq(Ids)
    BY <1>1 DEF OrdersInv, ListedInv
<1>5. ASSUME NEW s, S!Step(t, s)
      PROVE  task'[t] = s /\ \A u \in S!Tasks : u # t => task'[u] = task[u]
    BY <1>3, <1>5 DEF S!Step
<1>6. ASSUME NEW s, S!Step(t, s), s.step \notin {"set", "ackSet"} \/ (OnSettings(t) /\ s.todo \subseteq task[t].todo),
             S!OrderIn(disk'.set) \in Seq(Ids)
      PROVE  OrdersInv'
    <2>1. task'[t] = s /\ \A u \in S!Tasks : u # t => task'[u] = task[u]
        BY <1>5, <1>6
    <2>2. OnSettings(t)' => \A e \in task'[t].todo : e.key = S!Order => e.value \in Seq(Ids)
        BY <1>6, <2>1 DEF OnSettings, OrdersInv, SnapshotInv
    <2>3. SnapshotInv'
        BY <2>1, <2>2, SnapshotKept DEF OrdersInv
    <2> QED BY <1>1, <1>2, <1>4, <1>6, <2>3, Apart
<1>7. CASE S!FlushSettings(t)
    <2> DEFINE owner(k) == IF k \in Ids THEN <<rows[k]>> ELSE <<>>
               entry(k) == [key |-> k, value |-> set[k], revision |-> dirty[k], owner |-> owner(k)]
               ready == {d \in DOMAIN dirty : S!Has(set, d) /\ (d \in Ids => S!Has(rows, d))}
               s == [task[t] EXCEPT !.step = "set", !.todo = {entry(k) : k \in ready}]
    <2>1. S!Step(t, s) /\ disk' = disk
        BY <1>7 DEF S!FlushSettings
    <2>2. s.todo = {entry(k) : k \in ready}
        BY <1>3 DEF IsTask
    <2>3. ASSUME NEW k \in ready, k = S!Order PROVE set[k] \in Seq(Ids)
        BY <1>4, <2>3 DEF S!OrderIn, S!Has
    <2>4. ASSUME NEW k \in ready PROVE entry(k).key = k /\ entry(k).value = set[k]
        OBVIOUS
    <2>5. \A e \in s.todo : e.key = S!Order => e.value \in Seq(Ids)
        <3> HIDE DEF entry, ready, s
        <3> QED BY <2>2, <2>3, <2>4
    <2> HIDE DEF s
    <2>6. task'[t] = s /\ \A u \in S!Tasks : u # t => task'[u] = task[u]
        BY <1>5, <2>1
    <2>7. SnapshotInv'
        BY <2>5, <2>6, SnapshotKept DEF OrdersInv
    <2> QED BY <1>1, <1>2, <1>4, <2>1, <2>7, Apart
<1>8. CASE S!SaveSetting(t)
    <2>0. PICK e \in task[t].todo :
              /\ disk' = [rows |-> IF e.owner = <<>> \/ S!Has(disk.rows, e.key) THEN disk.rows
                                   ELSE S!Put(disk.rows, e.key, e.owner[1]),
                          set |-> S!Put(disk.set, e.key, e.value)]
              /\ S!Step(t, [task[t] EXCEPT !.step = "ackSet", !.cur = <<e>>])
        BY <1>8 DEF S!SaveSetting
    <2>1. /\ disk'.set = S!Put(disk.set, e.key, e.value)
          /\ S!Step(t, [task[t] EXCEPT !.step = "ackSet", !.cur = <<e>>])
        BY <2>0
    <2>2. OnSettings(t)
        BY <1>8 DEF S!SaveSetting, OnSettings
    <2>3. e.key = S!Order => e.value \in Seq(Ids)
        BY <2>2 DEF OrdersInv, SnapshotInv
    <2>4. S!OrderIn(disk'.set) \in Seq(Ids)
        BY <1>4, <2>1, <2>3, OrderOf
    <2> DEFINE s == [task[t] EXCEPT !.step = "ackSet", !.cur = <<e>>]
    <2>5. s.todo = task[t].todo /\ S!Step(t, s)
        BY <1>3, <2>1 DEF IsTask
    <2> HIDE DEF s
    <2> QED BY <1>6, <2>2, <2>4, <2>5
<1>9. CASE S!AckSetting(t)
    <2> DEFINE e == task[t].cur[1]  s == [task[t] EXCEPT !.step = "set", !.todo = @ \ {e}, !.cur = <<>>]
    <2>1. S!Step(t, s) /\ disk' = disk /\ OnSettings(t)
        BY <1>9 DEF S!AckSetting, OnSettings
    <2>2. s.todo \subseteq task[t].todo
        BY <1>3 DEF IsTask
    <2> HIDE DEF s
    <2> QED BY <1>4, <1>6, <2>1, <2>2
<1>10. ASSUME disk'.set = disk.set, NEW s, S!Step(t, s), s.step \notin {"set", "ackSet"} PROVE OrdersInv'
    BY <1>4, <1>6, <1>10
<1>11. CASE S!FlushProfiles(t)
    <2>1. disk' = disk /\ \E a, b : S!Step(t, [task[t] EXCEPT !.step = "row", !.todo = a, !.cut = b])
        BY <1>11 DEF S!FlushProfiles
    <2>2. PICK a, b : S!Step(t, [task[t] EXCEPT !.step = "row", !.todo = a, !.cut = b])
        BY <2>1
    <2> DEFINE s == [task[t] EXCEPT !.step = "row", !.todo = a, !.cut = b]
    <2>3. s.step = "row" /\ S!Step(t, s)
        BY <1>3, <2>2 DEF IsTask
    <2> HIDE DEF s
    <2> QED BY <1>10, <2>1, <2>3
<1>12. CASE S!SaveProfileRow(t)
    <2>1. PICK e \in task[t].todo : /\ disk' = [disk EXCEPT !.rows = S!Put(@, e.id, e.row)]
                                    /\ S!Step(t, [task[t] EXCEPT !.step = "ackRow", !.cur = <<e>>])
        BY <1>12 DEF S!SaveProfileRow
    <2> DEFINE s == [task[t] EXCEPT !.step = "ackRow", !.cur = <<e>>]
    <2>2. s.step = "ackRow" /\ S!Step(t, s)
        BY <1>3, <2>1 DEF IsTask
    <2>3. disk'.set = disk.set
        BY <2>1 DEF StoreInv, ShapeInv
    <2> HIDE DEF s
    <2> QED BY <1>10, <2>2, <2>3
<1>13. CASE S!AckRow(t)
    <2> DEFINE e == task[t].cur[1]  s == [task[t] EXCEPT !.step = "row", !.todo = @ \ {e}, !.cur = <<>>]
    <2>1. S!Step(t, s) /\ disk' = disk
        BY <1>13 DEF S!AckRow
    <2>2. s.step = "row"
        BY <1>3 DEF IsTask
    <2> HIDE DEF s
    <2> QED BY <1>10, <2>1, <2>2
<1>14. CASE S!BeginRemove(t)
    <2>1. PICK d \in task[t].cut :
              S!Step(t, [task[t] EXCEPT !.cut = @ \ {d},
                                        !.step = IF S!StillGone(d) THEN "delete" ELSE "row",
                                        !.cur = IF S!StillGone(d) THEN <<d>> ELSE <<>>])
        BY <1>14 DEF S!BeginRemove
    <2> DEFINE s == [task[t] EXCEPT !.cut = @ \ {d},
                                    !.step = IF S!StillGone(d) THEN "delete" ELSE "row",
                                    !.cur = IF S!StillGone(d) THEN <<d>> ELSE <<>>]
    <2>2. S!Step(t, s) /\ disk' = disk
        BY <1>14, <2>1 DEF S!BeginRemove
    <2>3. s.step \in {"delete", "row"}
        BY <1>3 DEF IsTask
    <2> HIDE DEF s
    <2> QED BY <1>10, <2>2, <2>3
<1>15. CASE S!DeleteRow(t)
    <2> DEFINE d == task[t].cur[1]
               s == [task[t] EXCEPT !.step = "clean",
                                    !.cur = <<d, {disk'.rows[i].file : i \in DOMAIN disk'.rows}>>]
    <2>1. S!Step(t, s) /\ disk'.set = S!Without(disk.set, d.id) /\ task[t].step = "delete"
        BY <1>15 DEF S!DeleteRow
    <2>2. d.id \in Ids
        BY <2>1 DEF StoreInv, ProfilesInv, OnProfiles
    <2>3. S!OrderIn(disk'.set) \in Seq(Ids)
        <3> HIDE DEF d
        <3> QED BY <1>4, <2>1, <2>2, OrderLeft, OrderIsNoId
    <2>4. s.step = "clean"
        BY <1>3 DEF IsTask
    <2> HIDE DEF s
    <2> QED BY <1>6, <2>1, <2>3, <2>4
<1>16. CASE S!CleanFile(t)
    <2> DEFINE s == [task[t] EXCEPT !.step = "row", !.cur = <<>>]
    <2>1. S!Step(t, s) /\ disk' = disk
        BY <1>16 DEF S!CleanFile
    <2>2. s.step = "row"
        BY <1>3 DEF IsTask
    <2> HIDE DEF s
    <2> QED BY <1>10, <2>1, <2>2
<1>17. CASE S!Fails(t) \/ S!Finish(t)
    <2>1. disk' = disk /\ \E ok : S!Step(t, [S!Idle EXCEPT !.pc = task[t].pc, !.step = "done", !.ok = ok])
        BY <1>17 DEF S!Fails, S!Finish, S!Return
    <2>2. PICK ok : S!Step(t, [S!Idle EXCEPT !.pc = task[t].pc, !.step = "done", !.ok = ok])
        BY <2>1
    <2> DEFINE s == [S!Idle EXCEPT !.pc = task[t].pc, !.step = "done", !.ok = ok]
    <2>3. s.step = "done" /\ S!Step(t, s)
        BY <2>2 DEF S!Idle
    <2> HIDE DEF s
    <2> QED BY <1>10, <2>1, <2>3
<1> QED BY <1>7, <1>8, <1>9, <1>11, <1>12, <1>13, <1>14, <1>15, <1>16, <1>17 DEF S!Flush

LEMMA EndOrders ==
    ASSUME StoreInv, OrdersInv, S!Pump \/ S!End
    PROVE  OrdersInv'
<1>1. /\ UNCHANGED <<list, rows, set, disk, stops>> /\ mode # "down" /\ mode' # "down"
    <2>1. S!Quietly
        BY DEF S!Pump, S!End, S!Exit, S!Freeze, S!Install, S!Resume
    <2>2. mode # "down"
        BY DEF S!Pump, S!End, S!Exit, S!Freeze, S!Install, S!Resume, S!At, S!Tasks, StoreInv, ModeInv
    <2>3. mode' \in {mode, "open", "frozen", "handed"}
        BY DEF S!Pump, S!End, S!Exit, S!Freeze, S!Install, S!Resume
    <2> QED BY <2>1, <2>2, <2>3 DEF S!Quietly
<1>2. PICK t \in S!Tasks : \E s : S!Step(t, s) /\ s.step = "idle"
    <2>1. "pump" \in S!Tasks /\ "end" \in S!Tasks /\ IsTask(task["end"])
        BY DEF S!Tasks, StoreInv, ShapeInv
    <2>2. ASSUME NEW t \in S!Tasks, NEW pc, S!Goto(t, pc) PROVE \E s : S!Step(t, s) /\ s.step = "idle"
        <3>1. [S!Idle EXCEPT !.pc = pc].step = "idle"
            BY DEF S!Idle
        <3> QED BY <2>2, <3>1 DEF S!Goto
    <2>3. ASSUME NEW pc PROVE [task["end"] EXCEPT !.pc = pc, !.step = "idle"].step = "idle"
        BY <2>1 DEF IsTask
    <2>4. CASE S!Pump
        BY <2>1, <2>2, <2>4 DEF S!Pump
    <2>5. CASE S!Exit
        <3>1. [S!Idle EXCEPT !.pc = "settings"].step = "idle"
            BY DEF S!Idle
        <3> QED BY <2>1, <2>3, <2>5, <3>1 DEF S!Exit
    <2>6. CASE S!Freeze
        BY <2>1, <2>2, <2>6 DEF S!Freeze
    <2>7. CASE S!Install
        <3>1. CASE S!Goto("end", "quit")
            BY <2>1, <2>2, <3>1
        <3>2. CASE S!Step("end", [task["end"] EXCEPT !.pc = "profiles2", !.step = "idle"])
            BY <2>1, <2>3, <3>2
        <3> QED BY <2>7, <3>1, <3>2 DEF S!Install
    <2>8. CASE S!Resume
        BY <2>1, <2>2, <2>8 DEF S!Resume
    <2> QED BY <2>4, <2>5, <2>6, <2>7, <2>8 DEF S!End
<1>3. PICK s : S!Step(t, s) /\ s.step = "idle"
    BY <1>2
<1>4. task'[t] = s /\ \A u \in S!Tasks : u # t => task'[u] = task[u]
    BY <1>3 DEF S!Step, StoreInv, ShapeInv
<1>5. SnapshotInv'
    BY <1>3, <1>4, SnapshotKept DEF OnSettings, OrdersInv
<1>6. S!OrderIn(set') = S!OrderIn(set) /\ S!OrderIn(disk'.set) \in Seq(Ids) /\ DOMAIN rows' = DOMAIN rows
    BY <1>1 DEF OrdersInv, ListedInv
<1> QED BY <1>1, <1>5, <1>6, Apart

LEMMA SettingOrders ==
    ASSUME StoreInv, OrdersInv, NEW k \in S!Keys \ {S!Order}, S!SetSetting(k)
    PROVE  OrdersInv'
<1>1. /\ UNCHANGED <<mode, list, rows, disk, task, stops>> /\ \E v : set' = S!Put(set, k, v)
    BY DEF S!SetSetting
<1>2. S!OrderIn(set') = S!OrderIn(set)
    BY <1>1, OrderOf
<1>3. S!OrderIn(set)' = S!OrderIn(set) /\ S!OrderIn(disk.set)' = S!OrderIn(disk.set)
    BY <1>1, <1>2 DEF S!OrderIn, S!Has
<1>4. SnapshotInv'
    BY <1>1 DEF OrdersInv, SnapshotInv, OnSettings
<1>5. ListedInv' /\ OrderInv'
    BY <1>1, <1>3 DEF OrdersInv, ListedInv, OrderInv, Ordered, OrderedOnDisk
<1> QED BY <1>4, <1>5 DEF OrdersInv

\* What a mutation leaves of tasks and disk.
LEMMA ListChanges ==
    ASSUME OrdersInv, UNCHANGED <<mode, disk, task, stops>>, mode = "open", list' \in Seq(Ids), Once(list'),
           Elements(list') = DOMAIN rows', S!OrderIn(set') \in Seq(Ids),
           stops = 0 => \/ S!OrderIn(set') = <<>> /\ Ascends(list')
                        \/ S!OrderIn(set') = list'
    PROVE  OrdersInv'
<1>1. S!OrderIn(set)' = S!OrderIn(set') /\ S!OrderIn(disk.set)' = S!OrderIn(disk.set)
    BY DEF S!OrderIn, S!Has
<1>2. Once(list)' = Once(list') /\ Ascends(list)' = Ascends(list') /\ Elements(list)' = Elements(list')
    BY DEF Once, Ascends, Elements
<1>3. SnapshotInv'
    BY DEF OrdersInv, SnapshotInv, OnSettings
<1>4. ListedInv'
    BY <1>1, <1>2 DEF OrdersInv, ListedInv
<1>5. OrderInv'
    BY <1>1, <1>2 DEF OrderInv, Ordered
<1> QED BY <1>3, <1>4, <1>5 DEF OrdersInv

LEMMA RowOrders ==
    ASSUME StoreInv, OrdersInv, NEW i \in Ids, S!SaveRow(i) \/ S!SetSelected(i)
    PROVE  OrdersInv'
<1>1. /\ UNCHANGED <<mode, list, set, disk, task, stops>> /\ mode = "open" /\ DOMAIN rows' = DOMAIN rows
    BY DEF S!SaveRow, S!SetSelected, S!Writable, S!Has
<1>2. S!OrderIn(set') = S!OrderIn(set)
    BY <1>1
<1>3. SnapshotInv'
    BY <1>1 DEF OrdersInv, SnapshotInv, OnSettings
<1> QED BY <1>1, <1>2, <1>3, Apart DEF OrdersInv, ListedInv

LEMMA OneMore ==
    ASSUME NEW s \in Seq(Ids), NEW i \in Ids, i \notin Elements(s), Once(s)
    PROVE  Append(s, i) \in Seq(Ids) /\ Elements(Append(s, i)) = Elements(s) \cup {i} /\ Once(Append(s, i))
<1> DEFINE a == Append(s, i)
<1>1. /\ a \in Seq(Ids) /\ Len(a) = Len(s) + 1 /\ Len(s) \in Nat
      /\ \A n \in 1 .. Len(s) : a[n] = s[n]
      /\ a[Len(s) + 1] = i
    BY AppendProperties, LenProperties
<1> HIDE DEF a
<1>2. \A n \in 1 .. Len(a) : n \in 1 .. Len(s) \/ n = Len(s) + 1
    BY <1>1
<1>3. Elements(a) = Elements(s) \cup {i}
    <2>1. \A e : e \in Elements(a) <=> \E n \in 1 .. Len(a) : e = a[n]
        BY DEF Elements
    <2>2. \A e : e \in Elements(s) <=> \E n \in 1 .. Len(s) : e = s[n]
        BY DEF Elements
    <2>3. Len(s) + 1 \in 1 .. Len(a) /\ \A n \in 1 .. Len(s) : n \in 1 .. Len(a)
        BY <1>1
    <2>4. \A e : e \in Elements(a) <=> e \in Elements(s) \/ e = i
        BY <1>1, <1>2, <2>1, <2>2, <2>3
    <2> QED BY <2>4
<1>4. \A n \in 1 .. Len(s) : s[n] \in Elements(s)
    BY DEF Elements
<1>5. Once(a)
    BY <1>1, <1>2, <1>4 DEF Once
<1> QED BY <1>1, <1>3, <1>5 DEF a

\* The id of a new profile is no profile's.
LEMMA NewIsNew ==
    ASSUME ListedInv
    PROVE  S!NewId \notin Elements(list)
<1>1. S!Range(list) = Elements(list) /\ Elements(list) \subseteq Ids
    BY RangeIs DEF ListedInv
<1>2. CASE list = <<>>
    BY <1>2 DEF Elements
<1>3. CASE list # <<>>
    <2>1. IsFiniteSet(Elements(list)) /\ Elements(list) \subseteq Nat
        BY <1>1, IdsAreNat, FS_Subset
    <2>2. Elements(list) # {}
        <3>1. Len(list) \in Nat /\ Len(list) # 0
            BY <1>3, EmptySeq, LenProperties DEF ListedInv
        <3>2. 1 \in 1 .. Len(list)
            BY <3>1
        <3> QED BY <3>2 DEF Elements
    <2> DEFINE top == CHOOSE i \in Elements(list) : \A j \in Elements(list) : j <= i
    <2>3. top \in Elements(list) /\ \A j \in Elements(list) : j <= top
        <3>1. \E i \in Elements(list) : \A j \in Elements(list) : j <= i
            BY <2>1, <2>2, GreatestIs
        <3> QED BY <3>1
    <2>4. S!NewId = 1 + top
        BY <1>1, <1>3 DEF S!NewId
    <2> HIDE DEF top
    <2>5. top \in Nat
        BY <2>1, <2>3
    <2>6. ~(1 + top <= top)
        BY <2>5
    <2> QED BY <2>3, <2>4, <2>6
<1> QED BY <1>2, <1>3

LEMMA NewOrders ==
    ASSUME StoreInv, OrdersInv, S!SaveNew
    PROVE  OrdersInv'
<1> DEFINE i == S!NewId  order == S!OrderIn(set)
<1>1. /\ list \in Seq(Ids) /\ Once(list) /\ order \in Seq(Ids)
      /\ i \in Ids /\ i \notin Elements(list) /\ mode = "open" /\ Elements(list) = DOMAIN rows
      /\ S!Range(list) = Elements(list) /\ Elements(list) \subseteq Ids
    BY NewIsNew, RangeIs DEF S!SaveNew, S!Writable, OrdersInv, ListedInv
<1>2. /\ UNCHANGED <<mode, disk, task, stops>> /\ \E v : rows' = S!Put(rows, i, v)
      /\ \/ order = <<>> /\ list' = S!Sorted(S!Range(list) \cup {i}, <<>>) /\ set' = set
         \/ order # <<>> /\ list' = Append(list, i) /\ set' = S!Put(set, S!Order, Append(order, i))
    BY DEF S!SaveNew
<1> HIDE DEF i
<1>3. DOMAIN rows' = Elements(list) \cup {i}
    BY <1>1, <1>2 DEF S!Put
<1>4. CASE order = <<>>
    <2>1. list' = S!Sorted(Elements(list) \cup {i}, <<>>) /\ S!OrderIn(set') = <<>>
        BY <1>1, <1>2, <1>4
    <2>2. <<>> \in Seq(Ids) /\ Elements(list) \cup {i} \in SUBSET Ids
        BY <1>1
    <2>3. list' \in Seq(Ids) /\ Elements(list') = Elements(list) \cup {i} /\ Once(list') /\ Ascends(list')
        BY <2>1, <2>2, SortedIs
    <2> QED BY <1>1, <1>2, <1>3, <2>1, <2>2, <2>3, ListChanges
<1>5. CASE order # <<>>
    <2> DEFINE longer == Append(order, i)
    <2>0. list' = Append(list, i) /\ set' = S!Put(set, S!Order, longer)
        BY <1>2, <1>5
    <2>1. list' = Append(list, i) /\ S!OrderIn(set') = longer
        <3> HIDE DEF longer
        <3> QED BY <2>0, OrderOf
    <2>2. list' \in Seq(Ids) /\ Elements(list') = Elements(list) \cup {i} /\ Once(list')
        BY <1>1, <2>1, OneMore
    <2>3. Append(order, i) \in Seq(Ids)
        BY <1>1, AppendProperties
    <2>4. stops = 0 => order = list
        BY <1>1, <1>5 DEF OrdersInv, OrderInv, Ordered
    <2> QED BY <1>1, <1>2, <1>3, <2>1, <2>2, <2>3, <2>4, ListChanges
<1> QED BY <1>4, <1>5

LEMMA DeletedOrders ==
    ASSUME StoreInv, OrdersInv, NEW i \in Ids, NEW b \in BOOLEAN, S!DeleteProfile(i, b)
    PROVE  OrdersInv'
<1> DEFINE order == S!OrderIn(set)  left(s) == Kept(s, Ids \ {i})
<1>1. /\ list \in Seq(Ids) /\ Once(list) /\ order \in Seq(Ids) /\ mode = "open"
      /\ Elements(list) = DOMAIN rows /\ Elements(list) \subseteq Ids
    BY RangeIs DEF S!DeleteProfile, S!Writable, OrdersInv, ListedInv
<1>2. /\ UNCHANGED <<mode, disk, task, stops>> /\ rows' = S!Without(rows, i) /\ list' = left(list)
      /\ \/ order = <<>> /\ set' = S!Without(set, i)
         \/ order # <<>> /\ set' = S!Put(S!Without(set, i), S!Order, left(order))
    BY SameKept DEF S!DeleteProfile
<1>3. DOMAIN rows' = DOMAIN rows \ {i}
    BY <1>2 DEF S!Without, S!Restrict
<1>4. /\ left(list) \in Seq(Ids) /\ left(order) \in Seq(Ids) /\ Elements(left(list)) = Elements(list) \cap (Ids \ {i})
      /\ Once(left(list))
      /\ list \in Seq(Nat) /\ Ascends(list) => Ascends(left(list))
    BY <1>1, KeptIs DEF Once, Ascends
<1>5. list \in Seq(Nat)
    <2>1. Ids \subseteq Nat
        BY IdsAreNat
    <2>2. DOMAIN list = 1 .. Len(list) /\ Len(list) \in Nat /\ \A n \in 1 .. Len(list) : list[n] \in Ids
        BY <1>1, LenProperties, ElementOfSeq
    <2>3. list = [n \in 1 .. Len(list) |-> list[n]]
        BY <1>1, <2>2
    <2>4. list \in [1 .. Len(list) -> Nat]
        BY <2>1, <2>2, <2>3
    <2> QED BY <2>2, <2>4, SeqDef
<1>6. Elements(list') = DOMAIN rows'
    BY <1>1, <1>2, <1>3, <1>4
<1> HIDE DEF left
<1>7. CASE order = <<>>
    <2>1. S!OrderIn(set') = <<>> /\ <<>> \in Seq(Ids)
        BY <1>2, <1>7, OrderLeft, OrderIsNoId
    <2>2. stops = 0 => Ascends(list)
        <3>1. <<>> \in Seq(Ids) /\ order = list => Ascends(list)
            BY <1>7 DEF Ascends
        <3> QED BY <1>1, <3>1 DEF OrdersInv, OrderInv, Ordered
    <2> QED BY <1>1, <1>2, <1>4, <1>5, <1>6, <2>1, <2>2, ListChanges
<1>8. CASE order # <<>>
    <2>1. S!OrderIn(set') = left(order)
        BY <1>2, <1>8, OrderOf
    <2>2. stops = 0 => order = list
        BY <1>1, <1>8 DEF OrdersInv, OrderInv, Ordered
    <2> QED BY <1>1, <1>2, <1>4, <1>6, <2>1, <2>2, ListChanges
<1> QED BY <1>7, <1>8

LEMMA MovedOrders ==
    ASSUME StoreInv, OrdersInv, S!SetProfileOrder(S!Reverse(list))
    PROVE  OrdersInv'
<1> DEFINE order == S!Reverse(list)
<1>1. /\ list \in Seq(Ids) /\ mode = "open" /\ Elements(list) = DOMAIN rows
      /\ S!Range(list) = Elements(list) /\ Elements(list) \in SUBSET Ids
      /\ Len(list) \in Nat /\ \A n \in 1 .. Len(list) : list[n] \in Ids
    BY RangeIs, ElementOfSeq DEF S!SetProfileOrder, S!Writable, OrdersInv, ListedInv
<1>2. order \in Seq(Ids)
    <2>1. order = [n \in 1 .. Len(list) |-> list[(Len(list) - n) + 1]]
        BY DEF S!Reverse
    <2>2. \A n \in 1 .. Len(list) : (Len(list) - n) + 1 \in 1 .. Len(list)
        BY <1>1
    <2>3. order \in [1 .. Len(list) -> Ids]
        BY <1>1, <2>1, <2>2
    <2> QED BY <1>1, <2>3, SeqDef
<1> HIDE DEF order
<1>3. /\ UNCHANGED <<mode, disk, task, stops, rows>> /\ list' = S!Sorted(S!Range(list), order)
      /\ set' = S!Put(set, S!Order, list')
    BY DEF S!SetProfileOrder, order
<1>4. list' \in Seq(Ids) /\ Elements(list') = Elements(list) /\ Once(list')
    BY <1>1, <1>2, <1>3, SortedIs
<1>5. S!OrderIn(set') = list'
    BY <1>3, OrderOf
<1> QED BY <1>1, <1>3, <1>4, <1>5, ListChanges

LEMMA StopOrders ==
    ASSUME StoreInv, OrdersInv, S!Stop
    PROVE  OrdersInv'
<1>1. /\ list' = <<>> /\ set' = disk.set /\ disk' = disk /\ mode' = "down" /\ stops' = stops + 1
      /\ task' = [t \in S!Tasks |-> S!Idle] /\ stops \in Nat /\ S!OrderIn(disk.set) \in Seq(Ids)
    BY DEF S!Stop, OrdersInv, ListedInv
<1>2. SnapshotInv'
    BY <1>1, AtRest DEF SnapshotInv
<1>3. <<>> \in Seq(Ids) /\ Once(<<>>)
    BY DEF Once
<1>4. S!OrderIn(set)' = S!OrderIn(disk.set) /\ S!OrderIn(disk.set)' = S!OrderIn(disk.set)
    BY <1>1 DEF S!OrderIn, S!Has
<1>5. Once(list)' /\ list' \in Seq(Ids)
    BY <1>1, <1>3 DEF Once
<1>6. ListedInv'
    BY <1>1, <1>4, <1>5 DEF ListedInv
<1>7. stops' # 0
    BY <1>1
<1> QED BY <1>2, <1>6, <1>7 DEF OrdersInv, OrderInv

LEMMA OpenOrders ==
    ASSUME StoreInv, OrdersInv, S!Open
    PROVE  OrdersInv'
<1> DEFINE order == S!OrderIn(disk.set)
<1>1. /\ mode = "down" /\ mode' = "open" /\ rows' = disk.rows /\ UNCHANGED <<disk, task, stops>>
      /\ set' = [k \in DOMAIN disk.set \cup DOMAIN dirty |-> IF S!Has(dirty, k) THEN set[k] ELSE disk.set[k]]
      /\ list' = S!Sorted(DOMAIN disk.rows, S!OrderIn(set'))
    BY DEF S!Open
<1>2. S!Order \notin DOMAIN dirty
    <2>1. S!Order # S!Plain
        BY DEF S!Order, S!Plain
    <2> QED BY <1>1, <2>1 DEF StoreInv, ModeInv
<1>3. S!OrderIn(set') = order
    BY <1>1, <1>2 DEF S!OrderIn, S!Has
<1>4. order \in Seq(Ids) /\ DOMAIN disk.rows \in SUBSET Ids
    BY DEF OrdersInv, ListedInv, StoreInv, ShapeInv
<1>5. list' = S!Sorted(DOMAIN disk.rows, order)
    BY <1>1, <1>3
<1>6. /\ list' \in Seq(Ids) /\ Elements(list') = DOMAIN rows' /\ Once(list')
      /\ order = <<>> => Ascends(list')
    BY <1>1, <1>4, <1>5, SortedIs
<1>7. stops = 0 => \/ order = <<>> /\ Ascends(list')
                   \/ order = list'
    <2>1. CASE Once(order) /\ Elements(order) = DOMAIN disk.rows
        <3>1. S!Sorted(Elements(order), order) = order
            BY <1>4, <2>1, SortedSelf
        <3> QED BY <1>5, <2>1, <3>1
    <2> QED BY <1>1, <1>6, <2>1 DEF OrdersInv, OrderInv, OrderedOnDisk
<1>8. S!OrderIn(set)' = order /\ S!OrderIn(disk.set)' = order
    BY <1>1, <1>3 DEF S!OrderIn, S!Has
<1>9. Once(list)' = Once(list') /\ Ascends(list)' = Ascends(list') /\ Elements(list)' = Elements(list')
    BY DEF Once, Ascends, Elements
<1>10. SnapshotInv'
    BY <1>1 DEF OrdersInv, SnapshotInv, OnSettings
<1>11. ListedInv'
    BY <1>1, <1>4, <1>6, <1>8, <1>9 DEF OrdersInv, ListedInv
<1>12. OrderInv'
    BY <1>1, <1>7, <1>8, <1>9 DEF OrderInv, Ordered
<1> QED BY <1>10, <1>11, <1>12 DEF OrdersInv

LEMMA InitOrders ==
    ASSUME S!Init
    PROVE  OrdersInv
<1>1. 1 \in Ids /\ 2 \in Ids /\ S!Order # 2
    BY IdsAreNumbers DEF S!Order
<1> DEFINE first == S!Put(S!Nothing, 1, [file |-> 1, selected |-> TRUE, version |-> 0])
           second == [file |-> 1, selected |-> FALSE, version |-> 0]
           two == S!Put(first, 2, second)
           order == S!Put(S!Nothing, S!Order, <<2, 1>>)
           rules == S!Put(order, 2, <<0>>)
<1>2. \/ disk = [rows |-> two, set |-> rules]
      \/ disk = [rows |-> first, set |-> S!Nothing]
    BY DEF S!Init
<1>3. /\ mode = "down" /\ list = <<>> /\ set = disk.set /\ stops = 0
      /\ task = [t \in S!Tasks |-> S!Idle]
    BY DEF S!Init
<1>4. DOMAIN two = {1, 2}
    BY Nobody DEF S!Put
<1>5. S!OrderIn(rules) = <<2, 1>>
    <2>1. S!OrderIn(order) = <<2, 1>>
        BY OrderOf
    <2> HIDE DEF order
    <2> QED BY <1>1, <2>1, OrderOf
<1>6. /\ <<2, 1>> \in Seq(Ids) /\ Once(<<2, 1>>) /\ Elements(<<2, 1>>) = {1, 2}
      /\ <<>> \in Seq(Ids) /\ Once(<<>>)
    <2>1. Len(<<2, 1>>) = 2 /\ <<2, 1>>[1] = 2 /\ <<2, 1>>[2] = 1 /\ <<2, 1>> \in Seq(Ids)
        BY <1>1
    <2>2. Once(<<2, 1>>)
        BY <2>1 DEF Once
    <2>3. Elements(<<2, 1>>) = {1, 2}
        <3>1. \A n : n \in 1 .. 2 <=> n = 1 \/ n = 2
            OBVIOUS
        <3>2. \A e : e \in Elements(<<2, 1>>) <=> \E n \in 1 .. 2 : e = <<2, 1>>[n]
            BY <2>1 DEF Elements
        <3>3. \A e : e \in Elements(<<2, 1>>) <=> e = 1 \/ e = 2
            BY <2>1, <3>1, <3>2
        <3> QED BY <3>3
    <2> QED BY <2>1, <2>2, <2>3 DEF Once
<1> HIDE DEF first, two, order, rules
<1>7. OrderedOnDisk /\ S!OrderIn(disk.set) \in Seq(Ids)
    <2>1. CASE disk = [rows |-> two, set |-> rules]
        <3>1. S!OrderIn(disk.set) = <<2, 1>> /\ DOMAIN disk.rows = {1, 2}
            BY <1>4, <1>5, <2>1
        <3> QED BY <1>6, <3>1 DEF OrderedOnDisk
    <2>2. CASE disk = [rows |-> first, set |-> S!Nothing]
        <3>1. S!OrderIn(disk.set) = <<>>
            BY <2>2, NoOrder
        <3> QED BY <1>6, <3>1 DEF OrderedOnDisk
    <2> QED BY <1>2, <2>1, <2>2
<1>8. SnapshotInv
    <2>1. \A t \in S!Tasks : task[t].step = "idle"
        BY <1>3 DEF S!Idle
    <2> QED BY <2>1 DEF SnapshotInv, OnSettings
<1> QED BY <1>3, <1>6, <1>7, <1>8 DEF OrdersInv, ListedInv, OrderInv

LEMMA OrdersStep ==
    ASSUME StoreInv, OrdersInv, [S!Next]_(S!vars)
    PROVE  OrdersInv'
<1>1. CASE S!Mutate
    BY <1>1, SettingOrders, NewOrders, RowOrders, DeletedOrders, MovedOrders DEF S!Mutate
<1>2. CASE S!Work      BY <1>2, EndOrders, FlushOrders DEF S!Work
<1>3. CASE \E t \in S!Tasks : S!Fails(t)    BY <1>3, FlushOrders
<1>4. CASE S!End       BY <1>4, EndOrders
<1>5. CASE S!Stop      BY <1>5, StopOrders
<1>6. CASE S!Open      BY <1>6, OpenOrders
<1>7. CASE UNCHANGED S!vars
    <2>1. UNCHANGED <<mode, list, rows, set, disk, task, stops>>
        BY <1>7 DEF S!vars
    <2>2. S!OrderIn(set)' = S!OrderIn(set) /\ S!OrderIn(disk.set)' = S!OrderIn(disk.set)
        BY <2>1 DEF S!OrderIn, S!Has
    <2>3. SnapshotInv' /\ ListedInv' /\ OrderInv'
        BY <2>1, <2>2 DEF OrdersInv, SnapshotInv, OnSettings, ListedInv, OrderInv, Ordered, OrderedOnDisk
    <2> QED BY <2>3 DEF OrdersInv
<1> QED BY <1>1, <1>2, <1>3, <1>4, <1>5, <1>6, <1>7 DEF S!Next

LEMMA AllIsListed == Spec => [](StoreInv /\ OrdersInv)
<1>1. Init => OrdersInv
    BY InitOrders DEF Init
<1>2. KeptInv /\ OrdersInv /\ [Next]_vars => OrdersInv'
    BY OneMoves, OrdersStep DEF KeptInv
<1>3. KeptInv => StoreInv
    BY DEF KeptInv
<1> QED BY <1>1, <1>2, <1>3, AllIsKept, PTL DEF Spec

\* Every profile is shown once (the cached list of Persistence), through imports, deletions,
\* orders, crashes and starts.
THEOREM ListShowsRows == Spec => []S!ListShowsRows
<1>1. OrdersInv => S!ListShowsRows
    <2> SUFFICES ASSUME OrdersInv PROVE S!ListShowsRows
        OBVIOUS
    <2>1. list \in Seq(Ids) /\ Once(list) /\ (mode # "down" => Elements(list) = DOMAIN rows)
        BY DEF OrdersInv, ListedInv
    <2> QED BY <2>1, RangeIs DEF S!ListShowsRows
<1> QED BY <1>1, AllIsListed, PTL

\* With nothing pending the order on disk puts the profiles in the order in which they are
\* shown (applyProfileOrder, setProfileOrder), as long as no start after a crash came between.
THEOREM OrderSurvives == Spec => []S!OrderSurvives
<1>1. StoreInv /\ OrdersInv => S!OrderSurvives
    <2> SUFFICES ASSUME StoreInv, OrdersInv, ~S!Pending, mode # "down", stops = 0
                 PROVE  list = S!Sorted(DOMAIN disk.rows, S!OrderIn(disk.set))
        BY DEF S!OrderSurvives
    <2>1. list \in Seq(Ids) /\ Once(list) /\ Elements(list) = DOMAIN rows
        BY DEF OrdersInv, ListedInv
    <2>2. DOMAIN dirty = {} /\ DOMAIN dirtyRow = {} /\ DOMAIN gone = {}
        BY DEF S!Pending
    <2>3. DOMAIN disk.rows = DOMAIN rows
        BY <2>2 DEF StoreInv, ShapeInv, SameInv, Same, S!Has
    <2>4. S!OrderIn(disk.set) = S!OrderIn(set)
        <3>1. S!Order \in S!Keys /\ S!Order \notin reused
            BY OrderIsNoId DEF S!Keys, StoreInv, ShapeInv
        <3>2. Same(set, disk.set, S!Order)
            BY <2>2, <3>1 DEF StoreInv, SameInv
        <3> QED BY <3>2 DEF Same, S!OrderIn, S!Has
    <2>5. (S!OrderIn(set) = <<>> /\ Ascends(list)) \/ S!OrderIn(set) = list
        BY DEF OrdersInv, OrderInv, Ordered
    <2>6. CASE S!OrderIn(set) = <<>> /\ Ascends(list)
        <3>1. S!Sorted(Elements(list), <<>>) = list
            BY <2>1, <2>6, SortedPlain
        <3> QED BY <2>1, <2>3, <2>4, <2>6, <3>1
    <2>7. CASE S!OrderIn(set) = list
        <3>1. S!Sorted(Elements(list), list) = list
            BY <2>1, SortedSelf
        <3> QED BY <2>1, <2>3, <2>4, <2>7, <3>1
    <2> QED BY <2>5, <2>6, <2>7
<1> QED BY <1>1, AllIsListed, PTL
=============================================================================

----------------------------- MODULE WriteBehind -----------------------------
(***************************************************************************)
(* What a write-behind store promises, whatever its tables look like.      *)
(* Changes are made in memory and are pending until the disk holds them:   *)
(* an entry stops being pending only when the disk has exactly its value.  *)
(* A restart starts from the disk, and an upgrade from a disk that has     *)
(* everything.                                                             *)
(***************************************************************************)
VARIABLES
    mem,      \* entry -> its value in memory
    disk,     \* entry -> its value on disk
    pending,  \* entries that are still to be saved
    lost,     \* entries the store has given up: of them nothing is promised
    mode      \* "down", "open", "frozen", "handed"

vars == <<mem, disk, pending, lost, mode>>

Entries == DOMAIN mem
Kept == Entries \ lost'

\* Changes between two reads of the disk.
Change ==
    /\ mode \in {"down", "open"} /\ mode' = mode /\ disk' = disk
    /\ DOMAIN mem' = Entries /\ lost \subseteq lost'
    /\ \A k \in Kept : mem'[k] # mem[k] => k \in pending'
    /\ pending \cap Kept \subseteq pending'

\* One transaction.  It may carry an older value of an entry that is pending.
Save ==
    /\ UNCHANGED <<mode, mem, pending, lost>>
    /\ DOMAIN disk' = Entries
    /\ \A k \in Kept : disk'[k] # disk[k] => k \in pending

Confirm ==
    /\ UNCHANGED <<mode, mem, disk, lost>>
    /\ pending' \subseteq pending
    /\ \A k \in pending \ pending' : disk[k] = mem[k]

Freeze == mode = "open" /\ mode' = "frozen" /\ UNCHANGED <<mem, disk, pending, lost>>
Resume == mode = "frozen" /\ mode' = "open" /\ UNCHANGED <<mem, disk, pending, lost>>

\* The installer of the next version takes over.
Hand ==
    /\ mode = "frozen" /\ pending = {} /\ mode' = "handed"
    /\ UNCHANGED <<mem, disk, pending, lost>>

\* The process ends, whenever that is; what was pending is lost.
Stop == mode' = "down" /\ disk' = disk /\ mem' = disk /\ pending' = {} /\ lost' = lost

\* Entries written before the store was open win over the disk's.
Open ==
    /\ mode = "down" /\ mode' = "open" /\ UNCHANGED <<disk, pending, lost>>
    /\ \A k \in Entries : mem'[k] = IF k \in pending THEN mem[k] ELSE disk[k]

Init == mem = disk /\ pending = {} /\ lost = {} /\ mode = "down"

Next == Change \/ Save \/ Confirm \/ Freeze \/ Resume \/ Hand \/ Stop \/ Open

Contract == Init /\ [][Next]_vars
=============================================================================

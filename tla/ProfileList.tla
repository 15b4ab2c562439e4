----------------------------- MODULE ProfileList -----------------------------
(***************************************************************************)
(* The list of subscriptions (profile_list_model.h) and those who write it: *)
(* the selection of the main subscription, dropping a card at a new place, *)
(* imports and deletions, and the pump that reads the store again. The page *)
(* shows a mirror of the list which runs ahead of it: a clicked card is    *)
(* selected and a dropped one placed before the store has answered.        *)
(***************************************************************************)
EXTENDS Integers, Orderings, SequencesExt

CONSTANTS
    Profiles,   \* ids of subscriptions
    None,       \* no subscription
    MaxActions  \* bound on selections, drags, imports and deletions together

VARIABLES
    store,    \* the store: [order, sel, drops]; drops (ghost) counts the accepted drops
    rev,      \* profilesRevision
    list,     \* the model's list, as the store's
    mirror,   \* what the page shows
    pending,  \* selectionPending
    job,      \* the selection that runs: [pc, target, prev, ok, old]; old when a newer one replaced it
    queued,   \* the selection that runs next
    drag,     \* a card is being dragged (reorderPending)
    pump,     \* the pump's read: [pc, version, snap, valid]
    asked,    \* syncTick moved since the last published read (syncTick # seenSync)
    seen,     \* seenRevision
    report,   \* an import or a deletion is about to publish
    deleting, \* the subscription whose standby kernel is being cleared for its deletion
    wanted,   \* ghost: the newest selection, until it fails
    actions   \* ghost: what the user did so far

vars == <<store, rev, list, mirror, pending, job, queued, drag, pump, asked, seen, report, deleting,
          wanted, actions>>

NoJob == [pc |-> "none", target |-> None, prev |-> None, ok |-> FALSE, old |-> FALSE]
Idle == [pc |-> "idle", version |-> 0, snap |-> [order |-> <<>>, sel |-> None, drops |-> 0], valid |-> FALSE]
In(s) == ToSet(s.order)

Init ==
    /\ \E first, second \in Profiles :
          first # second /\ store = [order |-> <<first, second>>, sel |-> first, drops |-> 0]
    /\ rev = 0 /\ list = store /\ mirror = store
    /\ pending = FALSE /\ job = NoJob /\ queued = None /\ drag = FALSE
    /\ pump = Idle /\ asked = FALSE /\ seen = 0
    /\ report = FALSE /\ deleting = None /\ wanted = None /\ actions = 0

----------------------------------------------------------------------------
\* After a handler the page takes the list over, if it or what kept it away changed.
Frame(shown) ==
    mirror' = IF <<list', pending', drag'>> # <<list, pending, drag>> /\ ~pending' /\ ~drag'
              THEN list' ELSE shown

\* RequestSync: the read in flight is outdated, and another is owed.
RequestSync == asked' = TRUE /\ pump' = [pump EXCEPT !.valid = FALSE]

\* PublishCached: an action publishes the store's list itself.
PublishCached == RequestSync /\ list' = store

----------------------------------------------------------------------------
(* Selecting the main subscription *)

\* One job runs and one waits, whose place a newer one takes.
Replaces(next) == next

\* LaunchProfileSelection.
Launch(p) ==
    /\ actions < MaxActions
    /\ IF pending /\ wanted = p THEN UNCHANGED <<pending, job, queued, wanted, asked, pump, actions>>
       ELSE /\ actions' = actions + 1
            /\ pending' = TRUE /\ wanted' = p /\ RequestSync
            /\ IF job.pc = "none"
               THEN job' = [NoJob EXCEPT !.pc = "start", !.target = p] /\ UNCHANGED queued
               ELSE job' = [job EXCEPT !.old = TRUE] /\ queued' = Replaces(p)
    /\ UNCHANGED list

\* A card is clicked: it is shown as selected at once.
Click(p) ==
    /\ p \in In(mirror) /\ p # mirror.sel /\ Launch(p) /\ UNCHANGED drag
    /\ Frame([mirror EXCEPT !.sel = p])
    /\ UNCHANGED <<store, rev, seen, report, deleting>>

\* The tray's menu offers the model's list.
Choose(p) ==
    /\ p \in In(list) /\ Launch(p) /\ UNCHANGED drag /\ Frame(mirror)
    /\ UNCHANGED <<store, rev, seen, report, deleting>>

\* ProfilesStore::activate and applyMainProfile, under the plan's lock: a cancelled
\* job ends here; a selected one needs nothing; a candidate may be refused.
Activate ==
    /\ job.pc = "start" /\ deleting = None
    /\ \/ job.old /\ job' = [job EXCEPT !.pc = "done"] /\ UNCHANGED <<store, rev>>
       \/ /\ ~job.old
          /\ \/ job' = [job EXCEPT !.pc = "done"] /\ UNCHANGED <<store, rev>>
             \/ /\ job.target \in In(store) /\ job.target = store.sel
                /\ job' = [job EXCEPT !.pc = "done", !.ok = TRUE] /\ UNCHANGED <<store, rev>>
             \/ /\ job.target \in In(store) /\ job.target # store.sel
                /\ job' = [job EXCEPT !.pc = "written", !.prev = store.sel]
                /\ store' = [store EXCEPT !.sel = job.target] /\ rev' = rev + 1
    /\ UNCHANGED <<list, mirror, pending, queued, drag, pump, asked, seen, report, deleting, wanted,
                   actions>>

\* The kernel runs the new plan, or fails or is cancelled, and the selection is undone.
Restarted(works) ==
    /\ job.pc = "written"
    /\ job' = [job EXCEPT !.pc = "done", !.ok = works]
    /\ IF works THEN UNCHANGED <<store, rev>>
       ELSE store' = [store EXCEPT !.sel = job.prev] /\ rev' = rev + 1
    /\ UNCHANGED <<list, mirror, pending, queued, drag, pump, asked, seen, report, deleting, wanted,
                   actions>>

\* The completion: only the newest selection publishes; the waiting one starts.
Completed ==
    /\ job.pc = "done"
    /\ IF job.old THEN UNCHANGED <<pending, list, asked, pump, wanted>>
       ELSE /\ pending' = FALSE /\ PublishCached
            /\ wanted' = IF job.ok THEN wanted ELSE None
    /\ job' = IF queued = None THEN NoJob ELSE [NoJob EXCEPT !.pc = "start", !.target = queued]
    /\ queued' = None
    /\ UNCHANGED drag /\ Frame(mirror)
    /\ UNCHANGED <<store, rev, seen, report, deleting, actions>>

----------------------------------------------------------------------------
(* Dragging a card *)

Begin ==
    /\ ~drag /\ actions < MaxActions /\ actions' = actions + 1 /\ drag' = TRUE /\ RequestSync
    /\ UNCHANGED <<store, rev, list, mirror, pending, job, queued, seen, report, deleting, wanted>>

Cancel ==
    /\ drag /\ drag' = FALSE /\ RequestSync
    /\ UNCHANGED <<list, pending>> /\ Frame(mirror)
    /\ UNCHANGED <<store, rev, job, queued, seen, report, deleting, wanted, actions>>

\* setProfileOrder: what the page does not know of comes last.
Reordered(s, ids) ==
    [s EXCEPT !.order = Kept(ids, In(s)) \o Kept(@, Profiles \ ToSet(ids))]

\* Mutant of PublishOrder.
PublishOrderNot(ids, drops) == list' = list

\* PublishOrder: refused unless the order is one of the model's list.
PublishOrder(ids, drops) ==
    list' = IF ToSet(ids) = In(list) THEN [list EXCEPT !.order = ids, !.drops = drops] ELSE list

\* The order is stored on the UI thread and written to the model before the page
\* follows the model again. A refused order is put back.
Drop(from, to, accepted) ==
    LET ids == InsertAt(RemoveAt(mirror.order, from), to, mirror.order[from])
    IN  /\ drag /\ drag' = FALSE /\ RequestSync
        /\ from # to
        /\ IF accepted
           THEN /\ store' = [Reordered(store, ids) EXCEPT !.drops = @ + 1] /\ rev' = rev + 1
                /\ PublishOrder(ids, store'.drops)
           ELSE UNCHANGED <<store, rev, list>>
        /\ UNCHANGED pending
        /\ Frame(IF accepted THEN [mirror EXCEPT !.order = ids, !.drops = store'.drops] ELSE mirror)
        /\ UNCHANGED <<job, queued, seen, report, deleting, wanted, actions>>

----------------------------------------------------------------------------
(* Imports and deletions, on workers; a deletion takes the plan's lock *)

\* (A subscription that gets the id of a deleted one is left out.)
Import(p) ==
    /\ ~report /\ actions < MaxActions /\ p \notin In(store) \cup {wanted}
    /\ store' = [store EXCEPT !.order = Append(@, p)] /\ rev' = rev + 1
    /\ report' = TRUE /\ actions' = actions + 1
    /\ UNCHANGED <<list, mirror, pending, job, queued, drag, pump, asked, seen, deleting, wanted>>

\* ProfilesStore::remove. While a kernel on standby runs by the subscription, that one is
\* deselected and the kernel cleared first ...
ClearStandby(p) ==
    /\ deleting = None /\ actions < MaxActions /\ store.sel = p /\ p \in In(store)
    /\ job.pc # "written"
    /\ store' = [store EXCEPT !.sel = None] /\ rev' = rev + 1
    /\ deleting' = p /\ actions' = actions + 1
    /\ UNCHANGED <<list, mirror, pending, job, queued, drag, pump, asked, seen, report, wanted>>

\* ... which may fail, as may the deletion after it: then it is selected again.
Reselect(p) ==
    /\ ~report /\ deleting = p
    /\ store' = [store EXCEPT !.sel = p] /\ rev' = rev + 1
    /\ report' = TRUE /\ deleting' = None
    /\ UNCHANGED <<list, mirror, pending, job, queued, drag, pump, asked, seen, wanted, actions>>

Delete(p) ==
    /\ ~report /\ p \in In(store) /\ job.pc # "written"
    /\ \/ deleting = p /\ UNCHANGED actions
       \/ deleting = None /\ actions < MaxActions /\ actions' = actions + 1
    /\ store' = [store EXCEPT !.order = Kept(@, Profiles \ {p}),
                              !.sel = IF @ = p THEN None ELSE @]
    /\ rev' = rev + 1
    /\ report' = TRUE /\ deleting' = None
    /\ UNCHANGED <<list, mirror, pending, job, queued, drag, pump, asked, seen, wanted>>

Report ==
    /\ report /\ report' = FALSE /\ PublishCached
    /\ UNCHANGED <<pending, drag>> /\ Frame(mirror)
    /\ UNCHANGED <<store, rev, job, queued, seen, deleting, wanted, actions>>

----------------------------------------------------------------------------
(* DriveProfileList *)

Look ==
    /\ pump.pc = "idle" /\ (asked \/ seen # rev)
    /\ pump' = [Idle EXCEPT !.pc = "reading", !.version = rev, !.valid = TRUE]
    /\ UNCHANGED <<store, rev, list, mirror, pending, job, queued, drag, asked, seen, report, deleting,
                   wanted, actions>>

Read ==
    /\ pump.pc = "reading" /\ pump' = [pump EXCEPT !.pc = "read", !.snap = store]
    /\ UNCHANGED <<store, rev, list, mirror, pending, job, queued, drag, asked, seen, report, deleting,
                   wanted, actions>>

\* A read that was overtaken is not shown.
Shown == ~pending /\ ~drag /\ pump.valid /\ rev = pump.version

\* A read that was not shown is still owed.
Acknowledge ==
    IF Shown THEN asked' = FALSE /\ seen' = pump.version ELSE UNCHANGED <<asked, seen>>

PublishRead ==
    /\ pump.pc = "read" /\ pump' = Idle
    /\ list' = IF Shown THEN pump.snap ELSE list
    /\ Acknowledge
    /\ UNCHANGED <<pending, drag>> /\ Frame(mirror)
    /\ UNCHANGED <<store, rev, job, queued, report, deleting, wanted, actions>>

Next ==
    \/ \E p \in Profiles : Click(p) \/ Choose(p) \/ Import(p) \/ ClearStandby(p) \/ Reselect(p)
                         \/ Delete(p)
    \/ Activate \/ \E works \in BOOLEAN : Restarted(works)
    \/ Completed \/ Begin \/ Cancel \/ Report \/ Look \/ Read \/ PublishRead
    \/ \E from, to \in 1..Len(mirror.order), accepted \in BOOLEAN : Drop(from, to, accepted)

Spec == Init /\ [][Next]_vars

----------------------------------------------------------------------------
Lists == [order : Seq(Profiles), sel : Profiles \cup {None}, drops : 0..MaxActions]

TypeOK ==
    /\ {store, list, mirror, pump.snap} \subseteq Lists
    /\ {pending, drag, asked, report, pump.valid, job.ok, job.old} \subseteq BOOLEAN
    /\ job.pc \in {"none", "start", "written", "done"} /\ pump.pc \in {"idle", "reading", "read"}
    /\ {job.target, job.prev, queued, deleting, wanted} \subseteq Profiles \cup {None}
    /\ {rev, seen, pump.version} \subseteq Nat /\ seen <= rev

\* However often the user changes their mind, the main subscription is the last one
\* they chose, unless they were told that it failed, or delete it.
LastChoiceStands == ~pending /\ wanted \in In(store) => wanted \in {store.sel, deleting}

\* No change is overlooked: when the pump believes to be up to date, it is.
NothingMissed == pump.pc = "idle" /\ ~asked /\ seen = rev => list = store

\* What was shown ahead of the store is taken back once it is decided.
MirrorFollows == ~pending /\ ~drag => mirror = list

\* A dropped card stays where it was dropped: no older list is shown after it, unless
\* a subscription came or went while it was being dragged.
NoRebound ==
    [][/\ mirror'.drops >= mirror.drops
       /\ store'.drops > store.drops /\ In(mirror) = In(list) => mirror'.drops = store'.drops]_vars
==============================================================================

----------------------------- MODULE GlobalRules -----------------------------
(***************************************************************************)
(* The editor of the global rules (global_rules_model.h, rules_page.cpp)   *)
(* and the store that accepts them (vpn.cppm saveGlobalPolicy). A save     *)
(* compiles the plan and restarts the kernel, which takes seconds: meanwhile *)
(* the list may be edited again, read again or answered late. One policy is *)
(* shared by the read-only list, which shows what the store accepted, and  *)
(* the editor, which keeps what the user wrote until it is accepted.       *)
(***************************************************************************)
EXTENDS Integers, Sequences, SequencesExt

CONSTANTS
    MaxEdits,   \* bound on the user's edits
    MaxOpened   \* bound on editors opened

VARIABLES
    rules,      \* the list being edited: [stamp, marks]
    accepted,   \* the list readers see: [stamp, marks, version]
    loaded, saving, pending, dirty,
    editor,     \* the rule editor: [open, index, mark, fresh]; index 0 adds a rule
    closing,    \* a successful save closes the editor (editorSaveClose)
    drawn,      \* the rows were drawn while a save was in flight
    save,       \* the save on a worker: [pc, list, ok]
    load,       \* the last read of the store: [pc, list, valid]
    reload,     \* a read is owed: the list of profiles or the refresh tick changed
    store,      \* what the store holds: [stamp, marks, version]
    edits,      \* ghost: edits so far; the stamp of a list is its last edit
    opened      \* ghost: editors opened so far; the mark of a rule is the editor that wrote it

vars == <<rules, accepted, loaded, saving, pending, dirty, editor, closing, drawn, save, load, reload,
          store, edits, opened>>

List(s) == [stamp |-> s.stamp, marks |-> s.marks]
Empty == [stamp |-> 0, marks |-> <<>>]
EmptyStore == [stamp |-> 0, marks |-> <<>>, version |-> 0]
Closed == [open |-> FALSE, index |-> 0, mark |-> 0, fresh |-> FALSE]
NoSave == [pc |-> "none", list |-> Empty, ok |-> FALSE]
NoLoad == [pc |-> "none", list |-> EmptyStore, valid |-> FALSE]

\* A policy saved by an earlier session holds one rule.
Init ==
    /\ store \in {EmptyStore, [EmptyStore EXCEPT !.marks = <<0>>]}
    /\ rules = Empty /\ accepted = EmptyStore
    /\ loaded = FALSE /\ saving = FALSE /\ pending = FALSE /\ dirty = FALSE
    /\ editor = Closed /\ closing = FALSE /\ drawn = FALSE
    /\ save = NoSave /\ load = NoLoad /\ reload = TRUE
    /\ edits = 0 /\ opened = 0

----------------------------------------------------------------------------
(* Saving *)

\* dispatchPolicySave: what is saved is the list of this moment; a read that is
\* under way will not be published.
Dispatched(list) ==
    /\ saving' = TRUE
    /\ save' = [pc |-> "queued", list |-> list, ok |-> FALSE]
    /\ load' = [load EXCEPT !.valid = FALSE]

\* persistGlobalPolicy after an edit: a save in flight is followed by another.
Persist(list) ==
    /\ edits' = edits + 1
    /\ rules' = [stamp |-> edits', marks |-> list]
    /\ dirty' = TRUE
    /\ IF saving THEN /\ pending' = TRUE
                      /\ load' = [load EXCEPT !.valid = FALSE]
                      /\ UNCHANGED <<saving, save>>
       ELSE Dispatched(rules') /\ UNCHANGED pending

\* saveGlobalPolicy, under the store's locks: the list is accepted, or refused or
\* rolled back; an exception after the acceptance is reported as a failure too.
Commit(accept, ok) ==
    /\ save.pc = "queued" /\ (ok => accept)
    /\ store' = IF accept /\ List(store) # save.list
                THEN [stamp |-> save.list.stamp, marks |-> save.list.marks, version |-> store.version + 1]
                ELSE store
    /\ save' = [save EXCEPT !.pc = "answer", !.ok = ok]
    /\ UNCHANGED <<rules, accepted, loaded, saving, pending, dirty, editor, closing, drawn, load, reload,
                   edits, opened>>

\* PublishSaved replaces the edited list unless it was edited meanwhile.
PublishSaved ==
    IF pending THEN UNCHANGED <<rules, dirty>> ELSE rules' = List(store) /\ dirty' = FALSE

\* Mutant of Closes.
ClosesAnyway == closing

\* The answer closes the editor that asked for the save, if it is in the store.
Closes == closing /\ save.ok

\* The completion on the UI thread. Until the last of the pending saves is answered
\* the editor stays; a failed save leaves the edits for another attempt.
Answer ==
    /\ save.pc = "answer"
    /\ IF save.ok THEN accepted' = store /\ loaded' = TRUE /\ PublishSaved
       ELSE UNCHANGED <<accepted, loaded, rules, dirty>>
    /\ closing' = (closing /\ save.ok /\ pending)
    /\ editor' = IF Closes /\ ~pending THEN Closed ELSE [editor EXCEPT !.fresh = @ /\ ~save.ok]
    /\ reload' = (reload \/ save.ok)
    /\ pending' = FALSE
    /\ IF pending THEN Dispatched(rules')
       ELSE saving' = FALSE /\ save' = NoSave /\ load' = [load EXCEPT !.valid = @ /\ ~save.ok]
    /\ UNCHANGED <<drawn, store, edits, opened>>

----------------------------------------------------------------------------
(* Reading *)

\* The lifecycle effect: a new ticket overtakes the read before it.
Load ==
    /\ reload /\ reload' = FALSE
    /\ load' = [pc |-> "reading", list |-> EmptyStore, valid |-> TRUE]
    /\ UNCHANGED <<rules, accepted, loaded, saving, pending, dirty, editor, closing, drawn, save, store,
                   edits, opened>>

\* The store answers under its lock: not while a save is being committed.
Read ==
    /\ load.pc = "reading" /\ load' = [load EXCEPT !.pc = "read", !.list = store]
    /\ UNCHANGED <<rules, accepted, loaded, saving, pending, dirty, editor, closing, drawn, save, reload,
                   store, edits, opened>>

Publishable == load.valid /\ ~saving

\* PublishLoaded: readers get the store's list, the editor only if it has nothing unsaved.
PublishLoaded ==
    /\ load.pc = "read" /\ load' = NoLoad
    /\ IF Publishable
       THEN /\ accepted' = load.list
            /\ rules' = IF dirty THEN rules ELSE List(load.list)
            /\ loaded' = TRUE
            /\ editor' = [editor EXCEPT !.fresh = @ /\ accepted' = accepted /\ rules' = rules]
       ELSE UNCHANGED <<accepted, rules, loaded, editor>>
    /\ UNCHANGED <<saving, pending, dirty, closing, drawn, save, reload, store, edits, opened>>

\* The list of profiles or the rule sets changed: what an editor offers is outdated.
Changed ==
    /\ ~reload /\ reload' = TRUE
    /\ editor' = [editor EXCEPT !.fresh = FALSE]
    /\ UNCHANGED <<rules, accepted, loaded, saving, pending, dirty, closing, drawn, save, load, store,
                   edits, opened>>

----------------------------------------------------------------------------
(* The user *)

\* A frame is drawn: it enables the rows' buttons by what is true now.
Draw ==
    /\ drawn # saving /\ drawn' = saving
    /\ UNCHANGED <<rules, accepted, loaded, saving, pending, dirty, editor, closing, save, load, reload,
                   store, edits, opened>>

OpenEditor(i) ==
    /\ loaded /\ ~saving /\ ~editor.open /\ opened < MaxOpened
    /\ opened' = opened + 1
    /\ editor' = [open |-> TRUE, index |-> i, mark |-> opened', fresh |-> TRUE]
    /\ UNCHANGED <<rules, accepted, loaded, saving, pending, dirty, closing, drawn, save, load, reload,
                   store, edits>>

\* After the first attempt the editor is about the rule it added.
Placed(list) == IF editor.index = 0 THEN Len(list) ELSE editor.index

SaveEditor ==
    /\ editor.open /\ ~saving /\ editor.fresh /\ edits < MaxEdits
    /\ LET marks == rules.marks
           list  == IF editor.index \in 1..Len(marks) THEN [marks EXCEPT ![editor.index] = editor.mark]
                    ELSE Append(marks, editor.mark)
       IN  /\ Persist(list)
           /\ editor' = [editor EXCEPT !.index = Placed(list)]
    /\ closing' = TRUE
    /\ UNCHANGED <<accepted, loaded, drawn, reload, store, opened>>

\* An editor is not left while it saves.
Cancel ==
    /\ editor.open /\ ~saving /\ editor' = Closed
    /\ UNCHANGED <<rules, accepted, loaded, saving, pending, dirty, closing, drawn, save, load, reload,
                   store, edits, opened>>

\* Enabling and deleting a rule: the buttons are disabled from the next frame on.
Toggle(i) ==
    /\ ~editor.open /\ loaded /\ ~drawn /\ edits < MaxEdits /\ i \in 1..Len(rules.marks)
    /\ \E list \in {rules.marks, RemoveAt(rules.marks, i)} : Persist(list)
    /\ UNCHANGED <<accepted, loaded, editor, closing, drawn, reload, store, opened>>

\* Moving a rule checks again that nothing is being saved.
Move(i) ==
    /\ ~editor.open /\ loaded /\ ~saving /\ edits < MaxEdits /\ i \in 2..Len(rules.marks)
    /\ Persist([rules.marks EXCEPT ![i] = rules.marks[i - 1], ![i - 1] = rules.marks[i]])
    /\ UNCHANGED <<accepted, loaded, editor, closing, drawn, reload, store, opened>>

Next ==
    \/ \E accept, ok \in BOOLEAN : Commit(accept, ok)
    \/ Answer \/ Load \/ Read \/ PublishLoaded \/ Changed \/ Draw \/ SaveEditor \/ Cancel
    \/ \E i \in 0..Len(rules.marks) : OpenEditor(i) \/ Toggle(i) \/ Move(i)

Spec == Init /\ [][Next]_vars

----------------------------------------------------------------------------
Marks(s) == {s.marks[i] : i \in 1..Len(s.marks)}

TypeOK ==
    /\ {loaded, saving, pending, dirty, closing, drawn, reload} \subseteq BOOLEAN
    /\ save.pc \in {"none", "queued", "answer"} /\ load.pc \in {"none", "reading", "read"}
    /\ rules.stamp \in 0..MaxEdits /\ Marks(rules) \subseteq 0..MaxOpened
    /\ store.version \in 0..MaxEdits /\ edits \in 0..MaxEdits /\ opened \in 0..MaxOpened

\* The user's last edit is never lost: it is in the list being edited, in the store
\* or being saved, or it is known to be unsaved; one made during a save is owed one.
NothingForgotten ==
    /\ rules.stamp = edits
    /\ ~saving => dirty \/ store.stamp = edits
    /\ saving /\ save.list.stamp # edits => pending

\* A rule whose save failed and is tried again is not added a second time.
AddedOnce == IsInjective(store.marks) /\ IsInjective(rules.marks)

\* Readers go from what the store accepted to what it accepted later, never back.
AcceptedNeverGoesBack == [][accepted'.version >= accepted.version]_vars

\* An editor a save closes has its rule in the store, as it was last written.
ClosedWhenStored ==
    [][editor.open /\ ~editor'.open /\ saving =>
            editor.mark \in Marks(store) /\ store.stamp = rules.stamp]_vars
==============================================================================

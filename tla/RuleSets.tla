------------------------------- MODULE RuleSets -------------------------------
(***************************************************************************)
(* The library of rule sets and the rules that refer to it (rules_page.cpp *)
(* RuleSetLibraryPanel, core_store_lifecycle.inc, profiles.cppm, vpn.cppm). *)
(* Three editors write: the library, a subscription's personal rules and   *)
(* the global rules. Each works on a copy made when it was opened, and its *)
(* save, which restarts the kernel, is validated only when it reaches the  *)
(* store; an import from a file ends the library's busy state by itself.   *)
(***************************************************************************)
EXTENDS Integers, FiniteSets

CONSTANTS
    Sets,      \* ids of rule sets
    None,      \* no rule set
    MaxSaves,  \* bound on accepted saves of the library
    MaxJobs,   \* bound on saves and downloads in flight
    MaxImports \* bound on files chosen

VARIABLES
    lib,       \* the stored library: [rev, ids]
    policy,    \* rule sets the stored global rules refer to
    edits,     \* the stored personal rule of a subscription: [set, on]
    mirror,    \* the application's copy: [rev, ids]
    busy,      \* ruleSetsSaving
    importing, \* a file chosen for the form is being read
    form,      \* the library editor: [set, fresh]; set None when closed, fresh while the copy is the same
    jobs,      \* saves and downloads of the library on workers
    read,      \* a read of the library that may still be published: [pc, lib]
    imports    \* ghost: files chosen so far

vars == <<lib, policy, edits, mirror, busy, importing, form, jobs, read, imports>>

NoForm == [set |-> None, fresh |-> FALSE]
NoRead == [pc |-> "none", lib |-> [rev |-> 0, ids |-> {}]]

Init ==
    /\ \E ids \in SUBSET Sets : Cardinality(ids) <= 1 /\ lib = [rev |-> 0, ids |-> ids]
    /\ policy = {}
    /\ edits = [set |-> None, on |-> FALSE]
    /\ mirror = [rev |-> 0, ids |-> lib.ids]
    /\ busy = FALSE /\ importing = FALSE /\ form = NoForm /\ jobs = {}
    /\ read = NoRead /\ imports = 0

library == <<lib, mirror, busy, importing, form, jobs, read, imports>>

----------------------------------------------------------------------------
(* The store *)

\* ruleSetUsage: disabled rules count.
Used == policy \cup (IF edits.set = None THEN {} ELSE {edits.set})

\* What a job makes of the copy it was given.
Changed(job) ==
    CASE job.op = "put" -> job.ids \cup {job.set}
      [] job.op = "remove" -> job.ids \ {job.set}
      [] job.op = "refresh" -> job.ids

\* saveRuleSetLibrary: the copy must be of the stored revision, and nothing may
\* refer to what it removes; then the kernel may refuse it.
Accepts(job) == job.rev = lib.rev /\ Used \subseteq Changed(job)

StoreLibrary(job, works) ==
    /\ job \in jobs /\ job.pc = "queued"
    /\ LET ok == Accepts(job) /\ works /\ lib.rev < MaxSaves
       IN  /\ lib' = IF ok THEN [rev |-> lib.rev + 1, ids |-> Changed(job)] ELSE lib
           /\ jobs' = (jobs \ {job}) \cup {[job EXCEPT !.pc = IF ok THEN "accepted" ELSE "refused"]}
    /\ UNCHANGED <<policy, edits, mirror, busy, importing, form, read, imports>>

\* The compiled plan only needs the sets of enabled rules.
Resolves(set, on) == on => set \in lib.ids \cup {None}

\* saveRuleEdits. The page's snapshot offers sets the library has, or had until a
\* removal the application has no answer of yet.
StorePersonal(set, on) ==
    /\ set \in lib.ids \cup mirror.ids \cup {None} /\ Resolves(set, on)
    /\ edits' = [set |-> set, on |-> on]
    /\ UNCHANGED <<policy, library>>

\* saveGlobalPolicy: every rule's set must be in the library, also a disabled rule's.
StorePolicy(refs) ==
    /\ refs # policy /\ refs \subseteq mirror.ids /\ refs \subseteq lib.ids
    /\ policy' = refs
    /\ UNCHANGED <<library, edits>>

----------------------------------------------------------------------------
(* The library panel *)

\* persist: from the copy the panel was drawn with.
Job(op, set) == [op |-> op, set |-> set, rev |-> mirror.rev, ids |-> mirror.ids, pc |-> "queued",
                 saved |-> [rev |-> 0, ids |-> {}]]

Persist(op, set) ==
    /\ ~busy /\ busy' = TRUE
    /\ Job(op, set) \notin jobs /\ Cardinality(jobs) < MaxJobs
    /\ jobs' = jobs \cup {Job(op, set)}

OpenForm(set) ==
    /\ form = NoForm /\ ~busy
    /\ form' = [set |-> set, fresh |-> TRUE]
    /\ UNCHANGED <<lib, policy, edits, mirror, busy, importing, jobs, read, imports>>

SaveForm ==
    /\ form # NoForm /\ form.fresh
    /\ Persist("put", form.set)
    /\ UNCHANGED <<lib, policy, edits, mirror, importing, form, read, imports>>

\* An editor is not left while it saves.
CloseForm ==
    /\ form # NoForm /\ ~busy /\ form' = NoForm
    /\ UNCHANGED <<lib, policy, edits, mirror, busy, importing, jobs, read, imports>>

\* The panel does not offer it for a set it knows to be referred to; the store decides.
Remove(set) ==
    /\ form = NoForm /\ set \in mirror.ids
    /\ Persist("remove", set)
    /\ UNCHANGED <<lib, policy, edits, mirror, importing, form, read, imports>>

\* A download is not a save: the panel stays usable, except for this set (bound: one
\* download at a time).
Refresh(set) ==
    /\ form = NoForm /\ ~busy /\ set \in mirror.ids
    /\ ~\E job \in jobs : job.op = "refresh"
    /\ Cardinality(jobs) < MaxJobs /\ jobs' = jobs \cup {Job("refresh", set)}
    /\ UNCHANGED <<lib, policy, edits, mirror, busy, importing, form, read, imports>>

\* RuleSetForm chooseFile: the importing was opened earlier, so a save may have begun
\* meanwhile; busy begins again when the file is chosen.
Picked ==
    /\ form # NoForm /\ ~importing /\ importing' = TRUE /\ busy' = TRUE
    /\ imports < MaxImports /\ imports' = imports + 1
    /\ UNCHANGED <<lib, policy, edits, mirror, form, jobs, read>>

Imported ==
    /\ importing /\ importing' = FALSE /\ busy' = FALSE
    /\ UNCHANGED <<lib, policy, edits, mirror, form, jobs, read, imports>>

\* A copy older than the one shown is not published; ruleSetsRevision makes every
\* other reader read again.
Newer(rev) == rev >= mirror.rev

\* After its save the worker reads the library again, without the lock between.
ReadBack(job) ==
    /\ job \in jobs /\ job.pc = "accepted"
    /\ jobs' = (jobs \ {job}) \cup {[job EXCEPT !.pc = "answer", !.saved = lib]}
    /\ UNCHANGED <<lib, policy, edits, mirror, busy, importing, form, read, imports>>

Answer(job) ==
    /\ job \in jobs /\ job.pc \in {"answer", "refused"} /\ jobs' = jobs \ {job}
    /\ busy' = (busy /\ job.op = "refresh")
    /\ IF job.pc = "answer"
       THEN /\ mirror' = IF Newer(job.saved.rev) THEN job.saved ELSE mirror
            /\ form' = IF job.op = "put" THEN NoForm
                       ELSE [form EXCEPT !.fresh = @ /\ ~Newer(job.saved.rev)]
            /\ read' = NoRead
       ELSE UNCHANGED <<mirror, form, read>>
    /\ UNCHANGED <<lib, policy, edits, importing, imports>>

\* The panel reads the library again.
Read ==
    /\ ~busy /\ read.pc = "none"
    /\ read' = [pc |-> "read", lib |-> lib]
    /\ UNCHANGED <<lib, policy, edits, mirror, busy, importing, form, jobs, imports>>

\* Unless something was saved meanwhile (ruleSetsRevision), which drops the read.
PublishRead ==
    /\ read.pc = "read" /\ read' = NoRead
    /\ mirror' = read.lib /\ form' = [form EXCEPT !.fresh = FALSE]
    /\ UNCHANGED <<lib, policy, edits, busy, importing, jobs, imports>>

Next ==
    \/ \E works \in BOOLEAN, job \in jobs : StoreLibrary(job, works)
    \/ \E refs \in SUBSET Sets : Cardinality(refs) <= 1 /\ StorePolicy(refs)
    \/ \E job \in jobs : ReadBack(job) \/ Answer(job)
    \/ \E set \in Sets : OpenForm(set) \/ Remove(set) \/ Refresh(set)
    \/ SaveForm \/ CloseForm \/ Picked \/ Imported \/ Read \/ PublishRead
    \/ StorePersonal(None, FALSE) \/ \E set \in Sets, on \in BOOLEAN : StorePersonal(set, on)

Spec == Init /\ [][Next]_vars

----------------------------------------------------------------------------
TypeOK ==
    /\ lib.rev \in 0..MaxSaves /\ lib.ids \subseteq Sets /\ policy \subseteq Sets
    /\ mirror.rev \in 0..MaxSaves /\ edits.set \in Sets \cup {None} /\ form.set \in Sets \cup {None}
    /\ {busy, importing, edits.on} \subseteq BOOLEAN
    /\ \A job \in jobs : job.op \in {"put", "remove", "refresh"} /\ job.set \in Sets

\* The rules that take part refer to sets the library has, whichever of the three
\* editors saved last and whatever copy it worked on.
EnabledResolve == policy \subseteq lib.ids /\ (edits.on /\ edits.set # None => edits.set \in lib.ids)

\* A set somebody added disappears only when somebody removes it: a save of an older
\* copy never drops it.
GoneByRemoval == \A set \in lib.ids \ lib'.ids : \E job \in jobs : job.op = "remove" /\ job.set = set
OnlyRemoved == [][GoneByRemoval]_vars

\* The copy every page shows never goes back to an older library.
MirrorAdvances == [][mirror'.rev >= mirror.rev]_vars
==============================================================================

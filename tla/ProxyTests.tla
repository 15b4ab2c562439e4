------------------------------ MODULE ProxyTests ------------------------------
(***************************************************************************)
(* Latency tests of nodes (proxy_test_model.h, proxies_page.cpp): a whole  *)
(* group, measured by the kernel while the page polls what it wrote, or    *)
(* single nodes. The tasks belong to the application: they go on when the  *)
(* page is closed, and when the kernel is replaced under them. The page's  *)
(* effect tells the model that the kernel or its plan changed.             *)
(***************************************************************************)
EXTENDS Integers, FiniteSets

CONSTANTS
    Nodes,     \* tags of nodes
    MaxTests,  \* bound on tests started
    MaxViews   \* bound on changes of the kernel

VARIABLES
    native,    \* Android: libbox tests the group and the model only polls
    mounted,   \* a page is there to run its effects
    view,      \* the application's view of the kernel: [on, plan]
    context,   \* the view the probes are about
    ticket,    \* generation
    busy,      \* the ticket of the group test in progress; 0 is none
    pending, singlePending,
    probes,    \* of each node: [gen, testing, result]; gen -1: not in the map
    batches,   \* group tests' tasks: [ticket, view, pc, waits, done, targets, epoch]
    singles,   \* single tests' tasks: [ticket, view, node, epoch]
    epoch,     \* ghost: how often the probes were replaced
    views,     \* ghost: changes of the kernel so far
    missed     \* ghost: the kernel changed while there was no page, which was not observed since

vars == <<native, mounted, view, context, ticket, busy, pending, singlePending, probes, batches, singles,
          epoch, views, missed>>

Absent == [gen |-> -1, testing |-> FALSE, result |-> 0]
Fresh == [gen |-> 0, testing |-> FALSE, result |-> 0]
Known(p) == IF p.gen = -1 THEN Fresh ELSE p

Init ==
    /\ native \in BOOLEAN /\ mounted = TRUE
    /\ view = [on |-> TRUE, plan |-> 1] /\ context = view
    /\ ticket = 0 /\ busy = 0 /\ pending = 0 /\ singlePending = 0
    /\ probes = [n \in Nodes |-> Absent] /\ batches = {} /\ singles = {}
    /\ epoch = 0 /\ views = 0 /\ missed = FALSE

Current(t) == busy = t
Valid(task) == view.on /\ view.plan = task.view.plan

Replaced(old, new) == batches' = (batches \ {old}) \cup new

----------------------------------------------------------------------------
(* The model's operations *)

\* Complete, of several of the batch's probes at once.
Complete(task, measured) ==
    LET open == {n \in measured : probes[n].gen = task.ticket /\ probes[n].testing /\ task.epoch = epoch}
    IN  IF Current(task.ticket)
        THEN /\ probes' = [n \in Nodes |-> IF n \in open THEN [gen |-> task.ticket, testing |-> FALSE,
                                                               result |-> task.ticket] ELSE probes[n]]
             /\ pending' = pending - Cardinality(open)
        ELSE UNCHANGED <<probes, pending>>

\* End: what is still being measured has timed out.
End(t) ==
    IF Current(t)
    THEN /\ probes' = [n \in Nodes |-> IF probes[n].gen = t /\ probes[n].testing
                                       THEN [probes[n] EXCEPT !.testing = FALSE, !.result = t] ELSE probes[n]]
         /\ busy' = 0 /\ pending' = 0 /\ ticket' = (IF ticket < t THEN t ELSE ticket)
    ELSE UNCHANGED <<busy, pending, ticket, probes>>

\* ObserveContext: the results of another kernel or plan go, with what counted them.
Forget == probes' = [n \in Nodes |-> Absent] /\ busy' = 0 /\ pending' = 0 /\ singlePending' = 0

Observe ==
    /\ mounted /\ context # view /\ context' = view
    /\ ticket' = (IF busy > ticket THEN busy ELSE ticket) + 1 /\ Forget /\ epoch' = epoch + 1
    /\ missed' = FALSE /\ UNCHANGED <<native, mounted, view, batches, singles, views>>

----------------------------------------------------------------------------
(* A test of a group *)

\* triggerGroupTest, until it waits for the kernel's answer. (The state may be tested
\* again only after the first effect has run, when the page is there.)
TestGroup(targets) ==
    /\ mounted /\ busy = 0 /\ singlePending = 0 /\ view.on /\ ticket < MaxTests
    /\ busy' = ticket + 1 /\ pending' = 0
    /\ Replaced([pc |-> "none"], {[ticket |-> busy', view |-> view, pc |-> "start", waits |-> FALSE,
                                   done |-> FALSE, targets |-> targets, epoch |-> epoch]})
    /\ UNCHANGED <<native, mounted, view, context, ticket, singlePending, probes, singles, epoch, views, missed>>

\* The kernel has accepted the test, or not: every target's probe starts.
Started(task, ok) ==
    /\ task \in batches /\ task.pc = "start"
    /\ IF ~Current(task.ticket) THEN Replaced(task, {}) /\ UNCHANGED <<busy, pending, ticket, probes>>
       ELSE IF ~ok \/ ~Valid(task) THEN Replaced(task, {}) /\ End(task.ticket)
       ELSE /\ probes' = [n \in Nodes |-> IF n \in task.targets
                                          THEN [Known(probes[n]) EXCEPT !.gen = task.ticket, !.testing = TRUE]
                                          ELSE probes[n]]
            /\ pending' = pending + Cardinality(task.targets)
            /\ ticket' = task.ticket
            /\ Replaced(task, {[task EXCEPT !.pc = "poll", !.waits = TRUE, !.epoch = epoch]})
            /\ UNCHANGED busy
    /\ UNCHANGED <<native, mounted, view, context, singlePending, singles, epoch, views, missed>>

\* The kernel answers with all delays at once; nobody tells libbox's model.
Measured(task) ==
    /\ task \in batches /\ task.pc = "poll" /\ ~native /\ ~task.done
    /\ Replaced(task, {[task EXCEPT !.done = TRUE]})
    /\ UNCHANGED <<native, mounted, view, context, ticket, busy, pending, singlePending, probes, singles,
                   epoch, views, missed>>

Without(task) == IF task.waits THEN {[task EXCEPT !.pc = "gone"]} ELSE {}

\* A round of LaunchProxyGroupProbeBatch or LaunchNativeProxyProbeBatch: some nodes'
\* results are in the snapshot.
Poll(task, measured) ==
    /\ task \in batches /\ task.pc = "poll" /\ Valid(task) /\ Current(task.ticket) /\ ~task.done
    /\ Replaced(task, {task}) /\ Complete(task, measured)
    /\ UNCHANGED <<native, mounted, view, context, ticket, busy, singlePending, singles, epoch, views, missed>>

\* It was overtaken: on the desktop by leaving the test to its waiter.
Abandon(task) ==
    /\ task \in batches /\ task.pc = "poll" /\ (~Valid(task) \/ ~Current(task.ticket))
    /\ Replaced(task, Without(task))
    /\ IF native THEN End(task.ticket) ELSE UNCHANGED <<busy, pending, ticket, probes>>
    /\ UNCHANGED <<native, mounted, view, context, singlePending, singles, epoch, views, missed>>

\* All are measured, or the time is over: the rest failed.
Finish(task) ==
    /\ task \in batches /\ task.pc = "poll" /\ Valid(task) /\ Current(task.ticket)
    /\ Replaced(task, Without(task))
    /\ IF native THEN End(task.ticket)
       ELSE Complete(task, task.targets) /\ UNCHANGED <<busy, ticket>>
    /\ UNCHANGED <<native, mounted, view, context, singlePending, singles, epoch, views, missed>>

\* WaitForProxyTestBatch: limited in time on Android only.
Wait(task) ==
    /\ task \in batches /\ task.waits
    /\ ~Current(task.ticket) \/ pending = 0 \/ native
    /\ Replaced(task, IF task.pc = "poll" THEN {[task EXCEPT !.waits = FALSE]} ELSE {})
    /\ End(task.ticket)
    /\ UNCHANGED <<native, mounted, view, context, singlePending, singles, epoch, views, missed>>

----------------------------------------------------------------------------
(* A test of a single node *)

\* StartSingle: the card drawn with an older map does not count.
TestNode(n) ==
    /\ mounted /\ ~native /\ view.on /\ busy = 0 /\ ~probes[n].testing /\ ticket < MaxTests
    /\ ticket' = ticket + 1 /\ singlePending' = singlePending + 1
    /\ probes' = [probes EXCEPT ![n] = [Known(@) EXCEPT !.gen = ticket', !.testing = TRUE]]
    /\ singles' = singles \cup {[ticket |-> ticket', view |-> view, node |-> n, epoch |-> epoch]}
    /\ UNCHANGED <<native, mounted, view, context, busy, pending, batches, epoch, views, missed>>

\* Mutant of Same.
SameByNode(task) == probes[task.node].testing

\* CompleteSingle: the probe is still the one that was started.
Same(task) ==
    task.epoch = epoch /\ probes[task.node].gen = task.ticket /\ probes[task.node].testing

Completed(task) ==
    /\ task \in singles /\ singles' = singles \ {task}
    /\ IF Same(task)
       THEN /\ probes' = [probes EXCEPT ![task.node].testing = FALSE,
                                        ![task.node].result = IF Valid(task) THEN task.ticket ELSE 0]
            /\ singlePending' = singlePending - 1
       ELSE UNCHANGED <<probes, singlePending>>
    /\ UNCHANGED <<native, mounted, view, context, ticket, busy, pending, batches, epoch, views, missed>>

----------------------------------------------------------------------------
(* The kernel and the window *)

\* A restart may keep the plan: planRevision is the policy's. The page's effects run
\* between two changes.
Change ==
    /\ views < MaxViews /\ views' = views + 1 /\ (mounted => context = view)
    /\ missed' = (missed \/ ~mounted)
    /\ view' \in {[on |-> ~view.on, plan |-> view.plan], [on |-> view.on, plan |-> view.plan + 1]}
    /\ UNCHANGED <<native, mounted, context, ticket, busy, pending, singlePending, probes, batches, singles,
                   epoch>>

Window ==
    /\ mounted' = ~mounted
    /\ UNCHANGED <<native, view, context, ticket, busy, pending, singlePending, probes, batches, singles,
                   epoch, views, missed>>

Next ==
    \/ Observe \/ Change \/ Window
    \/ \E targets \in SUBSET Nodes : TestGroup(targets)
    \/ \E task \in batches : \/ \E ok \in BOOLEAN : Started(task, ok)
                             \/ \E measured \in SUBSET task.targets : Poll(task, measured)
                             \/ Measured(task) \/ Abandon(task) \/ Finish(task) \/ Wait(task)
    \/ \E n \in Nodes : TestNode(n)
    \/ \E task \in singles : Completed(task)

Spec == Init /\ [][Next]_vars

----------------------------------------------------------------------------
Testing == {n \in Nodes : probes[n].testing}

TypeOK ==
    /\ {native, mounted, view.on} \subseteq BOOLEAN /\ view.plan \in Nat /\ epoch \in 0..MaxViews
    /\ {ticket, busy} \subseteq 0..(MaxTests + MaxViews + 1)
    /\ \A n \in Nodes : probes[n].gen >= -1 /\ probes[n].result >= 0

\* The counters tell the truth: they decide whether another test may start, and a
\* card that says it is being tested has a task that will say otherwise.
CountsAreTrue ==
    /\ busy # 0 => singlePending = 0 /\ pending = Cardinality(Testing)
    /\ busy = 0 => /\ singlePending = Cardinality(Testing)
                   /\ \A n \in Testing : \E task \in singles :
                          task.node = n /\ task.ticket = probes[n].gen /\ task.epoch = epoch

\* A result is of the test that was started last on its node.
ResultIsOfLastTest ==
    [][\A n \in Nodes : probes'[n].result # probes[n].result /\ probes'[n].result # 0 =>
            probes[n].testing /\ probes'[n].result = probes[n].gen]_vars

\* A group test in progress has somebody who ends it, so that another may start: its
\* tasks, or the page that will see the change that overtook them.
BusyEnds ==
    busy # 0 /\ ~missed =>
        \/ context # view
        \/ \E task \in batches : task.ticket = busy /\ (task.pc \in {"start", "poll"} \/ pending = 0)
==============================================================================

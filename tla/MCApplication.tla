--------------------------- MODULE MCApplication ---------------------------
(***************************************************************************)
(* The application's page models and the processes it starts, for TLC, one *)
(* part at a time: the editors of rules and of the library of rule sets,   *)
(* the list of profiles, the tests of sites and of nodes, the kernel's     *)
(* process and the tool that checks configurations.                        *)
(***************************************************************************)
EXTENDS Integers, Sequences, FiniteSets, TLC

CONSTANTS
    None, Sets, Profiles, Sites, Nodes,
    MaxEdits, MaxOpened, MaxSaves, MaxJobs, MaxImports, MaxActions,
    Buffer, TailLen, MaxOutput, MaxLines, MaxStarts,
    Limit, MaxUrls, MaxProbes, MaxTests, MaxViews

ASSUME BoundsAreNumbers ==
    {MaxEdits, MaxOpened, MaxSaves, MaxJobs, MaxImports, MaxActions, Buffer, TailLen, MaxOutput,
     MaxLines, MaxStarts, Limit, MaxUrls, MaxProbes, MaxTests, MaxViews} \subseteq Nat

ASSUME NoneIsNoProfile == None \notin Profiles

ASSUME TestedAreFinite == IsFiniteSet(Sites) /\ IsFiniteSet(Nodes)

\* A site has an address.
ASSUME SitesHaveAddresses == MaxUrls > 0

VARIABLES
    subject,
    rules, accepted, loaded, saving, savePending, dirty, editor, closing, drawn, save, load, reload,
    ruleStore, ruleEdits, opened,
    lib, policy, personal, libMirror, libBusy, importing, form, jobs, libRead, imports,
    store, rev, list, mirror, pending, job, queued, drag, pump, asked, seen, report, deleting, wanted,
    actions,
    os, procs, child, pidfile, tunnel, pipe, monitor, grace, running, stopping, exit, starting,
    output, tail, wrote, read, starts,
    toolOs, use, pc, tool, large, late, success, error, file, staging,
    sites, siteQueue, siteRuns, siteProbes, launched,
    native, mounted, view, context, ticket, busy, nodesPending, singlePending, probes, batches,
    singles, epoch, views, missed

G == INSTANCE GlobalRules WITH pending <- savePending, store <- ruleStore, edits <- ruleEdits
R == INSTANCE RuleSets WITH edits <- personal, mirror <- libMirror, busy <- libBusy, read <- libRead
L == INSTANCE ProfileList
K == INSTANCE KernelProcess
C == INSTANCE ConfigTool WITH os <- toolOs, child <- tool
W == INSTANCE WebsiteTests WITH pending <- siteQueue, running <- siteRuns, probes <- siteProbes
T == INSTANCE ProxyTests WITH pending <- nodesPending

globalRules == <<rules, accepted, loaded, saving, savePending, dirty, editor, closing, drawn, save,
                 load, reload, ruleStore, ruleEdits, opened>>
ruleSets == <<lib, policy, personal, libMirror, libBusy, importing, form, jobs, libRead, imports>>
profiles == <<store, rev, list, mirror, pending, job, queued, drag, pump, asked, seen, report, deleting,
              wanted, actions>>
process == <<os, procs, child, pidfile, tunnel, pipe, monitor, grace, running, stopping, exit,
             starting, output, tail, wrote, read, starts>>
checks == <<toolOs, use, pc, tool, large, late, success, error, file, staging>>
websites == <<sites, siteQueue, siteRuns, siteProbes, launched>>
nodes == <<native, mounted, view, context, ticket, busy, nodesPending, singlePending, probes, batches,
           singles, epoch, views, missed>>
vars == <<subject, globalRules, ruleSets, profiles, process, checks, websites, nodes>>

Init ==
    /\ subject \in {"rules", "sets", "profiles", "process", "tool", "sites", "nodes"}
    /\ G!Init /\ R!Init /\ L!Init /\ K!Init /\ C!Init /\ W!Init /\ T!Init
    /\ subject # "rules" => ruleStore = G!EmptyStore
    /\ subject # "sets" => lib.ids = {}
    /\ subject # "process" => os = "mac"
    /\ subject # "tool" => toolOs = "posix" /\ use = "check"
    /\ subject # "sites" => \A id \in Sites : sites[id].url = 1
    /\ subject # "nodes" => native

Next ==
    /\ UNCHANGED subject
    /\ \/ /\ subject = "rules" /\ G!Next
          /\ UNCHANGED <<ruleSets, profiles, process, checks, websites, nodes>>
       \/ /\ subject = "sets" /\ R!Next
          /\ UNCHANGED <<globalRules, profiles, process, checks, websites, nodes>>
       \/ /\ subject = "profiles" /\ L!Next
          /\ UNCHANGED <<globalRules, ruleSets, process, checks, websites, nodes>>
       \/ /\ subject = "process" /\ K!Next
          /\ UNCHANGED <<globalRules, ruleSets, profiles, checks, websites, nodes>>
       \/ /\ subject = "tool" /\ C!Next
          /\ UNCHANGED <<globalRules, ruleSets, profiles, process, websites, nodes>>
       \/ /\ subject = "sites" /\ W!Next
          /\ UNCHANGED <<globalRules, ruleSets, profiles, process, checks, nodes>>
       \/ /\ subject = "nodes" /\ T!Next
          /\ UNCHANGED <<globalRules, ruleSets, profiles, process, checks, websites>>

Spec == Init /\ [][Next]_vars

\* Rule sets and nodes share their names; profiles are alike among themselves.
Alike == Permutations(Sets) \cup Permutations(Profiles)

\* Rules and rule sets: no edit is forgotten or added twice, an editor closes on what the
\* store has, a set goes only when somebody removes it, the rules that take part refer to
\* sets the library has, and no reader goes back to an older version.
RulesAreKept ==
    /\ []G!TypeOK
    /\ []G!NothingForgotten
    /\ []G!AddedOnce
    /\ G!AcceptedNeverGoesBack
    /\ G!ClosedWhenStored
    /\ []R!TypeOK
    /\ []R!EnabledResolve
    /\ R!OnlyRemoved
    /\ R!MirrorAdvances

\* The list of subscriptions: the last choice stands, no change of the store is missed,
\* what was shown ahead of the store is taken back, and a dropped card stays put.
ListFollowsStore ==
    /\ []L!TypeOK
    /\ []L!LastChoiceStands
    /\ []L!NothingMissed
    /\ []L!MirrorFollows
    /\ L!NoRebound

\* Child processes: one kernel, which somebody reaps, explained by the last lines that were
\* read; no tool or file of a check outlives it, and what is used was written whole.
ChildrenAreReaped ==
    /\ K!TypeOK
    /\ K!OneKernel
    /\ K!TailIsLatest
    /\ C!TypeOK
    /\ C!NothingLeft
    /\ C!SuccessIsWhole

\* Tests of websites and nodes: a result is of the last test of its site or node, cards and
\* counters tell what is under way, no slot idles while a site waits, and a group test has
\* somebody who ends it, but for one whose task went with its page while the kernel came
\* back to the plan it had (`missed' in ProxyTests).
TestsAreCurrent ==
    /\ []W!TypeOK
    /\ []W!PhasesAreTrue
    /\ []W!SlotsAreUsed
    /\ W!ResultIsOfLastTest
    /\ []T!TypeOK
    /\ []T!CountsAreTrue
    /\ []T!BusyEnds
    /\ T!ResultIsOfLastTest
==============================================================================

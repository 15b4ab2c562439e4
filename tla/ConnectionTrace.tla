--------------------------- MODULE ConnectionTrace ---------------------------
(***************************************************************************)
(* Which rule of the user's plan a live connection matched                 *)
(* (connection_trace.h, connection_trace.inc, connections_page.cpp). The   *)
(* kernel only describes the rule in words, so a reader pairs the plan the *)
(* store had accepted with the rules the running instance lists, and shows *)
(* nothing unless both are still the same after the connections were read. *)
(* The list and the detail page read at the same time.                     *)
(***************************************************************************)
EXTENDS Integers, Sequences, FiniteSets

CONSTANTS
    Readers,       \* the list and the detail page
    Plans,         \* plans: a sequence of [description, origin] by native rule; "" is no origin
    MaxInstances,  \* bound on kernel instances
    MaxConns,      \* bound on connections
    Unread         \* no verdict on a connection

VARIABLES
    core,      \* the store's snapshot: [running, epoch, plan]; a new plan is a new instance
    live,      \* the kernel that answers: [instance, plan], instance 0 when none does
    conns,     \* open connections of the live kernel: id -> native rule that accepted it
    opened,    \* every connection ever: id -> [instance, plan, rule]
    binding,   \* the binding the readers share: [instance, prior], instance 0 for none
    reader,    \* what each reader is in
    shown,     \* per connection the verdict shown
    known      \* connections a rule was shown for at any time

vars == <<core, live, conns, opened, binding, reader, shown, known>>

Ids == 1..MaxConns
Verdicts == {"prior", "unmapped", "ambiguous", Unread}   \* what is no rule
NoBinding == [instance |-> 0, prior |-> {}]
Idle == [pc |-> "idle", plan |-> 0, instance |-> 0, binding |-> NoBinding, fresh |-> FALSE, body |-> {}]
Absent == [instance |-> 0, plan |-> 0, rule |-> 0]

Init ==
    /\ core = [running |-> FALSE, instance |-> 0, plan |-> 0]
    /\ live = [instance |-> 0, plan |-> 0]
    /\ conns = {} /\ opened = [i \in Ids |-> Absent]
    /\ binding = NoBinding
    /\ reader = [r \in Readers |-> Idle]
    /\ shown = [i \in Ids |-> Unread] /\ known = {}

----------------------------------------------------------------------------
(* Resolve: the verdict on a connection, from its description alone *)

Described(plan, text) == {i \in 1..Len(Plans[plan]) : Plans[plan][i].description = text}

\* Every native rule takes part, also those without an origin: a description two
\* of them share is ambiguous.
Resolve(plan, prior, id, text) ==
    IF id \in prior THEN "prior"
    ELSE LET rules == Described(plan, text)
         IN  IF rules = {} THEN "unmapped"
             ELSE IF Cardinality(rules) > 1 THEN "ambiguous"
             ELSE LET origin == Plans[plan][CHOOSE i \in rules : TRUE].origin
                  IN  IF origin = "" THEN "unmapped" ELSE origin

----------------------------------------------------------------------------
(* The kernel and the store *)

\* A start the store publishes: a new instance with the plan it accepted.
Start(plan) ==
    /\ live.instance < MaxInstances
    /\ live' = [instance |-> live.instance + 1, plan |-> plan]
    /\ core' = [running |-> TRUE, instance |-> live.instance + 1, plan |-> plan]
    /\ conns' = {}
    /\ UNCHANGED <<opened, binding, reader, shown, known>>

\* The kernel is replaced or is starting and the store does not know yet.
Replaced(plan) ==
    /\ live.instance < MaxInstances /\ core.running
    /\ live' = [instance |-> live.instance + 1, plan |-> plan] /\ conns' = {}
    /\ UNCHANGED <<core, opened, binding, reader, shown, known>>

Stopped ==
    /\ core.running /\ core' = [core EXCEPT !.running = FALSE]
    /\ UNCHANGED <<live, conns, opened, binding, reader, shown, known>>

\* Ids are never used again.
Open(rule) ==
    LET id == 1 + Cardinality({i \in Ids : opened[i] # Absent})
    IN  /\ id \in Ids /\ live.instance # 0 /\ rule \in 1..Len(Plans[live.plan])
        /\ conns' = conns \cup {id}
        /\ opened' = [opened EXCEPT ![id] = [instance |-> live.instance, plan |-> live.plan, rule |-> rule]]
        /\ UNCHANGED <<core, live, binding, reader, shown, known>>

----------------------------------------------------------------------------
(* A reader, on a worker thread *)

\* Without a binding the page shows the stream's last frame, with no verdicts.
Drop(r) == reader' = [reader EXCEPT ![r] = Idle] /\ shown' = [i \in Ids |-> Unread]

Current(plan, instance) == core.running /\ core.plan = plan /\ core.instance = instance

\* tracedConnections: a snapshot of the store and the shared binding; then Read
\* goes on if the instance that answers is the one the snapshot names.
Begin(r) ==
    /\ reader[r].pc = "idle" /\ core.running /\ live.instance = core.instance
    /\ reader' = [reader EXCEPT ![r] = [Idle EXCEPT
            !.pc = IF binding.instance = core.instance THEN "body" ELSE "rules",
            !.plan = core.plan, !.instance = core.instance, !.binding = binding]]
    /\ UNCHANGED <<core, live, conns, opened, binding, shown, known>>

\* Without a binding of this instance the rules are listed: as many as the plan compiled to.
Rules(r) ==
    LET q == reader[r]
    IN  /\ q.pc = "rules"
        /\ IF live.instance # 0 /\ Len(Plans[live.plan]) = Len(Plans[q.plan])
           THEN /\ reader' = [reader EXCEPT ![r].pc = "body", ![r].fresh = TRUE,
                                  ![r].binding = [instance |-> q.instance, prior |-> {}]]
                /\ UNCHANGED shown
           ELSE Drop(r)
        /\ UNCHANGED <<core, live, conns, opened, binding, known>>

Body(r) ==
    /\ reader[r].pc = "body"
    /\ reader' = [reader EXCEPT ![r].pc = "again", ![r].body = conns]
    /\ UNCHANGED <<core, live, conns, opened, binding, shown, known>>

\* The same instance must answer again; what is open when a binding is made was
\* opened before anyone could attribute it.
Again(r) ==
    LET q == reader[r]
    IN  /\ q.pc = "again"
        /\ IF live.instance = q.instance
           THEN /\ reader' = [reader EXCEPT ![r].pc = "publish",
                                  ![r].binding.prior = IF q.fresh THEN q.body ELSE @]
                /\ UNCHANGED shown
           ELSE Drop(r)
        /\ UNCHANGED <<core, live, conns, opened, binding, known>>

PublishReplaces(r) ==
    LET q == reader[r]
    IN  /\ q.pc = "publish"
        /\ IF ~Current(q.plan, q.instance) THEN Drop(r) /\ UNCHANGED binding
           ELSE /\ binding' = q.binding
                /\ reader' = [reader EXCEPT ![r].pc = "show", ![r].binding = binding']
                /\ UNCHANGED shown
        /\ UNCHANGED <<core, live, conns, opened, known>>

\* Under the store's mutex: the first binding published for an instance is the
\* one every reader uses.
Publish(r) ==
    LET q == reader[r]
    IN  /\ q.pc = "publish"
        /\ IF ~Current(q.plan, q.instance) THEN Drop(r) /\ UNCHANGED binding
           ELSE /\ binding' = IF binding.instance = q.instance THEN binding ELSE q.binding
                /\ reader' = [reader EXCEPT ![r].pc = "show", ![r].binding = binding']
                /\ UNCHANGED shown
        /\ UNCHANGED <<core, live, conns, opened, known>>

\* On the UI thread, after parsing: the page shows the rows if the binding is
\* of the running plan still.
Show(r) ==
    LET q == reader[r]
        text(i) == Plans[opened[i].plan][opened[i].rule].description
    IN  /\ q.pc = "show"
        /\ shown' = IF Current(q.plan, q.instance)
                    THEN [i \in Ids |-> IF i \in q.body THEN Resolve(q.plan, q.binding.prior, i, text(i))
                                        ELSE Unread]
                    ELSE shown
        /\ known' = known \cup {i \in Ids : shown'[i] \notin Verdicts}
        /\ reader' = [reader EXCEPT ![r] = Idle]
        /\ UNCHANGED <<core, live, conns, opened, binding>>

Next ==
    \/ Stopped
    \/ \E p \in 1..Len(Plans) : Start(p) \/ Replaced(p)
    \/ \E rule \in 1..3 : Open(rule)
    \/ \E r \in Readers :
        Begin(r) \/ Rules(r) \/ Body(r) \/ Again(r) \/ Publish(r) \/ Show(r)

Spec == Init /\ [][Next]_vars

----------------------------------------------------------------------------
TypeOK ==
    /\ core.instance \in 0..MaxInstances /\ live.instance \in 0..MaxInstances
    /\ conns \subseteq Ids /\ binding.instance \in 0..MaxInstances /\ binding.prior \subseteq Ids
    /\ \A r \in Readers :
        /\ reader[r].pc \in {"idle", "rules", "body", "again", "publish", "show"}
        /\ reader[r].body \subseteq Ids

\* A connection attributed to a rule of the user's plan was accepted by that very
\* rule: not by one with the same description, not under an earlier plan, not by
\* a kernel that was replaced while it was read (Read, Resolve, Bind).
AttributedToItsRule ==
    \A i \in Ids : shown[i] \notin Verdicts => Plans[opened[i].plan][opened[i].rule].origin = shown[i]

\* A connection once attributed is not called one of an earlier plan afterwards
\* ("a later reader must not reclassify already observed new IDs").
NeverReclassified ==
    [][\A i \in known : shown'[i] # "prior"]_vars
==============================================================================

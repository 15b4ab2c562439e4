---------------------------- MODULE NetworkConflict ----------------------------
(***************************************************************************)
(* The check before each start of the kernel that no other program's       *)
(* tunnel is in its way (network_conflict.cpp, checkNetworkConflicts).     *)
(* The kernel that still runs has a tunnel of its own, which the check has *)
(* to tell from the others: by what the kernel that answers is known to    *)
(* have been started with, never by a name alone.  Addresses have two      *)
(* bits; of the routing table matter the default route, its two halves and *)
(* the routes of the two addresses that are looked up.                     *)
(***************************************************************************)
EXTENDS Integers, FiniteSets

CONSTANTS
    Plans,          \* what a kernel is started with: [tuns, listening]
    Others,         \* tunnels other programs or native sessions may open
    Tables,         \* routing tables: [prefix -> index]
    Physical,       \* the link that is always there
    MaxStarts

VARIABLES
    links,          \* by index: 1 the kernel's tunnel, 2 another's, 3 the physical link
    routes,
    kernel,         \* the plan it runs, or NoPlan, and the number of its last start
    lost,           \* its tunnel was taken from it
    expected,       \* the start the application knows it by, or 0
    applied,        \* the plan it was last given, or NoPlan when the application is new
    file,           \* the plan on disk, or NoPlan
    verdict         \* of the last check

vars == <<links, routes, kernel, lost, expected, applied, file, verdict>>

Indices == 1 .. 3
NoPlan == [none |-> TRUE]
NoLink == [up |-> FALSE, name |-> "", tunnel |-> FALSE, addresses |-> {}, native |-> FALSE]
Running == kernel.plan # NoPlan
Ended == [kernel EXCEPT !.plan = NoPlan]

TypeOK ==
    /\ links[1] = NoLink \/ links[1].tunnel
    /\ links[2] \in Others \cup {NoLink}
    /\ routes \in Tables
    /\ kernel.start \in 0 .. MaxStarts /\ kernel.plan \in Plans \cup {NoPlan}
    /\ expected \in 0 .. MaxStarts
    /\ applied \in Plans \cup {NoPlan} /\ file \in Plans \cup {NoPlan}
    /\ verdict.as \in {"none", "accepted", "refused"}

\* A table in which nobody has taken anything.
Plain(table) == \A p \in DOMAIN table : table[p] \in {0, 3}

Unasked == [as |-> "none"]

Init ==
    /\ links = [i \in Indices |-> IF i = 3 THEN Physical ELSE NoLink]
    /\ routes \in {t \in Tables : Plain(t)}
    /\ kernel = [start |-> 0, plan |-> NoPlan] /\ lost = FALSE /\ expected = 0
    /\ applied = NoPlan /\ file = NoPlan
    /\ verdict = Unasked

\* ---- addresses -----------------------------------------------------------
\* An address with its length: <<value, bits>>.
High(a) == a \div 2
First(prefix, bits) == IF bits = 0 THEN 0 ELSE IF bits = 1 THEN High(prefix[1]) ELSE prefix[1]

Shorter(x, y) == IF x[2] <= y[2] THEN x[2] ELSE y[2]

\* The bits both prefixes have.
Overlaps(x, y) == First(x, Shorter(x, y)) = First(y, Shorter(x, y))

\* The addresses of a prefix, and when two share one.
Within(prefix) == {a \in 0 .. 3 : First(<<a, 2>>, prefix[2]) = First(prefix, prefix[2])}
Share(x, y) == Within(x) \cap Within(y) # {}

\* ---- what is observed ------------------------------------------------------
\* lookup(): the most specific route of an address, its link and its length.
LookUp(address) ==
    LET matching == {p \in DOMAIN routes : routes[p] # 0 /\ address \in Within(p)}
        best == CHOOSE p \in matching : \A q \in matching : q[2] <= p[2] IN
    IF matching = {} THEN [index |-> 0, bits |-> 128]
    ELSE [index |-> routes[best], bits |-> best[2]]

\* The two addresses that are looked up, one of either half.
LowSample == 1
HighSample == 2

\* Inspect(): a link captures what has no route of its own when both halves go there.
Captures(i) ==
    \A a \in {LowSample, HighSample} : LookUp(a).index = i /\ LookUp(a).bits <= 1

\* OwnedInterfaces(): the tunnels that have the name, if there is one, and every address of
\* a tunnel of the plan, unless two have them.
OwnedInterfaces(tuns) ==
    LET Matches(tun) ==
            {i \in Indices :
                /\ links[i].up /\ links[i].tunnel
                /\ tun.name \in {"", links[i].name}
                /\ tun.addresses # {}
                /\ \A a \in tun.addresses : \E b \in links[i].addresses : a[1] = b[1]} IN
    UNION {Matches(tun) : tun \in {t \in tuns : Cardinality(Matches(t)) = 1}}

\* Check(): what is in a plan's way.
InTheWay(i, plan) ==
    /\ links[i].up
    /\ \/ \E tun \in plan.tuns :
              \/ tun.name # "" /\ tun.name = links[i].name
              \/ \E a \in tun.addresses, b \in links[i].addresses : Overlaps(a, b)
       \/ /\ plan.listening \/ plan.tuns # {}
          /\ links[i].tunnel /\ Captures(i) /\ ~links[i].native

\* What the running kernel was started with, by the application's word or the file's.
Known == IF applied # NoPlan THEN applied ELSE file

\* The kernel lives, answers, and is the one the application started, if it started one.
Authenticated(answers) ==
    /\ expected # 0 \/ Running
    /\ \E i \in Indices : links[i].up /\ links[i].tunnel
    /\ answers /\ Running
    /\ expected # 0 => kernel.start = expected

Owned(answers) ==
    IF Authenticated(answers) /\ Known # NoPlan THEN OwnedInterfaces(Known.tuns) ELSE {}

Accepts(plan, answers) == \A i \in Indices \ Owned(answers) : ~InTheWay(i, plan)

-----------------------------------------------------------------------------
\* The tunnel a kernel opens: it has the plan's name or one it chose itself.
Tunnel(plan) ==
    IF plan.tuns = {} THEN NoLink
    ELSE LET tun == CHOOSE t \in plan.tuns : TRUE IN
         [up |-> TRUE, name |-> IF tun.name = "" THEN "utun" ELSE tun.name, tunnel |-> TRUE,
          addresses |-> tun.addresses, native |-> FALSE]

\* What still goes by a link when another comes or goes.
Rerouted(i) == IF \E p \in DOMAIN routes : routes[p] = i
               THEN routes' \in {t \in Tables : Plain(t)}
               ELSE UNCHANGED routes

\* A start: the check, and when it accepts, the file, the old kernel's end and the new one.
\* The start may fail after the file was replaced.
Start(plan, answers) ==
    /\ kernel.start < MaxStarts
    /\ verdict' = [as |-> IF Accepts(plan, answers) THEN "accepted" ELSE "refused", plan |-> plan,
                   answers |-> answers]
    /\ IF ~Accepts(plan, answers)
       THEN UNCHANGED <<links, routes, kernel, lost, expected, applied, file>>
       ELSE /\ file' = plan /\ lost' = FALSE
            /\ \/ /\ kernel' = [start |-> kernel.start + 1, plan |-> plan]
                  /\ expected' \in {0, kernel.start + 1}
                  /\ applied' = plan
                  /\ links' = [links EXCEPT ![1] = Tunnel(plan)]
                  /\ UNCHANGED routes
               \/ /\ kernel' = Ended /\ expected' = 0
                  /\ links' = [links EXCEPT ![1] = NoLink]
                  /\ Rerouted(1)
                  /\ UNCHANGED applied

\* The kernel ends, unasked, and its tunnel with it.
KernelDies ==
    /\ Running
    /\ kernel' = Ended /\ lost' = FALSE
    /\ links' = [links EXCEPT ![1] = NoLink]
    /\ Rerouted(1)
    /\ verdict' = Unasked
    /\ UNCHANGED <<expected, applied, file>>

\* Somebody takes the tunnel from the kernel, which goes on.
TunnelLost ==
    /\ links[1].up /\ Running
    /\ lost' = TRUE
    /\ links' = [links EXCEPT ![1] = NoLink]
    /\ Rerouted(1)
    /\ verdict' = Unasked
    /\ UNCHANGED <<kernel, expected, applied, file>>

\* The application is new, and the kernel is not.
AppRestarts ==
    /\ expected' = 0 /\ applied' = NoPlan
    /\ verdict' = Unasked
    /\ UNCHANGED <<links, routes, kernel, lost, file>>

\* Other programs' tunnels, and what the system routes by whom: a link takes routes, or what
\* it took is given back. Two links have two names.
OtherOpens(link) ==
    /\ links[2] = NoLink /\ \A i \in {1, 3} : links[i].name # link.name
    /\ links' = [links EXCEPT ![2] = link]
    /\ verdict' = Unasked
    /\ UNCHANGED <<routes, kernel, lost, expected, applied, file>>

OtherCloses ==
    /\ links[2] # NoLink
    /\ links' = [links EXCEPT ![2] = NoLink]
    /\ Rerouted(2)
    /\ verdict' = Unasked
    /\ UNCHANGED <<kernel, lost, expected, applied, file>>

Reroute ==
    /\ routes' \in {t \in Tables : /\ \A p \in DOMAIN t : t[p] \in {0, 3} \cup {i \in Indices : links[i].up}
                                   /\ Plain(routes) \/ Plain(t)}
    /\ verdict' = Unasked
    /\ UNCHANGED <<links, kernel, lost, expected, applied, file>>

Next ==
    \/ \E plan \in Plans, answers \in BOOLEAN : Start(plan, answers)
    \/ KernelDies \/ TunnelLost \/ AppRestarts
    \/ \E link \in Others : OtherOpens(link)
    \/ OtherCloses \/ Reroute

Spec == Init /\ [][Next]_vars

-----------------------------------------------------------------------------
\* A table without routes of single addresses.
Coarse == [p \in {q \in DOMAIN routes : q[2] <= 1} |-> routes[p]]

\* Where an address goes that has no route of its own.
Default(a) ==
    LET matching == {p \in DOMAIN Coarse : Coarse[p] # 0 /\ a \in Within(p)} IN
    {Coarse[p] : p \in {q \in matching : \A r \in matching : r[2] <= q[2]}}

\* A link that is said to capture the network has everything that has no route of its own;
\* and one that has it is said so, unless the addresses looked up have routes of their own.
CaptureIsMeant ==
    \A i \in Indices :
        /\ Captures(i) => \A a \in 0 .. 3 : Default(a) = {i}
        /\ (\A a \in 0 .. 3 : Default(a) = {i})
           /\ (\A p \in DOMAIN routes : p[2] = 2 /\ routes[p] # 0 => p[1] \notin {LowSample, HighSample})
               => Captures(i)

\* A foreign link that shares an address or a name with the plan or has taken the network.
Obstacle(i, plan) ==
    /\ links[i].up
    /\ \/ \E tun \in plan.tuns :
              \/ tun.name # "" /\ tun.name = links[i].name
              \/ \E a \in tun.addresses, b \in links[i].addresses : Share(a, b)
       \/ /\ plan.listening \/ plan.tuns # {}
          /\ links[i].tunnel /\ Captures(i) /\ ~links[i].native

\* Another's tunnel that has every address of ours and may have its name.
Double == \E tun \in (IF Known = NoPlan THEN {} ELSE Known.tuns) :
              /\ tun.name \in {"", links[2].name}
              /\ \A a \in tun.addresses : \E b \in links[2].addresses : a[1] = b[1]

\* No start goes ahead over another's tunnel, except one that has all that the kernel's own,
\* taken from it, had; and the kernel's own tunnel stops no start, if the kernel answers and
\* is the one the application knows, unless another has the same or a later start failed
\* and left its plan on disk.
OthersAreFound ==
    [][/\ verdict'.as = "accepted" /\ ~(lost /\ Double) =>
              \A i \in {2, 3} : ~Obstacle(i, verdict'.plan)
       /\ verdict'.as = "refused" /\ verdict'.answers /\ Running /\ expected \in {0, kernel.start}
          /\ Known = kernel.plan /\ ~Double =>
              \E i \in {2, 3} : Obstacle(i, verdict'.plan)]_vars
==============================================================================

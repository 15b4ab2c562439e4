------------------------------- MODULE MCShell -------------------------------
(***************************************************************************)
(* What the application is seen by, for TLC, one part at a time: its       *)
(* launches and their commands, its window and icon, and the codes a       *)
(* profile is shared by.                                                   *)
(***************************************************************************)
EXTENDS Integers, FiniteSets, TLC

CONSTANTS
    Processes, None, MaxCrashes,
    MaxFaults,
    Streams, BlockCount, MaxDegree,
    Requests, Transports, Origins, MaxIdle,
    Callers, Resources, Concurrency, Capacity,
    Plans, Others, Tables, Physical, MaxStarts

\* Nobody is a process or a call; there are finitely many calls and resources.
ASSUME NoneIsNobody == None \notin Processes \cup Callers
ASSUME FetchesAreFinite == IsFiniteSet(Callers) /\ IsFiniteSet(Resources)
ASSUME BoundsAreNumbers == {Concurrency, Capacity, MaxCrashes, MaxFaults, BlockCount, MaxStarts} \subseteq Nat
ASSUME StreamsAreNumbered == 0 \notin Streams
ASSUME PoolHasRoom == MaxIdle \in Nat \ {0}

\* Addresses have two bits, with how many of them are the network's; a network is written
\* by its first address.
Addresses == (0 .. 3) \X (0 .. 2)
Networks == {<<0, 0>>, <<0, 1>>, <<2, 1>>} \cup (0 .. 3) \X {2}

\* A route is to a network, by a link or by none; who is there has addresses; a plan that
\* has a tunnel has one, with an address, without which a kernel opens none.
ASSUME RoutesAreNetworks == \A t \in Tables : \A p \in DOMAIN t : p \in Networks /\ t[p] \in 0 .. 3
ASSUME LinksAreGiven ==
    \A link \in Others \cup {Physical} : link.addresses \subseteq Addresses
                                       /\ (link = Physical => link.tunnel = FALSE)
ASSUME PlansAreOpened ==
    /\ [none |-> TRUE] \notin Plans
    /\ \A plan \in Plans : \A tun \in plan.tuns :
           plan.tuns = {tun} /\ tun.addresses # {} /\ tun.addresses \subseteq Addresses

VARIABLES
    subject,
    platform, kind, phase, holders, file, seen, wakeable, woken, stale, request, response, batch,
    serving, answered, runs, broken, outcome, unsaved, saved, late, crashes,
    host, trayOn, light, start, value, ui, composed, asking, hiding, installing, leaving, faults,
    stream, rows, span, result,
    transport, idle, job, temps, dest, told,
    step, want, stop, flight, flights, state, active, brought,
    links, routes, kernel, lost, expected, applied, planFile, verdict

\* The plans a kernel is started with, the tunnels others open, and the tables the system
\* may have: a default route or its halves, and routes of the two addresses looked up.
Tun(name, addresses) == [name |-> name, addresses |-> addresses]
TunPlans == {[tuns |-> {}, listening |-> TRUE], [tuns |-> {}, listening |-> FALSE],
             [tuns |-> {Tun("", {<<0, 1>>})}, listening |-> TRUE],
             [tuns |-> {Tun("tun", {<<1, 2>>})}, listening |-> TRUE]}
OthersTunnels ==
    {[up |-> TRUE, tunnel |-> TRUE, name |-> at[1], addresses |-> at[2], native |-> FALSE] :
        at \in {<<"tun", {<<1, 2>>}>>, <<"vpn", {<<0, 1>>}>>, <<"vpn", {<<1, 2>>}>>}}
    \cup [up : {TRUE}, tunnel : {TRUE}, name : {"ppp"}, addresses : {{<<2, 2>>}}, native : BOOLEAN]
Ethernet == [up |-> TRUE, name |-> "eth", tunnel |-> FALSE, addresses |-> {<<3, 2>>}, native |-> FALSE]
Prefixes == {<<0, 0>>, <<0, 1>>, <<2, 1>>, <<1, 2>>, <<2, 2>>}
Taken == {{<<0, 0>>}, {<<0, 1>>, <<2, 1>>}, {<<0, 1>>}, {<<1, 2>>, <<2, 2>>}}
RoutingTables ==
    {[p \in Prefixes |-> IF p \in s THEN i ELSE IF p = <<0, 0>> \/ p \in own THEN 3 ELSE 0] :
        s \in Taken \cup {{}}, i \in 1 .. 2, own \in {{}, {<<1, 2>>}}}
    \cup {[p \in Prefixes |-> 0]}

I == INSTANCE AppInstance
D == INSTANCE DesktopWindow
Q == INSTANCE QrsCodec
L == INSTANCE Downloads
F == INSTANCE ProviderResources WITH result <- brought
C == INSTANCE NetworkConflict WITH file <- planFile

launches == <<platform, kind, phase, holders, file, seen, wakeable, woken, stale, request, response,
              batch, serving, answered, runs, broken, outcome, unsaved, saved, late, crashes>>
desktop == <<host, trayOn, light, start, value, ui, composed, asking, hiding, installing, leaving, faults>>
codes == <<stream, rows, span, result>>
downloads == <<transport, idle, job, temps, dest, told>>
fetching == <<step, want, stop, flight, flights, state, active, brought>>
tunnels == <<links, routes, kernel, lost, expected, applied, planFile, verdict>>
vars == <<subject, launches, desktop, codes, downloads, fetching, tunnels>>

\* Of a part that does not move one state is enough. An earlier process's answer lies there
\* for every launch that waits for one.
Init ==
    /\ subject \in {"launches", "desktop", "codes", "downloads", "fetches", "tunnels"}
    /\ I!Init /\ (subject # "launches" => platform = "posix" /\ kind = [p \in Processes |-> "gui"])
    /\ response = [p \in Processes |-> IF kind[p] = "gui" THEN "none" ELSE "whole"]
    /\ D!Init /\ (subject # "desktop" => ~host /\ ~trayOn /\ ~light)
    /\ Q!Init
    /\ L!Init /\ (subject # "downloads" => transport = "curl")
    /\ F!Init
    /\ C!Init /\ (subject # "tunnels" => routes = [p \in Prefixes |-> 0])

Next ==
    /\ UNCHANGED subject
    /\ \/ subject = "launches" /\ I!Next /\ UNCHANGED <<desktop, codes, downloads, fetching, tunnels>>
       \/ subject = "desktop" /\ D!Next /\ UNCHANGED <<launches, codes, downloads, fetching, tunnels>>
       \/ subject = "codes" /\ Q!Next /\ UNCHANGED <<launches, desktop, downloads, fetching, tunnels>>
       \/ subject = "downloads" /\ L!Next /\ UNCHANGED <<launches, desktop, codes, fetching, tunnels>>
       \/ subject = "tunnels" /\ C!Next /\ UNCHANGED <<launches, desktop, codes, downloads, fetching>>
       \/ subject = "fetches" /\ F!Next /\ UNCHANGED <<launches, desktop, codes, downloads, tunnels>>

Spec == Init /\ [][Next]_vars

\* Launches differ in what they were launched for, requests in what they ask.
Alike == Permutations(Processes) \cup Permutations(Requests)

\* Launches and the window: one owner of the application, a reported command ran, once, and
\* is kept, and nothing appears once the end was requested.
OneApplication ==
    /\ I!TypeOK
    /\ I!OneOwner
    /\ I!ReportedRan
    /\ I!RunsOnce
    /\ I!ReportedIsSaved
    /\ D!TypeOK
    /\ D!NothingAfterExit

\* A take-over puts an owner to death only when it announced its end (the signal that wakes
\* is another matter: it ends an owner that does not handle it yet). A window or a menu is
\* brought back after every tick but to a window only hidden while there is no icon; a
\* failed installation brings it back always; and menus of different trees do not turn into
\* each other.
WindowComesBack ==
    /\ I!EvictsOnlyClosing
    /\ D!TickBringsBack
    /\ D!FailureGivesBack
    /\ D!TreesDoNotSwap

\* What comes from outside is what it says. Codes: the rows say what the codes said, enough
\* codes complete a profile, and only a foreign code loses it. Downloads: no secret reaches
\* another's server, the destination is never half a file, and who asked is told the truth.
\* Provider resources: callers share a load and only a load, nobody waits for nobody, is
\* cancelled for another or given an answer nobody loaded.
\* Other programs' tunnels: what captures the network is known, and no start goes over one.
OutsideIsChecked ==
    /\ []Q!TypeOK
    /\ []Q!RowsSpanCodes
    /\ []Q!CodesSuffice
    /\ Q!OnlyNoiseFails
    /\ [](subject = "downloads" => L!TypeOK /\ L!SecretsStayApart /\ L!DestinationIsWhole)
    /\ L!TellsTheTruth
    /\ [](subject = "fetches" => F!TypeOK /\ F!OneLoad /\ F!WaitsForSomebody /\ F!NoEmptyAnswer)
    /\ F!CancelIsOwn
    /\ [](subject = "tunnels" => C!TypeOK /\ C!CaptureIsMeant)
    /\ C!OthersAreFound
==============================================================================

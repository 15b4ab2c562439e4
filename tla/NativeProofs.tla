------------------------------ MODULE NativeProofs ------------------------------
(***************************************************************************)
(* Proofs about the native connections: the Linux and the Windows route    *)
(* registries keep their routes and implement RouteLeases, a session is    *)
(* taken down only after its withdrawal, and a lookup keeps one bypass.    *)
(*                                                                         *)
(* Each part has an inductive invariant (LinuxInv, WindowsInv, SessionInv, *)
(* LookupInv), one lemma per action that keeps it, and for the registries  *)
(* a second round of lemmas for the step of the contract it implements.    *)
(***************************************************************************)
EXTENDS MCNative, TLAPS, FiniteSetTheorems

(***************************************************************************)
(* The Linux registry: the invariant, and the steps that keep it.          *)
(***************************************************************************)

Inner     == {"list", "reserve", "route", "rule", "unrule", "unroute", "unreserve"}
Acquiring == {"acquire", "list", "reserve", "route", "rule"}
Filling   == {"route", "rule", "unrule", "unroute", "unreserve"}

\* Who has the mutex, and what it works on.
TurnInv ==
    \A t \in Threads :
        /\ mutex = t <=> pc[t] \in Inner
        /\ pc[t] \in Acquiring => want[t] \in Keys
        /\ pc[t] \in Acquiring \cup {"idle"} => dying[t] = None
        /\ pc[t] \in {"release", "unrule"} => dying[t] # None
        /\ pc[t] \in Filling => at[t] \in Linux!Tables
        /\ pc[t] \in {"unrule", "unroute", "unreserve"} /\ dying[t] # None => at[t] = dying[t].table

\* A table that a thread fills for a lease to come, or empties after a failed command.
Working(t) == pc[t] \in Filling /\ dying[t] = None

\* The weak map knows every lease that is held; who is about to add a lease saw that nobody
\* holds one of its key.
KeyInv ==
    /\ \A l \in Linux!Lease : Linux!Live(l) => l.key \in DOMAIN entries /\ entries[l.key] = l.table
    /\ \A t \in Threads : pc[t] \in {"list", "reserve", "route", "rule"} =>
           \A l \in Linux!Lease : Linux!Live(l) => l.key # want[t]

\* Tables in use are owned, and who reserves one knows them all.
OwnInv ==
    /\ \A l \in Linux!Lease : Linux!Live(l) => l.table \in owned
    /\ \A t \in Threads : dying[t] # None => dying[t].table \in owned
    /\ \A t \in Threads : Working(t) => at[t] \in owned
    /\ \A t \in Threads : pc[t] = "reserve" =>
           /\ owned \subseteq busy[t]
           /\ \A n \in Linux!Tables \ busy[t] : os[n].route = None /\ os[n].rule = None

\* No table is in use twice.
TableInv ==
    /\ \A l, m \in Linux!Lease : Linux!Live(l) /\ Linux!Live(m) /\ l.table = m.table => l = m
    /\ \A l \in Linux!Lease, t \in Threads : Linux!Live(l) =>
           /\ dying[t] # None => dying[t].table # l.table
           /\ Working(t) => at[t] # l.table
    /\ \A t, u \in Threads : dying[t] # None /\ t # u =>
           /\ dying[u] # None => dying[u].table # dying[t].table
           /\ Working(u) => at[u] # dying[t].table

\* What is in the tables, command by command: only what a command left that failed is
\* without the sentinel, or in the way of the next command.
SystemInv ==
    /\ Linux!SentinelGuards
    /\ \A t \in Threads :
        /\ pc[t] \in {"route", "rule"} => os[at[t]].sentinel /\ os[at[t]].rule = None
        /\ pc[t] = "route" => os[at[t]].route = None
        /\ pc[t] = "rule" => os[at[t]].route = want[t]
        /\ pc[t] \in {"unroute", "unreserve"} => os[at[t]].rule = None \/ at[t] \in stuck
        /\ pc[t] = "unreserve" => os[at[t]].route = None \/ at[t] \in stuck
    /\ Linux!HeldIsInstalled

\* Every table the process owns is in use.
ClaimInv ==
    \A n \in owned :
        \/ \E l \in Linux!Lease : Linux!Live(l) /\ l.table = n
        \/ \E t \in Threads : dying[t] # None /\ dying[t].table = n
        \/ \E t \in Threads : Working(t) /\ at[t] = n

LinuxInv ==
    Linux!TypeOK /\ TurnInv /\ KeyInv /\ OwnInv /\ TableInv /\ SystemInv /\ ClaimInv


Row == [sentinel : BOOLEAN, route : Keys \cup {None}, rule : Keys \cup {None}, foreign : BOOLEAN]

LEMMA RowUpdates ==
    ASSUME NEW f \in [Linux!Tables -> Row], NEW n \in Linux!Tables
    PROVE  /\ \A b \in BOOLEAN : [f EXCEPT ![n].sentinel = b] \in [Linux!Tables -> Row]
           /\ \A b \in BOOLEAN : [f EXCEPT ![n].foreign = b] \in [Linux!Tables -> Row]
           /\ \A k \in Keys \cup {None} : [f EXCEPT ![n].route = k] \in [Linux!Tables -> Row]
           /\ \A k \in Keys \cup {None} : [f EXCEPT ![n].rule = k] \in [Linux!Tables -> Row]
<1>1. f[n] \in Row
    OBVIOUS
<1>2. /\ \A b \in BOOLEAN : [f[n] EXCEPT !.sentinel = b] \in Row /\ [f[n] EXCEPT !.foreign = b] \in Row
      /\ \A k \in Keys \cup {None} : [f[n] EXCEPT !.route = k] \in Row /\ [f[n] EXCEPT !.rule = k] \in Row
    BY <1>1 DEF Row
<1> QED BY <1>1, <1>2

LEMMA AcquireKeeps == ASSUME LinuxInv, NEW t \in Threads, NEW k \in Keys, Linux!Acquire(t, k) PROVE LinuxInv'
<1>1. Linux!TypeOK'
    BY NoneIsNothing, BoundsAreNumbers
        DEF LinuxInv, Linux!TypeOK, TurnInv, Linux!Acquire, Linux!Go, Linux!Lease, Linux!Tables,
            Inner, Acquiring, Filling
<1>2. TurnInv'
    BY NoneIsNothing, BoundsAreNumbers
        DEF LinuxInv, Linux!TypeOK, TurnInv, Linux!Acquire, Linux!Go, Linux!Lease, Linux!Tables,
            Inner, Acquiring, Filling
<1>3. KeyInv'
    BY NoneIsNothing, BoundsAreNumbers
        DEF LinuxInv, Linux!TypeOK, TurnInv, KeyInv, Linux!Acquire, Linux!Go, Linux!Lease,
            Linux!Tables, Inner, Acquiring, Filling, Linux!Live
<1>4. OwnInv'
    BY NoneIsNothing, BoundsAreNumbers
        DEF LinuxInv, Linux!TypeOK, TurnInv, OwnInv, TableInv, Linux!Acquire, Linux!Go,
            Linux!Lease, Linux!Tables, Inner, Acquiring, Filling, Linux!Live, Working
<1>5. TableInv'
    <2>1. \A u \in Threads : (Working(u))' <=> Working(u)
        BY DEF LinuxInv, Linux!TypeOK, Linux!Acquire, Linux!Go, Working, Filling
    <2>2. dying' = dying /\ held' = held /\ at' = at
        BY DEF Linux!Acquire
    <2> QED BY <2>1, <2>2 DEF LinuxInv, TableInv, Linux!Live
<1>6. SystemInv'
    BY NoneIsNothing, BoundsAreNumbers
        DEF LinuxInv, Linux!TypeOK, TurnInv, OwnInv, TableInv, SystemInv, KeyInv, Linux!Acquire,
            Linux!Go, Linux!Lease, Linux!Tables, Inner, Acquiring, Filling, Linux!Live, Working,
            Linux!HeldIsInstalled, Linux!SentinelGuards
<1>7. ClaimInv'
    BY NoneIsNothing, BoundsAreNumbers
        DEF LinuxInv, Linux!TypeOK, TurnInv, OwnInv, TableInv, ClaimInv, Linux!Acquire, Linux!Go,
            Linux!Lease, Linux!Tables, Inner, Acquiring, Filling, Linux!Live, Working
<1> QED BY <1>1, <1>2, <1>3, <1>4, <1>5, <1>6, <1>7 DEF LinuxInv

LEMMA ShareKeeps == ASSUME LinuxInv, NEW t \in Threads, Linux!Share(t) PROVE LinuxInv'
<1>1. Linux!TypeOK'
    BY SMTT(30), NoneIsNothing, BoundsAreNumbers
        DEF LinuxInv, Linux!TypeOK, TurnInv, Linux!Share, Linux!Go, Linux!Existing, Linux!Lease,
            Linux!Tables, Inner, Acquiring, Filling, Linux!Live
<1>2. TurnInv'
    BY NoneIsNothing, BoundsAreNumbers
        DEF LinuxInv, Linux!TypeOK, TurnInv, Linux!Share, Linux!Go, Linux!Existing, Linux!Lease,
            Linux!Tables, Inner, Acquiring, Filling, Linux!Live
<1>3. KeyInv'
    BY NoneIsNothing, BoundsAreNumbers
        DEF LinuxInv, Linux!TypeOK, TurnInv, KeyInv, Linux!Share, Linux!Go, Linux!Existing,
            Linux!Lease, Linux!Tables, Inner, Acquiring, Filling, Linux!Live
<1>4. OwnInv'
    BY NoneIsNothing, BoundsAreNumbers
        DEF LinuxInv, Linux!TypeOK, TurnInv, OwnInv, TableInv, Linux!Share, Linux!Go,
            Linux!Existing, Linux!Lease, Linux!Tables, Inner, Acquiring, Filling, Linux!Live,
            Working
<1>5. TableInv'
    <2>1. \A l \in Linux!Lease : (Linux!Live(l))' <=> Linux!Live(l)
        BY NoneIsNothing DEF LinuxInv, Linux!TypeOK, TurnInv, Acquiring, Linux!Share, Linux!Existing, Linux!Live
    <2>2. \A u \in Threads : (Working(u))' <=> Working(u)
        BY DEF LinuxInv, Linux!TypeOK, Linux!Share, Linux!Go, Working, Filling
    <2> QED BY <2>1, <2>2 DEF LinuxInv, TableInv, Linux!Share
<1>6. SystemInv'
    BY NoneIsNothing, BoundsAreNumbers
        DEF LinuxInv, Linux!TypeOK, TurnInv, OwnInv, TableInv, SystemInv, KeyInv, Linux!Share,
            Linux!Go, Linux!Existing, Linux!Lease, Linux!Tables, Inner, Acquiring, Filling,
            Linux!Live, Working, Linux!HeldIsInstalled, Linux!SentinelGuards
<1>7. ClaimInv'
    BY NoneIsNothing, BoundsAreNumbers
        DEF LinuxInv, Linux!TypeOK, TurnInv, OwnInv, TableInv, ClaimInv, Linux!Share, Linux!Go,
            Linux!Existing, Linux!Lease, Linux!Tables, Inner, Acquiring, Filling, Linux!Live,
            Working
<1> QED BY <1>1, <1>2, <1>3, <1>4, <1>5, <1>6, <1>7 DEF LinuxInv

LEMMA EnterKeeps == ASSUME LinuxInv, NEW t \in Threads, Linux!Enter(t) PROVE LinuxInv'
<1>1. Linux!TypeOK'
    BY NoneIsNothing, BoundsAreNumbers
        DEF LinuxInv, Linux!TypeOK, TurnInv, Linux!Enter, Linux!Go, Linux!Existing, Linux!Lease,
            Linux!Tables, Inner, Acquiring, Filling, Linux!Live
<1>2. TurnInv'
    BY NoneIsNothing, BoundsAreNumbers
        DEF LinuxInv, Linux!TypeOK, TurnInv, Linux!Enter, Linux!Go, Linux!Existing, Linux!Lease,
            Linux!Tables, Inner, Acquiring, Filling, Linux!Live
<1>3. KeyInv'
    BY SMTT(30), NoneIsNothing, BoundsAreNumbers
        DEF LinuxInv, Linux!TypeOK, TurnInv, KeyInv, Linux!Enter, Linux!Go, Linux!Existing,
            Linux!Lease, Linux!Tables, Inner, Acquiring, Filling, Linux!Live
<1>4. OwnInv'
    BY NoneIsNothing, BoundsAreNumbers
        DEF LinuxInv, Linux!TypeOK, TurnInv, OwnInv, TableInv, Linux!Enter, Linux!Go,
            Linux!Existing, Linux!Lease, Linux!Tables, Inner, Acquiring, Filling, Linux!Live,
            Working
<1>5. TableInv'
    BY NoneIsNothing, BoundsAreNumbers
        DEF LinuxInv, Linux!TypeOK, TurnInv, OwnInv, TableInv, KeyInv, Linux!Enter, Linux!Go,
            Linux!Existing, Linux!Lease, Linux!Tables, Inner, Acquiring, Filling, Linux!Live,
            Working
<1>6. SystemInv'
    BY NoneIsNothing, BoundsAreNumbers
        DEF LinuxInv, Linux!TypeOK, TurnInv, OwnInv, TableInv, SystemInv, KeyInv, Linux!Enter,
            Linux!Go, Linux!Existing, Linux!Lease, Linux!Tables, Inner, Acquiring, Filling,
            Linux!Live, Working, Linux!HeldIsInstalled, Linux!SentinelGuards
<1>7. ClaimInv'
    BY NoneIsNothing, BoundsAreNumbers
        DEF LinuxInv, Linux!TypeOK, TurnInv, OwnInv, TableInv, ClaimInv, Linux!Enter, Linux!Go,
            Linux!Existing, Linux!Lease, Linux!Tables, Inner, Acquiring, Filling, Linux!Live,
            Working
<1> QED BY <1>1, <1>2, <1>3, <1>4, <1>5, <1>6, <1>7 DEF LinuxInv

LEMMA ListKeeps == ASSUME LinuxInv, NEW t \in Threads, Linux!List(t) PROVE LinuxInv'
<1>1. Linux!TypeOK'
    <2>1. owned \cup Linux!Used \subseteq Linux!Tables
        BY DEF LinuxInv, Linux!TypeOK, Linux!Used
    <2>2. busy' \in [Threads -> SUBSET Linux!Tables]
        BY <2>1 DEF LinuxInv, Linux!TypeOK, Linux!List
    <2>3. at' \in [Threads -> 0 .. LastTable + 1]
        BY BoundsAreNumbers DEF LinuxInv, Linux!TypeOK, Linux!List
    <2> QED BY <2>2, <2>3 DEF LinuxInv, Linux!TypeOK, Linux!List, Linux!Go
<1>2. TurnInv'
    BY NoneIsNothing, BoundsAreNumbers
        DEF LinuxInv, Linux!TypeOK, TurnInv, Linux!List, Linux!Go, Linux!Used, Linux!Lease,
            Linux!Tables, Inner, Acquiring, Filling, Linux!Empty
<1>3. KeyInv'
    BY NoneIsNothing, BoundsAreNumbers
        DEF LinuxInv, Linux!TypeOK, TurnInv, KeyInv, Linux!List, Linux!Go, Linux!Used,
            Linux!Lease, Linux!Tables, Inner, Acquiring, Filling, Linux!Live, Linux!Empty
<1>4. OwnInv'
    BY NoneIsNothing, BoundsAreNumbers
        DEF LinuxInv, Linux!TypeOK, TurnInv, OwnInv, TableInv, Linux!List, Linux!Go, Linux!Used,
            Linux!Lease, Linux!Tables, Inner, Acquiring, Filling, Linux!Live, Working, Linux!Empty
<1>5. TableInv'
    BY NoneIsNothing, BoundsAreNumbers
        DEF LinuxInv, Linux!TypeOK, TurnInv, OwnInv, TableInv, KeyInv, Linux!List, Linux!Go,
            Linux!Used, Linux!Lease, Linux!Tables, Inner, Acquiring, Filling, Linux!Live,
            Working, Linux!Empty
<1>6. SystemInv'
    BY NoneIsNothing, BoundsAreNumbers
        DEF LinuxInv, Linux!TypeOK, TurnInv, OwnInv, TableInv, SystemInv, KeyInv, Linux!List,
            Linux!Go, Linux!Used, Linux!Lease, Linux!Tables, Inner, Acquiring, Filling,
            Linux!Live, Working, Linux!HeldIsInstalled, Linux!SentinelGuards, Linux!Empty
<1>7. ClaimInv'
    BY NoneIsNothing, BoundsAreNumbers
        DEF LinuxInv, Linux!TypeOK, TurnInv, OwnInv, TableInv, ClaimInv, Linux!List, Linux!Go,
            Linux!Used, Linux!Lease, Linux!Tables, Inner, Acquiring, Filling, Linux!Live,
            Working, Linux!Empty
<1> QED BY <1>1, <1>2, <1>3, <1>4, <1>5, <1>6, <1>7 DEF LinuxInv

LEMMA ReserveKeeps == ASSUME LinuxInv, NEW t \in Threads, Linux!Reserve(t) PROVE LinuxInv'
<1> DEFINE new == at[t]
           taken == ~(new \in busy[t] \/ os[new].sentinel)
<1>1. /\ pc[t] = "reserve" /\ new \in Linux!Tables /\ dying[t] = None
      /\ UNCHANGED <<mutex, entries, held, want, busy, dying, swept, stuck, steps>>
    BY DEF LinuxInv, TurnInv, Acquiring, Linux!Reserve
<1>2. CASE ~taken
    <2>1. at' = [at EXCEPT ![t] = new + 1] /\ UNCHANGED <<os, owned, pc>>
        BY <1>2 DEF Linux!Reserve
    <2>2. Linux!TypeOK'
        BY <1>1, <2>1, BoundsAreNumbers DEF LinuxInv, Linux!TypeOK, Linux!Tables
    <2>3. /\ \A u \in Threads : (Working(u))' <=> Working(u)
          /\ \A u \in Threads : pc[u] \in Filling => at'[u] = at[u]
        BY <1>1, <2>1 DEF LinuxInv, Linux!TypeOK, Working, Filling
    <2>4. TurnInv' /\ KeyInv'
        BY <1>1, <2>1, <2>3 DEF LinuxInv, TurnInv, KeyInv, Linux!Live, Filling
    <2>5. OwnInv' /\ TableInv' /\ ClaimInv'
        BY <1>1, <2>1, <2>3 DEF LinuxInv, OwnInv, TableInv, ClaimInv, Linux!Live, Working
    <2>6. SystemInv'
        BY <1>1, <2>1, <2>3 DEF LinuxInv, SystemInv, Linux!HeldIsInstalled, Linux!SentinelGuards, Linux!Live, Filling
    <2> QED BY <2>2, <2>4, <2>5, <2>6 DEF LinuxInv
<1>3. CASE taken
    <2>1. /\ os' = [os EXCEPT ![new].sentinel = TRUE] /\ owned' = owned \cup {new}
          /\ pc' = [pc EXCEPT ![t] = "route"] /\ at' = at
        BY <1>3 DEF Linux!Reserve, Linux!Go
    <2>2. /\ new \notin owned /\ os[new].route = None /\ os[new].rule = None
        BY <1>1, <1>3 DEF LinuxInv, OwnInv
    <2>3. os' \in [Linux!Tables -> Row]
        BY <1>1, <2>1, RowUpdates DEF LinuxInv, Linux!TypeOK, Row
    <2>4. /\ \A u \in Threads : (Working(u))' <=> Working(u) \/ u = t
          /\ ~Working(t)
        BY <1>1, <2>1 DEF LinuxInv, Linux!TypeOK, Working, Filling
    <2>5. Linux!TypeOK'
        BY <1>1, <2>1, <2>3 DEF LinuxInv, Linux!TypeOK, Row
    <2>6. TurnInv' /\ KeyInv'
        BY <1>1, <2>1 DEF LinuxInv, Linux!TypeOK, TurnInv, KeyInv, Linux!Live, Filling, Inner, Acquiring
    <2>7. OwnInv'
        <3>1. \A u \in Threads : pc'[u] # "reserve"
            BY <1>1, <2>1 DEF LinuxInv, Linux!TypeOK, TurnInv, Inner
        <3> QED BY <1>1, <2>1, <2>4, <3>1 DEF LinuxInv, OwnInv, Linux!Live
    <2>8. TableInv'
        BY <1>1, <2>1, <2>2, <2>4 DEF LinuxInv, OwnInv, TableInv, Linux!Live
    <2>9. ClaimInv'
        BY <1>1, <2>1, <2>4 DEF LinuxInv, ClaimInv, Linux!Live
    <2>10. SystemInv'
        <3>1. \A u \in Threads \ {t} : pc[u] \notin {"route", "rule", "unroute", "unreserve"}
            BY <1>1 DEF LinuxInv, TurnInv, Inner
        <3>2. /\ os'[new].sentinel /\ os'[new].route = None /\ os'[new].rule = None
              /\ \A n \in Linux!Tables : os'[n].route = os[n].route /\ os'[n].rule = os[n].rule
                                         /\ (os[n].sentinel => os'[n].sentinel)
            BY <1>1, <2>1, <2>2 DEF LinuxInv, Linux!TypeOK
        <3>3. Linux!HeldIsInstalled'
            BY <1>1, <3>2 DEF LinuxInv, SystemInv, Linux!HeldIsInstalled, Linux!SentinelGuards, Linux!Live, Linux!Lease
        <3>4. Linux!SentinelGuards'
            BY <1>1, <3>2 DEF LinuxInv, SystemInv, Linux!SentinelGuards
        <3> QED BY <1>1, <2>1, <3>1, <3>2, <3>3, <3>4 DEF LinuxInv, Linux!TypeOK, SystemInv
    <2> QED BY <2>5, <2>6, <2>7, <2>8, <2>9, <2>10 DEF LinuxInv
<1> QED BY <1>2, <1>3

LEMMA AddRouteKeeps == ASSUME LinuxInv, NEW t \in Threads, Linux!AddRoute(t) PROVE LinuxInv'
<1>1. Linux!TypeOK'
    <2>1. at[t] \in Linux!Tables
        BY DEF LinuxInv, TurnInv, Linux!AddRoute, Filling
    <2>2. os' \in [Linux!Tables -> Row]
        BY <2>1, RowUpdates DEF LinuxInv, Linux!TypeOK, TurnInv, Acquiring, Linux!AddRoute, Row
    <2> QED
        BY <2>2, NoneIsNothing, BoundsAreNumbers
        DEF LinuxInv, Linux!TypeOK, TurnInv, Linux!AddRoute, Linux!Go, Linux!Tables, Linux!Lease, Row, Filling, Acquiring
<1>2. TurnInv'
    BY NoneIsNothing, BoundsAreNumbers
        DEF LinuxInv, Linux!TypeOK, TurnInv, Linux!AddRoute, Linux!Go, Linux!Lease, Linux!Tables,
            Inner, Acquiring, Filling
<1>3. KeyInv'
    BY NoneIsNothing, BoundsAreNumbers
        DEF LinuxInv, Linux!TypeOK, TurnInv, KeyInv, Linux!AddRoute, Linux!Go, Linux!Lease,
            Linux!Tables, Inner, Acquiring, Filling, Linux!Live
<1>4. OwnInv'
    BY NoneIsNothing, BoundsAreNumbers
        DEF LinuxInv, Linux!TypeOK, TurnInv, OwnInv, TableInv, Linux!AddRoute, Linux!Go,
            Linux!Lease, Linux!Tables, Inner, Acquiring, Filling, Linux!Live, Working
<1>5. TableInv'
    BY NoneIsNothing, BoundsAreNumbers
        DEF LinuxInv, Linux!TypeOK, TurnInv, OwnInv, TableInv, KeyInv, Linux!AddRoute, Linux!Go,
            Linux!Lease, Linux!Tables, Inner, Acquiring, Filling, Linux!Live, Working
<1>6. SystemInv'
    BY NoneIsNothing, BoundsAreNumbers
        DEF LinuxInv, Linux!TypeOK, TurnInv, OwnInv, TableInv, SystemInv, KeyInv, Linux!AddRoute,
            Linux!Go, Linux!Lease, Linux!Tables, Inner, Acquiring, Filling, Linux!Live, Working,
            Linux!HeldIsInstalled, Linux!SentinelGuards
<1>7. ClaimInv'
    BY NoneIsNothing, BoundsAreNumbers
        DEF LinuxInv, Linux!TypeOK, TurnInv, OwnInv, TableInv, ClaimInv, Linux!AddRoute,
            Linux!Go, Linux!Lease, Linux!Tables, Inner, Acquiring, Filling, Linux!Live, Working
<1> QED BY <1>1, <1>2, <1>3, <1>4, <1>5, <1>6, <1>7 DEF LinuxInv

LEMMA AddRuleKeeps == ASSUME LinuxInv, NEW t \in Threads, Linux!AddRule(t) PROVE LinuxInv'
<1>1. Linux!TypeOK'
    <2>1. at[t] \in Linux!Tables
        BY DEF LinuxInv, TurnInv, Linux!AddRule, Filling
    <2>2. os' \in [Linux!Tables -> Row]
        BY <2>1, RowUpdates DEF LinuxInv, Linux!TypeOK, TurnInv, Acquiring, Linux!AddRule, Row
    <2> QED
        BY <2>2, NoneIsNothing, BoundsAreNumbers
        DEF LinuxInv, Linux!TypeOK, TurnInv, Linux!AddRule, Linux!Go, Linux!Tables, Linux!Lease, Row, Filling, Acquiring
<1>2. TurnInv'
    BY NoneIsNothing, BoundsAreNumbers
        DEF LinuxInv, Linux!TypeOK, TurnInv, Linux!AddRule, Linux!Go, Linux!Lease, Linux!Tables,
            Inner, Acquiring, Filling
<1>3. KeyInv'
    BY NoneIsNothing, BoundsAreNumbers
        DEF LinuxInv, Linux!TypeOK, TurnInv, KeyInv, Linux!AddRule, Linux!Go, Linux!Lease,
            Linux!Tables, Inner, Acquiring, Filling, Linux!Live
<1>4. OwnInv'
    BY NoneIsNothing, BoundsAreNumbers
        DEF LinuxInv, Linux!TypeOK, TurnInv, OwnInv, TableInv, Linux!AddRule, Linux!Go,
            Linux!Lease, Linux!Tables, Inner, Acquiring, Filling, Linux!Live, Working
<1>5. TableInv'
    <2> DEFINE new == [key |-> want[t], table |-> at[t]]
    <2>1. /\ new \in Linux!Lease /\ Working(t) /\ at[t] = new.table
          /\ \A l \in Linux!Lease : (Linux!Live(l))' <=> Linux!Live(l) \/ l = new
        BY NoneIsNothing
        DEF LinuxInv, Linux!TypeOK, TurnInv, Linux!AddRule, Linux!Live, Linux!Lease, Acquiring, Filling, Working
    <2>2. \A u \in Threads : (Working(u))' <=> Working(u) /\ u # t
        BY DEF LinuxInv, Linux!TypeOK, Linux!AddRule, Linux!Go, Working, Filling
    <2>3. \A u \in Threads \ {t} : ~Working(u)
        BY DEF LinuxInv, TurnInv, Linux!AddRule, Inner, Filling, Working
    <2> HIDE DEF new
    <2>4. at' = at /\ dying' = dying
        BY DEF Linux!AddRule
    <2>5. \A l, m \in Linux!Lease : (Linux!Live(l))' /\ (Linux!Live(m))' /\ l.table = m.table => l = m
        BY <2>1 DEF LinuxInv, TableInv
    <2>6. \A l \in Linux!Lease, u \in Threads : (Linux!Live(l))' /\ dying[u] # None => dying[u].table # l.table
        BY <2>1 DEF LinuxInv, TableInv, Working
    <2>7. \A u \in Threads : ~(Working(u))'
        BY <2>2, <2>3
    <2>8. \A u, w \in Threads : dying[u] # None /\ dying[w] # None /\ u # w => dying[u].table # dying[w].table
        BY DEF LinuxInv, TableInv
    <2> QED BY <2>4, <2>5, <2>6, <2>7, <2>8 DEF TableInv
<1>6. SystemInv'
    BY NoneIsNothing, BoundsAreNumbers
        DEF LinuxInv, Linux!TypeOK, TurnInv, OwnInv, TableInv, SystemInv, KeyInv, Linux!AddRule,
            Linux!Go, Linux!Lease, Linux!Tables, Inner, Acquiring, Filling, Linux!Live, Working,
            Linux!HeldIsInstalled, Linux!SentinelGuards
<1>7. ClaimInv'
    <2> DEFINE new == [key |-> want[t], table |-> at[t]]
    <2>1. /\ new \in Linux!Lease /\ Working(t) /\ at[t] = new.table
          /\ \A l \in Linux!Lease : (Linux!Live(l))' <=> Linux!Live(l) \/ l = new
        BY NoneIsNothing
        DEF LinuxInv, Linux!TypeOK, TurnInv, Linux!AddRule, Linux!Live, Linux!Lease, Acquiring, Filling, Working
    <2>2. \A u \in Threads : (Working(u))' <=> Working(u) /\ u # t
        BY DEF LinuxInv, Linux!TypeOK, Linux!AddRule, Linux!Go, Working, Filling
    <2>3. \A u \in Threads \ {t} : ~Working(u)
        BY DEF LinuxInv, TurnInv, Linux!AddRule, Inner, Filling, Working
    <2> HIDE DEF new
    <2> QED BY <2>1, <2>2, <2>3 DEF LinuxInv, ClaimInv, Linux!AddRule
<1> QED BY <1>1, <1>2, <1>3, <1>4, <1>5, <1>6, <1>7 DEF LinuxInv

\* A command of acquire that fails: whatever it left is in the table the thread fills, or
\* is a sentinel.
LEMMA FailedIs ==
    ASSUME LinuxInv, NEW t \in Threads, Linux!AcquireFails(t)
    PROVE  /\ os' \in [Linux!Tables -> Row]
           /\ \A n \in Linux!Tables : os[n].sentinel => os'[n].sentinel
           /\ \A n \in Linux!Tables : \/ os'[n].route = os[n].route /\ os'[n].rule = os[n].rule
                                      \/ Working(t) /\ n = at[t] /\ at[t] \in stuck'
           /\ stuck' \in SUBSET Linux!Tables /\ stuck \subseteq stuck'
           /\ steps' \in 0..MaxSteps
           /\ \A u \in Threads \ {t} : pc[u] \notin Inner /\ pc'[u] = pc[u]
           /\ held' = held /\ swept' = swept /\ at' = at /\ want' = want
           /\ pc'[t] \in {"idle", "unroute", "unreserve"}
           /\ pc'[t] \in {"unroute", "unreserve"} => os[at[t]].rule = None
           /\ pc'[t] = "unreserve" => os[at[t]].route = None
           /\ pc'[t] \in {"unroute", "unreserve"} => at[t] \in Linux!Tables
<1>1. os \in [Linux!Tables -> Row] /\ \A n \in Linux!Tables : os[n] \in Row
    BY DEF LinuxInv, Linux!TypeOK, Row
<1>2. /\ pc[t] \in {"list", "reserve", "route", "rule"} /\ want[t] \in Keys
      /\ pc[t] \in {"route", "rule"} => at[t] \in Linux!Tables /\ Working(t)
    BY DEF LinuxInv, TurnInv, Linux!AcquireFails, Acquiring, Filling, Working
<1>3. /\ os' = os \/ os' = Linux!Effect(t)
      /\ stuck' = stuck \/ (pc[t] \in {"route", "rule"} /\ stuck' = stuck \cup {at[t]})
      /\ os' = os \/ pc[t] \notin {"route", "rule"} \/ at[t] \in stuck'
    BY DEF Linux!AcquireFails
<1>4. \/ os' = os
      \/ pc[t] = "reserve" /\ at[t] \in Linux!Tables /\ os' = [os EXCEPT ![at[t]].sentinel = TRUE]
      \/ pc[t] = "route" /\ os' = [os EXCEPT ![at[t]].route = want[t]] /\ at[t] \in stuck'
      \/ pc[t] = "rule" /\ os' = [os EXCEPT ![at[t]].rule = want[t]] /\ at[t] \in stuck'
    BY <1>3 DEF Linux!Effect
<1>5. os' \in [Linux!Tables -> Row]
    <2>1. CASE os' = os
        BY <1>1, <2>1
    <2>2. CASE at[t] \in Linux!Tables /\ os' = [os EXCEPT ![at[t]].sentinel = TRUE]
        BY <1>1, <2>2, RowUpdates
    <2>3. CASE at[t] \in Linux!Tables /\ os' = [os EXCEPT ![at[t]].route = want[t]]
        BY <1>1, <1>2, <2>3, RowUpdates
    <2>4. CASE at[t] \in Linux!Tables /\ os' = [os EXCEPT ![at[t]].rule = want[t]]
        BY <1>1, <1>2, <2>4, RowUpdates
    <2> QED BY <1>2, <1>4, <2>1, <2>2, <2>3, <2>4
<1>6. \A n \in Linux!Tables : os[n].sentinel => os'[n].sentinel
    BY <1>1, <1>2, <1>4 DEF Row
<1>7. \A n \in Linux!Tables : \/ os'[n].route = os[n].route /\ os'[n].rule = os[n].rule
                              \/ Working(t) /\ n = at[t] /\ at[t] \in stuck'
    BY <1>1, <1>2, <1>4 DEF Row
<1>8. stuck' \in SUBSET Linux!Tables /\ stuck \subseteq stuck'
    BY <1>2, <1>3 DEF LinuxInv, Linux!TypeOK
<1>9. steps' \in 0..MaxSteps
    <2>1. steps \in 0..MaxSteps /\ (steps' = steps \/ (steps < MaxSteps /\ steps' = steps + 1))
        BY DEF LinuxInv, Linux!TypeOK, Linux!AcquireFails, Linux!Count
    <2> QED BY <2>1, BoundsAreNumbers
<1>10. \A u \in Threads \ {t} : pc[u] \notin Inner /\ pc'[u] = pc[u]
    BY <1>2 DEF LinuxInv, Linux!TypeOK, TurnInv, Linux!AcquireFails, Linux!Count, Linux!Go, Inner
<1>11. held' = held /\ swept' = swept /\ at' = at /\ want' = want
    BY DEF Linux!AcquireFails
<1>12. /\ pc[t] = "rule" => pc'[t] = "unroute"
       /\ pc[t] = "route" => pc'[t] = "unreserve"
       /\ pc[t] \in {"list", "reserve"} => pc'[t] = "idle"
    BY DEF LinuxInv, Linux!TypeOK, Linux!AcquireFails, Linux!Count, Linux!Go
<1>13. /\ pc[t] \in {"route", "rule"} => os[at[t]].rule = None
       /\ pc[t] = "route" => os[at[t]].route = None
    BY DEF LinuxInv, SystemInv
<1> QED BY <1>2, <1>5, <1>6, <1>7, <1>8, <1>9, <1>10, <1>11, <1>12, <1>13

LEMMA AcquireFailsKeeps == ASSUME LinuxInv, NEW t \in Threads, Linux!AcquireFails(t) PROVE LinuxInv'
<1>1. Linux!TypeOK'
    <2>1. /\ os' \in [Linux!Tables -> Row] /\ stuck' \in SUBSET Linux!Tables
          /\ steps' \in 0..MaxSteps
        BY FailedIs
    <2>2. mutex' \in {mutex, None} /\ \E l \in {"idle", "unroute", "unreserve"} : Linux!Go(t, l)
        BY DEF Linux!AcquireFails
    <2> QED
        BY <2>1, <2>2 DEF LinuxInv, Linux!TypeOK, Linux!AcquireFails, Linux!Count, Linux!Go, Row
<1>2. TurnInv'
    BY NoneIsNothing, BoundsAreNumbers
        DEF LinuxInv, Linux!TypeOK, TurnInv, Linux!AcquireFails, Linux!Count, Linux!Go, Linux!Lease,
            Linux!Tables, Inner, Acquiring, Filling
<1>3. KeyInv'
    BY NoneIsNothing, BoundsAreNumbers
        DEF LinuxInv, Linux!TypeOK, TurnInv, KeyInv, Linux!AcquireFails, Linux!Count, Linux!Go, Linux!Lease,
            Linux!Tables, Inner, Acquiring, Filling, Linux!Live
<1>4. OwnInv'
    <2>1. \A u \in Threads : (Working(u))' <=> Working(u)
        BY DEF LinuxInv, Linux!TypeOK, TurnInv, Linux!AcquireFails, Linux!Count, Linux!Go, Working, Filling, Acquiring
    <2>2. pc'[t] # "reserve" /\ \A u \in Threads \ {t} : pc'[u] = pc[u]
        BY DEF LinuxInv, Linux!TypeOK, Linux!AcquireFails, Linux!Count, Linux!Go
    <2>3. \A u \in Threads : pc'[u] # "reserve"
        BY <2>2, FailedIs DEF Inner
    <2>4. owned' = owned /\ dying' = dying /\ held' = held /\ at' = at
        BY DEF Linux!AcquireFails
    <2> QED BY <2>1, <2>3, <2>4 DEF LinuxInv, OwnInv, Linux!Live
<1>5. TableInv'
    <2>1. \A u \in Threads : (Working(u))' <=> Working(u)
        BY DEF LinuxInv, Linux!TypeOK, TurnInv, Linux!AcquireFails, Linux!Count, Linux!Go, Working, Filling, Acquiring
    <2>2. pc'[t] # "reserve" /\ \A u \in Threads \ {t} : pc'[u] = pc[u]
        BY DEF LinuxInv, Linux!TypeOK, Linux!AcquireFails, Linux!Count, Linux!Go
    <2> QED BY <2>1, <2>2 DEF LinuxInv, TableInv, Linux!AcquireFails, Linux!Live
<1>6. SystemInv'
    <2>1. Linux!SentinelGuards'
        BY FailedIs DEF LinuxInv, SystemInv, Linux!SentinelGuards
    <2>2. \A l \in Linux!Lease : Linux!Live(l) => l.table \in Linux!Tables /\ (Working(t) => l.table # at[t])
        BY DEF LinuxInv, TableInv, Linux!Lease
    <2>3. Linux!HeldIsInstalled'
        BY <2>2, FailedIs DEF LinuxInv, SystemInv, Linux!HeldIsInstalled, Linux!Live
    <2>4. ASSUME NEW u \in Threads
          PROVE  /\ pc'[u] \in {"route", "rule"} => os'[at'[u]].sentinel /\ os'[at'[u]].rule = None
                 /\ pc'[u] = "route" => os'[at'[u]].route = None
                 /\ pc'[u] = "rule" => os'[at'[u]].route = want'[u]
                 /\ pc'[u] \in {"unroute", "unreserve"} => os'[at'[u]].rule = None \/ at'[u] \in stuck'
                 /\ pc'[u] = "unreserve" => os'[at'[u]].route = None \/ at'[u] \in stuck'
        <3>1. CASE u = t
            BY <3>1, FailedIs
        <3>2. CASE u # t
            BY <3>2, FailedIs DEF Inner
        <3> QED BY <3>1, <3>2
    <2> QED BY <2>1, <2>3, <2>4 DEF SystemInv
<1>7. ClaimInv'
    <2>1. \A u \in Threads : (Working(u))' <=> Working(u)
        BY DEF LinuxInv, Linux!TypeOK, TurnInv, Linux!AcquireFails, Linux!Count, Linux!Go, Working, Filling, Acquiring
    <2>2. pc'[t] # "reserve" /\ \A u \in Threads \ {t} : pc'[u] = pc[u]
        BY DEF LinuxInv, Linux!TypeOK, Linux!AcquireFails, Linux!Count, Linux!Go
    <2> QED BY <2>1, <2>2 DEF LinuxInv, ClaimInv, Linux!AcquireFails, Linux!Live
<1> QED BY <1>1, <1>2, <1>3, <1>4, <1>5, <1>6, <1>7 DEF LinuxInv

LEMMA DropKeeps == ASSUME LinuxInv, NEW t \in Threads, NEW l \in held[t], Linux!Drop(t, l) PROVE LinuxInv'
<1>1. Linux!TypeOK'
    <2>1. l \in Linux!Lease
        BY DEF LinuxInv, Linux!TypeOK
    <2>2. held' \in [Threads -> SUBSET Linux!Lease]
        BY DEF LinuxInv, Linux!TypeOK, Linux!Drop
    <2>3. dying' \in [Threads -> Linux!Lease \cup {None}]
        BY <2>1 DEF LinuxInv, Linux!TypeOK, Linux!Drop
    <2>4. pc' = pc \/ pc' = [pc EXCEPT ![t] = "release"]
        BY DEF Linux!Drop, Linux!Go
    <2> QED BY <2>2, <2>3, <2>4 DEF LinuxInv, Linux!TypeOK, Linux!Drop
<1>2. TurnInv'
    BY NoneIsNothing, BoundsAreNumbers
        DEF LinuxInv, Linux!TypeOK, TurnInv, Linux!Drop, Linux!Go, Linux!Lease, Linux!Tables,
            Inner, Acquiring, Filling
<1>3. KeyInv'
    BY NoneIsNothing, BoundsAreNumbers
        DEF LinuxInv, Linux!TypeOK, TurnInv, KeyInv, Linux!Drop, Linux!Go, Linux!Lease,
            Linux!Tables, Inner, Acquiring, Filling, Linux!Live
<1>4. OwnInv'
    <2>1. l \in Linux!Lease /\ Linux!Live(l) /\ dying[t] = None /\ pc[t] = "idle"
        BY DEF LinuxInv, Linux!TypeOK, TurnInv, Linux!Drop, Linux!Live
    <2>2. \A u \in Threads : /\ (Working(u))' <=> Working(u)
                            /\ (pc'[u] = pc[u] \/ (u = t /\ pc'[u] = "release"))
        BY <2>1 DEF LinuxInv, Linux!TypeOK, Linux!Drop, Linux!Go, Working, Filling
    <2>3. CASE \E u \in Threads \ {t} : l \in held[u]
        <3>1. \A m \in Linux!Lease : (Linux!Live(m))' <=> Linux!Live(m)
            BY <2>3 DEF LinuxInv, Linux!TypeOK, Linux!Drop, Linux!Live
        <3> QED BY <2>2, <2>3, <3>1 DEF LinuxInv, OwnInv, Linux!Drop
    <2>4. CASE ~\E u \in Threads \ {t} : l \in held[u]
        <3>1. \A m \in Linux!Lease : (Linux!Live(m))' <=> Linux!Live(m) /\ m # l
            BY <2>4 DEF LinuxInv, Linux!TypeOK, Linux!Drop, Linux!Live
        <3>2. dying'[t] = l /\ \A u \in Threads \ {t} : dying'[u] = dying[u]
            BY <2>4 DEF LinuxInv, Linux!TypeOK, Linux!Drop
        <3> QED BY <2>1, <2>2, <2>4, <3>1, <3>2, NoneIsNothing DEF LinuxInv, OwnInv, Linux!Drop
    <2> QED BY <2>3, <2>4
<1>5. TableInv'
    <2>1. l \in Linux!Lease /\ Linux!Live(l) /\ dying[t] = None /\ pc[t] = "idle"
        BY DEF LinuxInv, Linux!TypeOK, TurnInv, Linux!Drop, Linux!Live
    <2>2. \A u \in Threads : /\ (Working(u))' <=> Working(u)
                            /\ (pc'[u] = pc[u] \/ (u = t /\ pc'[u] = "release"))
        BY <2>1 DEF LinuxInv, Linux!TypeOK, Linux!Drop, Linux!Go, Working, Filling
    <2>3. CASE \E u \in Threads \ {t} : l \in held[u]
        <3>1. \A m \in Linux!Lease : (Linux!Live(m))' <=> Linux!Live(m)
            BY <2>3 DEF LinuxInv, Linux!TypeOK, Linux!Drop, Linux!Live
        <3> QED BY <2>2, <2>3, <3>1 DEF LinuxInv, TableInv, Linux!Drop
    <2>4. CASE ~\E u \in Threads \ {t} : l \in held[u]
        <3>1. \A m \in Linux!Lease : (Linux!Live(m))' <=> Linux!Live(m) /\ m # l
            BY <2>4 DEF LinuxInv, Linux!TypeOK, Linux!Drop, Linux!Live
        <3>2. dying'[t] = l /\ \A u \in Threads \ {t} : dying'[u] = dying[u]
            BY <2>4 DEF LinuxInv, Linux!TypeOK, Linux!Drop
        <3> QED BY <2>1, <2>2, <2>4, <3>1, <3>2, NoneIsNothing DEF LinuxInv, TableInv, Linux!Drop
    <2> QED BY <2>3, <2>4
<1>6. SystemInv'
    BY NoneIsNothing, BoundsAreNumbers
        DEF LinuxInv, Linux!TypeOK, TurnInv, OwnInv, TableInv, SystemInv, KeyInv, Linux!Drop,
            Linux!Go, Linux!Lease, Linux!Tables, Inner, Acquiring, Filling, Linux!Live, Working,
            Linux!HeldIsInstalled, Linux!SentinelGuards
<1>7. ClaimInv'
    <2>1. l \in Linux!Lease /\ Linux!Live(l) /\ dying[t] = None /\ pc[t] = "idle"
        BY DEF LinuxInv, Linux!TypeOK, TurnInv, Linux!Drop, Linux!Live
    <2>2. \A u \in Threads : /\ (Working(u))' <=> Working(u)
                            /\ (pc'[u] = pc[u] \/ (u = t /\ pc'[u] = "release"))
        BY <2>1 DEF LinuxInv, Linux!TypeOK, Linux!Drop, Linux!Go, Working, Filling
    <2>3. CASE \E u \in Threads \ {t} : l \in held[u]
        <3>1. \A m \in Linux!Lease : (Linux!Live(m))' <=> Linux!Live(m)
            BY <2>3 DEF LinuxInv, Linux!TypeOK, Linux!Drop, Linux!Live
        <3> QED BY <2>2, <2>3, <3>1 DEF LinuxInv, ClaimInv, Linux!Drop
    <2>4. CASE ~\E u \in Threads \ {t} : l \in held[u]
        <3>1. \A m \in Linux!Lease : (Linux!Live(m))' <=> Linux!Live(m) /\ m # l
            BY <2>4 DEF LinuxInv, Linux!TypeOK, Linux!Drop, Linux!Live
        <3>2. dying'[t] = l /\ \A u \in Threads \ {t} : dying'[u] = dying[u]
            BY <2>4 DEF LinuxInv, Linux!TypeOK, Linux!Drop
        <3> QED BY <2>1, <2>2, <2>4, <3>1, <3>2, NoneIsNothing DEF LinuxInv, ClaimInv, Linux!Drop
    <2> QED BY <2>3, <2>4
<1> QED BY <1>1, <1>2, <1>3, <1>4, <1>5, <1>6, <1>7 DEF LinuxInv

LEMMA BeginReleaseKeeps == ASSUME LinuxInv, NEW t \in Threads, Linux!BeginRelease(t) PROVE LinuxInv'
<1>1. Linux!TypeOK'
    BY NoneIsNothing, BoundsAreNumbers
        DEF LinuxInv, Linux!TypeOK, TurnInv, Linux!BeginRelease, Linux!Go, Linux!Lease,
            Linux!Tables, Inner, Acquiring, Filling
<1>2. TurnInv'
    BY NoneIsNothing, BoundsAreNumbers
        DEF LinuxInv, Linux!TypeOK, TurnInv, Linux!BeginRelease, Linux!Go, Linux!Lease,
            Linux!Tables, Inner, Acquiring, Filling
<1>3. KeyInv'
    BY NoneIsNothing, BoundsAreNumbers
        DEF LinuxInv, Linux!TypeOK, TurnInv, KeyInv, Linux!BeginRelease, Linux!Go, Linux!Lease,
            Linux!Tables, Inner, Acquiring, Filling, Linux!Live
<1>4. OwnInv'
    BY NoneIsNothing, BoundsAreNumbers
        DEF LinuxInv, Linux!TypeOK, TurnInv, OwnInv, TableInv, Linux!BeginRelease, Linux!Go,
            Linux!Lease, Linux!Tables, Inner, Acquiring, Filling, Linux!Live, Working
<1>5. TableInv'
    <2>1. \A u \in Threads : (Working(u))' <=> Working(u)
        BY DEF LinuxInv, Linux!TypeOK, TurnInv, Linux!BeginRelease, Linux!Go, Working, Filling
    <2>2. ~Working(t)
        BY DEF Linux!BeginRelease, Working, Filling
    <2>3. \A u \in Threads \ {t} : at'[u] = at[u]
        BY DEF LinuxInv, Linux!TypeOK, Linux!BeginRelease
    <2> QED BY <2>1, <2>2, <2>3 DEF LinuxInv, TableInv, Linux!BeginRelease, Linux!Live
<1>6. SystemInv'
    BY NoneIsNothing, BoundsAreNumbers
        DEF LinuxInv, Linux!TypeOK, TurnInv, OwnInv, TableInv, SystemInv, KeyInv,
            Linux!BeginRelease, Linux!Go, Linux!Lease, Linux!Tables, Inner, Acquiring, Filling,
            Linux!Live, Working, Linux!HeldIsInstalled, Linux!SentinelGuards
<1>7. ClaimInv'
    BY NoneIsNothing, BoundsAreNumbers
        DEF LinuxInv, Linux!TypeOK, TurnInv, OwnInv, TableInv, ClaimInv, Linux!BeginRelease,
            Linux!Go, Linux!Lease, Linux!Tables, Inner, Acquiring, Filling, Linux!Live, Working
<1> QED BY <1>1, <1>2, <1>3, <1>4, <1>5, <1>6, <1>7 DEF LinuxInv

\* A deletion, failed or not, touches nothing but the table it empties, which is no live
\* lease's.
Removes(t) == Linux!DelRule(t) \/ Linux!DelRoute(t) \/ Linux!DelSentinel(t)
LEMMA RemovedIs ==
    ASSUME LinuxInv, NEW t \in Threads, Removes(t)
    PROVE  /\ at[t] \in Linux!Tables /\ at[t] \in owned
           /\ os' \in [Linux!Tables -> Row]
           /\ \A n \in Linux!Tables : n # at[t] => os'[n] = os[n]
           /\ os'[at[t]].route \in {None, os[at[t]].route} /\ os'[at[t]].rule \in {None, os[at[t]].rule}
           /\ stuck' \in SUBSET Linux!Tables /\ stuck \subseteq stuck'
           /\ steps' \in 0..MaxSteps
           /\ \A u \in Threads \ {t} : pc[u] \notin Inner /\ pc'[u] = pc[u]
           /\ \A l \in Linux!Lease : Linux!Live(l) => l.table \in Linux!Tables /\ l.table # at[t]
           /\ held' = held /\ swept' = swept /\ at' = at /\ want' = want
<1>1. at[t] \in Linux!Tables /\ pc[t] \in {"unrule", "unroute", "unreserve"}
    BY DEF LinuxInv, TurnInv, Removes, Linux!DelRule, Linux!DelRoute, Linux!DelSentinel, Filling
<1>2. os \in [Linux!Tables -> Row] /\ os[at[t]] \in Row
    BY <1>1 DEF LinuxInv, Linux!TypeOK, Row
<1>3. \/ os' = os
      \/ os' = [os EXCEPT ![at[t]].rule = None]
      \/ os' = [os EXCEPT ![at[t]].route = None]
      \/ os' = [os EXCEPT ![at[t]].sentinel = FALSE]
    BY DEF Removes, Linux!DelRule, Linux!DelRoute, Linux!DelSentinel, Linux!Free
<1>4. os' \in [Linux!Tables -> Row]
    <2>1. CASE os' = os
        BY <1>2, <2>1
    <2>2. CASE os' = [os EXCEPT ![at[t]].rule = None]
        BY <1>1, <1>2, <2>2, RowUpdates
    <2>3. CASE os' = [os EXCEPT ![at[t]].route = None]
        BY <1>1, <1>2, <2>3, RowUpdates
    <2>4. CASE os' = [os EXCEPT ![at[t]].sentinel = FALSE]
        BY <1>1, <1>2, <2>4, RowUpdates
    <2> QED BY <1>3, <2>1, <2>2, <2>3, <2>4
<1>5. /\ \A n \in Linux!Tables : n # at[t] => os'[n] = os[n]
      /\ os'[at[t]].route \in {None, os[at[t]].route} /\ os'[at[t]].rule \in {None, os[at[t]].rule}
    BY <1>1, <1>2, <1>3 DEF Row
<1>6. stuck' = stuck \/ stuck' = stuck \cup {at[t]}
    BY DEF Removes, Linux!DelRule, Linux!DelRoute, Linux!DelSentinel
<1>7. stuck' \in SUBSET Linux!Tables /\ stuck \subseteq stuck'
    BY <1>1, <1>6 DEF LinuxInv, Linux!TypeOK
<1>8. steps' \in 0..MaxSteps
    <2>1. steps \in 0..MaxSteps /\ (steps' = steps \/ (steps < MaxSteps /\ steps' = steps + 1))
        BY DEF LinuxInv, Linux!TypeOK, Removes, Linux!DelRule, Linux!DelRoute, Linux!DelSentinel, Linux!Count
    <2> QED BY <2>1, BoundsAreNumbers
<1>9. held' = held /\ swept' = swept /\ at' = at /\ want' = want
    BY DEF Removes, Linux!DelRule, Linux!DelRoute, Linux!DelSentinel
<1>10. \A u \in Threads \ {t} : pc[u] \notin Inner /\ pc'[u] = pc[u]
    BY <1>1 DEF LinuxInv, Linux!TypeOK, TurnInv, Removes, Linux!DelRule, Linux!DelRoute,
        Linux!DelSentinel, Linux!Count, Linux!Go, Inner
<1>11. Working(t) \/ (dying[t] # None /\ at[t] = dying[t].table)
    BY <1>1 DEF LinuxInv, TurnInv, Working, Filling
<1>12. at[t] \in owned
    BY <1>11 DEF LinuxInv, OwnInv
<1>13. \A l \in Linux!Lease : Linux!Live(l) => l.table \in Linux!Tables /\ l.table # at[t]
    BY <1>11 DEF LinuxInv, TableInv, Linux!Lease
<1> QED BY <1>1, <1>4, <1>5, <1>7, <1>8, <1>9, <1>10, <1>12, <1>13

\* What the step leaves to prove of the invariant: the table it worked on.
LEMMA RemovedSystem ==
    ASSUME LinuxInv, NEW t \in Threads, Removes(t),
           (os'[at[t]].route # None \/ os'[at[t]].rule # None) => os'[at[t]].sentinel \/ at[t] \in stuck',
           pc'[t] \in {"unroute", "unreserve", "idle"},
           pc'[t] \in {"unroute", "unreserve"} => os'[at[t]].rule = None \/ at[t] \in stuck',
           pc'[t] = "unreserve" => os'[at[t]].route = None \/ at[t] \in stuck'
    PROVE  SystemInv'
<1>1. /\ \A n \in Linux!Tables : n # at[t] => os'[n] = os[n]
      /\ stuck \subseteq stuck' /\ held' = held /\ swept' = swept /\ at' = at /\ want' = want
      /\ \A u \in Threads \ {t} : pc[u] \notin Inner /\ pc'[u] = pc[u]
      /\ \A l \in Linux!Lease : Linux!Live(l) => l.table \in Linux!Tables /\ l.table # at[t]
    BY RemovedIs
<1>2. Linux!SentinelGuards'
    <2>1. ASSUME NEW n \in Linux!Tables, os'[n].route # None \/ os'[n].rule # None
          PROVE  os'[n].sentinel \/ n \in stuck'
        <3>1. CASE n = at[t]
            BY <2>1, <3>1
        <3>2. CASE n # at[t]
            BY <1>1, <2>1, <3>2 DEF LinuxInv, SystemInv, Linux!SentinelGuards
        <3> QED BY <3>1, <3>2
    <2> QED BY <2>1 DEF Linux!SentinelGuards
<1>3. Linux!HeldIsInstalled'
    BY <1>1 DEF LinuxInv, SystemInv, Linux!HeldIsInstalled, Linux!Live
<1>4. ASSUME NEW u \in Threads
      PROVE  /\ pc'[u] \in {"route", "rule"} => os'[at'[u]].sentinel /\ os'[at'[u]].rule = None
             /\ pc'[u] = "route" => os'[at'[u]].route = None
             /\ pc'[u] = "rule" => os'[at'[u]].route = want'[u]
             /\ pc'[u] \in {"unroute", "unreserve"} => os'[at'[u]].rule = None \/ at'[u] \in stuck'
             /\ pc'[u] = "unreserve" => os'[at'[u]].route = None \/ at'[u] \in stuck'
    <2>1. CASE u = t
        BY <1>1, <2>1
    <2>2. CASE u # t
        BY <1>1, <2>2 DEF Inner
    <2> QED BY <2>1, <2>2
<1> QED BY <1>2, <1>3, <1>4 DEF SystemInv

LEMMA DelRuleKeeps == ASSUME LinuxInv, NEW t \in Threads, Linux!DelRule(t) PROVE LinuxInv'
<1>1. Linux!TypeOK'
    <2>1. /\ os' \in [Linux!Tables -> Row] /\ stuck' \in SUBSET Linux!Tables
          /\ steps' \in 0..MaxSteps
        BY RemovedIs DEF Removes
    <2> QED
        BY <2>1 DEF LinuxInv, Linux!TypeOK, Linux!DelRule, Linux!Go, Row
<1>2. TurnInv'
    BY NoneIsNothing, BoundsAreNumbers
        DEF LinuxInv, Linux!TypeOK, TurnInv, Linux!DelRule, Linux!Go, Linux!Lease, Linux!Tables,
            Inner, Acquiring, Filling
<1>3. KeyInv'
    BY NoneIsNothing, BoundsAreNumbers
        DEF LinuxInv, Linux!TypeOK, TurnInv, KeyInv, Linux!DelRule, Linux!Go, Linux!Lease,
            Linux!Tables, Inner, Acquiring, Filling, Linux!Live
<1>4. OwnInv'
    BY NoneIsNothing, BoundsAreNumbers
        DEF LinuxInv, Linux!TypeOK, TurnInv, OwnInv, TableInv, Linux!DelRule, Linux!Go,
            Linux!Lease, Linux!Tables, Inner, Acquiring, Filling, Linux!Live, Working
<1>5. TableInv'
    BY SMTT(30), NoneIsNothing, BoundsAreNumbers
        DEF LinuxInv, Linux!TypeOK, TurnInv, OwnInv, TableInv, KeyInv, Linux!DelRule, Linux!Go,
            Linux!Lease, Linux!Tables, Inner, Acquiring, Filling, Linux!Live, Working
<1>6. SystemInv'
    <2>1. at[t] \in Linux!Tables /\ os[at[t]] \in Row /\ os \in [Linux!Tables -> Row]
        BY RemovedIs DEF LinuxInv, Linux!TypeOK, Row, Removes
    <2>2. os'[at[t]].rule = None \/ at[t] \in stuck'
        BY <2>1 DEF Linux!DelRule, Row
    <2>3. os'[at[t]].route = os[at[t]].route /\ os'[at[t]].sentinel = os[at[t]].sentinel
        BY <2>1 DEF Linux!DelRule, Row
    <2>4. pc'[t] = "unroute"
        BY DEF LinuxInv, Linux!TypeOK, Linux!DelRule, Linux!Go
    <2>5. (os'[at[t]].route # None \/ os'[at[t]].rule # None) => os'[at[t]].sentinel \/ at[t] \in stuck'
        BY <2>1, <2>2, <2>3, RemovedIs DEF LinuxInv, SystemInv, Linux!SentinelGuards, Removes
    <2> QED BY <2>2, <2>4, <2>5, RemovedSystem DEF Removes
<1>7. ClaimInv'
    BY NoneIsNothing, BoundsAreNumbers
        DEF LinuxInv, Linux!TypeOK, TurnInv, OwnInv, TableInv, ClaimInv, Linux!DelRule, Linux!Go,
            Linux!Lease, Linux!Tables, Inner, Acquiring, Filling, Linux!Live, Working
<1> QED BY <1>1, <1>2, <1>3, <1>4, <1>5, <1>6, <1>7 DEF LinuxInv

LEMMA DelRouteKeeps == ASSUME LinuxInv, NEW t \in Threads, Linux!DelRoute(t) PROVE LinuxInv'
<1>1. Linux!TypeOK'
    <2>1. /\ os' \in [Linux!Tables -> Row] /\ stuck' \in SUBSET Linux!Tables
          /\ steps' \in 0..MaxSteps
        BY RemovedIs DEF Removes
    <2> QED
        BY <2>1 DEF LinuxInv, Linux!TypeOK, Linux!DelRoute, Linux!Go, Row
<1>2. TurnInv'
    BY NoneIsNothing, BoundsAreNumbers
        DEF LinuxInv, Linux!TypeOK, TurnInv, Linux!DelRoute, Linux!Go, Linux!Lease, Linux!Tables,
            Inner, Acquiring, Filling
<1>3. KeyInv'
    BY NoneIsNothing, BoundsAreNumbers
        DEF LinuxInv, Linux!TypeOK, TurnInv, KeyInv, Linux!DelRoute, Linux!Go, Linux!Lease,
            Linux!Tables, Inner, Acquiring, Filling, Linux!Live
<1>4. OwnInv'
    BY NoneIsNothing, BoundsAreNumbers
        DEF LinuxInv, Linux!TypeOK, TurnInv, OwnInv, TableInv, Linux!DelRoute, Linux!Go,
            Linux!Lease, Linux!Tables, Inner, Acquiring, Filling, Linux!Live, Working
<1>5. TableInv'
    BY NoneIsNothing, BoundsAreNumbers
        DEF LinuxInv, Linux!TypeOK, TurnInv, OwnInv, TableInv, KeyInv, Linux!DelRoute, Linux!Go,
            Linux!Lease, Linux!Tables, Inner, Acquiring, Filling, Linux!Live, Working
<1>6. SystemInv'
    <2>1. at[t] \in Linux!Tables /\ os[at[t]] \in Row /\ os \in [Linux!Tables -> Row]
        BY RemovedIs DEF LinuxInv, Linux!TypeOK, Row, Removes
    <2>2. os'[at[t]].route = None \/ at[t] \in stuck'
        BY <2>1 DEF Linux!DelRoute, Row
    <2>3. os'[at[t]].rule = os[at[t]].rule /\ os'[at[t]].sentinel = os[at[t]].sentinel
        BY <2>1 DEF Linux!DelRoute, Row
    <2>4. pc'[t] = "unreserve"
        BY DEF LinuxInv, Linux!TypeOK, Linux!DelRoute, Linux!Go
    <2>5. os'[at[t]].rule = None \/ at[t] \in stuck'
        BY <2>3, RemovedIs DEF LinuxInv, SystemInv, Removes, Linux!DelRoute
    <2>6. (os'[at[t]].route # None \/ os'[at[t]].rule # None) => os'[at[t]].sentinel \/ at[t] \in stuck'
        BY <2>2, <2>5
    <2> QED BY <2>2, <2>4, <2>5, <2>6, RemovedSystem DEF Removes
<1>7. ClaimInv'
    BY NoneIsNothing, BoundsAreNumbers
        DEF LinuxInv, Linux!TypeOK, TurnInv, OwnInv, TableInv, ClaimInv, Linux!DelRoute,
            Linux!Go, Linux!Lease, Linux!Tables, Inner, Acquiring, Filling, Linux!Live, Working
<1> QED BY <1>1, <1>2, <1>3, <1>4, <1>5, <1>6, <1>7 DEF LinuxInv

LEMMA DelSentinelKeeps == ASSUME LinuxInv, NEW t \in Threads, Linux!DelSentinel(t) PROVE LinuxInv'
<1>1. Linux!TypeOK'
    <2>1. /\ os' \in [Linux!Tables -> Row] /\ stuck' \in SUBSET Linux!Tables
          /\ steps' \in 0..MaxSteps
        BY RemovedIs DEF Removes
    <2> QED
        BY <2>1 DEF LinuxInv, Linux!TypeOK, Linux!DelSentinel, Linux!Count, Linux!Go, Row
<1>2. TurnInv'
    BY NoneIsNothing, BoundsAreNumbers
        DEF LinuxInv, Linux!TypeOK, TurnInv, Linux!DelSentinel, Linux!Count, Linux!Go, Linux!Existing,
            Linux!Free, Linux!Lease, Linux!Tables, Inner, Acquiring, Filling, Linux!Live
<1>3. KeyInv'
    <2>1. \A u \in Threads : pc'[u] \notin {"list", "reserve", "route", "rule"}
        BY DEF LinuxInv, Linux!TypeOK, TurnInv, Linux!DelSentinel, Linux!Count, Linux!Go, Inner
    <2>2. ASSUME NEW l \in Linux!Lease, Linux!Live(l)
          PROVE  l.key \in DOMAIN entries' /\ entries'[l.key] = l.table
        <3>1. l.key \in DOMAIN entries /\ entries[l.key] = l.table /\ l = [key |-> l.key, table |-> l.table]
            BY <2>2 DEF LinuxInv, KeyInv, Linux!Lease
        <3>2. Linux!Existing(l.key) = l /\ l # None
            BY <2>2, <3>1, NoneIsNothing DEF Linux!Existing
        <3> QED BY <3>1, <3>2 DEF Linux!DelSentinel
    <2> QED BY <2>1, <2>2 DEF KeyInv, Linux!Live, Linux!DelSentinel
<1>4. OwnInv'
    <2>1. /\ pc[t] = "unreserve" /\ \A u \in Threads \ {t} : pc[u] \notin Inner
          /\ \A u \in Threads \ {t} : pc'[u] = pc[u] /\ dying'[u] = dying[u]
          /\ pc'[t] = "idle" /\ dying'[t] = None /\ owned' = owned \ {at[t]} /\ UNCHANGED <<held, want, at, busy>>
        BY DEF LinuxInv, Linux!TypeOK, TurnInv, Linux!DelSentinel, Linux!Count, Linux!Go, Inner
    <2>2. \A u \in Threads : ~(Working(u))' /\ (u # t => ~Working(u))
        BY <2>1 DEF LinuxInv, Working, Filling, Inner
    <2>3. Working(t) \/ (dying[t] # None /\ at[t] = dying[t].table)
        BY <2>1 DEF LinuxInv, TurnInv, Working, Filling
    <2>4. \A l \in Linux!Lease : Linux!Live(l) => l.table # at[t]
        BY <2>3 DEF LinuxInv, TableInv
    <2>5. \A u \in Threads \ {t} : dying[u] # None => dying[u].table # at[t]
        BY <2>3 DEF LinuxInv, TableInv
    <2>6. \A u \in Threads : pc'[u] # "reserve"
        BY <2>1 DEF Inner
    <2> QED BY <2>1, <2>2, <2>4, <2>5, <2>6 DEF LinuxInv, OwnInv, Linux!Live
<1>5. TableInv'
    <2>1. /\ pc[t] = "unreserve" /\ \A u \in Threads \ {t} : pc[u] \notin Inner
          /\ \A u \in Threads \ {t} : pc'[u] = pc[u] /\ dying'[u] = dying[u]
          /\ pc'[t] = "idle" /\ dying'[t] = None /\ owned' = owned \ {at[t]} /\ UNCHANGED <<held, want, at, busy>>
        BY DEF LinuxInv, Linux!TypeOK, TurnInv, Linux!DelSentinel, Linux!Count, Linux!Go, Inner
    <2>2. \A u \in Threads : ~(Working(u))' /\ (u # t => ~Working(u))
        BY <2>1 DEF LinuxInv, Working, Filling, Inner
    <2>3. Working(t) \/ (dying[t] # None /\ at[t] = dying[t].table)
        BY <2>1 DEF LinuxInv, TurnInv, Working, Filling
    <2> QED BY <2>1, <2>2 DEF LinuxInv, TableInv, Linux!Live
<1>6. SystemInv'
    <2>1. /\ os[at[t]].route = None \/ at[t] \in stuck
          /\ os[at[t]].rule = None \/ at[t] \in stuck
        BY DEF LinuxInv, SystemInv, Linux!DelSentinel
    <2>2. /\ os'[at[t]].route = None \/ at[t] \in stuck'
          /\ os'[at[t]].rule = None \/ at[t] \in stuck'
        BY <2>1, RemovedIs DEF Removes
    <2>3. pc'[t] = "idle"
        BY DEF LinuxInv, Linux!TypeOK, Linux!DelSentinel, Linux!Count, Linux!Go
    <2> QED BY <2>2, <2>3, RemovedSystem DEF Removes
<1>7. ClaimInv'
    <2>1. /\ pc[t] = "unreserve" /\ owned' = owned \ {at[t]} /\ dying'[t] = None
          /\ at' = at /\ held' = held /\ pc'[t] = "idle"
          /\ \A u \in Threads \ {t} : pc'[u] = pc[u] /\ dying'[u] = dying[u]
        BY DEF LinuxInv, Linux!TypeOK, Linux!DelSentinel, Linux!Go
    <2>2. dying[t] # None => at[t] = dying[t].table
        BY <2>1 DEF LinuxInv, TurnInv
    <2>3. \A u \in Threads \ {t} : (Working(u))' <=> Working(u)
        BY <2>1 DEF Working
    <2> SUFFICES ASSUME NEW n \in owned \ {at[t]}
                 PROVE  \/ \E l \in Linux!Lease : Linux!Live(l) /\ l.table = n
                        \/ \E u \in Threads \ {t} : dying[u] # None /\ dying[u].table = n
                        \/ \E u \in Threads \ {t} : Working(u) /\ at[u] = n
        BY <2>1, <2>3 DEF ClaimInv, Linux!Live
    <2> QED BY <2>2 DEF LinuxInv, ClaimInv
<1> QED BY <1>1, <1>2, <1>3, <1>4, <1>5, <1>6, <1>7 DEF LinuxInv

LEMMA SweepKeeps == ASSUME LinuxInv, Linux!Sweep PROVE LinuxInv'
<1>1. Linux!TypeOK'
    <2>1. \A n \in Linux!Tables : os[n] \in Row
        BY DEF LinuxInv, Linux!TypeOK, Row
    <2>2. \A n \in Linux!Tables : [Linux!Empty EXCEPT !.foreign = os[n].foreign] \in Row
        BY <2>1 DEF Linux!Empty, Row
    <2>3. os' \in [Linux!Tables -> Row]
        <3>1. \A n \in Linux!Tables : [os[n] EXCEPT !.rule = None] \in Row
            BY <2>1 DEF Row
        <3>2. \A n \in Linux!Tables : os'[n] \in {os[n], [os[n] EXCEPT !.rule = None],
                                                 [Linux!Empty EXCEPT !.foreign = os[n].foreign]}
            BY DEF Linux!Sweep
        <3>3. \A n \in Linux!Tables : os'[n] \in Row
            BY <2>1, <2>2, <3>1, <3>2
        <3>4. os' = [n \in Linux!Tables |-> os'[n]]
            BY DEF Linux!Sweep
        <3> QED BY <3>3, <3>4
    <2> QED BY <2>3, BoundsAreNumbers DEF LinuxInv, Linux!TypeOK, Linux!Sweep, Row
<1>2. TurnInv'
    BY NoneIsNothing, BoundsAreNumbers
        DEF LinuxInv, Linux!TypeOK, TurnInv, Linux!Sweep, Linux!Live, Linux!Lease, Linux!Tables,
            Linux!Empty, Inner, Acquiring, Filling
<1>3. KeyInv'
    BY NoneIsNothing, BoundsAreNumbers
        DEF LinuxInv, Linux!TypeOK, TurnInv, KeyInv, Linux!Sweep, Linux!Live, Linux!Lease,
            Linux!Tables, Linux!Empty, Inner, Acquiring, Filling
<1>4. OwnInv'
    BY NoneIsNothing, BoundsAreNumbers
        DEF LinuxInv, Linux!TypeOK, TurnInv, OwnInv, TableInv, Linux!Sweep, Linux!Live,
            Linux!Lease, Linux!Tables, Linux!Empty, Inner, Acquiring, Filling, Working
<1>5. TableInv'
    BY NoneIsNothing, BoundsAreNumbers
        DEF LinuxInv, Linux!TypeOK, TurnInv, OwnInv, TableInv, KeyInv, Linux!Sweep, Linux!Live,
            Linux!Lease, Linux!Tables, Linux!Empty, Inner, Acquiring, Filling, Working
<1>6. SystemInv'
    <2>1. \A n \in Linux!Tables : os[n] \in Row
        BY DEF LinuxInv, Linux!TypeOK, Row
    <2>2. \A n \in Linux!Tables :
              \/ os'[n] = os[n]
              \/ os[n].sentinel /\ os'[n].sentinel
              \/ os'[n].route = None /\ os'[n].rule = None
        <3>1. \A n \in Linux!Tables :
                  \/ os'[n] = os[n]
                  \/ os[n].sentinel /\ os'[n] = [os[n] EXCEPT !.rule = None]
                  \/ os'[n] = [Linux!Empty EXCEPT !.foreign = os[n].foreign]
            BY DEF Linux!Sweep
        <3> QED BY <2>1, <3>1 DEF Row, Linux!Empty
    <2>3. Linux!SentinelGuards'
        BY <2>2 DEF LinuxInv, SystemInv, Linux!SentinelGuards, Linux!Sweep
    <2>4. \A t \in Threads : pc'[t] = "idle"
        BY DEF Linux!Sweep
    <2>5. Linux!HeldIsInstalled'
        BY DEF Linux!HeldIsInstalled, Linux!Sweep, Linux!Live
    <2> QED BY <2>3, <2>4, <2>5 DEF SystemInv
<1>7. ClaimInv'
    BY NoneIsNothing, BoundsAreNumbers
        DEF LinuxInv, Linux!TypeOK, TurnInv, OwnInv, TableInv, ClaimInv, Linux!Sweep, Linux!Live,
            Linux!Lease, Linux!Tables, Linux!Empty, Inner, Acquiring, Filling, Working
<1> QED BY <1>1, <1>2, <1>3, <1>4, <1>5, <1>6, <1>7 DEF LinuxInv

LEMMA ForeignKeeps == ASSUME LinuxInv, NEW n \in Linux!Tables, Linux!Foreign(n) PROVE LinuxInv'
<1>1. Linux!TypeOK'
    <2>2. os' \in [Linux!Tables -> Row]
        BY RowUpdates DEF LinuxInv, Linux!TypeOK, TurnInv, Acquiring, Linux!Foreign, Row
    <2> QED
        BY <2>2, NoneIsNothing, BoundsAreNumbers
        DEF LinuxInv, Linux!TypeOK, TurnInv, Linux!Foreign, Linux!Go, Linux!Tables, Linux!Lease, Row, Filling, Acquiring
<1>2. TurnInv'
    BY NoneIsNothing, BoundsAreNumbers
        DEF LinuxInv, Linux!TypeOK, TurnInv, Linux!Foreign, Linux!Lease, Linux!Tables, Inner,
            Acquiring, Filling
<1>3. KeyInv'
    BY NoneIsNothing, BoundsAreNumbers
        DEF LinuxInv, Linux!TypeOK, TurnInv, KeyInv, Linux!Foreign, Linux!Lease, Linux!Tables,
            Inner, Acquiring, Filling, Linux!Live
<1>4. OwnInv'
    BY NoneIsNothing, BoundsAreNumbers
        DEF LinuxInv, Linux!TypeOK, TurnInv, OwnInv, TableInv, Linux!Foreign, Linux!Lease,
            Linux!Tables, Inner, Acquiring, Filling, Linux!Live, Working
<1>5. TableInv'
    BY NoneIsNothing, BoundsAreNumbers
        DEF LinuxInv, Linux!TypeOK, TurnInv, OwnInv, TableInv, KeyInv, Linux!Foreign,
            Linux!Lease, Linux!Tables, Inner, Acquiring, Filling, Linux!Live, Working
<1>6. SystemInv'
    <2>1. \A m \in Linux!Tables : /\ os'[m].sentinel = os[m].sentinel
                                  /\ os'[m].route = os[m].route /\ os'[m].rule = os[m].rule
        BY DEF LinuxInv, Linux!TypeOK, Linux!Foreign
    <2>2. \A t \in Threads : pc[t] \in Filling => at[t] \in Linux!Tables
        BY DEF LinuxInv, TurnInv
    <2> QED
        BY <2>1, <2>2 DEF LinuxInv, SystemInv, Linux!Foreign, Linux!HeldIsInstalled, Linux!SentinelGuards, Linux!Live, Linux!Lease, Filling
<1>7. ClaimInv'
    BY NoneIsNothing, BoundsAreNumbers
        DEF LinuxInv, Linux!TypeOK, TurnInv, OwnInv, TableInv, ClaimInv, Linux!Foreign,
            Linux!Lease, Linux!Tables, Inner, Acquiring, Filling, Linux!Live, Working
<1> QED BY <1>1, <1>2, <1>3, <1>4, <1>5, <1>6, <1>7 DEF LinuxInv

LEMMA RivalKeeps == ASSUME LinuxInv, NEW n \in Linux!Tables, Linux!Rival(n) PROVE LinuxInv'
<1>1. Linux!TypeOK'
    <2>2. os' \in [Linux!Tables -> Row]
        BY RowUpdates DEF LinuxInv, Linux!TypeOK, TurnInv, Acquiring, Linux!Rival, Row
    <2> QED
        BY <2>2, NoneIsNothing, BoundsAreNumbers
        DEF LinuxInv, Linux!TypeOK, TurnInv, Linux!Rival, Linux!Go, Linux!Tables, Linux!Lease, Row, Filling, Acquiring
<1>2. TurnInv'
    BY NoneIsNothing, BoundsAreNumbers
        DEF LinuxInv, Linux!TypeOK, TurnInv, Linux!Rival, Linux!Lease, Linux!Tables, Inner,
            Acquiring, Filling
<1>3. KeyInv'
    BY NoneIsNothing, BoundsAreNumbers
        DEF LinuxInv, Linux!TypeOK, TurnInv, KeyInv, Linux!Rival, Linux!Lease, Linux!Tables,
            Inner, Acquiring, Filling, Linux!Live
<1>4. OwnInv'
    BY NoneIsNothing, BoundsAreNumbers
        DEF LinuxInv, Linux!TypeOK, TurnInv, OwnInv, TableInv, Linux!Rival, Linux!Lease,
            Linux!Tables, Inner, Acquiring, Filling, Linux!Live, Working
<1>5. TableInv'
    BY NoneIsNothing, BoundsAreNumbers
        DEF LinuxInv, Linux!TypeOK, TurnInv, OwnInv, TableInv, KeyInv, Linux!Rival, Linux!Lease,
            Linux!Tables, Inner, Acquiring, Filling, Linux!Live, Working
<1>6. SystemInv'
    BY NoneIsNothing, BoundsAreNumbers
        DEF LinuxInv, Linux!TypeOK, TurnInv, OwnInv, TableInv, SystemInv, KeyInv, Linux!Rival,
            Linux!Lease, Linux!Tables, Inner, Acquiring, Filling, Linux!Live, Working,
            Linux!HeldIsInstalled, Linux!SentinelGuards
<1>7. ClaimInv'
    BY NoneIsNothing, BoundsAreNumbers
        DEF LinuxInv, Linux!TypeOK, TurnInv, OwnInv, TableInv, ClaimInv, Linux!Rival,
            Linux!Lease, Linux!Tables, Inner, Acquiring, Filling, Linux!Live, Working
<1> QED BY <1>1, <1>2, <1>3, <1>4, <1>5, <1>6, <1>7 DEF LinuxInv

LEMMA CrashKeeps == ASSUME LinuxInv, Linux!Crash PROVE LinuxInv'
<1>1. Linux!TypeOK'
    BY NoneIsNothing, BoundsAreNumbers
        DEF LinuxInv, Linux!TypeOK, TurnInv, Linux!Crash, Linux!Lease, Linux!Tables, Inner,
            Acquiring, Filling
<1>2. TurnInv'
    BY NoneIsNothing, BoundsAreNumbers
        DEF LinuxInv, Linux!TypeOK, TurnInv, Linux!Crash, Linux!Lease, Linux!Tables, Inner,
            Acquiring, Filling
<1>3. KeyInv'
    BY NoneIsNothing, BoundsAreNumbers
        DEF LinuxInv, Linux!TypeOK, TurnInv, KeyInv, Linux!Crash, Linux!Lease, Linux!Tables,
            Inner, Acquiring, Filling, Linux!Live
<1>4. OwnInv'
    BY NoneIsNothing, BoundsAreNumbers
        DEF LinuxInv, Linux!TypeOK, TurnInv, OwnInv, TableInv, Linux!Crash, Linux!Lease,
            Linux!Tables, Inner, Acquiring, Filling, Linux!Live, Working
<1>5. TableInv'
    BY NoneIsNothing, BoundsAreNumbers
        DEF LinuxInv, Linux!TypeOK, TurnInv, OwnInv, TableInv, KeyInv, Linux!Crash, Linux!Lease,
            Linux!Tables, Inner, Acquiring, Filling, Linux!Live, Working
<1>6. SystemInv'
    BY NoneIsNothing, BoundsAreNumbers
        DEF LinuxInv, Linux!TypeOK, TurnInv, OwnInv, TableInv, SystemInv, KeyInv, Linux!Crash,
            Linux!Lease, Linux!Tables, Inner, Acquiring, Filling, Linux!Live, Working,
            Linux!HeldIsInstalled, Linux!SentinelGuards
<1>7. ClaimInv'
    BY NoneIsNothing, BoundsAreNumbers
        DEF LinuxInv, Linux!TypeOK, TurnInv, OwnInv, TableInv, ClaimInv, Linux!Crash,
            Linux!Lease, Linux!Tables, Inner, Acquiring, Filling, Linux!Live, Working
<1> QED BY <1>1, <1>2, <1>3, <1>4, <1>5, <1>6, <1>7 DEF LinuxInv

LEMMA LinuxInit == Linux!Init => LinuxInv
<1> SUFFICES ASSUME Linux!Init PROVE LinuxInv
    OBVIOUS
<1>1. Linux!TypeOK
    <2>1. Linux!Empty \in Row
        BY DEF Linux!Empty, Row
    <2>2. os \in [Linux!Tables -> Row]
        BY <2>1 DEF Linux!Init
    <2>3. DOMAIN entries = {}
        BY DEF Linux!Init
    <2>4. 0 \in 0 .. LastTable + 1 /\ 0 \in 0 .. MaxSteps
        BY BoundsAreNumbers
    <2> QED BY <2>2, <2>3, <2>4 DEF Linux!Init, Linux!TypeOK, Row
<1>2. \A l : ~Linux!Live(l)
    BY DEF Linux!Init, Linux!Live
<1>3. TurnInv /\ KeyInv /\ OwnInv /\ TableInv /\ ClaimInv
    BY <1>2, NoneIsNothing
    DEF Linux!Init, TurnInv, KeyInv, OwnInv, TableInv, ClaimInv, Working, Inner, Acquiring, Filling
<1>4. SystemInv
    BY <1>2 DEF Linux!Init, SystemInv, Linux!HeldIsInstalled, Linux!SentinelGuards, Linux!Empty
<1> QED BY <1>1, <1>3, <1>4 DEF LinuxInv

LEMMA LinuxStep == LinuxInv /\ Linux!Next => LinuxInv'
<1> SUFFICES ASSUME LinuxInv, Linux!Next PROVE LinuxInv'
    OBVIOUS
<1>1. CASE Linux!Sweep \/ Linux!Crash
    BY <1>1, SweepKeeps, CrashKeeps
<1>2. CASE \E n \in Linux!Tables : Linux!Foreign(n) \/ Linux!Rival(n)
    BY <1>2, ForeignKeeps, RivalKeeps
<1>3. ASSUME NEW t \in Threads, Linux!Inside(t) PROVE LinuxInv'
    BY <1>3, ShareKeeps, EnterKeeps, ListKeeps, ReserveKeeps, AddRouteKeeps, AddRuleKeeps,
       AcquireFailsKeeps, BeginReleaseKeeps, DelRuleKeeps, DelRouteKeeps, DelSentinelKeeps
    DEF Linux!Inside
<1>4. ASSUME NEW t \in Threads, \/ \E k \in Keys : Linux!Acquire(t, k)
                                \/ \E l \in held[t] : Linux!Drop(t, l)
      PROVE  LinuxInv'
    BY <1>4, AcquireKeeps, DropKeeps
<1> QED BY <1>1, <1>2, <1>3, <1>4 DEF Linux!Next

LEMMA LinuxStutter == LinuxInv /\ UNCHANGED linux => LinuxInv'
<1> SUFFICES ASSUME LinuxInv, UNCHANGED linux PROVE LinuxInv'
    OBVIOUS
<1>1. Linux!TypeOK' /\ TurnInv' /\ KeyInv'
    BY DEF linux, LinuxInv, Linux!TypeOK, TurnInv, KeyInv, Linux!Live
<1>2. OwnInv' /\ TableInv' /\ ClaimInv'
    BY DEF linux, LinuxInv, OwnInv, TableInv, ClaimInv, Linux!Live, Working
<1>3. SystemInv'
    BY DEF linux, LinuxInv, SystemInv, Linux!HeldIsInstalled, Linux!SentinelGuards, Linux!Live
<1> QED BY <1>1, <1>2, <1>3 DEF LinuxInv

LEMMA LinuxIsSafe ==
    LinuxInv => /\ Linux!TypeOK /\ Linux!HeldIsInstalled /\ Linux!SentinelGuards
                /\ Linux!FillsCleanTable /\ Linux!NoTableTwice
<1> SUFFICES ASSUME LinuxInv
    PROVE  /\ Linux!TypeOK /\ Linux!HeldIsInstalled /\ Linux!SentinelGuards
           /\ Linux!FillsCleanTable /\ Linux!NoTableTwice
    OBVIOUS
<1>1. /\ Linux!TypeOK /\ Linux!HeldIsInstalled /\ Linux!SentinelGuards
      /\ Linux!FillsCleanTable
    BY DEF LinuxInv, SystemInv, Linux!FillsCleanTable
<1>2. ASSUME NEW l \in Linux!Lease, NEW m \in Linux!Lease, Linux!Live(l), Linux!Live(m),
             l.table = m.table \/ l.key = m.key
      PROVE  l = m
    BY <1>2 DEF LinuxInv, TableInv, KeyInv
<1> QED BY <1>1, <1>2 DEF Linux!NoTableTwice

----------------------------------------------------------------------------
LinuxGranted ==
    IF swept THEN {} ELSE {p \in Threads \X Keys : \E l \in held[p[1]] : l.key = p[2]}
LinuxInstalled ==
    IF swept THEN {} ELSE {k \in Keys : \E n \in owned : os[n].rule = k /\ os[n].route = k}

LEMMA ContractMoves ==
    ASSUME \/ LinuxGranted' \subseteq LinuxGranted /\ LinuxInstalled' = LinuxInstalled
           \/ LinuxGranted' = {} /\ LinuxInstalled' = {}
           \/ \E t \in Threads, k \in Keys : /\ LinuxGranted' = LinuxGranted \cup {<<t, k>>}
                                             /\ LinuxInstalled' = LinuxInstalled \cup {k}
           \/ \E k \in Keys : /\ \A t \in Threads : <<t, k>> \notin LinuxGranted
                              /\ LinuxGranted' = LinuxGranted /\ LinuxInstalled' = LinuxInstalled \ {k}
           \/ \E k \in Keys : LinuxGranted' = LinuxGranted /\ LinuxInstalled' = LinuxInstalled \cup {k}
    PROVE  Linux!Contract!Next
<1>1. CASE LinuxGranted' \subseteq LinuxGranted /\ LinuxInstalled' = LinuxInstalled
    <2>1. LinuxGranted' = LinuxGranted \ (LinuxGranted \ LinuxGranted')
        BY <1>1
    <2> DEFINE gone == LinuxGranted \ LinuxGranted'
    <2>2. gone \in SUBSET LinuxGranted /\ LinuxGranted' = LinuxGranted \ gone
        BY <2>1
    <2> QED BY <1>1, <2>2 DEF Linux!Contract!Next, Linux!Contract!Drop, LinuxGranted, LinuxInstalled
<1>2. CASE LinuxGranted' = {} /\ LinuxInstalled' = {}
    BY <1>2 DEF Linux!Contract!Next, Linux!Contract!Crash, LinuxGranted, LinuxInstalled
<1>3. CASE \E t \in Threads, k \in Keys : /\ LinuxGranted' = LinuxGranted \cup {<<t, k>>}
                                          /\ LinuxInstalled' = LinuxInstalled \cup {k}
    BY <1>3 DEF Linux!Contract!Next, Linux!Contract!Grant, LinuxGranted, LinuxInstalled
<1>4. CASE \E k \in Keys : /\ \A t \in Threads : <<t, k>> \notin LinuxGranted
                           /\ LinuxGranted' = LinuxGranted /\ LinuxInstalled' = LinuxInstalled \ {k}
    BY <1>4 DEF Linux!Contract!Next, Linux!Contract!Uninstall, LinuxGranted, LinuxInstalled
<1>5. CASE \E k \in Keys : LinuxGranted' = LinuxGranted /\ LinuxInstalled' = LinuxInstalled \cup {k}
    BY <1>5 DEF Linux!Contract!Next, Linux!Contract!Install, LinuxGranted, LinuxInstalled
<1> QED BY <1>1, <1>2, <1>3, <1>4, <1>5

(***************************************************************************)
(* The Linux registry implements RouteLeases.                              *)
(***************************************************************************)

\* A route is installed by a table: where no table changes that, nothing does.
By(n, k) == n \in owned /\ os[n].rule = k /\ os[n].route = k

LEMMA SameInstalled ==
    ASSUME LinuxInv, swept' = swept,
           \A n \in Linux!Tables, k \in Keys : (By(n, k))' <=> By(n, k), owned' \subseteq Linux!Tables
    PROVE  LinuxInstalled' = LinuxInstalled
<1>1. owned \subseteq Linux!Tables
    BY DEF LinuxInv, Linux!TypeOK
<1> QED BY <1>1 DEF LinuxInstalled, By

LEMMA SameGranted == held' = held /\ swept' = swept => LinuxGranted' = LinuxGranted
BY DEF LinuxGranted

LEMMA QuietContract ==
    ASSUME LinuxInv, LinuxInv', NEW t \in Threads,
           \/ \E k \in Keys : Linux!Acquire(t, k)
           \/ Linux!Enter(t) \/ Linux!List(t) \/ Linux!Reserve(t) \/ Linux!AddRoute(t)
           \/ Linux!BeginRelease(t)
    PROVE  Linux!Contract!Next
<1>1. held' = held /\ swept' = swept
    BY DEF Linux!Acquire, Linux!Enter, Linux!List, Linux!Reserve, Linux!AddRoute, Linux!BeginRelease
<1>2. owned' \subseteq Linux!Tables
    BY DEF LinuxInv, Linux!TypeOK
<1>3. ASSUME NEW n \in Linux!Tables, NEW k \in Keys PROVE (By(n, k))' <=> By(n, k)
    <2>1. CASE os' = os /\ owned' = owned
        BY <2>1 DEF By
    <2>2. CASE Linux!Reserve(t)
        BY <2>2, NoneIsNothing DEF LinuxInv, Linux!TypeOK, TurnInv, OwnInv, Linux!Reserve, By
    <2>3. CASE Linux!AddRoute(t)
        BY <2>3, NoneIsNothing DEF LinuxInv, Linux!TypeOK, TurnInv, SystemInv, Linux!AddRoute, Filling, By
    <2> QED
        BY <2>1, <2>2, <2>3 DEF Linux!Acquire, Linux!Enter, Linux!List, Linux!BeginRelease
<1> QED BY <1>1, <1>2, <1>3, SameInstalled, SameGranted, ContractMoves

LEMMA OutsideContract ==
    ASSUME LinuxInv, LinuxInv', NEW n \in Linux!Tables, Linux!Foreign(n) \/ Linux!Rival(n)
    PROVE  Linux!Contract!Next
<1>1. held' = held /\ swept' = swept /\ owned' = owned
    BY DEF Linux!Foreign, Linux!Rival
<1>2. \A m \in Linux!Tables : os'[m].route = os[m].route /\ os'[m].rule = os[m].rule
    BY DEF LinuxInv, Linux!TypeOK, Linux!Foreign, Linux!Rival
<1>3. \A m \in Linux!Tables, k \in Keys : (By(m, k))' <=> By(m, k)
    BY <1>1, <1>2 DEF By
<1>4. owned' \subseteq Linux!Tables
    BY <1>1 DEF LinuxInv, Linux!TypeOK
<1> QED BY <1>1, <1>3, <1>4, SameInstalled, SameGranted, ContractMoves

LEMMA DropContract ==
    ASSUME LinuxInv, LinuxInv', NEW t \in Threads, NEW l \in held[t], Linux!Drop(t, l)
    PROVE  Linux!Contract!Next
<1>1. LinuxGranted' \subseteq LinuxGranted
    BY DEF LinuxInv, Linux!TypeOK, Linux!Drop, LinuxGranted
<1>2. LinuxInstalled' = LinuxInstalled
    BY DEF Linux!Drop, LinuxInstalled
<1> QED BY <1>1, <1>2, ContractMoves

\* A lease that is granted has its route installed.
LEMMA LiveIsInstalled ==
    ASSUME LinuxInv, ~swept, NEW l \in Linux!Lease, Linux!Live(l)
    PROVE  l.key \in LinuxInstalled /\ l.table \in owned /\ By(l.table, l.key)
BY DEF LinuxInv, OwnInv, SystemInv, Linux!HeldIsInstalled, Linux!SentinelGuards, LinuxInstalled, Linux!Lease, By

LEMMA ShareContract ==
    ASSUME LinuxInv, LinuxInv', NEW t \in Threads, Linux!Share(t) PROVE Linux!Contract!Next
<1> DEFINE l == Linux!Existing(want[t])
           k == want[t]
<1>1. l \in Linux!Lease /\ Linux!Live(l) /\ l.key = k /\ k \in Keys
    BY NoneIsNothing DEF LinuxInv, Linux!TypeOK, TurnInv, Acquiring, Linux!Share, Linux!Existing, Linux!Lease
<1>2. UNCHANGED <<swept, os, owned>> /\ held' = [held EXCEPT ![t] = @ \cup {l}]
    BY DEF Linux!Share
<1> HIDE DEF l
<1>3. LinuxInstalled' = LinuxInstalled
    BY <1>2 DEF LinuxInstalled
<1>4. CASE swept
    BY <1>2, <1>3, <1>4, ContractMoves DEF LinuxGranted
<1>5. CASE ~swept
    <2>1. k \in LinuxInstalled
        BY <1>1, <1>5, LiveIsInstalled
    <2>2. LinuxGranted' = LinuxGranted \cup {<<t, k>>}
        BY <1>1, <1>2, <1>5 DEF LinuxInv, Linux!TypeOK, LinuxGranted
    <2>3. LinuxInstalled' = LinuxInstalled \cup {k}
        BY <1>3, <2>1
    <2> QED BY <1>1, <2>2, <2>3, ContractMoves
<1> QED BY <1>4, <1>5

LEMMA AddRuleContract ==
    ASSUME LinuxInv, LinuxInv', NEW t \in Threads, Linux!AddRule(t) PROVE Linux!Contract!Next
<1> DEFINE k == want[t]
           new == [key |-> k, table |-> at[t]]
<1>1. /\ k \in Keys /\ at[t] \in Linux!Tables /\ at[t] \in owned
      /\ os[at[t]].route = k /\ os[at[t]].rule = None
    BY DEF LinuxInv, TurnInv, OwnInv, SystemInv, Linux!AddRule, Acquiring, Filling, Working
<1>2. /\ UNCHANGED <<swept, owned>> /\ held' = [held EXCEPT ![t] = @ \cup {new}]
      /\ os' = [os EXCEPT ![at[t]].rule = k]
    BY DEF Linux!AddRule
<1>3. CASE swept
    BY <1>2, <1>3, ContractMoves DEF LinuxGranted, LinuxInstalled
<1>4. CASE ~swept
    <2>1. new.key = k
        OBVIOUS
    <2> HIDE DEF new
    <2>2. LinuxGranted' = LinuxGranted \cup {<<t, k>>}
        BY <1>1, <1>2, <1>4, <2>1 DEF LinuxInv, Linux!TypeOK, LinuxGranted
    <2>3. \A n \in Linux!Tables, j \in Keys : (By(n, j))' <=> By(n, j) \/ (n = at[t] /\ j = k)
        BY <1>1, <1>2, NoneIsNothing DEF LinuxInv, Linux!TypeOK, By
    <2>4. owned \subseteq Linux!Tables
        BY DEF LinuxInv, Linux!TypeOK
    <2>5. LinuxInstalled' = LinuxInstalled \cup {k}
        BY <1>1, <1>2, <1>4, <2>3, <2>4 DEF LinuxInstalled, By
    <2> QED BY <1>1, <2>2, <2>5, ContractMoves
<1> QED BY <1>3, <1>4

\* A command that fails may have installed the route all the same; it is granted to nobody.
LEMMA AcquireFailsContract ==
    ASSUME LinuxInv, LinuxInv', NEW t \in Threads, Linux!AcquireFails(t) PROVE Linux!Contract!Next
<1>1. LinuxGranted' = LinuxGranted
    BY SameGranted DEF Linux!AcquireFails
<1>2. owned' = owned /\ swept' = swept /\ owned \subseteq Linux!Tables
    BY DEF LinuxInv, Linux!TypeOK, Linux!AcquireFails
<1>3. CASE pc[t] = "rule" /\ os' = Linux!Effect(t)
    <2> DEFINE k == want[t]
    <2>1. /\ k \in Keys /\ at[t] \in Linux!Tables /\ at[t] \in owned
          /\ os[at[t]].route = k /\ os[at[t]].rule = None
        BY <1>3 DEF LinuxInv, TurnInv, OwnInv, SystemInv, Acquiring, Filling, Working
    <2>2. os' = [os EXCEPT ![at[t]].rule = k]
        BY <1>3 DEF Linux!Effect
    <2>3. \A n \in Linux!Tables, j \in Keys : (By(n, j))' <=> By(n, j) \/ (n = at[t] /\ j = k)
        BY <1>2, <2>1, <2>2, NoneIsNothing DEF LinuxInv, Linux!TypeOK, By
    <2>4. CASE swept
        BY <1>1, <1>2, <2>4, ContractMoves DEF LinuxInstalled
    <2>5. CASE ~swept
        <3>1. LinuxInstalled' = LinuxInstalled \cup {k}
            BY <1>2, <2>1, <2>3, <2>5 DEF LinuxInstalled, By
        <3> QED BY <1>1, <2>1, <3>1, ContractMoves
    <2> QED BY <2>4, <2>5
<1>4. CASE ~(pc[t] = "rule" /\ os' = Linux!Effect(t))
    <2>1. \A n \in Linux!Tables : /\ os'[n].rule = os[n].rule
                                  /\ os'[n].route = os[n].route \/ os[n].rule = None
        <3>1. \/ os' = os
              \/ pc[t] = "reserve" /\ os' = [os EXCEPT ![at[t]].sentinel = TRUE]
              \/ pc[t] = "route" /\ os' = [os EXCEPT ![at[t]].route = want[t]]
            BY <1>4 DEF Linux!AcquireFails, Linux!Effect
        <3>2. pc[t] = "route" => os[at[t]].rule = None
            BY DEF LinuxInv, SystemInv
        <3> QED BY <3>1, <3>2 DEF LinuxInv, Linux!TypeOK
    <2>2. \A n \in Linux!Tables, j \in Keys : (By(n, j))' <=> By(n, j)
        BY <1>2, <2>1, NoneIsNothing DEF By
    <2> QED BY <1>1, <1>2, <2>2, SameInstalled, ContractMoves
<1> QED BY <1>3, <1>4

\* A deletion takes the route of a lease away, unless another table has the same, or leaves
\* it to the next; nobody holds that lease.
LEMMA RemovesContract ==
    ASSUME LinuxInv, LinuxInv', NEW t \in Threads, Removes(t) PROVE Linux!Contract!Next
<1>1. /\ UNCHANGED <<swept, held>> /\ at[t] \in Linux!Tables
      /\ \A n \in Linux!Tables : n # at[t] => os'[n] = os[n]
      /\ os'[at[t]].route \in {None, os[at[t]].route} /\ os'[at[t]].rule \in {None, os[at[t]].rule}
      /\ \A l \in Linux!Lease : Linux!Live(l) => l.table # at[t]
    BY RemovedIs
<1>2. owned' = owned \/ owned' = owned \ {at[t]}
    BY DEF Removes, Linux!DelRule, Linux!DelRoute, Linux!DelSentinel
<1>3. /\ \A n \in Linux!Tables, j \in Keys : (By(n, j))' => By(n, j)
      /\ \A n \in Linux!Tables, j \in Keys : By(n, j) /\ n # at[t] => (By(n, j))'
    BY <1>1, <1>2, NoneIsNothing DEF By
<1>4. owned \subseteq Linux!Tables /\ owned' \subseteq Linux!Tables
    BY DEF LinuxInv, Linux!TypeOK
<1>5. LinuxGranted' = LinuxGranted
    BY <1>1, SameGranted
<1>6. CASE LinuxInstalled' = LinuxInstalled
    BY <1>5, <1>6, ContractMoves
<1>7. CASE LinuxInstalled' # LinuxInstalled
    <2>1. ~swept /\ ~swept'
        BY <1>1, <1>7 DEF LinuxInstalled
    <2>2. PICK j \in LinuxInstalled : j \notin LinuxInstalled'
        BY <1>1, <1>3, <1>4, <1>7, <2>1 DEF LinuxInstalled, By
    <2>3. j \in Keys /\ \A n \in Linux!Tables : By(n, j) => n = at[t]
        BY <1>1, <1>3, <1>4, <2>1, <2>2 DEF LinuxInstalled, By
    <2>4. By(at[t], j)
        BY <1>4, <2>1, <2>2, <2>3 DEF LinuxInstalled, By
    <2>5. LinuxInstalled' = LinuxInstalled \ {j}
        BY <1>1, <1>3, <1>4, <2>1, <2>2, <2>3, <2>4 DEF LinuxInstalled, By
    <2>6. \A u \in Threads : <<u, j>> \notin LinuxGranted
        <3>1. SUFFICES ASSUME NEW u \in Threads, <<u, j>> \in LinuxGranted PROVE FALSE
            OBVIOUS
        <3>2. PICK l \in held[u] : l.key = j
            BY <3>1 DEF LinuxGranted
        <3>3. l \in Linux!Lease /\ Linux!Live(l)
            BY <3>2 DEF LinuxInv, Linux!TypeOK, Linux!Live
        <3>4. l.table \in Linux!Tables /\ By(l.table, j)
            BY <2>1, <3>2, <3>3, LiveIsInstalled DEF Linux!Lease
        <3> QED BY <1>1, <2>3, <3>3, <3>4
    <2> QED BY <1>5, <2>3, <2>5, <2>6, ContractMoves
<1> QED BY <1>6, <1>7

LEMMA SweepContract == ASSUME LinuxInv, LinuxInv', Linux!Sweep PROVE Linux!Contract!Next
<1>1. CASE swept'
    BY <1>1, ContractMoves DEF LinuxGranted, LinuxInstalled
<1>2. CASE ~swept'
    <2>1. ~swept /\ \A l \in Linux!Lease : ~Linux!Live(l)
        BY <1>2 DEF Linux!Sweep
    <2>2. \A t \in Threads : dying[t] = None /\ ~Working(t)
        BY DEF LinuxInv, TurnInv, Linux!Sweep, Working, Filling
    <2>3. owned = {} /\ owned' = {}
        BY <2>1, <2>2 DEF LinuxInv, ClaimInv, Linux!Sweep
    <2>4. LinuxInstalled' = LinuxInstalled
        BY <2>3 DEF LinuxInstalled
    <2>5. LinuxGranted' = LinuxGranted
        BY <1>2, <2>1 DEF Linux!Sweep, LinuxGranted
    <2> QED BY <2>4, <2>5, ContractMoves
<1> QED BY <1>1, <1>2

LEMMA CrashContract == ASSUME LinuxInv, Linux!Crash PROVE Linux!Contract!Next
<1>1. LinuxGranted' = {} /\ LinuxInstalled' = {}
    BY DEF Linux!Crash, LinuxGranted, LinuxInstalled
<1> QED BY <1>1, ContractMoves

LEMMA LinuxImplements == LinuxInv /\ LinuxInv' /\ Linux!Next => Linux!Contract!Next
<1> SUFFICES ASSUME LinuxInv, LinuxInv', Linux!Next PROVE Linux!Contract!Next
    OBVIOUS
<1>1. CASE Linux!Sweep \/ Linux!Crash
    BY <1>1, SweepContract, CrashContract
<1>2. CASE \E n \in Linux!Tables : Linux!Foreign(n) \/ Linux!Rival(n)
    BY <1>2, OutsideContract
<1>3. ASSUME NEW t \in Threads, Linux!Inside(t) PROVE Linux!Contract!Next
    BY <1>3, QuietContract, ShareContract, AddRuleContract, AcquireFailsContract, RemovesContract
    DEF Linux!Inside, Removes
<1>4. ASSUME NEW t \in Threads, \/ \E k \in Keys : Linux!Acquire(t, k)
                                \/ \E l \in held[t] : Linux!Drop(t, l)
      PROVE  Linux!Contract!Next
    BY <1>4, QuietContract, DropContract
<1> QED BY <1>1, <1>2, <1>3, <1>4 DEF Linux!Next

LEMMA LinuxContractInit == Linux!Init => Linux!Contract!Init
BY DEF Linux!Init, Linux!Contract!Init

(***************************************************************************)
(* The Windows registry.                                                   *)
(***************************************************************************)

LeaseType ==
    [tun : 0 .. MaxTuns, captures : SUBSET Windows!Routes, defaults : SUBSET {Windows!Default},
     watcher : {"none", "watching", "clearing", "done"}]

\* What the main thread and the watchers have made of the two leases.
CandidateInv ==
    /\ wtun <= wtuns /\ \A s \in Windows!Slots : wlease[s].tun <= wtuns
    /\ wmain \in {"capture", "default"} =>
           /\ wlease["candidate"].tun # 0
           /\ wlease["candidate"].defaults = {} /\ wlease["candidate"].watcher = "none"
    /\ wmain = "default" => wlease["candidate"].captures = Windows!Captures(wlease["candidate"].tun)
    /\ \A s \in Windows!Slots :
        /\ wlease[s].captures \subseteq Windows!Captures(wlease[s].tun)
        /\ wlease[s].captures # {} => wlease[s].tun # 0
        /\ wlease[s].watcher \in {"clearing", "done"} => wlease[s].defaults = {}
    /\ Windows!DefaultIsCovered

\* What is leased is registered and, while its interface exists, in the system; what the
\* program did not create is not registered as its own.
EntryInv ==
    /\ Windows!Held \subseteq DOMAIN wentries
    /\ Windows!LeasedIsInstalled
    /\ \A k \in DOMAIN wentries : wentries[k] => wos[k] # "foreign"

WindowsInv == Windows!TypeOK /\ CandidateInv /\ EntryInv

\* A capture is of one TUN, and the default is no capture of any.
LEMMA CapturesDiffer ==
    ASSUME NEW g \in 1 .. MaxTuns, NEW k \in Windows!Captures(g)
    PROVE  /\ k \in Windows!Routes /\ k # Windows!Default
           /\ \A h : k \in Windows!Captures(h) <=> h = g
BY BoundsAreNumbers DEF Windows!Captures, Windows!Routes, Windows!Default

LEMMA RoutesAre ==
    ASSUME NEW k \in Windows!Routes
    PROVE  k = Windows!Default \/ \E g \in 1 .. MaxTuns : k \in Windows!Captures(g)
BY DEF Windows!Routes

\* A step that leases nothing new, adds no TUN and removes no route keeps the leases installed.
LEMMA LessHeld ==
    ASSUME WindowsInv, Windows!Held' \subseteq Windows!Held, UNCHANGED <<wtun, wos, wentries>>
    PROVE  EntryInv'
BY DEF WindowsInv, EntryInv, Windows!LeasedIsInstalled

LEMMA HeldIs ==
    /\ Windows!Held = wlease["current"].captures \cup wlease["current"].defaults
                      \cup wlease["candidate"].captures \cup wlease["candidate"].defaults
    /\ Windows!Held' = wlease'["current"].captures \cup wlease'["current"].defaults
                       \cup wlease'["candidate"].captures \cup wlease'["candidate"].defaults
BY DEF Windows!Held, Windows!Holds, Windows!Slots

LEMMA PrepareSafe == ASSUME WindowsInv, Windows!Prepare PROVE WindowsInv' /\ Windows!Held' \subseteq Windows!Held
<1> DEFINE new == [Windows!Empty EXCEPT !.tun = wtun]
<1>1. /\ wtun \in 0 .. MaxTuns /\ new \in LeaseType
      /\ new.tun = wtun /\ new.captures = {} /\ new.defaults = {} /\ new.watcher = "none"
    BY DEF WindowsInv, Windows!TypeOK, Windows!Empty, LeaseType
<1>2. /\ wlease' = [wlease EXCEPT !["candidate"] = new] /\ wmain' = "capture" /\ wcalls' = wcalls + 1
      /\ wtun # 0 /\ wcalls < MaxCalls /\ UNCHANGED <<wtun, wtuns, wos, wentries>>
    BY DEF Windows!Prepare, Windows!Call
<1> HIDE DEF new
<1>3. /\ wlease' \in [Windows!Slots -> LeaseType]
      /\ wlease'["candidate"] = new /\ wlease'["current"] = wlease["current"]
    BY <1>1, <1>2 DEF WindowsInv, Windows!TypeOK, Windows!Slots, LeaseType
<1>4. Windows!TypeOK'
    BY <1>2, <1>3, BoundsAreNumbers DEF WindowsInv, Windows!TypeOK, LeaseType
<1>5. Windows!Held' \subseteq Windows!Held
    BY <1>1, <1>3, HeldIs
<1>6. CandidateInv'
    BY <1>1, <1>2, <1>3 DEF WindowsInv, CandidateInv, Windows!DefaultIsCovered, Windows!Slots
<1> QED BY <1>2, <1>4, <1>5, <1>6, LessHeld DEF WindowsInv

\* A route registered: an entry of a lease is shared, another one is created or borrowed.
LEMMA Registered ==
    ASSUME WindowsInv, NEW k \in Windows!Routes, Windows!CanAcquire(k), Windows!Register(k),
           UNCHANGED <<wtun, wtuns>>, Windows!Held' = Windows!Held \cup {k}
    PROVE  /\ EntryInv'
           /\ wos' \in [Windows!Routes -> {"ours", "foreign", "absent"}]
           /\ DOMAIN wentries' = DOMAIN wentries \cup {k}
           /\ DOMAIN wentries' \subseteq Windows!Routes
           /\ \A j \in DOMAIN wentries' : wentries'[j] \in BOOLEAN
<1>1. CASE k \in DOMAIN wentries
    <2>1. UNCHANGED <<wos, wentries>> /\ k \in Windows!Held
        BY <1>1 DEF Windows!Register, Windows!CanAcquire, Windows!Expired
    <2>2. Windows!Held' \subseteq Windows!Held
        BY <2>1
    <2> QED BY <2>1, <2>2, LessHeld, <1>1 DEF WindowsInv, Windows!TypeOK
<1>2. CASE k \notin DOMAIN wentries
    <2>1. /\ wentries' = [j \in DOMAIN wentries \cup {k} |->
                               IF j = k THEN wos[k] = "absent" ELSE wentries[j]]
          /\ wos' = [wos EXCEPT ![k] = IF @ = "absent" THEN "ours" ELSE @]
        BY <1>2 DEF Windows!Register
    <2>2. /\ DOMAIN wentries' = DOMAIN wentries \cup {k} /\ wentries'[k] = (wos[k] = "absent")
          /\ \A j \in DOMAIN wentries : wentries'[j] = wentries[j]
        BY <1>2, <2>1
    <2>3. /\ wos' \in [Windows!Routes -> {"ours", "foreign", "absent"}]
          /\ wos'[k] = IF wos[k] = "absent" THEN "ours" ELSE wos[k]
          /\ \A j \in Windows!Routes \ {k} : wos'[j] = wos[j]
        BY <2>1 DEF WindowsInv, Windows!TypeOK
    <2>4. /\ DOMAIN wentries \subseteq Windows!Routes
          /\ \A j \in DOMAIN wentries : wentries[j] \in BOOLEAN
        BY DEF WindowsInv, Windows!TypeOK
    <2>5. \A j \in DOMAIN wentries' : wentries'[j] \in BOOLEAN
        BY <2>2, <2>4
    <2>6. \A j \in DOMAIN wentries' : wentries'[j] => wos'[j] # "foreign"
        BY <1>2, <2>2, <2>3, <2>4 DEF WindowsInv, EntryInv
    <2>7. Windows!Held \subseteq Windows!Routes
        BY <2>4 DEF WindowsInv, EntryInv
    <2>8. Windows!LeasedIsInstalled'
        BY <2>3, <2>7 DEF WindowsInv, EntryInv, Windows!LeasedIsInstalled
    <2>9. Windows!Held' \subseteq DOMAIN wentries'
        BY <2>2 DEF WindowsInv, EntryInv
    <2> QED BY <2>2, <2>3, <2>4, <2>5, <2>6, <2>8, <2>9 DEF EntryInv
<1> QED BY <1>1, <1>2

LEMMA CaptureSafe ==
    ASSUME WindowsInv, NEW k \in Windows!Routes, Windows!Capture(k)
    PROVE  /\ WindowsInv' /\ Windows!Held' = Windows!Held \cup {k}
           /\ DOMAIN wentries' = DOMAIN wentries \cup {k}
<1> DEFINE old == wlease["candidate"]
           g == wlease["candidate"].tun
           new == wlease'["candidate"]
<1>1. /\ wmain = "capture" /\ k \in Windows!Captures(g) \ old.captures
      /\ Windows!CanAcquire(k) /\ Windows!Register(k) /\ UNCHANGED <<wtun, wtuns, wcalls>>
      /\ wlease' = [wlease EXCEPT !["candidate"].captures = @ \cup {k}]
      /\ wmain' = IF new.captures = Windows!Captures(g) THEN "default" ELSE "capture"
    BY DEF Windows!Capture
<1>2. /\ old \in LeaseType /\ old.defaults = {} /\ old.watcher = "none"
      /\ old.captures \subseteq Windows!Captures(g)
    BY <1>1 DEF WindowsInv, Windows!TypeOK, CandidateInv, LeaseType, Windows!Slots
<1>3. new = [old EXCEPT !.captures = @ \cup {k}] /\ wlease'["current"] = wlease["current"]
    BY <1>1 DEF WindowsInv, Windows!TypeOK, Windows!Slots
<1>4. /\ new.captures = old.captures \cup {k} /\ new.tun = g /\ new.defaults = {} /\ new.watcher = "none"
      /\ new \in LeaseType
    BY <1>2, <1>3 DEF LeaseType
<1>5. g # 0
    BY <1>1 DEF WindowsInv, CandidateInv
<1>6. wlease' \in [Windows!Slots -> LeaseType]
    BY <1>1, <1>3, <1>4 DEF WindowsInv, Windows!TypeOK, LeaseType, Windows!Slots
<1> HIDE DEF new, old, g
<1>7. Windows!Held' = Windows!Held \cup {k}
    BY <1>2, <1>3, <1>4, HeldIs DEF new, old
<1>8. Windows!TypeOK'
    BY <1>1, <1>6, <1>7, Registered DEF WindowsInv, Windows!TypeOK, LeaseType
<1>9. CandidateInv'
    <2>1. \A s \in Windows!Slots : s = "current" \/ s = "candidate"
        BY DEF Windows!Slots
    <2> QED BY <1>1, <1>2, <1>3, <1>4, <1>5, <2>1
            DEF WindowsInv, CandidateInv, Windows!DefaultIsCovered, new, old, g, Windows!Slots
<1> QED BY <1>1, <1>7, <1>8, <1>9, Registered DEF WindowsInv

LEMMA AddDefaultSafe ==
    ASSUME WindowsInv, Windows!AddDefault
    PROVE  /\ WindowsInv' /\ Windows!Held' = Windows!Held \cup {Windows!Default}
           /\ DOMAIN wentries' = DOMAIN wentries \cup {Windows!Default}
<1> DEFINE old == wlease["candidate"]
           new == wlease'["candidate"]
<1>1. /\ wmain = "default" /\ wmain' = "apply" /\ UNCHANGED <<wtun, wtuns, wcalls>>
      /\ Windows!CanAcquire(Windows!Default) /\ Windows!Register(Windows!Default)
      /\ wlease' = [wlease EXCEPT !["candidate"].defaults = {Windows!Default},
                                  !["candidate"].watcher = "watching"]
    BY DEF Windows!AddDefault
<1>2. old \in LeaseType /\ old.captures = Windows!Captures(old.tun) /\ old.defaults = {}
    BY <1>1 DEF WindowsInv, Windows!TypeOK, CandidateInv, LeaseType, Windows!Slots
<1>3. /\ new = [[old EXCEPT !.defaults = {Windows!Default}] EXCEPT !.watcher = "watching"]
      /\ wlease'["current"] = wlease["current"]
    BY <1>1 DEF WindowsInv, Windows!TypeOK, Windows!Slots
<1>4. /\ new.captures = old.captures /\ new.tun = old.tun /\ new.defaults = {Windows!Default}
      /\ new.watcher = "watching" /\ new \in LeaseType
    BY <1>2, <1>3 DEF LeaseType
<1>5. wlease' \in [Windows!Slots -> LeaseType]
    BY <1>1, <1>3, <1>4 DEF WindowsInv, Windows!TypeOK, LeaseType, Windows!Slots
<1>6. Windows!Default \in Windows!Routes
    BY DEF Windows!Routes
<1> HIDE DEF new, old
<1>7. Windows!Held' = Windows!Held \cup {Windows!Default}
    BY <1>2, <1>3, <1>4, HeldIs DEF new, old
<1>8. Windows!TypeOK'
    BY <1>1, <1>5, <1>6, <1>7, Registered DEF WindowsInv, Windows!TypeOK, LeaseType
<1>9. CandidateInv'
    <2>1. \A s \in Windows!Slots : s = "current" \/ s = "candidate"
        BY DEF Windows!Slots
    <2> QED BY <1>1, <1>2, <1>3, <1>4, <2>1
            DEF WindowsInv, CandidateInv, Windows!DefaultIsCovered, new, old, Windows!Slots
<1> QED BY <1>1, <1>6, <1>7, <1>8, <1>9, Registered DEF WindowsInv

LEMMA AcceptSafe ==
    ASSUME WindowsInv, Windows!Accept \/ Windows!Reset \/ Windows!PrepareFails
    PROVE  WindowsInv' /\ Windows!Held' \subseteq Windows!Held
<1>1. /\ UNCHANGED <<wtun, wtuns, wos, wentries>> /\ wmain' = "drop"
      /\ wcalls' \in 0 .. MaxCalls
    BY BoundsAreNumbers
    DEF WindowsInv, Windows!TypeOK, Windows!Accept, Windows!Reset, Windows!PrepareFails, Windows!Call
<1>2. Windows!Empty \in LeaseType /\ Windows!Empty.captures = {} /\ Windows!Empty.defaults = {}
      /\ Windows!Empty.watcher = "none" /\ Windows!Empty.tun = 0
    BY BoundsAreNumbers DEF Windows!Empty, LeaseType
<1>3. /\ wlease' \in [Windows!Slots -> LeaseType]
      /\ \/ wlease' = wlease
         \/ /\ wlease'["candidate"] = wlease["current"]
            /\ wlease'["current"] \in {wlease["candidate"], Windows!Empty}
    BY <1>2 DEF WindowsInv, Windows!TypeOK, Windows!Slots, LeaseType,
                Windows!Accept, Windows!Reset, Windows!PrepareFails
<1>4. Windows!TypeOK'
    BY <1>1, <1>3 DEF WindowsInv, Windows!TypeOK, LeaseType
<1>5. Windows!Held' \subseteq Windows!Held
    BY <1>2, <1>3, HeldIs
<1>6. CandidateInv'
    <2>1. \A s \in Windows!Slots : s = "current" \/ s = "candidate"
        BY DEF Windows!Slots
    <2>2. wtuns \in Nat
        BY BoundsAreNumbers DEF WindowsInv, Windows!TypeOK
    <2> QED BY <1>1, <1>2, <1>3, <2>1, <2>2
            DEF WindowsInv, CandidateInv, Windows!DefaultIsCovered, Windows!Slots
<1> QED BY <1>1, <1>4, <1>5, <1>6, LessHeld DEF WindowsInv

\* A lease gives up what it holds, or a part.
Less(s) ==
    /\ wlease' \in [Windows!Slots -> LeaseType]
    /\ \A r \in Windows!Slots \ {s} : wlease'[r] = wlease[r]
    /\ \/ wlease'[s].tun = wlease[s].tun /\ wlease'[s].captures = wlease[s].captures
       \/ wlease'[s].captures = {} /\ wlease'[s].tun \in {0, wlease[s].tun}
    /\ wlease'[s].defaults = {}

LEMMA LessSafe ==
    ASSUME WindowsInv, NEW s \in Windows!Slots, Less(s), UNCHANGED <<wtun, wtuns, wos, wentries, wcalls>>,
           wmain' = wmain \/ wmain' \in {"release", "idle"},
           wmain \in {"capture", "default"} => s # "candidate" \/ wmain' # wmain
    PROVE  WindowsInv' /\ Windows!Held' \subseteq Windows!Held
<1>1. Windows!TypeOK'
    BY DEF WindowsInv, Windows!TypeOK, Less, LeaseType
<1>2. Windows!Held' \subseteq Windows!Held
    BY HeldIs DEF Less, Windows!Slots
<1>3. CandidateInv'
    <2>1. \A r \in Windows!Slots : r = "current" \/ r = "candidate"
        BY DEF Windows!Slots
    <2>2. wtuns \in Nat /\ "candidate" \in Windows!Slots /\ "current" \in Windows!Slots
        BY BoundsAreNumbers DEF WindowsInv, Windows!TypeOK, Windows!Slots
    <2> QED BY <2>1, <2>2 DEF WindowsInv, CandidateInv, Windows!DefaultIsCovered, Less
<1> QED BY <1>1, <1>2, <1>3, LessHeld DEF WindowsInv

LEMMA GiveUpSafe ==
    ASSUME WindowsInv, \/ Windows!Join \/ Windows!Release
                       \/ \E s \in Windows!Slots : Windows!Watcher(s)
    PROVE  WindowsInv' /\ Windows!Held' \subseteq Windows!Held
<1>1. CASE Windows!Join
    <2>1. Less("candidate")
        BY <1>1 DEF WindowsInv, Windows!TypeOK, Windows!Join, Less, LeaseType, Windows!Slots
    <2> QED BY <1>1, <2>1, LessSafe DEF Windows!Join, Windows!Slots
<1>2. CASE Windows!Release
    <2>1. Windows!Empty \in LeaseType /\ Windows!Empty.captures = {} /\ Windows!Empty.defaults = {}
          /\ Windows!Empty.tun = 0
        BY BoundsAreNumbers DEF Windows!Empty, LeaseType
    <2>2. Less("candidate")
        BY <1>2, <2>1 DEF WindowsInv, Windows!TypeOK, Windows!Release, Less, LeaseType, Windows!Slots
    <2> QED BY <1>2, <2>2, LessSafe DEF Windows!Release, Windows!Slots
<1>3. ASSUME NEW s \in Windows!Slots, Windows!Watcher(s)
      PROVE  WindowsInv' /\ Windows!Held' \subseteq Windows!Held
    <2>1. Less(s)
        BY <1>3 DEF WindowsInv, Windows!TypeOK, CandidateInv, Windows!Watcher, Windows!Notice,
                    Windows!Clear, Less, LeaseType, Windows!Slots
    <2>2. wmain \in {"capture", "default"} => s # "candidate"
        BY <1>3 DEF WindowsInv, CandidateInv, Windows!Watcher, Windows!Notice, Windows!Clear
    <2> QED BY <1>3, <2>1, <2>2, LessSafe DEF Windows!Watcher, Windows!Notice, Windows!Clear
<1> QED BY <1>1, <1>2, <1>3

LEMMA SystemSafe ==
    ASSUME WindowsInv, \/ Windows!TunAppears \/ Windows!TunVanishes
                       \/ \E k \in Windows!Routes : Windows!ForeignRoute(k)
    PROVE  WindowsInv' /\ Windows!Held' = Windows!Held /\ DOMAIN wentries' = DOMAIN wentries
<1>1. UNCHANGED <<wlease, wentries, wmain>> /\ wcalls' \in 0 .. MaxCalls
    BY BoundsAreNumbers DEF WindowsInv, Windows!TypeOK, Windows!TunAppears, Windows!TunVanishes,
                            Windows!ForeignRoute, Windows!Call
<1>2. Windows!Held' = Windows!Held
    BY <1>1, HeldIs
<1>3. Windows!Held \subseteq Windows!Routes
    BY DEF WindowsInv, Windows!TypeOK, EntryInv
<1>4. CASE Windows!TunAppears
    <2>1. wtun' = wtuns + 1 /\ wtuns' = wtuns + 1 /\ wtuns' \in 1 .. MaxTuns /\ wos' = wos /\ wcalls' = wcalls
        BY <1>4, BoundsAreNumbers DEF WindowsInv, Windows!TypeOK, Windows!TunAppears
    <2>2. Windows!TypeOK' /\ CandidateInv'
        BY <1>1, <2>1, BoundsAreNumbers
        DEF WindowsInv, Windows!TypeOK, CandidateInv, Windows!DefaultIsCovered, LeaseType
    <2>3. ASSUME NEW k \in Windows!Held, k # Windows!Default PROVE k \notin Windows!Captures(wtun')
        <3>1. PICK s \in Windows!Slots : k \in wlease[s].captures
            BY <2>3, HeldIs DEF Windows!Held, Windows!Holds, WindowsInv, Windows!TypeOK
        <3>2. k \in Windows!Captures(wlease[s].tun) /\ wlease[s].tun \in 1 .. MaxTuns
              /\ wlease[s].tun <= wtuns
            BY <3>1, BoundsAreNumbers DEF WindowsInv, CandidateInv, Windows!TypeOK
        <3>3. wlease[s].tun # wtun'
            BY <2>1, <3>2, BoundsAreNumbers DEF WindowsInv, Windows!TypeOK
        <3> QED BY <3>2, <3>3, CapturesDiffer
    <2>4. EntryInv'
        BY <1>1, <1>2, <2>1, <2>3 DEF WindowsInv, EntryInv, Windows!LeasedIsInstalled
    <2> QED BY <1>1, <1>2, <2>2, <2>4 DEF WindowsInv
<1>5. CASE Windows!TunVanishes
    <2>1. /\ wtun # 0 /\ wtun' = 0 /\ UNCHANGED <<wtuns, wcalls>>
          /\ wos' = [k \in Windows!Routes |-> IF k \in Windows!Captures(wtun) THEN "absent" ELSE wos[k]]
        BY <1>5 DEF Windows!TunVanishes
    <2>2. Windows!TypeOK' /\ CandidateInv'
        BY <1>1, <2>1, BoundsAreNumbers
        DEF WindowsInv, Windows!TypeOK, CandidateInv, Windows!DefaultIsCovered, LeaseType
    <2>3. \A k \in Windows!Routes : k # Windows!Default => k \notin Windows!Captures(0)
        BY RoutesAre, CapturesDiffer
    <2>4. wtun \in 1 .. MaxTuns
        BY <2>1 DEF WindowsInv, Windows!TypeOK
    <2>5. Windows!Default \notin Windows!Captures(wtun)
        BY <2>4, CapturesDiffer
    <2>6. EntryInv'
        BY <1>1, <1>2, <1>3, <2>1, <2>3, <2>5
        DEF WindowsInv, EntryInv, Windows!LeasedIsInstalled, Windows!TypeOK
    <2> QED BY <1>1, <1>2, <2>2, <2>6 DEF WindowsInv
<1>6. ASSUME NEW k \in Windows!Routes, Windows!ForeignRoute(k) PROVE WindowsInv'
    <2>1. /\ wos' = [wos EXCEPT ![k] = "foreign"] /\ k \notin DOMAIN wentries
          /\ UNCHANGED <<wtun, wtuns>>
        BY <1>6 DEF Windows!ForeignRoute
    <2>2. Windows!TypeOK' /\ CandidateInv'
        BY <1>1, <2>1 DEF WindowsInv, Windows!TypeOK, CandidateInv, Windows!DefaultIsCovered, LeaseType
    <2>3. EntryInv'
        BY <1>1, <1>2, <1>3, <2>1 DEF WindowsInv, EntryInv, Windows!LeasedIsInstalled, Windows!TypeOK
    <2> QED BY <2>2, <2>3 DEF WindowsInv
<1> QED BY <1>1, <1>2, <1>4, <1>5, <1>6

LEMMA DeleteSafe ==
    ASSUME WindowsInv, NEW k \in Windows!Routes, Windows!Delete(k)
    PROVE  /\ WindowsInv' /\ Windows!Held' = Windows!Held /\ k \notin Windows!Held
           /\ DOMAIN wentries' = DOMAIN wentries \ {k}
<1>1. /\ k \in DOMAIN wentries /\ k \notin Windows!Held /\ UNCHANGED <<wtun, wtuns, wlease, wmain, wcalls>>
      /\ wos' = [wos EXCEPT ![k] = IF wentries[k] THEN "absent" ELSE @]
      /\ wentries' = [j \in DOMAIN wentries \ {k} |-> wentries[j]]
    BY DEF Windows!Delete, Windows!Expired
<1>2. Windows!Held' = Windows!Held
    BY <1>1, HeldIs
<1>3. Windows!TypeOK' /\ CandidateInv'
    BY <1>1 DEF WindowsInv, Windows!TypeOK, CandidateInv, Windows!DefaultIsCovered, LeaseType
<1>4. EntryInv'
    BY <1>1, <1>2 DEF WindowsInv, EntryInv, Windows!LeasedIsInstalled, Windows!TypeOK
<1> QED BY <1>1, <1>2, <1>3, <1>4 DEF WindowsInv

LEMMA WindowsStep == WindowsInv /\ Windows!Next => WindowsInv'
BY PrepareSafe, CaptureSafe, AddDefaultSafe, AcceptSafe, GiveUpSafe, SystemSafe, DeleteSafe
DEF Windows!Next, Windows!Main

LEMMA WindowsStutter == WindowsInv /\ UNCHANGED windows => WindowsInv'
<1> SUFFICES ASSUME WindowsInv, UNCHANGED windows PROVE WindowsInv'
    OBVIOUS
<1>1. UNCHANGED <<wtun, wtuns, wos, wentries, wlease, wmain, wcalls>>
    BY DEF windows
<1>2. Windows!Held' = Windows!Held
    BY <1>1, HeldIs
<1>3. Windows!TypeOK' /\ CandidateInv'
    BY <1>1 DEF WindowsInv, Windows!TypeOK, CandidateInv, Windows!DefaultIsCovered
<1> QED BY <1>1, <1>2, <1>3, LessHeld DEF WindowsInv

LEMMA WindowsInit == Windows!Init => WindowsInv
<1> SUFFICES ASSUME Windows!Init PROVE WindowsInv
    OBVIOUS
<1>1. Windows!Empty \in LeaseType /\ Windows!Empty.captures = {} /\ Windows!Empty.defaults = {}
      /\ Windows!Empty.watcher = "none" /\ Windows!Empty.tun = 0
    BY BoundsAreNumbers DEF Windows!Empty, LeaseType
<1>2. DOMAIN wentries = {} /\ \A s \in Windows!Slots : wlease[s] = Windows!Empty
    BY DEF Windows!Init
<1>3. Windows!TypeOK
    BY <1>1, <1>2, BoundsAreNumbers DEF Windows!Init, Windows!TypeOK, LeaseType
<1>4. Windows!Held = {}
    BY <1>1, <1>2, HeldIs DEF Windows!Slots
<1>5. CandidateInv
    BY <1>1, <1>2 DEF Windows!Init, CandidateInv, Windows!DefaultIsCovered
<1> QED BY <1>2, <1>3, <1>4, <1>5 DEF WindowsInv, EntryInv, Windows!LeasedIsInstalled

LEMMA ForeignIsKept ==
    ASSUME WindowsInv, Windows!Next, NEW k \in Windows!Routes, wos[k] = "foreign"
    PROVE  wos'[k] = "foreign" \/ wtun' # wtun
<1>1. CASE wos' = wos
    BY <1>1
<1>2. ASSUME NEW j \in Windows!Routes, Windows!Register(j) PROVE wos'[k] = "foreign"
    BY <1>2 DEF WindowsInv, Windows!TypeOK, Windows!Register
<1>3. ASSUME NEW j \in Windows!Routes, Windows!Delete(j) PROVE wos'[k] = "foreign"
    BY <1>3 DEF WindowsInv, Windows!TypeOK, EntryInv, Windows!Delete, Windows!Expired
<1>4. ASSUME NEW j \in Windows!Routes, Windows!ForeignRoute(j) PROVE wos'[k] = "foreign"
    BY <1>4 DEF WindowsInv, Windows!TypeOK, Windows!ForeignRoute
<1>5. Windows!TunVanishes => wtun' # wtun
    BY DEF Windows!TunVanishes
<1>6. Windows!Default \in Windows!Routes
    BY DEF Windows!Routes
<1> QED
    BY <1>1, <1>2, <1>3, <1>4, <1>5, <1>6
    DEF Windows!Next, Windows!Main, Windows!Watcher, Windows!Prepare, Windows!Capture, Windows!AddDefault,
        Windows!PrepareFails, Windows!Accept, Windows!Reset, Windows!Join, Windows!Release,
        Windows!Notice, Windows!Clear, Windows!TunAppears

----------------------------------------------------------------------------
LEMMA WindowsImplements == WindowsInv /\ Windows!Next => Windows!Contract!Next
<1> SUFFICES ASSUME WindowsInv, Windows!Next PROVE Windows!Contract!Next
    OBVIOUS
<1> DEFINE G == {"service"} \X Windows!Held
<1>1. CASE Windows!Held' \subseteq Windows!Held /\ DOMAIN wentries' = DOMAIN wentries
    <2> DEFINE gone == G \ G'
    <2>1. gone \in SUBSET G /\ G' = G \ gone
        BY <1>1
    <2> QED BY <1>1, <2>1 DEF Windows!Contract!Next, Windows!Contract!Drop
<1>2. ASSUME NEW k \in Windows!Routes, Windows!Held' = Windows!Held \cup {k},
             DOMAIN wentries' = DOMAIN wentries \cup {k}
      PROVE  Windows!Contract!Next
    <2>1. G' = G \cup {<<"service", k>>}
        BY <1>2
    <2> QED BY <1>2, <2>1 DEF Windows!Contract!Next, Windows!Contract!Grant
<1>3. ASSUME NEW k \in Windows!Routes, Windows!Held' = Windows!Held, k \notin Windows!Held,
             DOMAIN wentries' = DOMAIN wentries \ {k}
      PROVE  Windows!Contract!Next
    <2>1. G' = G /\ <<"service", k>> \notin G
        BY <1>3
    <2> QED BY <1>3, <2>1 DEF Windows!Contract!Next, Windows!Contract!Uninstall
<1>4. CASE \/ Windows!Prepare \/ Windows!PrepareFails \/ Windows!Accept \/ Windows!Reset \/ Windows!Join
           \/ Windows!Release \/ \E s \in Windows!Slots : Windows!Watcher(s)
    <2>1. wentries' = wentries
        BY <1>4 DEF Windows!Prepare, Windows!PrepareFails, Windows!Accept, Windows!Reset, Windows!Join,
                    Windows!Release, Windows!Watcher, Windows!Notice, Windows!Clear
    <2> QED BY <1>1, <1>4, <2>1, PrepareSafe, AcceptSafe, GiveUpSafe
<1>5. Windows!Default \in Windows!Routes
    BY DEF Windows!Routes
<1>6. CASE Windows!AddDefault \/ \E k \in Windows!Routes : Windows!Capture(k)
    BY <1>2, <1>5, <1>6, CaptureSafe, AddDefaultSafe
<1>7. CASE \/ Windows!TunAppears \/ Windows!TunVanishes
           \/ \E k \in Windows!Routes : Windows!ForeignRoute(k)
    BY <1>1, <1>7, SystemSafe
<1>8. CASE \E k \in Windows!Routes : Windows!Delete(k)
    BY <1>3, <1>8, DeleteSafe
<1> QED BY <1>4, <1>6, <1>7, <1>8 DEF Windows!Next, Windows!Main

LEMMA WindowsContractInit == Windows!Init => Windows!Contract!Init
<1> SUFFICES ASSUME Windows!Init PROVE Windows!Contract!Init
    OBVIOUS
<1>1. DOMAIN wentries = {} /\ Windows!Held = {}
    BY WindowsInit DEF WindowsInv, EntryInv, Windows!Init
<1> QED BY <1>1 DEF Windows!Contract!Init

(***************************************************************************)
(* The sessions.                                                           *)
(***************************************************************************)

OpType ==
    [kind : {"none", "connect", "disconnect", "forget", "refresh", "undo", "stop", "exit"},
     id : Ids \cup {None},
     at : {"idle", "check", "block", "halt", "release", "evidence", "drop", "dial", "undial",
           "routes", "publish", "resume", "next", "gone"},
     was : BOOLEAN, rest : SUBSET Ids]

\* An operation that is under way is about a connection; the steps each kind takes.
OpInv ==
    /\ op \in OpType
    /\ op.at \notin {"idle", "next", "gone"} => op.id \in Ids
    /\ op.at \in {"next", "gone"} => op.kind \in {"stop", "exit"}
    /\ op.kind = "exit" => op.at \in {"next", "drop", "gone"}
    /\ op.kind = "refresh" => op.at \in {"block", "halt", "drop"}

\* What the store believes of its kernel.
BeliefInv ==
    /\ ~core => plan = {}
    /\ belief = "stopped" => ~core
    /\ belief = "running" => core /\ plan \subseteq Session!Connected
    /\ op.kind \in {"stop", "exit"} => belief # "running"

\* From the withdrawal on, a running plan does not refer to the connection.
PlanInv ==
    op.at \in {"release", "evidence", "drop", "dial", "undial", "routes"} /\ belief = "running" =>
        op.id \notin plan

\* An engine is forgotten only with its session over, and a session is alive without one
\* only within a dial or after two lost answers.
EngineInv ==
    op.kind # "exit" =>
        /\ op.kind = "refresh" => op.id \in Ids /\ sess[op.id] # "alive"
        /\ op.at = "drop" /\ engine[op.id] => sess[op.id] # "alive"
        /\ \A i \in Ids : sess[i] = "alive" /\ ~engine[i] =>
               i \in leaked \/ (op.id = i /\ op.at \in {"routes", "undial"})

SessionInv == Session!TypeOK /\ OpInv /\ BeliefInv /\ PlanInv /\ EngineInv

Conns == {"absent", "idle", "connecting", "connected", "failed"}
Sessions == {"absent", "alive", "dead", "lingering"}

\* What an operation may be after a step: moved to another step, or over.
Moved(s) ==
    /\ op' \in OpType /\ op'.at = s
    /\ op'.kind = op.kind /\ op'.id = op.id /\ op'.was = op.was /\ op'.rest = op.rest
Over == op' \in OpType /\ op'.at = "idle" /\ op'.kind = "none"

LEMMA ToMoves ==
    ASSUME op \in OpType, NEW s \in {"idle", "check", "block", "halt", "release", "evidence", "drop",
               "dial", "undial", "routes", "publish", "resume", "next", "gone"}, Session!To(s)
    PROVE  Moved(s) /\ ops' = ops
BY DEF Session!To, Moved, OpType

LEMMA DoneIsOver == Session!Done => Over /\ ops' = ops
BY DEF Session!Done, Session!Idle, Over, OpType

\* One entry of a table of connections or sessions changes.
OneEntry(f, i, S) == f' \in [Ids -> S] /\ \A j \in Ids \ {i} : f'[j] = f[j]

LEMMA StopIs ==
    ASSUME SessionInv, NEW i \in Ids, NEW ok \in BOOLEAN, Session!StopRequest(i, ok)
    PROVE  /\ sess' \in [Ids -> Sessions] /\ \A j \in Ids \ {i} : sess'[j] = sess[j]
           /\ sess'[i] = "alive" => sess[i] = "alive"
<1>1. sess \in [Ids -> Sessions]
    BY DEF SessionInv, Session!TypeOK, Sessions
<1>2. PICK r \in Session!StopResults(i) : sess' = [sess EXCEPT ![i] = r[1]] /\ ok = r[2]
    BY DEF Session!StopRequest
<1>3. r[1] \in {"absent", "lingering", "dead", sess[i]}
    <2>1. \A e \in Session!StopEffects(i) : e[1] \in {"absent", "lingering", "dead", sess[i]}
        <3> SUFFICES ASSUME NEW e \in Session!StopEffects(i)
                     PROVE  e[1] \in {"absent", "lingering", "dead", sess[i]}
            OBVIOUS
        <3>1. e \in {<<sess[i], TRUE>>, <<"absent", TRUE>>, <<"lingering", FALSE>>,
                     <<sess[i], FALSE>>, <<"dead", FALSE>>}
            BY DEF Session!StopEffects, Session!LinuxStops, Session!WindowsStops
        <3>2. \/ e = <<sess[i], TRUE>> \/ e = <<"absent", TRUE>> \/ e = <<"lingering", FALSE>>
              \/ e = <<sess[i], FALSE>> \/ e = <<"dead", FALSE>>
            BY <3>1
        <3>3. \A a, b : <<a, b>>[1] = a
            OBVIOUS
        <3>4. e[1] = sess[i] \/ e[1] = "absent" \/ e[1] = "lingering" \/ e[1] = "dead"
            BY <3>2, <3>3, Zenon
        <3> QED BY <3>4
    <2>2. \/ r \in Session!StopEffects(i)
          \/ \E e \in Session!StopEffects(i) : r = <<e[1], FALSE>>
          \/ r = <<sess[i], FALSE>>
        BY <1>2 DEF Session!StopResults
    <2>3. ASSUME NEW e \in Session!StopEffects(i), r = <<e[1], FALSE>> PROVE r[1] = e[1]
        BY <2>3
    <2>4. r = <<sess[i], FALSE>> => r[1] = sess[i]
        OBVIOUS
    <2> QED BY <2>1, <2>2, <2>3, <2>4
<1>4. r[1] \in Sessions
    BY <1>1, <1>3 DEF Sessions
<1> QED BY <1>1, <1>2, <1>3, <1>4

LEMMA DialIs ==
    ASSUME SessionInv, NEW i \in Ids, NEW r \in Session!DialEffects(i), sess' = [sess EXCEPT ![i] = r[1]]
    PROVE  sess' \in [Ids -> Sessions] /\ \A j \in Ids \ {i} : sess'[j] = sess[j]
<1>1. sess \in [Ids -> Sessions]
    BY DEF SessionInv, Session!TypeOK, Sessions
<1>2. r[1] \in Sessions
    <2> DEFINE dials == IF platform = "linux" THEN Session!LinuxDials(i) ELSE Session!WindowsDials(i)
    <2>1. \A d \in dials : d[1] \in Sessions
        <3> SUFFICES ASSUME NEW d \in dials PROVE d[1] \in Sessions
            OBVIOUS
        <3>1. d \in {<<sess[i], FALSE>>, <<"lingering", FALSE>>, <<"alive", TRUE>>}
            BY DEF Session!LinuxDials, Session!WindowsDials
        <3>2. d = <<sess[i], FALSE>> \/ d = <<"lingering", FALSE>> \/ d = <<"alive", TRUE>>
            BY <3>1
        <3>3. \A a, b : <<a, b>>[1] = a
            OBVIOUS
        <3>4. d[1] = sess[i] \/ d[1] = "lingering" \/ d[1] = "alive"
            BY <3>2, <3>3, Zenon
        <3> QED BY <1>1, <3>4 DEF Sessions
    <2>2. r \in dials \/ \E d \in dials : r = <<d[1], FALSE>>
        BY DEF Session!DialEffects
    <2> HIDE DEF dials
    <2>3. ASSUME NEW d \in dials, r = <<d[1], FALSE>> PROVE r[1] = d[1]
        BY <2>3
    <2> QED BY <2>1, <2>2, <2>3
<1> QED BY <1>1, <1>2

LEMMA GoneIs ==
    ASSUME NEW i, "gone" \in Session!Evidence(i) PROVE sess[i] # "alive"
BY DEF Session!Evidence, Session!LinuxEvidence, Session!WindowsEvidence

\* The kernel after a publication, and after a stop.
LEMMA PublishedIs ==
    ASSUME BeliefInv, plan \subseteq Ids, NEW to \in SUBSET Ids, NEW ok \in BOOLEAN, Session!Published(to, ok),
           belief \in {"running", "stopped", "failed"}, core \in BOOLEAN
    PROVE  /\ core' \in BOOLEAN /\ belief' \in {"running", "stopped", "failed"} /\ plan' \subseteq Ids
           /\ ~core' => plan' = {}
           /\ belief' = "stopped" => ~core'
           /\ belief' = "running" => belief = "running" /\ core' /\ plan' = IF ok THEN to ELSE plan
<1>1. CASE Session!Kernel /\ (~ok \/ belief # "running")
    BY <1>1 DEF BeliefInv, Session!Kernel
<1>2. CASE belief = "running" /\ core /\ plan' = to /\ ok /\ UNCHANGED <<core, belief>>
    BY <1>2 DEF BeliefInv
<1>3. CASE core' = FALSE /\ belief' = "failed" /\ plan' = {}
    BY <1>3
<1>4. CASE belief' = "failed" /\ UNCHANGED <<core, plan>>
    BY <1>4 DEF BeliefInv
<1> QED BY <1>1, <1>2, <1>3, <1>4 DEF Session!Published

LEMMA StopsIs ==
    ASSUME BeliefInv, plan \subseteq Ids, Session!StopsCore, core \in BOOLEAN
    PROVE  /\ core' \in BOOLEAN /\ belief' \in {"stopped", "failed"} /\ plan' \subseteq Ids
           /\ ~core' => plan' = {}
           /\ belief' = "stopped" => ~core'
BY DEF BeliefInv, Session!StopsCore

LEMMA IdleIs == op = Session!Idle => op.kind = "none" /\ op.at = "idle"
BY DEF Session!Idle

LEMMA BeginIs ==
    ASSUME NEW kind \in {"connect", "disconnect", "forget", "refresh", "stop", "exit"},
           NEW i \in Ids \cup {None}, NEW at_ \in {"check", "block", "next"}, Session!Begin(kind, i, at_)
    PROVE  /\ op' \in OpType /\ op'.kind = kind /\ op'.id = i /\ op'.at = at_
           /\ op.kind = "none" /\ op.at = "idle"
BY DEF Session!Begin, Session!Idle, OpType

\* A step of the operation alone.
LEMMA OnlyOp ==
    ASSUME SessionInv, UNCHANGED <<platform, conn, engine, core, belief, plan, sess, leaked, faults>>,
           OpInv', ops' \in 0 .. MaxOps, PlanInv', EngineInv',
           op'.kind \in {"stop", "exit"} => belief # "running"
    PROVE  SessionInv'
<1>1. Session!TypeOK'
    BY DEF SessionInv, Session!TypeOK, OpInv, OpType
<1>2. BeliefInv'
    BY DEF SessionInv, BeliefInv, Session!Connected
<1> QED BY <1>1, <1>2 DEF SessionInv

LEMMA ConnectSafe ==
    ASSUME SessionInv, NEW i \in Ids, Session!Connect(i) \/ Session!Disconnect(i) \/ Session!Refresh(i)
    PROVE  SessionInv'
<1>1. UNCHANGED <<platform, conn, engine, core, belief, plan, sess, leaked, faults>>
    BY DEF Session!Connect, Session!Disconnect, Session!Refresh, Session!Kernel, Session!Service
<1>2. ops' \in 0 .. MaxOps
    BY BoundsAreNumbers
    DEF SessionInv, Session!TypeOK, Session!Connect, Session!Disconnect, Session!Refresh
<1>3. /\ op' \in OpType /\ op'.id = i /\ op'.at \in {"check", "block"}
      /\ op'.kind \in {"connect", "disconnect", "forget", "refresh"}
      /\ op'.kind = "refresh" => sess[i] # "alive" /\ op'.at = "block"
      /\ op.kind = "none" /\ op.at = "idle"
    <2>1. CASE Session!Connect(i)
        BY <2>1, BeginIs DEF Session!Connect
    <2>2. CASE Session!Disconnect(i)
        BY <2>2, BeginIs DEF Session!Disconnect
    <2>3. CASE Session!Refresh(i)
        BY <2>3, BeginIs, GoneIs DEF Session!Refresh
    <2> QED BY <2>1, <2>2, <2>3
<1>4. OpInv' /\ PlanInv' /\ EngineInv'
    BY <1>1, <1>3 DEF SessionInv, OpInv, PlanInv, EngineInv
<1> QED BY <1>1, <1>2, <1>3, <1>4, OnlyOp

\* What a step of the operation under way finds.
LEMMA Under ==
    ASSUME SessionInv
    PROVE  /\ conn \in [Ids -> Conns] /\ engine \in [Ids -> BOOLEAN] /\ sess \in [Ids -> Sessions]
           /\ op \in OpType /\ leaked \subseteq Ids /\ plan \subseteq Ids /\ core \in BOOLEAN
           /\ belief \in {"running", "stopped", "failed"}
           /\ ops \in 0 .. MaxOps /\ faults \in 0 .. MaxFaults /\ platform \in {"linux", "windows"}
           /\ op.at \notin {"idle", "next", "gone"} => op.id \in Ids
           /\ Session!Connected \subseteq Ids
BY DEF SessionInv, OpInv, Session!TypeOK, Conns, Sessions, Session!Connected

\* The type invariant from the parts.
LEMMA TypesAre ==
    ASSUME conn' \in [Ids -> Conns], engine' \in [Ids -> BOOLEAN], sess' \in [Ids -> Sessions],
           op' \in OpType, leaked' \subseteq Ids, plan' \subseteq Ids, core' \in BOOLEAN,
           belief' \in {"running", "stopped", "failed"}, ops' \in 0 .. MaxOps, faults' \in 0 .. MaxFaults,
           platform' \in {"linux", "windows"}
    PROVE  Session!TypeOK'
BY DEF Session!TypeOK, OpType, Conns, Sessions

LEMMA CheckSafe == ASSUME SessionInv, Session!Check PROVE SessionInv'
<1>1. /\ UNCHANGED <<platform, conn, engine, core, belief, plan, sess, leaked, faults>>
      /\ op.at = "check" /\ (Session!To("block") \/ Session!Done)
    BY DEF Session!Check, Session!At, Session!Kernel, Session!Service
<1>2. ops' = ops /\ (Over \/ Moved("block"))
    BY <1>1, ToMoves, DoneIsOver DEF SessionInv, OpInv
<1>3. OpInv' /\ PlanInv' /\ EngineInv'
    BY <1>1, <1>2 DEF SessionInv, OpInv, PlanInv, EngineInv, Over, Moved
<1> QED BY <1>1, <1>2, <1>3, OnlyOp, Under DEF SessionInv, BeliefInv, Over, Moved

LEMMA BlockSafe == ASSUME SessionInv, Session!Block PROVE SessionInv'
<1> DEFINE next == Session!AfterBlock
<1>1. next \in {"drop", "release"} /\ (op.kind = "refresh" <=> next = "drop")
    BY DEF Session!AfterBlock
<1>2. /\ op.at = "block" /\ op.id \in Ids /\ UNCHANGED <<platform, conn, engine, sess, leaked, faults>>
      /\ Session!To(next) \/ Session!To("halt")
    BY Under DEF Session!Block, Session!At, Session!Service
<1>3. ops' = ops /\ (Moved(next) \/ Moved("halt"))
    BY <1>1, <1>2, ToMoves, Under
<1>4. /\ core' \in BOOLEAN /\ belief' \in {"running", "stopped", "failed"} /\ plan' \subseteq Ids
      /\ ~core' => plan' = {}
      /\ belief' = "stopped" => ~core'
      /\ belief' = "running" => belief = "running" /\ core' /\ plan' \subseteq Session!Connected
      /\ belief' = "running" /\ op'.at = next => op.id \notin plan'
    <2>1. CASE conn[op.id] # "connected"
        BY <1>2, <2>1, Under
        DEF Session!Block, Session!Kernel, SessionInv, BeliefInv, Session!Connected
    <2>2. ASSUME conn[op.id] = "connected", NEW ok \in BOOLEAN,
                 Session!Published(Session!Connected \ {op.id}, ok),
                 Session!To(IF ok \/ op.id \notin plan' THEN next ELSE "halt")
          PROVE  <1>4
        <3>1. /\ core' \in BOOLEAN /\ belief' \in {"running", "stopped", "failed"} /\ plan' \subseteq Ids
              /\ ~core' => plan' = {}
              /\ belief' = "stopped" => ~core'
              /\ belief' = "running" => belief = "running" /\ core'
                      /\ plan' = IF ok THEN Session!Connected \ {op.id} ELSE plan
            BY <2>2, PublishedIs, Under DEF SessionInv
        <3>2. op'.at = next => ok \/ op.id \notin plan'
            BY <1>1, <2>2, ToMoves, Under DEF Moved
        <3> QED BY <3>1, <3>2 DEF SessionInv, BeliefInv
    <2> QED BY <2>1, <2>2 DEF Session!Block
<1>5. Session!TypeOK'
    BY <1>2, <1>3, <1>4, Under, TypesAre DEF Moved
<1>6. OpInv'
    BY <1>1, <1>2, <1>3 DEF SessionInv, OpInv, Moved
<1>7. BeliefInv'
    BY <1>2, <1>3, <1>4 DEF SessionInv, BeliefInv, Session!Connected, Moved
<1>8. PlanInv'
    BY <1>1, <1>3, <1>4 DEF PlanInv, Moved
<1>9. EngineInv'
    BY <1>1, <1>2, <1>3 DEF SessionInv, OpInv, EngineInv, Moved
<1> QED BY <1>5, <1>6, <1>7, <1>8, <1>9 DEF SessionInv

LEMMA HaltSafe == ASSUME SessionInv, Session!Halt PROVE SessionInv'
<1> DEFINE next == Session!AfterBlock
<1>1. next \in {"drop", "release"} /\ (op.kind = "refresh" <=> next = "drop")
    BY DEF Session!AfterBlock
<1>2. /\ op.at = "halt" /\ op.id \in Ids /\ UNCHANGED <<platform, conn, engine, sess, leaked, faults>>
      /\ Session!To(next) \/ Session!Done
    BY Under DEF Session!Halt, Session!At, Session!Service
<1>3. ops' = ops /\ (Moved(next) \/ Over)
    BY <1>1, <1>2, ToMoves, DoneIsOver, Under
<1>4. /\ core' \in BOOLEAN /\ belief' \in {"stopped", "failed"} /\ plan' \subseteq Ids
      /\ ~core' => plan' = {}
      /\ belief' = "stopped" => ~core'
    BY Under, StopsIs DEF SessionInv, Session!Halt
<1>5. Session!TypeOK'
    BY <1>2, <1>3, <1>4, Under, TypesAre DEF Moved, Over
<1>6. OpInv'
    BY <1>1, <1>2, <1>3 DEF SessionInv, OpInv, Moved, Over
<1>7. BeliefInv' /\ PlanInv'
    BY <1>4 DEF BeliefInv, PlanInv
<1>9. EngineInv'
    BY <1>1, <1>2, <1>3 DEF SessionInv, OpInv, EngineInv, Moved, Over
<1> QED BY <1>5, <1>6, <1>7, <1>9 DEF SessionInv

\* setError: the operation is over, or the next session of a stop is taken.
LEMMA RefuseIs ==
    ASSUME SessionInv, Session!Refuse
    PROVE  UNCHANGED <<conn, engine>> /\ ops' = ops /\ ((Moved("next") /\ op.kind = "stop") \/ Over)
BY ToMoves, DoneIsOver, Under DEF Session!Refuse

LEMMA ReleaseSafe == ASSUME SessionInv, Session!Release PROVE SessionInv'
<1>1. /\ op.at = "release" /\ op.id \in Ids /\ UNCHANGED <<platform, leaked, faults, core, belief, plan>>
    BY Under DEF Session!Release, Session!At, Session!Kernel
<1>2. /\ sess' \in [Ids -> Sessions] /\ \A j \in Ids : sess'[j] = "alive" => sess[j] = "alive"
      /\ UNCHANGED <<conn, engine>> /\ ops' = ops
      /\ \/ Moved("drop") /\ ~engine[op.id]
         \/ Moved("evidence") \/ Over
         \/ Moved("next") /\ op.kind = "stop"
    <2>1. CASE ~engine[op.id]
        BY <1>1, <2>1, ToMoves, Under DEF Session!Release
    <2>2. CASE Session!StopRequest(op.id, TRUE) /\ Session!To("evidence") /\ UNCHANGED <<conn, engine>>
        BY <1>1, <2>2, ToMoves, StopIs, Under
    <2>3. CASE Session!StopRequest(op.id, FALSE) /\ Session!Refuse
        BY <1>1, <2>3, RefuseIs, StopIs, Under
    <2> QED BY <2>1, <2>2, <2>3 DEF Session!Release
<1>3. Session!TypeOK'
    BY <1>1, <1>2, Under, TypesAre DEF Moved, Over
<1>4. OpInv'
    BY <1>1, <1>2 DEF SessionInv, OpInv, Moved, Over
<1>5. BeliefInv' /\ PlanInv'
    BY <1>1, <1>2 DEF SessionInv, BeliefInv, PlanInv, Session!Connected, Moved, Over
<1>6. EngineInv'
    BY <1>1, <1>2 DEF SessionInv, OpInv, EngineInv, Moved, Over
<1> QED BY <1>3, <1>4, <1>5, <1>6 DEF SessionInv

LEMMA ConfirmSafe == ASSUME SessionInv, Session!Confirm PROVE SessionInv'
<1>1. /\ op.at = "evidence" /\ op.id \in Ids
      /\ UNCHANGED <<platform, leaked, faults, core, belief, plan, sess, conn, engine>> /\ ops' = ops
      /\ \/ Moved("drop") /\ sess[op.id] # "alive"
         \/ Moved("next") /\ op.kind = "stop"
         \/ Over
    <2>1. op.at = "evidence" /\ op.id \in Ids /\ UNCHANGED <<platform, leaked, faults, core, belief, plan, sess>>
        BY Under DEF Session!Confirm, Session!At, Session!Kernel, Session!Service
    <2>2. CASE "gone" \in Session!Evidence(op.id) /\ Session!To("drop") /\ UNCHANGED <<conn, engine>>
        BY <2>1, <2>2, ToMoves, GoneIs, Under
    <2>3. CASE Session!Refuse
        BY <2>1, <2>3, RefuseIs
    <2> QED BY <2>2, <2>3 DEF Session!Confirm
<1>2. OpInv' /\ PlanInv' /\ EngineInv'
    BY <1>1 DEF SessionInv, OpInv, PlanInv, EngineInv, Moved, Over
<1> QED BY <1>1, <1>2, OnlyOp, Under DEF SessionInv, BeliefInv, Over, Moved

LEMMA DropSafe == ASSUME SessionInv, Session!Drop PROVE SessionInv'
<1>1. /\ op.at = "drop" /\ op.id \in Ids /\ UNCHANGED <<platform, leaked, faults, core, belief, plan>>
      /\ engine' = [engine EXCEPT ![op.id] = FALSE]
    BY Under DEF Session!Drop, Session!At, Session!Kernel
<1>2. /\ sess' \in [Ids -> Sessions] /\ \A j \in Ids : sess'[j] = "alive" => sess[j] = "alive"
    <2>1. CASE engine[op.id]
        BY <1>1, <2>1, StopIs, Under DEF Session!Drop
    <2>2. CASE ~engine[op.id]
        BY <2>2, Under DEF Session!Drop
    <2> QED BY <2>1, <2>2
<1>3. engine' \in [Ids -> BOOLEAN] /\ ~engine'[op.id] /\ \A j \in Ids \ {op.id} : engine'[j] = engine[j]
    BY <1>1, Under
<1>4. /\ ops' = ops /\ conn' \in [Ids -> Conns] /\ \A j \in Ids \ {op.id} : conn'[j] = conn[j]
      /\ \/ op.kind \notin {"stop", "exit"} /\ (Over \/ (Moved("dial") /\ op.kind = "connect")
                                               \/ (Moved("resume") /\ op.kind = "undo"))
         \/ op.kind \in {"stop", "exit"} /\ Moved("next")
    <2>1. CASE op.kind = "connect"
        <3>1. conn' = [conn EXCEPT ![op.id] = "connecting"] /\ Session!To("dial")
            BY <2>1 DEF Session!Drop
        <3> QED BY <1>1, <2>1, <3>1, ToMoves, Under DEF Conns
    <2>2. CASE op.kind = "forget"
        <3>1. conn' = [conn EXCEPT ![op.id] = "absent"] /\ Session!Done
            BY <2>2 DEF Session!Drop
        <3> QED BY <1>1, <2>2, <3>1, DoneIsOver, Under DEF Conns
    <2>3. CASE op.kind \notin {"connect", "forget"}
        <3>1. /\ conn' = [conn EXCEPT ![op.id] = IF @ = "absent" THEN @ ELSE "idle"]
              /\ CASE op.kind \in {"stop", "exit"} -> Session!To("next")
                   [] op.kind = "undo" /\ op.was /\ belief # "running" -> Session!To("resume")
                   [] OTHER -> Session!Done
            BY <2>3 DEF Session!Drop
        <3>2. conn' \in [Ids -> Conns] /\ \A j \in Ids \ {op.id} : conn'[j] = conn[j]
            BY <1>1, <3>1, Under DEF Conns
        <3>3. CASE op.kind \in {"stop", "exit"}
            BY <3>1, <3>2, <3>3, ToMoves, Under
        <3>4. CASE op.kind \notin {"stop", "exit"} /\ Session!To("resume") /\ op.kind = "undo"
            BY <3>2, <3>4, ToMoves, Under
        <3>5. CASE op.kind \notin {"stop", "exit"} /\ Session!Done
            BY <3>2, <3>5, DoneIsOver
        <3> QED BY <3>1, <3>3, <3>4, <3>5
    <2> QED BY <2>1, <2>2, <2>3
<1>5. Session!TypeOK'
    BY <1>1, <1>2, <1>3, <1>4, Under, TypesAre DEF Moved, Over
<1>6. OpInv'
    BY <1>1, <1>4 DEF SessionInv, OpInv, Moved, Over
<1>7. BeliefInv'
    BY <1>1, <1>4, Under DEF SessionInv, BeliefInv, PlanInv, Session!Connected, Moved, Over
<1>8. PlanInv'
    BY <1>1, <1>4 DEF SessionInv, PlanInv, Moved, Over
<1>9. EngineInv'
    <2>1. CASE op.kind = "exit"
        BY <1>4, <2>1 DEF EngineInv, Moved
    <2>2. CASE op.kind # "exit"
        <3>1. \A i \in Ids : sess'[i] = "alive" /\ ~engine'[i] => i \in leaked'
            BY <1>1, <1>2, <1>3, <2>2 DEF SessionInv, EngineInv
        <3> QED BY <1>1, <1>4, <3>1 DEF SessionInv, OpInv, EngineInv, Moved, Over
    <2> QED BY <2>1, <2>2
<1> QED BY <1>5, <1>6, <1>7, <1>8, <1>9 DEF SessionInv

LEMMA DialSafe == ASSUME SessionInv, Session!Dial PROVE SessionInv'
<1>1. /\ op.at = "dial" /\ op.id \in Ids
      /\ UNCHANGED <<platform, leaked, faults, conn, engine, core, belief, plan>>
    BY Under DEF Session!Dial, Session!At, Session!Kernel
<1>2. PICK r \in Session!DialEffects(op.id) :
          sess' = [sess EXCEPT ![op.id] = r[1]] /\ Session!To(IF r[2] THEN "routes" ELSE "undial")
    BY DEF Session!Dial
<1>3. ops' = ops /\ (Moved("routes") \/ Moved("undial"))
    BY <1>2, ToMoves, Under
<1>4. sess' \in [Ids -> Sessions] /\ \A j \in Ids \ {op.id} : sess'[j] = sess[j]
    BY <1>1, <1>2, DialIs
<1>5. Session!TypeOK'
    BY <1>1, <1>3, <1>4, Under, TypesAre DEF Moved
<1>6. OpInv'
    BY <1>1, <1>3 DEF SessionInv, OpInv, Moved
<1>7. BeliefInv' /\ PlanInv'
    BY <1>1, <1>3 DEF SessionInv, BeliefInv, PlanInv, Session!Connected, Moved
<1>8. EngineInv'
    BY <1>1, <1>3, <1>4 DEF SessionInv, OpInv, EngineInv, Moved
<1> QED BY <1>5, <1>6, <1>7, <1>8 DEF SessionInv

LEMMA UndialSafe == ASSUME SessionInv, Session!Undial PROVE SessionInv'
<1>1. /\ op.at = "undial" /\ op.id \in Ids /\ UNCHANGED <<platform, faults, engine, core, belief, plan>>
      /\ leaked' = IF sess'[op.id] = "alive" THEN leaked \cup {op.id} ELSE leaked \ {op.id}
      /\ conn' = [conn EXCEPT ![op.id] = "failed"]
    BY Under DEF Session!Undial, Session!At, Session!Kernel
<1>2. /\ sess' \in [Ids -> Sessions] /\ \A j \in Ids \ {op.id} : sess'[j] = sess[j]
    BY <1>1, StopIs DEF Session!Undial
<1>3. ops' = ops /\ (Moved("resume") \/ Over)
    BY ToMoves, DoneIsOver, Under DEF Session!Undial
<1>4. conn' \in [Ids -> Conns] /\ \A j \in Ids \ {op.id} : conn'[j] = conn[j]
    BY <1>1, Under DEF Conns
<1>5. Session!TypeOK'
    BY <1>1, <1>2, <1>3, <1>4, Under, TypesAre DEF Moved, Over
<1>6. OpInv'
    BY <1>1, <1>3 DEF SessionInv, OpInv, Moved, Over
<1>7. BeliefInv' /\ PlanInv'
    BY <1>1, <1>3, <1>4, Under DEF SessionInv, BeliefInv, PlanInv, Session!Connected, Moved, Over
<1>8. EngineInv'
    BY <1>1, <1>2, <1>3 DEF SessionInv, OpInv, EngineInv, Moved, Over
<1> QED BY <1>5, <1>6, <1>7, <1>8 DEF SessionInv

LEMMA RoutesSafe == ASSUME SessionInv, Session!Routes PROVE SessionInv'
<1>1. /\ op.at = "routes" /\ op.id \in Ids
      /\ UNCHANGED <<platform, leaked, faults, sess, core, belief, plan>>
    BY Under DEF Session!Routes, Session!At, Session!Kernel, Session!Service
<1>2. /\ ops' = ops /\ conn' \in [Ids -> Conns] /\ engine' \in [Ids -> BOOLEAN]
      /\ \A j \in Ids \ {op.id} : conn'[j] = conn[j] /\ engine'[j] = engine[j]
      /\ \/ Moved("publish") /\ conn'[op.id] = "connected" /\ engine'[op.id]
         \/ Moved("undial") /\ UNCHANGED <<conn, engine>>
    <2>1. CASE /\ Session!To("publish") /\ conn' = [conn EXCEPT ![op.id] = "connected"]
               /\ engine' = [engine EXCEPT ![op.id] = TRUE]
        BY <1>1, <2>1, ToMoves, Under DEF Conns
    <2>2. CASE Session!To("undial") /\ UNCHANGED <<conn, engine>>
        BY <2>2, ToMoves, Under
    <2> QED BY <2>1, <2>2 DEF Session!Routes
<1>3. Session!TypeOK'
    BY <1>1, <1>2, Under, TypesAre DEF Moved
<1>4. OpInv'
    BY <1>1, <1>2 DEF SessionInv, OpInv, Moved
<1>5. BeliefInv' /\ PlanInv'
    BY <1>1, <1>2, Under DEF SessionInv, BeliefInv, PlanInv, Session!Connected, Moved
<1>6. EngineInv'
    BY <1>1, <1>2 DEF SessionInv, OpInv, EngineInv, Moved
<1> QED BY <1>3, <1>4, <1>5, <1>6 DEF SessionInv

LEMMA PublishSafe == ASSUME SessionInv, Session!Publish PROVE SessionInv'
<1>1. /\ op.at = "publish" /\ op.id \in Ids /\ UNCHANGED <<platform, conn, engine, sess, leaked, faults>>
    BY Under DEF Session!Publish, Session!At, Session!Service
<1>2. PICK ok \in BOOLEAN :
          /\ Session!Published(Session!Connected, ok)
          /\ IF ok THEN Session!Done ELSE op' = [op EXCEPT !.kind = "undo", !.at = "block"] /\ UNCHANGED ops
    BY DEF Session!Publish
<1>3. /\ ops' = ops /\ op' \in OpType
      /\ Over \/ (op'.kind = "undo" /\ op'.at = "block" /\ op'.id = op.id)
    BY <1>2, DoneIsOver, Under DEF Over, OpType
<1>4. /\ core' \in BOOLEAN /\ belief' \in {"running", "stopped", "failed"} /\ plan' \subseteq Ids
      /\ ~core' => plan' = {}
      /\ belief' = "stopped" => ~core'
      /\ belief' = "running" => belief = "running" /\ core' /\ plan' \subseteq Session!Connected
    BY <1>2, PublishedIs, Under DEF SessionInv, BeliefInv
<1>5. Session!TypeOK'
    BY <1>1, <1>3, <1>4, Under, TypesAre
<1>6. OpInv' /\ PlanInv'
    BY <1>1, <1>3 DEF OpInv, PlanInv, Over
<1>7. BeliefInv'
    BY <1>1, <1>3, <1>4 DEF BeliefInv, Session!Connected, Over
<1>8. EngineInv'
    BY <1>1, <1>3 DEF SessionInv, OpInv, EngineInv, Over
<1> QED BY <1>5, <1>6, <1>7, <1>8 DEF SessionInv

LEMMA ResumeSafe == ASSUME SessionInv, Session!Resume \/ Session!UserStarts PROVE SessionInv'
<1>1. /\ UNCHANGED <<platform, conn, engine, sess, leaked, faults>>
      /\ op.at \in {"resume", "idle"} /\ op.kind # "exit"
      /\ op' \in OpType /\ op'.at = "idle" /\ op'.kind = "none" /\ ops' \in 0 .. MaxOps
    <2>1. CASE Session!Resume
        BY <2>1, DoneIsOver, Under
        DEF Session!Resume, Session!At, Session!Service, SessionInv, OpInv, Over
    <2>2. CASE Session!UserStarts
        BY <2>2, IdleIs, Under, BoundsAreNumbers DEF Session!UserStarts, Session!Service
    <2> QED BY <2>1, <2>2
<1>2. /\ core' \in BOOLEAN /\ belief' \in {"running", "stopped", "failed"} /\ plan' \subseteq Ids
      /\ ~core' => plan' = {}
      /\ belief' = "stopped" => ~core'
      /\ belief' = "running" => core' /\ plan' \subseteq Session!Connected
    <2>1. CASE core' = TRUE /\ belief' = "running" /\ plan' = Session!Connected
        BY <2>1, Under
    <2>2. CASE UNCHANGED <<core, belief, plan>>
        BY <2>2, Under DEF SessionInv, BeliefInv
    <2> QED BY <2>1, <2>2 DEF Session!Resume, Session!UserStarts, Session!Kernel
<1>3. Session!TypeOK'
    BY <1>1, <1>2, Under, TypesAre
<1>4. OpInv' /\ PlanInv'
    BY <1>1 DEF OpInv, PlanInv
<1>5. BeliefInv'
    BY <1>1, <1>2 DEF BeliefInv, Session!Connected
<1>6. EngineInv'
    BY <1>1 DEF SessionInv, EngineInv
<1> QED BY <1>3, <1>4, <1>5, <1>6 DEF SessionInv

LEMMA StopTrafficSafe == ASSUME SessionInv, Session!StopTraffic PROVE SessionInv'
<1>1. /\ UNCHANGED <<platform, conn, engine, sess, leaked, faults>> /\ ops' \in 0 .. MaxOps
      /\ op' \in OpType /\ op'.at = "next" /\ op'.kind \in {"stop", "exit"}
      /\ op.kind = "none" /\ op.at = "idle"
    BY BeginIs, Under, BoundsAreNumbers DEF Session!StopTraffic, Session!Service
<1>2. /\ core' \in BOOLEAN /\ belief' \in {"stopped", "failed"} /\ plan' \subseteq Ids
      /\ ~core' => plan' = {}
      /\ belief' = "stopped" => ~core'
    BY Under, StopsIs DEF SessionInv, Session!StopTraffic
<1>3. Session!TypeOK'
    BY <1>1, <1>2, Under, TypesAre
<1>4. OpInv' /\ PlanInv' /\ BeliefInv'
    BY <1>1, <1>2 DEF OpInv, PlanInv, BeliefInv
<1>5. EngineInv'
    BY <1>1 DEF SessionInv, EngineInv
<1> QED BY <1>3, <1>4, <1>5 DEF SessionInv

LEMMA NextSessionSafe == ASSUME SessionInv, Session!NextSession PROVE SessionInv'
<1>1. /\ op.at = "next" /\ UNCHANGED <<platform, conn, engine, sess, leaked, faults, core, belief, plan, ops>>
      /\ op.kind \in {"stop", "exit"}
    BY DEF Session!NextSession, Session!At, Session!Service, Session!Kernel, SessionInv, OpInv
<1>2. /\ op' \in OpType
      /\ \/ op'.kind = "exit" /\ op.kind = "exit" /\ op'.at = "gone"
         \/ op'.kind = "none" /\ op.kind = "stop" /\ op'.at = "idle"
         \/ /\ op'.kind = op.kind /\ op'.id \in Ids
            /\ op'.at = IF op.kind = "exit" THEN "drop" ELSE "release"
    <2>1. CASE op' = IF op.kind = "exit" THEN [op EXCEPT !.at = "gone"] ELSE Session!Idle
        BY <1>1, <2>1, Under DEF Session!Idle, OpType
    <2>2. CASE \E i \in op.rest :
                   op' = [op EXCEPT !.id = i, !.rest = @ \ {i},
                                    !.at = IF op.kind = "exit" THEN "drop" ELSE "release"]
        <3>1. PICK i \in op.rest :
                  op' = [[[op EXCEPT !.id = i] EXCEPT !.rest = op.rest \ {i}]
                             EXCEPT !.at = IF op.kind = "exit" THEN "drop" ELSE "release"]
            BY <2>2, Under DEF OpType
        <3> QED BY <1>1, <3>1, Under DEF OpType
    <2> QED BY <2>1, <2>2 DEF Session!NextSession
<1>3. OpInv'
    BY <1>1, <1>2 DEF OpInv
<1>4. PlanInv'
    BY <1>1, <1>2 DEF SessionInv, BeliefInv, PlanInv
<1>5. EngineInv'
    BY <1>1, <1>2 DEF SessionInv, EngineInv
<1>6. op'.kind \in {"stop", "exit"} => belief # "running"
    BY <1>1 DEF SessionInv, BeliefInv
<1> QED BY <1>1, <1>3, <1>4, <1>5, <1>6, OnlyOp, Under

LEMMA FaultSafe ==
    ASSUME SessionInv, Session!ServiceCrashes \/ \E i \in Ids : Session!SessionDies(i) PROVE SessionInv'
<1>1. UNCHANGED <<platform, conn, engine, op, core, belief, plan, leaked, ops>> /\ faults' \in 0 .. MaxFaults
    BY Under, BoundsAreNumbers DEF Session!ServiceCrashes, Session!SessionDies
<1>2. sess' \in [Ids -> Sessions] /\ \A j \in Ids : sess'[j] = "alive" => sess[j] = "alive"
    BY Under DEF Session!ServiceCrashes, Session!SessionDies, Sessions
<1>3. Session!TypeOK'
    BY <1>1, <1>2, Under, TypesAre
<1>4. OpInv' /\ PlanInv' /\ BeliefInv'
    BY <1>1 DEF SessionInv, OpInv, PlanInv, BeliefInv, Session!Connected
<1>5. EngineInv'
    BY <1>1, <1>2 DEF SessionInv, OpInv, EngineInv
<1> QED BY <1>3, <1>4, <1>5 DEF SessionInv

LEMMA SessionStep == SessionInv /\ Session!Next => SessionInv'
BY ConnectSafe, CheckSafe, BlockSafe, HaltSafe, ReleaseSafe, ConfirmSafe, DropSafe, DialSafe, UndialSafe,
   RoutesSafe, PublishSafe, ResumeSafe, StopTrafficSafe, NextSessionSafe, FaultSafe
DEF Session!Next

LEMMA SessionStutter == SessionInv /\ UNCHANGED session => SessionInv'
<1> SUFFICES ASSUME SessionInv, UNCHANGED session PROVE SessionInv'
    OBVIOUS
<1>1. UNCHANGED <<platform, conn, engine, op, core, belief, plan, sess, leaked, ops, faults>>
    BY DEF session
<1>2. Session!TypeOK'
    BY <1>1 DEF SessionInv, Session!TypeOK
<1>3. OpInv' /\ PlanInv' /\ BeliefInv'
    BY <1>1 DEF SessionInv, OpInv, PlanInv, BeliefInv, Session!Connected
<1>4. EngineInv'
    BY <1>1 DEF SessionInv, EngineInv
<1> QED BY <1>2, <1>3, <1>4 DEF SessionInv

LEMMA SessionInit == Session!Init => SessionInv
<1> SUFFICES ASSUME Session!Init PROVE SessionInv
    OBVIOUS
<1>1. Session!Idle \in OpType /\ op.kind = "none" /\ op.at = "idle" /\ op = Session!Idle
    BY DEF Session!Init, Session!Idle, OpType
<1>2. Session!TypeOK
    BY <1>1, BoundsAreNumbers DEF Session!Init, Session!TypeOK, OpType
<1>3. OpInv /\ PlanInv /\ BeliefInv /\ EngineInv
    BY <1>1 DEF Session!Init, OpInv, PlanInv, BeliefInv, EngineInv
<1> QED BY <1>2, <1>3 DEF SessionInv

\* Between operations, and at a release.
LEMMA SessionIsSafe ==
    SessionInv => Session!TypeOK /\ Session!PlanIsConnected /\ Session!OrphanIsLeaked
BY IdleIs DEF SessionInv, BeliefInv, EngineInv, Session!PlanIsConnected, Session!OrphanIsLeaked

LEMMA ReleasedLast ==
    ASSUME SessionInv, NEW i \in Ids, Session!Release_(i)
    PROVE  ~core \/ i \notin plan \/ belief = "failed"
BY Under DEF SessionInv, BeliefInv, PlanInv, Session!Release_

----------------------------------------------------------------------------
\* A lookup holds a bypass only while it asks a server, looks whether the address is
\* reached, or has returned it.
LookupInv ==
    /\ found \subseteq {1, 2}
    /\ tat \in {"idle", "ask"} => leases = {} /\ result = 0
    /\ tat = "answer" => result = 0
    /\ tat = "lease" => leases = {} /\ result = 0
    /\ tat = "verify" => leases = {result} /\ result # 0
    /\ tat = "done" => leases = IF result = 0 THEN {} ELSE {result}
    /\ tat \in {"idle", "ask", "answer", "lease", "verify", "done"}

LEMMA LookupInit == Lookup!Init => LookupInv
BY DEF Lookup!Init, LookupInv

LEMMA LookupStep == LookupInv /\ Lookup!Next => LookupInv'
<1> SUFFICES ASSUME LookupInv, Lookup!Next PROVE LookupInv'
    OBVIOUS
<1>1. CASE Lookup!Choose
    BY <1>1 DEF LookupInv, Lookup!Choose
<1>2. CASE Lookup!Prepare
    BY <1>2 DEF LookupInv, Lookup!Prepare
<1>3. CASE Lookup!Answer \/ Lookup!Asked \/ Lookup!NoLease \/ Lookup!Verify
    BY <1>3 DEF LookupInv, Lookup!Answer, Lookup!Asked, Lookup!NoLease, Lookup!Verify
<1>4. ASSUME NEW s \in left, Lookup!Ask(s) \/ Lookup!AskWindows(s) PROVE LookupInv'
    <2>1. CASE Lookup!Ask(s)
        BY <1>4, <2>1 DEF LookupInv, Lookup!Ask
    <2>2. CASE Lookup!AskWindows(s)
        BY <1>4, <2>2 DEF LookupInv, Lookup!AskWindows
    <2> QED BY <1>4, <2>1, <2>2
<1>5. ASSUME NEW a \in found, Lookup!Lease(a) \/ Lookup!LeaseWindows(a) PROVE LookupInv'
    <2>1. CASE Lookup!Lease(a)
        BY <1>5, <2>1 DEF LookupInv, Lookup!Lease
    <2>2. CASE Lookup!LeaseWindows(a)
        BY <1>5, <2>2 DEF LookupInv, Lookup!LeaseWindows
    <2> QED BY <1>5, <2>1, <2>2
<1> QED BY <1>1, <1>2, <1>3, <1>4, <1>5 DEF Lookup!Next

----------------------------------------------------------------------------
\* A step is one of the four subjects, or of none.
LEMMA NativeSteps ==
    ASSUME [Next]_vars
    PROVE  /\ Linux!Next \/ UNCHANGED linux
           /\ Windows!Next \/ UNCHANGED windows
           /\ Session!Next \/ UNCHANGED session
           /\ Lookup!Next \/ UNCHANGED lookup
BY DEF Next, InLinux, InWindows, InSession, InLookup, vars

NativeInv == LinuxInv /\ WindowsInv /\ SessionInv /\ LookupInv

LEMMA NativeIsSafe == Spec => []NativeInv
<1>1. Init => NativeInv
    BY LinuxInit, WindowsInit, SessionInit, LookupInit DEF Init, NativeInv
<1>2. NativeInv /\ [Next]_vars => NativeInv'
    <2> SUFFICES ASSUME NativeInv, [Next]_vars PROVE NativeInv'
        OBVIOUS
    <2>1. LinuxInv'
        BY NativeSteps, LinuxStep, LinuxStutter DEF NativeInv
    <2>2. WindowsInv'
        BY NativeSteps, WindowsStep, WindowsStutter DEF NativeInv
    <2>3. SessionInv'
        BY NativeSteps, SessionStep, SessionStutter DEF NativeInv
    <2>4. LookupInv'
        <3>1. UNCHANGED lookup => LookupInv'
            BY DEF lookup, LookupInv, NativeInv
        <3> QED BY <3>1, NativeSteps, LookupStep DEF NativeInv
    <2> QED BY <2>1, <2>2, <2>3, <2>4 DEF NativeInv
<1> QED BY <1>1, <1>2, PTL DEF Spec

\* The Linux registry implements RouteLeases: whatever threads share, install, release or fail
\* to, and whatever other processes put into the tables, a route is installed from before its
\* lease is granted until the last holder let it go.
THEOREM LinuxKeepsContract == Spec => Linux!KeepsContract
<1>1. Init => Linux!Contract!Init
    BY LinuxContractInit DEF Init
<1>2. NativeInv /\ NativeInv' /\ [Next]_vars => [Linux!Contract!Next]_(Linux!Contract!vars)
    <2> SUFFICES ASSUME NativeInv, NativeInv', [Next]_vars
                 PROVE  Linux!Contract!Next \/ UNCHANGED Linux!Contract!vars
        OBVIOUS
    <2>1. CASE Linux!Next
        BY <2>1, LinuxImplements DEF NativeInv
    <2>2. CASE UNCHANGED linux
        BY <2>2 DEF linux, Linux!Contract!vars
    <2> QED BY <2>1, <2>2, NativeSteps
<1> QED BY <1>1, <1>2, NativeIsSafe, PTL DEF Spec, Linux!KeepsContract, Linux!Contract!Spec

\* The Windows registry implements RouteLeases as well: a lease that expired is refused until
\* its route is deleted, so the deletion never hits a route that was granted again.
THEOREM WindowsKeepsContract == Spec => Windows!KeepsContract
<1>1. Init => Windows!Contract!Init
    BY WindowsContractInit DEF Init
<1>2. NativeInv /\ [Next]_vars => [Windows!Contract!Next]_(Windows!Contract!vars)
    <2> SUFFICES ASSUME NativeInv, [Next]_vars
                 PROVE  Windows!Contract!Next \/ UNCHANGED Windows!Contract!vars
        OBVIOUS
    <2>1. CASE Windows!Next
        BY <2>1, WindowsImplements DEF NativeInv
    <2>2. CASE UNCHANGED windows
        <3>1. wlease' = wlease /\ wentries' = wentries
            BY <2>2 DEF windows
        <3>2. Windows!Held' = Windows!Held
            BY <3>1, HeldIs
        <3> QED BY <3>1, <3>2 DEF Windows!Contract!vars
    <2> QED BY <2>1, <2>2, NativeSteps
<1> QED BY <1>1, <1>2, NativeIsSafe, PTL DEF Spec, Windows!KeepsContract, Windows!Contract!Spec

\* A step of the registry leaves a route of other software alone.
LEMMA ForeignRoutesStay == Spec => Windows!ForeignStays
<1>1. NativeInv /\ [Next]_vars =>
          [\A k \in Windows!Routes : wos[k] = "foreign" => wos'[k] = "foreign" \/ wtun' # wtun]_(Windows!vars)
    <2> SUFFICES ASSUME NativeInv, [Next]_vars, ~UNCHANGED Windows!vars
                 PROVE  \A k \in Windows!Routes : wos[k] = "foreign" => wos'[k] = "foreign" \/ wtun' # wtun
        OBVIOUS
    <2>1. Windows!Next
        BY NativeSteps DEF windows, Windows!vars
    <2> QED BY <2>1, ForeignIsKept DEF NativeInv
<1> QED BY <1>1, NativeIsSafe, PTL DEF Spec, Windows!ForeignStays

\* The routes of both systems are safe, although any command may fail with or without its
\* effect: a held lease has its sentinel, its route and its rule in a table nobody else uses;
\* only what a failed command left is in a table without the sentinel, and such a table is
\* never filled again; the default of a PPP interface never stands without the
\* captures of its TUN; routes of other software stay; and a lookup that ends holds the
\* bypass of the address it returns and no other.
THEOREM RoutesHold == Spec => RoutesAreSafe
<1>1. NativeInv => /\ Linux!TypeOK /\ Linux!HeldIsInstalled /\ Linux!SentinelGuards
                   /\ Linux!FillsCleanTable /\ Linux!NoTableTwice
                   /\ Windows!TypeOK /\ Windows!DefaultIsCovered /\ Windows!LeasedIsInstalled
                   /\ Lookup!OneLease
    BY LinuxIsSafe
    DEF NativeInv, WindowsInv, CandidateInv, EntryInv, LookupInv, Lookup!OneLease
<1> QED BY <1>1, NativeIsSafe, LinuxKeepsContract, WindowsKeepsContract, ForeignRoutesStay, PTL
        DEF RoutesAreSafe

\* No session is taken down, by a command or at exit, under a kernel that runs a plan that
\* refers to it, unless the store holds that kernel for failed; such a plan refers to connected sessions, and a session nobody owns was leaked by a
\* dial that lost its answer twice.
THEOREM SessionsHold == Spec => SessionsAreWithdrawn
<1>1. NativeInv => Session!TypeOK /\ Session!PlanIsConnected /\ Session!OrphanIsLeaked
    BY SessionIsSafe DEF NativeInv
<1>2. NativeInv /\ [Next]_vars =>
          [\A i \in Ids : Session!Release_(i) => ~core \/ i \notin plan \/ belief = "failed"]_(Session!vars)
    BY ReleasedLast DEF NativeInv
<1>3. Spec => Session!WithdrawnFirst
    BY <1>2, NativeIsSafe, PTL DEF Spec, Session!WithdrawnFirst
<1> QED BY <1>1, <1>3, NativeIsSafe, PTL DEF SessionsAreWithdrawn
===============================================================================

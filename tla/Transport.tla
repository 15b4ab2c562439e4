------------------------------- MODULE Transport -------------------------------
(***************************************************************************)
(* How the address of a VPN server is found and its bypass acquired        *)
(* outside the TUN (PrepareTransport, both desktops), and the pure address *)
(* arithmetic below it, on addresses of Width bits: prefixes, the choice   *)
(* of a physical route, the captures of a native network, DNS names with   *)
(* compression pointers and alias chains.                                  *)
(***************************************************************************)
EXTENDS Integers, Sequences, SequencesExt, FiniteSets

CONSTANTS
    Width,      \* bound: bits of an address (32)
    Packet,     \* bound: bytes of a DNS message
    Steps,      \* dnsName gives up after this many labels (128)
    Passes      \* alias passes (16)

Addresses == 0..2^Width - 1
Size(bits) == 2^(Width - bits)
Mask(a, bits) == (a \div Size(bits)) * Size(bits)

\* NormalizeIpv4Cidr: a prefix has no host bits.
Networks == {p \in Addresses \X (0..Width) : Mask(p[1], p[2]) = p[1]}
Within(a, p) == Mask(a, p[2]) = p[1]
Covered(ps) == {a \in Addresses : \E p \in ps : Within(a, p)}

\* usableTransport: not this network, loopback, multicast or fake-IP; here, one
\* address stands for those.
Usable(a) == a # 0

(***************************************************************************)
(* SelectPhysicalRoute, in the order of the table.                         *)
(***************************************************************************)

Candidate(a, r) == r.physical /\ Within(a, r.prefix)

Better(r, s) == r.prefix[2] > s.prefix[2] \/ (r.prefix[2] = s.prefix[2] /\ r.metric < s.metric)

SelectPhysicalRoute(a, table) ==
    IF ~Usable(a) THEN <<>>
    ELSE FoldLeft(LAMBDA best, r : IF Candidate(a, r) /\ (best = <<>> \/ Better(r, best[1]))
                                   THEN <<r>> ELSE best, <<>>, table)

(***************************************************************************)
(* WindowsCaptureDestinations: destinations minus exclusions, as prefixes. *)
(***************************************************************************)

Overlap(p, q) == LET c == IF p[2] < q[2] THEN p[2] ELSE q[2] IN Mask(p[1], c) = Mask(q[1], c)
Halves(p) == {<<p[1], p[2] + 1>>, <<p[1] + Size(p[2] + 1), p[2] + 1>>}

\* The work list, without its order: skip, split in two, or keep.
Split(destination, excluded) ==
    LET split[p \in Networks] ==
            LET hits == {q \in excluded : Overlap(p, q)}
            IN  IF \E q \in hits : q[2] <= p[2] THEN {}
                ELSE IF hits = {} THEN {p}
                ELSE UNION {split[h] : h \in Halves(p)}
    IN  split[destination]

WindowsCaptureDestinations(destinations, excluded) ==
    UNION {Split(p, excluded) : p \in destinations}

(***************************************************************************)
(* DNS names.  A byte is the length of a label that follows, 0 at the end  *)
(* of the name, or 192 plus the target of a pointer, whose second byte is  *)
(* not interpreted here.                                                   *)
(***************************************************************************)

Bytes == {0, 1, 2} \cup {192 + t : t \in 0..Packet - 1}
Fail == [ok |-> FALSE, end |-> 0]

\* Where parsing continues: after the first pointer, or after the end of the name.
NameEnd(cursor, end) == IF end = 0 THEN cursor ELSE end

\* How far the walk is: steps left, where it reads, and the end if a pointer was followed.
Walk(p) ==
    LET walk[steps \in 0..Steps, cursor \in 0..Packet, end \in 0..Packet] ==
            IF steps = 0 \/ cursor >= Packet THEN Fail
            ELSE LET b == p[cursor]
                     pointer == b >= 192
                     next == IF pointer THEN b - 192 ELSE cursor + 1 + b
                 IN  IF b = 0 THEN [ok |-> TRUE, end |-> NameEnd(cursor + 1, end)]
                     ELSE IF (IF pointer THEN cursor + 1 >= Packet ELSE next > Packet) THEN Fail
                     ELSE walk[steps - 1, next, IF pointer THEN NameEnd(cursor + 2, end) ELSE end]
    IN  walk

DnsName(p, position) == Walk(p)[Steps, position, 0]

\* The alias passes of queryDns: answers are <<owner, alias>>.
AliasPass(names, answers) ==
    FoldLeft(LAMBDA n, x : IF x[1] \in n THEN n \cup {x[2]} ELSE n, names, answers)
Aliases(name, answers) ==
    FoldLeft(LAMBDA n, i : AliasPass(n, answers), {name}, [i \in 1..Passes |-> i])

(***************************************************************************)
(* PrepareTransport.                                                       *)
(***************************************************************************)

VARIABLES
    input,      \* what a pure function is given, or the host of a call
    at,         \* step of PrepareTransport
    left,       \* DNS servers not asked yet
    found,      \* addresses
    leases,     \* bypass leases held: addresses of servers
    result      \* the address returned, 0 for none

vars == <<input, at, left, found, leases, result>>
NoInput == [kind |-> "none"]

Routes == [prefix : {<<0, 0>>, <<2, Width - 1>>, <<3, Width>>}, metric : {0, 1}, physical : BOOLEAN]
Names == {"host", "a", "b"}
Inputs ==
    [kind : {"route"}, address : Addresses, table : UNION {[1..n -> Routes] : n \in 0..2}]
    \cup [kind : {"capture"}, to : {ps \in SUBSET Networks : Cardinality(ps) <= 2 /\ \A p \in ps : p[2] > 0},
          excluded : {ps \in SUBSET Networks : Cardinality(ps) <= 2}]
    \cup [kind : {"name"}, packet : [0..Packet - 1 -> Bytes], position : {0, 1}]
    \cup [kind : {"alias"}, answers : UNION {[1..n -> Names \X Names] : n \in 0..3}]
    \cup [kind : {"host"}, type : {"numeric", "hosts", "name"}, platform : {"linux", "windows"}]

Init == input = NoInput /\ at = "idle" /\ left = {} /\ found = {} /\ leases = {} /\ result = 0
Choose ==
    /\ input = NoInput /\ input' \in Inputs
    /\ UNCHANGED <<at, left, found, leases, result>>

\* A literal address or the hosts file gives the addresses; else the servers are asked.
Prepare ==
    /\ input.kind = "host" /\ at = "idle"
    /\ \/ input.type # "name" /\ found' \in SUBSET {1, 2} /\ at' = "lease" /\ UNCHANGED left
       \/ input.type = "name" /\ left' \in SUBSET {5, 6} /\ at' = "ask" /\ UNCHANGED found
    /\ UNCHANGED <<input, leases, result>>

\* A server without a physical route, or whose own bypass cannot be leased, is
\* passed over.
Ask(s) ==
    /\ at = "ask" /\ s \in left /\ found = {} /\ left' = left \ {s} /\ input.platform = "linux"
    /\ \/ UNCHANGED <<leases, at>>
       \/ leases' = leases \cup {s} /\ at' = "answer"
    /\ UNCHANGED <<input, found, result>>

\* Windows binds the question to the physical interface, within 8 s for all servers,
\* and keeps the addresses that have a physical route.
AskWindows(s) ==
    /\ at = "ask" /\ s \in left /\ found = {} /\ input.platform = "windows"
    /\ \/ left' = left \ {s} /\ found' \in SUBSET {1, 2}
       \/ left' = {} /\ UNCHANGED found
    /\ UNCHANGED <<input, at, leases, result>>

\* The answer, an error or nothing in 2 s; the lease of the server ends here.
Answer ==
    /\ at = "answer" /\ found' \in SUBSET {1, 2} /\ at' = "ask" /\ leases' = {}
    /\ UNCHANGED <<input, left, result>>
Asked ==
    /\ at = "ask" /\ (found # {} \/ left = {})
    /\ at' = "lease" /\ UNCHANGED <<input, left, found, leases, result>>

\* The first address whose bypass can be leased.
Lease(a) ==
    /\ at = "lease" /\ a \in found /\ found' = found \ {a} /\ input.platform = "linux"
    /\ \/ leases' = leases \cup {a} /\ result' = a /\ at' = "done"
       \/ UNCHANGED <<leases, result, at>>
    /\ UNCHANGED <<input, left>>

\* Windows looks whether the system now routes the address there, and gives the
\* lease up again if another interface still captures it.
LeaseWindows(a) ==
    /\ at = "lease" /\ a \in found /\ found' = found \ {a} /\ input.platform = "windows"
    /\ \/ leases' = leases \cup {a} /\ result' = a /\ at' = "verify"
       \/ UNCHANGED <<leases, result, at>>
    /\ UNCHANGED <<input, left>>
Verify ==
    /\ at = "verify" /\ UNCHANGED <<input, left, found>>
    /\ \/ at' = "done" /\ UNCHANGED <<leases, result>>
       \/ at' = "lease" /\ leases' = {} /\ result' = 0
NoLease == at = "lease" /\ found = {} /\ at' = "done" /\ UNCHANGED <<input, left, found, leases, result>>

Next ==
    \/ Choose \/ Prepare \/ Answer \/ Asked \/ NoLease \/ Verify
    \/ \E s \in left : Ask(s) \/ AskWindows(s)
    \/ \E a \in found : Lease(a) \/ LeaseWindows(a)
Spec == Init /\ [][Next]_vars

(***************************************************************************)
(* Properties.                                                             *)
(***************************************************************************)

\* The route chosen is physical, covers the address, and no other such route is
\* longer, or as long and cheaper.
RouteIsBest ==
    input.kind = "route" =>
        LET r == SelectPhysicalRoute(input.address, input.table)
            able == {x \in ToSet(input.table) : Candidate(input.address, x)} IN
        IF r = <<>> THEN ~Usable(input.address) \/ able = {}
        ELSE r[1] \in able /\ \A x \in able : x.prefix[2] <= r[1].prefix[2]
                                              /\ (x.prefix[2] = r[1].prefix[2] => r[1].metric <= x.metric)

\* The captures are exactly the native networks minus what the TUN excludes.
CaptureIsExact ==
    input.kind = "capture" =>
        Covered(WindowsCaptureDestinations(input.to, input.excluded))
            = Covered(input.to) \ Covered(input.excluded)

\* The bytes that labels, and pointers if `jump', lead to from c.
Follow(p, c, jump) ==
    IF c >= Packet \/ p[c] = 0 THEN {}
    ELSE IF p[c] < 192 THEN {c + 1 + p[c]}
    ELSE IF jump /\ c + 1 < Packet THEN {p[c] - 192} ELSE {}
Reached(p, c, jump) ==
    FoldLeft(LAMBDA cs, i : cs \cup UNION {Follow(p, x, jump) : x \in cs}, {c}, [i \in 1..Packet |-> i])

\* A name is accepted exactly when its labels and pointers lead to an end inside the
\* message: a loop of pointers is refused.  Parsing goes on behind the name itself,
\* not behind where a pointer led.
NameEnds ==
    input.kind = "name" =>
        LET p == input.packet
            c == input.position
            n == DnsName(p, c)
        IN  /\ n.ok <=> \E x \in Reached(p, c, TRUE) : x < Packet /\ p[x] = 0
            /\ n.ok => \E x \in Reached(p, c, FALSE) :
                    x < Packet /\ p[x] \notin {1, 2} /\ n.end = IF p[x] = 0 THEN x + 1 ELSE x + 2

\* Every alias of a chain is followed, in whatever order the answers came.
AliasesAreFollowed ==
    input.kind = "alias" =>
        LET n == Aliases("host", input.answers) IN
        "host" \in n /\ \A x \in ToSet(input.answers) : x[1] \in n => x[2] \in n

\* A call ends with the bypass of the address it returns, and with nothing else.
OneLease == at = "done" => leases = IF result = 0 THEN {} ELSE {result}
===============================================================================

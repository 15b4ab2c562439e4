-------------------------- MODULE ApplicationProofs --------------------------
(***************************************************************************)
(* What is proved of the page models and the child processes MCApplication *)
(* puts side by side.  Only the part that is the subject moves, so that    *)
(* what holds of its states and steps holds of all.                        *)
(***************************************************************************)
EXTENDS MCApplication, Orderings, TLAPS, SequenceTheorems, FiniteSetTheorems

----------------------------------------------------------------------------
(* The kernel's process and its log *)

LEMMA ProcessBounds ==
    Buffer \in Nat /\ TailLen \in Nat /\ MaxOutput \in Nat /\ MaxLines \in Nat /\ MaxStarts \in Nat
BY BoundsAreNumbers

\* Children are numbered by their starts; the one whose number is kept is the last, until it
\* is reaped.
ChildInv ==
    /\ K!TypeOK /\ K!OneKernel
    /\ os \in {"mac", "hosted", "android", "ios"}
    /\ DOMAIN procs = 1 .. MaxStarts /\ starts \in 0 .. MaxStarts
    /\ child <= starts
    /\ starting => starts < MaxStarts
    /\ \A p \in DOMAIN procs : p > starts => procs[p] = "none"

\* The lines written are passed on in order.
LinesInv ==
    /\ pipe \in Seq(Int) /\ read \in Seq(Int) /\ output \in Seq(Int) /\ tail \in Seq(Int)
    /\ wrote \in Int
    /\ K!TailIsLatest

LEMMA NewestIs ==
    ASSUME NEW s \in Seq(Int), NEW n \in Nat
    PROVE  /\ K!Newest(s, n) \in Seq(Int)
           /\ Len(K!Newest(s, n)) = IF Len(s) > n THEN n ELSE Len(s)
           /\ \A i \in 1 .. Len(K!Newest(s, n)) :
                  K!Newest(s, n)[i] = s[Len(s) - Len(K!Newest(s, n)) + i]
<1>1. CASE Len(s) > n
    <2>1. K!Newest(s, n) = SubSeq(s, Len(s) - n + 1, Len(s))
        BY <1>1 DEF K!Newest
    <2>2. Len(s) - n + 1 \in 1 .. Len(s) + 1 /\ Len(s) \in Nat
        BY <1>1, LenProperties
    <2> QED BY SMTT(30), <1>1, <2>1, <2>2, SubSeqProperties
<1>2. CASE ~(Len(s) > n)
    BY <1>2, LenProperties DEF K!Newest
<1> QED BY <1>1, <1>2

LEMMA FirstIs ==
    ASSUME NEW s \in Seq(Int), NEW n \in Nat
    PROVE  K!First(s, n) \in Seq(Int) /\ Len(K!First(s, n)) <= n
<1>1. CASE Len(s) > n
    <2>1. K!First(s, n) = SubSeq(s, 1, n)
        BY <1>1 DEF K!First
    <2> QED BY <1>1, <2>1, SubSeqProperties, LenProperties
<1>2. CASE ~(Len(s) > n)
    BY <1>2, LenProperties DEF K!First
<1> QED BY <1>1, <1>2

\* Of the newest of the newest and what follows: nothing is lost that would have been kept.
LEMMA NewestOfNewest ==
    ASSUME NEW s \in Seq(Int), NEW t \in Seq(Int), NEW n \in Nat
    PROVE  K!Newest(K!Newest(s, n) \o t, n) = K!Newest(s \o t, n)
<1> DEFINE old == K!Newest(s, n)
           a == old \o t
           b == s \o t
           x == K!Newest(a, n)
           y == K!Newest(b, n)
<1>1. old \in Seq(Int) /\ a \in Seq(Int) /\ b \in Seq(Int)
    BY NewestIs, ConcatProperties
<1>2. /\ Len(a) = Len(old) + Len(t) /\ Len(b) = Len(s) + Len(t)
      /\ Len(old) = IF Len(s) > n THEN n ELSE Len(s)
    BY <1>1, NewestIs, ConcatProperties
<1>3. Len(s) \in Nat /\ Len(t) \in Nat /\ Len(old) \in Nat
    BY <1>1, LenProperties
<1>4. /\ \A j \in 1 .. Len(a) : a[j] = IF j <= Len(old) THEN old[j] ELSE t[j - Len(old)]
      /\ \A j \in 1 .. Len(b) : b[j] = IF j <= Len(s) THEN s[j] ELSE t[j - Len(s)]
    BY <1>1, ConcatProperties
<1>5. \A j \in 1 .. Len(old) : old[j] = s[Len(s) - Len(old) + j]
    BY NewestIs
<1> HIDE DEF old, a, b
<1>6. /\ x \in Seq(Int) /\ Len(x) = IF Len(a) > n THEN n ELSE Len(a)
      /\ \A k \in 1 .. Len(x) : x[k] = a[Len(a) - Len(x) + k]
    BY <1>1, NewestIs
<1>7. /\ y \in Seq(Int) /\ Len(y) = IF Len(b) > n THEN n ELSE Len(b)
      /\ \A k \in 1 .. Len(y) : y[k] = b[Len(b) - Len(y) + k]
    BY <1>1, NewestIs
<1> HIDE DEF x, y
<1>8. Len(x) = Len(y) /\ Len(x) \in Nat /\ Len(x) <= Len(a) /\ Len(y) <= Len(b)
    <2>1. Len(a) \in Nat /\ Len(b) \in Nat /\ Len(x) \in Nat /\ Len(y) \in Nat
        BY <1>1, <1>6, <1>7, LenProperties
    <2>2. Len(x) = (IF Len(a) > n THEN n ELSE Len(a)) /\ Len(y) = IF Len(b) > n THEN n ELSE Len(b)
        BY <1>6, <1>7
    <2>3. Len(old) = IF Len(s) > n THEN n ELSE Len(s)
        BY <1>2
    <2>4. Len(a) = Len(old) + Len(t) /\ Len(b) = Len(s) + Len(t)
        BY <1>2
    <2> QED BY <1>3, <2>1, <2>2, <2>3, <2>4
<1>9. ASSUME NEW i \in 1 .. Len(x) PROVE x[i] = y[i]
    <2> DEFINE j == Len(a) - Len(x) + i
               k == Len(b) - Len(y) + i
    <2>1. x[i] = a[j] /\ y[i] = b[k] /\ j \in 1 .. Len(a) /\ k \in 1 .. Len(b)
        <3>1. j \in 1 .. Len(a) /\ k \in 1 .. Len(b)
            BY <1>1, <1>8, LenProperties
        <3>2. x[i] = a[j] /\ y[i] = b[k]
            BY <1>6, <1>7, <1>8
        <3> QED BY <3>1, <3>2
    <2>2. k - j = Len(s) - Len(old) /\ j \in Int /\ k \in Int
        BY <1>2, <1>3, <1>8
    <2> HIDE DEF j, k
    <2>3. CASE j <= Len(old)
        <3>1. a[j] = s[k] /\ k <= Len(s)
            BY SMTT(30), <1>3, <1>4, <1>5, <2>1, <2>2, <2>3
        <3> QED BY <1>4, <2>1, <3>1
    <2>4. CASE ~(j <= Len(old))
        <3>1. a[j] = t[j - Len(old)] /\ b[k] = t[k - Len(s)] /\ j - Len(old) = k - Len(s)
            BY <1>3, <1>4, <2>1, <2>2, <2>4
        <3> QED BY <2>1, <3>1
    <2> QED BY <2>3, <2>4
<1>10. x = y
    BY <1>6, <1>7, <1>8, <1>9, SeqEqual
<1> QED BY <1>10 DEF x, y, a, b, old

LEMMA RestIs ==
    ASSUME NEW s \in Seq(Int), NEW n \in Nat PROVE SubSeq(s, n + 1, Len(s)) \in Seq(Int)
<1>1. CASE n + 1 \in 1 .. Len(s) + 1
    BY <1>1, SubSeqProperties, LenProperties
<1>2. CASE ~(n + 1 \in 1 .. Len(s) + 1)
    BY <1>2, LenProperties
<1> QED BY <1>1, <1>2

LEMMA ProcessInit == K!Init => ChildInv /\ LinesInv
<1> SUFFICES ASSUME K!Init PROVE ChildInv /\ LinesInv
    OBVIOUS
<1>1. tunnel \in BOOLEAN
    BY DEF K!Init
<1>2. output = <<>> /\ tail = <<>> /\ pipe = <<>> /\ read = <<>> /\ Len(<<>>) = 0 /\ <<>> \in Seq(Int)
    BY EmptySeq DEF K!Init
<1>3. ChildInv
    <2>1. DOMAIN procs = 1 .. MaxStarts /\ \A p \in DOMAIN procs : procs[p] = "none"
        BY DEF K!Init
    <2>2. {running, stopping, starting, tunnel} \subseteq BOOLEAN
        BY <1>1 DEF K!Init
    <2>3. /\ child \in 0 .. MaxStarts /\ pidfile \in 0 .. MaxStarts /\ exit \in {-1, 0, 1}
          /\ monitor \in {"none", "poll", "reap", "done"} /\ grace \in {"none", "armed", "over"}
        BY ProcessBounds DEF K!Init
    <2>4. Len(output) <= MaxOutput /\ Len(tail) <= TailLen
        BY <1>2, ProcessBounds
    <2>5. K!TypeOK
        BY <2>1, <2>2, <2>3, <2>4 DEF K!TypeOK
    <2>6. os \in {"mac", "hosted", "android", "ios"} /\ starts \in 0 .. MaxStarts /\ ~starting
        BY ProcessBounds DEF K!Init
    <2> QED BY <2>1, <2>5, <2>6 DEF ChildInv, K!OneKernel, K!Init
<1> QED BY <1>2, <1>3, ProcessBounds DEF K!Init, LinesInv, K!TailIsLatest, K!Newest

LEMMA ChildStep == ChildInv /\ LinesInv /\ [K!Next]_(K!vars) => ChildInv'
<1> SUFFICES ASSUME ChildInv, LinesInv, [K!Next]_(K!vars) PROVE ChildInv'
    OBVIOUS
<1> USE ProcessBounds DEF ChildInv, K!OneKernel
<1>1. ASSUME NEW yes \in BOOLEAN, K!Ask(yes) PROVE ChildInv'
    BY <1>1 DEF K!Ask, K!Stop, K!TypeOK
<1>2. ASSUME NEW yes \in BOOLEAN, K!Start(yes) PROVE ChildInv'
    BY <1>2 DEF K!Start, K!Stop, K!TypeOK
<1>3. ASSUME NEW yes \in BOOLEAN, K!Started(yes) PROVE ChildInv'
    <2>1. Len(output') <= MaxOutput /\ Len(tail') <= TailLen /\ starting' = FALSE /\ stopping' = FALSE
        BY <1>3, EmptySeq DEF K!Started, K!Clear
    <2>0. starting /\ starts < MaxStarts /\ starts \in Nat /\ MaxStarts \in Nat
        BY <1>3 DEF K!Started
    <2>10. \/ K!Spawn(yes)
           \/ K!Handle(FALSE) \/ K!Handle(TRUE) \/ K!Handle(yes)
        BY <1>3 DEF K!Started
    <2>2. running' \in BOOLEAN /\ tunnel' \in BOOLEAN
        BY <2>10 DEF K!Spawn, K!Handle, K!TypeOK
    <2>5. starts' = starts + 1 /\ starts' \in 1 .. MaxStarts /\ DOMAIN procs' = 1 .. MaxStarts
        <3>1. starts' = starts + 1
            BY <2>10 DEF K!Spawn, K!Handle
        <3>2. DOMAIN procs' = DOMAIN procs
            BY <2>10 DEF K!Spawn, K!Handle
        <3> QED BY <2>0, <3>1, <3>2
    <2>3. exit' = -1 /\ grace' \in {"none", "armed", "over"} /\ pidfile' \in 0 .. MaxStarts
        <3>1. exit' = -1
            BY <1>3 DEF K!Started, K!Clear
        <3>2. grace' \in {grace, "none"} /\ pidfile' \in {pidfile, starts'}
            BY <2>10 DEF K!Spawn, K!Handle
        <3> QED BY <2>0, <2>5, <3>1, <3>2 DEF K!TypeOK
    <2>4. monitor' \in {"none", "poll", "reap", "done"} /\ child' \in 0 .. MaxStarts
        <3>1. monitor' \in {monitor, "none", "poll"} /\ child' \in {child, starts'}
            BY <2>10 DEF K!Spawn, K!Handle
        <3> QED BY <2>0, <2>5, <3>1 DEF K!TypeOK
    <2>6. \/ UNCHANGED procs /\ (monitor' = monitor \/ monitor' = "none") /\ child' = child
          \/ procs' = [procs EXCEPT ![starts'] = "alive"] /\ child' = starts' /\ monitor' = "poll"
        BY <1>3 DEF K!Started, K!Spawn, K!Handle
    <2>7. \A p \in DOMAIN procs : procs[p] \in {"none", "reaped"}
        BY <1>3 DEF K!Started, K!Joined, K!TypeOK
    <2>8. K!OneKernel' /\ \A p \in DOMAIN procs' : p > starts' => procs'[p] = "none"
        BY <2>5, <2>6, <2>7
    <2>9. \A p \in DOMAIN procs' : procs'[p] \in {"none", "alive", "asked", "zombie", "reaped"}
        BY <2>5, <2>6 DEF K!TypeOK
    <2>11. child' <= starts' /\ os' = os
        <3>1. child' \in {child, starts'} /\ os' = os
            BY <1>3, <2>10 DEF K!Started, K!Spawn, K!Handle
        <3> QED BY <2>0, <2>5, <3>1 DEF K!TypeOK
    <2>12. K!TypeOK'
        BY <2>1, <2>2, <2>3, <2>4, <2>9 DEF K!TypeOK
    <2> QED BY <2>0, <2>1, <2>5, <2>8, <2>11, <2>12
<1>4. CASE K!Drain
    BY <1>4, EmptySeq DEF K!Drain, K!TypeOK
<1>5. CASE K!KillPid
    BY <1>5 DEF K!KillPid, K!TypeOK
<1>6. CASE K!TunnelEnds
    BY <1>6 DEF K!TunnelEnds, K!TypeOK
<1>7. CASE K!Kill
    BY <1>7 DEF K!Kill, K!Live, K!TypeOK
<1>8. CASE K!Clock
    BY <1>8 DEF K!Clock, K!TypeOK
<1>9. CASE K!Poll
    <2>1. CASE UNCHANGED <<output, tail, read, pipe>>
        BY <1>9, <2>1 DEF K!Poll, K!HungUp, K!TypeOK
    <2>2. CASE K!Push(K!First(pipe, Buffer)) /\ monitor' = IF K!HungUp THEN "reap" ELSE "poll"
        <3>1. Len(output') <= MaxOutput /\ Len(tail') <= TailLen
            <4> DEFINE lines == K!First(pipe, Buffer)
                       room == MaxOutput - Len(output)
            <4>1. lines \in Seq(Int) /\ room \in Nat /\ Len(output) \in Nat
                BY FirstIs, LenProperties DEF LinesInv, K!TypeOK
            <4>2. K!First(lines, room) \in Seq(Int) /\ Len(K!First(lines, room)) <= room
                BY <4>1, FirstIs
            <4>3. tail \o lines \in Seq(Int) /\ Len(output') = Len(output) + Len(K!First(lines, room))
                BY <2>2, <4>1, <4>2, ConcatProperties DEF K!Push, LinesInv
            <4>4. Len(tail') <= TailLen
                <5> DEFINE all == tail \o lines
                <5>1. tail' = K!Newest(all, TailLen)
                    BY <2>2 DEF K!Push
                <5>2. all \in Seq(Int)
                    BY <4>3
                <5> HIDE DEF all
                <5>3. Len(K!Newest(all, TailLen)) = IF Len(all) > TailLen THEN TailLen ELSE Len(all)
                    BY <5>2, NewestIs
                <5>4. Len(all) \in Nat
                    BY <5>2, LenProperties
                <5> QED BY <5>1, <5>3, <5>4
            <4> HIDE DEF lines
            <4>5. room = MaxOutput - Len(output) /\ MaxOutput \in Nat
                OBVIOUS
            <4>6. Len(K!First(lines, room)) \in Nat
                BY <4>2, LenProperties
            <4> HIDE DEF room
            <4> QED BY <4>1, <4>2, <4>3, <4>4, <4>5, <4>6
        <3> QED BY <1>9, <2>2, <3>1 DEF K!Poll, K!HungUp, K!TypeOK
    <2> QED BY <1>9, <2>1, <2>2 DEF K!Poll
<1>10. CASE K!Reap
    <2>1. \A p \in DOMAIN procs : procs'[p] \in {"none", "reaped"}
        BY <1>10 DEF K!Reap, K!TypeOK
    <2>2. DOMAIN procs' = DOMAIN procs /\ child \in 0 .. MaxStarts
        BY <1>10 DEF K!Reap, K!TypeOK
    <2>5. \A p \in DOMAIN procs : p > starts => procs'[p] = "none"
        BY <1>10, <2>2 DEF K!Reap
    <2>3. K!TypeOK'
        <3>1. \A p \in DOMAIN procs' : procs'[p] \in {"none", "alive", "asked", "zombie", "reaped"}
            BY <2>1, <2>2
        <3>2. exit' \in {0, 1} /\ running' = FALSE /\ child' = 0
            BY <1>10 DEF K!Reap, K!Code
        <3>3. child' \in 0 .. MaxStarts /\ exit' \in {-1, 0, 1}
            BY <3>2
        <3>4. UNCHANGED <<pidfile, tunnel, grace, stopping, starting, output, tail>> /\ monitor' = "done"
            BY <1>10 DEF K!Reap
        <3>5. {running, stopping, starting, tunnel}' \subseteq BOOLEAN
            BY <3>2, <3>4 DEF K!TypeOK
        <3> QED BY <3>1, <3>3, <3>4, <3>5 DEF K!TypeOK
    <2>6. child' = 0 /\ starts' = starts /\ os' = os /\ starting' = starting
        BY <1>10 DEF K!Reap
    <2> QED BY <2>1, <2>2, <2>3, <2>5, <2>6
<1>11. ASSUME NEW p \in DOMAIN procs, K!Write(p) PROVE ChildInv'
    BY <1>11 DEF K!Write, K!TypeOK
<1>12. ASSUME NEW p \in DOMAIN procs, K!Exit(p) PROVE ChildInv'
    BY <1>12 DEF K!Exit, K!Live, K!TypeOK
<1>13. CASE UNCHANGED K!vars
    BY <1>13 DEF K!vars, K!TypeOK
<1> QED BY <1>1, <1>2, <1>3, <1>4, <1>5, <1>6, <1>7, <1>8, <1>9, <1>10, <1>11, <1>12, <1>13 DEF K!Next
LEMMA LinesStep == ChildInv /\ LinesInv /\ [K!Next]_(K!vars) => LinesInv'
<1> SUFFICES ASSUME ChildInv, LinesInv, [K!Next]_(K!vars) PROVE LinesInv'
    OBVIOUS
<1> USE ProcessBounds DEF LinesInv, K!TailIsLatest
<1>1. ASSUME NEW yes \in BOOLEAN, K!Started(yes) PROVE LinesInv'
    <2>1. Len(<<>>) = 0 /\ <<>> \in Seq(Int)
        BY EmptySeq
    <2>2. output' = <<>> /\ tail' = <<>> /\ read' = <<>> /\ os' = os
        BY <1>1 DEF K!Started, K!Clear
    <2>4. \/ K!Spawn(yes)
          \/ K!Handle(FALSE) \/ K!Handle(TRUE) \/ K!Handle(yes)
        BY <1>1 DEF K!Started, ChildInv
    <2>5. pipe' \in Seq(Int)
        <3>1. pipe' = pipe \/ pipe' = <<>>
            BY <2>4 DEF K!Spawn, K!Handle
        <3> QED BY <2>1, <3>1
    <2>6. wrote' \in Int
        <3>1. wrote' = 0 \/ wrote' = wrote
            BY <2>4 DEF K!Spawn, K!Handle
        <3> QED BY <3>1
    <2> QED BY <2>1, <2>2, <2>5, <2>6 DEF K!Newest
<1>2. CASE K!Poll
    <2>1. CASE UNCHANGED <<output, tail, read, pipe>>
        BY <1>2, <2>1 DEF K!Poll
    <2>2. CASE /\ K!Push(K!First(pipe, Buffer)) /\ read' = read \o K!First(pipe, Buffer)
               /\ pipe' = SubSeq(pipe, Buffer + 1, Len(pipe))
        <3> DEFINE lines == K!First(pipe, Buffer)
        <3>1. /\ lines \in Seq(Int) /\ tail \o lines \in Seq(Int) /\ read \o lines \in Seq(Int)
              /\ K!First(lines, MaxOutput - Len(output)) \in Seq(Int)
            BY FirstIs, ConcatProperties, LenProperties DEF ChildInv, K!TypeOK
        <3>2. /\ pipe' \in Seq(Int) /\ read' = read \o lines /\ tail' = K!Newest(tail \o lines, TailLen)
              /\ output' \in Seq(Int)
            BY <2>2, <3>1, RestIs, ConcatProperties DEF K!Push
        <3>3. os = "mac" => tail' = K!Newest(read', TailLen)
            BY <3>1, <3>2, NewestOfNewest
        <3>4. tail' \in Seq(Int) /\ read' \in Seq(Int)
            BY <3>1, <3>2, NewestIs
        <3> QED BY <1>2, <3>2, <3>3, <3>4 DEF K!Poll
    <2> QED BY <1>2, <2>1, <2>2 DEF K!Poll
<1>3. ASSUME NEW p \in DOMAIN procs, K!Write(p) PROVE LinesInv'
    BY <1>3, AppendProperties DEF K!Write
<1>4. CASE K!Reap
    BY <1>4, EmptySeq DEF K!Reap
<1>5. CASE K!Drain
    BY <1>5, EmptySeq DEF K!Drain
<1>6. CASE \/ \E yes \in BOOLEAN : K!Ask(yes) \/ K!Start(yes)
           \/ K!KillPid \/ K!TunnelEnds \/ K!Kill \/ K!Clock \/ \E p \in DOMAIN procs : K!Exit(p)
           \/ UNCHANGED K!vars
    <2>1. UNCHANGED <<os, pipe, output, tail, wrote, read>>
        BY <1>6 DEF K!Ask, K!Start, K!KillPid, K!TunnelEnds, K!Kill, K!Clock, K!Exit, K!vars
    <2> QED BY <2>1
<1> QED BY <1>1, <1>2, <1>3, <1>4, <1>5, <1>6 DEF K!Next

----------------------------------------------------------------------------
(* The tool that checks a configuration *)

\* What a success stands for: a child that ended by itself within the limits, and, of an
\* import, its text.
ToolInv ==
    /\ C!TypeOK /\ C!NothingLeft /\ C!SuccessIsWhole
    /\ pc = "open" => ~success /\ tool = "none"
    /\ tool \in {"none", "running"} => ~success
    /\ use = "import" /\ (tool = "zero" \/ success) => staging = "text" \/ (pc = "returned" /\ staging = "none")
    /\ success => tool = "reaped"
    /\ pc \in {"unwind", "returned"} /\ success => ~large

LEMMA ToolInit == C!Init => ToolInv
BY DEF C!Init, ToolInv, C!TypeOK, C!NothingLeft, C!SuccessIsWhole

LEMMA ToolStep == ToolInv /\ [C!Next]_(C!vars) => ToolInv'
<1> SUFFICES ASSUME ToolInv, [C!Next]_(C!vars) PROVE ToolInv'
    OBVIOUS
<1> USE DEF ToolInv, C!TypeOK, C!NothingLeft, C!SuccessIsWhole
<1>1. ASSUME NEW spawned \in BOOLEAN, C!Open(spawned) PROVE ToolInv'
    BY <1>1 DEF C!Open
<1>2. ASSUME NEW code \in {"zero", "failed"}, C!End(code) PROVE ToolInv'
    BY <1>2 DEF C!End
<1>3. CASE C!Write
    BY <1>3 DEF C!Write
<1>4. CASE C!Clock
    BY <1>4 DEF C!Clock
<1>5. CASE C!Round
    <2>1. pc = "wait" /\ pc' = "after" /\ UNCHANGED <<use, large, late, file, staging>>
        BY <1>5 DEF C!Round
    <2>2. CASE /\ tool \in {"zero", "failed"} /\ success' = (tool = "zero") /\ tool' = "reaped"
               /\ UNCHANGED error
        <3>1. CASE tool = "zero"
            <4>1. success' = TRUE
                BY <2>2, <3>1
            <4> QED BY <2>1, <2>2, <3>1, <4>1
        <3>2. CASE tool # "zero"
            <4>1. success' = FALSE
                BY <2>2, <3>2
            <4> QED BY <2>1, <2>2, <3>2, <4>1
        <3> QED BY <3>1, <3>2
    <2>3. CASE error' = TRUE /\ UNCHANGED <<success, tool>>
        BY <2>1, <2>3
    <2> QED BY <1>5, <2>2, <2>3 DEF C!Round
<1>6. CASE C!Timeout
    BY <1>6 DEF C!Timeout
<1>7. CASE C!Terminate
    BY <1>7 DEF C!Terminate
<1>8. CASE C!Judge
    BY <1>8 DEF C!Judge, C!Within
<1>9. CASE C!Unwind
    BY <1>9 DEF C!Unwind, C!Owner
<1>10. CASE C!Leave
    BY <1>10 DEF C!Leave
<1>11. CASE UNCHANGED C!vars
    BY <1>11 DEF C!vars
<1> QED BY <1>1, <1>2, <1>3, <1>4, <1>5, <1>6, <1>7, <1>8, <1>9, <1>10, <1>11 DEF C!Next

----------------------------------------------------------------------------
(* The editor of the global rules *)

EditedLists == [stamp : Nat, marks : Seq(Nat)]
StoredLists == [stamp : Nat, marks : Seq(Nat), version : Nat]

RulesTypes ==
    /\ rules \in EditedLists /\ accepted \in StoredLists /\ ruleStore \in StoredLists
    /\ editor \in [open : BOOLEAN, index : Nat, mark : Nat, fresh : BOOLEAN]
    /\ save \in [pc : {"none", "queued", "answer"}, list : EditedLists, ok : BOOLEAN]
    /\ load \in [pc : {"none", "reading", "read"}, list : StoredLists, valid : BOOLEAN]
    /\ loaded \in BOOLEAN /\ saving \in BOOLEAN /\ savePending \in BOOLEAN /\ dirty \in BOOLEAN
    /\ closing \in BOOLEAN /\ drawn \in BOOLEAN /\ reload \in BOOLEAN
    /\ ruleEdits \in 0 .. MaxEdits /\ opened \in 0 .. MaxOpened

\* Each list is known by its last edit: what is saved is newer than what is stored, what is
\* owed newer than what is saved, and without an unsaved edit everybody has the store's.
Stamps ==
    /\ rules.stamp = ruleEdits /\ ruleStore.stamp <= ruleEdits /\ ruleStore.version <= ruleStore.stamp
    /\ (saving <=> save.pc # "none") /\ (saving => dirty)
    /\ save.pc = "queued" => ruleStore.stamp < save.list.stamp
    /\ saving => ruleStore.stamp <= save.list.stamp /\ save.list.stamp <= ruleEdits
    /\ savePending => saving /\ save.list.stamp < ruleEdits
    /\ save.pc = "answer" /\ save.ok => G!List(ruleStore) = save.list
    /\ saving /\ ~savePending => save.list = rules
    /\ ~dirty => ruleStore.stamp = ruleEdits
    /\ ~dirty /\ load.valid /\ load.pc = "read" => load.list = ruleStore
    /\ accepted.version <= ruleStore.version
    /\ load.pc = "read" => load.list.version <= ruleStore.version
    /\ load.pc = "read" /\ load.valid => accepted.version <= load.list.version

Once(s) == \A i, j \in 1 .. Len(s) : s[i] = s[j] => i = j
UpTo(s, n) == \A i \in 1 .. Len(s) : s[i] <= n

OnceEach ==
    /\ Once(rules.marks) /\ Once(ruleStore.marks) /\ Once(save.list.marks) /\ Once(load.list.marks)
    /\ UpTo(rules.marks, opened) /\ UpTo(ruleStore.marks, opened)
    /\ UpTo(save.list.marks, opened) /\ UpTo(load.list.marks, opened)

\* The editor knows where its rule is, and a save it waits for has its rule.
EditorIsRight ==
    /\ editor.mark <= opened
    /\ editor.open /\ editor.fresh =>
           /\ editor.index <= Len(rules.marks)
           /\ \A j \in 1 .. Len(rules.marks) : rules.marks[j] = editor.mark => j = editor.index
    /\ closing => saving
    /\ closing /\ editor.open => \E j \in 1 .. Len(rules.marks) : rules.marks[j] = editor.mark

LEMMA EditBounds == MaxEdits \in Nat /\ MaxOpened \in Nat
BY BoundsAreNumbers

LEMMA EmptyRules == <<>> \in Seq(Nat) /\ Len(<<>>) = 0 /\ <<0>> \in Seq(Nat) /\ Len(<<0>>) = 1 /\ <<0>>[1] = 0
OBVIOUS

LEMMA ListIs ==
    ASSUME NEW s \in StoredLists
    PROVE  G!List(s) \in EditedLists /\ G!List(s).stamp = s.stamp /\ G!List(s).marks = s.marks
BY DEF G!List, StoredLists, EditedLists

LEMMA RulesInit == G!Init => RulesTypes /\ Stamps /\ OnceEach /\ EditorIsRight
<1> SUFFICES ASSUME G!Init PROVE RulesTypes /\ Stamps /\ OnceEach /\ EditorIsRight
    OBVIOUS
<1> USE EmptyRules, EditBounds
<1>1. G!Empty \in EditedLists /\ G!EmptyStore \in StoredLists
    BY DEF G!Empty, G!EmptyStore, EditedLists, StoredLists
<1>2. /\ ruleStore \in StoredLists /\ ruleStore.stamp = 0 /\ ruleStore.version = 0
      /\ ruleStore.marks \in {<<>>, <<0>>}
    <2>1. [G!EmptyStore EXCEPT !.marks = <<0>>] = [stamp |-> 0, marks |-> <<0>>, version |-> 0]
        BY DEF G!EmptyStore
    <2>2. ruleStore = [stamp |-> 0, marks |-> <<>>, version |-> 0] \/ ruleStore = [stamp |-> 0, marks |-> <<0>>, version |-> 0]
        BY <2>1 DEF G!Init, G!EmptyStore
    <2>3. CASE ruleStore = [stamp |-> 0, marks |-> <<>>, version |-> 0]
        BY <2>3 DEF StoredLists
    <2>4. CASE ruleStore = [stamp |-> 0, marks |-> <<0>>, version |-> 0]
        BY <2>4 DEF StoredLists
    <2> QED BY <2>2, <2>3, <2>4
<1>3. RulesTypes
    <2>1. rules \in EditedLists /\ accepted \in StoredLists /\ ruleStore \in StoredLists
        BY <1>1, <1>2 DEF G!Init
    <2>2. save \in [pc : {"none", "queued", "answer"}, list : EditedLists, ok : BOOLEAN]
        BY <1>1 DEF G!Init, G!NoSave
    <2>3. load \in [pc : {"none", "reading", "read"}, list : StoredLists, valid : BOOLEAN]
        BY <1>1 DEF G!Init, G!NoLoad
    <2>4. editor \in [open : BOOLEAN, index : Nat, mark : Nat, fresh : BOOLEAN]
        BY DEF G!Init, G!Closed
    <2>5. ruleEdits \in 0 .. MaxEdits /\ opened \in 0 .. MaxOpened
        BY DEF G!Init
    <2>6. loaded \in BOOLEAN /\ saving \in BOOLEAN /\ savePending \in BOOLEAN /\ dirty \in BOOLEAN
        BY DEF G!Init
    <2>7. closing \in BOOLEAN /\ drawn \in BOOLEAN /\ reload \in BOOLEAN
        BY DEF G!Init
    <2> QED BY <2>1, <2>2, <2>3, <2>4, <2>5, <2>6, <2>7 DEF RulesTypes
<1>4. Stamps
    BY <1>2 DEF Stamps, G!Init, G!NoSave, G!NoLoad, G!Empty, G!EmptyStore
<1>5. OnceEach
    BY <1>2 DEF OnceEach, Once, UpTo, G!Init, G!NoSave, G!NoLoad, G!Empty, G!EmptyStore
<1>6. EditorIsRight
    BY DEF EditorIsRight, G!Init, G!Closed
<1> QED BY <1>3, <1>4, <1>5, <1>6

\* What an edit does.
LEMMA Persisted ==
    ASSUME RulesTypes, NEW s \in Seq(Nat), G!Persist(s), ruleEdits < MaxEdits
    PROVE  /\ rules' = [stamp |-> ruleEdits + 1, marks |-> s] /\ ruleEdits' = ruleEdits + 1
           /\ rules' \in EditedLists /\ ruleEdits' \in 0 .. MaxEdits
           /\ dirty' = TRUE /\ saving' = TRUE
           /\ load' = [load EXCEPT !.valid = FALSE]
           /\ \/ saving /\ savePending' = TRUE /\ UNCHANGED save
              \/ ~saving /\ savePending' = savePending
                 /\ save' = [pc |-> "queued", list |-> rules', ok |-> FALSE]
<1>1. ruleEdits \in Nat /\ MaxEdits \in Nat
    BY EditBounds DEF RulesTypes
<1>2. rules' = [stamp |-> ruleEdits + 1, marks |-> s] /\ ruleEdits' = ruleEdits + 1 /\ dirty' = TRUE
    BY DEF G!Persist
<1>3. rules' \in EditedLists /\ ruleEdits' \in 0 .. MaxEdits
    BY <1>1, <1>2 DEF EditedLists
<1>4. CASE saving
    BY <1>2, <1>3, <1>4 DEF G!Persist, RulesTypes
<1>5. CASE ~saving
    BY <1>2, <1>3, <1>5 DEF G!Persist, G!Dispatched
<1> QED BY <1>4, <1>5 DEF RulesTypes

\* What an answer does.
LEMMA Answered ==
    ASSUME RulesTypes, Stamps, G!Answer
    PROVE  /\ save.pc = "answer" /\ saving
           /\ \/ save.ok /\ accepted' = ruleStore /\ loaded' = TRUE
              \/ ~save.ok /\ UNCHANGED <<accepted, loaded>>
           /\ \/ save.ok /\ ~savePending /\ rules' = G!List(ruleStore) /\ dirty' = FALSE
              \/ (~save.ok \/ savePending) /\ UNCHANGED <<rules, dirty>>
           /\ closing' \in BOOLEAN /\ (closing' => closing /\ save.ok /\ savePending)
           /\ \/ closing /\ save.ok /\ ~savePending /\ editor' = G!Closed
              \/ ~(closing /\ save.ok /\ ~savePending) /\ editor' = [editor EXCEPT !.fresh = @ /\ ~save.ok]
           /\ savePending' = FALSE
           /\ \/ /\ savePending /\ saving' = TRUE
                 /\ save' = [pc |-> "queued", list |-> rules', ok |-> FALSE]
                 /\ load' = [load EXCEPT !.valid = FALSE]
              \/ /\ ~savePending /\ saving' = FALSE /\ save' = G!NoSave
                 /\ load' = [load EXCEPT !.valid = @ /\ ~save.ok]
           /\ UNCHANGED <<drawn, ruleStore, ruleEdits, opened>> /\ reload' \in BOOLEAN
<1>1. save.pc = "answer" /\ saving /\ save.ok \in BOOLEAN
    BY DEF G!Answer, Stamps, RulesTypes
<1>2. \/ save.ok /\ accepted' = ruleStore /\ loaded' = TRUE
      \/ ~save.ok /\ UNCHANGED <<accepted, loaded>>
    BY DEF G!Answer
<1>3. \/ save.ok /\ ~savePending /\ rules' = G!List(ruleStore) /\ dirty' = FALSE
      \/ (~save.ok \/ savePending) /\ UNCHANGED <<rules, dirty>>
    BY DEF G!Answer, G!PublishSaved
<1>4. closing' \in BOOLEAN /\ (closing' => closing /\ save.ok /\ savePending) /\ reload' \in BOOLEAN
    BY <1>1 DEF G!Answer, RulesTypes
<1>5. \/ closing /\ save.ok /\ ~savePending /\ editor' = G!Closed
      \/ ~(closing /\ save.ok /\ ~savePending) /\ editor' = [editor EXCEPT !.fresh = @ /\ ~save.ok]
    BY DEF G!Answer, G!Closes
<1>6. \/ /\ savePending /\ saving' = TRUE
         /\ save' = [pc |-> "queued", list |-> rules', ok |-> FALSE]
         /\ load' = [load EXCEPT !.valid = FALSE]
      \/ /\ ~savePending /\ saving' = FALSE /\ save' = G!NoSave
         /\ load' = [load EXCEPT !.valid = @ /\ ~save.ok]
    BY DEF G!Answer, G!Dispatched
<1>7. savePending' = FALSE /\ UNCHANGED <<drawn, ruleStore, ruleEdits, opened>>
    BY DEF G!Answer
<1> QED BY <1>1, <1>2, <1>3, <1>4, <1>5, <1>6, <1>7

\* What the store does with a save.
LEMMA Committed ==
    ASSUME RulesTypes, Stamps, NEW accept \in BOOLEAN, NEW ok \in BOOLEAN, G!Commit(accept, ok)
    PROVE  /\ save.pc = "queued" /\ (ok => accept)
           /\ \/ /\ accept /\ ruleStore' = [stamp |-> save.list.stamp, marks |-> save.list.marks, version |-> ruleStore.version + 1]
                 /\ ruleStore' \in StoredLists /\ G!List(ruleStore)' = save.list
              \/ UNCHANGED ruleStore /\ ~accept
           /\ save' = [save EXCEPT !.pc = "answer", !.ok = ok]
           /\ UNCHANGED <<rules, accepted, loaded, saving, savePending, dirty, editor, closing, drawn,
                          load, reload, ruleEdits, opened>>
<1>1. G!List(ruleStore) # save.list
    <2>1. save.pc = "queued" /\ ruleStore.stamp < save.list.stamp
        BY DEF G!Commit, Stamps
    <2>2. G!List(ruleStore).stamp = ruleStore.stamp /\ ruleStore.stamp \in Nat
        BY ListIs DEF RulesTypes, StoredLists
    <2>3. save.list.stamp \in Nat
        BY DEF RulesTypes, EditedLists
    <2> QED BY <2>1, <2>2, <2>3
<1>2. CASE accept
    <2>1. ruleStore' = [stamp |-> save.list.stamp, marks |-> save.list.marks, version |-> ruleStore.version + 1]
        BY <1>1, <1>2 DEF G!Commit
    <2>2. ruleStore' \in StoredLists
        BY SMTT(30), <2>1 DEF RulesTypes, EditedLists, StoredLists
    <2>3. G!List(ruleStore)' = save.list
        BY <2>1 DEF G!List, RulesTypes, EditedLists
    <2> QED BY <1>2, <2>1, <2>2, <2>3 DEF G!Commit
<1>3. CASE ~accept
    BY <1>3 DEF G!Commit
<1> QED BY <1>2, <1>3

\* The lists an edit makes.
LEMMA Removing ==
    ASSUME NEW s \in Seq(Nat), NEW i \in 1 .. Len(s), NEW n \in Nat, Once(s), UpTo(s, n)
    PROVE  G!RemoveAt(s, i) \in Seq(Nat) /\ Once(G!RemoveAt(s, i)) /\ UpTo(G!RemoveAt(s, i), n)
<1> DEFINE a == SubSeq(s, 1, i - 1)
           b == SubSeq(s, i + 1, Len(s))
           r == a \o b
<1>1. Len(s) \in Nat /\ i \in Nat /\ i >= 1 /\ i <= Len(s)
    BY LenProperties
<1>2. a \in Seq(Nat) /\ Len(a) = i - 1 /\ \A k \in 1 .. Len(a) : a[k] = s[k]
    BY <1>1, SubSeqProperties
<1>3. b \in Seq(Nat) /\ Len(b) = Len(s) - i /\ \A k \in 1 .. Len(b) : b[k] = s[i + k]
    BY <1>1, SubSeqProperties
<1> HIDE DEF a, b
<1>4. /\ r \in Seq(Nat)
      /\ Len(r) = Len(a) + Len(b)
      /\ \A k \in 1 .. Len(r) : r[k] = IF k <= Len(a) THEN a[k] ELSE b[k - Len(a)]
    <2>1. a \in Seq(Nat) /\ b \in Seq(Nat)
        BY <1>2, <1>3
    <2> QED BY <2>1, ConcatProperties
<1> HIDE DEF r
<1>5. Len(r) = Len(s) - 1 /\ \A k \in 1 .. Len(r) : r[k] = IF k < i THEN s[k] ELSE s[k + 1]
    <2>2. Len(r) = Len(s) - 1
        BY <1>1, <1>2, <1>3, <1>4
    <2>1. ASSUME NEW k \in 1 .. Len(r) PROVE r[k] = IF k < i THEN s[k] ELSE s[k + 1]
        <3>1. CASE k < i
            <4>1. k \in 1 .. Len(a) /\ k <= Len(a)
                BY <1>1, <1>2, <3>1
            <4> QED BY <1>2, <1>4, <3>1, <4>1
        <3>2. CASE ~(k < i)
            <4>1. ~(k <= Len(a)) /\ k - Len(a) \in 1 .. Len(b) /\ i + (k - Len(a)) = k + 1
                BY <1>1, <1>2, <1>3, <2>2, <3>2
            <4>2. r[k] = b[k - Len(a)]
                BY <1>4, <4>1
            <4>3. b[k - Len(a)] = s[i + (k - Len(a))]
                BY <1>3, <4>1
            <4> QED BY <3>2, <4>1, <4>2, <4>3
        <3> QED BY <3>1, <3>2
    <2> QED BY <2>1, <2>2
<1>6. Once(r) /\ UpTo(r, n)
    <2>1. ASSUME NEW k \in 1 .. Len(r), NEW l \in 1 .. Len(r), r[k] = r[l] PROVE k = l
        <3> DEFINE x == IF k < i THEN k ELSE k + 1
                   y == IF l < i THEN l ELSE l + 1
        <3>3. k \in Nat /\ l \in Nat /\ k >= 1 /\ l >= 1 /\ k <= Len(s) - 1 /\ l <= Len(s) - 1
            BY <1>1, <1>5
        <3>4. x \in 1 .. Len(s) /\ y \in 1 .. Len(s)
            BY <1>1, <3>3
        <3>1. x \in 1 .. Len(s) /\ y \in 1 .. Len(s) /\ r[k] = s[x] /\ r[l] = s[y]
            BY <1>5, <3>4
        <3>2. x = y
            BY <2>1, <3>1 DEF Once
        <3> QED BY <3>2, <3>3
    <2>2. ASSUME NEW k \in 1 .. Len(r) PROVE r[k] <= n
        <3>1. CASE k < i
            BY <1>1, <1>5, <3>1 DEF UpTo
        <3>2. CASE ~(k < i)
            <4>1. k + 1 \in 1 .. Len(s) /\ r[k] = s[k + 1]
                BY <1>1, <1>5, <3>2
            <4> QED BY <4>1 DEF UpTo
        <3> QED BY <3>1, <3>2
    <2> QED BY <2>1, <2>2 DEF Once, UpTo
<1> QED BY <1>4, <1>6 DEF G!RemoveAt, r, a, b

LEMMA Moving ==
    ASSUME NEW s \in Seq(Nat), NEW i \in 2 .. Len(s), NEW n \in Nat, Once(s), UpTo(s, n)
    PROVE  LET r == [s EXCEPT ![i] = s[i - 1], ![i - 1] = s[i]]
           IN  r \in Seq(Nat) /\ Once(r) /\ UpTo(r, n)
<1> DEFINE r == [s EXCEPT ![i] = s[i - 1], ![i - 1] = s[i]]
           at(k) == IF k = i - 1 THEN i ELSE IF k = i THEN i - 1 ELSE k
<1>1. Len(s) \in Nat /\ i \in Nat /\ i - 1 \in 1 .. Len(s) /\ i \in 1 .. Len(s)
    BY LenProperties
<1>2. r \in Seq(Nat) /\ Len(r) = Len(s)
    BY <1>1, ExceptSeq
<1>3. \A k \in 1 .. Len(s) : r[k] = s[at(k)]
    BY <1>1
<1>4. \A k \in 1 .. Len(s) : at(k) \in 1 .. Len(s)
    BY <1>1
<1>5. \A k, l \in 1 .. Len(s) : at(k) = at(l) => k = l
    BY <1>1
<1> HIDE DEF r, at
<1>6. Once(r) /\ UpTo(r, n)
    <2>1. Once(r)
        <3>1. ASSUME NEW k \in 1 .. Len(r), NEW l \in 1 .. Len(r), r[k] = r[l] PROVE k = l
            <4>1. s[at(k)] = s[at(l)] /\ at(k) \in 1 .. Len(s) /\ at(l) \in 1 .. Len(s)
                BY <1>2, <1>3, <1>4, <3>1
            <4>2. at(k) = at(l)
                BY <4>1 DEF Once
            <4> QED BY <1>2, <1>5, <4>2
        <3> QED BY <3>1 DEF Once
    <2>2. UpTo(r, n)
        BY <1>2, <1>3, <1>4 DEF UpTo
    <2> QED BY <2>1, <2>2
<1> QED BY <1>2, <1>6 DEF r

\* The rule an editor writes is in the list once, and the editor knows where.
Written(s, k, m) == IF k \in 1 .. Len(s) THEN [s EXCEPT ![k] = m] ELSE Append(s, m)
Place(s, k, m) == IF k = 0 THEN Len(Written(s, k, m)) ELSE k

LEMMA Writing ==
    ASSUME NEW s \in Seq(Nat), NEW m \in Nat, NEW k \in Nat, NEW n \in Nat, m <= n, k <= Len(s),
           Once(s), UpTo(s, n), \A j \in 1 .. Len(s) : s[j] = m => j = k
    PROVE  /\ Written(s, k, m) \in Seq(Nat) /\ Once(Written(s, k, m)) /\ UpTo(Written(s, k, m), n)
           /\ Place(s, k, m) \in 1 .. Len(Written(s, k, m)) /\ Written(s, k, m)[Place(s, k, m)] = m
           /\ \A j \in 1 .. Len(Written(s, k, m)) : Written(s, k, m)[j] = m => j = Place(s, k, m)
<1> DEFINE r == IF k \in 1 .. Len(s) THEN [s EXCEPT ![k] = m] ELSE Append(s, m)
           p == IF k = 0 THEN Len(r) ELSE k
<1>1. Len(s) \in Nat
    BY LenProperties
<1>2. ASSUME k \in 1 .. Len(s)
      PROVE  /\ r \in Seq(Nat) /\ Once(r) /\ UpTo(r, n)
             /\ p \in Nat /\ p \in 1 .. Len(r) /\ r[p] = m
             /\ \A j \in 1 .. Len(r) : r[j] = m => j = p
    <2>1. r \in Seq(Nat) /\ Len(r) = Len(s) /\ p = k
        BY <1>1, <1>2, ExceptSeq
    <2>2. \A j \in 1 .. Len(s) : r[j] = IF j = k THEN m ELSE s[j]
        BY <1>2
    <2> HIDE DEF r
    <2>3. p \in Nat /\ p \in 1 .. Len(r) /\ r[p] = m
        BY <1>1, <1>2, <2>1, <2>2
    <2>4. Once(r) /\ UpTo(r, n)
        BY <1>1, <1>2, <2>1, <2>2 DEF Once, UpTo
    <2>5. \A j \in 1 .. Len(r) : r[j] = m => j = p
        BY <1>1, <1>2, <2>1, <2>2
    <2> QED BY <2>1, <2>3, <2>4, <2>5
<1>3. ASSUME k \notin 1 .. Len(s)
      PROVE  /\ r \in Seq(Nat) /\ Once(r) /\ UpTo(r, n)
             /\ p \in Nat /\ p \in 1 .. Len(r) /\ r[p] = m
             /\ \A j \in 1 .. Len(r) : r[j] = m => j = p
    <2>1. k = 0 /\ r = Append(s, m)
        BY <1>1, <1>3
    <2>2. r \in Seq(Nat) /\ Len(r) = Len(s) + 1 /\ p = Len(s) + 1
        BY <1>1, <2>1, AppendProperties
    <2>3. \A j \in 1 .. Len(s) : r[j] = s[j] /\ s[j] # m
        BY <1>1, <2>1, AppendProperties
    <2>4. r[Len(s) + 1] = m
        BY <1>1, <2>1, AppendProperties
    <2> HIDE DEF r, p
    <2>6. Once(r)
        <3>1. ASSUME NEW i \in 1 .. Len(r), NEW j \in 1 .. Len(r), r[i] = r[j] PROVE i = j
            <4>1. CASE i \in 1 .. Len(s) /\ j \in 1 .. Len(s)
                BY <2>3, <3>1, <4>1 DEF Once
            <4>2. CASE i \notin 1 .. Len(s) /\ j \in 1 .. Len(s)
                <5>1. i = Len(s) + 1
                    BY <1>1, <2>2, <4>2
                <5> QED BY <2>3, <2>4, <3>1, <4>2, <5>1
            <4>3. CASE i \in 1 .. Len(s) /\ j \notin 1 .. Len(s)
                <5>1. j = Len(s) + 1
                    BY <1>1, <2>2, <4>3
                <5> QED BY <2>3, <2>4, <3>1, <4>3, <5>1
            <4>4. CASE i \notin 1 .. Len(s) /\ j \notin 1 .. Len(s)
                BY <1>1, <2>2, <4>4
            <4> QED BY <4>1, <4>2, <4>3, <4>4
        <3> QED BY <3>1 DEF Once
    <2>7. UpTo(r, n)
        BY SMTT(30), <1>1, <2>2, <2>3, <2>4 DEF UpTo
    <2> QED BY <1>1, <2>2, <2>3, <2>4, <2>6, <2>7
<1>4. /\ r \in Seq(Nat) /\ Once(r) /\ UpTo(r, n)
      /\ p \in Nat /\ p \in 1 .. Len(r) /\ r[p] = m
      /\ \A j \in 1 .. Len(r) : r[j] = m => j = p
    BY <1>2, <1>3
<1>5. r = Written(s, k, m) /\ p = Place(s, k, m)
    BY DEF Written, Place
<1> HIDE DEF r, p
<1> QED BY <1>4, <1>5

\* An edit of the list, by the editor or of a row.
EditOf(s) ==
    /\ G!Persist(s) /\ Once(s) /\ UpTo(s, opened) /\ ruleEdits < MaxEdits
    /\ UNCHANGED <<accepted, loaded, drawn, reload, ruleStore, opened>>
    /\ \/ ~editor.open /\ UNCHANGED <<editor, closing>>
       \/ /\ closing' = TRUE /\ ~saving
          /\ \E p \in 1 .. Len(s) : /\ editor' = [editor EXCEPT !.index = p] /\ s[p] = editor.mark
                                  /\ \A j \in 1 .. Len(s) : s[j] = editor.mark => j = p

LEMMA Edited ==
    ASSUME RulesTypes, OnceEach, EditorIsRight,
           G!SaveEditor \/ \E i \in 0 .. Len(rules.marks) : G!Toggle(i) \/ G!Move(i)
    PROVE  \E s \in Seq(Nat) : EditOf(s)
<1>1. /\ rules.marks \in Seq(Nat) /\ opened \in Nat /\ Once(rules.marks) /\ UpTo(rules.marks, opened)
      /\ editor.mark \in Nat /\ editor.index \in Nat /\ editor.mark <= opened
    BY EditBounds DEF RulesTypes, EditedLists, OnceEach, EditorIsRight
<1>2. CASE G!SaveEditor
    <2> DEFINE k == editor.index
               m == editor.mark
               r == Written(rules.marks, k, m)
               q == Place(rules.marks, k, m)
    <2>1. k <= Len(rules.marks) /\ \A j \in 1 .. Len(rules.marks) : rules.marks[j] = m => j = k
        BY <1>2 DEF G!SaveEditor, EditorIsRight
    <2>2. /\ r \in Seq(Nat) /\ Once(r) /\ UpTo(r, opened)
          /\ q \in 1 .. Len(r) /\ r[q] = m
          /\ \A j \in 1 .. Len(r) : r[j] = m => j = q
        BY <1>1, <2>1, Writing
    <2>3. /\ G!Persist(r) /\ editor' = [editor EXCEPT !.index = q] /\ closing' = TRUE /\ ~saving
          /\ ruleEdits < MaxEdits /\ UNCHANGED <<accepted, loaded, drawn, reload, ruleStore, opened>>
        BY <1>2 DEF G!SaveEditor, G!Placed, Written, Place
    <2> HIDE DEF r, q
    <2>4. \E p \in 1 .. Len(r) : /\ editor' = [editor EXCEPT !.index = p] /\ r[p] = editor.mark
                               /\ \A j \in 1 .. Len(r) : r[j] = editor.mark => j = p
        BY <2>2, <2>3
    <2> QED BY <2>2, <2>3, <2>4 DEF EditOf
<1>3. ASSUME NEW i \in 0 .. Len(rules.marks), G!Toggle(i) PROVE \E s \in Seq(Nat) : EditOf(s)
    <2>1. PICK s \in {rules.marks, G!RemoveAt(rules.marks, i)} : G!Persist(s)
        BY <1>3 DEF G!Toggle
    <2>2. i \in 1 .. Len(rules.marks)
        BY <1>3 DEF G!Toggle
    <2>3. s \in Seq(Nat) /\ Once(s) /\ UpTo(s, opened)
        BY <1>1, <2>1, <2>2, Removing
    <2> QED BY <1>3, <2>1, <2>3 DEF EditOf, G!Toggle
<1>4. ASSUME NEW i \in 0 .. Len(rules.marks), G!Move(i) PROVE \E s \in Seq(Nat) : EditOf(s)
    <2> DEFINE s == [rules.marks EXCEPT ![i] = rules.marks[i - 1], ![i - 1] = rules.marks[i]]
    <2>1. G!Persist(s) /\ i \in 2 .. Len(rules.marks)
        BY <1>4 DEF G!Move
    <2>2. s \in Seq(Nat) /\ Once(s) /\ UpTo(s, opened)
        BY <1>1, <2>1, Moving
    <2> HIDE DEF s
    <2> QED BY <1>4, <2>1, <2>2 DEF EditOf, G!Move
<1> QED BY <1>2, <1>3, <1>4

\* The steps of the editor, an edit being one of them.
EditorNext ==
    \/ \E accept, ok \in BOOLEAN : G!Commit(accept, ok)
    \/ G!Answer \/ G!Load \/ G!Read \/ G!PublishLoaded \/ G!Changed \/ G!Draw \/ G!Cancel
    \/ \E i \in 0 .. Len(rules.marks) : G!OpenEditor(i)
    \/ \E s \in Seq(Nat) : EditOf(s)
    \/ UNCHANGED G!vars

LEMMA EditorSteps ==
    ASSUME RulesTypes, OnceEach, EditorIsRight, [G!Next]_(G!vars)
    PROVE  EditorNext
BY Edited DEF EditorNext, G!Next

LEMMA TypesStep ==
    ASSUME RulesTypes, Stamps, OnceEach, EditorIsRight, EditorNext
    PROVE  RulesTypes'
<1> USE EditBounds DEF RulesTypes
<1>1. ASSUME NEW accept \in BOOLEAN, NEW ok \in BOOLEAN, G!Commit(accept, ok) PROVE RulesTypes'
    <2>1. ruleStore' \in StoredLists
        BY <1>1, Committed
    <2>2. save' \in [pc : {"none", "queued", "answer"}, list : EditedLists, ok : BOOLEAN]
        BY <1>1 DEF G!Commit
    <2> QED BY <1>1, <2>1, <2>2 DEF G!Commit
<1>2. CASE G!Answer
    <2>1. rules' \in EditedLists /\ accepted' \in StoredLists /\ loaded' \in BOOLEAN /\ dirty' \in BOOLEAN
        BY <1>2, Answered, ListIs
    <2>2. editor' \in [open : BOOLEAN, index : Nat, mark : Nat, fresh : BOOLEAN]
        <3>1. (editor.fresh /\ ~save.ok) \in BOOLEAN
            OBVIOUS
        <3>2. editor' = G!Closed \/ editor' = [editor EXCEPT !.fresh = @ /\ ~save.ok]
            BY <1>2, Answered
        <3>3. CASE editor' = G!Closed
            BY <3>3 DEF G!Closed
        <3>4. CASE editor' = [editor EXCEPT !.fresh = @ /\ ~save.ok]
            <4>1. editor' = [open |-> editor.open, index |-> editor.index, mark |-> editor.mark,
                             fresh |-> editor.fresh /\ ~save.ok]
                BY <3>4
            <4> QED BY <3>1, <4>1
        <3> QED BY <3>2, <3>3, <3>4
    <2>3. save' \in [pc : {"none", "queued", "answer"}, list : EditedLists, ok : BOOLEAN]
        <3>1. G!NoSave \in [pc : {"none", "queued", "answer"}, list : EditedLists, ok : BOOLEAN]
            BY EmptyRules DEF G!NoSave, G!Empty, EditedLists
        <3>2. save' = [pc |-> "queued", list |-> rules', ok |-> FALSE] \/ save' = G!NoSave
            BY <1>2, Answered
        <3>3. CASE save' = [pc |-> "queued", list |-> rules', ok |-> FALSE]
            BY <2>1, <3>3
        <3> QED BY <3>1, <3>2, <3>3
    <2>4. load' \in [pc : {"none", "reading", "read"}, list : StoredLists, valid : BOOLEAN]
        BY <1>2, Answered
    <2>5. /\ saving' \in BOOLEAN /\ savePending' \in BOOLEAN /\ closing' \in BOOLEAN /\ reload' \in BOOLEAN
          /\ UNCHANGED <<drawn, ruleStore, ruleEdits, opened>>
        BY <1>2, Answered
    <2> QED BY <2>1, <2>2, <2>3, <2>4, <2>5
<1>3. CASE G!Load
    <2>1. G!EmptyStore \in StoredLists
        BY EmptyRules DEF G!EmptyStore, StoredLists
    <2>2. load' = [pc |-> "reading", list |-> G!EmptyStore, valid |-> TRUE] /\ reload' = FALSE
        BY <1>3 DEF G!Load
    <2>3. load' \in [pc : {"none", "reading", "read"}, list : StoredLists, valid : BOOLEAN]
        BY <2>1, <2>2
    <2>4. UNCHANGED <<rules, accepted, loaded, saving, savePending, dirty, editor, closing, drawn, save, ruleStore,
                      ruleEdits, opened>>
        BY <1>3 DEF G!Load
    <2> QED BY <2>2, <2>3, <2>4
<1>4. CASE G!Read
    <2>1. load' = [load EXCEPT !.pc = "read", !.list = ruleStore]
        BY <1>4 DEF G!Read
    <2>2. load' \in [pc : {"none", "reading", "read"}, list : StoredLists, valid : BOOLEAN]
        BY <2>1
    <2>3. UNCHANGED <<rules, accepted, loaded, saving, savePending, dirty, editor, closing, drawn, save, reload,
                      ruleStore, ruleEdits, opened>>
        BY <1>4 DEF G!Read
    <2> QED BY <2>2, <2>3
<1>5. CASE G!PublishLoaded
    <2>1. G!NoLoad \in [pc : {"none", "reading", "read"}, list : StoredLists, valid : BOOLEAN]
        BY EmptyRules DEF G!NoLoad, G!EmptyStore, StoredLists
    <2>2. rules' \in EditedLists /\ accepted' \in StoredLists /\ loaded' \in BOOLEAN
        <3>1. load.list \in StoredLists
            OBVIOUS
        <3>2. \/ accepted' = load.list /\ rules' \in {rules, G!List(load.list)} /\ loaded' = TRUE
              \/ UNCHANGED <<accepted, rules, loaded>>
            BY <1>5 DEF G!PublishLoaded
        <3> QED BY <3>1, <3>2, ListIs
    <2>3. editor' \in [open : BOOLEAN, index : Nat, mark : Nat, fresh : BOOLEAN]
        BY <1>5 DEF G!PublishLoaded
    <2> QED BY <1>5, <2>1, <2>2, <2>3 DEF G!PublishLoaded
<1>6. CASE G!Changed
    <2>1. editor' = [editor EXCEPT !.fresh = FALSE] /\ reload' = TRUE
        BY <1>6 DEF G!Changed
    <2>2. editor' \in [open : BOOLEAN, index : Nat, mark : Nat, fresh : BOOLEAN]
        BY <2>1
    <2>3. UNCHANGED <<rules, accepted, loaded, saving, savePending, dirty, closing, drawn, save, load, ruleStore,
                      ruleEdits, opened>>
        BY <1>6 DEF G!Changed
    <2> QED BY <2>1, <2>2, <2>3
<1>7. CASE G!Draw
    BY <1>7 DEF G!Draw
<1>8. CASE G!Cancel
    BY <1>8 DEF G!Cancel, G!Closed
<1>9. ASSUME NEW i \in 0 .. Len(rules.marks), G!OpenEditor(i) PROVE RulesTypes'
    BY <1>9 DEF G!OpenEditor
<1>10. ASSUME NEW s \in Seq(Nat), EditOf(s) PROVE RulesTypes'
    <2>1. /\ rules' \in EditedLists /\ ruleEdits' \in 0 .. MaxEdits /\ dirty' = TRUE /\ saving' = TRUE
          /\ savePending' \in BOOLEAN
        BY <1>10, Persisted DEF EditOf
    <2>2. load' \in [pc : {"none", "reading", "read"}, list : StoredLists, valid : BOOLEAN]
        BY <1>10, Persisted DEF EditOf
    <2>3. save' \in [pc : {"none", "queued", "answer"}, list : EditedLists, ok : BOOLEAN]
        <3>1. UNCHANGED save \/ save' = [pc |-> "queued", list |-> rules', ok |-> FALSE]
            BY <1>10, Persisted DEF EditOf
        <3>2. CASE save' = [pc |-> "queued", list |-> rules', ok |-> FALSE]
            BY <2>1, <3>2
        <3> QED BY <3>1, <3>2
    <2>4. editor' \in [open : BOOLEAN, index : Nat, mark : Nat, fresh : BOOLEAN] /\ closing' \in BOOLEAN
        <3>1. CASE UNCHANGED <<editor, closing>>
            BY <3>1
        <3>2. ASSUME NEW p \in 1 .. Len(s), editor' = [editor EXCEPT !.index = p], closing' = TRUE
              PROVE  editor' \in [open : BOOLEAN, index : Nat, mark : Nat, fresh : BOOLEAN] /\ closing' \in BOOLEAN
            <4>1. p \in Nat
                BY <3>2
            <4> QED BY <3>2, <4>1
        <3> QED BY <1>10, <3>1, <3>2 DEF EditOf
    <2> QED BY <1>10, <2>1, <2>2, <2>3, <2>4 DEF EditOf
<1>11. CASE UNCHANGED G!vars
    BY <1>11 DEF G!vars
<1> QED BY <1>1, <1>2, <1>3, <1>4, <1>5, <1>6, <1>7, <1>8, <1>9, <1>10, <1>11 DEF EditorNext

LEMMA StampsStep ==
    ASSUME RulesTypes, Stamps, OnceEach, EditorIsRight, EditorNext
    PROVE  Stamps'
<1>0. /\ rules.stamp \in Nat /\ ruleStore.stamp \in Nat /\ ruleStore.version \in Nat /\ save.list.stamp \in Nat
      /\ accepted.version \in Nat /\ load.list.version \in Nat /\ ruleEdits \in Nat
      /\ save.pc \in {"none", "queued", "answer"}
    BY SMTT(30), EditBounds DEF RulesTypes, StoredLists, EditedLists
<1>1. ASSUME NEW accept \in BOOLEAN, NEW ok \in BOOLEAN, G!Commit(accept, ok) PROVE Stamps'
    <2>1. /\ save.pc = "queued" /\ save'.pc = "answer" /\ save'.ok = ok /\ save'.list = save.list
          /\ (ok => accept)
        <3>1. save.pc = "queued" /\ (ok => accept) /\ save' = [save EXCEPT !.pc = "answer", !.ok = ok]
            BY <1>1, Committed
        <3>2. save \in [pc : {"none", "queued", "answer"}, list : EditedLists, ok : BOOLEAN]
            BY DEF RulesTypes
        <3>3. save' = [pc |-> "answer", list |-> save.list, ok |-> ok]
            BY <3>1, <3>2
        <3> QED BY <3>1, <3>3
    <2>2. saving /\ dirty /\ ruleStore.stamp < save.list.stamp /\ save.list.stamp <= ruleEdits
        BY <2>1 DEF Stamps
    <2>3. UNCHANGED <<rules, accepted, loaded, saving, savePending, dirty, load, ruleEdits>>
        BY <1>1, Committed
    <2>4. \/ /\ ruleStore'.stamp = save.list.stamp /\ ruleStore'.version = ruleStore.version + 1
             /\ G!List(ruleStore)' = save.list
          \/ UNCHANGED ruleStore /\ ~ok
        <3>1. CASE /\ ruleStore' = [stamp |-> save.list.stamp, marks |-> save.list.marks, version |-> ruleStore.version + 1]
                   /\ G!List(ruleStore)' = save.list
            BY <3>1
        <3>2. CASE UNCHANGED ruleStore /\ ~accept
            BY <2>1, <3>2
        <3> QED BY <1>1, <3>1, <3>2, Committed
    <2>5. ruleStore'.stamp <= save.list.stamp /\ ruleStore'.version <= ruleStore'.stamp
          /\ ruleStore'.version >= ruleStore.version /\ ruleStore'.version \in Nat /\ ruleStore'.stamp \in Nat
        BY <1>0, <2>2, <2>4 DEF Stamps
    <2>6. ok => G!List(ruleStore)' = save'.list
        BY <2>1, <2>4
    <2> QED BY <1>0, <2>1, <2>2, <2>3, <2>5, <2>6 DEF Stamps
<1>2. CASE G!Answer
    <2>1. /\ save.pc = "answer" /\ saving /\ dirty
          /\ ruleStore.stamp <= save.list.stamp /\ save.list.stamp <= ruleEdits
          /\ UNCHANGED <<ruleStore, ruleEdits>> /\ savePending' = FALSE
        BY <1>2, Answered DEF Stamps
    <2>2. accepted'.version <= ruleStore.version
        <3>1. accepted' = ruleStore \/ accepted' = accepted
            BY <1>2, Answered
        <3>2. accepted.version <= ruleStore.version
            BY DEF Stamps
        <3> QED BY <1>0, <3>1, <3>2
    <2>3. CASE savePending
        <3>1. /\ UNCHANGED <<rules, dirty>> /\ saving' = TRUE
              /\ save'.pc = "queued" /\ save'.list = rules' /\ load' = [load EXCEPT !.valid = FALSE]
            BY <1>2, <2>3, Answered
        <3>2. save.list.stamp < ruleEdits
            BY <2>3 DEF Stamps
        <3>3. load'.valid = FALSE /\ load'.pc = load.pc /\ load'.list = load.list
            BY <3>1 DEF RulesTypes
        <3> QED BY <1>0, <2>1, <2>2, <3>1, <3>2, <3>3 DEF Stamps
    <2>4. CASE ~savePending
        <3>1. saving' = FALSE /\ save' = G!NoSave /\ load' = [load EXCEPT !.valid = @ /\ ~save.ok]
            BY <1>2, <2>4, Answered
        <3>2. save'.pc = "none" /\ save'.ok = FALSE
            BY <3>1 DEF G!NoSave
        <3>3. save.list = rules
            BY <2>1, <2>4 DEF Stamps
        <3>4. load'.pc = load.pc /\ load'.list = load.list /\ (load'.valid <=> (load.valid /\ ~save.ok))
            BY <3>1 DEF RulesTypes
        <3>5. CASE save.ok
            <4>1. rules' = G!List(ruleStore) /\ dirty' = FALSE /\ G!List(ruleStore) = save.list
                BY <1>2, <2>1, <2>4, <3>5, Answered DEF Stamps
            <4>2. rules'.stamp = ruleStore.stamp /\ rules'.stamp = ruleEdits
                BY <3>3, <4>1, ListIs DEF RulesTypes, Stamps
            <4>3. ~load'.valid
                BY <3>4, <3>5
            <4> QED BY <1>0, <2>1, <2>2, <3>1, <3>2, <3>4, <4>1, <4>2, <4>3 DEF Stamps
        <3>6. CASE ~save.ok
            <4>1. UNCHANGED <<rules, dirty, accepted>>
                BY <1>2, <3>6, Answered
            <4> QED BY <1>0, <2>1, <2>2, <3>1, <3>2, <3>4, <4>1 DEF Stamps
        <3> QED BY <3>5, <3>6
    <2> QED BY <2>3, <2>4
<1>3. CASE G!Load
    <2>1. load'.pc = "reading"
        BY <1>3 DEF G!Load
    <2> QED BY <1>3, <2>1 DEF G!Load, Stamps
<1>4. CASE G!Read
    <2>1. load'.pc = "read" /\ load'.list = ruleStore
        BY <1>4 DEF G!Read, RulesTypes
    <2> QED BY <1>0, <1>4, <2>1 DEF G!Read, Stamps
<1>5. CASE G!PublishLoaded
    <2>1. load.pc = "read" /\ load'.pc = "none"
        BY <1>5 DEF G!PublishLoaded, G!NoLoad
    <2>2. UNCHANGED <<saving, savePending, dirty, save, ruleStore, ruleEdits>>
        BY <1>5 DEF G!PublishLoaded
    <2>3. CASE G!Publishable
        <3>1. accepted' = load.list /\ rules' = IF dirty THEN rules ELSE G!List(load.list)
            BY <1>5, <2>3 DEF G!PublishLoaded
        <3>2. load.valid /\ ~saving
            BY <2>3 DEF G!Publishable
        <3>3. rules'.stamp = ruleEdits
            BY <2>1, <3>1, <3>2, ListIs DEF Stamps, RulesTypes
        <3> QED BY <1>0, <2>1, <2>2, <3>1, <3>2, <3>3 DEF Stamps
    <2>4. CASE ~G!Publishable
        <3>1. UNCHANGED <<accepted, rules>>
            BY <1>5, <2>4 DEF G!PublishLoaded
        <3> QED BY <1>0, <2>1, <2>2, <3>1 DEF Stamps
    <2> QED BY <2>3, <2>4
<1>6. CASE G!Changed
    BY <1>6 DEF G!Changed, Stamps
<1>7. CASE G!Draw
    BY <1>7 DEF G!Draw, Stamps
<1>8. CASE G!Cancel
    BY <1>8 DEF G!Cancel, Stamps
<1>9. ASSUME NEW i \in 0 .. Len(rules.marks), G!OpenEditor(i) PROVE Stamps'
    BY <1>9 DEF G!OpenEditor, Stamps
<1>10. ASSUME NEW s \in Seq(Nat), EditOf(s) PROVE Stamps'
    <2>1. /\ rules'.stamp = ruleEdits + 1 /\ ruleEdits' = ruleEdits + 1 /\ dirty' = TRUE /\ saving' = TRUE
          /\ load' = [load EXCEPT !.valid = FALSE]
          /\ UNCHANGED <<accepted, ruleStore>>
        <3>1. rules' = [stamp |-> ruleEdits + 1, marks |-> s]
            BY <1>10, Persisted DEF EditOf
        <3>2. rules'.stamp = ruleEdits + 1
            BY <3>1
        <3> QED BY <1>10, <3>2, Persisted DEF EditOf
    <2>2. load'.valid = FALSE /\ load'.pc = load.pc /\ load'.list = load.list
        BY <2>1 DEF RulesTypes
    <2>3. CASE saving /\ savePending' = TRUE /\ UNCHANGED save
        BY <1>0, <2>1, <2>2, <2>3 DEF Stamps
    <2>4. CASE /\ ~saving /\ savePending' = savePending
               /\ save' = [pc |-> "queued", list |-> rules', ok |-> FALSE]
        <3>1. ~savePending /\ save'.pc = "queued" /\ save'.list = rules' /\ save'.ok = FALSE
            BY <2>4 DEF Stamps
        <3> QED BY <1>0, <2>1, <2>2, <2>4, <3>1 DEF Stamps
    <2> QED BY <1>10, <2>3, <2>4, Persisted DEF EditOf
<1>11. CASE UNCHANGED G!vars
    BY <1>11 DEF G!vars, Stamps, G!List
<1> QED BY <1>1, <1>2, <1>3, <1>4, <1>5, <1>6, <1>7, <1>8, <1>9, <1>10, <1>11 DEF EditorNext

LEMMA MoreAllowed ==
    ASSUME NEW s \in Seq(Nat), NEW m \in Nat, NEW n \in Nat, m <= n, UpTo(s, m) PROVE UpTo(s, n)
<1>1. ASSUME NEW i \in 1 .. Len(s) PROVE s[i] <= n
    BY LenProperties, ElementOfSeq DEF UpTo
<1> QED BY <1>1 DEF UpTo

LEMMA NothingTwice == Once(<<>>) /\ \A n \in Nat : UpTo(<<>>, n)
BY EmptyRules DEF Once, UpTo

LEMMA OnceStep ==
    ASSUME RulesTypes, Stamps, OnceEach, EditorIsRight, EditorNext
    PROVE  OnceEach'
<1>0. /\ rules.marks \in Seq(Nat) /\ ruleStore.marks \in Seq(Nat) /\ save.list.marks \in Seq(Nat)
      /\ load.list.marks \in Seq(Nat) /\ opened \in Nat
    BY SMTT(30), EditBounds DEF RulesTypes, StoredLists, EditedLists
<1> USE DEF OnceEach
<1>1. ASSUME NEW accept \in BOOLEAN, NEW ok \in BOOLEAN, G!Commit(accept, ok) PROVE OnceEach'
    <2>1. /\ UNCHANGED <<rules, load, opened>> /\ save'.list = save.list
        BY <1>1, Committed DEF RulesTypes
    <2>2. ruleStore'.marks = save.list.marks \/ ruleStore'.marks = ruleStore.marks
        <3>1. CASE ruleStore' = [stamp |-> save.list.stamp, marks |-> save.list.marks, version |-> ruleStore.version + 1]
            BY <3>1
        <3>2. CASE UNCHANGED ruleStore
            BY <3>2
        <3> QED BY <1>1, <3>1, <3>2, Committed
    <2> QED BY <2>1, <2>2
<1>2. CASE G!Answer
    <2>1. UNCHANGED <<ruleStore, opened>> /\ load'.list = load.list
        BY <1>2, Answered DEF RulesTypes
    <2>2. rules'.marks = ruleStore.marks \/ rules'.marks = rules.marks
        BY <1>2, Answered, ListIs DEF RulesTypes
    <2>3. save'.list.marks = <<>> \/ save'.list.marks = rules'.marks
        <3>1. CASE save' = G!NoSave
            BY <3>1 DEF G!NoSave, G!Empty
        <3>2. CASE save' = [pc |-> "queued", list |-> rules', ok |-> FALSE]
            BY <3>2
        <3> QED BY <1>2, <3>1, <3>2, Answered
    <2> QED BY <1>0, <2>1, <2>2, <2>3, NothingTwice
<1>3. CASE G!Load
    <2>1. load'.list.marks = <<>>
        BY <1>3 DEF G!Load, G!EmptyStore
    <2> QED BY <1>0, <1>3, <2>1, NothingTwice DEF G!Load
<1>4. CASE G!Read
    <2>1. load'.list = ruleStore
        BY <1>4 DEF G!Read, RulesTypes
    <2> QED BY <1>4, <2>1 DEF G!Read
<1>5. CASE G!PublishLoaded
    <2>1. load'.list.marks = <<>>
        BY <1>5 DEF G!PublishLoaded, G!NoLoad, G!EmptyStore
    <2>2. rules'.marks = rules.marks \/ rules'.marks = load.list.marks
        BY <1>5, ListIs DEF G!PublishLoaded, RulesTypes
    <2> QED BY <1>0, <1>5, <2>1, <2>2, NothingTwice DEF G!PublishLoaded
<1>6. CASE G!Changed
    BY <1>6 DEF G!Changed
<1>7. CASE G!Draw
    BY <1>7 DEF G!Draw
<1>8. CASE G!Cancel
    BY <1>8 DEF G!Cancel
<1>9. ASSUME NEW i \in 0 .. Len(rules.marks), G!OpenEditor(i) PROVE OnceEach'
    <2>1. opened' = opened + 1 /\ opened' \in Nat /\ opened <= opened' /\ UNCHANGED <<rules, ruleStore, save, load>>
        BY <1>0, <1>9 DEF G!OpenEditor
    <2> QED BY <1>0, <2>1, MoreAllowed
<1>10. ASSUME NEW s \in Seq(Nat), EditOf(s) PROVE OnceEach'
    <2>1. Once(s) /\ UpTo(s, opened) /\ UNCHANGED <<ruleStore, opened>>
        BY <1>10 DEF EditOf
    <2>2. rules'.marks = s
        <3>1. rules' = [stamp |-> ruleEdits + 1, marks |-> s]
            BY <1>10, Persisted DEF EditOf
        <3> QED BY <3>1
    <2>3. load'.list = load.list
        BY <1>10, Persisted DEF EditOf, RulesTypes
    <2>4. save'.list.marks = save.list.marks \/ save'.list.marks = s
        <3>1. CASE save' = [pc |-> "queued", list |-> rules', ok |-> FALSE]
            BY <2>2, <3>1
        <3>2. CASE UNCHANGED save
            BY <3>2
        <3> QED BY <1>10, <3>1, <3>2, Persisted DEF EditOf
    <2> QED BY <2>1, <2>2, <2>3, <2>4
<1>11. CASE UNCHANGED G!vars
    BY <1>11 DEF G!vars
<1> QED BY <1>1, <1>2, <1>3, <1>4, <1>5, <1>6, <1>7, <1>8, <1>9, <1>10, <1>11 DEF EditorNext

LEMMA EditorStep ==
    ASSUME RulesTypes, Stamps, OnceEach, EditorIsRight, EditorNext
    PROVE  EditorIsRight'
<1>0. /\ rules.marks \in Seq(Nat) /\ Len(rules.marks) \in Nat /\ opened \in Nat /\ editor.mark \in Nat
    BY EditBounds, LenProperties DEF RulesTypes, EditedLists
<1> USE DEF EditorIsRight
<1>1. ASSUME NEW accept \in BOOLEAN, NEW ok \in BOOLEAN, G!Commit(accept, ok) PROVE EditorIsRight'
    <2>1. UNCHANGED <<rules, saving, editor, closing, opened>>
        BY <1>1, Committed
    <2> QED BY <2>1
<1>2. CASE G!Answer
    <2>1. /\ UNCHANGED opened /\ closing' \in BOOLEAN /\ (closing' => closing /\ save.ok /\ savePending)
          /\ (savePending => saving' = TRUE)
        BY <1>2, Answered
    <2>2. CASE editor' = G!Closed
        <3>1. editor'.open = FALSE /\ editor'.mark = 0
            BY <2>2 DEF G!Closed
        <3> QED BY <1>0, <2>1, <3>1
    <2>3. CASE editor' = [editor EXCEPT !.fresh = @ /\ ~save.ok]
        <3>1. /\ editor'.open = editor.open /\ editor'.mark = editor.mark /\ editor'.index = editor.index
              /\ (editor'.fresh <=> (editor.fresh /\ ~save.ok))
            BY <2>3 DEF RulesTypes
        <3>2. (~save.ok \/ savePending) => UNCHANGED rules
            BY <1>2, Answered
        <3> QED BY <2>1, <3>1, <3>2
    <2> QED BY <1>2, <2>2, <2>3, Answered
<1>3. CASE G!Load
    BY <1>3 DEF G!Load
<1>4. CASE G!Read
    BY <1>4 DEF G!Read
<1>5. CASE G!PublishLoaded
    <2>1. UNCHANGED <<saving, closing, opened>>
        BY <1>5 DEF G!PublishLoaded
    <2>2. CASE G!Publishable
        <3>1. editor' = [editor EXCEPT !.fresh = @ /\ accepted' = accepted /\ rules' = rules] /\ ~saving
            BY <1>5, <2>2 DEF G!PublishLoaded, G!Publishable
        <3>2. /\ editor'.open = editor.open /\ editor'.mark = editor.mark /\ editor'.index = editor.index
              /\ (editor'.fresh => editor.fresh /\ rules' = rules)
            BY <3>1 DEF RulesTypes
        <3> QED BY <2>1, <3>1, <3>2
    <2>3. CASE ~G!Publishable
        BY <1>5, <2>1, <2>3 DEF G!PublishLoaded
    <2> QED BY <2>2, <2>3
<1>6. CASE G!Changed
    <2>1. /\ editor'.open = editor.open /\ editor'.mark = editor.mark /\ editor'.fresh = FALSE
          /\ UNCHANGED <<rules, saving, closing, opened>>
        BY <1>6 DEF G!Changed, RulesTypes
    <2> QED BY <2>1
<1>7. CASE G!Draw
    BY <1>7 DEF G!Draw
<1>8. CASE G!Cancel
    <2>1. editor'.open = FALSE /\ editor'.mark = 0 /\ UNCHANGED <<closing, saving, opened>>
        BY <1>8 DEF G!Cancel, G!Closed
    <2> QED BY <1>0, <2>1
<1>9. ASSUME NEW i \in 0 .. Len(rules.marks), G!OpenEditor(i) PROVE EditorIsRight'
    <2>1. /\ ~saving /\ opened' = opened + 1 /\ editor'.mark = opened' /\ editor'.index = i
          /\ UNCHANGED <<rules, saving, closing>>
        BY <1>9 DEF G!OpenEditor
    <2>2. ASSUME NEW j \in 1 .. Len(rules.marks) PROVE rules.marks[j] # opened'
        <3>1. rules.marks[j] <= opened /\ rules.marks[j] \in Nat
            BY <1>0, ElementOfSeq DEF OnceEach, UpTo
        <3> QED BY <1>0, <2>1, <3>1
    <2> QED BY <1>0, <2>1, <2>2
<1>10. ASSUME NEW s \in Seq(Nat), EditOf(s) PROVE EditorIsRight'
    <2>1. saving' = TRUE /\ UNCHANGED opened
        BY <1>10, Persisted DEF EditOf
    <2>2. rules'.marks = s
        <3>1. rules' = [stamp |-> ruleEdits + 1, marks |-> s]
            BY <1>10, Persisted DEF EditOf
        <3> QED BY <3>1
    <2>3. CASE ~editor.open /\ UNCHANGED <<editor, closing>>
        BY <2>1, <2>3
    <2>4. ASSUME NEW p \in 1 .. Len(s), editor' = [editor EXCEPT !.index = p], s[p] = editor.mark,
                 \A j \in 1 .. Len(s) : s[j] = editor.mark => j = p
          PROVE  EditorIsRight'
        <3>1. editor'.open = editor.open /\ editor'.mark = editor.mark /\ editor'.index = p /\ p <= Len(s)
            BY <2>4, LenProperties DEF RulesTypes
        <3> QED BY <2>1, <2>2, <2>4, <3>1
    <2> QED BY <1>10, <2>3, <2>4 DEF EditOf
<1>11. CASE UNCHANGED G!vars
    BY <1>11 DEF G!vars
<1> QED BY <1>1, <1>2, <1>3, <1>4, <1>5, <1>6, <1>7, <1>8, <1>9, <1>10, <1>11 DEF EditorNext

----------------------------------------------------------------------------
(* The library of rule sets *)

Libraries == [rev : Nat, ids : SUBSET Sets]
Jobs == [op : {"put", "remove", "refresh"}, set : Sets, rev : Nat, ids : SUBSET Sets,
         pc : {"queued", "accepted", "refused", "answer"}, saved : Libraries]

\* A copy of the library is of this revision, or older.
CopyOf(copy) == copy.rev <= lib.rev /\ (copy.rev = lib.rev => copy.ids = lib.ids)

SetsTypes ==
    /\ lib \in Libraries /\ libMirror \in Libraries /\ lib.rev <= MaxSaves
    /\ policy \subseteq Sets /\ personal \in [set : Sets \cup {None}, on : BOOLEAN]
    /\ libBusy \in BOOLEAN /\ importing \in BOOLEAN
    /\ form \in [set : Sets \cup {None}, fresh : BOOLEAN] /\ (form.fresh => form.set \in Sets)
    /\ jobs \subseteq Jobs
    /\ libRead \in [pc : {"none", "read"}, lib : Libraries]

\* Whatever works on a copy works on the library's content if it is of its revision; a read
\* is published only while it is not older than what is shown.
CopiesAreTrue ==
    /\ CopyOf(libMirror)
    /\ \A task \in jobs : CopyOf([rev |-> task.rev, ids |-> task.ids]) /\ (task.pc = "answer" => CopyOf(task.saved))
    /\ libRead.pc = "read" => CopyOf(libRead.lib) /\ libMirror.rev <= libRead.lib.rev

SetsInv == SetsTypes /\ CopiesAreTrue /\ R!EnabledResolve

LEMMA SaveBounds == MaxSaves \in Nat
BY BoundsAreNumbers

LEMMA NoLibrary == [rev |-> 0, ids |-> {}] \in Libraries
BY DEF Libraries

LEMMA SetsInit == R!Init => SetsInv
<1> SUFFICES ASSUME R!Init PROVE SetsInv
    OBVIOUS
<1>1. PICK ids \in SUBSET Sets : lib = [rev |-> 0, ids |-> ids]
    BY DEF R!Init
<1>2. lib \in Libraries /\ libMirror = lib /\ lib.rev = 0
    BY <1>1 DEF R!Init, Libraries
<1>3. SetsTypes
    <2>1. personal \in [set : Sets \cup {None}, on : BOOLEAN]
        BY DEF R!Init
    <2>2. form \in [set : Sets \cup {None}, fresh : BOOLEAN] /\ (form.fresh => form.set \in Sets)
        BY DEF R!Init, R!NoForm
    <2>3. libRead \in [pc : {"none", "read"}, lib : Libraries]
        BY NoLibrary DEF R!Init, R!NoRead
    <2>4. policy = {} /\ jobs = {} /\ libBusy \in BOOLEAN /\ importing \in BOOLEAN
        BY DEF R!Init
    <2>5. lib.rev <= MaxSaves
        BY <1>2, SaveBounds
    <2> QED BY <1>2, <2>1, <2>2, <2>3, <2>4, <2>5 DEF SetsTypes
<1>4. CopiesAreTrue /\ R!EnabledResolve
    BY <1>2 DEF R!Init, CopiesAreTrue, CopyOf, R!EnabledResolve, R!NoRead, Libraries
<1> QED BY <1>3, <1>4 DEF SetsInv

\* What a save of the library does: the revision grows, and what is referred to stays.
LEMMA Stored ==
    ASSUME SetsInv, NEW works \in BOOLEAN, NEW task \in jobs, R!StoreLibrary(task, works)
    PROVE  /\ task \in Jobs /\ task.pc = "queued"
           /\ \/ /\ lib' = [rev |-> lib.rev + 1, ids |-> R!Changed(task)] /\ lib' \in Libraries
                 /\ lib.rev < MaxSaves /\ R!Used \subseteq R!Changed(task) /\ task.ids = lib.ids
              \/ lib' = lib
           /\ \E end \in {"accepted", "refused"} : jobs' = (jobs \ {task}) \cup {[task EXCEPT !.pc = end]}
           /\ UNCHANGED <<policy, personal, libMirror, libBusy, importing, form, libRead, imports>>
<1>1. task \in Jobs /\ task.pc = "queued" /\ lib \in Libraries
    BY DEF SetsInv, SetsTypes, R!StoreLibrary
<1> DEFINE ok == R!Accepts(task) /\ works /\ lib.rev < MaxSaves
<1>2. /\ lib' = IF ok THEN [rev |-> lib.rev + 1, ids |-> R!Changed(task)] ELSE lib
      /\ jobs' = (jobs \ {task}) \cup {[task EXCEPT !.pc = IF ok THEN "accepted" ELSE "refused"]}
      /\ UNCHANGED <<policy, personal, libMirror, libBusy, importing, form, libRead, imports>>
    BY DEF R!StoreLibrary
<1>3. R!Changed(task) \in SUBSET Sets
    BY <1>1 DEF R!Changed, Jobs
<1>4. CASE ok
    <2>1. task.rev = lib.rev /\ R!Used \subseteq R!Changed(task)
        BY <1>4 DEF R!Accepts
    <2>2. task.ids = lib.ids
        BY <1>1, <2>1 DEF SetsInv, CopiesAreTrue, CopyOf
    <2>3. lib' = [rev |-> lib.rev + 1, ids |-> R!Changed(task)] /\ lib.rev < MaxSaves
        BY <1>2, <1>4
    <2>4. lib' \in Libraries
        BY <1>1, <1>3, <2>3 DEF Libraries
    <2>5. jobs' = (jobs \ {task}) \cup {[task EXCEPT !.pc = "accepted"]}
        BY <1>2, <1>4
    <2> QED BY <1>1, <1>2, <2>1, <2>2, <2>3, <2>4, <2>5
<1>5. CASE ~ok
    <2>1. lib' = lib /\ jobs' = (jobs \ {task}) \cup {[task EXCEPT !.pc = "refused"]}
        BY <1>2, <1>5
    <2> QED BY <1>1, <1>2, <2>1
<1> QED BY <1>4, <1>5

LEMMA NewJob ==
    ASSUME SetsInv, NEW op \in {"put", "remove", "refresh"}, NEW set \in Sets
    PROVE  /\ R!Job(op, set) \in Jobs
           /\ CopyOf([rev |-> R!Job(op, set).rev, ids |-> R!Job(op, set).ids])
           /\ R!Job(op, set).pc = "queued"
<1>1. libMirror.rev \in Nat /\ libMirror.ids \in SUBSET Sets /\ CopyOf(libMirror)
    BY DEF SetsInv, SetsTypes, Libraries, CopiesAreTrue
<1>2. R!Job(op, set) = [op |-> op, set |-> set, rev |-> libMirror.rev, ids |-> libMirror.ids, pc |-> "queued",
                        saved |-> [rev |-> 0, ids |-> {}]]
    BY DEF R!Job
<1> QED BY <1>1, <1>2, NoLibrary DEF Jobs, CopyOf

LEMMA SetsTypesStep ==
    ASSUME SetsInv, [R!Next]_(R!vars) PROVE SetsTypes'
<1> USE SaveBounds DEF SetsTypes
<1>0. SetsTypes
    BY DEF SetsInv
<1>1. ASSUME NEW works \in BOOLEAN, NEW task \in jobs, R!StoreLibrary(task, works) PROVE SetsTypes'
    <2>1. PICK end \in {"accepted", "refused"} : jobs' = (jobs \ {task}) \cup {[task EXCEPT !.pc = end]}
        BY <1>1, Stored
    <2>2. task \in Jobs
        BY <1>0
    <2>3. [task EXCEPT !.pc = end] \in Jobs
        BY <2>2 DEF Jobs
    <2>4. jobs' \subseteq Jobs
        BY <1>0, <2>1, <2>3
    <2>5. lib' \in Libraries /\ lib'.rev <= MaxSaves
        BY <1>0, <1>1, Stored DEF Libraries
    <2> QED BY <1>0, <1>1, <2>4, <2>5, Stored
<1>2. ASSUME NEW refs \in SUBSET Sets, R!StorePolicy(refs) PROVE SetsTypes'
    BY <1>0, <1>2 DEF R!StorePolicy, R!library
<1>3. ASSUME NEW task \in jobs, R!ReadBack(task) PROVE SetsTypes'
    <2>1. jobs' = (jobs \ {task}) \cup {[task EXCEPT !.pc = "answer", !.saved = lib]}
        BY <1>3 DEF R!ReadBack
    <2>2. task \in Jobs /\ lib \in Libraries
        BY <1>0
    <2>3. [task EXCEPT !.pc = "answer", !.saved = lib] \in Jobs
        BY <2>2 DEF Jobs
    <2> QED BY <1>0, <1>3, <2>1, <2>3 DEF R!ReadBack
<1>4. ASSUME NEW task \in jobs, R!Answer(task) PROVE SetsTypes'
    <2>1. task \in Jobs /\ jobs' \subseteq Jobs /\ task.saved \in Libraries
        BY <1>0, <1>4 DEF R!Answer, Jobs
    <2>2. libMirror' \in Libraries /\ libBusy' \in BOOLEAN
        BY <1>0, <1>4, <2>1 DEF R!Answer
    <2>3. form' \in [set : Sets \cup {None}, fresh : BOOLEAN] /\ (form'.fresh => form'.set \in Sets)
        <3>1. CASE form' = R!NoForm
            BY <3>1 DEF R!NoForm
        <3>2. CASE UNCHANGED form
            BY <1>0, <3>2
        <3>3. CASE form' = [form EXCEPT !.fresh = @ /\ ~R!Newer(task.saved.rev)]
            <4>1. (form.fresh /\ ~R!Newer(task.saved.rev)) \in BOOLEAN
                BY <1>0
            <4>2. form' = [set |-> form.set, fresh |-> form.fresh /\ ~R!Newer(task.saved.rev)]
                BY <1>0, <3>3
            <4> QED BY <1>0, <4>1, <4>2
        <3> QED BY <1>4, <3>1, <3>2, <3>3 DEF R!Answer
    <2>4. libRead' \in [pc : {"none", "read"}, lib : Libraries]
        BY <1>0, <1>4, NoLibrary DEF R!Answer, R!NoRead
    <2> QED BY <1>0, <1>4, <2>1, <2>2, <2>3, <2>4 DEF R!Answer
<1>5. ASSUME NEW set \in Sets, R!OpenForm(set) PROVE SetsTypes'
    BY <1>0, <1>5 DEF R!OpenForm
<1>6. ASSUME NEW set \in Sets, R!Remove(set) PROVE SetsTypes'
    BY <1>0, <1>6, NewJob DEF R!Remove, R!Persist
<1>7. ASSUME NEW set \in Sets, R!Refresh(set) PROVE SetsTypes'
    BY <1>0, <1>7, NewJob DEF R!Refresh
<1>8. CASE R!SaveForm
    BY <1>0, <1>8, NewJob DEF R!SaveForm, R!Persist
<1>9. CASE R!CloseForm
    BY <1>0, <1>9 DEF R!CloseForm, R!NoForm
<1>10. CASE R!Picked
    BY <1>0, <1>10 DEF R!Picked
<1>11. CASE R!Imported
    BY <1>0, <1>11 DEF R!Imported
<1>12. CASE R!Read
    BY <1>0, <1>12 DEF R!Read
<1>13. CASE R!PublishRead
    BY <1>0, <1>13, NoLibrary DEF R!PublishRead, R!NoRead
<1>14. ASSUME NEW set \in Sets \cup {None}, NEW on \in BOOLEAN, R!StorePersonal(set, on) PROVE SetsTypes'
    BY <1>0, <1>14 DEF R!StorePersonal, R!library
<1>15. CASE UNCHANGED R!vars
    BY <1>0, <1>15 DEF R!vars
<1> QED BY <1>1, <1>2, <1>3, <1>4, <1>5, <1>6, <1>7, <1>8, <1>9, <1>10, <1>11, <1>12, <1>13, <1>14, <1>15
        DEF R!Next

LEMMA CopiesStep ==
    ASSUME SetsInv, [R!Next]_(R!vars) PROVE CopiesAreTrue' /\ (R!EnabledResolve)'
<1> DEFINE Goal == CopiesAreTrue' /\ (R!EnabledResolve)'
<1>0. SetsTypes /\ CopiesAreTrue /\ R!EnabledResolve /\ lib.rev \in Nat /\ libMirror.rev \in Nat
    BY DEF SetsInv, SetsTypes, Libraries
<1> USE DEF CopiesAreTrue, R!EnabledResolve
<1>1. ASSUME NEW works \in BOOLEAN, NEW task \in jobs, R!StoreLibrary(task, works) PROVE Goal
    <2>1. PICK end \in {"accepted", "refused"} : jobs' = (jobs \ {task}) \cup {[task EXCEPT !.pc = end]}
        BY <1>1, Stored
    <2>2. UNCHANGED <<policy, personal, libMirror, libRead>> /\ task \in Jobs
        BY <1>1, Stored
    <2>3. CASE lib' = lib
        <3>1. ASSUME NEW t \in jobs' PROVE CopyOf([rev |-> t.rev, ids |-> t.ids])' /\ (t.pc = "answer" => CopyOf(t.saved)')
            <4>1. CASE t \in jobs
                BY <1>0, <2>3, <4>1 DEF CopyOf
            <4>2. CASE t = [task EXCEPT !.pc = end]
                <5>1. t.pc = end /\ t.rev = task.rev /\ t.ids = task.ids
                    BY <2>2, <4>2 DEF Jobs
                <5> QED BY <1>0, <2>3, <5>1 DEF CopyOf
            <4> QED BY <2>1, <4>1, <4>2
        <3> QED BY <1>0, <2>2, <2>3, <3>1 DEF CopyOf
    <2>4. CASE /\ lib' = [rev |-> lib.rev + 1, ids |-> R!Changed(task)] /\ lib' \in Libraries
               /\ R!Used \subseteq R!Changed(task)
        <3>1. lib'.rev = lib.rev + 1 /\ lib'.ids = R!Changed(task)
            BY <2>4
        <3>2. ASSUME NEW copy, copy.rev \in Nat, CopyOf(copy) PROVE copy.rev <= lib'.rev /\ copy.rev # lib'.rev
            BY <1>0, <3>1, <3>2 DEF CopyOf
        <3>3. ASSUME NEW t \in jobs PROVE CopyOf([rev |-> t.rev, ids |-> t.ids])' /\ (t.pc = "answer" => CopyOf(t.saved)')
            <4>1. t.rev \in Nat /\ t.saved.rev \in Nat
                BY <1>0 DEF SetsTypes, Jobs, Libraries
            <4>2. CopyOf([rev |-> t.rev, ids |-> t.ids]) /\ (t.pc = "answer" => CopyOf(t.saved))
                BY <1>0
            <4> QED BY <1>0, <3>1, <4>1, <4>2 DEF CopyOf
        <3>4. ASSUME NEW t \in jobs' PROVE CopyOf([rev |-> t.rev, ids |-> t.ids])' /\ (t.pc = "answer" => CopyOf(t.saved)')
            <4>1. CASE t \in jobs
                BY <3>3, <4>1
            <4>2. CASE t = [task EXCEPT !.pc = end]
                <5>1. t.pc = end /\ t.rev = task.rev /\ t.ids = task.ids
                    BY <2>2, <4>2 DEF Jobs
                <5> QED BY <3>3, <5>1
            <4> QED BY <2>1, <4>1, <4>2
        <3>5. CopyOf(libMirror)' /\ (libRead'.pc = "read" => CopyOf(libRead.lib)' /\ libMirror'.rev <= libRead'.lib.rev)
            <4>1. libRead.lib.rev \in Nat
                BY <1>0 DEF SetsTypes, Libraries
            <4> QED BY <1>0, <2>2, <3>1, <4>1 DEF CopyOf
        <3>6. (R!EnabledResolve)'
            BY <1>0, <2>2, <2>4, <3>1 DEF R!Used
        <3> QED BY <2>2, <3>4, <3>5, <3>6
    <2> QED BY <1>1, <2>3, <2>4, Stored
<1>2. ASSUME NEW refs \in SUBSET Sets, R!StorePolicy(refs) PROVE Goal
    BY <1>0, <1>2 DEF R!StorePolicy, R!library, CopyOf
<1>3. ASSUME NEW task \in jobs, R!ReadBack(task) PROVE Goal
    <2>1. jobs' = (jobs \ {task}) \cup {[task EXCEPT !.pc = "answer", !.saved = lib]}
          /\ UNCHANGED <<lib, policy, personal, libMirror, libRead>>
        BY <1>3 DEF R!ReadBack
    <2>2. ASSUME NEW t \in jobs' PROVE CopyOf([rev |-> t.rev, ids |-> t.ids])' /\ (t.pc = "answer" => CopyOf(t.saved)')
        <3>1. CASE t \in jobs
            BY <1>0, <2>1, <3>1 DEF CopyOf
        <3>2. CASE t = [task EXCEPT !.pc = "answer", !.saved = lib]
            <4>1. t.rev = task.rev /\ t.ids = task.ids /\ t.saved = lib
                BY <1>0, <3>2 DEF SetsTypes, Jobs
            <4> QED BY <1>0, <2>1, <4>1 DEF CopyOf
        <3> QED BY <2>1, <3>1, <3>2
    <2> QED BY <1>0, <2>1, <2>2 DEF CopyOf
<1>4. ASSUME NEW task \in jobs, R!Answer(task) PROVE Goal
    <2>1. UNCHANGED <<lib, policy, personal>> /\ jobs' \subseteq jobs
        BY <1>4 DEF R!Answer
    <2>2. CASE task.pc = "answer"
        <3>1. /\ libMirror' = IF R!Newer(task.saved.rev) THEN task.saved ELSE libMirror
              /\ libRead' = R!NoRead
            BY <1>4, <2>2 DEF R!Answer
        <3>2. CopyOf(task.saved)
            BY <1>0, <2>2
        <3>3. CopyOf(libMirror)'
            BY <1>0, <2>1, <3>1, <3>2 DEF CopyOf
        <3>4. libRead'.pc = "none"
            BY <3>1 DEF R!NoRead
        <3> QED BY <1>0, <2>1, <3>3, <3>4 DEF CopyOf
    <2>3. CASE task.pc # "answer"
        BY <1>0, <1>4, <2>1, <2>3 DEF R!Answer, CopyOf
    <2> QED BY <2>2, <2>3
<1>5. ASSUME NEW op \in {"put", "remove", "refresh"}, NEW set \in Sets, jobs' = jobs \cup {R!Job(op, set)},
             UNCHANGED <<lib, policy, personal, libMirror, libRead>>
      PROVE  Goal
    BY <1>0, <1>5, NewJob DEF CopyOf
<1>6. ASSUME NEW set \in Sets, R!Remove(set) PROVE Goal
    BY <1>5, <1>6 DEF R!Remove, R!Persist
<1>7. ASSUME NEW set \in Sets, R!Refresh(set) PROVE Goal
    BY <1>5, <1>7 DEF R!Refresh
<1>8. CASE R!SaveForm
    <2>1. form.set \in Sets
        BY <1>0, <1>8 DEF R!SaveForm, SetsTypes
    <2> QED BY <1>5, <1>8, <2>1 DEF R!SaveForm, R!Persist
<1>9. CASE UNCHANGED <<lib, policy, personal, libMirror, jobs, libRead>>
    BY <1>0, <1>9 DEF CopyOf
<1>10. CASE R!Read
    <2>1. libRead'.pc = "read" /\ libRead'.lib = lib
        BY <1>10 DEF R!Read
    <2> QED BY <1>0, <1>10, <2>1 DEF R!Read, CopyOf
<1>11. CASE R!PublishRead
    <2>1. libRead'.pc = "none"
        BY <1>11 DEF R!PublishRead, R!NoRead
    <2>2. libMirror' = libRead.lib /\ CopyOf(libRead.lib)
        BY <1>0, <1>11 DEF R!PublishRead
    <2> QED BY <1>0, <1>11, <2>1, <2>2 DEF R!PublishRead, CopyOf
<1>12. ASSUME NEW set \in Sets \cup {None}, NEW on \in BOOLEAN, R!StorePersonal(set, on) PROVE Goal
    <2>1. UNCHANGED <<lib, policy, libMirror, jobs, libRead>>
        BY <1>12 DEF R!StorePersonal, R!library
    <2>2. personal'.set = set /\ personal'.on = on /\ (on => set \in lib.ids \cup {None})
        BY <1>12 DEF R!StorePersonal, R!Resolves
    <2> QED BY <1>0, <2>1, <2>2 DEF CopyOf
<1>13. CASE (\E set \in Sets : R!OpenForm(set)) \/ R!CloseForm \/ R!Picked \/ R!Imported \/ UNCHANGED R!vars
    BY <1>9, <1>13 DEF R!OpenForm, R!CloseForm, R!Picked, R!Imported, R!vars
<1> QED BY <1>1, <1>2, <1>3, <1>4, <1>6, <1>7, <1>8, <1>10, <1>11, <1>12, <1>13 DEF R!Next

LEMMA SetsStep == SetsInv /\ [R!Next]_(R!vars) => SetsInv'
BY SetsTypesStep, CopiesStep DEF SetsInv

LEMMA RemovedAdvances ==
    ASSUME SetsInv, [R!Next]_(R!vars)
    PROVE  /\ \A set \in lib.ids \ lib'.ids : \E task \in jobs : task.op = "remove" /\ task.set = set
           /\ libMirror'.rev >= libMirror.rev
<1>0. libMirror.rev \in Nat /\ lib.rev \in Nat /\ CopiesAreTrue
    BY DEF SetsInv, SetsTypes, Libraries
<1>1. \A set \in lib.ids \ lib'.ids : \E task \in jobs : task.op = "remove" /\ task.set = set
    <2>1. ASSUME NEW works \in BOOLEAN, NEW task \in jobs, R!StoreLibrary(task, works),
                 NEW set \in lib.ids \ lib'.ids
          PROVE  task.op = "remove" /\ task.set = set
        <3>1. task \in Jobs /\ lib'.ids = R!Changed(task) /\ task.ids = lib.ids
            BY <2>1, Stored
        <3> QED BY <2>1, <3>1 DEF R!Changed, Jobs
    <2>2. CASE UNCHANGED lib
        BY <2>2
    <2> QED BY <2>1, <2>2 DEF R!Next, R!vars, R!StorePolicy, R!library, R!ReadBack, R!Answer, R!OpenForm, R!Remove,
                R!Refresh, R!SaveForm, R!CloseForm, R!Picked, R!Imported, R!Read, R!PublishRead, R!StorePersonal
<1>2. libMirror'.rev >= libMirror.rev
    <2>1. ASSUME NEW task \in jobs, R!Answer(task) PROVE libMirror'.rev >= libMirror.rev
        BY <1>0, <2>1 DEF R!Answer, R!Newer
    <2>2. CASE R!PublishRead
        BY <1>0, <2>2 DEF R!PublishRead, CopiesAreTrue, SetsInv, SetsTypes, Libraries
    <2>3. CASE UNCHANGED libMirror
        BY <1>0, <2>3
    <2> QED BY <2>1, <2>2, <2>3 DEF R!Next, R!vars, R!StorePolicy, R!library, R!ReadBack, R!StoreLibrary, R!OpenForm,
                R!Remove, R!Refresh, R!SaveForm, R!CloseForm, R!Picked, R!Imported, R!Read, R!StorePersonal
<1> QED BY <1>1, <1>2

----------------------------------------------------------------------------
LEMMA ChildrenMove == [Next]_vars => [K!Next]_(K!vars) /\ [C!Next]_(C!vars)
BY DEF Next, vars, process, checks, K!vars, C!vars

LEMMA EditorsMove == [Next]_vars => [G!Next]_(G!vars) /\ [R!Next]_(R!vars)
BY DEF Next, vars, globalRules, ruleSets, G!vars, R!vars

LEMMA ChildrenHold == Spec => [](ChildInv /\ LinesInv /\ ToolInv)
<1>1. Init => ChildInv /\ LinesInv /\ ToolInv
    BY ProcessInit, ToolInit DEF Init
<1>2. ChildInv /\ LinesInv /\ ToolInv /\ [Next]_vars => (ChildInv /\ LinesInv /\ ToolInv)'
    BY ChildStep, LinesStep, ToolStep, ChildrenMove
<1> QED BY <1>1, <1>2, PTL DEF Spec

\* Child processes (core.cpp): there is one kernel at a time and somebody who reaps it, its
\* log's tail is the newest of what was read, and of a check nothing is left and only what was
\* written whole is used.
THEOREM ReapedAlways == Spec => []ChildrenAreReaped
<1>1. ChildInv /\ LinesInv /\ ToolInv => ChildrenAreReaped
    BY DEF ChildInv, LinesInv, ToolInv, ChildrenAreReaped
<1> QED BY <1>1, ChildrenHold, PTL

RulesInv == RulesTypes /\ Stamps /\ OnceEach /\ EditorIsRight

LEMMA EditorsHold == Spec => [](RulesInv /\ SetsInv)
<1>1. Init => RulesInv /\ SetsInv
    BY RulesInit, SetsInit DEF Init, RulesInv
<1>2. RulesInv /\ SetsInv /\ [Next]_vars => (RulesInv /\ SetsInv)'
    <2>1. ASSUME RulesInv, [G!Next]_(G!vars) PROVE RulesInv'
        BY <2>1, EditorSteps, TypesStep, StampsStep, OnceStep, EditorStep DEF RulesInv
    <2> QED BY <2>1, EditorsMove, SetsStep
<1> QED BY <1>1, <1>2, PTL DEF Spec

LEMMA EditsAreKept ==
    RulesInv => G!TypeOK /\ G!NothingForgotten /\ G!AddedOnce
<1> SUFFICES ASSUME RulesInv PROVE G!TypeOK /\ G!NothingForgotten /\ G!AddedOnce
    OBVIOUS
<1>0. /\ rules.stamp \in Nat /\ ruleStore.stamp \in Nat /\ ruleStore.version \in Nat /\ save.list.stamp \in Nat
      /\ ruleEdits \in 0 .. MaxEdits /\ opened \in 0 .. MaxOpened /\ MaxEdits \in Nat /\ MaxOpened \in Nat
      /\ rules.marks \in Seq(Nat) /\ ruleStore.marks \in Seq(Nat)
    BY EditBounds DEF RulesInv, RulesTypes, StoredLists, EditedLists
<1>1. G!TypeOK
    <2>1. {loaded, saving, savePending, dirty, closing, drawn, reload} \subseteq BOOLEAN
        BY DEF RulesInv, RulesTypes
    <2>2. save.pc \in {"none", "queued", "answer"} /\ load.pc \in {"none", "reading", "read"}
        BY DEF RulesInv, RulesTypes
    <2>3. rules.stamp \in 0 .. MaxEdits /\ ruleStore.version \in 0 .. MaxEdits
        BY <1>0 DEF RulesInv, Stamps
    <2>4. ASSUME NEW i \in 1 .. Len(rules.marks) PROVE rules.marks[i] \in 0 .. MaxOpened
        <3>1. rules.marks[i] \in Nat /\ rules.marks[i] <= opened
            BY <1>0, ElementOfSeq DEF RulesInv, OnceEach, UpTo
        <3> QED BY <1>0, <3>1
    <2>5. G!Marks(rules) \subseteq 0 .. MaxOpened
        BY <2>4 DEF G!Marks
    <2> QED BY <1>0, <2>1, <2>2, <2>3, <2>5 DEF G!TypeOK
<1>2. G!NothingForgotten
    <2>1. saving /\ save.list.stamp # ruleEdits => savePending
        BY DEF RulesInv, Stamps
    <2> QED BY <2>1 DEF RulesInv, Stamps, G!NothingForgotten
<1>3. G!AddedOnce
    <2>1. DOMAIN rules.marks = 1 .. Len(rules.marks) /\ DOMAIN ruleStore.marks = 1 .. Len(ruleStore.marks)
        BY <1>0, LenProperties
    <2>2. Once(rules.marks) /\ Once(ruleStore.marks)
        BY DEF RulesInv, OnceEach
    <2>3. G!IsInjective(rules.marks) /\ G!IsInjective(ruleStore.marks)
        BY <2>1, <2>2 DEF Once, G!IsInjective
    <2> QED BY <2>3 DEF G!AddedOnce
<1> QED BY <1>1, <1>2, <1>3

LEMMA ReadersAdvance ==
    ASSUME RulesInv, [G!Next]_(G!vars) PROVE accepted'.version >= accepted.version
<1>1. accepted.version \in Nat /\ accepted.version <= ruleStore.version
    BY DEF RulesInv, RulesTypes, StoredLists, Stamps
<1>2. CASE G!Answer
    <2>1. accepted' = ruleStore \/ accepted' = accepted
        BY <1>2, Answered DEF RulesInv
    <2> QED BY <1>1, <2>1 DEF RulesInv, RulesTypes, StoredLists
<1>3. CASE G!PublishLoaded
    <2>1. accepted' = accepted \/ (accepted' = load.list /\ load.pc = "read" /\ load.valid)
        BY <1>3 DEF G!PublishLoaded, G!Publishable
    <2> QED BY <1>1, <2>1 DEF RulesInv, RulesTypes, StoredLists, Stamps
<1>4. CASE UNCHANGED accepted
    BY <1>1, <1>4
<1>5. EditorNext
    BY EditorSteps DEF RulesInv
<1> QED BY <1>2, <1>3, <1>4, <1>5 DEF EditorNext, EditOf, G!vars, G!Commit, G!Load, G!Read, G!Changed, G!Draw,
        G!Cancel, G!OpenEditor

LEMMA ClosesStored ==
    ASSUME RulesInv, [G!Next]_(G!vars), editor.open, ~editor'.open, saving
    PROVE  editor.mark \in G!Marks(ruleStore) /\ ruleStore.stamp = rules.stamp
<1>1. CASE G!Answer /\ closing /\ save.ok /\ ~savePending
    <2>1. save.list = rules /\ G!List(ruleStore) = save.list
        BY <1>1, Answered DEF RulesInv, Stamps
    <2>2. ruleStore.stamp = rules.stamp /\ ruleStore.marks = rules.marks
        BY <2>1, ListIs DEF RulesInv, RulesTypes
    <2>3. \E j \in 1 .. Len(rules.marks) : rules.marks[j] = editor.mark
        BY <1>1 DEF RulesInv, EditorIsRight
    <2> QED BY <2>2, <2>3 DEF G!Marks
<1>2. CASE \E flag \in BOOLEAN : editor' = [editor EXCEPT !.fresh = flag]
    BY <1>2 DEF RulesInv, RulesTypes
<1>3. CASE \E i \in Nat : editor' = [editor EXCEPT !.index = i]
    BY <1>3 DEF RulesInv, RulesTypes
<1>4. CASE UNCHANGED editor
    BY <1>4
<1>5. EditorNext
    BY EditorSteps DEF RulesInv
<1>6. CASE G!Answer /\ ~(closing /\ save.ok /\ ~savePending)
    <2>1. editor' = [editor EXCEPT !.fresh = @ /\ ~save.ok]
        BY <1>6, Answered DEF RulesInv
    <2> QED BY <2>1 DEF RulesInv, RulesTypes
<1>7. CASE G!PublishLoaded
    <2>1. UNCHANGED editor \/ editor' = [editor EXCEPT !.fresh = @ /\ accepted' = accepted /\ rules' = rules]
        BY <1>7 DEF G!PublishLoaded
    <2> QED BY <1>4, <2>1 DEF RulesInv, RulesTypes
<1>8. CASE G!Changed
    BY <1>8 DEF G!Changed, RulesInv, RulesTypes
<1>9. ASSUME NEW s \in Seq(Nat), EditOf(s) PROVE FALSE
    BY <1>9 DEF EditOf, RulesInv, RulesTypes
<1> QED BY <1>1, <1>4, <1>5, <1>6, <1>7, <1>8, <1>9 DEF EditorNext, G!vars, G!Commit, G!Load, G!Read, G!Draw, G!Cancel,
        G!OpenEditor

\* Rules and rule sets (global_rules_model.h, rules_page.cpp): no edit is forgotten or added
\* twice, an editor closes on what the store has, only a removal takes a set away, the rules
\* that take part refer to sets the library has, and no reader goes back.
THEOREM RulesKept == Spec => RulesAreKept
<1>1. RulesInv => G!TypeOK /\ G!NothingForgotten /\ G!AddedOnce
    BY EditsAreKept
<1>2. RulesInv /\ [Next]_vars => [accepted'.version >= accepted.version]_(G!vars)
    BY EditorsMove, ReadersAdvance
<1>3. RulesInv /\ [Next]_vars =>
          [editor.open /\ ~editor'.open /\ saving =>
              editor.mark \in G!Marks(ruleStore) /\ ruleStore.stamp = rules.stamp]_(G!vars)
    BY EditorsMove, ClosesStored
<1>4. SetsInv => R!TypeOK /\ R!EnabledResolve
    <2> SUFFICES ASSUME SetsInv PROVE R!TypeOK
        BY DEF SetsInv
    <2>1. {libBusy, importing, personal.on} \subseteq BOOLEAN
        BY DEF SetsInv, SetsTypes
    <2>2. lib.rev \in 0 .. MaxSaves /\ libMirror.rev \in 0 .. MaxSaves
        BY SaveBounds DEF SetsInv, SetsTypes, Libraries, CopiesAreTrue, CopyOf
    <2>3. \A task \in jobs : task.op \in {"put", "remove", "refresh"} /\ task.set \in Sets
        BY DEF SetsInv, SetsTypes, Jobs
    <2> QED BY <2>1, <2>2, <2>3 DEF SetsInv, SetsTypes, Libraries, R!TypeOK
<1>5. SetsInv /\ [Next]_vars => [R!GoneByRemoval]_(R!vars)
    BY EditorsMove, RemovedAdvances DEF R!GoneByRemoval
<1>6. SetsInv /\ [Next]_vars => [libMirror'.rev >= libMirror.rev]_(R!vars)
    BY EditorsMove, RemovedAdvances
<1>7. Spec => []G!TypeOK /\ []G!NothingForgotten /\ []G!AddedOnce /\ []R!TypeOK /\ []R!EnabledResolve
    BY <1>1, <1>4, EditorsHold, PTL
<1>8. Spec => G!AcceptedNeverGoesBack
    BY <1>2, EditorsHold, PTL DEF Spec, G!AcceptedNeverGoesBack
<1>9. Spec => G!ClosedWhenStored
    BY <1>3, EditorsHold, PTL DEF Spec, G!ClosedWhenStored
<1>10. Spec => R!OnlyRemoved
    BY <1>5, EditorsHold, PTL DEF Spec, R!OnlyRemoved
<1>11. Spec => R!MirrorAdvances
    BY <1>6, EditorsHold, PTL DEF Spec, R!MirrorAdvances
<1> QED BY <1>7, <1>8, <1>9, <1>10, <1>11, PTL DEF RulesAreKept

----------------------------------------------------------------------------
(* Lists that are filtered *)

\* How many of the numbers are not greater.
Rank(J, i) == Cardinality({j \in J : j <= i})

LEMMA RankIs ==
    ASSUME NEW J, J \subseteq Nat, IsFiniteSet(J), NEW i \in J
    PROVE  /\ Rank(J, i) \in 1 .. Cardinality(J)
           /\ \A k \in J : i < k => Rank(J, i) < Rank(J, k)
<1>1. \A k \in J : /\ IsFiniteSet({j \in J : j <= k}) /\ Cardinality({j \in J : j <= k}) \in Nat
                   /\ Cardinality({j \in J : j <= k}) <= Cardinality(J)
    BY FS_Subset, FS_CardinalityType
<1>2. Cardinality(J) \in Nat
    BY FS_CardinalityType
<1>3. i \in {j \in J : j <= i}
    OBVIOUS
<1>4. Cardinality({j \in J : j <= i}) # 0
    BY <1>1, <1>3, FS_EmptySet
<1>5. ASSUME NEW k \in J, i < k PROVE Rank(J, i) < Rank(J, k)
    <2> DEFINE low == {j \in J : j <= i}  high == {j \in J : j <= k}
    <2>1. low \in SUBSET high /\ k \in high /\ k \notin low
        <3>1. i \in Nat /\ k \in Nat /\ J \subseteq Nat
            OBVIOUS
        <3>2. \A j \in Nat : j <= i => j <= k
            BY <1>5, <3>1
        <3>3. low \in SUBSET high
            BY <3>1, <3>2
        <3>4. k <= k /\ ~(k <= i)
            BY <1>5, <3>1
        <3> QED BY <3>3, <3>4
    <2>2. IsFiniteSet(high) /\ Cardinality(low) \in Nat /\ Cardinality(high) \in Nat
        BY <1>1
    <2> HIDE DEF low, high
    <2>3. Cardinality(low) <= Cardinality(high) /\ (Cardinality(high) = Cardinality(low) => high = low)
        BY <2>1, <2>2, FS_Subset
    <2>4. Cardinality(low) < Cardinality(high)
        BY <2>1, <2>2, <2>3
    <2> QED BY <2>4 DEF Rank, low, high
<1> QED BY <1>1, <1>2, <1>4, <1>5 DEF Rank

\* The numbers of a finite set can be listed from the least on.
LEMMA AscendingIs ==
    ASSUME NEW J, J \subseteq Nat, IsFiniteSet(J)
    PROVE  /\ Cardinality(J) \in Nat
           /\ Ascending(J) \in [1 .. Cardinality(J) -> J]
           /\ \A m, n \in 1 .. Cardinality(J) : m < n => Ascending(J)[m] < Ascending(J)[n]
           /\ \A m, n \in 1 .. Cardinality(J) : Ascending(J)[m] = Ascending(J)[n] => m = n
           /\ \A j \in J : \E n \in 1 .. Cardinality(J) : Ascending(J)[n] = j
<1> DEFINE N_ == Cardinality(J)  rank == [i \in J |-> Rank(J, i)]
<1>1. N_ \in Nat
    BY FS_CardinalityType
<1>2. IsFiniteSet(1 .. N_) /\ Cardinality(1 .. N_) = N_
    BY <1>1, FS_Interval
<1> HIDE DEF N_
<1>3. \A i \in J : rank[i] \in 1 .. N_ /\ \A k \in J : i < k => rank[i] < rank[k]
    BY RankIs DEF N_
<1>4. rank \in [J -> 1 .. N_]
    BY <1>3
<1>5. \A i, k \in J : i < k => rank[i] < rank[k]
    BY <1>3
<1> HIDE DEF rank
<1>6. \A i, k \in J : i = k \/ i < k \/ k < i
    OBVIOUS
<1>7. \A i, k \in J : rank[i] = rank[k] => i = k
    <2> SUFFICES ASSUME NEW i \in J, NEW k \in J, rank[i] = rank[k] PROVE i = k
        OBVIOUS
    <2>1. rank[i] \in Int /\ rank[k] \in Int
        BY <1>4
    <2> QED BY <1>5, <1>6, <2>1
<1>8. \A n \in 1 .. N_ : \E i \in J : rank[i] = n
    <2>1. rank \in Injection(J, 1 .. N_)
        BY <1>4, <1>7 DEF Injection, IsInjective
    <2>2. Cardinality(J) = Cardinality(1 .. N_)
        BY <1>2 DEF N_
    <2>3. rank \in Surjection(J, 1 .. N_)
        BY <1>2, <2>1, <2>2, FS_Injection
    <2> QED BY <2>3 DEF Surjection
<1> DEFINE f == [n \in 1 .. N_ |-> CHOOSE i \in J : rank[i] = n]
<1>9. \A n \in 1 .. N_ : f[n] \in J /\ rank[f[n]] = n
    BY <1>8
<1>10. f \in [1 .. N_ -> J]
    BY <1>9
<1> HIDE DEF f
<1>11. \A m, n \in 1 .. N_ : m < n => f[m] < f[n]
    <2> SUFFICES ASSUME NEW m \in 1 .. N_, NEW n \in 1 .. N_, m < n PROVE f[m] < f[n]
        OBVIOUS
    <2>1. f[m] \in J /\ f[n] \in J /\ rank[f[m]] = m /\ rank[f[n]] = n
        BY <1>9
    <2>2. m \in Int /\ n \in Int /\ ~(n < m) /\ m # n
        BY <1>1
    <2>3. CASE f[n] < f[m]
        BY <1>5, <2>1, <2>2, <2>3
    <2>4. CASE f[n] = f[m]
        BY <2>1, <2>2, <2>4
    <2> QED BY <1>6, <2>1, <2>3, <2>4
<1> DEFINE A == Ascending(J)
<1>12. A \in [1 .. N_ -> J] /\ \A m, n \in 1 .. N_ : m < n => A[m] < A[n]
    BY <1>10, <1>11 DEF Ascending, N_
<1> HIDE DEF A
<1>13. \A m, n \in 1 .. N_ : A[m] = A[n] => m = n
    <2> SUFFICES ASSUME NEW m \in 1 .. N_, NEW n \in 1 .. N_, A[m] = A[n] PROVE m = n
        OBVIOUS
    <2>1. A[m] \in Nat /\ A[n] \in Nat
        BY <1>12
    <2>2. m = n \/ m < n \/ n < m
        BY <1>1
    <2> QED BY <1>12, <2>1, <2>2
<1>14. \A j \in J : \E n \in 1 .. N_ : A[n] = j
    <2>1. A \in Injection(1 .. N_, J)
        BY <1>12, <1>13 DEF Injection, IsInjective
    <2>2. Cardinality(1 .. N_) = Cardinality(J)
        BY <1>2 DEF N_
    <2>3. A \in Surjection(1 .. N_, J)
        BY <1>2, <2>1, <2>2, FS_Injection
    <2> QED BY <2>3 DEF Surjection
<1> QED BY <1>1, <1>12, <1>13, <1>14 DEF A, N_

Elements(s) == {s[i] : i \in 1 .. Len(s)}

\* What is kept of a list: its members that are in the set, each where it was among the others.
LEMMA KeptIs ==
    ASSUME NEW V, NEW s \in Seq(V), NEW keep
    PROVE  /\ Kept(s, keep) \in Seq(V)
           /\ Elements(Kept(s, keep)) = Elements(s) \cap keep
           /\ (\A i, k \in 1 .. Len(s) : s[i] = s[k] => i = k) =>
                  \A m, n \in 1 .. Len(Kept(s, keep)) : Kept(s, keep)[m] = Kept(s, keep)[n] => m = n
<1> DEFINE J_ == {i \in DOMAIN s : s[i] \in keep}  at == Ascending(J_)  N_ == Cardinality(J_)
<1>1. DOMAIN s = 1 .. Len(s) /\ Len(s) \in Nat /\ \A i \in 1 .. Len(s) : s[i] \in V
    BY LenProperties, ElementOfSeq
<1>2. J_ \subseteq Nat /\ IsFiniteSet(J_)
    <2>1. IsFiniteSet(1 .. Len(s))
        BY <1>1, FS_Interval
    <2>2. J_ \in SUBSET (1 .. Len(s))
        BY <1>1
    <2>3. 1 .. Len(s) \subseteq Nat
        BY <1>1
    <2> QED BY <2>1, <2>2, <2>3, FS_Subset
<1>3. \A i : i \in J_ <=> i \in 1 .. Len(s) /\ s[i] \in keep
    BY <1>1
<1>4. Kept(s, keep) = [n \in DOMAIN at |-> s[at[n]]]
    BY DEF Kept
<1> HIDE DEF J_
<1>5. /\ N_ \in Nat /\ at \in [1 .. N_ -> J_]
      /\ \A m, n \in 1 .. N_ : at[m] = at[n] => m = n
      /\ \A j \in J_ : \E n \in 1 .. N_ : at[n] = j
    BY <1>2, AscendingIs
<1> HIDE DEF at, N_
<1> DEFINE k == Kept(s, keep)
<1>6. k = [n \in 1 .. N_ |-> s[at[n]]]
    BY <1>4, <1>5
<1> HIDE DEF k
<1>7. \A n \in 1 .. N_ : at[n] \in 1 .. Len(s) /\ s[at[n]] \in keep /\ k[n] = s[at[n]]
    BY <1>3, <1>5, <1>6
<1>8. k \in [1 .. N_ -> V]
    BY <1>1, <1>6, <1>7
<1>9. k \in Seq(V) /\ Len(k) = N_
    <2>1. k \in Seq(V)
        BY <1>5, <1>8, SeqDef
    <2>2. DOMAIN k = 1 .. N_ /\ DOMAIN k = 1 .. Len(k) /\ Len(k) \in Nat
        BY <1>8, <2>1, LenProperties
    <2> QED BY <1>5, <2>1, <2>2
<1>10. Elements(k) = Elements(s) \cap keep
    <2>1. ASSUME NEW i \in 1 .. Len(s), s[i] \in keep PROVE \E n \in 1 .. N_ : k[n] = s[i]
        <3>1. PICK n \in 1 .. N_ : at[n] = i
            BY <1>3, <1>5, <2>1
        <3> QED BY <1>7, <3>1
    <2>2. \A e : e \in Elements(k) <=> \E n \in 1 .. N_ : e = k[n]
        BY <1>9 DEF Elements
    <2>3. \A e : e \in Elements(s) <=> \E i \in 1 .. Len(s) : e = s[i]
        BY DEF Elements
    <2>4. \A e : e \in Elements(k) <=> e \in Elements(s) /\ e \in keep
        BY <1>7, <2>1, <2>2, <2>3
    <2> QED BY <2>4
<1>11. ASSUME \A i, j \in 1 .. Len(s) : s[i] = s[j] => i = j,
              NEW m \in 1 .. N_, NEW n \in 1 .. N_, k[m] = k[n]
       PROVE  m = n
    BY <1>5, <1>7, <1>11
<1> QED BY <1>9, <1>10, <1>11 DEF k

----------------------------------------------------------------------------
(* The list of subscriptions *)

\* ---- lists ----

LEMMA SameKept == \A s, keep : L!Kept(s, keep) = Kept(s, keep)
BY DEF L!Kept, L!Ascending, L!Cardinality, Kept, Ascending, Cardinality

LEMMA ElementsAre ==
    ASSUME NEW V, NEW s \in Seq(V)
    PROVE  Elements(s) \subseteq V /\ L!ToSet(s) = Elements(s)
<1>1. DOMAIN s = 1 .. Len(s) /\ \A i \in 1 .. Len(s) : s[i] \in V
    BY LenProperties, ElementOfSeq
<1> QED BY <1>1 DEF Elements, L!ToSet

LEMMA KeptElements ==
    ASSUME NEW V, NEW s \in Seq(V), NEW keep
    PROVE  Kept(s, keep) \in Seq(V) /\ Elements(Kept(s, keep)) = Elements(s) \cap keep
BY KeptIs

LEMMA ConcatElements ==
    ASSUME NEW V, NEW s \in Seq(V), NEW r \in Seq(V)
    PROVE  /\ s \o r \in Seq(V) /\ Len(s \o r) = Len(s) + Len(r)
           /\ Elements(s \o r) = Elements(s) \cup Elements(r)
<1> DEFINE t == s \o r
<1>1. /\ t \in Seq(V) /\ Len(t) = Len(s) + Len(r) /\ Len(s) \in Nat /\ Len(r) \in Nat
      /\ \A i \in 1 .. Len(s) + Len(r) : t[i] = IF i <= Len(s) THEN s[i] ELSE r[i - Len(s)]
    BY ConcatProperties, LenProperties
<1> HIDE DEF t
<1>2. ASSUME NEW i \in 1 .. Len(t) PROVE t[i] \in Elements(s) \cup Elements(r)
    <2>1. CASE i <= Len(s)
        BY <1>1, <2>1 DEF Elements
    <2>2. CASE ~(i <= Len(s))
        <3>1. i - Len(s) \in 1 .. Len(r) /\ t[i] = r[i - Len(s)]
            BY <1>1, <2>2
        <3> QED BY <3>1 DEF Elements
    <2> QED BY <2>1, <2>2
<1>3. \A i \in 1 .. Len(s) : i \in 1 .. Len(t) /\ t[i] = s[i]
    BY <1>1
<1>4. ASSUME NEW i \in 1 .. Len(r) PROVE r[i] \in Elements(t)
    <2> DEFINE k == i + Len(s)
    <2>1. k \in 1 .. Len(t) /\ ~(k <= Len(s)) /\ k - Len(s) = i
        BY <1>1
    <2> HIDE DEF k
    <2>2. t[k] = r[i]
        BY <1>1, <2>1
    <2> QED BY <2>1, <2>2 DEF Elements
<1>5. Elements(t) \subseteq Elements(s) \cup Elements(r)
    BY <1>2 DEF Elements
<1>6. Elements(s) \subseteq Elements(t)
    BY <1>3 DEF Elements
<1>7. Elements(r) \subseteq Elements(t)
    BY <1>4 DEF Elements
<1> QED BY <1>1, <1>5, <1>6, <1>7 DEF t

LEMMA AppendElements ==
    ASSUME NEW V, NEW s \in Seq(V), NEW e \in V
    PROVE  Append(s, e) \in Seq(V) /\ Elements(Append(s, e)) = Elements(s) \cup {e}
<1>1. Append(s, e) = s \o <<e>>
    BY AppendIsConcat
<1>2. <<e>> \in Seq(V) /\ Elements(<<e>>) = {e}
    BY DEF Elements
<1> HIDE DEF Elements
<1>3. s \o <<e>> \in Seq(V) /\ Elements(s \o <<e>>) = Elements(s) \cup Elements(<<e>>)
    BY <1>2, ConcatElements
<1> QED BY <1>1, <1>2, <1>3

\* A card put at another place leaves the others.
LEMMA MovedIs ==
    ASSUME NEW V, NEW s \in Seq(V), NEW from \in 1 .. Len(s), NEW to \in 1 .. Len(s)
    PROVE  LET ids == L!InsertAt(L!RemoveAt(s, from), to, s[from])
           IN  ids \in Seq(V) /\ Elements(ids) = Elements(s)
<1>1. Len(s) \in Nat /\ s[from] \in V
    BY LenProperties, ElementOfSeq
<1> DEFINE head == SubSeq(s, 1, from - 1)  rest == SubSeq(s, from + 1, Len(s))  r == L!RemoveAt(s, from)
<1>2. /\ head \in Seq(V) /\ Len(head) = from - 1
      /\ \A i \in 1 .. from - 1 : head[i] = s[i]
    BY <1>1, SubSeqProperties
<1>3. /\ rest \in Seq(V) /\ Len(rest) = Len(s) - from
      /\ \A i \in 1 .. Len(s) - from : rest[i] = s[from + i]
    BY <1>1, SubSeqProperties
<1>4. r = head \o rest
    BY DEF L!RemoveAt
<1> HIDE DEF head, rest, r
<1>5. /\ r \in Seq(V) /\ Len(r) = Len(s) - 1 /\ Elements(r) = Elements(head) \cup Elements(rest)
    <2>1. head \in Seq(V) /\ rest \in Seq(V)
        BY <1>2, <1>3
    <2>2. /\ head \o rest \in Seq(V) /\ Len(head \o rest) = Len(head) + Len(rest)
          /\ Elements(head \o rest) = Elements(head) \cup Elements(rest)
        BY <2>1, ConcatElements
    <2> QED BY <1>1, <1>2, <1>3, <1>4, <2>2
<1>6. Elements(s) = Elements(r) \cup {s[from]}
    <2>1. \A i \in 1 .. from - 1 : head[i] = s[i] /\ i \in 1 .. Len(s) /\ i \in 1 .. Len(head)
        BY <1>1, <1>2
    <2>2. \A i \in 1 .. Len(s) - from : rest[i] = s[from + i] /\ from + i \in 1 .. Len(s) /\ i \in 1 .. Len(rest)
        BY <1>1, <1>3
    <2>3. \A i \in 1 .. Len(s) : i = from \/ i \in 1 .. from - 1 \/ (i - from \in 1 .. Len(s) - from /\ from + (i - from) = i)
        BY <1>1
    <2>4. ASSUME NEW i \in 1 .. Len(s) PROVE s[i] \in Elements(head) \cup Elements(rest) \cup {s[from]}
        <3>1. CASE i \in 1 .. from - 1
            BY <2>1, <3>1 DEF Elements
        <3>2. CASE i - from \in 1 .. Len(s) - from /\ from + (i - from) = i
            <4>1. rest[i - from] = s[i] /\ i - from \in 1 .. Len(rest)
                BY <2>2, <3>2
            <4> QED BY <4>1 DEF Elements
        <3> QED BY <2>3, <3>1, <3>2
    <2>5. Elements(head) \subseteq Elements(s)
        BY <1>2, <2>1 DEF Elements
    <2>6. Elements(rest) \subseteq Elements(s)
        <3> SUFFICES ASSUME NEW i \in 1 .. Len(rest) PROVE rest[i] \in Elements(s)
            BY DEF Elements
        <3>1. rest[i] = s[from + i] /\ from + i \in 1 .. Len(s)
            BY <1>3, <2>2
        <3> QED BY <3>1 DEF Elements
    <2>7. s[from] \in Elements(s)
        BY DEF Elements
    <2>8. Elements(s) \subseteq Elements(head) \cup Elements(rest) \cup {s[from]}
        BY <2>4 DEF Elements
    <2> QED BY <1>5, <2>5, <2>6, <2>7, <2>8
<1> DEFINE low == SubSeq(r, 1, to - 1)  high == SubSeq(r, to, Len(r))  e == s[from]
           ids == L!InsertAt(r, to, e)
<1>7. /\ low \in Seq(V) /\ Len(low) = to - 1 /\ \A i \in 1 .. to - 1 : low[i] = r[i]
    BY <1>1, <1>5, SubSeqProperties
<1>8. /\ high \in Seq(V) /\ Len(high) = Len(r) - to + 1
      /\ \A i \in 1 .. Len(r) - to + 1 : high[i] = r[to + i - 1]
    BY <1>1, <1>5, SubSeqProperties
<1>9. ids = (low \o <<e>>) \o high
    BY DEF L!InsertAt
<1> HIDE DEF low, high, ids
<1>10. <<e>> \in Seq(V) /\ Elements(<<e>>) = {e}
    BY <1>1 DEF Elements
<1> HIDE DEF e
<1>11. low \o <<e>> \in Seq(V) /\ Elements(low \o <<e>>) = Elements(low) \cup {e}
    <2>1. low \in Seq(V) /\ <<e>> \in Seq(V)
        BY <1>7, <1>10
    <2>2. Elements(low \o <<e>>) = Elements(low) \cup Elements(<<e>>) /\ low \o <<e>> \in Seq(V)
        BY <2>1, ConcatElements
    <2> QED BY <1>10, <2>2
<1>12. ids \in Seq(V) /\ Elements(ids) = Elements(low) \cup {e} \cup Elements(high)
    <2> DEFINE front == low \o <<e>>
    <2>1. front \in Seq(V) /\ high \in Seq(V)
        BY <1>8, <1>11
    <2> HIDE DEF front
    <2>2. Elements(front \o high) = Elements(front) \cup Elements(high) /\ front \o high \in Seq(V)
        BY <2>1, ConcatElements
    <2> QED BY <1>9, <1>11, <2>2 DEF front
<1>13. Elements(low) \cup Elements(high) = Elements(r)
    <2>1. \A i \in 1 .. to - 1 : low[i] = r[i] /\ i \in 1 .. Len(r) /\ i \in 1 .. Len(low)
        BY <1>1, <1>5, <1>7
    <2>2. \A i \in 1 .. Len(r) - to + 1 : high[i] = r[to + i - 1] /\ to + i - 1 \in 1 .. Len(r) /\ i \in 1 .. Len(high)
        BY <1>1, <1>5, <1>8
    <2>3. \A i \in 1 .. Len(r) : i \in 1 .. to - 1 \/ (i - to + 1 \in 1 .. Len(r) - to + 1 /\ to + (i - to + 1) - 1 = i)
        BY <1>1, <1>5
    <2>4. ASSUME NEW i \in 1 .. Len(r) PROVE r[i] \in Elements(low) \cup Elements(high)
        <3>1. CASE i \in 1 .. to - 1
            BY <2>1, <3>1 DEF Elements
        <3>2. CASE i - to + 1 \in 1 .. Len(r) - to + 1 /\ to + (i - to + 1) - 1 = i
            <4>1. high[i - to + 1] = r[i] /\ i - to + 1 \in 1 .. Len(high)
                BY <2>2, <3>2
            <4> QED BY <4>1 DEF Elements
        <3> QED BY <2>3, <3>1, <3>2
    <2>5. Elements(low) \subseteq Elements(r)
        BY <1>7, <2>1 DEF Elements
    <2>6. Elements(high) \subseteq Elements(r)
        <3> SUFFICES ASSUME NEW i \in 1 .. Len(high) PROVE high[i] \in Elements(r)
            BY DEF Elements
        <3>1. high[i] = r[to + i - 1] /\ to + i - 1 \in 1 .. Len(r)
            BY <1>8, <2>2
        <3> QED BY <3>1 DEF Elements
    <2>7. Elements(r) \subseteq Elements(low) \cup Elements(high)
        BY <2>4 DEF Elements
    <2> QED BY <2>5, <2>6, <2>7
<1>14. Elements(ids) = Elements(s)
    BY <1>6, <1>12, <1>13 DEF e
<1> QED BY <1>12, <1>14 DEF ids, r, e

\* ---- the invariant ----

ListOf == [order : Seq(Profiles), sel : Profiles \cup {None}, drops : Nat]
ListJobs == [pc : {"none", "start", "written", "done"}, target : Profiles \cup {None},
         prev : Profiles \cup {None}, ok : BOOLEAN, old : BOOLEAN]
Pumps == [pc : {"idle", "reading", "read"}, version : Nat, snap : ListOf, valid : BOOLEAN]

ListTypes ==
    /\ store \in ListOf /\ list \in ListOf /\ mirror \in ListOf
    /\ job \in ListJobs /\ pump \in Pumps
    /\ queued \in Profiles \cup {None} /\ wanted \in Profiles \cup {None}
    /\ deleting \in Profiles \cup {None}
    /\ {pending, drag, asked, report} \subseteq BOOLEAN
    /\ rev \in Nat /\ seen \in Nat /\ actions \in Nat /\ actions <= MaxActions

\* What is read is of its version, and what was shown is the store's while it is up to date.
ReadsAreTrue ==
    /\ seen <= rev /\ pump.version <= rev
    /\ pump.pc = "read" /\ pump.version = rev => pump.snap = store
    /\ ~asked /\ seen = rev => list = store

\* Somebody works for the newest selection, until it is decided.
JobIsWanted ==
    /\ pending <=> job.pc # "none"
    /\ IF job.pc # "none" /\ job.old THEN queued = wanted ELSE queued = None
    /\ job.pc # "none" /\ (job.old \/ job.target = wanted) => wanted # None
    /\ job.pc # "none" /\ ~job.old => job.target = wanted
    /\ job.pc \in {"none", "start"} => job.ok = FALSE
    /\ job.pc = "written" => store.sel = job.target
    /\ job.pc = "done" /\ job.ok /\ ~job.old /\ wanted \in L!In(store) => store.sel = wanted \/ deleting = wanted
    /\ ~pending /\ wanted \in L!In(store) => store.sel = wanted \/ deleting = wanted

\* While a subscription is being deleted there is no main one, and nobody selects one.
Deletion == deleting # None => deleting \in L!In(store) /\ store.sel = None /\ job.pc # "written"

\* No list is ahead of the store, and the page is ahead of the list only during a selection.
DropsInOrder ==
    /\ store.drops + (IF drag THEN 1 ELSE 0) <= actions
    /\ list.drops <= store.drops /\ mirror.drops <= store.drops /\ pump.snap.drops <= store.drops
    /\ ~pending => mirror.drops <= list.drops

ListInv == ListTypes /\ ReadsAreTrue /\ JobIsWanted /\ Deletion /\ DropsInOrder /\ L!MirrorFollows

\* The members of a list, by what happens to it.
LEMMA OrderIs ==
    ASSUME NEW l \in ListOf
    PROVE  /\ l.order \in Seq(Profiles) /\ L!In(l) = Elements(l.order) /\ L!In(l) \subseteq Profiles
           /\ l.sel \in Profiles \cup {None} /\ l.drops \in Nat
<1>1. l.order \in Seq(Profiles) /\ l.sel \in Profiles \cup {None} /\ l.drops \in Nat
    BY DEF ListOf
<1> QED BY <1>1, ElementsAre DEF L!In

LEMMA ListInit == L!Init => ListInv
<1> SUFFICES ASSUME L!Init PROVE ListInv
    OBVIOUS
<1>1. PICK first, second \in Profiles :
          first # second /\ store = [order |-> <<first, second>>, sel |-> first, drops |-> 0]
    BY DEF L!Init
<1>2. <<first, second>> \in Seq(Profiles) /\ <<>> \in Seq(Profiles)
    OBVIOUS
<1>3. store \in ListOf /\ store.drops = 0
    BY <1>1, <1>2 DEF ListOf
<1>4. L!Idle \in Pumps /\ L!Idle.pc = "idle" /\ L!Idle.version = 0 /\ L!Idle.snap.drops = 0
    BY <1>2 DEF L!Idle, Pumps, ListOf
<1>5. L!NoJob \in ListJobs /\ L!NoJob.pc = "none" /\ ~L!NoJob.old /\ L!NoJob.ok = FALSE
    BY DEF L!NoJob, ListJobs
<1>6. L!In(store) \subseteq Profiles
    BY <1>3, OrderIs
<1>7. ListTypes
    <2>1. MaxActions \in Nat
        BY BoundsAreNumbers
    <2>2. {pending, drag, asked, report} \subseteq BOOLEAN
        BY DEF L!Init
    <2> QED BY <1>3, <1>4, <1>5, <2>1, <2>2 DEF L!Init, ListTypes
<1>8. ReadsAreTrue
    BY <1>4 DEF L!Init, ReadsAreTrue
<1>9. JobIsWanted
    BY <1>5, <1>6, NoneIsNoProfile DEF L!Init, JobIsWanted
<1>11. Deletion
    BY DEF L!Init, Deletion
<1>10. DropsInOrder /\ L!MirrorFollows
    BY <1>3, <1>4 DEF L!Init, DropsInOrder, L!MirrorFollows
<1> QED BY <1>7, <1>8, <1>9, <1>10, <1>11 DEF ListInv

LEMMA DeletedIs ==
    ASSUME NEW l \in ListOf, NEW p \in Profiles, NEW t,
           t = [order |-> L!Kept(l.order, Profiles \ {p}), sel |-> IF l.sel = p THEN None ELSE l.sel,
                drops |-> l.drops]
    PROVE  /\ t \in ListOf /\ L!In(t) = L!In(l) \ {p} /\ t.drops = l.drops
           /\ t.sel = IF l.sel = p THEN None ELSE l.sel
<1>1. l.order \in Seq(Profiles) /\ L!In(l) = Elements(l.order) /\ L!In(l) \subseteq Profiles
    BY OrderIs
<1> DEFINE o == Kept(l.order, Profiles \ {p})
<1>2. o \in Seq(Profiles) /\ Elements(o) = Elements(l.order) \cap (Profiles \ {p})
    BY <1>1, KeptElements
<1>3. L!Kept(l.order, Profiles \ {p}) = o
    BY SameKept
<1> HIDE DEF o
<1>4. t = [order |-> o, sel |-> IF l.sel = p THEN None ELSE l.sel, drops |-> l.drops]
    BY <1>3
<1>5. t \in ListOf /\ t.order = o /\ t.drops = l.drops /\ t.sel = IF l.sel = p THEN None ELSE l.sel
    BY <1>2, <1>4 DEF ListOf
<1>6. L!In(t) = Elements(o)
    BY <1>5, OrderIs
<1> QED BY <1>1, <1>2, <1>5, <1>6

LEMMA ImportedIs ==
    ASSUME NEW l \in ListOf, NEW p \in Profiles, NEW t, t = [l EXCEPT !.order = Append(@, p)]
    PROVE  t \in ListOf /\ L!In(t) = L!In(l) \cup {p} /\ t.drops = l.drops /\ t.sel = l.sel
<1>1. l.order \in Seq(Profiles) /\ L!In(l) = Elements(l.order)
    BY OrderIs
<1> DEFINE o == Append(l.order, p)
<1>2. o \in Seq(Profiles) /\ Elements(o) = Elements(l.order) \cup {p}
    BY <1>1, AppendElements
<1> HIDE DEF o
<1>3. t = [l EXCEPT !.order = o]
    BY DEF o
<1>4. t \in ListOf /\ t.order = o /\ t.drops = l.drops /\ t.sel = l.sel
    BY <1>2, <1>3 DEF ListOf
<1> QED BY <1>1, <1>2, <1>4, OrderIs

LEMMA ReorderedIs ==
    ASSUME NEW l \in ListOf, NEW ids \in Seq(Profiles), NEW t,
           t = [L!Reordered(l, ids) EXCEPT !.drops = @ + 1]
    PROVE  t \in ListOf /\ L!In(t) = L!In(l) /\ t.drops = l.drops + 1 /\ t.sel = l.sel
<1>1. l.order \in Seq(Profiles) /\ L!In(l) = Elements(l.order) /\ L!In(l) \subseteq Profiles
      /\ L!ToSet(ids) = Elements(ids) /\ Elements(ids) \subseteq Profiles
    BY OrderIs, ElementsAre
<1> DEFINE a == Kept(ids, L!In(l))  b == Kept(l.order, Profiles \ L!ToSet(ids))
<1>2. a \in Seq(Profiles) /\ Elements(a) = Elements(ids) \cap L!In(l)
    BY KeptElements
<1>3. b \in Seq(Profiles) /\ Elements(b) = Elements(l.order) \cap (Profiles \ L!ToSet(ids))
    BY <1>1, KeptElements
<1>4. L!Reordered(l, ids) = [l EXCEPT !.order = a \o b]
    BY SameKept DEF L!Reordered
<1> HIDE DEF a, b
<1> DEFINE o == a \o b
<1>5. o \in Seq(Profiles) /\ Elements(o) = Elements(a) \cup Elements(b)
    BY <1>2, <1>3, ConcatElements
<1>6. t = [[l EXCEPT !.order = o] EXCEPT !.drops = @ + 1]
    BY <1>4
<1> HIDE DEF o
<1> DEFINE u == [l EXCEPT !.order = o]
<1>9. u \in ListOf /\ u.order = o /\ u.drops = l.drops /\ u.sel = l.sel
    BY <1>5 DEF ListOf
<1> HIDE DEF u
<1>7. t \in ListOf /\ t.order = o /\ t.drops = l.drops + 1 /\ t.sel = l.sel
    <2>1. t = [u EXCEPT !.drops = @ + 1]
        BY <1>6 DEF u
    <2>2. l.drops \in Nat
        BY OrderIs
    <2>3. t = [order |-> u.order, sel |-> u.sel, drops |-> u.drops + 1]
        BY <1>9, <2>1 DEF ListOf
    <2>4. u.order \in Seq(Profiles) /\ u.sel \in Profiles \cup {None} /\ u.drops + 1 \in Nat
        BY <1>9, <2>2, OrderIs
    <2> DEFINE d == u.drops + 1
    <2> HIDE DEF d
    <2>7. d \in Nat
        BY <2>4 DEF d
    <2>8. [order |-> u.order, sel |-> u.sel, drops |-> d] \in ListOf
        BY <2>4, <2>7 DEF ListOf
    <2>5. t \in ListOf
        BY <2>3, <2>8 DEF d
    <2>6. t.order = u.order /\ t.sel = u.sel /\ t.drops = u.drops + 1
        BY <2>3
    <2> QED BY <1>9, <2>5, <2>6
<1>8. L!In(t) = Elements(o)
    BY <1>7, OrderIs
<1> QED BY <1>1, <1>2, <1>3, <1>5, <1>7, <1>8

\* ---- the steps ----

\* The page takes the list over or shows what the handler showed.
LEMMA FrameIs ==
    ASSUME NEW shown, L!Frame(shown)
    PROVE  IF ~(list' = list /\ pending' = pending /\ drag' = drag) /\ ~pending' /\ ~drag'
           THEN mirror' = list' ELSE mirror' = shown
BY DEF L!Frame

\* What a selection asked for does to the job, the queue and the pump.
LEMMA LaunchIs ==
    ASSUME ListInv, NEW p \in Profiles, L!Launch(p)
    PROVE  /\ actions < MaxActions /\ list' = list /\ pending' = TRUE
           /\ \/ UNCHANGED <<pending, job, queued, wanted, asked, pump, actions>>
              \/ /\ actions' = actions + 1 /\ wanted' = p /\ asked' = TRUE
                 /\ pump' \in Pumps /\ pump'.pc = pump.pc /\ pump'.version = pump.version
                 /\ pump'.snap = pump.snap /\ job' \in ListJobs
                 /\ \/ /\ job.pc = "none" /\ queued' = None
                       /\ job'.pc = "start" /\ job'.target = p /\ ~job'.old /\ job'.ok = FALSE
                    \/ /\ job.pc # "none" /\ queued' = p
                       /\ job'.pc = job.pc /\ job'.target = job.target /\ job'.old /\ job'.ok = job.ok
<1> USE DEF ListInv, ListTypes
<1>1. CASE pending /\ wanted = p
    BY <1>1 DEF L!Launch
<1>2. CASE ~(pending /\ wanted = p)
    <2>1. /\ actions < MaxActions /\ list' = list /\ actions' = actions + 1 /\ pending' = TRUE /\ wanted' = p
          /\ asked' = TRUE /\ pump' = [pump EXCEPT !.valid = FALSE]
          /\ IF job.pc = "none"
             THEN job' = [L!NoJob EXCEPT !.pc = "start", !.target = p] /\ queued' = queued
             ELSE job' = [job EXCEPT !.old = TRUE] /\ queued' = p
        BY <1>2 DEF L!Launch, L!RequestSync, L!Replaces
    <2>2. /\ pump' \in Pumps /\ pump'.pc = pump.pc /\ pump'.version = pump.version /\ pump'.snap = pump.snap
        BY <2>1 DEF Pumps
    <2>3. CASE job.pc = "none"
        <3>1. job' = [pc |-> "start", target |-> p, prev |-> None, ok |-> FALSE, old |-> FALSE]
            BY <2>1, <2>3 DEF L!NoJob
        <3>2. queued' = None
            BY <2>1, <2>3 DEF JobIsWanted
        <3> QED BY <2>1, <2>2, <2>3, <3>1, <3>2 DEF ListJobs
    <2>4. CASE job.pc # "none"
        BY <2>1, <2>2, <2>4 DEF ListJobs
    <2> QED BY <2>3, <2>4
<1> QED BY <1>1, <1>2

LEMMA LaunchKeeps ==
    ASSUME ListInv, NEW p \in Profiles, L!Launch(p), NEW shown \in ListOf, shown.drops = mirror.drops,
           L!Frame(shown), UNCHANGED <<drag, store, rev, seen, report, deleting>>
    PROVE  ListInv' /\ mirror'.drops >= mirror.drops /\ store'.drops = store.drops
<1> USE DEF ListInv
<1>1. mirror' = shown /\ mirror' \in ListOf
    BY LaunchIs, FrameIs
<1>2. p # None
    BY NoneIsNoProfile
<1>3. ListTypes'
    <2>1. {pending, drag, asked, report}' \subseteq BOOLEAN
        BY LaunchIs DEF ListTypes
    <2>2. actions' \in Nat /\ actions' <= MaxActions
        <3>1. actions \in Nat /\ MaxActions \in Nat /\ actions < MaxActions
            BY LaunchIs, BoundsAreNumbers DEF ListTypes
        <3>2. actions' = actions \/ actions' = actions + 1
            BY LaunchIs
        <3> QED BY <3>1, <3>2
    <2>3. job' \in ListJobs /\ pump' \in Pumps /\ {queued', wanted'} \subseteq Profiles \cup {None}
        BY LaunchIs DEF ListTypes
    <2> QED BY <1>1, <2>1, <2>2, <2>3, LaunchIs DEF ListTypes
<1>4. ReadsAreTrue'
    BY LaunchIs DEF ReadsAreTrue
<1>5. JobIsWanted'
    <2>1. L!In(store)' = L!In(store)
        BY DEF L!In
    <2>2. CASE UNCHANGED <<pending, job, queued, wanted, asked, pump, actions>>
        BY <2>1, <2>2 DEF JobIsWanted
    <2>3. CASE ~UNCHANGED <<pending, job, queued, wanted, asked, pump, actions>>
        BY <1>2, <2>1, <2>3, LaunchIs DEF JobIsWanted
    <2> QED BY <2>2, <2>3
<1>6. DropsInOrder'
    <2>1. store.drops \in Nat /\ actions \in Nat
        BY OrderIs DEF ListTypes
    <2>2. actions' = actions \/ actions' = actions + 1
        BY LaunchIs
    <2>3. pump'.snap = pump.snap /\ list' = list /\ pending' = TRUE
        BY LaunchIs
    <2> QED BY <1>1, <2>1, <2>2, <2>3 DEF DropsInOrder
<1>7. L!MirrorFollows'
    BY LaunchIs DEF L!MirrorFollows
<1>8. mirror.drops \in Nat
    BY OrderIs DEF ListTypes
<1>9. Deletion'
    <2>1. L!In(store)' = L!In(store)
        BY DEF L!In
    <2> QED BY <2>1, LaunchIs DEF Deletion
<1> QED BY <1>1, <1>3, <1>4, <1>5, <1>6, <1>7, <1>8, <1>9

\* Another list is selected from in the store.
LEMMA SelectedIs ==
    ASSUME NEW l \in ListOf, NEW p \in Profiles \cup {None}, NEW t, t = [l EXCEPT !.sel = p]
    PROVE  t \in ListOf /\ L!In(t) = L!In(l) /\ t.drops = l.drops /\ t.sel = p /\ t.order = l.order
<1>1. t \in ListOf /\ t.order = l.order /\ t.drops = l.drops /\ t.sel = p
    BY DEF ListOf
<1> QED BY <1>1, OrderIs

\* What a job does that selects in the store: with a new revision, or nothing.
JobMoves ==
    /\ UNCHANGED <<list, mirror, pending, queued, drag, pump, asked, seen, report, deleting, wanted, actions>>
    /\ deleting = None
    /\ job.pc \in {"start", "written"} /\ job' \in ListJobs /\ job'.old = job.old /\ job'.target = job.target
    /\ \/ /\ job'.pc = "done" /\ store' = store /\ rev' = rev
          /\ job'.ok => job.ok \/ store.sel = job.target
       \/ /\ \E p \in Profiles \cup {None} : store' = [store EXCEPT !.sel = p] /\ (job'.pc = "written" => p = job.target)
          /\ rev' = rev + 1
          /\ job'.pc = "written" \/ (job'.pc = "done" /\ ~job'.ok)

LEMMA JobIs ==
    ASSUME ListInv, L!Activate \/ \E works \in BOOLEAN : L!Restarted(works)
    PROVE  JobMoves
<1> USE DEF ListInv, JobMoves
<1>0. job \in ListJobs /\ store \in ListOf /\ rev \in Nat
    BY DEF ListTypes
<1>1. CASE L!Activate /\ job'.pc = "written"
    <2>1. /\ job' = [job EXCEPT !.pc = "written", !.prev = store.sel] /\ job.pc = "start"
          /\ store' = [store EXCEPT !.sel = job.target] /\ rev' = rev + 1
          /\ UNCHANGED <<list, mirror, pending, queued, drag, pump, asked, seen, report, deleting, wanted, actions>>
        BY <1>0, <1>1 DEF L!Activate, ListJobs
    <2>4. deleting = None
        BY <1>1 DEF L!Activate
    <2>2. store.sel \in Profiles \cup {None} /\ job.target \in Profiles \cup {None}
        BY <1>0, OrderIs DEF ListJobs
    <2>3. job' \in ListJobs /\ job'.old = job.old /\ job'.target = job.target
        BY <1>0, <2>1, <2>2 DEF ListJobs
    <2> QED BY <1>1, <2>1, <2>2, <2>3, <2>4
<1>2. CASE L!Activate /\ job'.pc # "written"
    <2>1. /\ UNCHANGED <<store, rev>> /\ job.pc = "start"
          /\ \/ job' = [job EXCEPT !.pc = "done"]
             \/ job' = [job EXCEPT !.pc = "done", !.ok = TRUE] /\ job.target = store.sel
          /\ UNCHANGED <<list, mirror, pending, queued, drag, pump, asked, seen, report, deleting, wanted, actions>>
        BY <1>0, <1>2 DEF L!Activate, ListJobs
    <2>3. deleting = None
        BY <1>2 DEF L!Activate
    <2>2. job' \in ListJobs /\ job'.old = job.old /\ job'.target = job.target /\ job'.pc = "done"
          /\ (job'.ok => job.ok \/ store.sel = job.target)
        BY <1>0, <2>1 DEF ListJobs
    <2> QED BY <2>1, <2>2, <2>3
<1>3. ASSUME NEW works \in BOOLEAN, L!Restarted(works)
      PROVE  JobMoves
    <2>1. /\ job.pc = "written" /\ job' = [job EXCEPT !.pc = "done", !.ok = works]
          /\ IF works THEN UNCHANGED <<store, rev>>
             ELSE store' = [store EXCEPT !.sel = job.prev] /\ rev' = rev + 1
          /\ UNCHANGED <<list, mirror, pending, queued, drag, pump, asked, seen, report, deleting, wanted, actions>>
        BY <1>3 DEF L!Restarted
    <2>2. job' \in ListJobs /\ job'.old = job.old /\ job'.target = job.target /\ job'.pc = "done" /\ job'.ok = works
        BY <1>0, <2>1 DEF ListJobs
    <2>3. store.sel = job.target /\ job.prev \in Profiles \cup {None}
        BY <1>0, <2>1 DEF JobIsWanted, ListJobs
    <2>4. deleting = None
        BY <2>1 DEF Deletion
    <2> QED BY <2>1, <2>2, <2>3, <2>4
<1> QED BY <1>1, <1>2, <1>3

\* What a step may do to what the page shows.
Shows == mirror'.drops >= mirror.drops
         /\ (store'.drops > store.drops /\ L!In(mirror) = L!In(list) => mirror'.drops = store'.drops)

LEMMA JobKeeps ==
    ASSUME ListInv, JobMoves
    PROVE  ListInv' /\ Shows
<1> USE DEF ListInv
<1>1. /\ store \in ListOf /\ rev \in Nat /\ store.drops \in Nat /\ mirror.drops \in Nat
    BY OrderIs DEF ListTypes
<1>2. /\ UNCHANGED <<list, mirror, pending, queued, drag, pump, asked, seen, report, deleting, wanted, actions>>
      /\ job.pc \in {"start", "written"} /\ job' \in ListJobs /\ job'.old = job.old /\ job'.target = job.target
      /\ job'.pc \in {"written", "done"} /\ deleting = None
    BY DEF JobMoves
<1>3. /\ store' \in ListOf /\ L!In(store') = L!In(store) /\ store'.drops = store.drops
      /\ \/ store' = store /\ rev' = rev
         \/ rev' = rev + 1
    BY <1>1, SelectedIs DEF JobMoves
<1>4. ListTypes'
    BY <1>1, <1>2, <1>3 DEF ListTypes
<1>5. ReadsAreTrue'
    <2>1. seen \in Nat /\ pump.version \in Nat /\ seen <= rev /\ pump.version <= rev
        BY DEF ListTypes, ReadsAreTrue, Pumps
    <2> QED BY <1>1, <1>2, <1>3, <2>1 DEF ReadsAreTrue
<1>6. JobIsWanted'
    <2>1. L!In(store)' = L!In(store)
        BY <1>3 DEF L!In
    <2>2. job'.pc = "written" => store'.sel = job'.target
        BY <1>1, <1>2, SelectedIs DEF JobMoves
    <2>3. job'.pc = "done" /\ job'.ok => store' = store /\ store.sel = job.target
        BY <1>2 DEF JobMoves, JobIsWanted
    <2> QED BY <1>2, <2>1, <2>2, <2>3 DEF JobIsWanted
<1>7. DropsInOrder'
    BY <1>2, <1>3 DEF DropsInOrder
<1>8. L!MirrorFollows'
    BY <1>2 DEF L!MirrorFollows
<1>9. Deletion'
    BY <1>2 DEF Deletion
<1> QED BY <1>1, <1>2, <1>3, <1>4, <1>5, <1>6, <1>7, <1>8, <1>9 DEF Shows

LEMMA CompletedKeeps ==
    ASSUME ListInv, L!Completed
    PROVE  ListInv' /\ Shows
<1> USE DEF ListInv
<1>1. /\ job.pc = "done" /\ drag' = drag /\ store' = store /\ UNCHANGED <<rev, seen, report, deleting, actions>>
      /\ queued' = None /\ L!Frame(mirror)
      /\ job' = IF queued = None THEN L!NoJob ELSE [L!NoJob EXCEPT !.pc = "start", !.target = queued]
      /\ IF job.old THEN UNCHANGED <<pending, list, asked, pump, wanted>>
         ELSE /\ pending' = FALSE /\ asked' = TRUE /\ pump' = [pump EXCEPT !.valid = FALSE] /\ list' = store
              /\ wanted' = IF job.ok THEN wanted ELSE None
    BY DEF L!Completed, L!PublishCached, L!RequestSync
<1>2. /\ store \in ListOf /\ list \in ListOf /\ mirror \in ListOf /\ job \in ListJobs /\ pump \in Pumps
      /\ store.drops \in Nat /\ mirror.drops \in Nat /\ list.drops \in Nat
      /\ queued \in Profiles \cup {None} /\ wanted \in Profiles \cup {None}
    BY OrderIs DEF ListTypes
<1>5. Deletion'
    <2>1. L!In(store)' = L!In(store)
        BY <1>1 DEF L!In
    <2>2. job'.pc # "written"
        BY <1>1 DEF L!NoJob
    <2> QED BY <1>1, <2>1, <2>2 DEF Deletion
<1>3. CASE job.old
    <2>1. queued = wanted /\ queued # None /\ pending = TRUE
        BY <1>1, <1>3 DEF JobIsWanted, ListTypes
    <2>2. job' = [pc |-> "start", target |-> queued, prev |-> None, ok |-> FALSE, old |-> FALSE]
        BY <1>1, <2>1 DEF L!NoJob
    <2>3. UNCHANGED <<pending, list, asked, pump, wanted, drag>>
        BY <1>1, <1>3
    <2>4. mirror' = mirror
        BY <1>1, <2>3, FrameIs
    <2>5. job' \in ListJobs
        BY <1>2, <2>2 DEF ListJobs
    <2>6. ListTypes'
        BY <1>1, <1>2, <2>3, <2>4, <2>5 DEF ListTypes
    <2>7. ReadsAreTrue'
        BY <1>1, <2>3 DEF ReadsAreTrue
    <2>8. JobIsWanted'
        <3>1. L!In(store)' = L!In(store)
            BY <1>1 DEF L!In
        <3>2. job'.pc = "start" /\ job'.old = FALSE /\ job'.target = queued /\ job'.ok = FALSE
            BY <2>2
        <3>3. wanted' = wanted /\ wanted # None /\ queued = wanted
            BY <2>1, <2>3
        <3>4. pending' = TRUE /\ queued' = None
            BY <1>1, <2>1, <2>3
        <3> QED BY <3>2, <3>3, <3>4 DEF JobIsWanted
    <2>9. DropsInOrder' /\ L!MirrorFollows'
        BY <1>1, <2>1, <2>3, <2>4 DEF DropsInOrder, L!MirrorFollows
    <2> QED BY <1>1, <1>2, <1>5, <2>4, <2>6, <2>7, <2>8, <2>9 DEF Shows
<1>4. CASE ~job.old
    <2>1. queued = None /\ job.target = wanted /\ pending = TRUE
        BY <1>1, <1>4 DEF JobIsWanted, ListTypes
    <2>2. job' = [pc |-> "none", target |-> None, prev |-> None, ok |-> FALSE, old |-> FALSE]
        BY <1>1, <2>1 DEF L!NoJob
    <2>3. /\ pending' = FALSE /\ asked' = TRUE /\ list' = store /\ pump' \in Pumps /\ pump'.pc = pump.pc
          /\ pump'.version = pump.version /\ pump'.snap = pump.snap
          /\ wanted' = IF job.ok THEN wanted ELSE None
        BY <1>1, <1>2, <1>4 DEF Pumps
    <2>4. IF drag THEN mirror' = mirror ELSE mirror' = store
        BY <1>1, <2>1, <2>3, FrameIs DEF ListTypes
    <2>5. job' \in ListJobs
        BY <2>2 DEF ListJobs
    <2>6. ListTypes'
        BY <1>1, <1>2, <2>3, <2>4, <2>5 DEF ListTypes
    <2>7. ReadsAreTrue'
        BY <1>1, <2>3 DEF ReadsAreTrue
    <2>8. JobIsWanted'
        <3>1. L!In(store)' = L!In(store) /\ L!In(store) \subseteq Profiles
            BY <1>1, <1>2, OrderIs DEF L!In
        <3> QED BY <1>1, <1>4, <2>1, <2>2, <2>3, <3>1, NoneIsNoProfile DEF JobIsWanted
    <2>9. DropsInOrder'
        BY <1>1, <1>2, <2>3, <2>4 DEF DropsInOrder
    <2>10. L!MirrorFollows'
        BY <1>1, <2>3, <2>4 DEF L!MirrorFollows
    <2>11. Shows
        BY <1>1, <1>2, <2>4 DEF Shows, DropsInOrder
    <2> QED BY <1>5, <2>6, <2>7, <2>8, <2>9, <2>10, <2>11
<1> QED BY <1>3, <1>4

LEMMA BeginKeeps ==
    ASSUME ListInv, L!Begin
    PROVE  ListInv' /\ Shows
<1> USE DEF ListInv
<1>1. /\ drag = FALSE /\ drag' = TRUE /\ actions < MaxActions /\ actions' = actions + 1 /\ asked' = TRUE
      /\ pump' \in Pumps /\ pump'.pc = pump.pc /\ pump'.version = pump.version /\ pump'.snap = pump.snap
      /\ UNCHANGED <<store, rev, list, mirror, pending, job, queued, seen, report, deleting, wanted>>
    BY DEF L!Begin, L!RequestSync, ListTypes, Pumps
<1>2. /\ store.drops \in Nat /\ mirror.drops \in Nat /\ actions \in Nat /\ MaxActions \in Nat
    BY OrderIs, BoundsAreNumbers DEF ListTypes
<1>3. ListTypes'
    BY <1>1, <1>2 DEF ListTypes
<1>4. ReadsAreTrue'
    BY <1>1 DEF ReadsAreTrue
<1>5. JobIsWanted'
    <2>1. L!In(store)' = L!In(store)
        BY <1>1 DEF L!In
    <2> QED BY <1>1, <2>1 DEF JobIsWanted
<1>6. DropsInOrder'
    BY <1>1, <1>2 DEF DropsInOrder
<1>7. L!MirrorFollows'
    BY <1>1 DEF L!MirrorFollows
<1>8. Deletion'
    <2>1. L!In(store)' = L!In(store)
        BY <1>1 DEF L!In
    <2> QED BY <1>1, <2>1 DEF Deletion
<1> QED BY <1>1, <1>2, <1>3, <1>4, <1>5, <1>6, <1>7, <1>8 DEF Shows

LEMMA CancelKeeps ==
    ASSUME ListInv, L!Cancel
    PROVE  ListInv' /\ Shows
<1> USE DEF ListInv
<1>1. /\ drag = TRUE /\ drag' = FALSE /\ asked' = TRUE
      /\ pump' \in Pumps /\ pump'.pc = pump.pc /\ pump'.version = pump.version /\ pump'.snap = pump.snap
      /\ UNCHANGED <<list, pending, store, rev, job, queued, seen, report, deleting, wanted, actions>>
      /\ L!Frame(mirror)
    BY DEF L!Cancel, L!RequestSync, ListTypes, Pumps
<1>2. /\ store.drops \in Nat /\ mirror.drops \in Nat /\ list.drops \in Nat /\ actions \in Nat
      /\ list \in ListOf /\ mirror \in ListOf
    BY OrderIs DEF ListTypes
<1>3. IF pending THEN mirror' = mirror ELSE mirror' = list
    BY <1>1, FrameIs
<1>4. ListTypes'
    BY <1>1, <1>2, <1>3 DEF ListTypes
<1>5. ReadsAreTrue'
    BY <1>1 DEF ReadsAreTrue
<1>6. JobIsWanted'
    <2>1. L!In(store)' = L!In(store)
        BY <1>1 DEF L!In
    <2> QED BY <1>1, <2>1 DEF JobIsWanted
<1>7. DropsInOrder' /\ Shows
    BY <1>1, <1>2, <1>3 DEF DropsInOrder, Shows
<1>8. L!MirrorFollows'
    BY <1>1, <1>3 DEF L!MirrorFollows
<1>9. Deletion'
    <2>1. L!In(store)' = L!In(store)
        BY <1>1 DEF L!In
    <2> QED BY <1>1, <2>1 DEF Deletion
<1> QED BY <1>4, <1>5, <1>6, <1>7, <1>8, <1>9

LEMMA ReportKeeps ==
    ASSUME ListInv, L!Report
    PROVE  ListInv' /\ Shows
<1> USE DEF ListInv
<1>1. /\ report' = FALSE /\ asked' = TRUE /\ list' = store
      /\ pump' \in Pumps /\ pump'.pc = pump.pc /\ pump'.version = pump.version /\ pump'.snap = pump.snap
      /\ UNCHANGED <<pending, drag, store, rev, job, queued, seen, deleting, wanted, actions>>
      /\ L!Frame(mirror)
    BY DEF L!Report, L!PublishCached, L!RequestSync, ListTypes, Pumps
<1>2. /\ store.drops \in Nat /\ mirror.drops \in Nat /\ list.drops \in Nat /\ actions \in Nat
      /\ store \in ListOf /\ mirror \in ListOf
    BY OrderIs DEF ListTypes
<1>3. /\ mirror' = mirror \/ mirror' = store
      /\ ~pending /\ ~drag => mirror' = store
    BY <1>1, FrameIs DEF L!MirrorFollows
<1>4. ListTypes'
    BY <1>1, <1>2, <1>3 DEF ListTypes
<1>5. ReadsAreTrue'
    BY <1>1 DEF ReadsAreTrue
<1>6. JobIsWanted'
    <2>1. L!In(store)' = L!In(store)
        BY <1>1 DEF L!In
    <2> QED BY <1>1, <2>1 DEF JobIsWanted
<1>7. DropsInOrder' /\ Shows
    BY <1>1, <1>2, <1>3 DEF DropsInOrder, Shows
<1>8. L!MirrorFollows'
    BY <1>1, <1>3 DEF L!MirrorFollows
<1>9. Deletion'
    <2>1. L!In(store)' = L!In(store)
        BY <1>1 DEF L!In
    <2> QED BY <1>1, <2>1 DEF Deletion
<1> QED BY <1>4, <1>5, <1>6, <1>7, <1>8, <1>9

\* What a drop does: the order is stored and shown, and listed if it is one of the list's.
LEMMA DropIs ==
    ASSUME ListInv, NEW from \in 1 .. Len(mirror.order), NEW to \in 1 .. Len(mirror.order),
           NEW stored \in BOOLEAN, L!Drop(from, to, stored)
    PROVE  /\ drag = TRUE /\ drag' = FALSE /\ asked' = TRUE
           /\ pump' \in Pumps /\ pump'.pc = pump.pc /\ pump'.version = pump.version /\ pump'.snap = pump.snap
           /\ UNCHANGED <<pending, job, queued, seen, report, deleting, wanted, actions>>
           /\ store' \in ListOf /\ L!In(store') = L!In(store) /\ store'.sel = store.sel
           /\ list' \in ListOf /\ mirror' \in ListOf
           /\ ~pending => mirror' = list'
           /\ \/ store' = store /\ rev' = rev /\ list' = list /\ mirror' = (IF pending THEN mirror ELSE list)
              \/ /\ store'.drops = store.drops + 1 /\ rev' = rev + 1
                 /\ list'.drops \in {list.drops, store'.drops}
                 /\ L!In(mirror) = L!In(list) => list'.drops = store'.drops
                 /\ pending => mirror'.drops = store'.drops
<1> USE DEF ListInv
<1> DEFINE ids == L!InsertAt(L!RemoveAt(mirror.order, from), to, mirror.order[from])
<1>1. /\ store \in ListOf /\ list \in ListOf /\ mirror \in ListOf /\ pump \in Pumps
      /\ store.drops \in Nat /\ mirror.order \in Seq(Profiles)
    BY OrderIs DEF ListTypes
<1>2. ids \in Seq(Profiles) /\ Elements(ids) = Elements(mirror.order)
    BY <1>1, MovedIs
<1>3. L!ToSet(ids) = Elements(ids) /\ L!In(mirror) = Elements(mirror.order)
    BY <1>1, <1>2, OrderIs, ElementsAre
<1>4. /\ drag = TRUE /\ drag' = FALSE /\ asked' = TRUE /\ pump' = [pump EXCEPT !.valid = FALSE]
      /\ UNCHANGED <<pending, job, queued, seen, report, deleting, wanted, actions>>
      /\ IF stored
         THEN /\ store' = [L!Reordered(store, ids) EXCEPT !.drops = @ + 1] /\ rev' = rev + 1
              /\ list' = IF L!ToSet(ids) = L!In(list)
                         THEN [list EXCEPT !.order = ids, !.drops = store'.drops] ELSE list
         ELSE UNCHANGED <<store, rev, list>>
      /\ L!Frame(IF stored THEN [mirror EXCEPT !.order = ids, !.drops = store'.drops] ELSE mirror)
    BY DEF L!Drop, L!RequestSync, L!PublishOrder, ListTypes
<1> HIDE DEF ids
<1>5. pump' \in Pumps /\ pump'.pc = pump.pc /\ pump'.version = pump.version /\ pump'.snap = pump.snap
    BY <1>1, <1>4 DEF Pumps
<1>6. CASE ~stored
    <2>1. UNCHANGED <<store, rev, list>> /\ L!Frame(mirror)
        BY <1>4, <1>6
    <2>2. IF ~pending THEN mirror' = list ELSE mirror' = mirror
        BY <1>4, <2>1, FrameIs
    <2> QED BY <1>1, <1>4, <1>5, <2>1, <2>2
<1>7. CASE stored
    <2> DEFINE shown == [mirror EXCEPT !.order = ids, !.drops = store'.drops]
    <2>1. store' = [L!Reordered(store, ids) EXCEPT !.drops = @ + 1]
        BY <1>4, <1>7
    <2>2. store' \in ListOf /\ L!In(store') = L!In(store) /\ store'.drops = store.drops + 1 /\ store'.sel = store.sel
        BY <1>1, <1>2, <2>1, ReorderedIs
    <2>3. store'.drops \in Nat
        BY <2>2, OrderIs
    <2>4. shown \in ListOf /\ shown.drops = store'.drops
        BY <1>1, <1>2, <2>3 DEF ListOf
    <2>5. /\ list' \in ListOf /\ list'.drops \in {list.drops, store'.drops}
          /\ L!ToSet(ids) = L!In(list) => list'.drops = store'.drops
        <3>1. CASE L!ToSet(ids) = L!In(list)
            <4>1. list' = [list EXCEPT !.order = ids, !.drops = store'.drops]
                BY <1>4, <1>7, <3>1
            <4> QED BY <1>1, <1>2, <2>3, <4>1 DEF ListOf
        <3>2. CASE L!ToSet(ids) # L!In(list)
            BY <1>1, <1>4, <1>7, <3>2
        <3> QED BY <3>1, <3>2
    <2>6. L!Frame(shown)
        BY <1>4, <1>7
    <2> HIDE DEF shown
    <2>7. IF ~pending THEN mirror' = list' ELSE mirror' = shown
        BY <1>4, <2>6, FrameIs
    <2>8. rev' = rev + 1
        BY <1>4, <1>7
    <2>9. /\ list'.drops \in {list.drops, store'.drops}
          /\ L!In(mirror) = L!In(list) => list'.drops = store'.drops
        BY <1>2, <1>3, <2>5
    <2>10. mirror' \in ListOf /\ (pending => mirror'.drops = store'.drops) /\ (~pending => mirror' = list')
        BY <2>4, <2>5, <2>7
    <2> QED BY <1>4, <1>5, <2>2, <2>5, <2>8, <2>9, <2>10
<1> QED BY <1>6, <1>7

LEMMA DropKeeps ==
    ASSUME ListInv, NEW from \in 1 .. Len(mirror.order), NEW to \in 1 .. Len(mirror.order),
           NEW stored \in BOOLEAN, L!Drop(from, to, stored)
    PROVE  ListInv' /\ Shows
<1> USE DEF ListInv
<1>1. /\ store.drops \in Nat /\ mirror.drops \in Nat /\ list.drops \in Nat /\ actions \in Nat
      /\ rev \in Nat /\ seen \in Nat /\ pump.version \in Nat
    BY OrderIs DEF ListTypes, Pumps
<1>2. /\ drag = TRUE /\ drag' = FALSE /\ asked' = TRUE
      /\ pump' \in Pumps /\ pump'.pc = pump.pc /\ pump'.version = pump.version /\ pump'.snap = pump.snap
      /\ UNCHANGED <<pending, job, queued, seen, report, deleting, wanted, actions>>
      /\ store' \in ListOf /\ L!In(store') = L!In(store) /\ store'.sel = store.sel
      /\ list' \in ListOf /\ mirror' \in ListOf
      /\ ~pending => mirror' = list'
    BY DropIs
<1>3. \/ store' = store /\ rev' = rev /\ list' = list /\ mirror' = (IF pending THEN mirror ELSE list)
      \/ /\ store'.drops = store.drops + 1 /\ rev' = rev + 1
         /\ list'.drops \in {list.drops, store'.drops}
         /\ L!In(mirror) = L!In(list) => list'.drops = store'.drops
         /\ pending => mirror'.drops = store'.drops
    BY DropIs
<1>4. ListTypes'
    <2>1. rev' \in Nat
        BY <1>1, <1>3
    <2> QED BY <1>2, <2>1 DEF ListTypes
<1>5. ReadsAreTrue'
    BY <1>1, <1>2, <1>3 DEF ReadsAreTrue
<1>6. JobIsWanted'
    <2>1. L!In(store)' = L!In(store)
        BY <1>2 DEF L!In
    <2> QED BY <1>2, <2>1 DEF JobIsWanted
<1>7. DropsInOrder' /\ Shows
    <2>1. /\ store.drops + 1 <= actions /\ list.drops <= store.drops /\ mirror.drops <= store.drops
          /\ pump.snap.drops <= store.drops /\ (~pending => mirror.drops <= list.drops) /\ pump.snap.drops \in Nat
        BY <1>2, OrderIs DEF DropsInOrder, ListTypes, Pumps
    <2>2. CASE store' = store /\ list' = list /\ mirror' = (IF pending THEN mirror ELSE list)
        <3>1. mirror'.drops >= mirror.drops /\ mirror'.drops <= store.drops
            BY <1>1, <2>1, <2>2
        <3>2. store'.drops = store.drops /\ (~pending => mirror'.drops = list'.drops)
            BY <2>2
        <3> QED BY <1>1, <1>2, <2>1, <2>2, <3>1, <3>2 DEF DropsInOrder, Shows
    <2>3. CASE /\ store'.drops = store.drops + 1
               /\ list'.drops \in {list.drops, store'.drops}
               /\ L!In(mirror) = L!In(list) => list'.drops = store'.drops
               /\ pending => mirror'.drops = store'.drops
        <3>1. ~pending => mirror'.drops = list'.drops
            BY <1>2
        <3>2. /\ store'.drops \in Nat /\ store'.drops <= actions /\ list'.drops <= store'.drops
              /\ list.drops <= list'.drops
            BY <1>1, <2>1, <2>3
        <3>3. mirror'.drops <= store'.drops /\ mirror'.drops >= mirror.drops
            BY <1>1, <2>1, <2>3, <3>1, <3>2
        <3>4. L!In(mirror) = L!In(list) => mirror'.drops = store'.drops
            BY <2>3, <3>1
        <3>5. pump'.snap.drops <= store'.drops
            BY <1>1, <1>2, <2>1, <2>3
        <3>6. store'.drops + 0 <= actions' /\ drag' = FALSE /\ pending' = pending
            BY <1>2, <3>2
        <3>7. list'.drops \in Nat
            BY <1>1, <2>3, <3>2
        <3>8. DropsInOrder'
            BY <3>1, <3>2, <3>3, <3>5, <3>6, <3>7 DEF DropsInOrder
        <3>9. Shows
            BY <3>3, <3>4 DEF Shows
        <3> QED BY <3>8, <3>9
    <2> QED BY <1>3, <2>2, <2>3
<1>8. L!MirrorFollows'
    BY <1>2 DEF L!MirrorFollows
<1>9. Deletion'
    <2>1. L!In(store)' = L!In(store)
        BY <1>2 DEF L!In
    <2> QED BY <1>2, <2>1 DEF Deletion
<1> QED BY <1>4, <1>5, <1>6, <1>7, <1>8, <1>9

\* A subscription that comes or goes.
LEMMA MembersKeep ==
    ASSUME ListInv, NEW p \in Profiles, L!Import(p) \/ L!ClearStandby(p) \/ L!Reselect(p) \/ L!Delete(p)
    PROVE  ListInv' /\ Shows
<1> USE DEF ListInv
<1>1. /\ store \in ListOf /\ store.drops \in Nat /\ mirror.drops \in Nat /\ rev \in Nat /\ seen \in Nat
      /\ pump.version \in Nat /\ actions \in Nat /\ MaxActions \in Nat /\ L!In(store) \subseteq Profiles
      /\ actions <= MaxActions
    BY OrderIs, BoundsAreNumbers DEF ListTypes, Pumps
<1>2. /\ rev' = rev + 1 /\ report' \in {report, TRUE}
      /\ actions' = actions \/ (actions < MaxActions /\ actions' = actions + 1)
      /\ UNCHANGED <<list, mirror, pending, job, queued, drag, pump, asked, seen, wanted>>
    BY DEF L!Import, L!ClearStandby, L!Reselect, L!Delete
<1>3. /\ store' \in ListOf /\ store'.drops = store.drops
      /\ \/ /\ L!In(store') = L!In(store) \cup {p} /\ store'.sel = store.sel /\ p # wanted
            /\ deleting' = deleting
         \/ /\ L!In(store') = L!In(store) /\ store.sel = p /\ store'.sel = None /\ job.pc # "written"
            /\ p \in L!In(store) /\ deleting' = p
         \/ L!In(store') = L!In(store) /\ deleting = p /\ store'.sel = p /\ deleting' = None
         \/ /\ L!In(store') = L!In(store) \ {p} /\ job.pc # "written"
            /\ store'.sel = (IF store.sel = p THEN None ELSE store.sel)
            /\ deleting \in {p, None} /\ deleting' = None
    <2>1. CASE L!Import(p)
        <3>1. store' = [store EXCEPT !.order = Append(@, p)] /\ p # wanted /\ deleting' = deleting
            BY <2>1 DEF L!Import
        <3> QED BY <1>1, <3>1, ImportedIs
    <2>2. CASE L!Delete(p)
        <3>1. /\ store' = [store EXCEPT !.order = L!Kept(@, Profiles \ {p}), !.sel = IF @ = p THEN None ELSE @]
              /\ job.pc # "written" /\ deleting \in {p, None} /\ deleting' = None
            BY <2>2 DEF L!Delete
        <3>2. /\ store' \in ListOf /\ L!In(store') = L!In(store) \ {p} /\ store'.drops = store.drops
              /\ store'.sel = IF store.sel = p THEN None ELSE store.sel
            <4>1. store = [order |-> store.order, sel |-> store.sel, drops |-> store.drops]
                BY <1>1 DEF ListOf
            <4>2. store' = [order |-> L!Kept(store.order, Profiles \ {p}),
                            sel |-> IF store.sel = p THEN None ELSE store.sel, drops |-> store.drops]
                BY <3>1, <4>1
            <4> QED BY <1>1, <4>2, DeletedIs
        <3> QED BY <3>1, <3>2
    <2>3. CASE L!ClearStandby(p)
        <3>1. /\ store' = [store EXCEPT !.sel = None] /\ store.sel = p /\ job.pc # "written"
              /\ p \in L!In(store) /\ deleting' = p
            BY <2>3 DEF L!ClearStandby
        <3> QED BY <1>1, <3>1, SelectedIs
    <2>4. CASE L!Reselect(p)
        <3>1. store' = [store EXCEPT !.sel = p] /\ deleting = p /\ deleting' = None
            BY <2>4 DEF L!Reselect
        <3> QED BY <1>1, <3>1, SelectedIs
    <2> QED BY <2>1, <2>2, <2>3, <2>4
<1>4. ListTypes'
    <2>1. rev' \in Nat /\ actions' \in Nat /\ actions' <= MaxActions
        BY <1>1, <1>2
    <2>2. deleting' \in Profiles \cup {None}
        BY <1>3 DEF ListTypes
    <2>3. {pending, drag, asked, report}' \subseteq BOOLEAN
        BY <1>2 DEF ListTypes
    <2> QED BY <1>2, <1>3, <2>1, <2>2, <2>3 DEF ListTypes
<1>5. ReadsAreTrue'
    BY <1>1, <1>2 DEF ReadsAreTrue
<1>6. L!In(store)' = L!In(store')
    BY DEF L!In
<1>7. JobIsWanted'
    <2>1. /\ wanted \in L!In(store') => wanted \in L!In(store)
          /\ wanted \in L!In(store') /\ (store.sel = wanted \/ deleting = wanted)
                 => store'.sel = wanted \/ deleting' = wanted
        <3>1. p # None /\ None \notin L!In(store)
            BY <1>1, NoneIsNoProfile
        <3>2. deleting # None => store.sel = None
            BY DEF Deletion
        <3> QED BY <1>3, <3>1, <3>2
    <2>2. job.pc = "written" => store'.sel = store.sel
        <3>1. job.pc = "written" => deleting = None
            BY DEF Deletion
        <3>2. p # None
            BY NoneIsNoProfile
        <3> QED BY <1>3, <3>1, <3>2
    <2> QED BY <1>2, <1>6, <2>1, <2>2 DEF JobIsWanted
<1>8. Deletion'
    <2>1. job'.pc = job.pc
        BY <1>2
    <2> QED BY <1>3, <1>6, <2>1 DEF Deletion
<1>9. DropsInOrder' /\ Shows
    BY <1>1, <1>2, <1>3 DEF DropsInOrder, Shows
<1>10. L!MirrorFollows'
    BY <1>2 DEF L!MirrorFollows
<1> QED BY <1>4, <1>5, <1>7, <1>8, <1>9, <1>10

\* The pump looks and reads.
LEMMA ReadKeeps ==
    ASSUME ListInv, L!Look \/ L!Read
    PROVE  ListInv' /\ Shows
<1> USE DEF ListInv
<1>1. /\ store \in ListOf /\ store.drops \in Nat /\ mirror.drops \in Nat /\ rev \in Nat /\ seen \in Nat
      /\ pump \in Pumps
    BY OrderIs DEF ListTypes
<1>2. UNCHANGED <<store, rev, list, mirror, pending, job, queued, drag, asked, seen, report, deleting, wanted, actions>>
    BY DEF L!Look, L!Read
<1>3. /\ pump' \in Pumps /\ pump'.version <= rev /\ pump'.snap.drops <= store.drops
      /\ pump'.pc = "read" => pump'.snap = store
    <2>1. CASE L!Look
        <3>1. pump' = [pc |-> "reading", version |-> rev, snap |-> [order |-> <<>>, sel |-> None, drops |-> 0],
                       valid |-> TRUE]
            BY <2>1 DEF L!Look, L!Idle
        <3>2. [order |-> <<>>, sel |-> None, drops |-> 0] \in ListOf
            BY DEF ListOf
        <3> QED BY <1>1, <3>1, <3>2 DEF Pumps
    <2>2. CASE L!Read
        <3>1. pump' = [pump EXCEPT !.pc = "read", !.snap = store]
            BY <2>2 DEF L!Read
        <3>2. /\ pump.pc \in {"idle", "reading", "read"} /\ pump.version \in Nat /\ pump.valid \in BOOLEAN
              /\ pump = [pc |-> pump.pc, version |-> pump.version, snap |-> pump.snap, valid |-> pump.valid]
            BY <1>1 DEF Pumps
        <3>3. pump' = [pc |-> "read", version |-> pump.version, snap |-> store, valid |-> pump.valid]
            BY <3>1, <3>2
        <3>4. pump' \in Pumps
            BY <1>1, <3>2, <3>3 DEF Pumps
        <3>5. pump.version <= rev
            BY DEF ReadsAreTrue
        <3> QED BY <1>1, <3>3, <3>4, <3>5
    <2> QED BY <2>1, <2>2
<1>4. ListTypes'
    BY <1>2, <1>3 DEF ListTypes
<1>5. ReadsAreTrue'
    BY <1>2, <1>3 DEF ReadsAreTrue
<1>6. JobIsWanted'
    <2>1. L!In(store)' = L!In(store)
        BY <1>2 DEF L!In
    <2> QED BY <1>2, <2>1 DEF JobIsWanted
<1>7. DropsInOrder' /\ Shows
    BY <1>1, <1>2, <1>3 DEF DropsInOrder, Shows
<1>8. L!MirrorFollows'
    BY <1>2 DEF L!MirrorFollows
<1>9. Deletion'
    <2>1. L!In(store)' = L!In(store)
        BY <1>2 DEF L!In
    <2> QED BY <1>2, <2>1 DEF Deletion
<1> QED BY <1>4, <1>5, <1>6, <1>7, <1>8, <1>9

\* What was read is shown only while it is the store's.
LEMMA PublishKeeps ==
    ASSUME ListInv, L!PublishRead
    PROVE  ListInv' /\ Shows
<1> USE DEF ListInv
<1>1. /\ store \in ListOf /\ list \in ListOf /\ mirror \in ListOf /\ store.drops \in Nat /\ list.drops \in Nat
      /\ mirror.drops \in Nat /\ rev \in Nat /\ seen \in Nat /\ pump.version \in Nat
    BY OrderIs DEF ListTypes, Pumps
<1>2. /\ pump.pc = "read" /\ pump' = L!Idle /\ L!Frame(mirror)
      /\ UNCHANGED <<pending, drag, store, rev, job, queued, report, deleting, wanted, actions>>
      /\ IF L!Shown THEN list' = pump.snap /\ asked' = FALSE /\ seen' = pump.version
         ELSE UNCHANGED <<list, asked, seen>>
    BY DEF L!PublishRead, L!Acknowledge
<1>3. L!Shown => pump.snap = store /\ pump.version = rev /\ ~pending /\ ~drag
    BY <1>2 DEF L!Shown, ReadsAreTrue
<1>4. /\ L!Idle \in Pumps /\ L!Idle.pc = "idle" /\ L!Idle.version = 0 /\ L!Idle.snap.drops = 0
    <2>1. [order |-> <<>>, sel |-> None, drops |-> 0] \in ListOf
        BY DEF ListOf
    <2> QED BY <2>1 DEF L!Idle, Pumps
<1>5. /\ \/ list' = store /\ seen' = rev /\ asked' = FALSE /\ ~pending /\ ~drag
         \/ UNCHANGED <<list, asked, seen>>
      /\ mirror' = mirror \/ (mirror' = list' /\ ~pending /\ ~drag)
      /\ ~pending /\ ~drag /\ list' # list => mirror' = list'
    BY <1>2, <1>3, FrameIs
<1>6. ListTypes'
    BY <1>1, <1>2, <1>4, <1>5 DEF ListTypes
<1>7. ReadsAreTrue'
    BY <1>1, <1>2, <1>4, <1>5 DEF ReadsAreTrue
<1>8. JobIsWanted'
    <2>1. L!In(store)' = L!In(store)
        BY <1>2 DEF L!In
    <2> QED BY <1>2, <2>1 DEF JobIsWanted
<1>9. DropsInOrder' /\ Shows
    <2>1. mirror.drops <= store.drops /\ list.drops <= store.drops /\ (~pending => mirror.drops <= list.drops)
        BY DEF DropsInOrder
    <2>2. list' = store \/ list' = list
        BY <1>5
    <2>3. /\ list'.drops <= store.drops /\ mirror'.drops <= store.drops /\ mirror'.drops >= mirror.drops
          /\ (~pending => mirror'.drops <= list'.drops) /\ list'.drops \in Nat
        BY <1>1, <1>5, <2>1, <2>2
    <2>4. store'.drops = store.drops
        BY <1>2
    <2>5. pump'.snap.drops <= store.drops
        BY <1>1, <1>2, <1>4
    <2>6. DropsInOrder'
        BY <1>1, <1>2, <2>3, <2>4, <2>5 DEF DropsInOrder
    <2> QED BY <1>1, <2>3, <2>4, <2>6 DEF Shows
<1>10. L!MirrorFollows'
    BY <1>2, <1>5 DEF L!MirrorFollows
<1>11. Deletion'
    <2>1. L!In(store)' = L!In(store)
        BY <1>2 DEF L!In
    <2> QED BY <1>2, <2>1 DEF Deletion
<1> QED BY <1>6, <1>7, <1>8, <1>9, <1>10, <1>11

LEMMA ListStep == ListInv /\ [L!Next]_(L!vars) => ListInv' /\ Shows
<1> SUFFICES ASSUME ListInv, [L!Next]_(L!vars) PROVE ListInv' /\ Shows
    OBVIOUS
<1>1. CASE UNCHANGED L!vars
    <2>1. mirror.drops \in Nat /\ store.drops \in Nat
        BY OrderIs DEF ListInv, ListTypes
    <2>2. L!In(store)' = L!In(store)
        BY <1>1 DEF L!vars, L!In
    <2>3. ListTypes' /\ ReadsAreTrue' /\ DropsInOrder' /\ L!MirrorFollows'
        BY <1>1 DEF L!vars, ListInv, ListTypes, ReadsAreTrue, DropsInOrder, L!MirrorFollows
    <2>4. JobIsWanted' /\ Deletion'
        BY <1>1, <2>2 DEF L!vars, ListInv, JobIsWanted, Deletion
    <2> QED BY <1>1, <2>1, <2>3, <2>4 DEF L!vars, ListInv, Shows
<1>2. ASSUME NEW p \in Profiles, L!Click(p) PROVE ListInv' /\ Shows
    <2> DEFINE shown == [mirror EXCEPT !.sel = p]
    <2>1. mirror \in ListOf /\ mirror.drops \in Nat /\ store.drops \in Nat
        BY OrderIs DEF ListInv, ListTypes
    <2>2. shown \in ListOf /\ shown.drops = mirror.drops
        BY <2>1, SelectedIs
    <2>3. L!Launch(p) /\ L!Frame(shown) /\ UNCHANGED <<drag, store, rev, seen, report, deleting>>
        BY <1>2 DEF L!Click
    <2> HIDE DEF shown
    <2>4. ListInv' /\ mirror'.drops >= mirror.drops /\ store'.drops = store.drops
        BY <2>2, <2>3, LaunchKeeps
    <2> QED BY <2>1, <2>4 DEF Shows
<1>3. ASSUME NEW p \in Profiles, L!Choose(p) PROVE ListInv' /\ Shows
    <2>1. mirror \in ListOf /\ mirror.drops \in Nat /\ store.drops \in Nat
        BY OrderIs DEF ListInv, ListTypes
    <2>2. L!Launch(p) /\ L!Frame(mirror) /\ UNCHANGED <<drag, store, rev, seen, report, deleting>>
        BY <1>3 DEF L!Choose
    <2>3. ListInv' /\ mirror'.drops >= mirror.drops /\ store'.drops = store.drops
        BY <2>1, <2>2, LaunchKeeps
    <2> QED BY <2>1, <2>3 DEF Shows
<1>4. ASSUME NEW p \in Profiles, L!Import(p) \/ L!ClearStandby(p) \/ L!Reselect(p) \/ L!Delete(p)
      PROVE  ListInv' /\ Shows
    BY <1>4, MembersKeep
<1>5. CASE L!Activate \/ \E works \in BOOLEAN : L!Restarted(works)
    BY <1>5, JobIs, JobKeeps
<1>6. CASE L!Completed
    BY <1>6, CompletedKeeps
<1>7. CASE L!Begin
    BY <1>7, BeginKeeps
<1>8. CASE L!Cancel
    BY <1>8, CancelKeeps
<1>9. CASE L!Report
    BY <1>9, ReportKeeps
<1>10. CASE L!Look \/ L!Read
    BY <1>10, ReadKeeps
<1>11. CASE L!PublishRead
    BY <1>11, PublishKeeps
<1>12. ASSUME NEW from \in 1 .. Len(mirror.order), NEW to \in 1 .. Len(mirror.order), NEW stored \in BOOLEAN,
              L!Drop(from, to, stored)
       PROVE  ListInv' /\ Shows
    BY <1>12, DropKeeps
<1> QED BY <1>1, <1>2, <1>3, <1>4, <1>5, <1>6, <1>7, <1>8, <1>9, <1>10, <1>11, <1>12 DEF L!Next

LEMMA ListMoves == [Next]_vars => [L!Next]_(L!vars)
BY DEF Next, vars, profiles, L!vars

LEMMA ListHolds == Spec => []ListInv
<1>1. Init => ListInv
    BY ListInit DEF Init
<1>2. ListInv /\ [Next]_vars => ListInv'
    BY ListStep, ListMoves
<1> QED BY <1>1, <1>2, PTL DEF Spec

\* The list of subscriptions (profile_list_model.h): the last choice stands, no change of the
\* store is missed, what was shown ahead of the store is taken back, and a dropped card stays
\* where it was dropped.
THEOREM ListFollows == Spec => ListFollowsStore
<1>1. ListInv => L!TypeOK /\ L!LastChoiceStands /\ L!NothingMissed /\ L!MirrorFollows
    <2> SUFFICES ASSUME ListInv PROVE L!TypeOK /\ L!LastChoiceStands /\ L!NothingMissed
        BY DEF ListInv
    <2> USE DEF ListInv
    <2>1. /\ store.drops \in Nat /\ list.drops \in Nat /\ mirror.drops \in Nat /\ pump.snap.drops \in Nat
          /\ actions \in Nat /\ actions <= MaxActions /\ MaxActions \in Nat
        BY OrderIs, BoundsAreNumbers DEF ListTypes, Pumps
    <2>2. /\ store.drops \in 0 .. MaxActions /\ list.drops \in 0 .. MaxActions
          /\ mirror.drops \in 0 .. MaxActions /\ pump.snap.drops \in 0 .. MaxActions
        BY <2>1 DEF DropsInOrder
    <2>3. ASSUME NEW l \in ListOf, l.drops \in 0 .. MaxActions PROVE l \in L!Lists
        BY <2>3 DEF ListOf, L!Lists
    <2>4. {store, list, mirror, pump.snap} \subseteq L!Lists
        BY <2>2, <2>3 DEF ListTypes, Pumps
    <2>5. {pending, drag, asked, report, pump.valid, job.ok, job.old} \subseteq BOOLEAN
        BY DEF ListTypes, Pumps, ListJobs
    <2>6. job.pc \in {"none", "start", "written", "done"} /\ pump.pc \in {"idle", "reading", "read"}
        BY DEF ListTypes, Pumps, ListJobs
    <2>7. {job.target, job.prev, queued, deleting, wanted} \subseteq Profiles \cup {None}
        BY DEF ListTypes, ListJobs
    <2>8. {rev, seen, pump.version} \subseteq Nat /\ seen <= rev
        BY DEF ListTypes, Pumps, ReadsAreTrue
    <2>9. L!TypeOK
        BY <2>4, <2>5, <2>6, <2>7, <2>8 DEF L!TypeOK
    <2> QED BY <2>9 DEF JobIsWanted, ReadsAreTrue, L!LastChoiceStands, L!NothingMissed
<1>2. ListInv /\ [Next]_vars =>
          [/\ mirror'.drops >= mirror.drops
           /\ store'.drops > store.drops /\ L!In(mirror) = L!In(list) => mirror'.drops = store'.drops]_(L!vars)
    BY ListStep, ListMoves DEF Shows
<1>3. Spec => []L!TypeOK /\ []L!LastChoiceStands /\ []L!NothingMissed /\ []L!MirrorFollows
    BY <1>1, ListHolds, PTL
<1>4. Spec => L!NoRebound
    BY <1>2, ListHolds, PTL DEF Spec, L!NoRebound
<1> QED BY <1>3, <1>4, PTL DEF ListFollowsStore

----------------------------------------------------------------------------
(* Tests of websites *)

LEMMA SiteBounds == Limit \in Nat /\ MaxUrls \in Nat /\ MaxProbes \in Nat /\ MaxUrls > 0 /\ IsFiniteSet(Sites)
BY BoundsAreNumbers, TestedAreFinite, SitesHaveAddresses

SiteRows == [url : 0 .. MaxUrls, phase : {"Idle", "Queued", "Running", "Responded", "Failed", "Cancelled"},
             of : 0 .. MaxProbes]
SiteProbes == [id : Sites, generation : Nat \ {0}, url : 0 .. MaxUrls]
OnceIn(s) == \A i, j \in 1 .. Len(s) : s[i] = s[j] => i = j
Used(slots) == {id \in Sites : slots[id] # 0}

\* What an operation leaves to Pump: cards, queue, slots and probes agree, and no generation
\* is of two probes of a site.
Agree(rows, queue, slots, left) ==
    /\ rows \in [Sites -> SiteRows] /\ queue \in Seq(Sites) /\ OnceIn(queue)
    /\ slots \in [Sites -> Nat] /\ \A id \in Sites : slots[id] <= launched
    /\ left \subseteq SiteProbes /\ \A p \in left : p.generation <= launched
    /\ \A p, q \in left : p.id = q.id /\ p.generation = q.generation => p = q
    /\ \A id \in Sites :
          /\ rows[id].phase = "Queued" <=> id \in Elements(queue)
          /\ rows[id].phase = "Running" <=> slots[id] # 0
          /\ slots[id] # 0 => [id |-> id, generation |-> slots[id], url |-> rows[id].url] \in left
    /\ Cardinality(Used(slots)) <= Limit

SitesInv ==
    /\ launched \in 0 .. MaxProbes
    /\ Agree(sites, siteQueue, siteRuns, siteProbes)
    /\ siteQueue # <<>> => Cardinality(Used(siteRuns)) = Limit

\* A result that appears is of the probe whose generation has the site's slot.
NewestShown ==
    \A id \in Sites : sites'[id].of # sites[id].of /\ sites'[id].of # 0 =>
        sites[id].phase = "Running" /\ sites'[id].of = siteRuns[id] /\ sites'[id].url = sites[id].url

LEMMA UsedIs ==
    ASSUME NEW slots
    PROVE  IsFiniteSet(Used(slots)) /\ Cardinality(Used(slots)) \in Nat
BY SiteBounds, FS_Subset, FS_CardinalityType DEF Used

LEMMA MarkedIs ==
    ASSUME NEW row \in SiteRows,
           NEW phase \in {"Idle", "Queued", "Running", "Responded", "Failed", "Cancelled"}
    PROVE  /\ W!Marked(row, phase) \in SiteRows /\ W!Marked(row, phase).phase = phase
           /\ W!Marked(row, phase).of = 0 /\ W!Marked(row, phase).url = row.url
<1>1. row.url \in 0 .. MaxUrls /\ 0 \in 0 .. MaxProbes
    BY SiteBounds DEF SiteRows
<1> DEFINE r == [row EXCEPT !.phase = phase, !.of = 0]
<1>2. W!Marked(row, phase) = r
    BY DEF W!Marked
<1>3. r.phase = phase /\ r.of = 0 /\ r.url = row.url
    BY DEF SiteRows
<1>4. r \in SiteRows
    BY <1>1 DEF SiteRows
<1> HIDE DEF r
<1> QED BY <1>2, <1>3, <1>4

\* The first n of a queue are n of its members, and the rest are the others.
LEMMA Front ==
    ASSUME NEW s \in Seq(Sites), OnceIn(s), NEW n \in 0 .. Len(s)
    PROVE  LET taken == W!ToSet(SubSeq(s, 1, n))
               rest  == SubSeq(s, n + 1, Len(s))
           IN  /\ taken = {s[i] : i \in 1 .. n} /\ taken \subseteq Sites
               /\ IsFiniteSet(taken) /\ Cardinality(taken) = n
               /\ rest \in Seq(Sites) /\ OnceIn(rest) /\ Elements(rest) = Elements(s) \ taken
               /\ rest # <<>> => n < Len(s)
<1> DEFINE first == SubSeq(s, 1, n)  rest == SubSeq(s, n + 1, Len(s))  taken == {s[i] : i \in 1 .. n}
<1>1. Len(s) \in Nat /\ n \in Nat /\ n <= Len(s) /\ \A i \in 1 .. Len(s) : s[i] \in Sites
    BY LenProperties, ElementOfSeq
<1>2. first \in Seq(Sites) /\ Len(first) = n /\ \A i \in 1 .. n : first[i] = s[i]
    BY <1>1, SubSeqProperties
<1>3. rest \in Seq(Sites) /\ Len(rest) = Len(s) - n /\ \A i \in 1 .. Len(s) - n : rest[i] = s[n + i]
    BY <1>1, SubSeqProperties
<1>4. W!ToSet(first) = taken
    <2>1. DOMAIN first = 1 .. n
        BY <1>2, LenProperties
    <2> HIDE DEF first
    <2> QED BY <1>2, <2>1 DEF W!ToSet
<1>5. taken \subseteq Sites
    BY <1>1
<1>6. IsFiniteSet(taken) /\ Cardinality(taken) = n
    <2> DEFINE f == [i \in 1 .. n |-> s[i]]
    <2>1. \A i, j \in 1 .. n : s[i] = s[j] => i = j
        BY <1>1 DEF OnceIn
    <2>2. f \in [1 .. n -> taken] /\ \A i \in 1 .. n : f[i] = s[i]
        OBVIOUS
    <2>3. \A e \in taken : \E i \in 1 .. n : f[i] = e
        OBVIOUS
    <2>4. IsFiniteSet(1 .. n) /\ Cardinality(1 .. n) = n
        BY <1>1, FS_Interval
    <2> HIDE DEF f, taken
    <2>5. f \in Injection(1 .. n, taken)
        BY <2>1, <2>2 DEF Injection, IsInjective
    <2>6. f \in Surjection(1 .. n, taken)
        BY <2>2, <2>3 DEF Surjection
    <2> QED BY <2>4, <2>5, <2>6, FS_Surjection
<1> HIDE DEF first, rest
<1>7. OnceIn(rest)
    <2> SUFFICES ASSUME NEW i \in 1 .. Len(rest), NEW j \in 1 .. Len(rest), rest[i] = rest[j] PROVE i = j
        BY DEF OnceIn
    <2>1. n + i \in 1 .. Len(s) /\ n + j \in 1 .. Len(s) /\ s[n + i] = s[n + j]
        BY <1>1, <1>3
    <2>2. n + i = n + j
        BY <2>1 DEF OnceIn
    <2> QED BY <1>1, <1>3, <2>2
<1>8. Elements(rest) = Elements(s) \ taken
    <2>1. ASSUME NEW i \in 1 .. Len(s) - n PROVE s[n + i] \in Elements(s) /\ s[n + i] \notin taken
        <3>1. n + i \in 1 .. Len(s)
            BY <1>1
        <3>2. ASSUME NEW j \in 1 .. n, s[n + i] = s[j] PROVE FALSE
            <4>1. j \in 1 .. Len(s)
                BY <1>1
            <4>2. n + i = j
                BY <3>1, <3>2, <4>1 DEF OnceIn
            <4> QED BY <1>1, <4>2
        <3> QED BY <3>1, <3>2 DEF Elements
    <2>2. ASSUME NEW i \in 1 .. Len(s), s[i] \notin taken PROVE \E j \in 1 .. Len(s) - n : s[i] = s[n + j]
        <3>1. i > n
            BY <1>1, <2>2
        <3>2. i - n \in 1 .. Len(s) - n /\ n + (i - n) = i
            BY <1>1, <3>1
        <3> QED BY <3>2
    <2> HIDE DEF taken
    <2>3. \A e : e \in Elements(rest) <=> \E i \in 1 .. Len(s) - n : e = s[n + i]
        BY <1>3 DEF Elements
    <2>4. \A e : e \in Elements(s) <=> \E i \in 1 .. Len(s) : e = s[i]
        BY DEF Elements
    <2>5. \A e : e \in Elements(rest) <=> e \in Elements(s) /\ e \notin taken
        <3>1. ASSUME NEW e \in Elements(rest) PROVE e \in Elements(s) /\ e \notin taken
            BY <2>1, <2>3, Zenon
        <3>2. ASSUME NEW e \in Elements(s), e \notin taken PROVE e \in Elements(rest)
            BY <2>2, <2>3, <2>4, <3>2, Zenon
        <3> QED BY <3>1, <3>2
    <2> QED BY <2>5
<1>9. rest # <<>> => n < Len(s)
    <2>1. n = Len(s) => Len(rest) = 0
        BY <1>1, <1>3
    <2> QED BY <1>1, <1>3, <2>1, EmptySeq
<1> HIDE DEF taken
<1> QED BY <1>3, <1>4, <1>5, <1>6, <1>7, <1>8, <1>9 DEF rest, first, taken

\* Pump keeps what it was given, and leaves no slot free while a site waits.
LEMMA PumpKeeps ==
    ASSUME launched \in 0 .. MaxProbes, NEW rows, NEW queue, NEW slots, NEW left,
           Agree(rows, queue, slots, left), W!Pump(rows, queue, slots, left)
    PROVE  /\ SitesInv'
           /\ \A id \in Sites : sites'[id].url = rows[id].url /\ sites'[id].of \in {0, rows[id].of}
<1> DEFINE free  == Limit - Cardinality(Used(slots))
           n     == IF free < Len(queue) THEN free ELSE Len(queue)
           taken == W!ToSet(SubSeq(queue, 1, n))
           rest  == SubSeq(queue, n + 1, Len(queue))
           generation(id) == launched + (CHOOSE i \in 1 .. n : queue[i] = id)
<1>1. /\ launched + n <= MaxProbes /\ launched' = launched + n /\ siteQueue' = rest
      /\ siteRuns' = [id \in Sites |-> IF id \in taken THEN generation(id) ELSE slots[id]]
      /\ sites' = [id \in Sites |-> IF id \in taken THEN W!Marked(rows[id], "Running") ELSE rows[id]]
      /\ siteProbes' = left \cup {[id |-> id, generation |-> generation(id), url |-> rows[id].url] : id \in taken}
    BY DEF W!Pump, Used, W!Cardinality, Cardinality
<1>2. queue \in Seq(Sites) /\ OnceIn(queue) /\ Len(queue) \in Nat /\ launched \in Nat /\ MaxProbes \in Nat
    BY SiteBounds, LenProperties DEF Agree
<1>3. free \in Nat /\ n \in Nat /\ n \in 0 .. Len(queue) /\ n <= free
    BY <1>2, SiteBounds, UsedIs DEF Agree
<1>4. /\ taken = {queue[i] : i \in 1 .. n} /\ taken \subseteq Sites /\ IsFiniteSet(taken)
      /\ Cardinality(taken) = n /\ rest \in Seq(Sites) /\ OnceIn(rest)
      /\ Elements(rest) = Elements(queue) \ taken /\ (rest # <<>> => n < Len(queue))
    <2> HIDE DEF n
    <2> QED BY <1>2, <1>3, Front
<1>5. \A id \in taken : generation(id) \in Nat /\ generation(id) > launched /\ generation(id) <= launched + n
    <2> SUFFICES ASSUME NEW id \in taken
                 PROVE  generation(id) \in Nat /\ generation(id) > launched /\ generation(id) <= launched + n
        OBVIOUS
    <2> DEFINE at == CHOOSE i \in 1 .. n : queue[i] = id
    <2> HIDE DEF n
    <2>1. \E i \in 1 .. n : queue[i] = id
        BY <1>4
    <2>2. at \in 1 .. n
        BY <2>1
    <2>3. generation(id) = launched + at
        OBVIOUS
    <2> HIDE DEF at
    <2> QED BY <1>2, <1>3, <2>2, <2>3
<1>6. \A id \in taken : rows[id].phase = "Queued" /\ slots[id] = 0
    <2> HIDE DEF n
    <2>1. taken \subseteq Elements(queue)
        BY <1>2, <1>3, <1>4 DEF Elements
    <2> QED BY <1>4, <2>1 DEF Agree
<1> DEFINE new == {[id |-> id, generation |-> generation(id), url |-> rows[id].url] : id \in taken}
<1> HIDE DEF generation, n, rest, taken, free
<1>7. \A id \in Sites : rows[id] \in SiteRows /\ slots[id] \in Nat /\ slots[id] <= launched
    BY DEF Agree
<1>8. /\ sites' \in [Sites -> SiteRows]
      /\ \A id \in Sites : /\ sites'[id].url = rows[id].url /\ sites'[id].of \in {0, rows[id].of}
                           /\ id \in taken => sites'[id].phase = "Running"
                           /\ id \notin taken => sites'[id] = rows[id]
    <2>1. \A id \in Sites : W!Marked(rows[id], "Running") \in SiteRows
                            /\ W!Marked(rows[id], "Running").phase = "Running"
                            /\ W!Marked(rows[id], "Running").of = 0
                            /\ W!Marked(rows[id], "Running").url = rows[id].url
        BY <1>7, MarkedIs
    <2> QED BY <1>1, <1>7, <2>1
<1>9. /\ siteRuns' \in [Sites -> Nat] /\ launched' \in 0 .. MaxProbes
      /\ \A id \in Sites : /\ siteRuns'[id] <= launched'
                           /\ id \in taken => siteRuns'[id] = generation(id) /\ siteRuns'[id] # 0
                           /\ id \notin taken => siteRuns'[id] = slots[id]
    BY <1>1, <1>2, <1>3, <1>5, <1>7
<1>10. /\ siteProbes' = left \cup new /\ siteProbes' \subseteq SiteProbes
       /\ \A p \in siteProbes' : p.generation <= launched'
       /\ \A p, q \in siteProbes' : p.id = q.id /\ p.generation = q.generation => p = q
    <2>1. siteProbes' = left \cup new
        BY <1>1
    <2>2. \A p \in new : /\ p.id \in taken /\ p.generation = generation(p.id) /\ p.url = rows[p.id].url
                         /\ p = [id |-> p.id, generation |-> generation(p.id), url |-> rows[p.id].url]
        OBVIOUS
    <2> HIDE DEF new
    <2>3. \A p \in left : p \in SiteProbes /\ p.generation \in Nat /\ p.generation <= launched
        BY DEF Agree, SiteProbes
    <2>4. \A p \in new : p \in SiteProbes /\ p.generation \in Nat /\ p.generation > launched
                         /\ p.generation <= launched + n
        <3> SUFFICES ASSUME NEW p \in new
                     PROVE  /\ p \in SiteProbes /\ p.generation \in Nat /\ p.generation > launched
                            /\ p.generation <= launched + n
            OBVIOUS
        <3>1. p.id \in Sites /\ rows[p.id].url \in 0 .. MaxUrls
            BY <1>4, <1>7, <2>2 DEF SiteRows
        <3>2. generation(p.id) \in Nat \ {0} /\ generation(p.id) > launched /\ generation(p.id) <= launched + n
            BY <1>2, <1>5, <2>2
        <3> QED BY <2>2, <3>1, <3>2 DEF SiteProbes
    <2>5. \A p, q \in new : p.id = q.id => p = q
        <3> SUFFICES ASSUME NEW p \in new, NEW q \in new, p.id = q.id PROVE p = q
            OBVIOUS
        <3>1. p = [id |-> p.id, generation |-> generation(p.id), url |-> rows[p.id].url]
            BY <2>2
        <3>2. q = [id |-> q.id, generation |-> generation(q.id), url |-> rows[q.id].url]
            BY <2>2
        <3> QED BY ONLY <3>1, <3>2, p.id = q.id, Zenon
    <2>6. \A p \in left, q \in new : p.generation # q.generation
        BY <1>2, <2>3, <2>4
    <2>7. \A p, q \in left : p.id = q.id /\ p.generation = q.generation => p = q
        BY DEF Agree
    <2>8. \A p \in siteProbes' : p.generation <= launched'
        BY <1>1, <1>2, <1>3, <2>1, <2>3, <2>4
    <2> QED BY <2>1, <2>3, <2>4, <2>5, <2>6, <2>7, <2>8, Zenon
<1>11. \A id \in Sites : /\ sites'[id].phase = "Queued" <=> id \in Elements(siteQueue')
                         /\ sites'[id].phase = "Running" <=> siteRuns'[id] # 0
                         /\ siteRuns'[id] # 0 =>
                               [id |-> id, generation |-> siteRuns'[id], url |-> sites'[id].url] \in siteProbes'
    <2> SUFFICES ASSUME NEW id \in Sites
                 PROVE  /\ sites'[id].phase = "Queued" <=> id \in Elements(siteQueue')
                        /\ sites'[id].phase = "Running" <=> siteRuns'[id] # 0
                        /\ siteRuns'[id] # 0 =>
                              [id |-> id, generation |-> siteRuns'[id], url |-> sites'[id].url] \in siteProbes'
        OBVIOUS
    <2>1. Elements(siteQueue') = Elements(queue) \ taken
        BY <1>1, <1>4
    <2>2. CASE id \in taken
        <3>1. [id |-> id, generation |-> generation(id), url |-> rows[id].url] \in new
            BY <2>2
        <3> QED BY <1>8, <1>9, <1>10, <2>1, <2>2, <3>1
    <2>3. CASE id \notin taken
        <3>1. /\ rows[id].phase = "Queued" <=> id \in Elements(queue)
              /\ rows[id].phase = "Running" <=> slots[id] # 0
              /\ slots[id] # 0 => [id |-> id, generation |-> slots[id], url |-> rows[id].url] \in left
            BY DEF Agree
        <3>2. sites'[id] = rows[id] /\ siteRuns'[id] = slots[id] /\ left \subseteq siteProbes'
            BY <1>8, <1>9, <1>10, <2>3
        <3> HIDE DEF new
        <3> QED BY <2>1, <2>3, <3>1, <3>2
    <2> QED BY <2>2, <2>3
<1>12. Cardinality(Used(siteRuns')) = Cardinality(Used(slots)) + n
    <2>1. Used(siteRuns') = Used(slots) \cup taken
        BY <1>4, <1>9 DEF Used
    <2>2. Used(slots) \cap taken = {}
        BY <1>6 DEF Used
    <2>3. Cardinality(Used(slots) \cup taken) = Cardinality(Used(slots)) + Cardinality(taken)
                                                - Cardinality(Used(slots) \cap taken)
        BY <1>4, UsedIs, FS_Union
    <2>4. Cardinality(Used(slots) \cap taken) = 0 /\ Cardinality(Used(slots)) \in Nat
        BY <2>2, UsedIs, FS_EmptySet
    <2> QED BY <1>3, <1>4, <2>1, <2>3, <2>4
<1>13. /\ Cardinality(Used(siteRuns')) <= Limit
       /\ siteQueue' # <<>> => Cardinality(Used(siteRuns')) = Limit
    <2>1. siteQueue' # <<>> => n = free
        BY <1>1, <1>2, <1>3, <1>4 DEF n
    <2> QED BY <1>3, <1>12, <2>1, SiteBounds, UsedIs DEF free
<1>14. Agree(sites, siteQueue, siteRuns, siteProbes)'
    <2>1. siteQueue' \in Seq(Sites) /\ OnceIn(siteQueue')
        BY <1>1, <1>4
    <2>2. Used(siteRuns)' = Used(siteRuns') /\ OnceIn(siteQueue)' = OnceIn(siteQueue')
          /\ Elements(siteQueue)' = Elements(siteQueue')
        BY DEF Used, OnceIn, Elements
    <2> HIDE DEF new
    <2> QED BY <1>8, <1>9, <1>10, <1>11, <1>13, <2>1, <2>2 DEF Agree
<1>15. SitesInv'
    <2>1. Used(siteRuns)' = Used(siteRuns')
        BY DEF Used
    <2> QED BY <1>9, <1>13, <1>14, <2>1 DEF SitesInv
<1> QED BY <1>8, <1>15

LEMMA SitesInit == W!Init => SitesInv
<1> SUFFICES ASSUME W!Init PROVE SitesInv
    OBVIOUS
<1>1. PICK preset \in SUBSET Sites : sites = [id \in Sites |-> W!Blank(IF id \in preset THEN 1 ELSE 0)]
    BY DEF W!Init
<1>2. siteQueue = <<>> /\ siteRuns = [id \in Sites |-> 0] /\ siteProbes = {} /\ launched = 0
    BY DEF W!Init
<1>3. \A url \in 0 .. MaxUrls : W!Blank(url) \in SiteRows /\ W!Blank(url).phase = "Idle"
    BY SiteBounds DEF W!Blank, SiteRows
<1>4. 0 \in 0 .. MaxUrls /\ 1 \in 0 .. MaxUrls
    BY SiteBounds
<1>5. sites \in [Sites -> SiteRows] /\ \A id \in Sites : sites[id].phase = "Idle"
    BY <1>1, <1>3, <1>4
<1>6. siteQueue \in Seq(Sites) /\ OnceIn(siteQueue) /\ Elements(siteQueue) = {}
    BY <1>2, EmptySeq DEF OnceIn, Elements
<1>7. Cardinality(Used(siteRuns)) <= Limit
    <2>1. Used(siteRuns) = {}
        BY <1>2 DEF Used
    <2> QED BY <2>1, FS_EmptySet, SiteBounds
<1>8. Agree(sites, siteQueue, siteRuns, siteProbes)
    BY <1>2, <1>5, <1>6, <1>7 DEF Agree
<1> QED BY <1>2, <1>8, SiteBounds DEF SitesInv

\* Taking a site out of the queue and of its slot, and giving it another row.
LEMMA StoppedKeeps ==
    ASSUME SitesInv, NEW id \in Sites, NEW row \in SiteRows, row.phase \notin W!Active, row.of = 0,
           W!Stopped(id, row)
    PROVE  SitesInv' /\ NewestShown
<1> DEFINE rows == [sites EXCEPT ![id] = row]
           queue == Kept(siteQueue, Sites \ {id})
           slots == [siteRuns EXCEPT ![id] = 0]
<1>1. W!Pump(rows, queue, slots, siteProbes)
    <2>1. W!Kept(siteQueue, Sites \ {id}) = Kept(siteQueue, Sites \ {id})
        BY DEF W!Kept, W!Ascending, W!Cardinality, Kept, Ascending, Cardinality
    <2> QED BY <2>1 DEF W!Stopped, W!Stop
<1>2. Agree(sites, siteQueue, siteRuns, siteProbes) /\ launched \in 0 .. MaxProbes
    BY DEF SitesInv
<1>3. siteQueue \in Seq(Sites) /\ OnceIn(siteQueue)
    BY <1>2 DEF Agree
<1>4. queue \in Seq(Sites) /\ OnceIn(queue) /\ Elements(queue) = Elements(siteQueue) \ {id}
    <2>1. queue \in Seq(Sites) /\ Elements(queue) = Elements(siteQueue) \cap (Sites \ {id})
        BY <1>3, KeptIs
    <2>2. Elements(siteQueue) \subseteq Sites
        BY <1>3, ElementsAre
    <2>3. OnceIn(queue)
        BY <1>3, KeptIs DEF OnceIn
    <2> QED BY <2>1, <2>2, <2>3
<1>5. /\ rows \in [Sites -> SiteRows] /\ rows[id] = row /\ slots \in [Sites -> Nat] /\ slots[id] = 0
      /\ \A other \in Sites : other # id => rows[other] = sites[other] /\ slots[other] = siteRuns[other]
    BY <1>2 DEF Agree
<1> HIDE DEF rows, queue, slots
<1>6. row.phase # "Queued" /\ row.phase # "Running"
    BY DEF W!Active
<1>7. \A other \in Sites :
          /\ rows[other].phase = "Queued" <=> other \in Elements(queue)
          /\ rows[other].phase = "Running" <=> slots[other] # 0
          /\ slots[other] # 0 =>
                [id |-> other, generation |-> slots[other], url |-> rows[other].url] \in siteProbes
    <2> SUFFICES ASSUME NEW other \in Sites
                 PROVE  /\ rows[other].phase = "Queued" <=> other \in Elements(queue)
                        /\ rows[other].phase = "Running" <=> slots[other] # 0
                        /\ slots[other] # 0 =>
                              [id |-> other, generation |-> slots[other], url |-> rows[other].url] \in siteProbes
        OBVIOUS
    <2>1. CASE other = id
        BY <1>4, <1>5, <1>6, <2>1
    <2>2. CASE other # id
        <3>1. /\ sites[other].phase = "Queued" <=> other \in Elements(siteQueue)
              /\ sites[other].phase = "Running" <=> siteRuns[other] # 0
              /\ siteRuns[other] # 0 =>
                    [id |-> other, generation |-> siteRuns[other], url |-> sites[other].url] \in siteProbes
            BY <1>2 DEF Agree
        <3> QED BY <1>4, <1>5, <2>2, <3>1
    <2> QED BY <2>1, <2>2
<1>8. Cardinality(Used(slots)) <= Limit
    <2>1. Used(slots) \subseteq Used(siteRuns)
        BY <1>5 DEF Used
    <2>2. Cardinality(Used(slots)) <= Cardinality(Used(siteRuns))
        BY <2>1, UsedIs, FS_Subset
    <2> QED BY <1>2, <2>2, UsedIs, SiteBounds DEF Agree
<1>9. \A other \in Sites : slots[other] <= launched
    <2>1. launched \in Nat /\ \A other \in Sites : siteRuns[other] <= launched
        BY <1>2, SiteBounds DEF Agree
    <2> QED BY <1>5, <2>1
<1>10. Agree(rows, queue, slots, siteProbes)
    BY <1>2, <1>4, <1>5, <1>7, <1>8, <1>9 DEF Agree
<1>11. SitesInv' /\ \A other \in Sites : sites'[other].of \in {0, rows[other].of}
    BY <1>1, <1>2, <1>10, PumpKeeps
<1>12. NewestShown
    BY <1>5, <1>11 DEF NewestShown
<1> QED BY <1>11, <1>12

\* Those requested that are not active wait behind the others.
LEMMA StartKeeps ==
    ASSUME SitesInv, NEW ids \in Seq(Sites), OnceIn(ids), W!Start(ids)
    PROVE  SitesInv' /\ NewestShown
<1> DEFINE open == {id \in Sites : sites[id].phase \notin W!Active}
           asking == Kept(ids, open)
           rows == [id \in Sites |-> IF id \in Elements(asking) THEN W!Marked(sites[id], "Queued") ELSE sites[id]]
           queue == siteQueue \o asking
<1>1. asking \in Seq(Sites) /\ OnceIn(asking) /\ Elements(asking) = Elements(ids) \cap open
    BY KeptIs DEF OnceIn
<1>2. W!Pump(rows, queue, siteRuns, siteProbes)
    <2>1. W!Kept(ids, open) = asking
        BY DEF W!Kept, W!Ascending, W!Cardinality, Kept, Ascending, Cardinality
    <2>2. W!ToSet(asking) = Elements(asking)
        <3>1. DOMAIN asking = 1 .. Len(asking)
            BY <1>1, LenProperties
        <3> HIDE DEF asking
        <3> QED BY <3>1 DEF Elements, W!ToSet
    <2>3. W!Pump([id \in Sites |-> IF id \in W!ToSet(asking) THEN W!Marked(sites[id], "Queued") ELSE sites[id]],
                 queue, siteRuns, siteProbes)
        BY <2>1, Zenon DEF W!Start
    <2> QED BY <2>2, <2>3, Zenon
<1>3. Agree(sites, siteQueue, siteRuns, siteProbes) /\ launched \in 0 .. MaxProbes
    BY DEF SitesInv
<1>4. siteQueue \in Seq(Sites) /\ OnceIn(siteQueue) /\ \A id \in Sites : sites[id] \in SiteRows
    BY <1>3 DEF Agree
<1>5. \A id \in Elements(asking) : /\ id \in Sites /\ id \notin Elements(siteQueue)
                                    /\ siteRuns[id] = 0
    BY <1>1, <1>3 DEF Agree, W!Active
<1> HIDE DEF open, asking
<1>6. queue \in Seq(Sites) /\ Elements(queue) = Elements(siteQueue) \cup Elements(asking)
    BY <1>1, <1>4, ConcatElements
<1>7. OnceIn(queue)
    <2> DEFINE k == Len(siteQueue)
    <2>1. /\ k \in Nat /\ Len(asking) \in Nat /\ Len(queue) = k + Len(asking)
          /\ \A i \in 1 .. k + Len(asking) : queue[i] = IF i <= k THEN siteQueue[i] ELSE asking[i - k]
        BY <1>1, <1>4, ConcatProperties, LenProperties
    <2> HIDE DEF k, queue
    <2>2. \A i \in 1 .. k, j \in 1 .. Len(asking) : siteQueue[i] # asking[j]
        BY <1>5 DEF Elements, k
    <2>3. /\ \A i, j \in 1 .. k : siteQueue[i] = siteQueue[j] => i = j
          /\ \A i, j \in 1 .. Len(asking) : asking[i] = asking[j] => i = j
        BY <1>1, <1>4 DEF OnceIn, k
    <2> SUFFICES ASSUME NEW i \in 1 .. k + Len(asking), NEW j \in 1 .. k + Len(asking), queue[i] = queue[j]
                 PROVE  i = j
        BY <2>1 DEF OnceIn
    <2>4. CASE i <= k /\ j <= k
        BY <2>1, <2>3, <2>4
    <2>5. CASE i > k /\ j > k
        <3>1. i - k \in 1 .. Len(asking) /\ j - k \in 1 .. Len(asking) /\ asking[i - k] = asking[j - k]
            BY <2>1, <2>5
        <3>2. i - k = j - k
            BY <2>3, <3>1
        <3> QED BY <2>1, <3>2
    <2>6. CASE i <= k /\ j > k
        <3>1. i \in 1 .. k /\ j - k \in 1 .. Len(asking) /\ siteQueue[i] = asking[j - k]
            BY <2>1, <2>6
        <3> QED BY <2>2, <3>1
    <2>7. CASE i > k /\ j <= k
        <3>1. j \in 1 .. k /\ i - k \in 1 .. Len(asking) /\ siteQueue[j] = asking[i - k]
            BY <2>1, <2>7
        <3> QED BY <2>2, <3>1
    <2> QED BY <2>1, <2>4, <2>5, <2>6, <2>7
<1>8. /\ rows \in [Sites -> SiteRows]
      /\ \A id \in Sites : /\ id \in Elements(asking) => rows[id].phase = "Queued" /\ rows[id].of = 0
                           /\ id \notin Elements(asking) => rows[id] = sites[id]
                           /\ rows[id].of \in {0, sites[id].of}
    <2>1. \A id \in Sites : /\ W!Marked(sites[id], "Queued") \in SiteRows
                            /\ W!Marked(sites[id], "Queued").phase = "Queued"
                            /\ W!Marked(sites[id], "Queued").of = 0
        BY <1>4, MarkedIs
    <2> QED BY <1>4, <2>1
<1> HIDE DEF rows, queue
<1>9. \A id \in Sites :
          /\ rows[id].phase = "Queued" <=> id \in Elements(queue)
          /\ rows[id].phase = "Running" <=> siteRuns[id] # 0
          /\ siteRuns[id] # 0 => [id |-> id, generation |-> siteRuns[id], url |-> rows[id].url] \in siteProbes
    <2> SUFFICES ASSUME NEW id \in Sites
                 PROVE  /\ rows[id].phase = "Queued" <=> id \in Elements(queue)
                        /\ rows[id].phase = "Running" <=> siteRuns[id] # 0
                        /\ siteRuns[id] # 0 =>
                              [id |-> id, generation |-> siteRuns[id], url |-> rows[id].url] \in siteProbes
        OBVIOUS
    <2>1. CASE id \in Elements(asking)
        BY <1>5, <1>6, <1>8, <2>1
    <2>2. CASE id \notin Elements(asking)
        <3>1. /\ sites[id].phase = "Queued" <=> id \in Elements(siteQueue)
              /\ sites[id].phase = "Running" <=> siteRuns[id] # 0
              /\ siteRuns[id] # 0 =>
                    [id |-> id, generation |-> siteRuns[id], url |-> sites[id].url] \in siteProbes
            BY <1>3 DEF Agree
        <3> QED BY <1>6, <1>8, <2>2, <3>1
    <2> QED BY <2>1, <2>2
<1>10. Agree(rows, queue, siteRuns, siteProbes)
    BY <1>3, <1>6, <1>7, <1>8, <1>9 DEF Agree
<1>11. SitesInv' /\ \A id \in Sites : sites'[id].of \in {0, rows[id].of}
    BY <1>2, <1>3, <1>10, PumpKeeps
<1>12. NewestShown
    BY <1>8, <1>11 DEF NewestShown
<1> QED BY <1>11, <1>12

LEMMA AnswerKeeps ==
    ASSUME SitesInv, NEW probe \in siteProbes, NEW phase \in {"Responded", "Failed"}, W!Answer(probe, phase)
    PROVE  SitesInv' /\ NewestShown
<1>1. /\ Agree(sites, siteQueue, siteRuns, siteProbes) /\ launched \in 0 .. MaxProbes
      /\ siteQueue # <<>> => Cardinality(Used(siteRuns)) = Limit
    BY DEF SitesInv
<1>2. /\ probe \in SiteProbes /\ probe.id \in Sites /\ probe.generation \in Nat \ {0}
      /\ probe.url \in 0 .. MaxUrls /\ probe.generation <= launched
    BY <1>1 DEF Agree, SiteProbes
<1>3. /\ sites \in [Sites -> SiteRows] /\ siteQueue \in Seq(Sites) /\ OnceIn(siteQueue)
      /\ siteRuns \in [Sites -> Nat] /\ \A id \in Sites : siteRuns[id] <= launched
      /\ siteProbes \subseteq SiteProbes /\ \A p \in siteProbes : p.generation <= launched
      /\ \A p, q \in siteProbes : p.id = q.id /\ p.generation = q.generation => p = q
      /\ Cardinality(Used(siteRuns)) <= Limit
    BY <1>1 DEF Agree
<1>4. \A id \in Sites :
          /\ sites[id].phase = "Queued" <=> id \in Elements(siteQueue)
          /\ sites[id].phase = "Running" <=> siteRuns[id] # 0
          /\ siteRuns[id] # 0 =>
                [id |-> id, generation |-> siteRuns[id], url |-> sites[id].url] \in siteProbes
    BY <1>1 DEF Agree
\* The probe of another site, or of another generation, is still there.
<1>5. \A id \in Sites : siteRuns[id] # 0 /\ (id # probe.id \/ siteRuns[id] # probe.generation) =>
          [id |-> id, generation |-> siteRuns[id], url |-> sites[id].url] \in siteProbes \ {probe}
    <2> SUFFICES ASSUME NEW id \in Sites, siteRuns[id] # 0, id # probe.id \/ siteRuns[id] # probe.generation
                 PROVE  [id |-> id, generation |-> siteRuns[id], url |-> sites[id].url] \in siteProbes \ {probe}
        OBVIOUS
    <2> DEFINE its == [id |-> id, generation |-> siteRuns[id], url |-> sites[id].url]
    <2>1. its \in siteProbes /\ its.id = id /\ its.generation = siteRuns[id]
        BY <1>4
    <2> HIDE DEF its
    <2>2. its # probe
        BY <2>1
    <2> QED BY <2>1, <2>2 DEF its
<1>6. CASE siteRuns[probe.id] # probe.generation
    <2>1. siteProbes' = siteProbes \ {probe} /\ UNCHANGED <<sites, siteQueue, siteRuns, launched>>
        BY <1>6 DEF W!Answer, W!IsNewest
    <2>2. \A id \in Sites : siteRuns[id] # 0 =>
              [id |-> id, generation |-> siteRuns[id], url |-> sites[id].url] \in siteProbes'
        BY <1>5, <1>6, <2>1
    <2>3. Agree(sites, siteQueue, siteRuns, siteProbes)'
        <3>1. /\ Used(siteRuns)' = Used(siteRuns) /\ OnceIn(siteQueue)' = OnceIn(siteQueue)
              /\ Elements(siteQueue)' = Elements(siteQueue)
            BY <2>1 DEF Used, OnceIn, Elements
        <3> QED BY <1>3, <1>4, <2>1, <2>2, <3>1 DEF Agree
    <2>4. Used(siteRuns)' = Used(siteRuns)
        BY <2>1 DEF Used
    <2>5. SitesInv'
        BY <1>1, <2>1, <2>3, <2>4 DEF SitesInv
    <2> QED BY <2>1, <2>5 DEF NewestShown
<1>7. CASE siteRuns[probe.id] = probe.generation
    <2> DEFINE id == probe.id
               row == [sites[id] EXCEPT !.phase = phase, !.of = probe.generation]
               rows == [sites EXCEPT ![id] = row]
               slots == [siteRuns EXCEPT ![id] = 0]
               left == siteProbes \ {probe}
    <2>1. sites[id].url = probe.url
        <3> DEFINE its == [id |-> id, generation |-> siteRuns[id], url |-> sites[id].url]
        <3>1. its \in siteProbes /\ its.id = probe.id /\ its.generation = probe.generation
              /\ its.url = sites[id].url
            BY <1>2, <1>4, <1>7
        <3> HIDE DEF its, id
        <3>2. its = probe
            BY <1>3, <3>1
        <3> QED BY <3>1, <3>2
    <2>2. W!Pump(rows, siteQueue, slots, left)
        BY <1>7, <2>1 DEF W!Answer, W!IsNewest
    <2>3. sites[id] \in SiteRows /\ sites[id].phase = "Running" /\ id \in Sites
        BY <1>2, <1>3, <1>4, <1>7
    <2>4. row \in SiteRows /\ row.phase = phase /\ row.url = sites[id].url /\ row.of = probe.generation
        <3> HIDE DEF id
        <3>1. probe.generation \in 0 .. MaxProbes
            BY <1>1, <1>2, SiteBounds
        <3>2. row \in SiteRows
            BY <2>3, <3>1 DEF SiteRows
        <3>3. row.phase = phase /\ row.url = sites[id].url /\ row.of = probe.generation
            BY <2>3 DEF SiteRows
        <3> QED BY <3>2, <3>3
    <2> HIDE DEF row
    <2>5. /\ rows \in [Sites -> SiteRows] /\ rows[id] = row /\ slots \in [Sites -> Nat] /\ slots[id] = 0
          /\ \A other \in Sites : other # id => rows[other] = sites[other] /\ slots[other] = siteRuns[other]
        BY <1>3, <2>3, <2>4
    <2> HIDE DEF rows, slots
    <2>6. \A other \in Sites :
              /\ rows[other].phase = "Queued" <=> other \in Elements(siteQueue)
              /\ rows[other].phase = "Running" <=> slots[other] # 0
              /\ slots[other] # 0 =>
                    [id |-> other, generation |-> slots[other], url |-> rows[other].url] \in left
        <3> SUFFICES ASSUME NEW other \in Sites
                     PROVE  /\ rows[other].phase = "Queued" <=> other \in Elements(siteQueue)
                            /\ rows[other].phase = "Running" <=> slots[other] # 0
                            /\ slots[other] # 0 =>
                                  [id |-> other, generation |-> slots[other], url |-> rows[other].url] \in left
            OBVIOUS
        <3>1. CASE other = id
            <4>1. id \notin Elements(siteQueue)
                BY <1>4, <2>3
            <4> QED BY <2>4, <2>5, <3>1, <4>1
        <3>2. CASE other # id
            BY <1>4, <1>5, <2>5, <3>2
        <3> QED BY <3>1, <3>2
    <2>7. Cardinality(Used(slots)) <= Limit
        <3>1. Used(slots) \subseteq Used(siteRuns)
            BY <2>5 DEF Used
        <3>2. Cardinality(Used(slots)) <= Cardinality(Used(siteRuns))
            BY <3>1, UsedIs, FS_Subset
        <3> QED BY <1>3, <3>2, UsedIs, SiteBounds
    <2>8. Agree(rows, siteQueue, slots, left)
        <3>1. launched \in Nat /\ \A other \in Sites : slots[other] <= launched
            <4>1. launched \in Nat
                BY <1>1, SiteBounds
            <4>2. ASSUME NEW other \in Sites PROVE slots[other] <= launched
                <5>1. slots[other] = 0 \/ slots[other] = siteRuns[other]
                    BY <2>5
                <5>2. siteRuns[other] \in Nat /\ siteRuns[other] <= launched
                    BY <1>3
                <5> QED BY <4>1, <5>1, <5>2
            <4> QED BY <4>1, <4>2
        <3> QED BY <1>3, <2>5, <2>6, <2>7, <3>1 DEF Agree
    <2>9. /\ SitesInv'
          /\ \A other \in Sites : /\ sites'[other].url = rows[other].url
                                   /\ sites'[other].of \in {0, rows[other].of}
        BY <1>1, <2>2, <2>8, PumpKeeps
    <2>10. NewestShown
        BY <1>7, <2>3, <2>4, <2>5, <2>9 DEF NewestShown
    <2> QED BY <2>9, <2>10
<1> QED BY <1>6, <1>7

LEMMA AddKeeps ==
    ASSUME SitesInv, NEW id \in Sites, W!Add(id)
    PROVE  SitesInv' /\ NewestShown
<1>1. /\ sites[id] = W!Blank(0) /\ sites' = [sites EXCEPT ![id] = W!Blank(1)]
      /\ UNCHANGED <<siteQueue, siteRuns, siteProbes, launched>>
    BY DEF W!Add
<1>2. /\ W!Blank(1) \in SiteRows /\ W!Blank(1).phase = "Idle" /\ W!Blank(1).of = 0
      /\ W!Blank(0).phase = "Idle"
    BY SiteBounds DEF W!Blank, SiteRows
<1>3. Agree(sites, siteQueue, siteRuns, siteProbes)
    BY DEF SitesInv
<1>4. /\ sites' \in [Sites -> SiteRows] /\ sites'[id] = W!Blank(1)
      /\ \A other \in Sites : other # id => sites'[other] = sites[other]
    BY <1>1, <1>2, <1>3 DEF Agree
<1>5. \A other \in Sites :
          /\ sites'[other].phase = "Queued" <=> other \in Elements(siteQueue)
          /\ sites'[other].phase = "Running" <=> siteRuns[other] # 0
          /\ siteRuns[other] # 0 =>
                [id |-> other, generation |-> siteRuns[other], url |-> sites'[other].url] \in siteProbes
    <2> SUFFICES ASSUME NEW other \in Sites
                 PROVE  /\ sites'[other].phase = "Queued" <=> other \in Elements(siteQueue)
                        /\ sites'[other].phase = "Running" <=> siteRuns[other] # 0
                        /\ siteRuns[other] # 0 =>
                              [id |-> other, generation |-> siteRuns[other], url |-> sites'[other].url]
                                  \in siteProbes
        OBVIOUS
    <2>1. /\ sites[other].phase = "Queued" <=> other \in Elements(siteQueue)
          /\ sites[other].phase = "Running" <=> siteRuns[other] # 0
          /\ siteRuns[other] # 0 =>
                [id |-> other, generation |-> siteRuns[other], url |-> sites[other].url] \in siteProbes
        BY <1>3 DEF Agree
    <2>2. CASE other = id
        BY <1>1, <1>2, <1>4, <2>1, <2>2
    <2>3. CASE other # id
        BY <1>4, <2>1, <2>3
    <2> QED BY <2>2, <2>3
<1>6. Used(siteRuns)' = Used(siteRuns) /\ OnceIn(siteQueue)' = OnceIn(siteQueue)
      /\ Elements(siteQueue)' = Elements(siteQueue)
    BY <1>1 DEF Used, OnceIn, Elements
<1>7. Agree(sites, siteQueue, siteRuns, siteProbes)'
    BY <1>1, <1>3, <1>4, <1>5, <1>6 DEF Agree
<1>8. SitesInv'
    BY <1>1, <1>6, <1>7 DEF SitesInv
<1>9. NewestShown
    BY <1>2, <1>4 DEF NewestShown
<1> QED BY <1>8, <1>9

LEMMA CancelAllKeeps ==
    ASSUME SitesInv, W!CancelAll PROVE SitesInv' /\ NewestShown
<1>1. /\ sites' = [id \in Sites |-> IF sites[id].phase \in W!Active THEN W!Marked(sites[id], "Cancelled")
                                      ELSE sites[id]]
      /\ siteQueue' = <<>> /\ siteRuns' = [id \in Sites |-> 0] /\ UNCHANGED <<siteProbes, launched>>
    BY DEF W!CancelAll
<1>2. Agree(sites, siteQueue, siteRuns, siteProbes) /\ launched \in Nat
    BY SiteBounds DEF SitesInv
<1>3. \A id \in Sites : /\ sites[id] \in SiteRows /\ W!Marked(sites[id], "Cancelled") \in SiteRows
                         /\ W!Marked(sites[id], "Cancelled").phase = "Cancelled"
                         /\ W!Marked(sites[id], "Cancelled").of = 0
    BY <1>2, MarkedIs DEF Agree
<1>4. /\ sites' \in [Sites -> SiteRows]
      /\ \A id \in Sites : /\ sites'[id].phase # "Queued" /\ sites'[id].phase # "Running"
                            /\ sites'[id].of \in {0, sites[id].of}
    BY <1>1, <1>3 DEF W!Active
<1>5. Used(siteRuns)' = {} /\ Elements(siteQueue)' = {} /\ OnceIn(siteQueue)' /\ siteQueue' \in Seq(Sites)
    BY <1>1, EmptySeq DEF Used, Elements, OnceIn
<1>6. Cardinality(Used(siteRuns)') <= Limit
    BY <1>5, FS_EmptySet, SiteBounds
<1>7. \A id \in Sites : siteRuns'[id] = 0
    BY <1>1
<1>8. Agree(sites, siteQueue, siteRuns, siteProbes)'
    <2>1. siteRuns' \in [Sites -> Nat]
        BY <1>1
    <2> QED BY <1>1, <1>2, <1>4, <1>5, <1>6, <1>7, <2>1 DEF Agree
<1>9. SitesInv'
    BY <1>1, <1>8 DEF SitesInv
<1> QED BY <1>4, <1>9 DEF NewestShown

LEMMA ShownOnce ==
    W!SetToSeq(W!Shown) \in Seq(Sites) /\ OnceIn(W!SetToSeq(W!Shown))
<1> DEFINE S == W!Shown
           N == Cardinality(S)
           Q(f) == f \in [1 .. N -> S] /\ W!IsInjective(f)
<1>1. S \subseteq Sites
    BY DEF W!Shown
<1>2. IsFiniteSet(S) /\ N \in Nat /\ ExistsBijection(1 .. N, S)
    BY <1>1, SiteBounds, FS_Subset, FS_CardinalityType
<1> HIDE DEF S
<1>3. PICK f \in Bijection(1 .. N, S) : TRUE
    BY <1>2 DEF ExistsBijection
<1>4. Q(f)
    BY <1>3 DEF Bijection, Injection, Surjection, IsInjective, W!IsInjective
<1>5. W!SetToSeq(S) = CHOOSE g : Q(g)
    BY DEF W!SetToSeq, W!Cardinality, Cardinality
<1> DEFINE s == CHOOSE g : Q(g)
<1>6. Q(s)
    BY <1>4
<1> HIDE DEF s, N
<1>7. s \in [1 .. N -> Sites]
    BY <1>1, <1>6
<1>8. s \in Seq(Sites) /\ Len(s) = N
    BY <1>2, <1>7, SeqDef, LenProperties
<1>9. OnceIn(s)
    BY <1>6, <1>7, <1>8 DEF OnceIn, W!IsInjective
<1> QED BY <1>5, <1>8, <1>9 DEF S, s

LEMMA SitesStep == SitesInv /\ [W!Next]_(W!vars) => SitesInv' /\ NewestShown
<1> SUFFICES ASSUME SitesInv, [W!Next]_(W!vars) PROVE SitesInv' /\ NewestShown
    OBVIOUS
<1>1. \A id \in Sites : sites[id] \in SiteRows
    BY DEF SitesInv, Agree
<1>2. CASE UNCHANGED W!vars
    BY <1>2 DEF W!vars, SitesInv, Agree, OnceIn, Elements, Used, NewestShown
<1>3. ASSUME NEW id \in Sites, W!Cancel(id) PROVE SitesInv' /\ NewestShown
    <2>1. W!Marked(sites[id], "Cancelled") \in SiteRows /\ W!Marked(sites[id], "Cancelled").phase = "Cancelled"
          /\ W!Marked(sites[id], "Cancelled").of = 0
        BY <1>1, MarkedIs
    <2>2. "Cancelled" \notin W!Active
        BY DEF W!Active
    <2> QED BY <1>3, <2>1, <2>2, StoppedKeeps DEF W!Cancel
<1>4. ASSUME NEW id \in Sites, W!Toggle(id) PROVE SitesInv' /\ NewestShown
    <2>1. CASE W!Cancel(id)
        BY <1>3, <2>1
    <2>2. CASE W!Start(<<id>>)
        <3>1. <<id>> \in Seq(Sites) /\ OnceIn(<<id>>)
            BY DEF OnceIn
        <3> QED BY <2>2, <3>1, StartKeeps
    <2> QED BY <1>4, <2>1, <2>2 DEF W!Toggle
<1>5. ASSUME NEW id \in Sites, W!Add(id) PROVE SitesInv' /\ NewestShown
    BY <1>5, AddKeeps
<1>6. \A url \in 0 .. MaxUrls : W!Blank(url) \in SiteRows /\ W!Blank(url).phase = "Idle" /\ W!Blank(url).of = 0
    BY SiteBounds DEF W!Blank, SiteRows
<1>7. "Idle" \notin W!Active
    BY DEF W!Active
<1>8. ASSUME NEW id \in Sites, W!Update(id) PROVE SitesInv' /\ NewestShown
    <2>1. sites[id].url < MaxUrls /\ W!Stopped(id, W!Blank(sites[id].url + 1))
        BY <1>8 DEF W!Update
    <2>2. sites[id].url + 1 \in 0 .. MaxUrls
        BY <1>1, <2>1, SiteBounds DEF SiteRows
    <2> QED BY <1>6, <1>7, <2>1, <2>2, StoppedKeeps
<1>9. ASSUME NEW id \in Sites, W!Delete(id) PROVE SitesInv' /\ NewestShown
    <2>1. W!Stopped(id, W!Blank(0)) /\ 0 \in 0 .. MaxUrls
        BY <1>9, SiteBounds DEF W!Delete
    <2> QED BY <1>6, <1>7, <2>1, StoppedKeeps
<1>10. CASE W!TestAll
    BY <1>10, ShownOnce, StartKeeps DEF W!TestAll
<1>11. CASE W!CancelAll
    BY <1>11, CancelAllKeeps
<1>12. ASSUME NEW probe \in siteProbes, NEW phase \in {"Responded", "Failed"}, W!Answer(probe, phase)
       PROVE  SitesInv' /\ NewestShown
    BY <1>12, AnswerKeeps
<1> QED BY <1>2, <1>4, <1>5, <1>8, <1>9, <1>10, <1>11, <1>12 DEF W!Next

----------------------------------------------------------------------------
(* Tests of nodes *)

LEMMA TestBounds == MaxTests \in Nat /\ MaxViews \in Nat
BY BoundsAreNumbers

Views == [on : BOOLEAN, plan : Nat]
NodeProbes == [gen : {-1} \cup Nat, testing : BOOLEAN, result : Nat]
Batches == [ticket : Nat, view : Views, pc : {"start", "poll", "gone"}, waits : BOOLEAN, done : BOOLEAN,
            targets : SUBSET Nodes, epoch : Nat]
Singles == [ticket : Nat, view : Views, node : Nodes, epoch : Nat]

\* The probes are replaced once at most for each change of the kernel.
TestTypes ==
    /\ native \in BOOLEAN /\ mounted \in BOOLEAN /\ missed \in BOOLEAN
    /\ view \in Views /\ context \in Views
    /\ probes \in [Nodes -> NodeProbes] /\ batches \subseteq Batches /\ singles \subseteq Singles
    /\ ticket \in Nat /\ busy \in Nat /\ nodesPending \in Int /\ singlePending \in Int
    /\ epoch \in Nat /\ views \in Nat
    /\ epoch <= views /\ views <= MaxViews /\ (context # view => epoch < views)
    /\ ticket <= MaxTests + epoch /\ busy <= MaxTests + epoch

\* No ticket is given twice: the one of the group test in progress is the newest.
TicketsOnce ==
    /\ \A b \in batches : b.ticket > 0 /\ (b.ticket <= ticket \/ b.ticket = busy)
    /\ \A b, c \in batches : b.ticket = c.ticket => b = c
    /\ \A s \in singles : s.ticket <= ticket /\ (busy # 0 => s.ticket < busy)
    /\ busy # 0 => ticket <= busy

\* While a group is tested only its test's task measures, nodes it was asked for, and as long
\* as the page has nothing to observe the task's kernel is the one in use.
GroupIsMeasured ==
    busy # 0 =>
        /\ \A n \in T!Testing : probes[n].gen = busy
        /\ \A b \in batches : b.ticket = busy =>
              /\ b.pc = "start" => T!Testing = {}
              /\ b.pc = "poll" => b.waits /\ b.epoch = epoch /\ T!Testing \subseteq b.targets
              /\ ~missed /\ context = view => T!Valid(b)

TestsInv == TestTypes /\ TicketsOnce /\ GroupIsMeasured /\ T!CountsAreTrue /\ T!BusyEnds

\* A result that appears is of the probe that was under way.
LastTested ==
    \A n \in Nodes : probes'[n].result # probes[n].result /\ probes'[n].result # 0 =>
        probes[n].testing /\ probes'[n].result = probes[n].gen

LEMMA SameSize == \A S : T!Cardinality(S) = Cardinality(S)
BY DEF T!Cardinality, Cardinality

LEMMA TestingIs ==
    /\ IsFiniteSet(T!Testing) /\ Cardinality(T!Testing) \in Nat
    /\ Cardinality(T!Testing) = 0 => T!Testing = {}
    /\ T!Testing = {} => Cardinality(T!Testing) = 0
BY TestedAreFinite, FS_Subset, FS_CardinalityType, FS_EmptySet DEF T!Testing

LEMMA TestingNext ==
    /\ IsFiniteSet(T!Testing') /\ Cardinality(T!Testing') \in Nat
    /\ T!Testing' = {} => Cardinality(T!Testing') = 0
<1>1. T!Testing' \subseteq Nodes
    BY DEF T!Testing
<1> QED BY <1>1, TestedAreFinite, FS_Subset, FS_CardinalityType, FS_EmptySet

\* A task is replaced by at most one that has its ticket.
Successor(task, new) ==
    /\ new \in SUBSET Batches
    /\ \A b \in new : b.ticket = task.ticket
    /\ \A b, c \in new : b = c

LEMMA ReplacedIs ==
    ASSUME TestTypes, TicketsOnce, NEW task \in batches, NEW new, Successor(task, new), T!Replaced(task, new)
    PROVE  /\ batches' \subseteq Batches
           /\ \A b \in batches' : \E c \in batches : c.ticket = b.ticket
           /\ \A b, c \in batches' : b.ticket = c.ticket => b = c
           /\ \A b \in batches' : b \in new \/ (b \in batches /\ b.ticket # task.ticket)
           /\ \A b \in batches : b.ticket # task.ticket => b \in batches'
           /\ new \subseteq batches'
<1>1. batches' = (batches \ {task}) \cup new
    BY DEF T!Replaced
<1>2. \A b \in batches : b.ticket = task.ticket => b = task
    BY DEF TicketsOnce
<1> QED BY <1>1, <1>2, Zenon DEF TestTypes, TicketsOnce, Successor

LEMMA EndIs ==
    ASSUME TestTypes, TicketsOnce, GroupIsMeasured, NEW t \in Nat \ {0}, T!End(t)
    PROVE  /\ probes' \in [Nodes -> NodeProbes] /\ LastTested
           /\ \/ /\ busy = t /\ T!Testing' = {} /\ busy' = 0 /\ nodesPending' = 0 /\ ticket' = t
              \/ /\ busy # t /\ UNCHANGED <<busy, nodesPending, ticket, probes>>
<1>1. CASE busy = t
    <2>1. /\ probes' = [n \in Nodes |-> IF probes[n].gen = t /\ probes[n].testing
                                        THEN [probes[n] EXCEPT !.testing = FALSE, !.result = t] ELSE probes[n]]
          /\ busy' = 0 /\ nodesPending' = 0 /\ ticket' = (IF ticket < t THEN t ELSE ticket)
        BY <1>1 DEF T!End, T!Current
    <2>2. \A n \in Nodes : probes[n] \in NodeProbes
        BY DEF TestTypes
    <2>3. probes' \in [Nodes -> NodeProbes]
        BY <2>1, <2>2 DEF NodeProbes
    <2>4. \A n \in Nodes : probes[n].testing => probes[n].gen = t
        BY <1>1 DEF GroupIsMeasured, T!Testing
    <2>5. \A n \in Nodes : probes'[n].testing = FALSE
        BY <2>1, <2>2, <2>4 DEF NodeProbes
    <2>6. T!Testing' = {}
        BY <2>5 DEF T!Testing
    <2>7. LastTested
        BY <2>1, <2>2 DEF LastTested, NodeProbes
    <2>8. ticket' = t
        <3>1. ticket \in Nat /\ ticket <= t
            BY <1>1 DEF TestTypes, TicketsOnce
        <3>2. ticket' = IF ticket < t THEN t ELSE ticket
            BY <2>1
        <3> QED BY <3>1, <3>2
    <2> QED BY <1>1, <2>1, <2>3, <2>6, <2>7, <2>8
<1>2. CASE busy # t
    BY <1>2 DEF T!End, T!Current, TestTypes, LastTested
<1> QED BY <1>1, <1>2

LEMMA CompleteIs ==
    ASSUME TestsInv, NEW task \in batches, task.pc = "poll", task.ticket = busy, busy # 0,
           NEW measured \in SUBSET task.targets, T!Complete(task, measured)
    PROVE  /\ probes' \in [Nodes -> NodeProbes] /\ LastTested
           /\ T!Testing' = T!Testing \ measured /\ nodesPending' = Cardinality(T!Testing')
           /\ \A n \in Nodes : probes'[n].testing => probes'[n] = probes[n]
<1> DEFINE open == {n \in measured : probes[n].gen = task.ticket /\ probes[n].testing /\ task.epoch = epoch}
<1>1. /\ probes' = [n \in Nodes |-> IF n \in open THEN [gen |-> task.ticket, testing |-> FALSE,
                                                        result |-> task.ticket] ELSE probes[n]]
      /\ nodesPending' = nodesPending - Cardinality(open)
    BY SameSize DEF T!Complete, T!Current
<1>2. task \in Batches /\ task.targets \subseteq Nodes /\ task.ticket \in Nat
    BY DEF TestsInv, TestTypes, Batches
<1>3. task.epoch = epoch /\ \A n \in T!Testing : probes[n].gen = task.ticket
    BY DEF TestsInv, GroupIsMeasured
<1>4. open = T!Testing \cap measured
    BY <1>2, <1>3 DEF T!Testing
<1>5. \A n \in Nodes : probes[n] \in NodeProbes
    BY DEF TestsInv, TestTypes
<1>6. \A n \in open : n \in T!Testing
    BY <1>4
<1> HIDE DEF open
<1>7. probes' \in [Nodes -> NodeProbes]
    BY <1>1, <1>2, <1>5 DEF NodeProbes
<1>8. \A n \in Nodes : /\ n \in open => probes'[n].testing = FALSE /\ probes'[n].result = task.ticket
                       /\ n \notin open => probes'[n] = probes[n]
    BY <1>1
<1>9. T!Testing' = T!Testing \ measured
    <2>1. T!Testing' = {n \in Nodes : probes'[n].testing}
        BY DEF T!Testing
    <2> QED BY <1>4, <1>8, <2>1 DEF T!Testing
<1>10. nodesPending' = Cardinality(T!Testing')
    <2>1. nodesPending = Cardinality(T!Testing)
        BY SameSize DEF TestsInv, T!CountsAreTrue
    <2>2. Cardinality(T!Testing \ measured) = Cardinality(T!Testing) - Cardinality(T!Testing \cap measured)
        BY TestingIs, FS_Difference
    <2> QED BY <1>1, <1>4, <1>9, <2>1, <2>2
<1>11. LastTested
    BY <1>3, <1>6, <1>8 DEF LastTested, T!Testing
<1> QED BY <1>7, <1>8, <1>9, <1>10, <1>11

LEMMA TestsInit == T!Init => TestsInv
<1> SUFFICES ASSUME T!Init PROVE TestsInv
    OBVIOUS
<1>1. T!Absent \in NodeProbes /\ T!Absent.testing = FALSE
    BY DEF T!Absent, NodeProbes
<1>2. /\ probes = [n \in Nodes |-> T!Absent] /\ batches = {} /\ singles = {} /\ busy = 0 /\ singlePending = 0
      /\ native \in BOOLEAN /\ mounted = TRUE /\ view = [on |-> TRUE, plan |-> 1] /\ context = view
      /\ ticket = 0 /\ nodesPending = 0 /\ epoch = 0 /\ views = 0 /\ missed = FALSE
    BY DEF T!Init
<1>3. T!Testing = {}
    BY <1>1, <1>2 DEF T!Testing
<1>4. TestTypes
    <2>1. probes \in [Nodes -> NodeProbes] /\ view \in Views /\ context \in Views
        BY <1>1, <1>2 DEF Views
    <2>2. epoch <= views /\ views <= MaxViews /\ ticket <= MaxTests + epoch /\ busy <= MaxTests + epoch
        BY <1>2, TestBounds
    <2>3. batches \subseteq Batches /\ singles \subseteq Singles
        BY <1>2
    <2>6. native \in BOOLEAN /\ mounted \in BOOLEAN /\ missed \in BOOLEAN
        BY <1>2, Zenon
    <2>4. /\ context = view /\ ticket \in Nat /\ busy \in Nat /\ nodesPending \in Int /\ singlePending \in Int
          /\ epoch \in Nat /\ views \in Nat
        BY <1>2
    <2>5. probes \in [Nodes -> NodeProbes]
        BY <2>1
    <2> QED BY <2>1, <2>2, <2>3, <2>4, <2>5, <2>6 DEF TestTypes
<1>5. TicketsOnce /\ GroupIsMeasured /\ T!BusyEnds
    BY <1>2 DEF TicketsOnce, GroupIsMeasured, T!BusyEnds
<1>6. T!CountsAreTrue
    BY SameSize, <1>2, <1>3, TestingIs DEF T!CountsAreTrue
<1> QED BY <1>4, <1>5, <1>6 DEF TestsInv

\* Wherever a task ends its test, or finds that it is not the one in progress.
LEMMA EndedKeeps ==
    ASSUME TestsInv, NEW task \in batches, NEW new, Successor(task, new), T!Replaced(task, new),
           T!End(task.ticket),
           UNCHANGED <<native, mounted, view, context, singlePending, singles, epoch, views, missed>>
    PROVE  TestsInv' /\ LastTested
<1> USE DEF TestsInv
<1>1. task.ticket \in Nat \ {0}
    BY DEF TestTypes, TicketsOnce, Batches
<1>2. /\ probes' \in [Nodes -> NodeProbes] /\ LastTested
      /\ \/ /\ busy = task.ticket /\ T!Testing' = {} /\ busy' = 0 /\ nodesPending' = 0 /\ ticket' = task.ticket
         \/ /\ busy # task.ticket /\ UNCHANGED <<busy, nodesPending, ticket, probes>>
    BY <1>1, EndIs
<1>3. /\ batches' \subseteq Batches
      /\ \A b \in batches' : \E c \in batches : c.ticket = b.ticket
      /\ \A b, c \in batches' : b.ticket = c.ticket => b = c
      /\ \A b \in batches' : b \in new \/ (b \in batches /\ b.ticket # task.ticket)
      /\ \A b \in batches : b.ticket # task.ticket => b \in batches'
    BY ReplacedIs
<1>4. \A b \in new : b.ticket = task.ticket
    BY DEF Successor
<1>5. TestTypes'
    BY <1>1, <1>2, <1>3, TestBounds DEF TestTypes
<1>6. CASE busy = task.ticket
    <2>1. busy' = 0 /\ ticket' = busy /\ T!Testing' = {} /\ ticket <= busy
        BY <1>1, <1>2, <1>6 DEF TicketsOnce
    <2>2. \A b \in batches' : b.ticket > 0 /\ b.ticket <= ticket'
        <3> SUFFICES ASSUME NEW b \in batches' PROVE b.ticket > 0 /\ b.ticket <= ticket'
            OBVIOUS
        <3>1. PICK c \in batches : c.ticket = b.ticket
            BY <1>3
        <3>2. c.ticket \in Nat /\ c.ticket > 0 /\ (c.ticket <= ticket \/ c.ticket = busy)
            BY DEF TicketsOnce, TestTypes, Batches
        <3> QED BY <2>1, <3>1, <3>2 DEF TestTypes
    <2>3. \A s \in singles : s.ticket <= ticket'
        BY <1>1, <1>6, <2>1 DEF TestTypes, TicketsOnce, Singles
    <2>4. TicketsOnce'
        BY <1>3, <2>1, <2>2, <2>3 DEF TicketsOnce
    <2>5. (T!CountsAreTrue)'
        <3>1. singlePending = 0 /\ singlePending' = 0
            BY SameSize, <1>1, <1>6 DEF T!CountsAreTrue
        <3>2. Cardinality(T!Testing') = 0
            BY <2>1, TestingNext
        <3> QED BY SameSize, <2>1, <3>1, <3>2 DEF T!CountsAreTrue
    <2>6. GroupIsMeasured' /\ (T!BusyEnds)'
        BY <2>1 DEF GroupIsMeasured, T!BusyEnds
    <2> QED BY <1>2, <1>5, <2>4, <2>5, <2>6
<1>7. CASE busy # task.ticket
    <2>1. /\ UNCHANGED <<busy, nodesPending, ticket, probes>> /\ T!Testing' = T!Testing
        BY <1>2, <1>7 DEF T!Testing
    <2>2. \A b \in batches' : b.ticket = busy => b \in batches
        BY <1>3, <1>4, <1>7
    <2>3. \A b \in batches' : b.ticket > 0 /\ (b.ticket <= ticket \/ b.ticket = busy)
        BY <1>3, Zenon DEF TicketsOnce
    <2>4. TicketsOnce'
        BY <1>3, <2>1, <2>3 DEF TicketsOnce
    <2>5. (T!CountsAreTrue)'
        BY SameSize, <2>1 DEF T!CountsAreTrue
    <2>6. GroupIsMeasured'
        BY <2>1, <2>2 DEF GroupIsMeasured, T!Valid
    <2>7. (T!BusyEnds)'
        BY <1>3, <1>7, <2>1 DEF T!BusyEnds
    <2> QED BY <1>2, <1>5, <2>4, <2>5, <2>6, <2>7
<1> QED BY <1>6, <1>7

\* The kernel's answer starts the probes, when the test is the one in progress.
LEMMA StartedKeeps ==
    ASSUME TestsInv, NEW task \in batches, NEW ok \in BOOLEAN, T!Started(task, ok)
    PROVE  TestsInv' /\ LastTested
<1> USE DEF TestsInv
<1>1. /\ task.pc = "start"
      /\ UNCHANGED <<native, mounted, view, context, singlePending, singles, epoch, views, missed>>
    BY DEF T!Started
<1>2. CASE ~T!Current(task.ticket) \/ ~ok \/ ~T!Valid(task)
    <2>1. T!Replaced(task, {}) /\ T!End(task.ticket)
        BY <1>2 DEF T!Started, T!End
    <2>2. Successor(task, {})
        BY DEF Successor
    <2> QED BY <1>1, <2>1, <2>2, EndedKeeps
<1>3. CASE ~(~T!Current(task.ticket) \/ ~ok \/ ~T!Valid(task))
    <2> DEFINE next == [task EXCEPT !.pc = "poll", !.waits = TRUE, !.epoch = epoch]
    <2>0. probes' = [n \in Nodes |-> IF n \in task.targets
                                     THEN [T!Known(probes[n]) EXCEPT !.gen = task.ticket, !.testing = TRUE]
                                     ELSE probes[n]]
        BY <1>3 DEF T!Started
    <2>1. /\ nodesPending' = nodesPending + Cardinality(task.targets)
          /\ ticket' = task.ticket /\ T!Replaced(task, {next}) /\ UNCHANGED busy
          /\ busy = task.ticket /\ T!Valid(task)
        BY SameSize, <1>3 DEF T!Started, T!Current
    <2>2. /\ task \in Batches /\ task.targets \subseteq Nodes /\ task.ticket \in Nat \ {0}
          /\ busy # 0 /\ ticket <= busy
        <3>1. task \in Batches /\ task.targets \subseteq Nodes /\ task.ticket \in Nat \ {0}
            BY DEF TestTypes, Batches, TicketsOnce
        <3> QED BY <2>1, <3>1 DEF TicketsOnce
    <2>3. /\ next \in Batches /\ next.ticket = task.ticket /\ next.pc = "poll" /\ next.waits
          /\ next.epoch = epoch /\ next.targets = task.targets /\ next.view = task.view
        BY <2>2 DEF Batches, TestTypes
    <2> HIDE DEF next
    <2>4. Successor(task, {next})
        BY <2>3 DEF Successor
    <2>5. /\ batches' \subseteq Batches
          /\ \A b \in batches' : \E c \in batches : c.ticket = b.ticket
          /\ \A b, c \in batches' : b.ticket = c.ticket => b = c
          /\ \A b \in batches' : b = next \/ (b \in batches /\ b.ticket # task.ticket)
          /\ next \in batches'
        <3> DEFINE new == {next}
        <3>1. Successor(task, new) /\ T!Replaced(task, new)
            BY <2>1, <2>4
        <3>2. \A b : b \in new <=> b = next
            OBVIOUS
        <3> HIDE DEF new
        <3>3. /\ batches' \subseteq Batches
              /\ \A b \in batches' : \E c \in batches : c.ticket = b.ticket
              /\ \A b, c \in batches' : b.ticket = c.ticket => b = c
              /\ \A b \in batches' : b \in new \/ (b \in batches /\ b.ticket # task.ticket)
              /\ new \subseteq batches'
            BY <3>1, ReplacedIs
        <3> QED BY <3>2, <3>3, Zenon
    <2>6. T!Testing = {} /\ nodesPending = 0
        BY SameSize, <1>1, <2>1, <2>2, TestingIs DEF GroupIsMeasured, T!CountsAreTrue
    <2>7. \A n \in Nodes : probes[n] \in NodeProbes /\ probes[n].testing = FALSE
        BY <2>6 DEF TestTypes, T!Testing, NodeProbes
    <2>8. \A n \in Nodes : /\ T!Known(probes[n]) \in NodeProbes
                           /\ T!Known(probes[n]).result = probes[n].result \/ T!Known(probes[n]).result = 0
        BY <2>7 DEF T!Known, T!Fresh, NodeProbes
    <2>9. probes' \in [Nodes -> NodeProbes]
        BY <2>0, <2>2, <2>7, <2>8 DEF NodeProbes
    <2>10. \A n \in Nodes : /\ probes'[n].result = probes[n].result \/ probes'[n].result = 0
                            /\ n \in task.targets <=> probes'[n].testing
                            /\ n \in task.targets => probes'[n].gen = task.ticket
        <3> SUFFICES ASSUME NEW n \in Nodes
                     PROVE  /\ probes'[n].result = probes[n].result \/ probes'[n].result = 0
                            /\ n \in task.targets <=> probes'[n].testing
                            /\ n \in task.targets => probes'[n].gen = task.ticket
            OBVIOUS
        <3> DEFINE known == T!Known(probes[n])
        <3>1. known \in NodeProbes /\ (known.result = probes[n].result \/ known.result = 0)
            BY <2>8
        <3>2. probes'[n] = IF n \in task.targets THEN [known EXCEPT !.gen = task.ticket, !.testing = TRUE]
                           ELSE probes[n]
            BY <2>0
        <3> HIDE DEF known
        <3>3. CASE n \in task.targets
            <4>1. probes'[n] = [known EXCEPT !.gen = task.ticket, !.testing = TRUE]
                BY <3>2, <3>3
            <4>2. /\ probes'[n].gen = task.ticket /\ probes'[n].testing = TRUE
                  /\ probes'[n].result = known.result
                BY <3>1, <4>1 DEF NodeProbes
            <4> QED BY <3>1, <3>3, <4>2
        <3>4. CASE n \notin task.targets
            BY <2>7, <3>2, <3>4
        <3> QED BY <3>3, <3>4
    <2>11. T!Testing' = task.targets
        BY <2>2, <2>10 DEF T!Testing
    <2>12. LastTested
        BY <2>10 DEF LastTested
    <2>13. TestTypes'
        <3>1. nodesPending' \in Int
            BY <2>1, <2>6, <2>11, TestingNext
        <3> QED BY <1>1, <2>1, <2>2, <2>5, <2>9, <3>1 DEF TestTypes
    <2>14. TicketsOnce'
        <3>1. \A b \in batches' : b.ticket > 0 /\ (b.ticket <= ticket' \/ b.ticket = busy')
            <4> SUFFICES ASSUME NEW b \in batches' PROVE b.ticket > 0 /\ (b.ticket <= ticket' \/ b.ticket = busy')
                OBVIOUS
            <4>1. PICK c \in batches : c.ticket = b.ticket
                BY <2>5
            <4>2. c.ticket \in Nat /\ c.ticket > 0 /\ (c.ticket <= ticket \/ c.ticket = busy)
                BY DEF TicketsOnce, TestTypes, Batches
            <4> QED BY <2>1, <2>2, <4>1, <4>2 DEF TestTypes
        <3>2. \A s \in singles : s.ticket <= ticket' /\ s.ticket < busy
            BY <2>1, <2>2 DEF TicketsOnce, TestTypes, Singles
        <3> QED BY <1>1, <2>1, <2>2, <2>5, <3>1, <3>2 DEF TicketsOnce
    <2>15. GroupIsMeasured'
        <3>1. view'.on /\ view'.plan = next.view.plan
            BY <1>1, <2>1, <2>3 DEF T!Valid
        <3>2. \A n \in T!Testing' : probes'[n].gen = busy
            BY <2>1, <2>2, <2>10, <2>11
        <3>3. \A b \in batches' : b.ticket = busy => b = next
            BY <2>1, <2>5
        <3> QED BY <1>1, <2>1, <2>3, <2>11, <3>1, <3>2, <3>3 DEF GroupIsMeasured, T!Valid
    <2>16. (T!CountsAreTrue)'
        <3>1. singlePending' = 0
            BY SameSize, <1>1, <2>2 DEF T!CountsAreTrue
        <3>2. nodesPending' = Cardinality(T!Testing')
            BY <2>1, <2>6, <2>11, TestingNext
        <3> QED BY SameSize, <2>1, <2>2, <3>1, <3>2 DEF T!CountsAreTrue
    <2>17. (T!BusyEnds)'
        BY <2>1, <2>3, <2>5 DEF T!BusyEnds
    <2> QED BY <2>12, <2>13, <2>14, <2>15, <2>16, <2>17
<1> QED BY <1>2, <1>3

\* A task goes on as it was, or as one of which somebody else takes note.
LEMMA PassedKeeps ==
    ASSUME TestsInv, NEW task \in batches, NEW next \in Batches, T!Replaced(task, {next}),
           next.ticket = task.ticket, next.pc # "start", next.epoch = task.epoch, next.waits = task.waits,
           next.targets = task.targets, next.view = task.view, task.pc = "poll",
           next.pc = "gone" => nodesPending' = 0 \/ (busy # 0 /\ busy = task.ticket /\ ~T!Valid(task)),
           UNCHANGED <<native, mounted, view, context, ticket, busy, singlePending, singles, epoch, views, missed>>,
           \/ UNCHANGED <<probes, nodesPending>>
           \/ \E measured \in SUBSET task.targets : T!Complete(task, measured) /\ busy = task.ticket
    PROVE  TestsInv' /\ LastTested
<1> USE DEF TestsInv
<1>1. Successor(task, {next})
    BY DEF Successor
<1>2. /\ batches' \subseteq Batches
      /\ \A b \in batches' : \E c \in batches : c.ticket = b.ticket
      /\ \A b, c \in batches' : b.ticket = c.ticket => b = c
      /\ \A b \in batches' : b = next \/ (b \in batches /\ b.ticket # task.ticket)
      /\ \A b \in batches : b.ticket # task.ticket => b \in batches'
      /\ next \in batches'
    BY <1>1, ReplacedIs
<1>3. task.ticket \in Nat \ {0}
    BY DEF TestTypes, TicketsOnce, Batches
<1>4. /\ probes' \in [Nodes -> NodeProbes] /\ LastTested /\ T!Testing' \subseteq T!Testing
      /\ \A n \in Nodes : probes'[n].testing => probes'[n] = probes[n]
      /\ \/ UNCHANGED nodesPending /\ T!Testing' = T!Testing
         \/ busy # 0 /\ nodesPending' = Cardinality(T!Testing')
    <2>1. CASE UNCHANGED <<probes, nodesPending>>
        BY <2>1 DEF TestTypes, LastTested, T!Testing
    <2>2. CASE \E measured \in SUBSET task.targets : T!Complete(task, measured) /\ busy = task.ticket
        BY <1>3, <2>2, CompleteIs
    <2> QED BY <2>1, <2>2
<1>5. TestTypes'
    <2>1. nodesPending' \in Int
        BY <1>4, TestingNext DEF TestTypes
    <2> QED BY <1>2, <1>4, <2>1 DEF TestTypes
<1>6. TicketsOnce'
    <2>1. \A b \in batches' : b.ticket > 0 /\ (b.ticket <= ticket \/ b.ticket = busy)
        BY <1>2, Zenon DEF TicketsOnce
    <2> QED BY <1>2, <2>1 DEF TicketsOnce
<1>7. (T!CountsAreTrue)'
    <2>1. CASE busy = 0
        <3>1. T!Testing' = T!Testing
            BY <1>4, <2>1
        <3>2. \A n \in T!Testing : probes'[n] = probes[n]
            BY <1>4, <3>1 DEF T!Testing
        <3> QED BY SameSize, <2>1, <3>1, <3>2 DEF T!CountsAreTrue
    <2>2. CASE busy # 0
        BY SameSize, <1>4, <2>2 DEF T!CountsAreTrue
    <2> QED BY <2>1, <2>2
<1>8. GroupIsMeasured'
    <2> SUFFICES ASSUME busy # 0 PROVE GroupIsMeasured'
        BY DEF GroupIsMeasured
    <2>1. \A n \in T!Testing' : probes'[n].gen = busy
        BY <1>4 DEF GroupIsMeasured, T!Testing
    <2>2. ASSUME NEW b \in batches', b.ticket = busy
          PROVE  /\ b.pc = "start" => T!Testing' = {}
                 /\ b.pc = "poll" => b.waits /\ b.epoch = epoch /\ T!Testing' \subseteq b.targets
                 /\ ~missed /\ context = view => T!Valid(b)
        <3>1. CASE b = next
            <4>1. task.ticket = busy
                BY <2>2, <3>1
            <4>2. /\ task.waits /\ task.epoch = epoch /\ T!Testing \subseteq task.targets
                  /\ ~missed /\ context = view => T!Valid(task)
                BY <4>1 DEF GroupIsMeasured
            <4> QED BY <1>4, <3>1, <4>2 DEF T!Valid
        <3>2. CASE b \in batches
            BY <1>4, <2>2, <3>2 DEF GroupIsMeasured
        <3> QED BY <1>2, <3>1, <3>2
    <2> QED BY <2>1, <2>2 DEF GroupIsMeasured, T!Valid
<1>9. (T!BusyEnds)'
    <2> SUFFICES ASSUME busy # 0, ~missed, context = view
                 PROVE  \E b \in batches' : b.ticket = busy /\ (b.pc \in {"start", "poll"} \/ nodesPending' = 0)
        BY DEF T!BusyEnds
    <2>1. PICK b \in batches : b.ticket = busy /\ (b.pc \in {"start", "poll"} \/ nodesPending = 0)
        BY DEF T!BusyEnds
    <2>2. CASE busy = task.ticket
        <3>1. T!Valid(task)
            BY <2>2 DEF GroupIsMeasured
        <3>2. next.pc \in {"start", "poll", "gone"}
            BY DEF Batches
        <3> QED BY <1>2, <2>2, <3>1, <3>2
    <2>3. CASE busy # task.ticket
        <3>1. b \in batches'
            BY <1>2, <2>1, <2>3
        <3>2. UNCHANGED nodesPending
            <4>1. CASE UNCHANGED <<probes, nodesPending>>
                BY <4>1
            <4> QED BY <2>3, <4>1
        <3> QED BY <2>1, <3>1, <3>2
    <2> QED BY <2>2, <2>3
<1> QED BY <1>4, <1>5, <1>6, <1>7, <1>8, <1>9

LEMMA PollKeeps ==
    ASSUME TestsInv, NEW task \in batches,
           \/ \E measured \in SUBSET task.targets : T!Poll(task, measured)
           \/ T!Measured(task) \/ T!Abandon(task) \/ T!Finish(task)
    PROVE  TestsInv' /\ LastTested
<1>1. task \in Batches /\ task.ticket \in Nat \ {0} /\ task.pc = "poll"
    BY DEF TestsInv, TestTypes, TicketsOnce, Batches, T!Poll, T!Measured, T!Abandon, T!Finish
<1> DEFINE gone == [task EXCEPT !.pc = "gone"]
<1>2. /\ gone \in Batches /\ gone.ticket = task.ticket /\ gone.pc = "gone" /\ gone.epoch = task.epoch
      /\ gone.waits = task.waits /\ gone.targets = task.targets /\ gone.view = task.view
    BY <1>1 DEF Batches
<1>3. T!Without(task) = IF task.waits THEN {gone} ELSE {}
    BY DEF T!Without
<1> HIDE DEF gone
<1>4. Successor(task, T!Without(task))
    BY <1>2, <1>3 DEF Successor
<1>5. busy = task.ticket => busy # 0 /\ task.waits
    BY <1>1 DEF TestsInv, GroupIsMeasured
<1>6. CASE \E measured \in SUBSET task.targets : T!Poll(task, measured)
    <2>1. PICK measured \in SUBSET task.targets : T!Poll(task, measured)
        BY <1>6
    <2>2. /\ T!Replaced(task, {task}) /\ T!Complete(task, measured) /\ busy = task.ticket
          /\ UNCHANGED <<native, mounted, view, context, ticket, busy, singlePending, singles, epoch, views,
                         missed>>
        BY <2>1 DEF T!Poll, T!Current
    <2> QED BY <1>1, <2>2, PassedKeeps
<1>7. CASE T!Measured(task)
    <2> DEFINE done == [task EXCEPT !.done = TRUE]
    <2>1. /\ done \in Batches /\ done.ticket = task.ticket /\ done.pc = "poll" /\ done.epoch = task.epoch
          /\ done.waits = task.waits /\ done.targets = task.targets /\ done.view = task.view
        BY <1>1 DEF Batches
    <2>2. /\ T!Replaced(task, {done})
          /\ UNCHANGED <<native, mounted, view, context, ticket, busy, singlePending, singles, epoch, views,
                         missed>>
          /\ UNCHANGED <<probes, nodesPending>>
        BY <1>7 DEF T!Measured
    <2> HIDE DEF done
    <2> QED BY <1>1, <2>1, <2>2, PassedKeeps
<1>8. CASE T!Abandon(task)
    <2>2. T!Replaced(task, T!Without(task))
        BY <1>8 DEF T!Abandon
    <2>3. UNCHANGED <<native, mounted, view, context, singlePending, singles, epoch, views, missed>>
        BY <1>8 DEF T!Abandon
    <2>4. CASE native \/ busy # task.ticket
        <3>1. T!End(task.ticket)
            BY <1>8, <2>4 DEF T!Abandon, T!End, T!Current
        <3> QED BY <1>4, <2>2, <2>3, <3>1, EndedKeeps
    <2>5. CASE ~native /\ busy = task.ticket
        <3>1. UNCHANGED <<busy, nodesPending, ticket, probes>> /\ ~T!Valid(task)
            BY <1>8, <2>5 DEF T!Abandon, T!Current
        <3>2. T!Replaced(task, {gone})
            BY <1>3, <1>5, <2>2, <2>5
        <3>3. UNCHANGED <<native, mounted, view, context, ticket, busy, singlePending, singles, epoch, views,
                          missed>>
            BY <2>3, <3>1
        <3> QED BY <1>1, <1>2, <1>5, <2>5, <3>1, <3>2, <3>3, PassedKeeps
    <2> QED BY <2>4, <2>5
<1>9. CASE T!Finish(task)
    <2>1. /\ T!Replaced(task, T!Without(task)) /\ busy = task.ticket
          /\ UNCHANGED <<native, mounted, view, context, singlePending, singles, epoch, views, missed>>
        BY <1>9 DEF T!Finish, T!Current
    <2>2. CASE native
        <3>1. T!End(task.ticket)
            BY <1>9, <2>2 DEF T!Finish
        <3> QED BY <1>4, <2>1, <3>1, EndedKeeps
    <2>3. CASE ~native
        <3>1. T!Complete(task, task.targets) /\ UNCHANGED <<busy, ticket>>
            BY <1>9, <2>3 DEF T!Finish
        <3>2. T!Testing' = T!Testing \ task.targets /\ nodesPending' = Cardinality(T!Testing')
            BY <1>1, <1>5, <2>1, <3>1, CompleteIs
        <3>3. T!Testing \subseteq task.targets
            BY <1>1, <1>5, <2>1 DEF TestsInv, GroupIsMeasured
        <3>4. nodesPending' = 0
            BY <3>2, <3>3, TestingNext
        <3>5. T!Replaced(task, {gone})
            BY <1>3, <1>5, <2>1
        <3>6. UNCHANGED <<native, mounted, view, context, ticket, busy, singlePending, singles, epoch, views,
                          missed>>
            BY <2>1, <3>1
        <3> QED BY <1>1, <1>2, <2>1, <3>1, <3>4, <3>5, <3>6, PassedKeeps
    <2> QED BY <2>2, <2>3
<1> QED BY <1>6, <1>7, <1>8, <1>9

LEMMA WaitKeeps ==
    ASSUME TestsInv, NEW task \in batches, T!Wait(task)
    PROVE  TestsInv' /\ LastTested
<1> DEFINE new == IF task.pc = "poll" THEN {[task EXCEPT !.waits = FALSE]} ELSE {}
<1>1. /\ T!Replaced(task, new) /\ T!End(task.ticket)
      /\ UNCHANGED <<native, mounted, view, context, singlePending, singles, epoch, views, missed>>
    BY DEF T!Wait
<1>2. Successor(task, new)
    BY DEF Successor, TestsInv, TestTypes, Batches
<1> HIDE DEF new
<1> QED BY <1>1, <1>2, EndedKeeps

LEMMA GroupKeeps ==
    ASSUME TestsInv, NEW targets \in SUBSET Nodes, T!TestGroup(targets)
    PROVE  TestsInv' /\ LastTested
<1> USE DEF TestsInv
<1> DEFINE new == [ticket |-> ticket + 1, view |-> view, pc |-> "start", waits |-> FALSE, done |-> FALSE,
                   targets |-> targets, epoch |-> epoch]
<1>1. /\ busy = 0 /\ singlePending = 0 /\ view.on /\ ticket < MaxTests /\ busy' = ticket + 1 /\ nodesPending' = 0
      /\ UNCHANGED <<native, mounted, view, context, ticket, singlePending, probes, singles, epoch, views, missed>>
    BY DEF T!TestGroup
<1>2. T!Replaced([pc |-> "none"], {new})
    BY <1>1 DEF T!TestGroup
<1>3. /\ new \in Batches /\ new.ticket = ticket + 1 /\ new.pc = "start" /\ new.view = view
    BY DEF TestTypes, Batches
<1> HIDE DEF new
<1>4. batches' \subseteq batches \cup {new} /\ new \in batches'
    BY <1>2 DEF T!Replaced
<1>5. T!Testing = {} /\ T!Testing' = {}
    BY SameSize, <1>1, TestingIs DEF T!CountsAreTrue, T!Testing
<1>6. \A b \in batches : b.ticket \in Nat /\ b.ticket > 0 /\ b.ticket <= ticket
    BY <1>1 DEF TestTypes, TicketsOnce, Batches
<1>7. TestTypes' /\ LastTested
    BY <1>1, <1>3, <1>4, TestBounds DEF TestTypes, LastTested
<1>8. TicketsOnce'
    <2>1. ticket \in Nat /\ \A s \in singles : s.ticket \in Nat
        BY DEF TestTypes, Singles
    <2>2. \A b \in batches' : b.ticket > 0 /\ (b.ticket <= ticket \/ b.ticket = busy')
        BY <1>1, <1>3, <1>4, <1>6, <2>1
    <2>3. \A b, c \in batches' : b.ticket = c.ticket => b = c
        <3>1. \A b \in batches : b.ticket # new.ticket
            BY <1>3, <1>6, <2>1
        <3> QED BY <1>4, <3>1, Zenon DEF TicketsOnce
    <2>4. \A s \in singles : s.ticket <= ticket /\ s.ticket < busy'
        BY <1>1, <2>1 DEF TicketsOnce
    <2> QED BY <1>1, <2>1, <2>2, <2>3, <2>4 DEF TicketsOnce
<1>9. GroupIsMeasured'
    <2>1. view'.on /\ view'.plan = new.view.plan
        BY <1>1, <1>3
    <2>2. \A b \in batches' : b.ticket = ticket + 1 => b = new
        BY <1>4, <1>6 DEF TestTypes
    <2> QED BY <1>1, <1>3, <1>5, <2>1, <2>2 DEF GroupIsMeasured, T!Valid
<1>10. (T!CountsAreTrue)'
    BY SameSize, <1>1, <1>5, TestingNext DEF T!CountsAreTrue, TestTypes
<1>11. (T!BusyEnds)'
    BY <1>1, <1>3, <1>4 DEF T!BusyEnds
<1> QED BY <1>7, <1>8, <1>9, <1>10, <1>11

LEMMA NodeKeeps ==
    ASSUME TestsInv, NEW n \in Nodes, T!TestNode(n)
    PROVE  TestsInv' /\ LastTested
<1> USE DEF TestsInv
<1> DEFINE probe == [T!Known(probes[n]) EXCEPT !.gen = ticket + 1, !.testing = TRUE]
           task == [ticket |-> ticket + 1, view |-> view, node |-> n, epoch |-> epoch]
<1>1. /\ busy = 0 /\ ~probes[n].testing /\ ticket < MaxTests /\ ticket' = ticket + 1
      /\ singlePending' = singlePending + 1 /\ singles' = singles \cup {task}
      /\ UNCHANGED <<native, mounted, view, context, busy, nodesPending, batches, epoch, views, missed>>
    BY DEF T!TestNode
<1>2. probes' = [probes EXCEPT ![n] = probe]
    BY <1>1 DEF T!TestNode
<1>3. probes[n] \in NodeProbes /\ ticket \in Nat
    BY DEF TestTypes
<1>4. T!Known(probes[n]) \in NodeProbes /\ T!Known(probes[n]).result \in {0, probes[n].result}
    BY <1>3 DEF T!Known, T!Fresh, NodeProbes
<1>5. /\ probe \in NodeProbes /\ probe.result \in {0, probes[n].result} /\ probe.gen = ticket + 1
      /\ probe.testing = TRUE
    <2> DEFINE known == T!Known(probes[n])
    <2>1. probe = [known EXCEPT !.gen = ticket + 1, !.testing = TRUE] /\ known \in NodeProbes
          /\ known.result \in {0, probes[n].result}
        BY <1>4
    <2> HIDE DEF known, probe
    <2>2. probe.gen = ticket + 1 /\ probe.testing = TRUE /\ probe.result = known.result
        BY <2>1 DEF NodeProbes
    <2>3. ticket + 1 \in {-1} \cup Nat
        BY <1>3
    <2>4. probe \in NodeProbes
        BY <2>1, <2>3 DEF NodeProbes
    <2> QED BY <2>1, <2>2, <2>4
<1>6. task \in Singles /\ task.ticket = ticket + 1 /\ task.node = n /\ task.epoch = epoch
    BY DEF TestTypes, Singles
<1> HIDE DEF probe, task
<1>7. /\ probes' \in [Nodes -> NodeProbes] /\ probes'[n] = probe
      /\ \A m \in Nodes : m # n => probes'[m] = probes[m]
    BY <1>2, <1>5 DEF TestTypes
<1>8. LastTested
    BY <1>5, <1>7 DEF LastTested
<1>9. TestTypes'
    <2>1. ticket' \in Nat /\ ticket' <= MaxTests + epoch
        BY <1>1, <1>3, TestBounds DEF TestTypes
    <2> QED BY <1>1, <1>6, <1>7, <2>1 DEF TestTypes
<1>10. TicketsOnce'
    <2>1. \A b \in batches : b.ticket \in Nat
        BY DEF TestTypes, Batches
    <2>2. \A s \in singles' : s.ticket <= ticket'
        BY <1>1, <1>3, <1>6 DEF TicketsOnce, TestTypes, Singles
    <2> QED BY <1>1, <1>3, <2>1, <2>2 DEF TicketsOnce
<1>11. GroupIsMeasured' /\ (T!BusyEnds)'
    BY <1>1 DEF GroupIsMeasured, T!BusyEnds
<1>12. (T!CountsAreTrue)'
    <2>1. T!Testing' = T!Testing \cup {n} /\ n \notin T!Testing
        <3>1. T!Testing' = {m \in Nodes : probes'[m].testing}
            BY DEF T!Testing
        <3> QED BY <1>1, <1>5, <1>7, <3>1 DEF T!Testing
    <2>2. Cardinality(T!Testing') = singlePending + 1
        <3>1. Cardinality(T!Testing \cup {n}) = Cardinality(T!Testing) + 1
            BY <2>1, TestingIs, FS_AddElement
        <3>2. singlePending = Cardinality(T!Testing)
            BY SameSize, <1>1 DEF T!CountsAreTrue
        <3> QED BY <2>1, <3>1, <3>2
    <2>3. ASSUME NEW m \in T!Testing'
          PROVE  \E s \in singles' : s.node = m /\ s.ticket = probes'[m].gen /\ s.epoch = epoch
        <3>1. CASE m = n
            BY <1>1, <1>5, <1>6, <1>7, <3>1
        <3>2. CASE m # n
            <4>1. m \in T!Testing /\ probes'[m] = probes[m]
                BY <1>7, <2>1, <3>2 DEF T!Testing
            <4> QED BY SameSize, <1>1, <4>1 DEF T!CountsAreTrue
        <3> QED BY <3>1, <3>2
    <2> QED BY SameSize, <1>1, <2>2, <2>3 DEF T!CountsAreTrue
<1> QED BY <1>8, <1>9, <1>10, <1>11, <1>12

LEMMA SingleKeeps ==
    ASSUME TestsInv, NEW task \in singles, T!Completed(task)
    PROVE  TestsInv' /\ LastTested
<1> USE DEF TestsInv
<1>1. /\ singles' = singles \ {task}
      /\ UNCHANGED <<native, mounted, view, context, ticket, busy, nodesPending, batches, epoch, views, missed>>
    BY DEF T!Completed
<1>2. task \in Singles /\ task.node \in Nodes /\ task.ticket \in Nat
    BY DEF TestTypes, Singles
<1>3. TicketsOnce'
    BY <1>1 DEF TicketsOnce
<1>4. CASE ~T!Same(task)
    <2>1. UNCHANGED <<probes, singlePending>> /\ T!Testing' = T!Testing
        BY <1>4 DEF T!Completed, T!Testing
    <2>2. (T!CountsAreTrue)'
        <3>1. ASSUME busy = 0, NEW n \in T!Testing
              PROVE  \E s \in singles' : s.node = n /\ s.ticket = probes[n].gen /\ s.epoch = epoch
            <4>1. PICK s \in singles : s.node = n /\ s.ticket = probes[n].gen /\ s.epoch = epoch
                BY SameSize, <3>1 DEF T!CountsAreTrue
            <4>2. probes[n].testing
                BY DEF T!Testing
            <4>3. s # task
                BY <1>4, <4>1, <4>2 DEF T!Same
            <4> QED BY <1>1, <4>1, <4>3
        <3> QED BY SameSize, <1>1, <2>1, <3>1 DEF T!CountsAreTrue
    <2>3. TestTypes' /\ LastTested
        BY <1>1, <2>1 DEF TestTypes, LastTested
    <2>4. GroupIsMeasured' /\ (T!BusyEnds)'
        BY <1>1, <2>1 DEF GroupIsMeasured, T!BusyEnds, T!Valid
    <2> QED BY <1>3, <2>2, <2>3, <2>4
<1>5. CASE T!Same(task)
    <2> DEFINE old == probes[task.node]
               probe == [old EXCEPT !.testing = FALSE, !.result = IF T!Valid(task) THEN task.ticket ELSE 0]
    <2>1. old \in NodeProbes /\ old.testing /\ old.gen = task.ticket
        BY <1>2, <1>5 DEF TestTypes, T!Same
    <2>2. probes' = [probes EXCEPT ![task.node] = probe] /\ singlePending' = singlePending - 1
        BY <1>2, <1>5, <2>1 DEF T!Completed, TestTypes, NodeProbes
    <2>3. probe \in NodeProbes /\ probe.testing = FALSE /\ probe.result \in {0, task.ticket}
        BY <1>2, <2>1 DEF NodeProbes
    <2> HIDE DEF probe
    <2>4. /\ probes' \in [Nodes -> NodeProbes] /\ probes'[task.node] = probe
          /\ \A m \in Nodes : m # task.node => probes'[m] = probes[m]
        BY <1>2, <2>2, <2>3 DEF TestTypes
    <2>5. busy = 0
        <3> SUFFICES ASSUME busy # 0 PROVE FALSE
            OBVIOUS
        <3>1. task.node \in T!Testing
            BY <1>2, <2>1 DEF T!Testing
        <3>2. task.ticket = busy
            BY <2>1, <3>1 DEF GroupIsMeasured
        <3> QED BY <1>2, <3>2 DEF TicketsOnce, TestTypes
    <2>6. T!Testing' = T!Testing \ {task.node} /\ task.node \in T!Testing
        <3>1. T!Testing' = {m \in Nodes : probes'[m].testing}
            BY DEF T!Testing
        <3> QED BY <1>2, <2>1, <2>3, <2>4, <3>1 DEF T!Testing
    <2>7. Cardinality(T!Testing') = singlePending - 1
        BY SameSize, <2>5, <2>6, TestingIs, FS_RemoveElement DEF T!CountsAreTrue
    <2>8. ASSUME NEW n \in T!Testing'
          PROVE  \E s \in singles' : s.node = n /\ s.ticket = probes'[n].gen /\ s.epoch = epoch
        <3>1. n \in T!Testing /\ n # task.node /\ probes'[n] = probes[n]
            BY <2>4, <2>6 DEF T!Testing
        <3> QED BY SameSize, <1>1, <2>5, <3>1 DEF T!CountsAreTrue
    <2>9. (T!CountsAreTrue)'
        BY SameSize, <1>1, <2>2, <2>5, <2>7, <2>8 DEF T!CountsAreTrue
    <2>10. TestTypes'
        BY <1>1, <2>2, <2>4 DEF TestTypes
    <2>11. LastTested
        BY <2>1, <2>3, <2>4 DEF LastTested
    <2>12. GroupIsMeasured' /\ (T!BusyEnds)'
        BY <1>1, <2>5 DEF GroupIsMeasured, T!BusyEnds
    <2> QED BY <1>3, <2>9, <2>10, <2>11, <2>12
<1> QED BY <1>4, <1>5

LEMMA ObserveKeeps ==
    ASSUME TestsInv, T!Observe PROVE TestsInv' /\ LastTested
<1> USE DEF TestsInv
<1>1. /\ context # view /\ context' = view /\ ticket' = (IF busy > ticket THEN busy ELSE ticket) + 1
      /\ probes' = [n \in Nodes |-> T!Absent] /\ busy' = 0 /\ nodesPending' = 0 /\ singlePending' = 0
      /\ epoch' = epoch + 1 /\ missed' = FALSE /\ UNCHANGED <<native, mounted, view, batches, singles, views>>
    BY DEF T!Observe, T!Forget
<1>2. T!Absent \in NodeProbes /\ T!Absent.testing = FALSE /\ T!Absent.result = 0
    BY DEF T!Absent, NodeProbes
<1>3. /\ probes' \in [Nodes -> NodeProbes]
      /\ \A n \in Nodes : probes'[n].testing = FALSE /\ probes'[n].result = 0
    BY <1>1, <1>2
<1>4. T!Testing' = {}
    BY <1>3 DEF T!Testing
<1>5. TestTypes'
    <2>1. /\ epoch' \in Nat /\ epoch' <= views /\ ticket' \in Nat /\ ticket' <= MaxTests + epoch'
          /\ 0 <= MaxTests + epoch'
        <3>1. /\ epoch \in Nat /\ views \in Nat /\ epoch < views /\ ticket \in Nat /\ busy \in Nat
              /\ ticket <= MaxTests + epoch /\ busy <= MaxTests + epoch
            BY <1>1 DEF TestTypes
        <3>2. /\ epoch' = epoch + 1
              /\ ticket' = (IF busy > ticket THEN busy ELSE ticket) + 1
            BY <1>1
        <3> QED BY <3>1, <3>2, TestBounds
    <2>2. missed' \in BOOLEAN
        BY <1>1, Zenon
    <2>3. /\ native' \in BOOLEAN /\ mounted' \in BOOLEAN /\ view' \in Views /\ context' \in Views
          /\ batches' \subseteq Batches /\ singles' \subseteq Singles
        BY <1>1 DEF TestTypes
    <2>4. /\ busy' \in Nat /\ nodesPending' \in Int /\ singlePending' \in Int /\ views' \in Nat
          /\ views' <= MaxViews /\ epoch' <= views' /\ context' = view' /\ busy' <= MaxTests + epoch'
        BY <1>1, <2>1 DEF TestTypes
    <2> QED BY <1>3, <2>1, <2>2, <2>3, <2>4 DEF TestTypes
<1>6. TicketsOnce'
    <2>1. \A b \in batches : b.ticket \in Nat /\ b.ticket <= ticket'
        BY <1>1 DEF TestTypes, TicketsOnce, Batches
    <2>2. \A s \in singles : s.ticket \in Nat /\ s.ticket <= ticket'
        BY <1>1 DEF TestTypes, TicketsOnce, Singles
    <2> QED BY <1>1, <2>1, <2>2 DEF TicketsOnce
<1>7. (T!CountsAreTrue)'
    BY SameSize, <1>1, <1>4, TestingNext DEF T!CountsAreTrue
<1>8. GroupIsMeasured' /\ (T!BusyEnds)' /\ LastTested
    BY <1>1, <1>3 DEF GroupIsMeasured, T!BusyEnds, LastTested
<1> QED BY <1>5, <1>6, <1>7, <1>8

LEMMA KernelKeeps ==
    ASSUME TestsInv, T!Change \/ T!Window PROVE TestsInv' /\ LastTested
<1> USE DEF TestsInv
<1>1. /\ UNCHANGED <<native, context, ticket, busy, nodesPending, singlePending, probes, batches, singles, epoch>>
      /\ T!Testing' = T!Testing
    BY DEF T!Change, T!Window, T!Testing
<1>2. TicketsOnce' /\ LastTested
    BY <1>1 DEF TicketsOnce, LastTested
<1>3. (T!CountsAreTrue)'
    BY SameSize, <1>1 DEF T!CountsAreTrue
<1>4. CASE T!Window
    <2>1. UNCHANGED <<view, views, missed>> /\ mounted' = ~mounted
        BY <1>4 DEF T!Window
    <2>2. TestTypes'
        BY <1>1, <2>1 DEF TestTypes
    <2>3. GroupIsMeasured' /\ (T!BusyEnds)'
        BY <1>1, <2>1 DEF GroupIsMeasured, T!BusyEnds, T!Valid
    <2> QED BY <1>2, <1>3, <2>2, <2>3
<1>5. CASE T!Change
    <2>1. /\ views < MaxViews /\ views' = views + 1 /\ (mounted => context = view)
          /\ missed' = (missed \/ ~mounted) /\ mounted' = mounted
          /\ view' \in {[on |-> ~view.on, plan |-> view.plan], [on |-> view.on, plan |-> view.plan + 1]}
        BY <1>5 DEF T!Change
    <2>2. view' \in Views /\ view' # view
        <3>1. view \in Views /\ view.on \in BOOLEAN /\ view.plan \in Nat
            BY DEF TestTypes, Views
        <3>2. CASE view' = [on |-> ~view.on, plan |-> view.plan]
            BY <3>1, <3>2 DEF Views
        <3>3. CASE view' = [on |-> view.on, plan |-> view.plan + 1]
            BY <3>1, <3>3 DEF Views
        <3> QED BY <2>1, <3>2, <3>3
    <2>3. TestTypes'
        BY <1>1, <2>1, <2>2, TestBounds DEF TestTypes
    <2>4. missed' \/ context' # view'
        BY <1>1, <2>1, <2>2 DEF TestTypes
    <2>5. GroupIsMeasured'
        BY <1>1, <2>4 DEF GroupIsMeasured
    <2>6. (T!BusyEnds)'
        BY <2>4 DEF T!BusyEnds
    <2> QED BY <1>2, <1>3, <2>3, <2>5, <2>6
<1> QED BY <1>4, <1>5

LEMMA TestsStep == TestsInv /\ [T!Next]_(T!vars) => TestsInv' /\ LastTested
<1> SUFFICES ASSUME TestsInv, [T!Next]_(T!vars) PROVE TestsInv' /\ LastTested
    OBVIOUS
<1>1. CASE UNCHANGED T!vars
    <2>1. T!Testing' = T!Testing
        BY <1>1 DEF T!vars, T!Testing
    <2>2. TestTypes' /\ TicketsOnce' /\ LastTested
        BY <1>1 DEF T!vars, TestsInv, TestTypes, TicketsOnce, LastTested
    <2>3. GroupIsMeasured' /\ (T!CountsAreTrue)' /\ (T!BusyEnds)'
        BY SameSize, <1>1, <2>1 DEF T!vars, TestsInv, GroupIsMeasured, T!CountsAreTrue, T!BusyEnds, T!Valid
    <2> QED BY <2>2, <2>3 DEF TestsInv
<1>2. CASE T!Observe \/ T!Change \/ T!Window
    BY <1>2, ObserveKeeps, KernelKeeps
<1>3. ASSUME NEW targets \in SUBSET Nodes, T!TestGroup(targets) PROVE TestsInv' /\ LastTested
    BY <1>3, GroupKeeps
<1>4. ASSUME NEW task \in batches, NEW ok \in BOOLEAN, T!Started(task, ok) PROVE TestsInv' /\ LastTested
    BY <1>4, StartedKeeps
<1>5. ASSUME NEW task \in batches,
             \/ \E measured \in SUBSET task.targets : T!Poll(task, measured)
             \/ T!Measured(task) \/ T!Abandon(task) \/ T!Finish(task)
      PROVE  TestsInv' /\ LastTested
    BY <1>5, PollKeeps
<1>6. ASSUME NEW task \in batches, T!Wait(task) PROVE TestsInv' /\ LastTested
    BY <1>6, WaitKeeps
<1>7. ASSUME NEW n \in Nodes, T!TestNode(n) PROVE TestsInv' /\ LastTested
    BY <1>7, NodeKeeps
<1>8. ASSUME NEW task \in singles, T!Completed(task) PROVE TestsInv' /\ LastTested
    BY <1>8, SingleKeeps
<1> QED BY <1>1, <1>2, <1>3, <1>4, <1>5, <1>6, <1>7, <1>8 DEF T!Next

LEMMA TestsMove == [Next]_vars => [W!Next]_(W!vars) /\ [T!Next]_(T!vars)
BY DEF Next, vars, websites, nodes, W!vars, T!vars

LEMMA TestedHold == Spec => [](SitesInv /\ TestsInv)
<1>1. Init => SitesInv /\ TestsInv
    BY SitesInit, TestsInit DEF Init
<1>2. SitesInv /\ TestsInv /\ [Next]_vars => (SitesInv /\ TestsInv)'
    BY SitesStep, TestsStep, TestsMove
<1> QED BY <1>1, <1>2, PTL DEF Spec

LEMMA CardsAreTrue ==
    ASSUME SitesInv PROVE W!TypeOK /\ W!PhasesAreTrue /\ W!SlotsAreUsed
<1>1. launched \in Nat /\ launched <= MaxProbes /\ MaxProbes \in Nat
    BY SiteBounds DEF SitesInv
<1>2. /\ siteQueue \in Seq(Sites) /\ OnceIn(siteQueue) /\ siteProbes \subseteq SiteProbes
      /\ \A id \in Sites : sites[id] \in SiteRows /\ siteRuns[id] \in Nat /\ siteRuns[id] <= launched
      /\ \A p \in siteProbes : p.generation <= launched
      /\ Cardinality(Used(siteRuns)) <= Limit
      /\ siteQueue # <<>> => Cardinality(Used(siteRuns)) = Limit
    BY DEF SitesInv, Agree
<1>3. W!TypeOK
    BY <1>1, <1>2 DEF W!TypeOK, SiteRows, SiteProbes
<1>4. W!PhasesAreTrue
    <2>1. DOMAIN siteQueue = 1 .. Len(siteQueue)
        BY <1>2, LenProperties
    <2>2. W!IsInjective(siteQueue) /\ W!ToSet(siteQueue) = Elements(siteQueue)
        BY <1>2, <2>1 DEF OnceIn, W!IsInjective, W!ToSet, Elements
    <2>3. \A id \in Sites :
              /\ sites[id].phase = "Queued" <=> id \in Elements(siteQueue)
              /\ sites[id].phase = "Running" <=> siteRuns[id] # 0
              /\ siteRuns[id] # 0 =>
                    [id |-> id, generation |-> siteRuns[id], url |-> sites[id].url] \in siteProbes
        BY DEF SitesInv, Agree
    <2>4. ASSUME NEW id \in Sites
          PROVE  /\ (sites[id].phase = "Queued") = (id \in W!ToSet(siteQueue))
                 /\ (sites[id].phase = "Running") = (siteRuns[id] # 0)
        <3>1. (sites[id].phase = "Queued") <=> (id \in W!ToSet(siteQueue))
            BY <2>2, <2>3
        <3>2. (sites[id].phase = "Running") <=> (siteRuns[id] # 0)
            BY <2>3
        <3> QED BY <3>1, <3>2
    <2> QED BY <2>2, <2>3, <2>4 DEF W!PhasesAreTrue
<1>5. W!SlotsAreUsed
    <2>1. \A S : W!Cardinality(S) = Cardinality(S)
        BY DEF W!Cardinality, Cardinality
    <2> QED BY <1>2, <2>1, Zenon DEF W!SlotsAreUsed, Used
<1> QED BY <1>3, <1>4, <1>5

LEMMA CountersAreTyped ==
    ASSUME TestsInv PROVE T!TypeOK
<1>1. TestTypes
    BY DEF TestsInv
<1>2. /\ ticket \in 0 .. (MaxTests + MaxViews + 1) /\ busy \in 0 .. (MaxTests + MaxViews + 1)
      /\ epoch \in 0 .. MaxViews
    BY <1>1, TestBounds DEF TestTypes
<1>3. view.plan \in Nat /\ view.on \in BOOLEAN /\ native \in BOOLEAN /\ mounted \in BOOLEAN
    BY <1>1 DEF TestTypes, Views
<1>4. \A n \in Nodes : probes[n].gen >= -1 /\ probes[n].result >= 0
    BY <1>1 DEF TestTypes, NodeProbes
<1> QED BY <1>2, <1>3, <1>4 DEF T!TypeOK

\* The tests of websites and of nodes (website_test_model.h, proxy_test_model.h): cards and
\* counters tell what is under way, no slot is idle while a site waits, a group test in
\* progress has somebody who ends it, and no result shows that is of an earlier test.
THEOREM TestsHold == Spec => TestsAreCurrent
<1>1. SitesInv /\ TestsInv =>
          W!TypeOK /\ W!PhasesAreTrue /\ W!SlotsAreUsed /\ T!TypeOK /\ T!CountsAreTrue /\ T!BusyEnds
    BY CardsAreTrue, CountersAreTyped DEF TestsInv
<1>2. SitesInv /\ TestsInv /\ [Next]_vars =>
          /\ [\A id \in Sites : sites'[id].of # sites[id].of /\ sites'[id].of # 0 =>
                  /\ sites[id].phase = "Running" /\ sites'[id].of = siteRuns[id]
                  /\ sites'[id].url = sites[id].url]_(W!vars)
          /\ [\A n \in Nodes : probes'[n].result # probes[n].result /\ probes'[n].result # 0 =>
                  probes[n].testing /\ probes'[n].result = probes[n].gen]_(T!vars)
    BY SitesStep, TestsStep, TestsMove, Zenon DEF NewestShown, LastTested
<1>3. Spec => /\ []W!TypeOK /\ []W!PhasesAreTrue /\ []W!SlotsAreUsed
              /\ []T!TypeOK /\ []T!CountsAreTrue /\ []T!BusyEnds
    BY <1>1, TestedHold, PTL
<1>4. Spec => W!ResultIsOfLastTest
    BY <1>2, TestedHold, PTL DEF Spec, W!ResultIsOfLastTest
<1>5. Spec => T!ResultIsOfLastTest
    BY <1>2, TestedHold, PTL DEF Spec, T!ResultIsOfLastTest
<1> QED BY <1>3, <1>4, <1>5, PTL DEF TestsAreCurrent
==============================================================================

---------------------------- MODULE FeedsProofs ----------------------------
(***************************************************************************)
(* What is proved of the feeds of the running kernel: a page shows the end  *)
(* of what was logged in order, and the file ends with it; the health record   *)
(* tells the truth; a connection is attributed to the rule it matched; the *)
(* streams are of the kernel that runs and repaired rarely.                *)
(* Only the part that is the subject moves, so that what holds of its      *)
(* states holds of all.                                                    *)
(***************************************************************************)
EXTENDS MCFeeds, TLAPS, SequenceTheorems, FiniteSetTheorems

----------------------------------------------------------------------------
(* Sequences of lines *)

LEMMA LogBounds ==
    /\ MaxLines \in Nat /\ MaxLog \in Nat /\ MaxShown \in Nat /\ Compact \in Nat /\ MaxMounts \in Nat
    /\ Times \subseteq Nat
BY BoundsAreNumbers

Ordered(s) == \A i, j \in 1 .. Len(s) : i < j => s[i] < s[j]

\* One sequence is the end of another.
TailOf(s, t) == Len(s) <= Len(t) /\ \A i \in 1 .. Len(s) : s[i] = t[Len(t) - Len(s) + i]

Within(s, low, high) == \A i \in 1 .. Len(s) : low < s[i] /\ s[i] <= high

LEMMA EmptyTail ==
    /\ <<>> \in Seq(Int) /\ Len(<<>>) = 0 /\ Ordered(<<>>) /\ TailOf(<<>>, <<>>)
    /\ \A low, high \in Int : Within(<<>>, low, high)
BY EmptySeq DEF Ordered, TailOf, Within

LEMMA SelfTail == ASSUME NEW s \in Seq(Int) PROVE TailOf(s, s)
BY LenProperties DEF TailOf

LEMMA TailTail ==
    ASSUME NEW s \in Seq(Int), NEW t \in Seq(Int), NEW u \in Seq(Int), TailOf(s, t), TailOf(t, u)
    PROVE  TailOf(s, u)
<1>1. Len(s) \in Nat /\ Len(t) \in Nat /\ Len(u) \in Nat /\ Len(s) <= Len(t) /\ Len(t) <= Len(u)
    BY LenProperties DEF TailOf
<1>2. ASSUME NEW i \in 1 .. Len(s) PROVE s[i] = u[Len(u) - Len(s) + i]
    <2>1. Len(t) - Len(s) + i \in 1 .. Len(t)
        BY <1>1
    <2>2. s[i] = t[Len(t) - Len(s) + i]
        BY DEF TailOf
    <2>3. t[Len(t) - Len(s) + i] = u[Len(u) - Len(t) + (Len(t) - Len(s) + i)]
        BY <2>1 DEF TailOf
    <2>4. Len(u) - Len(t) + (Len(t) - Len(s) + i) = Len(u) - Len(s) + i
        BY <1>1
    <2> QED BY <2>2, <2>3, <2>4
<1> QED BY <1>1, <1>2 DEF TailOf

LEMMA NewestTail ==
    ASSUME NEW s \in Seq(Int), NEW n \in Nat
    PROVE  /\ N!Newest(s, n) \in Seq(Int) /\ TailOf(N!Newest(s, n), s)
           /\ Len(N!Newest(s, n)) = IF Len(s) > n THEN n ELSE Len(s)
<1>1. Len(s) \in Nat
    BY LenProperties
<1>2. CASE Len(s) > n
    <2>1. N!Newest(s, n) = SubSeq(s, Len(s) - n + 1, Len(s)) /\ Len(s) - n + 1 \in 1 .. Len(s) + 1
        BY <1>1, <1>2 DEF N!Newest
    <2>2. /\ SubSeq(s, Len(s) - n + 1, Len(s)) \in Seq(Int)
          /\ Len(SubSeq(s, Len(s) - n + 1, Len(s))) = n
          /\ \A i \in 1 .. n : SubSeq(s, Len(s) - n + 1, Len(s))[i] = s[Len(s) - n + i]
        BY <1>1, <1>2, <2>1, SubSeqProperties
    <2> QED BY SMTT(30), <1>1, <1>2, <2>1, <2>2 DEF TailOf
<1>3. CASE ~(Len(s) > n)
    BY <1>1, <1>3, SelfTail DEF N!Newest
<1> QED BY <1>2, <1>3

LEMMA TailKeeps ==
    ASSUME NEW s \in Seq(Int), NEW t \in Seq(Int), TailOf(s, t), NEW low \in Int, NEW high \in Int
    PROVE  /\ Ordered(t) => Ordered(s)
           /\ Within(t, low, high) => Within(s, low, high)
<1>1. Len(s) \in Nat /\ Len(t) \in Nat /\ Len(s) <= Len(t)
    BY LenProperties DEF TailOf
<1>2. \A i \in 1 .. Len(s) : Len(t) - Len(s) + i \in 1 .. Len(t) /\ s[i] = t[Len(t) - Len(s) + i]
    BY <1>1 DEF TailOf
<1>3. ASSUME Ordered(t), NEW i \in 1 .. Len(s), NEW j \in 1 .. Len(s), i < j PROVE s[i] < s[j]
    <2>1. Len(t) - Len(s) + i < Len(t) - Len(s) + j
        BY <1>1, <1>3
    <2> QED BY <1>2, <1>3, <2>1 DEF Ordered
<1> QED BY <1>2, <1>3 DEF Ordered, Within

LEMMA TailAppend ==
    ASSUME NEW s \in Seq(Int), NEW t \in Seq(Int), NEW x \in Int, TailOf(s, t)
    PROVE  TailOf(Append(s, x), Append(t, x))
<1>1. Len(s) \in Nat /\ Len(t) \in Nat /\ Len(s) <= Len(t)
    BY LenProperties DEF TailOf
<1>2. Len(Append(s, x)) = Len(s) + 1 /\ Len(Append(t, x)) = Len(t) + 1
    BY AppendProperties
<1>3. ASSUME NEW i \in 1 .. Len(s) + 1 PROVE Append(s, x)[i] = Append(t, x)[(Len(t) + 1) - (Len(s) + 1) + i]
    <2>1. CASE i = Len(s) + 1
        <3>1. (Len(t) + 1) - (Len(s) + 1) + i = Len(t) + 1
            BY <1>1, <2>1
        <3> QED BY <2>1, <3>1, AppendProperties
    <2>2. CASE i # Len(s) + 1
        <3>1. i \in 1 .. Len(s) /\ (Len(t) + 1) - (Len(s) + 1) + i = Len(t) - Len(s) + i
              /\ Len(t) - Len(s) + i \in 1 .. Len(t)
            BY <1>1, <2>2
        <3>2. Append(s, x)[i] = s[i] /\ Append(t, x)[Len(t) - Len(s) + i] = t[Len(t) - Len(s) + i]
            BY <3>1, AppendProperties
        <3> QED BY <3>1, <3>2 DEF TailOf
    <2> QED BY <2>1, <2>2
<1>4. Len(Append(s, x)) <= Len(Append(t, x))
    BY <1>1, <1>2
<1>5. \A i \in 1 .. Len(Append(s, x)) :
          Append(s, x)[i] = Append(t, x)[Len(Append(t, x)) - Len(Append(s, x)) + i]
    BY <1>2, <1>3, Zenon
<1> QED BY <1>4, <1>5 DEF TailOf

LEMMA AppendKeeps ==
    ASSUME NEW s \in Seq(Int), NEW x \in Int, NEW low \in Int, NEW high \in Int, Ordered(s), Within(s, low, high),
           high < x, low < x
    PROVE  Append(s, x) \in Seq(Int) /\ Ordered(Append(s, x)) /\ Within(Append(s, x), low, x)
<1>1. /\ Append(s, x) \in Seq(Int) /\ Len(Append(s, x)) = Len(s) + 1 /\ Len(s) \in Nat
      /\ Append(s, x)[Len(s) + 1] = x
      /\ \A i \in 1 .. Len(s) : Append(s, x)[i] = s[i]
    BY AppendProperties, LenProperties
<1>2. \A i \in 1 .. Len(s) : s[i] \in Int
    BY ElementOfSeq
<1>3. ASSUME NEW i \in 1 .. Len(s) + 1 PROVE low < Append(s, x)[i] /\ Append(s, x)[i] <= x
    <2>1. CASE i = Len(s) + 1
        BY <1>1, <2>1
    <2>2. CASE i \in 1 .. Len(s)
        BY <1>1, <1>2, <2>2 DEF Within
    <2> QED BY <1>1, <2>1, <2>2
<1>4. ASSUME NEW i \in 1 .. Len(s) + 1, NEW j \in 1 .. Len(s) + 1, i < j PROVE Append(s, x)[i] < Append(s, x)[j]
    <2>1. i \in 1 .. Len(s)
        BY <1>1, <1>4
    <2>2. CASE j = Len(s) + 1
        BY <1>1, <1>2, <2>1, <2>2 DEF Within
    <2>3. CASE j \in 1 .. Len(s)
        BY <1>1, <1>4, <2>1, <2>3 DEF Ordered
    <2> QED BY <1>1, <2>2, <2>3
<1> QED BY <1>1, <1>3, <1>4 DEF Ordered, Within

\* Every line of the one is older than every line of the other.
Before(s, t) == \A i \in 1 .. Len(s), j \in 1 .. Len(t) : s[i] < t[j]

LEMMA Squeeze ==
    ASSUME NEW s \in Seq(Int), NEW t \in Seq(Int), NEW u \in Seq(Int),
           TailOf(s, u), TailOf(t, u), Len(s) <= Len(t)
    PROVE  TailOf(s, t)
<1>1. Len(s) \in Nat /\ Len(t) \in Nat /\ Len(u) \in Nat /\ Len(t) <= Len(u)
    BY LenProperties DEF TailOf
<1>2. ASSUME NEW i \in 1 .. Len(s) PROVE s[i] = t[Len(t) - Len(s) + i]
    <2>1. Len(t) - Len(s) + i \in 1 .. Len(t)
        BY <1>1
    <2>2. s[i] = u[Len(u) - Len(s) + i]
        BY DEF TailOf
    <2>3. t[Len(t) - Len(s) + i] = u[Len(u) - Len(t) + (Len(t) - Len(s) + i)]
        BY <2>1 DEF TailOf
    <2>4. Len(u) - Len(t) + (Len(t) - Len(s) + i) = Len(u) - Len(s) + i
        BY <1>1
    <2> QED BY <2>2, <2>3, <2>4
<1> QED BY <1>2 DEF TailOf

LEMMA QueueKeeps ==
    ASSUME NEW s \in Seq(Int), NEW q \in Seq(Int), NEW x \in Int, NEW low \in Int, NEW high \in Int,
           Before(s, q), Within(s, low, high), high < x
    PROVE  /\ Before(s, Append(q, x)) /\ Before(s, <<>>)
           /\ \A r \in Seq(Int) : TailOf(r, Append(q, x)) => Before(s, r)
<1>1. /\ Append(q, x) \in Seq(Int) /\ Len(Append(q, x)) = Len(q) + 1 /\ Len(q) \in Nat
      /\ Append(q, x)[Len(q) + 1] = x
      /\ \A i \in 1 .. Len(q) : Append(q, x)[i] = q[i]
    BY AppendProperties, LenProperties
<1>2. \A i \in 1 .. Len(s) : s[i] \in Int /\ s[i] <= high
    BY ElementOfSeq DEF Within
<1>3. ASSUME NEW i \in 1 .. Len(s), NEW j \in 1 .. Len(q) + 1 PROVE s[i] < Append(q, x)[j]
    <2>1. CASE j = Len(q) + 1
        BY <1>1, <1>2, <2>1
    <2>2. CASE j \in 1 .. Len(q)
        BY <1>1, <2>2 DEF Before
    <2> QED BY <1>1, <2>1, <2>2
<1>4. Before(s, Append(q, x))
    BY <1>1, <1>3 DEF Before
<1>5. ASSUME NEW r \in Seq(Int), TailOf(r, Append(q, x)) PROVE Before(s, r)
    <2>1. Len(r) \in Nat /\ Len(r) <= Len(Append(q, x))
        BY <1>5, LenProperties DEF TailOf
    <2>2. ASSUME NEW i \in 1 .. Len(s), NEW j \in 1 .. Len(r) PROVE s[i] < r[j]
        <3>1. Len(Append(q, x)) - Len(r) + j \in 1 .. Len(Append(q, x))
            BY <1>1, <2>1
        <3>2. r[j] = Append(q, x)[Len(Append(q, x)) - Len(r) + j]
            BY <1>5 DEF TailOf
        <3> QED BY <1>4, <3>1, <3>2 DEF Before
    <2> QED BY <2>2 DEF Before
<1>6. Before(s, <<>>)
    BY EmptyTail DEF Before
<1> QED BY <1>4, <1>5, <1>6

LEMMA TailIsSuffix ==
    ASSUME NEW s \in Seq(Int), NEW t \in Seq(Int), TailOf(s, t)
    PROVE  N!IsSuffix(s, t)
<1> DEFINE a == N!Reverse(s)
           b == N!Reverse(t)
<1>1. Len(s) \in Nat /\ Len(t) \in Nat /\ Len(s) <= Len(t)
    BY LenProperties DEF TailOf
<1>2. a \in Seq(Int) /\ Len(a) = Len(s) /\ \A i \in 1 .. Len(s) : a[i] = s[Len(s) - i + 1]
    <2>1. \A i \in 1 .. Len(s) : s[Len(s) - i + 1] \in Int
        BY <1>1, ElementOfSeq
    <2> QED BY <1>1, <2>1 DEF N!Reverse
<1>3. b \in Seq(Int) /\ Len(b) = Len(t) /\ \A i \in 1 .. Len(t) : b[i] = t[Len(t) - i + 1]
    <2>1. \A i \in 1 .. Len(t) : t[Len(t) - i + 1] \in Int
        BY <1>1, ElementOfSeq
    <2> QED BY <1>1, <2>1 DEF N!Reverse
<1> HIDE DEF a, b
<1>4. ASSUME NEW i \in 1 .. Len(s) PROVE a[i] = b[i]
    <2>1. Len(s) - i + 1 \in 1 .. Len(s) /\ i \in 1 .. Len(t)
          /\ Len(t) - Len(s) + (Len(s) - i + 1) = Len(t) - i + 1
        BY <1>1
    <2>2. s[Len(s) - i + 1] = t[Len(t) - i + 1]
        BY <2>1 DEF TailOf
    <2> QED BY <1>2, <1>3, <2>1, <2>2
<1>5. /\ SubSeq(a, 1, Len(a)) \in Seq(Int) /\ SubSeq(b, 1, Len(a)) \in Seq(Int)
      /\ Len(SubSeq(a, 1, Len(a))) = Len(SubSeq(b, 1, Len(a)))
      /\ \A i \in 1 .. Len(SubSeq(a, 1, Len(a))) : SubSeq(a, 1, Len(a))[i] = SubSeq(b, 1, Len(a))[i]
    <2>1. \A i \in 1 .. Len(a) : a[i] \in Int /\ b[i] \in Int
        BY <1>1, <1>2, <1>3, ElementOfSeq
    <2>2. /\ SubSeq(a, 1, Len(a)) \in Seq(Int)
          /\ Len(SubSeq(a, 1, Len(a))) = IF 1 <= Len(a) THEN Len(a) - 1 + 1 ELSE 0
          /\ \A i \in 1 .. Len(a) - 1 + 1 : SubSeq(a, 1, Len(a))[i] = a[1 + i - 1]
        BY <1>1, <1>2, <2>1, SubSeqProperties
    <2>3. /\ SubSeq(b, 1, Len(a)) \in Seq(Int)
          /\ Len(SubSeq(b, 1, Len(a))) = IF 1 <= Len(a) THEN Len(a) - 1 + 1 ELSE 0
          /\ \A i \in 1 .. Len(a) - 1 + 1 : SubSeq(b, 1, Len(a))[i] = b[1 + i - 1]
        BY <1>1, <1>2, <2>1, SubSeqProperties
    <2>4. \A i \in 1 .. Len(a) : SubSeq(a, 1, Len(a))[i] = a[i] /\ SubSeq(b, 1, Len(a))[i] = b[i]
        BY <1>1, <1>2, <2>2, <2>3
    <2>5. Len(SubSeq(a, 1, Len(a))) = Len(a)
        BY <1>1, <1>2, <2>2
    <2> QED BY <1>2, <1>4, <2>2, <2>3, <2>4, <2>5
<1>6. SubSeq(a, 1, Len(a)) = SubSeq(b, 1, Len(a))
    BY <1>5, SeqEqual
<1>7. N!IsPrefix(a, b)
    BY <1>1, <1>2, <1>3, <1>6 DEF N!IsPrefix
<1> QED BY <1>7 DEF N!IsSuffix, a, b

LEMMA LinesAre ==
    ASSUME NEW s \in Seq(Int)
    PROVE  N!ToSet(s) = {s[i] : i \in 1 .. Len(s)}
BY LenProperties DEF N!ToSet

----------------------------------------------------------------------------
(* The list of the page *)

Stamped == stamp \in Seq(Nat) /\ Len(stamp) = line /\ line \in Nat

Sorted(s) == \A i, j \in 1 .. Len(s) : i < j => N!Earlier(s[i], s[j])

\* A list that is full of lines later than this one.
FullOf(s, n) == Len(s) = MaxShown /\ \A i \in 1 .. Len(s) : N!Earlier(n, s[i])

Holds(s, n) == \E i \in 1 .. Len(s) : s[i] = n

LEMMA EarlierIs ==
    ASSUME Stamped
    PROVE  /\ \A n \in 1 .. line : stamp[n] \in Nat /\ ~N!Earlier(n, n)
           /\ \A m, n, o \in 1 .. line : N!Earlier(m, n) /\ N!Earlier(n, o) => N!Earlier(m, o)
<1>1. \A n \in 1 .. line : stamp[n] \in Nat
    BY ElementOfSeq DEF Stamped
<1> QED BY <1>1 DEF N!Earlier, Stamped

\* A line put behind those of its time and earlier leaves the list in order.
LEMMA InsertedIs ==
    ASSUME Stamped, NEW s \in Seq(Int), NEW b \in 1 .. line, NEW k \in 0 .. Len(s),
           \A i \in 1 .. Len(s) : s[i] \in 1 .. line /\ s[i] < b, Sorted(s),
           \A i \in 1 .. k : stamp[s[i]] <= stamp[b],
           \A i \in (k + 1) .. Len(s) : stamp[b] < stamp[s[i]],
           NEW z, z = N!Inserted(s, k, b)
    PROVE  /\ z \in Seq(Int) /\ Len(z) = Len(s) + 1 /\ Sorted(z)
           /\ \A i \in 1 .. Len(z) : z[i] = b \/ Holds(s, z[i])
           /\ Holds(z, b) /\ \A i \in 1 .. Len(s) : Holds(z, s[i])
<1>1. Len(s) \in Nat
    BY LenProperties
<1>2. \A i \in 1 .. Len(s) + 1 : z[i] = IF i <= k THEN s[i] ELSE IF i = k + 1 THEN b ELSE s[i - 1]
    BY <1>1 DEF N!Inserted
<1>3. \A i \in 1 .. Len(s) + 1 :
          \/ i <= k /\ i \in 1 .. Len(s) /\ z[i] = s[i]
          \/ i = k + 1 /\ z[i] = b
          \/ i > k + 1 /\ i - 1 \in 1 .. Len(s) /\ i - 1 \in (k + 1) .. Len(s) /\ z[i] = s[i - 1]
    BY <1>1, <1>2
<1>4. \A i \in 1 .. Len(s) + 1 : z[i] \in Int
    BY <1>3, ElementOfSeq
<1>5. z \in [1 .. Len(s) + 1 -> Int]
    BY <1>1, <1>4 DEF N!Inserted
<1>6. z \in Seq(Int) /\ Len(z) = Len(s) + 1
    BY <1>1, <1>5, LenProperties, SeqDef
<1>7. \A i \in 1 .. Len(z) : z[i] = b \/ Holds(s, z[i])
    BY <1>3, <1>6 DEF Holds
<1>8. Holds(z, b)
    <2>1. k + 1 \in 1 .. Len(s) + 1 /\ z[k + 1] = b
        BY <1>1, <1>2
    <2> QED BY <1>6, <2>1 DEF Holds
<1>9. ASSUME NEW i \in 1 .. Len(s) PROVE Holds(z, s[i])
    <2>1. CASE i <= k
        <3>1. i \in 1 .. Len(s) + 1 /\ z[i] = s[i]
            BY <1>1, <1>2, <2>1
        <3> QED BY <1>6, <3>1 DEF Holds
    <2>2. CASE ~(i <= k)
        <3>1. i + 1 \in 1 .. Len(s) + 1 /\ z[i + 1] = s[i]
            BY <1>1, <1>2, <2>2
        <3> QED BY <1>6, <3>1 DEF Holds
    <2> QED BY <2>1, <2>2
<1>10. ASSUME NEW i \in 1 .. Len(s) + 1, NEW j \in 1 .. Len(s) + 1, i < j PROVE N!Earlier(z[i], z[j])
    <2>1. CASE i <= k /\ j <= k
        <3>1. z[i] = s[i] /\ z[j] = s[j] /\ i \in 1 .. Len(s) /\ j \in 1 .. Len(s)
            BY <1>1, <1>3, <2>1
        <3> QED BY <1>10, <3>1 DEF Sorted
    <2>2. CASE i <= k /\ j = k + 1
        <3>1. z[i] = s[i] /\ z[j] = b /\ i \in 1 .. Len(s) /\ i \in 1 .. k
            BY <1>1, <1>3, <2>2
        <3>2. stamp[s[i]] <= stamp[b] /\ stamp[s[i]] \in Nat /\ stamp[b] \in Nat /\ s[i] < b
            BY <3>1, EarlierIs
        <3> QED BY <3>1, <3>2 DEF N!Earlier
    <2>3. CASE i <= k /\ j > k + 1
        <3>1. z[i] = s[i] /\ z[j] = s[j - 1] /\ i \in 1 .. Len(s) /\ j - 1 \in 1 .. Len(s) /\ i < j - 1
            BY <1>1, <1>3, <2>3
        <3> QED BY <3>1 DEF Sorted
    <2>4. CASE i = k + 1
        <3>1. z[i] = b /\ z[j] = s[j - 1] /\ j - 1 \in (k + 1) .. Len(s)
            BY <1>1, <1>3, <1>10, <2>4
        <3> QED BY <3>1 DEF N!Earlier
    <2>5. CASE i > k + 1
        <3>1. /\ z[i] = s[i - 1] /\ z[j] = s[j - 1] /\ i - 1 \in 1 .. Len(s) /\ j - 1 \in 1 .. Len(s)
              /\ i - 1 < j - 1
            BY <1>1, <1>3, <1>10, <2>5
        <3> QED BY <3>1 DEF Sorted
    <2> QED BY <1>1, <1>10, <2>1, <2>2, <2>3, <2>4, <2>5
<1>11. Sorted(z)
    BY <1>6, <1>10 DEF Sorted
<1> QED BY <1>6, <1>7, <1>8, <1>9, <1>11

\* What a list that is too long drops is earlier than all it keeps.
LEMMA KeptIs ==
    ASSUME Stamped, NEW s \in Seq(Int), NEW b \in 1 .. line, Len(s) <= MaxShown,
           \A i \in 1 .. Len(s) : s[i] \in 1 .. line,
           NEW z \in Seq(Int), Len(z) = Len(s) + 1, Sorted(z),
           \A i \in 1 .. Len(z) : z[i] = b \/ Holds(s, z[i]),
           Holds(z, b), \A i \in 1 .. Len(s) : Holds(z, s[i]),
           NEW t, t = IF Len(z) > MaxShown THEN Tail(z) ELSE z
    PROVE  /\ t \in Seq(Int) /\ Len(t) <= MaxShown /\ Sorted(t)
           /\ \A i \in 1 .. Len(t) : t[i] = b \/ Holds(s, t[i])
           /\ Holds(t, b) \/ FullOf(t, b)
           /\ \A n \in 1 .. line : Holds(s, n) \/ FullOf(s, n) => Holds(t, n) \/ FullOf(t, n)
<1>1. Len(s) \in Nat /\ Len(z) \in Nat /\ MaxShown \in Nat
    BY LenProperties, LogBounds
<1>2. CASE Len(z) > MaxShown
    <2>1. Len(s) = MaxShown /\ t = Tail(z) /\ z # <<>>
        BY <1>1, <1>2, EmptySeq
    <2>2. t \in Seq(Int) /\ Len(t) = MaxShown /\ \A i \in 1 .. Len(t) : t[i] = z[i + 1]
        BY <1>1, <2>1, HeadTailProperties
    <2>3. \A i \in 1 .. Len(t) : i + 1 \in 1 .. Len(z)
        BY <1>1, <2>1, <2>2
    <2>4. \A i \in 1 .. Len(t) : t[i] = b \/ Holds(s, t[i])
        BY <2>2, <2>3
    <2>5. Sorted(t)
        <3>1. ASSUME NEW i \in 1 .. Len(t), NEW j \in 1 .. Len(t), i < j PROVE N!Earlier(t[i], t[j])
            <4>1. i + 1 \in 1 .. Len(z) /\ j + 1 \in 1 .. Len(z) /\ i + 1 < j + 1
                BY <2>3, <3>1
            <4> QED BY <2>2, <4>1 DEF Sorted
        <3> QED BY <3>1 DEF Sorted
    <2>6. 1 \in 1 .. Len(z)
        BY <1>1
    <2>7. FullOf(t, z[1])
        <3>1. \A i \in 1 .. Len(t) : 1 < i + 1 /\ N!Earlier(z[1], z[i + 1])
            BY <2>3, <2>6 DEF Sorted
        <3> QED BY <2>2, <3>1 DEF FullOf
    <2>8. ASSUME NEW n, Holds(z, n) PROVE Holds(t, n) \/ FullOf(t, n)
        <3>1. PICK q \in 1 .. Len(z) : z[q] = n
            BY <2>8 DEF Holds
        <3>2. CASE q = 1
            BY <2>7, <3>1, <3>2
        <3>3. CASE q # 1
            <4>1. q - 1 \in 1 .. Len(t) /\ t[q - 1] = z[(q - 1) + 1] /\ (q - 1) + 1 = q
                BY <1>1, <2>1, <2>2, <3>3
            <4> QED BY <3>1, <4>1 DEF Holds
        <3> QED BY <3>2, <3>3
    <2>9. ASSUME NEW n \in 1 .. line, FullOf(s, n) PROVE FullOf(t, n)
        <3>1. ASSUME NEW x, Holds(s, x) PROVE N!Earlier(n, x) /\ x \in 1 .. line
            BY <2>9, <3>1 DEF FullOf, Holds
        <3>2. ASSUME NEW i \in 1 .. Len(t) PROVE N!Earlier(n, t[i])
            <4>1. CASE Holds(s, t[i])
                BY <3>1, <4>1
            <4>2. CASE ~Holds(s, t[i])
                <5>1. t[i] = b
                    BY <2>4, <4>2
                <5>2. N!Earlier(z[1], b)
                    BY <2>7, <5>1 DEF FullOf
                <5>3. z[1] # b
                    BY <5>2, EarlierIs
                <5>4. Holds(s, z[1])
                    BY <2>6, <5>3
                <5> QED BY <3>1, <5>1, <5>2, <5>4, EarlierIs
            <4> QED BY <4>1, <4>2
        <3> QED BY <2>2, <3>2 DEF FullOf
    <2>10. \A n : Holds(s, n) => Holds(z, n)
        BY DEF Holds
    <2> QED BY <1>1, <2>2, <2>4, <2>5, <2>8, <2>9, <2>10
<1>3. CASE ~(Len(z) > MaxShown)
    <2>1. t = z /\ Len(z) <= MaxShown
        BY <1>1, <1>3
    <2>2. \A n : ~FullOf(s, n)
        BY <1>1, <2>1 DEF FullOf
    <2>3. \A n : Holds(s, n) => Holds(z, n)
        BY DEF Holds
    <2> QED BY <2>1, <2>2, <2>3
<1> QED BY <1>2, <1>3

----------------------------------------------------------------------------
(* The log store and its notices *)

ControlTypes ==
    /\ flag \in BOOLEAN /\ observers \subseteq 1 .. MaxMounts /\ posts \subseteq 1 .. MaxMounts
    /\ mounts \in 0 .. MaxMounts
    /\ page \in [on : BOOLEAN, id : 0 .. MaxMounts,
                 pc : {"off", "mounting", "subscribed", "idle", "confirm", "clear"}]
    /\ page.pc # "off" => page.id \in 1 .. MaxMounts
    /\ writer \in [Writers -> [pc : {"idle", "notify", "copy", "deliver"}, to : SUBSET (1 .. MaxMounts)]]

\* The file holds lines in order and none that was cleared, and ends with the history, which
\* ends with the queue.
StoreInv ==
    /\ line \in 0 .. MaxLines /\ cleared \in 0 .. line /\ loaded \in BOOLEAN /\ appends \in 0 .. Compact
    /\ stamp \in Seq(Nat) /\ Len(stamp) = line
    /\ history \in Seq(Int) /\ file \in Seq(Int) /\ pending \in Seq(Int)
    /\ Len(history) <= MaxLog /\ TailOf(pending, history)
    /\ Ordered(file) /\ Within(file, cleared, line)
    /\ loaded => TailOf(history, file)
    /\ ~loaded => history = <<>>

\* A line of the store is in the list, on its way there, or earlier than all of a full list.
Accounted(n) == Holds(entries, n) \/ FullOf(entries, n) \/ Holds(batch, n) \/ Holds(pending, n)

\* What the page shows was logged before what it took, and this before what is queued.
PageInv ==
    /\ entries \in Seq(Int) /\ batch \in Seq(Int)
    /\ Within(entries, cleared, line) /\ Within(batch, cleared, line)
    /\ Ordered(batch) /\ Before(entries, batch) /\ Before(entries, pending) /\ Before(batch, pending)
    /\ Len(entries) <= MaxShown /\ Sorted(entries)
    /\ page.pc # "off" => loaded
    /\ batch # <<>> => page.pc \in {"mounting", "confirm"}
    /\ page.pc \in {"off", "clear"} => entries = <<>>
    /\ page.pc \in {"mounting", "subscribed", "idle", "confirm"} =>
           \A i \in 1 .. Len(history) : Accounted(history[i])

\* The writer is about to call the page, or to look up whom to call.
Carries(w, id) == writer[w].pc = "copy" \/ (writer[w].pc = "deliver" /\ id \in writer[w].to)

\* A set flag is a notice on its way to the page that observes.
FlagInv ==
    /\ page.pc # "off" => page.on
    /\ page.pc \in {"subscribed", "idle", "confirm", "clear"} => page.id \in observers
    /\ page.pc \in {"idle", "clear"} /\ flag =>
           page.id \in posts \/ \E w \in Writers : Carries(w, page.id)

LEMMA NoticesInit == ASSUME N!Init PROVE ControlTypes /\ StoreInv /\ PageInv /\ FlagInv
<1> USE LogBounds DEF N!Init
<1>1. ControlTypes
    <2>1. page = [on |-> FALSE, id |-> 0, pc |-> "off"] /\ page.pc = "off"
        BY DEF N!NoPage
    <2>2. page \in [on : BOOLEAN, id : 0 .. MaxMounts,
                    pc : {"off", "mounting", "subscribed", "idle", "confirm", "clear"}]
        BY <2>1
    <2>3. writer \in [Writers -> [pc : {"idle", "notify", "copy", "deliver"}, to : SUBSET (1 .. MaxMounts)]]
        BY DEF N!Idle
    <2>4. flag = FALSE /\ observers = {} /\ posts = {} /\ mounts = 0 /\ 0 \in 0 .. MaxMounts
        OBVIOUS
    <2> HIDE DEF N!Init
    <2> QED BY <2>1, <2>2, <2>3, <2>4 DEF ControlTypes
<1>2. Before(<<>>, <<>>)
    BY EmptyTail DEF Before
<1>3. StoreInv
    <2>1. line = 0 /\ cleared = 0 /\ 0 \in 0 .. MaxLines /\ 0 \in 0 .. 0 /\ 0 \in 0 .. Compact /\ 0 <= MaxLog
          /\ stamp \in Seq(Nat) /\ Len(stamp) = 0
        OBVIOUS
    <2>2. Within(file, cleared, line)
        BY EmptyTail
    <2> QED BY <2>1, <2>2, EmptyTail DEF StoreInv
<1>4. PageInv
    <2>1. /\ entries = <<>> /\ batch = <<>> /\ pending = <<>> /\ page.pc = "off" /\ cleared = 0 /\ line = 0
          /\ Within(<<>>, 0, 0) /\ Len(<<>>) <= MaxShown /\ Sorted(<<>>)
        BY EmptyTail DEF N!NoPage, Sorted
    <2> HIDE DEF N!Init
    <2> QED BY <1>2, <2>1, EmptyTail DEF PageInv
<1>5. FlagInv
    BY DEF FlagInv, N!NoPage
<1> QED BY <1>1, <1>3, <1>4, <1>5

LEMMA ControlStep == ASSUME ControlTypes, N!Next PROVE ControlTypes'
<1> USE LogBounds DEF ControlTypes
<1>0. ASSUME NEW w \in Writers, NEW t \in Times, N!Append1(w, t) PROVE ControlTypes'
    BY <1>0 DEF N!Append1
<1>1. ASSUME NEW w \in Writers, N!Reserve(w) \/ N!Copy(w) PROVE ControlTypes'
    <2>1. PICK v \in [pc : {"idle", "notify", "copy", "deliver"}, to : SUBSET (1 .. MaxMounts)] :
              writer' = [writer EXCEPT ![w] = v]
        BY <1>1 DEF N!Reserve, N!Copy, N!Idle
    <2>2. /\ flag' \in BOOLEAN /\ observers' = observers /\ posts' = posts /\ page' = page /\ mounts' = mounts
        BY <1>1 DEF N!Reserve, N!Copy
    <2> QED BY <2>1, <2>2
<1>2. ASSUME NEW w \in Writers, NEW f \in BOOLEAN, N!Deliver(w, f) PROVE ControlTypes'
    BY <1>2 DEF N!Deliver, N!Idle
<1>3. CASE N!Mount
    <2>1. page'.id = mounts + 1 /\ mounts + 1 \in 1 .. MaxMounts
        BY <1>3 DEF N!Mount
    <2> QED BY <1>3, <2>1 DEF N!Mount
<1>4. CASE N!Subscribe \/ N!Unlatch \/ N!Confirm \/ N!Clear \/ N!ClearStore
    <2>1. page.id \in 1 .. MaxMounts
        BY <1>4 DEF N!Subscribe, N!Unlatch, N!Confirm, N!Clear, N!ClearStore
    <2>2. PICK c \in {"mounting", "subscribed", "idle", "confirm", "clear"} : page' = [page EXCEPT !.pc = c]
        BY <1>4 DEF N!Subscribe, N!Unlatch, N!Confirm, N!Clear, N!ClearStore
    <2>3. /\ flag' \in BOOLEAN /\ observers' \subseteq observers \cup {page.id} /\ posts' = posts
          /\ mounts' = mounts /\ writer' = writer
        BY <1>4 DEF N!Subscribe, N!Unlatch, N!Confirm, N!Clear, N!ClearStore
    <2> QED BY <2>1, <2>2, <2>3
<1>5. CASE N!Unmount \/ N!Restart
    <2>1. page' = [on |-> FALSE, id |-> 0, pc |-> "off"]
        BY <1>5 DEF N!Unmount, N!Restart, N!NoPage
    <2>2. /\ page' \in [on : BOOLEAN, id : 0 .. MaxMounts,
                        pc : {"off", "mounting", "subscribed", "idle", "confirm", "clear"}]
          /\ page'.pc = "off"
        BY <2>1
    <2>3. writer' \in [Writers -> [pc : {"idle", "notify", "copy", "deliver"}, to : SUBSET (1 .. MaxMounts)]]
        BY <1>5 DEF N!Unmount, N!Restart, N!Idle
    <2>4. /\ flag' \in BOOLEAN /\ observers' \subseteq 1 .. MaxMounts /\ posts' \subseteq 1 .. MaxMounts
          /\ mounts' = mounts
        BY <1>5 DEF N!Unmount, N!Restart
    <2> QED BY <2>2, <2>3, <2>4
<1>6. ASSUME NEW t \in BOOLEAN, N!Handle(t) PROVE ControlTypes'
    BY <1>6 DEF N!Handle
<1>7. CASE N!Insert
    BY <1>7 DEF N!Insert
<1> QED BY <1>0, <1>1, <1>7, <1>2, <1>3, <1>4, <1>5, <1>6 DEF N!Next

LEMMA LoadedTail ==
    ASSUME StoreInv
    PROVE  /\ N!Loaded \in Seq(Int) /\ TailOf(N!Loaded, file) /\ Len(N!Loaded) <= MaxLog
           /\ Ordered(N!Loaded) /\ Within(N!Loaded, cleared, line)
<1> USE LogBounds DEF StoreInv
<1>1. N!Loaded \in Seq(Int) /\ TailOf(N!Loaded, file) /\ Len(N!Loaded) <= MaxLog
    <2>1. CASE loaded
        BY <2>1 DEF N!Loaded
    <2>2. CASE ~loaded
        <3>1. /\ N!Newest(file, MaxLog) \in Seq(Int) /\ TailOf(N!Newest(file, MaxLog), file)
              /\ Len(N!Newest(file, MaxLog)) = IF Len(file) > MaxLog THEN MaxLog ELSE Len(file)
            BY NewestTail
        <3>2. Len(N!Newest(file, MaxLog)) <= MaxLog
            BY <3>1, LenProperties
        <3> QED BY <2>2, <3>1, <3>2 DEF N!Loaded
    <2> QED BY <2>1, <2>2
<1>2. cleared \in Int /\ line \in Int
    OBVIOUS
<1> QED BY <1>1, <1>2, TailKeeps

\* What a thread that logs leaves: one more line, everywhere.
LEMMA Appended ==
    ASSUME StoreInv, NEW w \in Writers, NEW t \in Times, N!Append1(w, t)
    PROVE  /\ line' = line + 1 /\ stamp' = Append(stamp, t) /\ line' \in 0 .. MaxLines /\ loaded' = TRUE /\ cleared' = cleared
           /\ appends' \in 0 .. Compact
           /\ history' = N!Newest(Append(N!Loaded, line + 1), MaxLog)
           /\ pending' = N!Newest(Append(pending, line + 1), MaxLog)
           /\ file' = history' \/ file' = Append(file, line + 1)
<1> USE LogBounds DEF StoreInv, N!Append1
<1>1. appends' \in 0 .. Compact
    OBVIOUS
<1>2. line' = line + 1 /\ line' \in 0 .. MaxLines /\ stamp' = Append(stamp, t)
    OBVIOUS
<1> QED BY <1>1, <1>2

LEMMA NothingQueued ==
    ASSUME NEW h \in Seq(Int)
    PROVE  TailOf(<<>>, h)
BY EmptySeq, LenProperties DEF TailOf

LEMMA StoreStep == ASSUME StoreInv, N!Next PROVE StoreInv'
<1> USE LogBounds
<1>1. /\ cleared \in Int /\ line \in Int /\ line \in Nat /\ cleared < line + 1 /\ line < line + 1
      /\ line + 1 \in Int /\ history \in Seq(Int) /\ pending \in Seq(Int) /\ TailOf(pending, history)
    BY DEF StoreInv
<1>2. ASSUME NEW w \in Writers, NEW t \in Times, N!Append1(w, t) PROVE StoreInv'
    <2> DEFINE old == N!Loaded
               long == Append(file, line + 1)
               more == Append(old, line + 1)
               next == N!Newest(more, MaxLog)
               queue == Append(pending, line + 1)
               queued == N!Newest(queue, MaxLog)
    <2>1. /\ line' = line + 1 /\ line' \in 0 .. MaxLines /\ loaded' = TRUE /\ cleared' = cleared
          /\ appends' \in 0 .. Compact /\ history' = next /\ pending' = queued
          /\ file' = next \/ file' = long
          /\ stamp' = Append(stamp, t)
        BY <1>2, Appended
    <2>2. long \in Seq(Int) /\ Ordered(long) /\ Within(long, cleared, line + 1)
        BY <1>1, AppendKeeps DEF StoreInv
    <2>3. old \in Seq(Int) /\ TailOf(old, file)
        BY LoadedTail
    <2>4. TailOf(pending, old)
        <3>1. CASE loaded
            BY <1>1, <3>1 DEF N!Loaded
        <3>2. CASE ~loaded
            <4>1. pending = <<>>
                BY <1>1, <3>2, EmptySeq, LenProperties DEF StoreInv, TailOf
            <4> HIDE DEF old
            <4> QED BY <2>3, <4>1, NothingQueued
        <3> QED BY <3>1, <3>2
    <2> HIDE DEF old
    <2>5. more \in Seq(Int) /\ TailOf(more, long)
        BY <1>1, <2>3, TailAppend, AppendProperties DEF StoreInv
    <2>6. queue \in Seq(Int) /\ TailOf(queue, more)
        BY <1>1, <2>3, <2>4, TailAppend, AppendProperties
    <2> HIDE DEF long, more, queue
    <2>7. /\ next \in Seq(Int) /\ TailOf(next, more)
          /\ Len(next) = IF Len(more) > MaxLog THEN MaxLog ELSE Len(more)
        BY <2>5, NewestTail
    <2>8. /\ queued \in Seq(Int) /\ TailOf(queued, queue)
          /\ Len(queued) = IF Len(queue) > MaxLog THEN MaxLog ELSE Len(queue)
        BY <2>6, NewestTail
    <2> HIDE DEF next, queued
    <2>9. Len(more) \in Nat /\ Len(queue) \in Nat /\ Len(queue) <= Len(more)
        BY <2>5, <2>6, LenProperties DEF TailOf
    <2>10. Len(next) <= MaxLog /\ Len(queued) <= Len(next)
        BY <2>7, <2>8, <2>9
    <2>11. TailOf(queued, next)
        <3>1. TailOf(queued, more)
            BY <2>5, <2>6, <2>8, TailTail
        <3> QED BY <2>5, <2>7, <2>8, <2>10, <3>1, Squeeze
    <2>12. TailOf(next, long)
        BY <2>2, <2>5, <2>7, TailTail
    <2>13. Ordered(next) /\ Within(next, cleared, line + 1)
        BY <1>1, <2>2, <2>7, <2>12, TailKeeps
    <2>14. TailOf(next, next)
        BY <2>7, SelfTail
    <2>15. file' \in Seq(Int) /\ Ordered(file') /\ Within(file', cleared, line + 1) /\ TailOf(next, file')
        BY <2>1, <2>2, <2>7, <2>12, <2>13, <2>14
    <2>16. cleared' \in 0 .. line'
        BY <1>1, <2>1 DEF StoreInv
    <2>17. stamp' \in Seq(Nat) /\ Len(stamp') = line'
        <3>1. t \in Nat
            BY LogBounds
        <3> QED BY <1>1, <2>1, <3>1, AppendProperties DEF StoreInv
    <2> QED BY <2>1, <2>7, <2>8, <2>10, <2>11, <2>15, <2>16, <2>17 DEF StoreInv
<1>3. ASSUME UNCHANGED <<line, stamp, cleared, appends, file>>, history' = N!Loaded, loaded' = TRUE,
             pending' = <<>>
      PROVE  StoreInv'
    BY <1>3, LoadedTail, NothingQueued, EmptySeq DEF StoreInv
<1>4. ASSUME UNCHANGED <<line, stamp, cleared, appends, file, history, loaded, pending>> PROVE StoreInv'
    BY <1>4 DEF StoreInv
<1>5. ASSUME NEW w \in Writers, NEW f \in BOOLEAN, N!Reserve(w) \/ N!Copy(w) \/ N!Deliver(w, f) PROVE StoreInv'
    BY <1>4, <1>5 DEF N!Reserve, N!Copy, N!Deliver, N!store, N!lines
<1>6. CASE N!Mount
    BY <1>3, <1>6 DEF N!Mount, N!lines
<1>7. CASE N!Insert \/ N!Subscribe \/ N!Unlatch \/ N!Confirm \/ N!Clear \/ N!Unmount
    BY <1>4, <1>7 DEF N!Insert, N!Subscribe, N!Unlatch, N!Confirm, N!Clear, N!Unmount, N!store, N!lines
<1>8. CASE N!ClearStore
    <2>1. /\ line' = line /\ stamp' = stamp /\ cleared' = line /\ appends' = appends /\ history' = <<>>
          /\ pending' = <<>> /\ file' = <<>> /\ loaded' = TRUE
        BY <1>8 DEF N!ClearStore, N!lines
    <2>2. line \in 0 .. line
        BY <1>1
    <2>3. Within(<<>>, line, line)
        BY <1>1, EmptyTail
    <2>4. 0 <= MaxLog
        OBVIOUS
    <2> QED BY <2>1, <2>2, <2>3, <2>4, EmptyTail DEF StoreInv
<1>9. CASE N!Restart
    <2>1. 0 \in 0 .. Compact /\ 0 <= MaxLog
        OBVIOUS
    <2> QED BY <1>9, <2>1, EmptyTail DEF StoreInv, N!Restart, N!lines
<1>10. ASSUME NEW t \in BOOLEAN, N!Handle(t) PROVE StoreInv'
    BY <1>3, <1>4, <1>10 DEF N!Handle, N!lines
<1> QED BY <1>2, <1>5, <1>6, <1>7, <1>8, <1>9, <1>10 DEF N!Next

\* The lines of the queue are in order, of the time after the last clearing.
LEMMA QueueIs == ASSUME StoreInv PROVE Ordered(pending) /\ Within(pending, cleared, line)
<1>1. cleared \in Int /\ line \in Int
    BY DEF StoreInv
<1>2. CASE loaded
    <2>1. TailOf(pending, file)
        BY <1>2, TailTail DEF StoreInv
    <2> QED BY <1>1, <2>1, TailKeeps DEF StoreInv
<1>3. CASE ~loaded
    <2>1. pending = <<>>
        BY <1>3, EmptySeq, LenProperties DEF StoreInv, TailOf
    <2> QED BY <1>1, <2>1, EmptyTail
<1> QED BY <1>2, <1>3

LEMMA LinesAreStamped ==
    ASSUME StoreInv, NEW s \in Seq(Int), Within(s, cleared, line)
    PROVE  Stamped /\ \A i \in 1 .. Len(s) : s[i] \in 1 .. line
<1>1. \A i \in 1 .. Len(s) : s[i] \in Int
    BY ElementOfSeq
<1> QED BY <1>1, LogBounds DEF StoreInv, Stamped, Within

LEMMA PageStep == ASSUME ControlTypes, StoreInv, PageInv, FlagInv, N!Next PROVE PageInv'
<1> USE LogBounds
<1>1. /\ cleared \in Int /\ line \in Int /\ line \in Nat /\ line + 1 \in Int /\ cleared < line + 1
      /\ line < line + 1 /\ cleared <= line
      /\ history \in Seq(Int) /\ pending \in Seq(Int) /\ entries \in Seq(Int) /\ batch \in Seq(Int)
    BY DEF StoreInv, PageInv
<1>2. ASSUME NEW w \in Writers, NEW t \in Times, N!Append1(w, t) PROVE PageInv'
    <2> DEFINE queue == Append(pending, line + 1)
               queued == N!Newest(queue, MaxLog)
    <2>1. /\ line' = line + 1 /\ loaded' = TRUE /\ cleared' = cleared /\ pending' = queued
          /\ history' = N!Newest(Append(N!Loaded, line + 1), MaxLog) /\ stamp' = Append(stamp, t)
        BY <1>2, Appended
    <2>2. entries' = entries /\ batch' = batch /\ page' = page
        BY <1>2 DEF N!Append1, N!list
    <2>3. queue \in Seq(Int) /\ Len(queue) = Len(pending) + 1 /\ Len(pending) \in Nat
          /\ queue[Len(pending) + 1] = line + 1 /\ \A i \in 1 .. Len(pending) : queue[i] = pending[i]
        BY <1>1, AppendProperties, LenProperties
    <2>4. /\ queued \in Seq(Int) /\ TailOf(queued, queue)
          /\ Len(queued) = IF Len(queue) > MaxLog THEN MaxLog ELSE Len(queue)
        BY <2>3, NewestTail
    <2>5. Before(entries, queued) /\ Before(batch, queued)
        <3> HIDE DEF queued
        <3>1. Before(entries, queued)
            BY <1>1, <2>4, QueueKeeps DEF PageInv
        <3>2. Before(batch, queued)
            BY <1>1, <2>4, QueueKeeps DEF PageInv
        <3> QED BY <3>1, <3>2
    <2>6. Within(entries, cleared, line + 1) /\ Within(batch, cleared, line + 1)
        <3>1. /\ \A i \in 1 .. Len(entries) : entries[i] \in Int
              /\ \A i \in 1 .. Len(batch) : batch[i] \in Int
            BY <1>1, ElementOfSeq
        <3>2. Within(entries, cleared, line + 1)
            BY <1>1, <3>1 DEF PageInv, Within
        <3>3. Within(batch, cleared, line + 1)
            BY <1>1, <3>1 DEF PageInv, Within
        <3> QED BY <3>2, <3>3
    \* The times of the lines before are what they were.
    <2>7. ASSUME NEW m \in 1 .. line, NEW n \in 1 .. line PROVE N!Earlier(m, n)' <=> N!Earlier(m, n)
        <3>1. t \in Nat
            BY LogBounds
        <3>2. stamp \in Seq(Nat) /\ Len(stamp) = line
            BY DEF StoreInv
        <3>3. \A i \in 1 .. line : Append(stamp, t)[i] = stamp[i]
            BY <3>1, <3>2, AppendProperties
        <3>4. stamp'[m] = stamp[m] /\ stamp'[n] = stamp[n]
            BY <2>1, <3>3
        <3> QED BY <3>4 DEF N!Earlier
    <2>8. \A i \in 1 .. Len(entries) : entries[i] \in 1 .. line
        BY <1>1, LinesAreStamped DEF PageInv
    <2>9. Sorted(entries)'
        BY <2>2, <2>7, <2>8 DEF Sorted, PageInv
    <2>10. ASSUME NEW n \in 1 .. line, FullOf(entries, n)
           PROVE  /\ Len(entries') = MaxShown
                  /\ \A q \in 1 .. Len(entries') :
                         \/ stamp'[n] < stamp'[entries'[q]]
                         \/ stamp'[n] = stamp'[entries'[q]] /\ n < entries'[q]
        <3>1. \A q \in 1 .. Len(entries) : N!Earlier(n, entries[q])' <=> N!Earlier(n, entries[q])
            BY <2>2, <2>7, <2>8 DEF N!Earlier
        <3> QED BY <2>2, <2>10, <3>1 DEF FullOf, N!Earlier
    <2>11. ASSUME page.pc \in {"mounting", "subscribed", "idle", "confirm"}, NEW i \in 1 .. Len(history')
           PROVE  Accounted(history[i])'
        <3> DEFINE old == Append(history, line + 1)
        <3>1. N!Loaded = history
            BY <2>11 DEF PageInv, N!Loaded
        <3>2. old \in Seq(Int) /\ Len(old) = Len(history) + 1 /\ Len(history) \in Nat
              /\ old[Len(history) + 1] = line + 1 /\ \A j \in 1 .. Len(history) : old[j] = history[j]
            BY <1>1, AppendProperties, LenProperties
        <3>3. /\ history' \in Seq(Int) /\ TailOf(history', old)
              /\ Len(history') = IF Len(old) > MaxLog THEN MaxLog ELSE Len(old)
            BY <2>1, <3>1, <3>2, NewestTail
        <3>4. TailOf(queued, history')
            <4>1. StoreInv'
                BY <1>2, StoreStep DEF N!Next
            <4> QED BY <2>1, <4>1 DEF StoreInv
        <3> HIDE DEF old, queue, queued
        <3>5. Len(history') \in Nat /\ Len(queued) \in Nat
            BY <2>4, <3>3, LenProperties
        <3>6. CASE Len(queue) > MaxLog
            <4>1. Len(history') <= Len(queued)
                BY <2>3, <2>4, <3>2, <3>3, <3>6
            <4>2. Len(queued) <= Len(history') /\ queued[i] = history'[Len(history') - Len(queued) + i]
                BY <3>4, <3>5, <4>1 DEF TailOf
            <4>3. i \in 1 .. Len(queued) /\ Len(history') - Len(queued) + i = i
                BY <3>5, <4>1, <4>2
            <4>4. Holds(queued, history'[i])
                BY <4>2, <4>3 DEF Holds
            <4> QED BY <2>1, <4>4 DEF Accounted, Holds
        <3>7. CASE ~(Len(queue) > MaxLog)
            <4>1. queued = queue
                BY <3>7 DEF queued, N!Newest
            <4>2. Len(old) - Len(history') + i \in 1 .. Len(old)
                BY <3>2, <3>3, <3>5 DEF TailOf
            <4>3. PICK j \in 1 .. Len(old) : history'[i] = old[j]
                BY <3>3, <4>2 DEF TailOf
            <4>4. CASE j = Len(history) + 1
                <5>1. Len(pending) + 1 \in 1 .. Len(queue) /\ queue[Len(pending) + 1] = history'[i]
                    BY <2>3, <3>2, <4>3, <4>4
                <5> QED BY <2>1, <4>1, <5>1 DEF Accounted, Holds
            <4>5. CASE j # Len(history) + 1
                <5>1. j \in 1 .. Len(history) /\ history'[i] = history[j]
                    BY <3>2, <4>3, <4>5
                <5>2. Accounted(history[j])
                    BY <2>11, <5>1 DEF PageInv
                <5>3. history[j] \in 1 .. line
                    <6>1. Within(history, cleared, line)
                        BY <3>1, LoadedTail
                    <6> QED BY <1>1, <5>1, <6>1, LinesAreStamped
                <5>4. Holds(pending, history[j]) => Holds(queue, history[j])
                    BY <2>3 DEF Holds
                <5>5. CASE FullOf(entries, history[j])
                    <6> DEFINE x == history[j]
                    <6>1. x \in 1 .. line /\ FullOf(entries, x) /\ history'[i] = x
                        BY <5>1, <5>3, <5>5
                    <6> HIDE DEF x
                    <6>2. /\ Len(entries') = MaxShown
                          /\ \A q \in 1 .. Len(entries') :
                                 \/ stamp'[x] < stamp'[entries'[q]]
                                 \/ stamp'[x] = stamp'[entries'[q]] /\ x < entries'[q]
                        BY <2>10, <6>1
                    <6> QED BY <6>1, <6>2 DEF Accounted, FullOf, N!Earlier
                <5> QED BY <2>1, <2>2, <4>1, <5>1, <5>2, <5>4, <5>5 DEF Accounted, Holds
            <4> QED BY <4>4, <4>5
        <3> QED BY <3>6, <3>7
    <2> HIDE DEF queue, queued
    <2> QED BY <2>1, <2>2, <2>4, <2>5, <2>6, <2>9, <2>11 DEF PageInv
\* Nothing the page shows or the store holds changes, and the page goes on.
<1>3. ASSUME UNCHANGED <<line, stamp, cleared, loaded, history, batch, entries, pending>>,
             \/ page'.pc = page.pc
             \/ /\ page.pc \in {"mounting", "subscribed", "idle", "confirm"}
                /\ page'.pc \in {"mounting", "subscribed", "idle", "confirm"}
                /\ batch = <<>> \/ page'.pc \in {"mounting", "confirm"}
      PROVE  PageInv'
    <2>1. Sorted(entries)' /\ \A n : Accounted(n)' <=> Accounted(n)
        BY <1>3 DEF PageInv, Sorted, Accounted, FullOf, Holds, N!Earlier
    <2>2. \A i \in 1 .. Len(history) : Accounted(history[i])' <=> Accounted(history[i])
        BY <1>3 DEF Accounted, FullOf, Holds, N!Earlier
    <2> QED BY <1>3, <2>1, <2>2 DEF PageInv
<1>4. ASSUME NEW w \in Writers, NEW f \in BOOLEAN, N!Reserve(w) \/ N!Copy(w) \/ N!Deliver(w, f) PROVE PageInv'
    BY <1>3, <1>4 DEF N!Reserve, N!Copy, N!Deliver, N!store, N!lines, N!list
\* The page takes lines, and the queue is empty.
<1>5. ASSUME UNCHANGED <<line, stamp, cleared, entries>>, loaded' = TRUE, pending' = <<>>,
             batch' \in Seq(Int), Ordered(batch'), Within(batch', cleared, line), Before(entries, batch'),
             page'.pc \in {"mounting", "confirm"},
             history' \in Seq(Int),
             \A i \in 1 .. Len(history') :
                 Holds(entries, history'[i]) \/ FullOf(entries, history'[i]) \/ Holds(batch', history'[i])
      PROVE  PageInv'
    <2>1. Before(entries, <<>>) /\ Before(batch', <<>>)
        BY EmptyTail DEF Before
    <2>2. Sorted(entries)'
        <3>1. Sorted(entries)
            BY DEF PageInv
        <3>2. entries' = entries /\ stamp' = stamp
            BY <1>5
        <3> QED BY <3>1, <3>2 DEF Sorted, N!Earlier
    <2>3. \A i \in 1 .. Len(history') : Accounted(history[i])'
        BY <1>5 DEF Accounted, FullOf, Holds, N!Earlier
    <2> QED BY <1>5, <2>1, <2>2, <2>3 DEF PageInv
<1>6. CASE N!Mount
    <2>1. /\ UNCHANGED <<line, stamp, cleared, entries>> /\ loaded' = TRUE /\ pending' = <<>>
          /\ history' = N!Loaded /\ batch' = N!Loaded /\ page'.pc = "mounting" /\ page.pc = "off"
        BY <1>6 DEF N!Mount, N!lines, FlagInv
    <2>2. N!Loaded \in Seq(Int) /\ Ordered(N!Loaded) /\ Within(N!Loaded, cleared, line)
        BY LoadedTail
    <2>3. entries = <<>> /\ Before(<<>>, N!Loaded)
        BY <2>1, EmptyTail DEF PageInv, Before
    <2>4. \A i \in 1 .. Len(N!Loaded) : Holds(N!Loaded, N!Loaded[i])
        BY DEF Holds
    <2> QED BY <1>5, <2>1, <2>2, <2>3, <2>4
<1>7. CASE N!Subscribe \/ N!Unlatch \/ N!Confirm
    <2>1. /\ page.pc \in {"mounting", "subscribed", "confirm"} /\ page'.pc \in {"subscribed", "idle"}
          /\ UNCHANGED <<line, stamp, cleared, loaded, history, batch, entries, pending>>
          /\ page.pc # "subscribed" => batch = <<>>
        BY <1>7 DEF N!Subscribe, N!Unlatch, N!Confirm, N!store, N!lines, N!list, ControlTypes
    <2>2. batch = <<>>
        BY <2>1 DEF PageInv
    <2> QED BY <1>3, <2>1, <2>2
<1>8. ASSUME UNCHANGED <<line, stamp, cleared, loaded, history, pending, batch>>, entries' = <<>>,
             batch = <<>>, page'.pc \in {"off", "clear"}, page'.pc = "clear" => loaded
      PROVE  PageInv'
    <2>1. Before(<<>>, pending) /\ Before(<<>>, <<>>) /\ Len(<<>>) <= MaxShown
        BY EmptyTail DEF Before
    <2>2. Sorted(entries)'
        BY <1>8 DEF Sorted
    <2> QED BY <1>1, <1>8, <2>1, <2>2, EmptyTail DEF PageInv
<1>9. CASE N!Clear
    <2>1. page.pc = "idle" /\ page'.pc = "clear"
        BY <1>9 DEF N!Clear, ControlTypes
    <2>2. batch = <<>>
        BY <2>1 DEF PageInv
    <2> QED BY <1>8, <1>9, <2>1, <2>2 DEF N!Clear, N!store, N!lines, PageInv
<1>10. CASE N!Unmount
    <2>1. page'.pc = "off" /\ page.pc = "idle"
        BY <1>10 DEF N!Unmount, N!NoPage
    <2>2. batch = <<>>
        BY <2>1 DEF PageInv
    <2> QED BY <1>8, <1>10, <2>1, <2>2 DEF N!Unmount, N!store, N!lines
<1>11. CASE N!ClearStore
    <2>1. /\ page.pc = "clear" /\ page'.pc = "idle" /\ line' = line /\ cleared' = line /\ loaded' = TRUE
          /\ history' = <<>> /\ pending' = <<>> /\ entries' = entries /\ batch' = batch
        BY <1>11 DEF N!ClearStore, N!lines, N!list, ControlTypes
    <2>2. entries = <<>> /\ batch = <<>>
        BY <2>1 DEF PageInv
    <2>3. Before(<<>>, <<>>) /\ Len(<<>>) <= MaxShown /\ Len(<<>>) = 0
        BY EmptyTail DEF Before
    <2>4. Within(<<>>, line, line)
        BY <1>1, EmptyTail
    <2>5. Sorted(entries)'
        BY <2>1, <2>2 DEF Sorted
    <2> QED BY <2>1, <2>2, <2>3, <2>4, <2>5, EmptyTail DEF PageInv
<1>12. CASE N!Restart
    <2>1. /\ page'.pc = "off" /\ line' = line /\ cleared' = cleared /\ pending' = <<>> /\ entries' = <<>>
          /\ batch' = <<>>
        BY <1>12 DEF N!Restart, N!NoPage, N!lines
    <2>2. Before(<<>>, <<>>) /\ Len(<<>>) <= MaxShown /\ Within(<<>>, cleared, line)
        BY <1>1, EmptyTail DEF Before
    <2>3. Sorted(entries)'
        BY <2>1 DEF Sorted
    <2> QED BY <2>1, <2>2, <2>3, EmptyTail DEF PageInv
<1>13. ASSUME NEW t \in BOOLEAN, N!Handle(t) PROVE PageInv'
    <2>1. page.pc = "idle" /\ page'.pc = "confirm" /\ UNCHANGED <<line, stamp, cleared, entries>>
        BY <1>13 DEF N!Handle, N!lines, ControlTypes
    <2>2. CASE t
        BY <1>3, <1>13, <2>1, <2>2 DEF N!Handle
    <2>3. CASE ~t
        <3>1. loaded' /\ loaded' = TRUE /\ history' = history /\ pending' = <<>> /\ batch' = pending
            BY <1>13, <2>1, <2>3 DEF N!Handle, N!Loaded, PageInv
        <3>2. batch = <<>>
            BY <2>1 DEF PageInv
        <3>3. \A n : ~Holds(<<>>, n)
            BY EmptyTail DEF Holds
        <3>4. \A i \in 1 .. Len(history) :
                  Holds(entries, history[i]) \/ FullOf(entries, history[i]) \/ Holds(pending, history[i])
            BY <2>1, <3>2, <3>3 DEF PageInv, Accounted
        <3>5. Before(entries, pending)
            BY DEF PageInv
        <3> QED BY <1>1, <1>5, <2>1, <3>1, <3>4, <3>5, QueueIs
    <2> QED BY <2>2, <2>3
<1>14. CASE N!Insert
    <2> DEFINE b == Head(batch)
               rest == Tail(batch)
    <2>1. /\ batch # <<>> /\ batch' = rest
          /\ UNCHANGED <<line, stamp, cleared, loaded, history, pending, page>>
        BY <1>14 DEF N!Insert, N!lines, N!store
    <2>2. PICK k \in 0 .. Len(entries) :
              /\ \A i \in 1 .. k : stamp[entries[i]] <= stamp[b]
              /\ \A i \in (k + 1) .. Len(entries) : stamp[b] < stamp[entries[i]]
              /\ entries' = IF Len(N!Inserted(entries, k, b)) > MaxShown
                            THEN Tail(N!Inserted(entries, k, b)) ELSE N!Inserted(entries, k, b)
        BY <1>14 DEF N!Insert
    <2>3. /\ rest \in Seq(Int) /\ Len(rest) = Len(batch) - 1 /\ b = batch[1] /\ Len(batch) \in Nat
          /\ Len(batch) # 0 /\ \A i \in 1 .. Len(rest) : rest[i] = batch[i + 1]
        BY <1>1, <2>1, HeadTailProperties, LenProperties, EmptySeq
    <2>4. /\ 1 \in 1 .. Len(batch)
          /\ \A i \in 1 .. Len(rest) : i + 1 \in 1 .. Len(batch) /\ 1 < i + 1
        BY <2>3
    <2>5. Stamped /\ \A i \in 1 .. Len(entries) : entries[i] \in 1 .. line
        BY <1>1, LinesAreStamped DEF PageInv
    <2>6. \A i \in 1 .. Len(batch) : batch[i] \in 1 .. line
        BY <1>1, LinesAreStamped DEF PageInv
    <2> HIDE DEF b, rest
    <2>7. b \in 1 .. line /\ \A i \in 1 .. Len(entries) : entries[i] < b
        BY <2>3, <2>4, <2>6 DEF PageInv, Before
    <2> DEFINE z == N!Inserted(entries, k, b)
    <2>8. z = N!Inserted(entries, k, b)
        OBVIOUS
    <2> HIDE DEF z
    <2>9. /\ z \in Seq(Int) /\ Len(z) = Len(entries) + 1 /\ Sorted(z)
          /\ \A i \in 1 .. Len(z) : z[i] = b \/ Holds(entries, z[i])
          /\ Holds(z, b) /\ \A i \in 1 .. Len(entries) : Holds(z, entries[i])
        BY <1>1, <2>2, <2>5, <2>7, <2>8, InsertedIs DEF PageInv
    <2>10. entries' = IF Len(z) > MaxShown THEN Tail(z) ELSE z
        BY <2>2, <2>8
    <2>11. /\ entries' \in Seq(Int) /\ Len(entries') <= MaxShown /\ Sorted(entries')
           /\ \A i \in 1 .. Len(entries') : entries'[i] = b \/ Holds(entries, entries'[i])
           /\ Holds(entries', b) \/ FullOf(entries', b)
           /\ \A n \in 1 .. line :
                  Holds(entries, n) \/ FullOf(entries, n) => Holds(entries', n) \/ FullOf(entries', n)
        BY <1>1, <2>5, <2>7, <2>9, <2>10, KeptIs DEF PageInv
    <2>12. Sorted(entries)'
        BY <2>1, <2>11 DEF Sorted, N!Earlier
    <2>13. \A i \in 1 .. Len(entries') : entries'[i] = b \/ \E j \in 1 .. Len(entries) : entries'[i] = entries[j]
        BY <2>11 DEF Holds
    <2>14. cleared < b /\ b <= line
        BY <2>3, <2>4 DEF PageInv, Within
    <2>15. Within(entries', cleared, line)
        BY <2>13, <2>14 DEF PageInv, Within
    <2>16. Before(entries', rest)
        <3>1. \A i \in 1 .. Len(rest) : b < rest[i] /\ \A j \in 1 .. Len(entries) : entries[j] < rest[i]
            BY <2>3, <2>4 DEF PageInv, Before, Ordered
        <3> QED BY <2>13, <3>1 DEF Before
    <2>17. Before(entries', pending)
        <3>1. \A i \in 1 .. Len(pending) : b < pending[i] /\ \A j \in 1 .. Len(entries) : entries[j] < pending[i]
            BY <2>3, <2>4 DEF PageInv, Before
        <3> QED BY <2>13, <3>1 DEF Before
    <2>18. Ordered(rest) /\ Within(rest, cleared, line) /\ Before(rest, pending)
        <3>1. ASSUME NEW i \in 1 .. Len(rest), NEW j \in 1 .. Len(rest), i < j PROVE rest[i] < rest[j]
            <4>1. i + 1 < j + 1
                BY <2>3, <3>1
            <4> QED BY <2>3, <2>4, <4>1 DEF PageInv, Ordered
        <3>2. Within(rest, cleared, line)
            BY <2>3, <2>4 DEF PageInv, Within
        <3>3. Before(rest, pending)
            BY <2>3, <2>4 DEF PageInv, Before
        <3> QED BY <3>1, <3>2, <3>3 DEF Ordered
    <2>19. page.pc \in {"mounting", "confirm"} /\ page' = page /\ loaded
        BY <2>1 DEF PageInv
    <2>20. ASSUME NEW n \in 1 .. line, Accounted(n)
           PROVE  Holds(entries', n) \/ FullOf(entries', n) \/ Holds(rest, n) \/ Holds(pending, n)
        <3>1. CASE Holds(batch, n)
            <4>1. PICK i \in 1 .. Len(batch) : batch[i] = n
                BY <3>1 DEF Holds
            <4>2. CASE i = 1
                BY <2>3, <2>11, <4>1, <4>2
            <4>3. CASE i # 1
                <5>1. i - 1 \in 1 .. Len(rest) /\ rest[i - 1] = batch[(i - 1) + 1] /\ (i - 1) + 1 = i
                    BY <2>3, <4>3
                <5> QED BY <4>1, <5>1 DEF Holds
            <4> QED BY <4>2, <4>3
        <3> QED BY <2>11, <2>20, <3>1 DEF Accounted
    <2>21. ASSUME NEW i \in 1 .. Len(history) PROVE Accounted(history[i])'
        <3>1. Accounted(history[i])
            BY <2>19 DEF PageInv
        <3>2. history[i] \in 1 .. line
            <4>1. N!Loaded = history /\ Within(N!Loaded, cleared, line)
                BY <2>19, LoadedTail DEF N!Loaded
            <4> QED BY <1>1, <4>1, LinesAreStamped
        <3>3. \/ Holds(entries', history[i]) \/ FullOf(entries', history[i])
              \/ Holds(rest, history[i]) \/ Holds(pending, history[i])
            BY <2>20, <3>1, <3>2
        <3> QED BY <2>1, <3>3 DEF Accounted, FullOf, Holds, N!Earlier
    <2> QED BY <2>1, <2>3, <2>11, <2>12, <2>15, <2>16, <2>17, <2>18, <2>19, <2>21 DEF PageInv
<1> QED BY <1>2, <1>4, <1>6, <1>7, <1>9, <1>10, <1>11, <1>12, <1>13, <1>14 DEF N!Next

LEMMA FlagStep == ASSUME ControlTypes, FlagInv, N!Next PROVE FlagInv'
<1> USE DEF ControlTypes
<1>1. ASSUME UNCHANGED <<page, observers, posts>>, NEW w \in Writers, ~Carries(w, page.id),
             NEW v, writer' = [writer EXCEPT ![w] = v], flag' => flag
      PROVE  FlagInv'
    <2>1. ASSUME page.pc \in {"idle", "clear"}, flag', NEW u \in Writers, Carries(u, page.id)
          PROVE  Carries(u, page.id)'
        <3>1. u # w
            BY <1>1, <2>1
        <3>2. writer'[u] = writer[u]
            BY <1>1, <3>1
        <3> QED BY <1>1, <2>1, <3>2 DEF Carries
    <2> QED BY <1>1, <2>1 DEF FlagInv
<1>2. ASSUME NEW w \in Writers, NEW t \in Times, N!Append1(w, t) PROVE FlagInv'
    <2>1. /\ UNCHANGED <<page, observers, posts, flag>> /\ writer[w].pc = "idle"
          /\ writer' = [writer EXCEPT ![w] = [pc |-> "notify", to |-> {}]]
        BY <1>2 DEF N!Append1
    <2> QED BY <1>1, <2>1 DEF Carries
<1>3. ASSUME NEW w \in Writers, N!Reserve(w) PROVE FlagInv'
    <2>1. CASE flag
        <3>1. /\ UNCHANGED <<page, observers, posts>> /\ writer[w].pc = "notify"
              /\ writer' = [writer EXCEPT ![w] = N!Idle]
            BY <1>3, <2>1 DEF N!Reserve
        <3> QED BY <1>1, <2>1, <3>1 DEF Carries
    <2>2. CASE ~flag
        <3>1. /\ UNCHANGED <<page, observers, posts>>
              /\ writer' = [writer EXCEPT ![w] = [pc |-> "copy", to |-> {}]]
            BY <1>3, <2>2 DEF N!Reserve
        <3>2. Carries(w, page.id)'
            BY <3>1 DEF Carries
        <3> QED BY <3>1, <3>2 DEF FlagInv
    <2> QED BY <2>1, <2>2
<1>4. ASSUME NEW w \in Writers, N!Copy(w) PROVE FlagInv'
    <2>1. /\ UNCHANGED <<page, observers, posts, flag>>
          /\ writer' = [writer EXCEPT ![w] = [pc |-> "deliver", to |-> observers]]
        BY <1>4 DEF N!Copy
    <2>2. writer'[w].pc = "deliver" /\ writer'[w].to = observers
        BY <2>1
    <2>3. page.id \in observers => Carries(w, page.id)'
        BY <2>1, <2>2 DEF Carries
    <2> QED BY <2>1, <2>3 DEF FlagInv
<1>5. ASSUME NEW w \in Writers, NEW f \in BOOLEAN, N!Deliver(w, f) PROVE FlagInv'
    <2>1. /\ UNCHANGED <<page, observers>> /\ writer[w].pc = "deliver"
          /\ writer' = [writer EXCEPT ![w] = N!Idle]
          /\ flag' = IF writer[w].to = {} \/ f THEN FALSE ELSE flag
          /\ posts' = IF f THEN posts ELSE posts \cup {id \in writer[w].to : page.on /\ page.id = id}
        BY <1>5 DEF N!Deliver
    <2>2. CASE ~flag'
        BY <2>1, <2>2 DEF FlagInv
    <2>3. CASE flag' /\ page.id \in writer[w].to
        <3>1. page.on => page.id \in posts'
            BY <2>1, <2>3
        <3> QED BY <2>1, <3>1 DEF FlagInv
    <2>4. CASE flag' /\ page.id \notin writer[w].to
        <3>1. flag /\ posts \subseteq posts'
            BY <2>1, <2>4
        <3>2. ASSUME NEW u \in Writers, Carries(u, page.id) PROVE Carries(u, page.id)'
            <4>1. u # w
                BY <2>1, <2>4, <3>2 DEF Carries
            <4>2. writer'[u] = writer[u]
                BY <2>1, <4>1
            <4> QED BY <2>1, <3>2, <4>2 DEF Carries
        <3> QED BY <2>1, <3>1, <3>2 DEF FlagInv
    <2> QED BY <2>2, <2>3, <2>4
<1>6. CASE N!Mount \/ N!Unmount \/ N!Restart
    <2>1. page'.pc \in {"off", "mounting"} /\ (page'.pc # "off" => page'.on)
        BY <1>6 DEF N!Mount, N!Unmount, N!Restart, N!NoPage
    <2> QED BY <2>1 DEF FlagInv
<1>7. CASE N!Subscribe
    <2>1. page.pc = "mounting" /\ page'.pc = "subscribed" /\ page'.id = page.id /\ page'.on = page.on
          /\ observers' = observers \cup {page.id}
        BY <1>7 DEF N!Subscribe, FlagInv
    <2> QED BY <2>1 DEF FlagInv
<1>8. CASE N!Unlatch \/ N!Confirm
    <2>1. /\ page.pc \in {"subscribed", "confirm"} /\ page'.id = page.id /\ page'.on = page.on
          /\ observers' = observers /\ flag' = FALSE
        BY <1>8 DEF N!Unlatch, N!Confirm
    <2> QED BY <2>1 DEF FlagInv
<1>9. CASE N!Clear \/ N!ClearStore
    <2>1. /\ page.pc \in {"idle", "clear"} /\ page'.pc \in {"idle", "clear"} /\ page'.id = page.id
          /\ page'.on = page.on
          /\ UNCHANGED <<observers, flag, posts, writer>>
        BY <1>9 DEF N!Clear, N!ClearStore
    <2> QED BY <2>1 DEF FlagInv, Carries
<1>10. ASSUME NEW t \in BOOLEAN, N!Handle(t) PROVE FlagInv'
    <2>1. /\ page.pc = "idle" /\ page'.pc = "confirm" /\ page'.id = page.id /\ page'.on = page.on
          /\ observers' = observers
        BY <1>10 DEF N!Handle
    <2> QED BY <2>1 DEF FlagInv
<1>11. CASE N!Insert
    BY <1>11 DEF N!Insert, FlagInv, Carries
<1> QED BY <1>2, <1>3, <1>4, <1>5, <1>6, <1>7, <1>8, <1>9, <1>10, <1>11 DEF N!Next

NoticesInv == ControlTypes /\ StoreInv /\ PageInv /\ FlagInv

\* The invariant implies what the run checks.
LEMMA NoticesSafe == ASSUME NoticesInv PROVE LogIsComplete
<1> USE DEF NoticesInv
<1>1. cleared \in Int /\ line \in Int
    BY LogBounds DEF StoreInv
<1>2. N!TypeOK
    <2>1. Len(pending) <= MaxLog
        BY LenProperties, LogBounds DEF StoreInv, TailOf
    <2> QED BY <2>1 DEF N!TypeOK, ControlTypes, StoreInv
<1>3. N!ShownOnce
    BY DEF N!ShownOnce, PageInv, Sorted
<1>4. N!FileHoldsHistory
    BY TailIsSuffix DEF N!FileHoldsHistory, StoreInv
<1>5. N!NoticeIsOut
    BY DEF N!NoticeIsOut, FlagInv, Carries
<1>6. N!ClearedIsGone
    <2>1. ASSUME NEW s \in Seq(Int), Within(s, cleared, line), NEW n \in N!ToSet(s) PROVE n > cleared
        <3>1. PICK i \in 1 .. Len(s) : n = s[i]
            BY <2>1, LinesAre
        <3>2. s[i] \in Int
            BY ElementOfSeq
        <3> QED BY <1>1, <2>1, <3>1, <3>2 DEF Within
    <2>2. /\ entries \in Seq(Int) /\ Within(entries, cleared, line)
          /\ batch \in Seq(Int) /\ Within(batch, cleared, line)
          /\ N!Loaded \in Seq(Int) /\ Within(N!Loaded, cleared, line)
          /\ file \in Seq(Int) /\ Within(file, cleared, line)
        BY LoadedTail DEF PageInv, StoreInv
    <2> QED BY <2>1, <2>2 DEF N!ClearedIsGone
<1>7. N!ShownOrQueued
    <2>1. ASSUME page.pc \in {"idle", "confirm", "subscribed", "mounting"}, NEW n \in N!ToSet(history),
                 n \notin N!ToSet(entries), n \notin N!ToSet(batch), n \notin N!ToSet(pending)
          PROVE  Len(entries) = MaxShown /\ \A m \in N!ToSet(entries) : N!Earlier(n, m)
        <3>1. /\ entries \in Seq(Int) /\ batch \in Seq(Int) /\ pending \in Seq(Int) /\ history \in Seq(Int)
            BY DEF PageInv, StoreInv
        <3>2. PICK i \in 1 .. Len(history) : n = history[i]
            BY <2>1, <3>1, LinesAre
        <3>3. Accounted(n)
            BY <2>1, <3>2 DEF PageInv
        <3>4. \A s \in Seq(Int) : Holds(s, n) => n \in N!ToSet(s)
            BY LinesAre DEF Holds
        <3>5. FullOf(entries, n)
            BY <2>1, <3>1, <3>3, <3>4 DEF Accounted
        <3>6. \A m \in N!ToSet(entries) : \E j \in 1 .. Len(entries) : m = entries[j]
            BY <3>1, LinesAre
        <3> QED BY <3>5, <3>6 DEF FullOf
    <2> QED BY <2>1 DEF N!ShownOrQueued
<1> QED BY <1>2, <1>3, <1>4, <1>5, <1>6, <1>7 DEF LogIsComplete

\* Each line the store keeps the page shows once and in its place, or it is on its way
\* there, queued, or earlier than all of a full page; what was cleared stays away, the file
\* ends with the history, and a merged notice has another on its way: whatever threads
\* append with whatever clock, the page mounts, clears or fails over, and when the
\* application dies (appendLog, drainLogs, AppendLogEntry, notifyStreamUpdate).
THEOREM LogHolds == Spec => []LogIsComplete
<1>1. Init => NoticesInv
    BY NoticesInit DEF Init, NoticesInv
<1>2. NoticesInv /\ [Next]_vars => NoticesInv'
    <2> SUFFICES ASSUME NoticesInv, [Next]_vars PROVE NoticesInv'
        OBVIOUS
    <2> USE DEF NoticesInv
    <2>1. CASE N!Next
        BY <2>1, ControlStep, StoreStep, PageStep, FlagStep
    <2>2. CASE UNCHANGED notices
        <3>1. ControlTypes'
            BY <2>2 DEF notices, ControlTypes
        <3>2. StoreInv'
            BY <2>2 DEF notices, StoreInv
        <3>3. PageInv'
            BY <2>2 DEF notices, PageInv, Sorted, Accounted, FullOf, Holds, N!Earlier
        <3>4. FlagInv'
            BY <2>2 DEF notices, FlagInv, Carries
        <3> QED BY <3>1, <3>2, <3>3, <3>4
    <2> QED BY <2>1, <2>2 DEF Next, vars
<1>3. NoticesInv => LogIsComplete
    BY NoticesSafe
<1> QED BY <1>1, <1>2, <1>3, PTL DEF Spec

----------------------------------------------------------------------------
(* The record of the runtime's health *)

LEMMA HealthBounds ==
    /\ MaxRecent \in Nat /\ MaxIncidents \in Nat /\ MaxClock \in Nat /\ Gap \in Nat
    /\ MaxRecent > 0 /\ MaxIncidents > 0 /\ Gap > 0 /\ Gap <= MaxClock
BY BoundsAreNumbers, RowsAreKept

Row == [at : Gap .. MaxClock, key : Nat \X States]

\* The last row of the one list and of the other tell the same.
Paired(rows, events) ==
    /\ rows \in Seq(Row) /\ events \in Seq(Row)
    /\ Len(rows) <= MaxRecent /\ Len(events) <= MaxIncidents
    /\ Len(rows) = 0 <=> Len(events) = 0
    /\ Len(rows) # 0 => rows[Len(rows)].key = events[Len(events)].key

\* What is lost of a list of incidents is its beginning, and only when the list is full.
Extends(old, new) ==
    \E k \in 0 .. Len(old) :
        /\ k > 0 => Len(new) = MaxIncidents
        /\ Len(old) - k <= Len(new)
        /\ \A j \in 1 .. Len(old) - k : new[j] = old[k + j]

RowTypes ==
    /\ clock \in Gap .. MaxClock /\ session \in Nat /\ lastWrite \in 0 .. MaxClock
    /\ read \in BOOLEAN /\ dirty \in BOOLEAN /\ persisted \in BOOLEAN
    /\ disk \in [recent : Seq(Row), incidents : Seq(Row)]

RowsInv ==
    /\ Paired(recent, incidents) /\ Paired(disk.recent, disk.incidents)
    /\ last # H!Unknown => Len(recent) # 0 /\ recent[Len(recent)].key = last
    /\ read => Extends(disk.incidents, incidents)

\* A row is in the file, or of the time since the last write in which no other is due.
OnDisk(rows) ==
    \A n \in 1 .. Len(rows) :
        \/ \E m \in 1 .. Len(disk.recent) : disk.recent[m] = rows[n]
        \/ lastWrite <= rows[n].at /\ rows[n].at < lastWrite + Gap

\* What "persisted" stands for: before the file was read, that there is nothing yet.
WriteInv ==
    /\ ~read /\ persisted => recent = <<>> /\ incidents = <<>>
    /\ read /\ persisted =>
           /\ disk.incidents = incidents /\ OnDisk(recent)
           /\ ~dirty => disk.recent = recent

HealthInv == RowTypes /\ RowsInv /\ WriteInv

LEMMA NewestIs ==
    ASSUME NEW s \in Seq(Row), NEW n \in Nat
    PROVE  /\ H!Newest(s, n) \in Seq(Row)
           /\ Len(H!Newest(s, n)) = IF Len(s) > n THEN n ELSE Len(s)
           /\ \A i \in 1 .. Len(H!Newest(s, n)) :
                  H!Newest(s, n)[i] = s[Len(s) - Len(H!Newest(s, n)) + i]
<1>0. Len(s) \in Nat
    BY LenProperties
<1>1. CASE Len(s) > n
    <2>1. H!Newest(s, n) = SubSeq(s, Len(s) - n + 1, Len(s))
        BY <1>1 DEF H!Newest
    <2>2. Len(s) - n + 1 \in Int /\ \A i \in Len(s) - n + 1 .. Len(s) : s[i] \in Row
        BY <1>0, <1>1, ElementOfSeq
    <2>3. /\ SubSeq(s, Len(s) - n + 1, Len(s)) \in Seq(Row)
          /\ Len(SubSeq(s, Len(s) - n + 1, Len(s))) =
                 IF Len(s) - n + 1 <= Len(s) THEN Len(s) - (Len(s) - n + 1) + 1 ELSE 0
          /\ \A i \in 1 .. Len(s) - (Len(s) - n + 1) + 1 :
                 SubSeq(s, Len(s) - n + 1, Len(s))[i] = s[(Len(s) - n + 1) + i - 1]
        BY <1>0, <2>2, SubSeqProperties
    <2>4. Len(H!Newest(s, n)) = n
        BY <1>0, <1>1, <2>1, <2>3
    <2>5. ASSUME NEW i \in 1 .. n PROVE H!Newest(s, n)[i] = s[Len(s) - n + i]
        <3>1. (Len(s) - n + 1) + i - 1 = Len(s) - n + i /\ i \in 1 .. Len(s) - (Len(s) - n + 1) + 1
            BY <1>0
        <3> QED BY <2>1, <2>3, <3>1
    <2> QED BY <1>1, <2>1, <2>3, <2>4, <2>5
<1>2. CASE ~(Len(s) > n)
    <2>1. H!Newest(s, n) = s
        BY <1>2 DEF H!Newest
    <2> QED BY <1>0, <1>2, <2>1
<1> QED BY <1>1, <1>2

\* What is kept of two lists, one after the other, ends as the second does.
Joins(r, s, t, n) ==
    /\ r \in Seq(Row) /\ Len(r) <= n
    /\ Len(r) = 0 <=> Len(s) = 0 /\ Len(t) = 0
    /\ Len(t) # 0 => r[Len(r)] = t[Len(t)]
    /\ Len(t) = 0 /\ Len(s) # 0 => r[Len(r)] = s[Len(s)]

LEMMA JoinedIs ==
    ASSUME NEW s \in Seq(Row), NEW t \in Seq(Row), NEW n \in Nat, n > 0
    PROVE  Joins(H!Newest(s \o t, n), s, t, n)
<1> DEFINE u == s \o t
           r == H!Newest(s \o t, n)
<1>1. /\ u \in Seq(Row) /\ Len(u) = Len(s) + Len(t) /\ Len(s) \in Nat /\ Len(t) \in Nat
      /\ \A i \in 1 .. Len(s) + Len(t) : u[i] = IF i <= Len(s) THEN s[i] ELSE t[i - Len(s)]
    BY ConcatProperties, LenProperties
<1>2. /\ r \in Seq(Row) /\ Len(r) = IF Len(u) > n THEN n ELSE Len(u)
      /\ \A i \in 1 .. Len(r) : r[i] = u[Len(u) - Len(r) + i]
    BY <1>1, NewestIs
<1>0. Joins(r, s, t, n) <=> Joins(H!Newest(s \o t, n), s, t, n)
    OBVIOUS
<1> HIDE DEF u, r
<1>3. Len(r) \in Nat /\ Len(r) <= n /\ (Len(r) = 0 <=> Len(s) = 0 /\ Len(t) = 0)
    BY <1>1, <1>2
<1>4. ASSUME Len(r) # 0 PROVE Joins(r, s, t, n)
    <2>1. Len(r) \in 1 .. Len(r) /\ Len(u) - Len(r) + Len(r) = Len(u)
        BY <1>1, <1>3, <1>4
    <2>2. r[Len(r)] = u[Len(u)]
        BY <1>2, <2>1
    <2>3. CASE Len(t) # 0
        <3>1. Len(u) \in 1 .. Len(s) + Len(t) /\ ~(Len(u) <= Len(s)) /\ Len(u) - Len(s) = Len(t)
            BY <1>1, <2>3
        <3> QED BY <1>1, <1>2, <1>3, <2>2, <2>3, <3>1 DEF Joins
    <2>4. CASE Len(t) = 0
        <3>1. Len(u) = Len(s) /\ Len(s) \in 1 .. Len(s) + Len(t)
            BY <1>1, <1>3, <1>4, <2>4
        <3> QED BY <1>1, <1>2, <1>3, <2>2, <2>4, <3>1 DEF Joins
    <2> QED BY <2>3, <2>4
<1>5. ASSUME Len(r) = 0 PROVE Joins(r, s, t, n)
    BY <1>1, <1>2, <1>3, <1>5 DEF Joins
<1> QED BY <1>0, <1>4, <1>5

LEMMA JoinsInTurn ==
    ASSUME NEW s \in Seq(Row), NEW t \in Seq(Row), NEW u \in Seq(Row)
    PROVE  (s \o t) \o u = s \o (t \o u)
BY ConcatAssociative

LEMMA ExtendsMore ==
    ASSUME NEW d \in Seq(Row), NEW s \in Seq(Row), NEW t \in Seq(Row), Extends(d, s)
    PROVE  Extends(d, H!Newest(s \o t, MaxIncidents))
<1> DEFINE u == s \o t
           r == H!Newest(u, MaxIncidents)
<1>1. /\ u \in Seq(Row) /\ Len(u) = Len(s) + Len(t)
      /\ Len(s) \in Nat /\ Len(t) \in Nat /\ Len(d) \in Nat
      /\ \A i \in 1 .. Len(s) + Len(t) : u[i] = IF i <= Len(s) THEN s[i] ELSE t[i - Len(s)]
    BY ConcatProperties, LenProperties
<1> HIDE DEF u
<1>2. /\ Len(r) = IF Len(u) > MaxIncidents THEN MaxIncidents ELSE Len(u)
      /\ \A i \in 1 .. Len(r) : r[i] = u[Len(u) - Len(r) + i]
    BY <1>1, NewestIs, HealthBounds
<1> HIDE DEF r
<1>3. PICK k \in 0 .. Len(d) :
          /\ k > 0 => Len(s) = MaxIncidents
          /\ Len(d) - k <= Len(s)
          /\ \A j \in 1 .. Len(d) - k : s[j] = d[k + j]
    BY DEF Extends
<1> DEFINE m == Len(u) - Len(r)
           l == IF k + m <= Len(d) THEN k + m ELSE Len(d)
<1>4. m \in Nat /\ Len(r) \in Nat /\ (m > 0 => Len(r) = MaxIncidents) /\ (m = 0 => Len(u) <= MaxIncidents)
    BY <1>1, <1>2, HealthBounds
<1>5. l \in 0 .. Len(d)
    BY <1>1, <1>3, <1>4
<1>6. l > 0 => Len(r) = MaxIncidents
    <2>1. CASE k > 0
        <3>1. Len(s) = MaxIncidents /\ Len(u) >= MaxIncidents
            BY <1>1, <1>3, <2>1
        <3> QED BY <1>1, <1>2, <3>1, HealthBounds
    <2>2. CASE ~(k > 0)
        <3>1. l > 0 => m > 0
            BY <1>1, <1>3, <1>4, <2>2
        <3> HIDE DEF l, m
        <3> QED BY <1>4, <3>1
    <2> QED BY <2>1, <2>2
<1>7. Len(d) - l <= Len(r)
    BY <1>1, <1>3, <1>4
<1>8. ASSUME NEW j \in 1 .. Len(d) - l PROVE r[j] = d[l + j]
    <2>1. l = k + m /\ m + j \in 1 .. Len(d) - k /\ j \in 1 .. Len(r) /\ m + j \in 1 .. Len(s)
        BY <1>1, <1>3, <1>4, <1>7
    <2>2. r[j] = u[m + j]
        BY <1>2, <2>1
    <2>3. u[m + j] = s[m + j]
        <3>1. m + j \in 1 .. Len(s) + Len(t) /\ m + j <= Len(s)
            BY <1>1, <2>1
        <3> HIDE DEF m
        <3> QED BY <1>1, <3>1
    <2>4. s[m + j] = d[k + (m + j)]
        BY <1>3, <2>1
    <2>5. k + (m + j) = l + j
        <3>1. l = k + m /\ m \in Nat
            BY <1>4, <2>1
        <3> HIDE DEF l, m
        <3> QED BY <3>1
    <2> QED BY <2>2, <2>3, <2>4, <2>5
<1> HIDE DEF l, m
<1>9. Extends(d, r)
    BY <1>5, <1>6, <1>7, <1>8 DEF Extends
<1> QED BY <1>9 DEF r, u

LEMMA ExtendsItself == ASSUME NEW d \in Seq(Row) PROVE Extends(d, d)
<1>1. Len(d) \in Nat
    BY LenProperties
<1>2. 0 \in 0 .. Len(d) /\ Len(d) - 0 <= Len(d) /\ \A j \in 1 .. Len(d) - 0 : d[j] = d[0 + j]
    BY <1>1
<1> QED BY <1>2 DEF Extends
\* What a load leaves to collect into.
Loaded(rows) ==
    /\ Paired(rows.recent, rows.incidents)
    /\ last # H!Unknown => Len(rows.recent) # 0 /\ rows.recent[Len(rows.recent)].key = last
    /\ rows.ok => Extends(disk.incidents, rows.incidents)
    /\ persisted /\ rows.ok =>
           /\ disk.incidents = rows.incidents /\ OnDisk(rows.recent)
           /\ ~dirty => disk.recent = rows.recent

LEMMA OnDiskItself == OnDisk(disk.recent)
BY DEF OnDisk

LEMMA LoadIs ==
    ASSUME HealthInv, NEW readable \in BOOLEAN
    PROVE  /\ Loaded(H!Load(readable)) /\ H!Load(readable).ok \in BOOLEAN
           /\ read => H!Load(readable).ok
           /\ ~H!Load(readable).ok => H!Load(readable).recent = recent
                                      /\ H!Load(readable).incidents = incidents
<1> DEFINE r == H!Newest(disk.recent \o recent, MaxRecent)
           e == H!Newest(disk.incidents \o incidents, MaxIncidents)
<1>1. CASE read \/ ~readable
    <2>1. /\ H!Load(readable).ok <=> read
          /\ H!Load(readable).recent = recent /\ H!Load(readable).incidents = incidents
          /\ H!Load(readable).ok \in BOOLEAN
        BY <1>1 DEF H!Load, HealthInv, RowTypes
    <2> QED BY <2>1 DEF HealthInv, RowsInv, WriteInv, Loaded
<1>2. CASE ~(read \/ ~readable)
    <2>1. /\ H!Load(readable).ok
          /\ H!Load(readable).recent = r /\ H!Load(readable).incidents = e
          /\ H!Load(readable).ok \in BOOLEAN
        BY <1>2 DEF H!Load
    <2>2. /\ recent \in Seq(Row) /\ incidents \in Seq(Row)
          /\ disk.recent \in Seq(Row) /\ disk.incidents \in Seq(Row)
          /\ Len(recent) \in Nat /\ Len(incidents) \in Nat
          /\ Len(disk.recent) \in Nat /\ Len(disk.incidents) \in Nat
        BY LenProperties DEF HealthInv, RowsInv, Paired
    <2>3. Joins(r, disk.recent, recent, MaxRecent)
        BY <2>2, JoinedIs, HealthBounds
    <2>4. Joins(e, disk.incidents, incidents, MaxIncidents)
        BY <2>2, JoinedIs, HealthBounds
    <2>5. Extends(disk.incidents, e)
        BY <2>2, ExtendsItself, ExtendsMore
    <2>6. ASSUME persisted PROVE r = disk.recent /\ e = disk.incidents
        <3>1. recent = <<>> /\ incidents = <<>>
            BY <1>2, <2>6 DEF HealthInv, WriteInv
        <3>2. disk.recent \o recent = disk.recent /\ disk.incidents \o incidents = disk.incidents
            BY <2>2, <3>1, ConcatEmptySeq
        <3>3. ~(Len(disk.recent) > MaxRecent) /\ ~(Len(disk.incidents) > MaxIncidents)
            BY <2>2, HealthBounds DEF HealthInv, RowsInv, Paired
        <3> QED BY <3>2, <3>3 DEF H!Newest
    <2> HIDE DEF r, e
    <2>7. Paired(r, e)
        <3>1. Paired(recent, incidents) /\ Paired(disk.recent, disk.incidents)
            BY DEF HealthInv, RowsInv
        <3>2. Len(r) = 0 <=> Len(e) = 0
            BY <2>3, <2>4, <3>1 DEF Paired, Joins
        <3>3. ASSUME Len(r) # 0 PROVE r[Len(r)].key = e[Len(e)].key
            <4>1. CASE Len(recent) = 0
                BY <2>3, <2>4, <3>1, <3>3, <4>1 DEF Paired, Joins
            <4>2. CASE Len(recent) # 0
                BY <2>3, <2>4, <3>1, <4>2 DEF Paired, Joins
            <4> QED BY <4>1, <4>2
        <3> QED BY <2>3, <2>4, <3>2, <3>3 DEF Paired, Joins
    <2>8. last # H!Unknown => Len(r) # 0 /\ r[Len(r)].key = last
        BY <2>3 DEF HealthInv, RowsInv, Joins
    <2> QED BY <1>2, <2>1, <2>5, <2>6, <2>7, <2>8, OnDiskItself DEF Loaded
<1> QED BY <1>1, <1>2

\* A change goes to the incidents, with the row before it.
LEMMA CollectedIs ==
    ASSUME HealthInv, NEW rows, Loaded(rows), rows.ok \in BOOLEAN, NEW sample \in Row
    PROVE  LET e == H!Collected(rows, sample)
           IN  /\ e \in Seq(Row) /\ Len(e) <= MaxIncidents /\ Len(e) # 0 /\ e[Len(e)] = sample
               /\ rows.ok => Extends(disk.incidents, e)
<1> DEFINE before == IF rows.recent = <<>> THEN <<>> ELSE <<H!Last(rows.recent)>>
           more == before \o <<sample>>
           e == H!Newest(rows.incidents \o more, MaxIncidents)
<1>1. rows.recent \in Seq(Row) /\ rows.incidents \in Seq(Row) /\ disk.incidents \in Seq(Row)
    BY DEF Loaded, Paired, HealthInv, RowsInv
<1>2. before \in Seq(Row)
    <2>1. ASSUME rows.recent # <<>> PROVE H!Last(rows.recent) \in Row
        <3>1. Len(rows.recent) \in 1 .. Len(rows.recent)
            BY <1>1, <2>1, LenProperties, EmptySeq
        <3> QED BY <1>1, <3>1, ElementOfSeq DEF H!Last
    <2> QED BY <2>1
<1> HIDE DEF before
<1>3. /\ <<sample>> \in Seq(Row) /\ Len(<<sample>>) = 1 /\ <<sample>>[1] = sample
      /\ Len(before) \in Nat
    BY <1>2, LenProperties
<1>4. more \in Seq(Row) /\ Len(more) = Len(before) + 1 /\ more[Len(more)] = sample
    <2>1. /\ more \in Seq(Row) /\ Len(more) = Len(before) + Len(<<sample>>)
          /\ \A i \in 1 .. Len(before) + Len(<<sample>>) :
                 more[i] = IF i <= Len(before) THEN before[i] ELSE <<sample>>[i - Len(before)]
        BY <1>2, <1>3, ConcatProperties
    <2> HIDE DEF more
    <2>2. Len(more) \in 1 .. Len(before) + Len(<<sample>>) /\ ~(Len(more) <= Len(before))
          /\ Len(more) - Len(before) = 1
        BY <1>3, <2>1
    <2> QED BY <1>3, <2>1, <2>2
<1>5. H!Collected(rows, sample) = e
    <2>1. H!Collected(rows, sample) = H!Newest((rows.incidents \o before) \o <<sample>>, MaxIncidents)
        BY DEF H!Collected, before
    <2>2. (rows.incidents \o before) \o <<sample>> = rows.incidents \o (before \o <<sample>>)
        <3>1. rows.incidents \in Seq(Row) /\ before \in Seq(Row) /\ <<sample>> \in Seq(Row)
            BY <1>1, <1>2, <1>3
        <3> QED BY <3>1, JoinsInTurn
    <2> QED BY <2>1, <2>2
<1> HIDE DEF more
<1>6. Joins(e, rows.incidents, more, MaxIncidents)
    BY <1>1, <1>4, JoinedIs, HealthBounds
<1>7. rows.ok => Extends(disk.incidents, e)
    BY <1>1, <1>4, ExtendsMore DEF Loaded
<1> HIDE DEF e
<1> QED BY <1>3, <1>4, <1>5, <1>6, <1>7 DEF Joins
LEMMA HealthInit == H!Init => HealthInv
<1> SUFFICES ASSUME H!Init PROVE HealthInv
    OBVIOUS
<1> USE HealthBounds DEF H!Init
<1>1. <<>> \in Seq(Row) /\ Len(<<>>) = 0
    OBVIOUS
<1>2. Extends(<<>>, <<>>)
    BY <1>1, ExtendsItself
<1>3. RowTypes
    <2>1. Gap \in Gap .. MaxClock /\ 0 \in 0 .. MaxClock
        BY HealthBounds
    <2>2. disk \in [recent : Seq(Row), incidents : Seq(Row)]
        BY <1>1
    <2> QED BY <2>1, <2>2 DEF RowTypes
<1>4. RowsInv
    BY <1>1, <1>2 DEF RowsInv, Paired
<1>5. WriteInv
    BY DEF WriteInv
<1> QED BY <1>3, <1>4, <1>5 DEF HealthInv

\* Where an element of the end of a list stands in the list.
LEMMA EndsWithin ==
    ASSUME NEW a, NEW b, NEW c \in Nat, NEW n \in 1 .. a, a \in Nat, b = c + 1, a <= b
    PROVE  b - a + n \in 1 .. c + 1
OBVIOUS

\* After a sample both lists end with what it tells, and the recent one holds what it held
\* and the sample.
LEMMA Sampled ==
    ASSUME HealthInv, NEW rows, Loaded(rows), rows.ok \in BOOLEAN, NEW key \in Nat \X States,
           NEW sample, sample = [at |-> clock, key |-> key],
           NEW event \in BOOLEAN, event <=> H!Changed(rows.recent, key),
           NEW keep \in BOOLEAN, event => keep,
           NEW r, r = IF keep THEN H!Newest(Append(rows.recent, sample), MaxRecent) ELSE rows.recent,
           NEW e, e = IF event THEN H!Collected(rows, sample) ELSE rows.incidents
    PROVE  /\ Paired(r, e) /\ Len(r) # 0 /\ r[Len(r)].key = key
           /\ rows.ok => Extends(disk.incidents, e)
           /\ \A n \in 1 .. Len(r) : r[n] = sample \/ \E m \in 1 .. Len(rows.recent) : r[n] = rows.recent[m]
<1>1. /\ rows.recent \in Seq(Row) /\ rows.incidents \in Seq(Row)
      /\ Len(rows.recent) \in Nat /\ Len(rows.incidents) \in Nat /\ Paired(rows.recent, rows.incidents)
    BY LenProperties DEF Loaded, Paired
<1>2. sample \in Row /\ sample.key = key /\ sample.at = clock
    BY DEF Row, HealthInv, RowTypes
<1>3. ~event <=> Len(rows.recent) # 0 /\ rows.recent[Len(rows.recent)].key = key
    BY <1>1, EmptySeq DEF H!Changed, H!Last
<1>5. CASE keep
    <2>1. <<sample>> \in Seq(Row) /\ Len(<<sample>>) = 1 /\ <<sample>>[1] = sample
        BY <1>2
    <2>2. r = H!Newest(rows.recent \o <<sample>>, MaxRecent)
        BY <1>1, <1>2, <1>5, AppendIsConcat
    <2>3. Joins(r, rows.recent, <<sample>>, MaxRecent)
        BY <1>1, <2>1, <2>2, JoinedIs, HealthBounds
    <2>4. r \in Seq(Row) /\ Len(r) <= MaxRecent /\ Len(r) # 0 /\ r[Len(r)] = sample
        <3> HIDE DEF Joins
        <3>1. Len(<<sample>>) # 0 /\ <<sample>>[Len(<<sample>>)] = sample
            BY <2>1
        <3> QED BY <2>3, <3>1 DEF Joins
    <2>5. ASSUME event
          PROVE  Paired(r, e) /\ Len(r) # 0 /\ r[Len(r)].key = key /\ (rows.ok => Extends(disk.incidents, e))
        <3>1. /\ e \in Seq(Row) /\ Len(e) <= MaxIncidents /\ Len(e) # 0 /\ e[Len(e)] = sample
              /\ rows.ok => Extends(disk.incidents, e)
            BY <1>2, <2>5, CollectedIs
        <3> QED BY <1>2, <2>4, <3>1 DEF Paired
    <2>6. ASSUME ~event
          PROVE  Paired(r, e) /\ Len(r) # 0 /\ r[Len(r)].key = key /\ (rows.ok => Extends(disk.incidents, e))
        <3>1. e = rows.incidents /\ rows.recent[Len(rows.recent)].key = key /\ Len(rows.recent) # 0
            BY <1>3, <2>6
        <3>2. Paired(r, e)
            BY <1>1, <1>2, <2>4, <3>1 DEF Paired
        <3> QED BY <1>2, <2>4, <3>1, <3>2 DEF Loaded
    <2>7. ASSUME NEW n \in 1 .. Len(r)
          PROVE  r[n] = sample \/ \E m \in 1 .. Len(rows.recent) : r[n] = rows.recent[m]
        <3> DEFINE u == rows.recent \o <<sample>>
        <3>1. /\ u \in Seq(Row) /\ Len(u) = Len(rows.recent) + 1
              /\ \A i \in 1 .. Len(rows.recent) + 1 :
                     u[i] = IF i <= Len(rows.recent) THEN rows.recent[i] ELSE <<sample>>[i - Len(rows.recent)]
            BY <1>1, <2>1, ConcatProperties
        <3> HIDE DEF u
        <3>2. /\ Len(H!Newest(u, MaxRecent)) = IF Len(u) > MaxRecent THEN MaxRecent ELSE Len(u)
              /\ \A i \in 1 .. Len(H!Newest(u, MaxRecent)) :
                     H!Newest(u, MaxRecent)[i] = u[Len(u) - Len(H!Newest(u, MaxRecent)) + i]
            BY <3>1, NewestIs, HealthBounds
        <3>3. r = H!Newest(u, MaxRecent)
            BY <2>2 DEF u
        <3>4. PICK i \in 1 .. Len(rows.recent) + 1 : r[n] = u[i]
            <4>1. n \in 1 .. Len(H!Newest(u, MaxRecent)) /\ Len(r) = Len(H!Newest(u, MaxRecent))
                BY <3>3
            <4>2. r[n] = u[Len(u) - Len(r) + n]
                BY <3>2, <3>3, <4>1
            <4>3. Len(r) = (IF Len(u) > MaxRecent THEN MaxRecent ELSE Len(u)) /\ MaxRecent \in Nat
                BY <3>2, <3>3, HealthBounds
            <4>4. Len(u) = Len(rows.recent) + 1 /\ Len(rows.recent) \in Nat
                BY <1>1, <3>1
            <4>5. Len(r) \in Nat /\ Len(r) <= Len(u)
                BY <4>3, <4>4
            <4>6. Len(u) - Len(r) + n \in 1 .. Len(rows.recent) + 1
                BY <4>4, <4>5, EndsWithin
            <4> QED BY <4>2, <4>6
        <3>5. CASE i <= Len(rows.recent)
            <4>1. i \in 1 .. Len(rows.recent)
                BY <1>1, <3>5
            <4> QED BY <3>1, <3>4, <3>5, <4>1
        <3>6. CASE ~(i <= Len(rows.recent))
            <4>1. i - Len(rows.recent) = 1
                BY <1>1, <3>6
            <4> QED BY <2>1, <3>1, <3>4, <3>6, <4>1
        <3> QED BY <3>5, <3>6
    <2> QED BY <2>5, <2>6, <2>7
<1>6. CASE ~keep
    <2>1. r = rows.recent /\ e = rows.incidents /\ Len(r) # 0 /\ r[Len(r)].key = key
        BY <1>3, <1>6
    <2> QED BY <1>1, <2>1 DEF Loaded
<1> QED BY <1>5, <1>6

LEMMA StoreKeeps ==
    ASSUME HealthInv, NEW state \in States, NEW readable \in BOOLEAN, NEW writable \in BOOLEAN,
           H!Store(state, readable, writable)
    PROVE  /\ HealthInv'
           /\ disk'.incidents # disk.incidents => Extends(disk.incidents, disk'.incidents)
<1> DEFINE rows == H!Load(readable)
           key == <<session, state>>
           sample == [at |-> clock, key |-> key]
           event == H!Changed(rows.recent, key)
           keep == event \/ H!Due(H!Last(rows.recent).at)
           dirtied == dirty \/ keep
           write == rows.ok /\ dirtied /\ (event \/ H!Due(lastWrite))
           r == IF keep THEN H!Newest(Append(rows.recent, sample), MaxRecent) ELSE rows.recent
           e == IF event THEN H!Collected(rows, sample) ELSE rows.incidents
<1>1. /\ recent' = r /\ incidents' = e /\ read' = rows.ok
      /\ lastWrite' = IF write THEN clock ELSE lastWrite
      /\ dirty' = (dirtied /\ ~(write /\ writable))
      /\ persisted' = IF ~rows.ok THEN FALSE ELSE IF write THEN writable ELSE persisted
      /\ disk' = IF write /\ writable THEN [recent |-> r, incidents |-> e] ELSE disk
      /\ last' = key
      /\ UNCHANGED <<clock, session>>
    BY DEF H!Store
<1>2. Loaded(rows) /\ rows.ok \in BOOLEAN
    BY LoadIs
<1>3. key \in Nat \X States
    BY DEF HealthInv, RowTypes
<1>4. /\ event \in BOOLEAN /\ keep \in BOOLEAN /\ dirtied \in BOOLEAN /\ write \in BOOLEAN
    BY <1>2 DEF H!Changed, H!Due, HealthInv, RowTypes
<1> HIDE DEF rows, key
<1>a. /\ sample = [at |-> clock, key |-> key]
      /\ event <=> H!Changed(rows.recent, key)
      /\ event => keep
      /\ r = IF keep THEN H!Newest(Append(rows.recent, sample), MaxRecent) ELSE rows.recent
      /\ e = IF event THEN H!Collected(rows, sample) ELSE rows.incidents
    OBVIOUS
<1>5. /\ Paired(r, e) /\ Len(r) # 0 /\ r[Len(r)].key = key
      /\ rows.ok => Extends(disk.incidents, e)
      /\ \A n \in 1 .. Len(r) : r[n] = sample \/ \E m \in 1 .. Len(rows.recent) : r[n] = rows.recent[m]
    <2> HIDE DEF sample, event, keep, r, e
    <2> QED BY <1>2, <1>3, <1>4, <1>a, Sampled
<1>6. clock \in Gap .. MaxClock /\ clock \in 0 .. MaxClock
    BY HealthBounds DEF HealthInv, RowTypes
\* A sample that was not written changed nothing, or is of the time in which no write is due.
<1>7. ASSUME ~keep PROVE ~event /\ r = rows.recent /\ e = rows.incidents
    BY <1>7
<1>8. ASSUME ~write, rows.ok
      PROVE  \/ ~keep /\ ~dirtied /\ ~dirty
             \/ ~event /\ dirtied /\ lastWrite <= clock /\ clock < lastWrite + Gap
    <2>1. CASE ~dirtied
        BY <2>1
    <2>2. CASE dirtied
        <3>1. ~event /\ ~H!Due(lastWrite)
            BY <1>8, <2>2
        <3>2. lastWrite <= clock /\ clock < lastWrite + Gap
            BY <1>6, <3>1, HealthBounds DEF H!Due, HealthInv, RowTypes
        <3> QED BY <2>2, <3>1, <3>2
    <2> QED BY <2>1, <2>2
<1>b. ASSUME ~event PROVE e = rows.incidents
    BY <1>b
<1>c. sample.at = clock
    OBVIOUS
<1>9. write => rows.ok
    OBVIOUS
<1> HIDE DEF sample, event, keep, dirtied, write, r, e
<1>10. RowTypes'
    <2>1. dirty' \in BOOLEAN /\ persisted' \in BOOLEAN /\ read' \in BOOLEAN
        BY <1>1, <1>2, <1>4 DEF HealthInv, RowTypes
    <2>2. lastWrite' \in 0 .. MaxClock
        BY <1>1, <1>6 DEF HealthInv, RowTypes
    <2>3. r \in Seq(Row) /\ e \in Seq(Row)
        BY <1>5 DEF Paired
    <2>4. disk' \in [recent : Seq(Row), incidents : Seq(Row)]
        BY <1>1, <2>3 DEF HealthInv, RowTypes
    <2> QED BY <1>1, <2>1, <2>2, <2>4 DEF HealthInv, RowTypes
<1>11. CASE write /\ writable
    <2>1. /\ recent' = r /\ incidents' = e /\ disk'.recent = r /\ disk'.incidents = e
          /\ lastWrite' = clock /\ last' = key
        BY <1>1, <1>11
    <2>2. Extends(e, e)
        BY <1>5, ExtendsItself DEF Paired
    <2>3. RowsInv'
        BY <1>5, <2>1, <2>2 DEF RowsInv
    <2>4. read'
        BY <1>1, <1>9, <1>11
    <2>5. WriteInv'
        <3>1. OnDisk(disk.recent)'
            BY DEF OnDisk
        <3> QED BY <2>1, <2>4, <3>1 DEF WriteInv
    <2> QED BY <1>5, <1>9, <1>10, <1>11, <2>1, <2>3, <2>5 DEF HealthInv
<1>12. CASE write /\ ~writable
    <2>1. /\ recent' = r /\ incidents' = e /\ disk' = disk /\ lastWrite' = clock /\ last' = key
          /\ read' /\ ~persisted'
        BY <1>1, <1>9, <1>12
    <2>2. RowsInv'
        BY <1>5, <1>9, <1>12, <2>1 DEF RowsInv, HealthInv
    <2>3. WriteInv'
        BY <1>5, <2>1 DEF WriteInv
    <2> QED BY <1>10, <2>1, <2>2, <2>3 DEF HealthInv
<1>13. CASE ~write /\ rows.ok
    <2>1. /\ recent' = r /\ incidents' = e /\ disk' = disk /\ lastWrite' = lastWrite /\ last' = key
          /\ read' /\ (persisted' => persisted)
        BY <1>1, <1>13
    <2>3. RowsInv'
        BY <1>5, <1>13, <2>1 DEF RowsInv, HealthInv
    <2>4. ASSUME persisted PROVE disk.incidents = e /\ OnDisk(recent)' /\ (~dirty' => disk.recent = r)
        <3>1. /\ disk.incidents = rows.incidents /\ OnDisk(rows.recent)
              /\ ~dirty => disk.recent = rows.recent
            BY <1>2, <1>13, <2>4 DEF Loaded
        <3>2. CASE ~keep /\ ~dirtied /\ ~dirty
            <4>1. r = rows.recent /\ e = rows.incidents /\ disk.recent = rows.recent
                BY <1>7, <3>1, <3>2
            <4>2. recent' = rows.recent /\ disk' = disk /\ lastWrite' = lastWrite
                BY <2>1, <4>1
            <4>3. OnDisk(recent)'
                BY <3>1, <4>2 DEF OnDisk
            <4> QED BY <3>1, <4>1, <4>3
        <3>3. CASE ~event /\ dirtied /\ lastWrite <= clock /\ clock < lastWrite + Gap
            <4>1. e = rows.incidents /\ dirty'
                BY <1>1, <1>b, <1>13, <3>3
            <4>2. ASSUME NEW n \in 1 .. Len(r)
                  PROVE  \/ \E m \in 1 .. Len(disk.recent) : disk.recent[m] = r[n]
                         \/ lastWrite <= r[n].at /\ r[n].at < lastWrite + Gap
                <5>1. CASE r[n] = sample
                    BY <1>c, <3>3, <5>1
                <5>2. CASE r[n] # sample
                    <6>1. PICK m \in 1 .. Len(rows.recent) : r[n] = rows.recent[m]
                        BY <1>5, <5>2
                    <6> QED BY <3>1, <6>1 DEF OnDisk
                <5> QED BY <5>1, <5>2
            <4>3. OnDisk(recent)'
                BY <2>1, <4>2 DEF OnDisk
            <4> QED BY <3>1, <4>1, <4>3
        <3> QED BY <1>8, <1>13, <3>2, <3>3
    <2>5. WriteInv'
        BY <2>1, <2>4 DEF WriteInv
    <2> QED BY <1>10, <2>1, <2>3, <2>5 DEF HealthInv
<1>14. CASE ~rows.ok
    <2>1. /\ recent' = r /\ incidents' = e /\ disk' = disk /\ lastWrite' = lastWrite /\ last' = key
          /\ ~read' /\ ~persisted'
        BY <1>1, <1>9, <1>14
    <2>3. RowsInv'
        BY <1>5, <2>1 DEF RowsInv, HealthInv
    <2>4. WriteInv'
        BY <2>1 DEF WriteInv
    <2> QED BY <1>10, <2>1, <2>3, <2>4 DEF HealthInv
<1> QED BY <1>4, <1>11, <1>12, <1>13, <1>14

LEMMA HealthStep ==
    ASSUME HealthInv, H!Next
    PROVE  /\ HealthInv'
           /\ disk'.incidents # disk.incidents => Extends(disk.incidents, disk'.incidents)
<1>1. ASSUME NEW s \in States, NEW r \in BOOLEAN, NEW w \in BOOLEAN, H!Store(s, r, w)
      PROVE  /\ HealthInv'
             /\ disk'.incidents # disk.incidents => Extends(disk.incidents, disk'.incidents)
    BY <1>1, StoreKeeps
<1>2. ASSUME NEW r \in BOOLEAN, H!Report(r) PROVE HealthInv' /\ disk' = disk
    <2> DEFINE rows == H!Load(r)
    <2>1. /\ recent' = rows.recent /\ incidents' = rows.incidents /\ read' = rows.ok
          /\ persisted' = (persisted /\ rows.ok)
          /\ UNCHANGED <<clock, session, stores, dirty, lastWrite, disk, last>>
        BY <1>2 DEF H!Report
    <2>2. Loaded(rows) /\ rows.ok \in BOOLEAN
        BY <1>2, LoadIs
    <2> HIDE DEF rows
    <2>3. RowTypes'
        <3>1. persisted' \in BOOLEAN /\ read' \in BOOLEAN
            BY <2>1, <2>2 DEF HealthInv, RowTypes
        <3> QED BY <2>1, <3>1 DEF HealthInv, RowTypes
    <2>4. RowsInv'
        BY <2>1, <2>2 DEF HealthInv, RowsInv, Loaded
    <2>5. (persisted' <=> persisted /\ rows.ok) /\ (read' <=> rows.ok)
        BY <2>1, <2>2
    <2>6. WriteInv'
        <3>1. ASSUME persisted, rows.ok PROVE OnDisk(recent)'
            BY <2>1, <2>2, <3>1 DEF Loaded, OnDisk
        <3>2. ASSUME ~rows.ok PROVE ~persisted'
            BY <2>5, <3>2
        <3>3. dirty' = dirty /\ disk' = disk
            BY <2>1
        <3> QED BY <2>1, <2>2, <2>5, <3>1, <3>2, <3>3 DEF WriteInv, Loaded
    <2> QED BY <2>1, <2>3, <2>4, <2>6 DEF HealthInv
<1>3. CASE H!Clock
    <2>1. clock' \in Gap .. MaxClock
          /\ UNCHANGED <<session, stores, recent, incidents, read, dirty, persisted, lastWrite, disk, last>>
        BY <1>3 DEF H!Clock
    <2> QED BY <2>1 DEF HealthInv, RowTypes, RowsInv, WriteInv, OnDisk
<1>4. CASE H!Restart
    <2>1. /\ recent' = <<>> /\ incidents' = <<>> /\ ~read' /\ ~dirty' /\ persisted'
          /\ lastWrite' = 0 /\ last' = H!Unknown /\ session' = session + 1
          /\ read' \in BOOLEAN /\ dirty' \in BOOLEAN /\ persisted' \in BOOLEAN
          /\ UNCHANGED <<clock, disk>>
        BY <1>4 DEF H!Restart
    <2>2. <<>> \in Seq(Row) /\ Len(<<>>) = 0
        OBVIOUS
    <2>3. RowTypes'
        BY <2>1, HealthBounds DEF HealthInv, RowTypes
    <2>4. RowsInv'
        BY <2>1, <2>2, HealthBounds DEF HealthInv, RowsInv, Paired
    <2>5. WriteInv'
        BY <2>1 DEF WriteInv
    <2> QED BY <2>1, <2>3, <2>4, <2>5 DEF HealthInv
<1> QED BY <1>1, <1>2, <1>3, <1>4 DEF H!Next
\* What is lost is the beginning, and what is kept comes first in the new list.
LEMMA KeptFirst ==
    ASSUME NEW d \in Seq(Row), NEW e \in Seq(Row), Extends(d, e)
    PROVE  \/ H!IsPrefix(d, e)
           \/ Len(e) = MaxIncidents
              /\ \E n \in 1 .. Len(d) : H!IsPrefix(SubSeq(d, n + 1, Len(d)), e)
<1>1. PICK k \in 0 .. Len(d) :
          /\ k > 0 => Len(e) = MaxIncidents
          /\ Len(d) - k <= Len(e)
          /\ \A j \in 1 .. Len(d) - k : e[j] = d[k + j]
    BY DEF Extends
<1>2. Len(d) \in Nat /\ Len(e) \in Nat /\ k \in Nat /\ k <= Len(d)
    BY <1>1, LenProperties
<1> DEFINE l == Len(d) - k
           s == SubSeq(d, k + 1, Len(d))
<1>3. l \in Nat /\ l <= Len(e) /\ l <= Len(d)
    BY <1>1, <1>2
<1>4. s \in Seq(Row) /\ Len(s) = l /\ \A j \in 1 .. l : s[j] = d[k + j]
    <2>1. \A i \in k + 1 .. Len(d) : d[i] \in Row
        BY <1>2, ElementOfSeq
    <2>2. /\ s \in Seq(Row)
          /\ Len(s) = IF k + 1 <= Len(d) THEN Len(d) - (k + 1) + 1 ELSE 0
          /\ \A i \in 1 .. Len(d) - (k + 1) + 1 : s[i] = d[(k + 1) + i - 1]
        BY <1>2, <2>1, SubSeqProperties
    <2> HIDE DEF s
    <2>3. Len(s) = l
        BY <1>2, <2>2
    <2>4. ASSUME NEW j \in 1 .. l PROVE s[j] = d[k + j]
        <3>1. (k + 1) + j - 1 = k + j /\ j \in 1 .. Len(d) - (k + 1) + 1
            BY <1>2
        <3> QED BY <2>2, <3>1
    <2> QED BY <2>2, <2>3, <2>4
<1> HIDE DEF s
<1> DEFINE t == SubSeq(e, 1, l)
<1>5. t \in Seq(Row) /\ Len(t) = l /\ \A j \in 1 .. l : t[j] = e[j]
    <2>1. \A i \in 1 .. l : e[i] \in Row
        BY <1>2, <1>3, ElementOfSeq
    <2>2. /\ t \in Seq(Row)
          /\ Len(t) = IF 1 <= l THEN l - 1 + 1 ELSE 0
          /\ \A i \in 1 .. l - 1 + 1 : t[i] = e[1 + i - 1]
        BY <1>3, <2>1, SubSeqProperties
    <2> HIDE DEF t, l
    <2>3. ASSUME NEW j \in 1 .. l PROVE t[j] = e[j]
        <3>1. 1 + j - 1 = j /\ j \in 1 .. l - 1 + 1
            BY <1>3
        <3> QED BY <2>2, <3>1
    <2> QED BY <1>3, <2>2, <2>3
<1> HIDE DEF t
<1>6. s = t
    <2>1. \A j \in 1 .. l : s[j] = t[j]
        BY <1>1, <1>4, <1>5
    <2> HIDE DEF l
    <2> QED BY <1>4, <1>5, <2>1, SeqEqual
<1>7. H!IsPrefix(s, e)
    <2>1. SubSeq(s, 1, Len(s)) = s
        BY <1>4, SubSeqFull
    <2> QED BY <1>3, <1>4, <1>6, <2>1 DEF H!IsPrefix, t
<1>8. CASE k = 0
    <2>1. s = d
        BY <1>2, <1>8, SubSeqFull DEF s
    <2> QED BY <1>7, <2>1
<1>9. CASE k # 0
    BY <1>1, <1>2, <1>7, <1>9 DEF s
<1> QED BY <1>8, <1>9

LEMMA HealthSafe == HealthInv => H!TypeOK /\ H!PersistedIsTrue /\ H!LastIncidentIsState
<1> SUFFICES ASSUME HealthInv PROVE H!TypeOK /\ H!PersistedIsTrue /\ H!LastIncidentIsState
    OBVIOUS
<1>1. H!TypeOK
    BY DEF HealthInv, RowTypes, RowsInv, Paired, H!TypeOK
<1>2. H!PersistedIsTrue
    BY DEF HealthInv, WriteInv, OnDisk, H!PersistedIsTrue
<1>3. ASSUME last # H!Unknown PROVE H!Last(incidents).key = last
    BY <1>3 DEF HealthInv, RowsInv, Paired, H!Last
<1> QED BY <1>1, <1>2, <1>3 DEF H!LastIncidentIsState

----------------------------------------------------------------------------
(* The rules live connections matched *)

LEMMA TraceBounds == MaxInstances \in Nat /\ MaxConns \in Nat
BY BoundsAreNumbers

\* The plans have rules, and no rule is named like a verdict.
LEMMA PlansAreRules ==
    /\ Len(Plans) = 2 /\ Len(Plans[1]) = 2 /\ Len(Plans[2]) = 2
    /\ \A p \in 1 .. 2 : \A i \in 1 .. 2 : Plans[p][i].origin # "prior"
<1>1. Len(Plans) = 2
    BY DEF Plans
<1>2. Len(Plans[1]) = 2
    BY DEF Plans
<1>3. Len(Plans[2]) = 2
    BY DEF Plans
<1>4. Plans[1][1].origin = "x" /\ Plans[1][2].origin = "y"
    BY DEF Plans, Rule
<1>5. Plans[2][1].origin = "y" /\ Plans[2][2].origin = ""
    BY DEF Plans, Rule
<1>6. ASSUME NEW p \in 1 .. 2, NEW i \in 1 .. 2 PROVE Plans[p][i].origin # "prior"
    <2>1. (p = 1 \/ p = 2) /\ (i = 1 \/ i = 2)
        OBVIOUS
    <2> QED BY <2>1, <1>4, <1>5
<1> QED BY <1>1, <1>2, <1>3, <1>6

\* A kernel instance has one plan, whoever remembers it.
Agree(a, b) == a.instance = b.instance => a.plan = b.plan

Served == [instance : 0 .. MaxInstances, plan : 0 .. Len(Plans)]

Bound == [instance : 0 .. MaxInstances, prior : SUBSET C!Ids]
Reading ==
    [pc : {"idle", "rules", "body", "again", "publish", "show"}, plan : 0 .. Len(Plans),
     instance : 0 .. MaxInstances, binding : Bound, fresh : BOOLEAN, body : SUBSET C!Ids]

TraceTypes ==
    /\ core \in [running : BOOLEAN, instance : 0 .. MaxInstances, plan : 0 .. Len(Plans)]
    /\ live \in Served
    /\ conns \subseteq C!Ids /\ known \subseteq C!Ids
    /\ opened \in [C!Ids -> [instance : 0 .. MaxInstances, plan : 0 .. Len(Plans), rule : Nat]]
    /\ binding \in Bound
    /\ reader \in [Readers -> Reading]
    /\ DOMAIN shown = C!Ids

\* Instances are counted by the kernel that answers, and each has its plan.
PlanInv ==
    /\ core.instance <= live.instance /\ Agree(core, live)
    /\ core.running => core.instance # 0
    /\ live.instance = 0 <=> live.plan = 0
    /\ core.instance = 0 <=> core.plan = 0
    /\ binding.instance <= core.instance
    /\ \A i \in C!Ids :
        /\ opened[i].instance <= live.instance
        /\ Agree(opened[i], live) /\ Agree(opened[i], core)
        /\ opened[i] # C!Absent <=> opened[i].instance # 0
        /\ opened[i].instance # 0 =>
               opened[i].plan \in 1 .. Len(Plans) /\ opened[i].rule \in 1 .. Len(Plans[opened[i].plan])
    /\ \A r \in Readers :
        /\ reader[r].instance <= core.instance
        /\ Agree(reader[r], core) /\ Agree(reader[r], live)
        /\ \A i \in C!Ids : Agree(reader[r], opened[i])

\* Ids are given in order.
IdsInv ==
    \E n \in 0 .. MaxConns : \A i \in C!Ids : opened[i] # C!Absent <=> i <= n

\* What a reader has read is of the instance it began with, once that has answered again.
BodyInv ==
    /\ \A i \in conns : opened[i].instance = live.instance /\ opened[i].instance # 0
    /\ \A r \in Readers :
        /\ reader[r].pc # "idle" => reader[r].instance # 0
        /\ reader[r].pc = "again" =>
               \A i \in reader[r].body :
                   reader[r].instance <= opened[i].instance
        /\ reader[r].pc \in {"publish", "show"} =>
               \A i \in reader[r].body : opened[i].instance = reader[r].instance

\* What is published for the running instance stays, and everybody shows by it.
BindingInv ==
    /\ \A r \in Readers :
        /\ reader[r].pc \in {"body", "again", "publish"} => reader[r].binding.instance = reader[r].instance
        /\ reader[r].pc = "show" /\ reader[r].instance = core.instance =>
               binding.instance = core.instance /\ reader[r].binding = binding
    /\ \A i \in known :
        /\ opened[i].instance # 0 /\ opened[i].instance <= binding.instance
        /\ opened[i].instance = binding.instance => i \notin binding.prior

ShownInv ==
    /\ \A i \in C!Ids : shown[i] \notin C!Verdicts => i \in known
    /\ C!AttributedToItsRule
    /\ \A i \in known : shown[i] # "prior"

TraceInv == TraceTypes /\ PlanInv /\ IdsInv /\ BodyInv /\ BindingInv /\ ShownInv

LEMMA TraceInit == C!Init => TraceInv
<1> SUFFICES ASSUME C!Init PROVE TraceInv
    OBVIOUS
<1> USE TraceBounds DEF C!Init
<1>1. 0 \in 0 .. Len(Plans)
    BY DEF Plans
<1>2. TraceTypes
    BY <1>1 DEF TraceTypes, Served, Reading, Bound, C!Absent, C!NoBinding, C!Idle, C!Ids
<1>3. PlanInv
    BY DEF PlanInv, Agree, C!Absent, C!Idle, C!NoBinding
<1>4. IdsInv
    <2>1. \A i \in C!Ids : opened[i] # C!Absent <=> i <= 0
        BY DEF C!Ids
    <2> QED BY <2>1 DEF IdsInv
<1>5. BodyInv
    BY DEF BodyInv, C!Idle
<1>6. BindingInv
    BY DEF BindingInv, C!Idle
<1>7. ShownInv
    BY DEF ShownInv, C!AttributedToItsRule, C!Verdicts
<1> QED BY <1>2, <1>3, <1>4, <1>5, <1>6, <1>7 DEF TraceInv

\* An instance has its own copy of what its module extends.
LEMMA SameCardinality == \A T : C!Cardinality(T) = Cardinality(T)
BY DEF C!Cardinality, Cardinality

\* The id the next connection takes is the first that was never taken.
LEMMA NextIsUnused ==
    ASSUME IdsInv, NEW id, id = 1 + Cardinality({i \in C!Ids : opened[i] # C!Absent}), id \in C!Ids
    PROVE  /\ opened[id] = C!Absent
           /\ \A i \in C!Ids : opened[i] # C!Absent <=> i <= id - 1
<1>1. PICK n \in 0 .. MaxConns : \A i \in C!Ids : opened[i] # C!Absent <=> i <= n
    BY DEF IdsInv
<1>2. n \in Int /\ n >= 0 /\ n <= MaxConns /\ MaxConns \in Int
    BY <1>1, TraceBounds
<1>3. {i \in C!Ids : opened[i] # C!Absent} = 1 .. n
    BY <1>1, <1>2 DEF C!Ids
<1>4. Cardinality(1 .. n) = n
    BY <1>2, FS_Interval
<1>5. id = n + 1
    <2>1. Cardinality({i \in C!Ids : opened[i] # C!Absent}) = n
        BY <1>3, <1>4
    <2> QED BY <2>1
<1> QED BY <1>1, <1>2, <1>5 DEF C!Ids

----------------------------------------------------------------------------
(* What a step does to one reader *)

Others(r) == \A s \in Readers : s # r => reader'[s] = reader[s]

Dropped(r) == reader'[r] = C!Idle /\ shown' = [i \in C!Ids |-> Unread] /\ known' = known

Keeps(r) ==
    /\ reader'[r].plan = reader[r].plan /\ reader'[r].instance = reader[r].instance
    /\ shown' = shown /\ known' = known

LEMMA IdleReading == C!Idle \in Reading
<1>1. 0 \in 0 .. Len(Plans)
    BY PlansAreRules
<1> QED BY <1>1, TraceBounds DEF C!Idle, C!NoBinding, Reading, Bound, C!Ids

LEMMA BeginEffect ==
    ASSUME TraceTypes, NEW r \in Readers, C!Begin(r)
    PROVE  /\ reader' \in [Readers -> Reading] /\ Others(r)
           /\ core.running /\ live.instance = core.instance
           /\ reader'[r].pc = IF binding.instance = core.instance THEN "body" ELSE "rules"
           /\ reader'[r].plan = core.plan /\ reader'[r].instance = core.instance
           /\ reader'[r].binding = binding /\ reader'[r].body = {}
           /\ UNCHANGED <<core, live, conns, opened, binding, shown, known>>
<1> DEFINE pc == IF binding.instance = core.instance THEN "body" ELSE "rules"
           v == reader'[r]
<1>1. v = [C!Idle EXCEPT !.pc = pc, !.plan = core.plan, !.instance = core.instance, !.binding = binding]
    BY DEF C!Begin, TraceTypes
<1>2. pc \in {"body", "rules"}
    OBVIOUS
<1>3. /\ v \in Reading /\ v.pc = pc /\ v.plan = core.plan /\ v.instance = core.instance
      /\ v.binding = binding /\ v.body = {}
    <2> HIDE DEF v, pc
    <2> QED BY <1>1, <1>2 DEF C!Idle, Reading, TraceTypes
<1> QED BY <1>3 DEF C!Begin, Others, TraceTypes

LEMMA RulesEffect ==
    ASSUME TraceTypes, NEW r \in Readers, C!Rules(r)
    PROVE  /\ reader' \in [Readers -> Reading] /\ Others(r) /\ reader[r].pc = "rules"
           /\ \/ Dropped(r)
              \/ /\ Keeps(r) /\ reader'[r].pc = "body" /\ reader'[r].body = reader[r].body
                 /\ reader'[r].binding.instance = reader[r].instance
           /\ UNCHANGED <<core, live, conns, opened, binding, known>>
<1> DEFINE q == reader[r]
           v == reader'[r]
<1>1. q \in Reading
    BY DEF TraceTypes
<1>2. CASE C!Drop(r)
    BY <1>2, IdleReading DEF C!Rules, C!Drop, Others, Dropped, TraceTypes
<1>3. CASE /\ reader' = [reader EXCEPT ![r].pc = "body", ![r].fresh = TRUE,
                             ![r].binding = [instance |-> q.instance, prior |-> {}]]
           /\ shown' = shown
    <2>1. v = [[[q EXCEPT !.pc = "body"] EXCEPT !.fresh = TRUE]
                   EXCEPT !.binding = [instance |-> q.instance, prior |-> {}]]
        BY <1>3 DEF TraceTypes
    <2>2. /\ v \in Reading /\ v.pc = "body" /\ v.plan = q.plan /\ v.instance = q.instance
          /\ v.binding.instance = q.instance /\ v.body = q.body
        <3> HIDE DEF v, q
        <3> QED BY <1>1, <2>1 DEF Reading, Bound
    <2> QED BY <1>3, <2>2 DEF C!Rules, Others, Keeps, TraceTypes
<1> QED BY <1>2, <1>3 DEF C!Rules

LEMMA BodyEffect ==
    ASSUME TraceTypes, NEW r \in Readers, C!Body(r)
    PROVE  /\ reader' \in [Readers -> Reading] /\ Others(r) /\ Keeps(r) /\ reader[r].pc = "body"
           /\ reader'[r].pc = "again" /\ reader'[r].body = conns
           /\ reader'[r].binding = reader[r].binding
           /\ UNCHANGED <<core, live, conns, opened, binding, shown, known>>
<1> DEFINE q == reader[r]
           v == reader'[r]
<1>1. q \in Reading
    BY DEF TraceTypes
<1>2. v = [[q EXCEPT !.pc = "again"] EXCEPT !.body = conns]
    BY DEF C!Body, TraceTypes
<1>3. /\ v \in Reading /\ v.pc = "again" /\ v.plan = q.plan /\ v.instance = q.instance
      /\ v.binding = q.binding /\ v.body = conns
    <2> HIDE DEF v, q
    <2> QED BY <1>1, <1>2 DEF Reading, TraceTypes
<1> QED BY <1>3 DEF C!Body, Others, Keeps, TraceTypes

LEMMA AgainEffect ==
    ASSUME TraceTypes, NEW r \in Readers, C!Again(r)
    PROVE  /\ reader' \in [Readers -> Reading] /\ Others(r) /\ reader[r].pc = "again"
           /\ \/ Dropped(r)
              \/ /\ Keeps(r) /\ live.instance = reader[r].instance
                 /\ reader'[r].pc = "publish" /\ reader'[r].body = reader[r].body
                 /\ reader'[r].binding.instance = reader[r].binding.instance
           /\ UNCHANGED <<core, live, conns, opened, binding, known>>
<1> DEFINE q == reader[r]
           v == reader'[r]
           prior == IF q.fresh THEN q.body ELSE q.binding.prior
<1>1. q \in Reading
    BY DEF TraceTypes
<1>2. CASE C!Drop(r)
    BY <1>2, IdleReading DEF C!Again, C!Drop, Others, Dropped, TraceTypes
<1>3. CASE /\ reader' = [reader EXCEPT ![r].pc = "publish",
                             ![r].binding.prior = IF q.fresh THEN q.body ELSE @]
           /\ shown' = shown /\ live.instance = q.instance
    <2>1. v = [[q EXCEPT !.pc = "publish"] EXCEPT !.binding = [q.binding EXCEPT !.prior = prior]]
        BY <1>1, <1>3 DEF TraceTypes, Reading
    <2>2. prior \in SUBSET C!Ids
        BY <1>1 DEF Reading, Bound
    <2>3. /\ v \in Reading /\ v.pc = "publish" /\ v.plan = q.plan /\ v.instance = q.instance
          /\ v.binding.instance = q.binding.instance /\ v.body = q.body
        <3> HIDE DEF v, q, prior
        <3> QED BY <1>1, <2>1, <2>2 DEF Reading, Bound
    <2> QED BY <1>3, <2>3 DEF C!Again, Others, Keeps, TraceTypes
<1> QED BY <1>2, <1>3 DEF C!Again

LEMMA PublishEffect ==
    ASSUME TraceTypes, NEW r \in Readers, C!Publish(r)
    PROVE  /\ reader' \in [Readers -> Reading] /\ Others(r) /\ reader[r].pc = "publish"
           /\ \/ Dropped(r) /\ binding' = binding
              \/ /\ Keeps(r) /\ C!Current(reader[r].plan, reader[r].instance)
                 /\ reader'[r].pc = "show" /\ reader'[r].body = reader[r].body
                 /\ binding' = IF binding.instance = reader[r].instance THEN binding ELSE reader[r].binding
                 /\ reader'[r].binding = binding'
           /\ UNCHANGED <<core, live, conns, opened, known>>
<1> DEFINE q == reader[r]
           v == reader'[r]
<1>1. q \in Reading
    BY DEF TraceTypes
<1>2. CASE C!Drop(r) /\ binding' = binding
    BY <1>2, IdleReading DEF C!Publish, C!Drop, Others, Dropped, TraceTypes
<1>3. CASE /\ reader' = [reader EXCEPT ![r].pc = "show", ![r].binding = binding']
           /\ binding' = IF binding.instance = q.instance THEN binding ELSE q.binding
           /\ shown' = shown /\ C!Current(q.plan, q.instance)
    <2>1. v = [[q EXCEPT !.pc = "show"] EXCEPT !.binding = binding']
        BY <1>3 DEF TraceTypes
    <2>2. binding' \in Bound
        BY <1>1, <1>3 DEF Reading, TraceTypes
    <2>3. /\ v \in Reading /\ v.pc = "show" /\ v.plan = q.plan /\ v.instance = q.instance
          /\ v.binding = binding' /\ v.body = q.body
        <3> HIDE DEF v, q
        <3> QED BY <1>1, <2>1, <2>2 DEF Reading
    <2> QED BY <1>3, <2>3 DEF C!Publish, Others, Keeps, TraceTypes
<1> QED BY <1>2, <1>3 DEF C!Publish

LEMMA ShowEffect ==
    ASSUME TraceTypes, NEW r \in Readers, C!Show(r)
    PROVE  /\ reader' \in [Readers -> Reading] /\ Others(r) /\ reader[r].pc = "show"
           /\ reader'[r] = C!Idle
           /\ DOMAIN shown' = C!Ids
           /\ known' = known \cup {i \in C!Ids : shown'[i] \notin C!Verdicts}
           /\ \/ shown' = shown
              \/ /\ C!Current(reader[r].plan, reader[r].instance)
                 /\ \A i \in C!Ids :
                        shown'[i] = IF i \in reader[r].body
                                    THEN C!Resolve(reader[r].plan, reader[r].binding.prior, i,
                                             Plans[opened[i].plan][opened[i].rule].description)
                                    ELSE Unread
           /\ UNCHANGED <<core, live, conns, opened, binding>>
<1>1. reader' \in [Readers -> Reading] /\ Others(r) /\ reader'[r] = C!Idle
    BY IdleReading DEF C!Show, Others, TraceTypes
<1>2. CASE C!Current(reader[r].plan, reader[r].instance)
    BY <1>1, <1>2 DEF C!Show
<1>3. CASE ~C!Current(reader[r].plan, reader[r].instance)
    BY <1>1, <1>3 DEF C!Show, TraceTypes
<1> QED BY <1>2, <1>3

\* The kernel's side: a new instance is none that anybody remembers.
LEMMA KernelEffect ==
    ASSUME TraceTypes, C!Stopped \/ \E p \in 1 .. Len(Plans) : C!Start(p) \/ C!Replaced(p)
    PROVE  /\ UNCHANGED <<opened, binding, reader, shown, known>>
           /\ \/ live' = live /\ conns' = conns /\ core'.instance = core.instance /\ core'.plan = core.plan
                 /\ ~core'.running /\ core.running
              \/ /\ live' \in Served /\ live'.instance = live.instance + 1 /\ live'.plan # 0 /\ conns' = {}
                 /\ \/ core' = core
                    \/ core'.instance = live'.instance /\ core'.plan = live'.plan /\ core'.running
           /\ core' \in [running : BOOLEAN, instance : 0 .. MaxInstances, plan : 0 .. Len(Plans)]
<1> USE TraceBounds, PlansAreRules
<1>1. CASE C!Stopped
    BY <1>1 DEF C!Stopped, TraceTypes
<1>2. ASSUME NEW p \in 1 .. Len(Plans), C!Start(p) \/ C!Replaced(p)
      PROVE  /\ UNCHANGED <<opened, binding, reader, shown, known>>
             /\ live' \in Served /\ live'.instance = live.instance + 1 /\ live'.plan # 0 /\ conns' = {}
             /\ \/ core' = core
                \/ core'.instance = live'.instance /\ core'.plan = live'.plan /\ core'.running
             /\ core' \in [running : BOOLEAN, instance : 0 .. MaxInstances, plan : 0 .. Len(Plans)]
    <2>1. CASE C!Start(p)
        BY <2>1 DEF C!Start, TraceTypes, Served
    <2>2. CASE C!Replaced(p)
        BY <2>2 DEF C!Replaced, TraceTypes, Served
    <2> QED BY <1>2, <2>1, <2>2
<1> QED BY <1>1, <1>2

LEMMA OpenEffect ==
    ASSUME TraceTypes, IdsInv, NEW rule \in 1 .. 3, C!Open(rule)
    PROVE  \E id \in C!Ids :
               /\ opened[id] = C!Absent /\ conns' = conns \cup {id}
               /\ opened'[id] = [instance |-> live.instance, plan |-> live.plan, rule |-> rule]
               /\ \A i \in C!Ids : i # id => opened'[i] = opened[i]
               /\ live.instance # 0 /\ rule \in 1 .. Len(Plans[live.plan])
               /\ opened' \in [C!Ids -> [instance : 0 .. MaxInstances, plan : 0 .. Len(Plans), rule : Nat]]
               /\ IdsInv'
               /\ UNCHANGED <<core, live, binding, reader, shown, known>>
<1> DEFINE id == 1 + Cardinality({i \in C!Ids : opened[i] # C!Absent})
           new == [instance |-> live.instance, plan |-> live.plan, rule |-> rule]
<1>1. /\ id \in C!Ids /\ live.instance # 0 /\ rule \in 1 .. Len(Plans[live.plan])
      /\ conns' = conns \cup {id} /\ opened' = [opened EXCEPT ![id] = new]
      /\ UNCHANGED <<core, live, binding, reader, shown, known>>
    BY SameCardinality DEF C!Open
<1>2. opened[id] = C!Absent /\ \A i \in C!Ids : opened[i] # C!Absent <=> i <= id - 1
    BY <1>1, NextIsUnused
<1> HIDE DEF id
<1>3. new \in [instance : 0 .. MaxInstances, plan : 0 .. Len(Plans), rule : Nat]
    BY DEF TraceTypes, Served
<1>4. new # C!Absent
    BY <1>1 DEF C!Absent
<1> HIDE DEF new
<1>5. /\ opened'[id] = new /\ \A i \in C!Ids : i # id => opened'[i] = opened[i]
      /\ opened' \in [C!Ids -> [instance : 0 .. MaxInstances, plan : 0 .. Len(Plans), rule : Nat]]
    BY <1>1, <1>3 DEF TraceTypes
<1>6. IdsInv'
    <2>1. id \in 0 .. MaxConns /\ C!Ids \subseteq Int /\ id \in Int
        BY <1>1, TraceBounds DEF C!Ids
    <2>2. \A i \in C!Ids : opened'[i] # C!Absent <=> i <= id
        <3> SUFFICES ASSUME NEW i \in C!Ids PROVE opened'[i] # C!Absent <=> i <= id
            OBVIOUS
        <3>1. CASE i = id
            BY <1>4, <1>5, <2>1, <3>1
        <3>2. CASE i # id
            <4>1. i <= id - 1 <=> i <= id
                BY <2>1, <3>2
            <4> QED BY <1>2, <1>5, <3>2, <4>1
        <3> QED BY <3>1, <3>2
    <2> QED BY <2>1, <2>2 DEF IdsInv
<1> QED BY <1>1, <1>2, <1>5, <1>6 DEF new

LEMMA TraceCases ==
    ASSUME C!Next
    PROVE  \/ C!Stopped \/ \E p \in 1 .. Len(Plans) : C!Start(p) \/ C!Replaced(p)
           \/ \E rule \in 1 .. 3 : C!Open(rule)
           \/ \E r \in Readers :
                  C!Begin(r) \/ C!Rules(r) \/ C!Body(r) \/ C!Again(r) \/ C!Publish(r) \/ C!Show(r)
BY DEF C!Next

LEMMA TraceTypesStep == ASSUME TraceTypes, IdsInv, C!Next PROVE TraceTypes' /\ IdsInv'
<1>1. CASE C!Stopped \/ \E p \in 1 .. Len(Plans) : C!Start(p) \/ C!Replaced(p)
    <2>1. live' \in Served /\ conns' \subseteq C!Ids
        BY <1>1, KernelEffect DEF TraceTypes
    <2>2. /\ UNCHANGED <<opened, binding, reader, shown, known>>
          /\ core' \in [running : BOOLEAN, instance : 0 .. MaxInstances, plan : 0 .. Len(Plans)]
        BY <1>1, KernelEffect
    <2>3. TraceTypes'
        BY <2>1, <2>2 DEF TraceTypes
    <2>4. IdsInv'
        BY <2>2 DEF IdsInv
    <2> QED BY <2>3, <2>4
<1>2. ASSUME NEW rule \in 1 .. 3, C!Open(rule) PROVE TraceTypes' /\ IdsInv'
    <2>1. PICK id \in C!Ids :
               /\ conns' = conns \cup {id}
               /\ opened' \in [C!Ids -> [instance : 0 .. MaxInstances, plan : 0 .. Len(Plans), rule : Nat]]
               /\ IdsInv'
               /\ UNCHANGED <<core, live, binding, reader, shown, known>>
        BY <1>2, OpenEffect
    <2>2. TraceTypes'
        BY <2>1 DEF TraceTypes
    <2> QED BY <2>1, <2>2
<1>3. ASSUME NEW r \in Readers, C!Begin(r) PROVE TraceTypes' /\ IdsInv'
    BY <1>3, BeginEffect DEF TraceTypes, IdsInv
<1>4. ASSUME NEW r \in Readers, C!Rules(r) PROVE TraceTypes' /\ IdsInv'
    BY <1>4, RulesEffect DEF TraceTypes, IdsInv, Dropped, Keeps
<1>5. ASSUME NEW r \in Readers, C!Body(r) PROVE TraceTypes' /\ IdsInv'
    BY <1>5, BodyEffect DEF TraceTypes, IdsInv
<1>6. ASSUME NEW r \in Readers, C!Again(r) PROVE TraceTypes' /\ IdsInv'
    BY <1>6, AgainEffect DEF TraceTypes, IdsInv, Dropped, Keeps
<1>7. ASSUME NEW r \in Readers, C!Publish(r) PROVE TraceTypes' /\ IdsInv'
    <2>1. binding' \in Bound
        BY <1>7, PublishEffect DEF TraceTypes, Reading
    <2>2. shown' = shown \/ shown' = [i \in C!Ids |-> Unread]
        BY <1>7, PublishEffect DEF Dropped, Keeps
    <2>3. UNCHANGED <<core, live, conns, opened, known>> /\ reader' \in [Readers -> Reading]
        BY <1>7, PublishEffect
    <2> QED BY <2>1, <2>2, <2>3 DEF TraceTypes, IdsInv
<1>8. ASSUME NEW r \in Readers, C!Show(r) PROVE TraceTypes' /\ IdsInv'
    <2>1. known' \subseteq C!Ids
        BY <1>8, ShowEffect DEF TraceTypes
    <2> QED BY <1>8, <2>1, ShowEffect DEF TraceTypes, IdsInv
<1> QED BY <1>1, <1>2, <1>3, <1>4, <1>5, <1>6, <1>7, <1>8, TraceCases

\* A reader forgets what it was about, keeps it, or begins with what the store has now.
LEMMA ReaderIs ==
    ASSUME TraceTypes, NEW r \in Readers,
           C!Begin(r) \/ C!Rules(r) \/ C!Body(r) \/ C!Again(r) \/ C!Publish(r) \/ C!Show(r)
    PROVE  /\ Others(r) /\ UNCHANGED <<core, live, conns, opened>>
           /\ \/ reader'[r].instance = 0 /\ reader'[r].plan = 0
              \/ reader'[r].instance = reader[r].instance /\ reader'[r].plan = reader[r].plan
              \/ /\ reader'[r].instance = core.instance /\ reader'[r].plan = core.plan
<1>1. C!Idle.instance = 0 /\ C!Idle.plan = 0
    BY DEF C!Idle
<1>2. CASE C!Begin(r)
    BY <1>2, BeginEffect
<1>3. CASE C!Rules(r)
    BY <1>1, <1>3, RulesEffect DEF Dropped, Keeps
<1>4. CASE C!Body(r)
    BY <1>4, BodyEffect DEF Keeps
<1>5. CASE C!Again(r)
    BY <1>1, <1>5, AgainEffect DEF Dropped, Keeps
<1>6. CASE C!Publish(r)
    BY <1>1, <1>6, PublishEffect DEF Dropped, Keeps
<1>7. CASE C!Show(r)
    BY <1>1, <1>7, ShowEffect
<1> QED BY <1>2, <1>3, <1>4, <1>5, <1>6, <1>7

LEMMA PlanStep ==
    ASSUME TraceTypes, TraceTypes', PlanInv, IdsInv, BodyInv, BindingInv, C!Next
    PROVE  PlanInv'
<1>0. /\ core.instance \in Int /\ live.instance \in Int /\ binding.instance \in Int
      /\ \A i \in C!Ids : opened[i].instance \in Int
      /\ \A r \in Readers : reader[r].instance \in Int
    <2>1. \A n \in 0 .. MaxInstances : n \in Int
        BY TraceBounds
    <2> QED BY <2>1 DEF TraceTypes, Served, Bound, Reading
<1>1. CASE C!Stopped \/ \E p \in 1 .. Len(Plans) : C!Start(p) \/ C!Replaced(p)
    <2>1. UNCHANGED <<opened, binding, reader>>
        BY <1>1, KernelEffect
    <2>2. CASE /\ live' = live /\ core'.instance = core.instance /\ core'.plan = core.plan
               /\ ~core'.running
        BY <2>1, <2>2 DEF PlanInv, Agree
    <2>3. CASE /\ live'.instance = live.instance + 1 /\ live'.plan # 0
               /\ \/ core' = core
                  \/ core'.instance = live'.instance /\ core'.plan = live'.plan
        <3>1. core'.instance <= live'.instance /\ Agree(core, live)' /\ core.instance <= core'.instance
            BY <1>0, <2>3 DEF PlanInv, Agree
        <3>2. (core'.running => core'.instance # 0) /\ (core'.instance = 0 <=> core'.plan = 0)
            BY <1>0, <2>3 DEF PlanInv, TraceTypes, Served
        <3>3. binding.instance <= core'.instance
            BY <1>0, <2>1, <2>3, <3>1 DEF PlanInv
        <3>4. ASSUME NEW i \in C!Ids
              PROVE  /\ opened[i].instance <= live'.instance
                     /\ Agree(opened[i], live') /\ Agree(opened[i], core')
            BY <1>0, <2>3 DEF PlanInv, Agree
        <3>5. ASSUME NEW r \in Readers
              PROVE  /\ reader[r].instance <= core'.instance
                     /\ Agree(reader[r], live') /\ Agree(reader[r], core')
            BY <1>0, <2>3, <3>1 DEF PlanInv, Agree
        <3>6. live'.instance # 0
            BY <1>0, <2>3, TraceBounds DEF TraceTypes, Served
        <3>7. ASSUME NEW i \in C!Ids
              PROVE  /\ opened[i] # C!Absent <=> opened[i].instance # 0
                     /\ opened[i].instance # 0 =>
                            opened[i].plan \in 1 .. Len(Plans) /\ opened[i].rule \in 1 .. Len(Plans[opened[i].plan])
            BY DEF PlanInv
        <3>8. \A r \in Readers, i \in C!Ids : Agree(reader[r], opened[i])
            BY DEF PlanInv
        <3> QED BY <2>1, <2>3, <3>1, <3>2, <3>3, <3>4, <3>5, <3>6, <3>7, <3>8 DEF PlanInv
    <2>4. \/ live' = live /\ core'.instance = core.instance /\ core'.plan = core.plan /\ ~core'.running
          \/ /\ live'.instance = live.instance + 1 /\ live'.plan # 0
             /\ core' = core \/ (core'.instance = live'.instance /\ core'.plan = live'.plan)
        BY <1>1, KernelEffect
    <2> QED BY <2>2, <2>3, <2>4
<1>2. ASSUME NEW rule \in 1 .. 3, C!Open(rule) PROVE PlanInv'
    <2>1. PICK id \in C!Ids :
               /\ opened[id] = C!Absent
               /\ opened'[id] = [instance |-> live.instance, plan |-> live.plan, rule |-> rule]
               /\ \A i \in C!Ids : i # id => opened'[i] = opened[i]
               /\ live.instance # 0 /\ rule \in 1 .. Len(Plans[live.plan])
               /\ UNCHANGED <<core, live, binding, reader>>
        BY <1>2, OpenEffect
    <2>2. /\ opened'[id].instance = live.instance /\ opened'[id].plan = live.plan
          /\ opened'[id].rule = rule /\ opened'[id] # C!Absent
        BY <2>1 DEF C!Absent
    <2>3. live.plan \in 1 .. Len(Plans)
        BY <2>1, PlansAreRules DEF PlanInv, TraceTypes, Served
    <2>4. ASSUME NEW i \in C!Ids
          PROVE  /\ opened'[i].instance <= live.instance
                 /\ Agree(opened'[i], live) /\ Agree(opened'[i], core)
                 /\ opened'[i] # C!Absent <=> opened'[i].instance # 0
                 /\ opened'[i].instance # 0 =>
                        opened'[i].plan \in 1 .. Len(Plans) /\ opened'[i].rule \in 1 .. Len(Plans[opened'[i].plan])
                 /\ \A r \in Readers : Agree(reader[r], opened'[i])
        <3>1. CASE i = id
            BY <1>0, <2>1, <2>2, <2>3, <3>1 DEF PlanInv, Agree
        <3>2. CASE i # id
            BY <2>1, <3>2 DEF PlanInv
        <3> QED BY <3>1, <3>2
    <2> QED BY <2>1, <2>4 DEF PlanInv, Agree
<1>3. ASSUME NEW r \in Readers,
             C!Begin(r) \/ C!Rules(r) \/ C!Body(r) \/ C!Again(r) \/ C!Publish(r) \/ C!Show(r)
      PROVE  PlanInv'
    <2>1. Others(r) /\ UNCHANGED <<core, live, conns, opened>>
        BY <1>3, ReaderIs
    <2>2. binding'.instance <= core.instance
        <3>1. CASE C!Publish(r)
            <4>1. binding' = binding \/ (binding' = reader[r].binding /\ reader[r].pc = "publish")
                BY <3>1, PublishEffect
            <4> QED BY <1>0, <4>1 DEF PlanInv, BindingInv
        <3>2. CASE binding' = binding
            BY <3>2 DEF PlanInv
        <3> QED BY <1>3, <3>1, <3>2, BeginEffect, RulesEffect, BodyEffect, AgainEffect, ShowEffect
    <2>3. /\ reader'[r].instance <= core.instance
          /\ Agree(reader'[r], core) /\ Agree(reader'[r], live)
          /\ \A i \in C!Ids : Agree(reader'[r], opened[i])
        <3>1. CASE reader'[r].instance = 0 /\ reader'[r].plan = 0
            <4>1. core.instance >= 0
                BY TraceBounds DEF TraceTypes
            <4>2. \A i \in C!Ids : opened[i].instance = 0 => opened[i].plan = 0
                BY DEF PlanInv, C!Absent
            <4> QED BY <1>0, <3>1, <4>1, <4>2 DEF PlanInv, Agree
        <3>2. CASE reader'[r].instance = reader[r].instance /\ reader'[r].plan = reader[r].plan
            BY <3>2 DEF PlanInv, Agree
        <3>3. CASE reader'[r].instance = core.instance /\ reader'[r].plan = core.plan
            BY <1>0, <3>3 DEF PlanInv, Agree
        <3> QED BY <1>3, <3>1, <3>2, <3>3, ReaderIs
    <2>4. ASSUME NEW s \in Readers
          PROVE  /\ reader'[s].instance <= core.instance
                 /\ Agree(reader'[s], core) /\ Agree(reader'[s], live)
                 /\ \A i \in C!Ids : Agree(reader'[s], opened[i])
        BY <2>1, <2>3 DEF Others, PlanInv
    <2> QED BY <2>1, <2>2, <2>4 DEF PlanInv, Agree
<1> QED BY <1>1, <1>2, <1>3, TraceCases
LEMMA Counted ==
    ASSUME TraceTypes
    PROVE  /\ core.instance \in Int /\ live.instance \in Int /\ binding.instance \in Int
           /\ \A i \in C!Ids : opened[i].instance \in Int /\ opened[i].instance >= 0
           /\ \A r \in Readers : reader[r].instance \in Int /\ reader[r].instance >= 0
                                 /\ reader[r].body \subseteq C!Ids
BY TraceBounds DEF TraceTypes, Served, Bound, Reading

LEMMA BodyStep == ASSUME TraceTypes, PlanInv, IdsInv, BodyInv, C!Next PROVE BodyInv'
<1>0. /\ core.instance \in Int /\ live.instance \in Int
      /\ \A i \in C!Ids : opened[i].instance \in Int /\ opened[i].instance >= 0
      /\ \A r \in Readers : reader[r].instance \in Int /\ reader[r].instance >= 0
                            /\ reader[r].body \subseteq C!Ids
      /\ conns \subseteq C!Ids
    BY Counted DEF TraceTypes
<1>1. CASE C!Stopped \/ \E p \in 1 .. Len(Plans) : C!Start(p) \/ C!Replaced(p)
    BY <1>1, KernelEffect DEF BodyInv
<1>2. ASSUME NEW rule \in 1 .. 3, C!Open(rule) PROVE BodyInv'
    <2>1. PICK id \in C!Ids :
               /\ opened[id] = C!Absent /\ conns' = conns \cup {id}
               /\ opened'[id] = [instance |-> live.instance, plan |-> live.plan, rule |-> rule]
               /\ \A i \in C!Ids : i # id => opened'[i] = opened[i]
               /\ live.instance # 0
               /\ UNCHANGED <<core, live, binding, reader>>
        BY <1>2, OpenEffect
    <2>2. opened'[id].instance = live.instance /\ opened[id].instance = 0
        BY <2>1 DEF C!Absent
    <2>3. ASSUME NEW i \in conns' PROVE opened'[i].instance = live.instance
        BY <1>0, <2>1, <2>2 DEF BodyInv
    <2>4. ASSUME NEW r \in Readers, NEW i \in reader[r].body,
                 reader[r].pc \in {"again", "publish", "show"}
          PROVE  opened'[i] = opened[i]
        <3>1. opened[i].instance # 0
            BY <1>0, <2>4 DEF BodyInv
        <3> QED BY <1>0, <2>1, <2>2, <3>1
    <2> QED BY <2>1, <2>3, <2>4 DEF BodyInv
<1>3. ASSUME NEW r \in Readers,
             C!Begin(r) \/ C!Rules(r) \/ C!Body(r) \/ C!Again(r) \/ C!Publish(r) \/ C!Show(r)
      PROVE  BodyInv'
    <2>1. Others(r) /\ UNCHANGED <<core, live, conns, opened>>
        BY <1>3, ReaderIs
    <2>2. /\ reader'[r].pc # "idle" => reader'[r].instance # 0
          /\ reader'[r].pc = "again" =>
                 \A i \in reader'[r].body : reader'[r].instance <= opened[i].instance
          /\ reader'[r].pc \in {"publish", "show"} =>
                 \A i \in reader'[r].body : opened[i].instance = reader'[r].instance
        <3>1. CASE reader'[r] = C!Idle
            BY <3>1 DEF C!Idle
        <3>2. CASE C!Begin(r)
            BY <3>2, BeginEffect DEF PlanInv
        <3>3. CASE C!Rules(r) /\ reader'[r] # C!Idle
            BY <3>3, RulesEffect DEF BodyInv, Dropped, Keeps
        <3>4. CASE C!Body(r)
            <4>1. reader[r].instance <= live.instance
                BY <1>0 DEF PlanInv
            <4> QED BY <3>4, <4>1, BodyEffect DEF BodyInv, Keeps
        <3>5. CASE C!Again(r) /\ reader'[r] # C!Idle
            <4>1. \A i \in C!Ids : opened[i].instance <= live.instance
                BY DEF PlanInv
            <4> QED BY <1>0, <3>5, <4>1, AgainEffect DEF BodyInv, Dropped, Keeps
        <3>6. CASE C!Publish(r) /\ reader'[r] # C!Idle
            BY <3>6, PublishEffect DEF BodyInv, Dropped, Keeps
        <3>7. CASE C!Show(r)
            BY <3>1, <3>7, ShowEffect
        <3> QED BY <1>3, <3>1, <3>2, <3>3, <3>4, <3>5, <3>6, <3>7
    <2> QED BY <2>1, <2>2 DEF BodyInv, Others
<1> QED BY <1>1, <1>2, <1>3, TraceCases

\* The verdict on a connection of the reader's own plan.
LEMMA ResolveIsTrue ==
    ASSUME NEW p \in 1 .. Len(Plans), NEW k \in 1 .. Len(Plans[p]), NEW prior, NEW id
    PROVE  LET v == C!Resolve(p, prior, id, Plans[p][k].description)
           IN  /\ v \notin C!Verdicts => v = Plans[p][k].origin
               /\ v \notin C!Verdicts \/ v = "prior" => (id \in prior <=> v = "prior")
               /\ Unread # "prior"
<1> DEFINE text == Plans[p][k].description
           rules == C!Described(p, text)
           v == C!Resolve(p, prior, id, text)
<1>1. p \in 1 .. 2 /\ k \in 1 .. 2 /\ Len(Plans[p]) = 2
    <2>1. p \in 1 .. 2
        BY PlansAreRules
    <2>2. p = 1 \/ p = 2
        BY <2>1
    <2>3. Len(Plans[p]) = 2
        BY <2>2, PlansAreRules
    <2> QED BY <2>1, <2>3
<1>2. rules \subseteq 1 .. 2 /\ k \in rules
    BY <1>1 DEF C!Described
<1>3. IsFiniteSet(rules) /\ Cardinality(rules) \in Nat
    <2>1. IsFiniteSet(1 .. 2)
        BY 1 \in Int, 2 \in Int, FS_Interval
    <2>2. rules \in SUBSET (1 .. 2)
        BY <1>2
    <2> HIDE DEF rules
    <2>3. IsFiniteSet(rules)
        BY <2>1, <2>2, FS_Subset
    <2> QED BY <2>3, FS_CardinalityType
<1>4. /\ {"prior", "unmapped", "ambiguous"} \subseteq C!Verdicts
      /\ Unread # "prior"
    BY UnreadIsNoVerdict DEF C!Verdicts
<1>5. CASE id \in prior
    BY <1>4, <1>5 DEF C!Resolve
<1>6. CASE id \notin prior
    <2>1. CASE Cardinality(rules) > 1
        <3>1. v = "ambiguous"
            BY <1>2, <1>6, <2>1, SameCardinality DEF C!Resolve
        <3> QED BY <1>4, <3>1
    <2>2. CASE ~(Cardinality(rules) > 1)
        <3>1. Cardinality(rules) = 1
            BY <1>2, <1>3, <2>2, FS_EmptySet
        <3>2. PICK x : rules = {x}
            BY <1>3, <3>1, FS_Singleton
        <3>3. rules = {k}
            BY <1>2, <3>2
        <3>4. (CHOOSE i \in rules : TRUE) = k
            BY <3>3
        <3>5. v = IF Plans[p][k].origin = "" THEN "unmapped" ELSE Plans[p][k].origin
            BY <1>2, <1>6, <2>2, <3>4, SameCardinality DEF C!Resolve
        <3>6. Plans[p][k].origin # "prior"
            BY <1>1, PlansAreRules
        <3> QED BY <1>4, <1>6, <3>5, <3>6
    <2> QED BY <2>1, <2>2
<1> QED BY <1>5, <1>6

LEMMA BindingStep == ASSUME TraceTypes, PlanInv, IdsInv, BodyInv, BindingInv, ShownInv, C!Next PROVE BindingInv'
<1>0. /\ core.instance \in Int /\ live.instance \in Int /\ binding.instance \in Int
      /\ \A i \in C!Ids : opened[i].instance \in Int /\ opened[i].instance >= 0
      /\ \A r \in Readers : reader[r].instance \in Int /\ reader[r].instance >= 0
                            /\ reader[r].body \subseteq C!Ids
      /\ known \subseteq C!Ids
    BY Counted DEF TraceTypes
<1>1. CASE C!Stopped \/ \E p \in 1 .. Len(Plans) : C!Start(p) \/ C!Replaced(p)
    <2>1. UNCHANGED <<opened, binding, reader, known>>
        BY <1>1, KernelEffect
    <2>2. core'.instance = core.instance \/ core'.instance = live.instance + 1
        BY <1>1, KernelEffect
    <2>3. ASSUME NEW r \in Readers, reader[r].instance = core'.instance
          PROVE  reader[r].instance = core.instance
        BY <1>0, <2>2, <2>3 DEF PlanInv
    <2> QED BY <2>1, <2>3 DEF BindingInv
<1>2. ASSUME NEW rule \in 1 .. 3, C!Open(rule) PROVE BindingInv'
    <2>1. PICK id \in C!Ids :
               /\ opened[id] = C!Absent
               /\ \A i \in C!Ids : i # id => opened'[i] = opened[i]
               /\ UNCHANGED <<core, live, binding, reader, known>>
        BY <1>2, OpenEffect
    <2>2. opened[id].instance = 0
        BY <2>1 DEF C!Absent
    <2>3. ASSUME NEW i \in known PROVE opened'[i] = opened[i]
        BY <1>0, <2>1, <2>2 DEF BindingInv
    <2> QED BY <2>1, <2>3 DEF BindingInv
<1>3. ASSUME NEW r \in Readers, C!Begin(r) \/ C!Rules(r) \/ C!Body(r) \/ C!Again(r) PROVE BindingInv'
    <2>1. Others(r) /\ UNCHANGED <<core, opened, binding, known>>
        BY <1>3, BeginEffect, RulesEffect, BodyEffect, AgainEffect
    <2>2. /\ reader'[r].pc \in {"body", "again", "publish"} => reader'[r].binding.instance = reader'[r].instance
          /\ reader'[r].pc # "show"
        <3>1. CASE reader'[r] = C!Idle
            BY <3>1 DEF C!Idle
        <3>2. CASE C!Begin(r)
            BY <3>2, BeginEffect
        <3>3. CASE C!Rules(r) /\ reader'[r] # C!Idle
            BY <3>3, RulesEffect DEF Dropped, Keeps
        <3>4. CASE C!Body(r)
            BY <3>4, BodyEffect DEF BindingInv, Keeps
        <3>5. CASE C!Again(r) /\ reader'[r] # C!Idle
            BY <3>5, AgainEffect DEF BindingInv, Dropped, Keeps
        <3> QED BY <1>3, <3>1, <3>2, <3>3, <3>4, <3>5
    <2> QED BY <2>1, <2>2 DEF BindingInv, Others
<1>4. ASSUME NEW r \in Readers, C!Publish(r) PROVE BindingInv'
    <2>1. Others(r) /\ UNCHANGED <<core, opened, known>> /\ reader[r].pc = "publish"
        BY <1>4, PublishEffect
    <2>2. CASE Dropped(r) /\ binding' = binding
        <3>1. reader'[r].pc = "idle"
            BY <2>2 DEF Dropped, C!Idle
        <3> QED BY <2>1, <2>2, <3>1 DEF BindingInv, Others
    <2>3. CASE /\ Keeps(r) /\ C!Current(reader[r].plan, reader[r].instance)
               /\ reader'[r].pc = "show"
               /\ binding' = IF binding.instance = reader[r].instance THEN binding ELSE reader[r].binding
               /\ reader'[r].binding = binding'
        <3>1. core.instance = reader[r].instance /\ reader[r].binding.instance = reader[r].instance
            BY <2>1, <2>3 DEF BindingInv, C!Current
        <3>2. binding'.instance = core.instance
            BY <2>3, <3>1
        <3>3. ASSUME NEW s \in Readers
              PROVE  /\ reader'[s].pc \in {"body", "again", "publish"} =>
                            reader'[s].binding.instance = reader'[s].instance
                     /\ reader'[s].pc = "show" /\ reader'[s].instance = core.instance =>
                            reader'[s].binding = binding'
            <4>1. CASE s = r
                BY <2>3, <4>1
            <4>2. CASE s # r
                BY <2>1, <2>3, <3>1, <4>2 DEF BindingInv, Others
            <4> QED BY <4>1, <4>2
        <3>4. ASSUME NEW i \in known
              PROVE  /\ opened[i].instance # 0 /\ opened[i].instance <= binding'.instance
                     /\ opened[i].instance = binding'.instance => i \notin binding'.prior
            <4>1. CASE binding.instance = reader[r].instance
                BY <2>3, <4>1 DEF BindingInv
            <4>2. CASE binding.instance # reader[r].instance
                <5>1. binding.instance < core.instance
                    BY <1>0, <3>1, <4>2 DEF PlanInv
                <5>2. opened[i].instance < core.instance
                    BY <1>0, <5>1 DEF BindingInv
                <5> QED BY <1>0, <3>2, <5>2 DEF BindingInv
            <4> QED BY <4>1, <4>2
        <3> QED BY <2>1, <3>2, <3>3, <3>4 DEF BindingInv
    <2> QED BY <1>4, <2>2, <2>3, PublishEffect
<1>5. ASSUME NEW r \in Readers, C!Show(r) PROVE BindingInv'
    <2>1. Others(r) /\ UNCHANGED <<core, opened, binding>> /\ reader[r].pc = "show"
          /\ reader'[r].pc = "idle"
        BY <1>5, ShowEffect DEF C!Idle
    <2>2. ASSUME NEW i \in known', i \notin known
          PROVE  /\ opened[i].instance # 0 /\ opened[i].instance <= binding.instance
                 /\ opened[i].instance = binding.instance => i \notin binding.prior
        <3>1. i \in C!Ids /\ shown'[i] \notin C!Verdicts
            BY <1>5, <2>2, ShowEffect
        <3>2. shown' # shown
            BY <2>2, <3>1 DEF ShownInv
        <3>3. /\ C!Current(reader[r].plan, reader[r].instance)
              /\ shown'[i] = IF i \in reader[r].body
                             THEN C!Resolve(reader[r].plan, reader[r].binding.prior, i,
                                      Plans[opened[i].plan][opened[i].rule].description)
                             ELSE Unread
            BY <1>5, <3>1, <3>2, ShowEffect
        <3>4. i \in reader[r].body
            BY <3>1, <3>3 DEF C!Verdicts
        <3>5. opened[i].instance = core.instance /\ reader[r].instance = core.instance
              /\ opened[i].instance # 0
            BY <2>1, <3>3, <3>4 DEF BodyInv, C!Current
        <3>6. binding.instance = core.instance /\ reader[r].binding = binding
            BY <2>1, <3>5 DEF BindingInv
        <3>7. C!Resolve(reader[r].plan, reader[r].binding.prior, i,
                  Plans[opened[i].plan][opened[i].rule].description) # "prior"
            BY <3>1, <3>3, <3>4 DEF C!Verdicts
        <3>8. i \notin reader[r].binding.prior
            BY <3>7 DEF C!Resolve
        <3> QED BY <1>0, <3>1, <3>5, <3>6, <3>8
    <2> QED BY <2>1, <2>2 DEF BindingInv, Others
<1> QED BY <1>1, <1>2, <1>3, <1>4, <1>5, TraceCases

\* What a page shows after a reader's answer.
LEMMA ShownBy ==
    ASSUME TraceTypes, PlanInv, BodyInv, BindingInv, ShownInv,
           NEW r \in Readers, C!Show(r), shown' # shown, NEW i \in C!Ids
    PROVE  /\ shown'[i] \notin C!Verdicts => shown'[i] = Plans[opened[i].plan][opened[i].rule].origin
           /\ i \in known => shown'[i] # "prior"
<1>1. /\ C!Current(reader[r].plan, reader[r].instance) /\ reader[r].pc = "show"
      /\ shown'[i] = IF i \in reader[r].body
                     THEN C!Resolve(reader[r].plan, reader[r].binding.prior, i,
                              Plans[opened[i].plan][opened[i].rule].description)
                     ELSE Unread
    BY ShowEffect
<1>2. CASE i \notin reader[r].body
    BY <1>1, <1>2, UnreadIsNoVerdict DEF C!Verdicts
<1>3. CASE i \in reader[r].body
    <2>1. opened[i].instance = core.instance /\ reader[r].instance = core.instance
          /\ opened[i].instance # 0
        BY <1>1, <1>3 DEF BodyInv, C!Current
    <2>2. opened[i].plan = reader[r].plan
        BY <2>1 DEF PlanInv, Agree
    <2>3. opened[i].plan \in 1 .. Len(Plans) /\ opened[i].rule \in 1 .. Len(Plans[opened[i].plan])
        BY <2>1 DEF PlanInv
    <2>4. binding.instance = core.instance /\ reader[r].binding = binding
        BY <1>1, <2>1 DEF BindingInv
    <2>5. i \in known => i \notin reader[r].binding.prior
        BY <2>1, <2>4 DEF BindingInv
    <2> DEFINE p == reader[r].plan
               k == opened[i].rule
               v == C!Resolve(p, reader[r].binding.prior, i, Plans[p][k].description)
    <2>6. /\ v \notin C!Verdicts => v = Plans[p][k].origin
          /\ v = "prior" => i \in reader[r].binding.prior
        <3>1. p \in 1 .. Len(Plans) /\ k \in 1 .. Len(Plans[p])
            BY <2>2, <2>3
        <3> HIDE DEF p, k
        <3> QED BY <3>1, ResolveIsTrue
    <2>7. shown'[i] = v
        BY <1>1, <1>3, <2>2
    <2> HIDE DEF v
    <2> QED BY <2>2, <2>5, <2>6, <2>7
<1> QED BY <1>2, <1>3

LEMMA ShownStep ==
    ASSUME TraceTypes, TraceTypes', PlanInv, IdsInv, BodyInv, BindingInv, ShownInv, C!Next
    PROVE  ShownInv'
<1>0. known \subseteq C!Ids
    BY DEF TraceTypes
<1>1. CASE C!Stopped \/ \E p \in 1 .. Len(Plans) : C!Start(p) \/ C!Replaced(p)
    BY <1>1, KernelEffect DEF ShownInv, C!AttributedToItsRule
<1>2. ASSUME NEW rule \in 1 .. 3, C!Open(rule) PROVE ShownInv'
    <2>1. PICK id \in C!Ids :
               /\ opened[id] = C!Absent
               /\ \A i \in C!Ids : i # id => opened'[i] = opened[i]
               /\ UNCHANGED <<shown, known>>
        BY <1>2, OpenEffect
    <2>2. opened[id].instance = 0
        BY <2>1 DEF C!Absent
    <2>3. ASSUME NEW i \in C!Ids, shown[i] \notin C!Verdicts PROVE opened'[i] = opened[i]
        BY <2>1, <2>2, <2>3 DEF BindingInv, ShownInv
    <2> QED BY <2>1, <2>3 DEF ShownInv, C!AttributedToItsRule
<1>3. CASE opened' = opened /\ known' = known /\ (shown' = shown \/ shown' = [i \in C!Ids |-> Unread])
    BY <1>0, <1>3, UnreadIsNoVerdict DEF ShownInv, C!AttributedToItsRule, C!Verdicts
<1>4. ASSUME NEW r \in Readers, C!Show(r) PROVE ShownInv'
    <2>1. opened' = opened /\ known' = known \cup {i \in C!Ids : shown'[i] \notin C!Verdicts}
        BY <1>4, ShowEffect
    <2>2. CASE shown' = shown
        <3>1. known' = known
            BY <2>1, <2>2 DEF ShownInv
        <3> QED BY <1>3, <2>1, <2>2, <3>1
    <2>3. CASE shown' # shown
        <3>1. \A i \in C!Ids :
                  /\ shown'[i] \notin C!Verdicts => shown'[i] = Plans[opened[i].plan][opened[i].rule].origin
                  /\ i \in known => shown'[i] # "prior"
            BY <1>4, <2>3, ShownBy
        <3>2. \A i \in known' : shown'[i] # "prior"
            BY <1>0, <2>1, <3>1 DEF C!Verdicts
        <3> QED BY <2>1, <3>1, <3>2 DEF ShownInv, C!AttributedToItsRule
    <2> QED BY <2>2, <2>3
<1>5. ASSUME NEW r \in Readers, C!Begin(r) \/ C!Rules(r) \/ C!Body(r) \/ C!Again(r) \/ C!Publish(r)
      PROVE  opened' = opened /\ known' = known /\ (shown' = shown \/ shown' = [i \in C!Ids |-> Unread])
    BY <1>5, BeginEffect, RulesEffect, BodyEffect, AgainEffect, PublishEffect DEF Dropped, Keeps
<1> QED BY <1>1, <1>2, <1>3, <1>4, <1>5, TraceCases

LEMMA TraceStep == ASSUME TraceInv, C!Next PROVE TraceInv'
<1> USE DEF TraceInv
<1>1. TraceTypes' /\ IdsInv'
    BY TraceTypesStep
<1>2. PlanInv'
    BY <1>1, PlanStep
<1>3. BodyInv' /\ BindingInv'
    BY BodyStep, BindingStep
<1>4. ShownInv'
    BY <1>1, ShownStep
<1> QED BY <1>1, <1>2, <1>3, <1>4
LEMMA TraceSafe ==
    /\ TraceInv => C!TypeOK /\ C!AttributedToItsRule
    /\ TraceInv /\ TraceInv' /\ C!Next => \A i \in known : shown'[i] # "prior"
<1>1. TraceInv => C!TypeOK
    BY DEF TraceInv, TraceTypes, Served, Bound, Reading, C!TypeOK
<1>2. TraceInv => C!AttributedToItsRule
    BY DEF TraceInv, ShownInv
<1>3. ASSUME TraceInv, TraceInv', C!Next PROVE \A i \in known : shown'[i] # "prior"
    <2>1. known \subseteq known'
        <3>1. CASE C!Stopped \/ \E p \in 1 .. Len(Plans) : C!Start(p) \/ C!Replaced(p)
            BY <1>3, <3>1, KernelEffect DEF TraceInv
        <3>2. ASSUME NEW rule \in 1 .. 3, C!Open(rule) PROVE known \subseteq known'
            BY <1>3, <3>2, OpenEffect DEF TraceInv
        <3>3. ASSUME NEW r \in Readers,
                     C!Begin(r) \/ C!Rules(r) \/ C!Body(r) \/ C!Again(r) \/ C!Publish(r) \/ C!Show(r)
              PROVE  known \subseteq known'
            BY <1>3, <3>3, BeginEffect, RulesEffect, BodyEffect, AgainEffect, PublishEffect, ShowEffect
               DEF TraceInv
        <3> QED BY <1>3, <3>1, <3>2, <3>3, TraceCases
    <2> QED BY <1>3, <2>1 DEF TraceInv, ShownInv
<1> QED BY <1>1, <1>2, <1>3

\* The records are true (health_history.cpp, connection_trace.h): what the health report
\* calls persisted is on the file and its last incident is the present state, after any
\* failed read or write, clock change and restart, and incidents are lost at the beginning
\* only; a connection is attributed to the rule that accepted it, whatever kernels and plans
\* come and go under its readers, and is not taken back.
THEOREM RecordsHold == Spec => RecordsAreTrue
<1> DEFINE RecordsInv == HealthInv /\ TraceInv
<1>1. Init => RecordsInv
    BY HealthInit, TraceInit DEF Init
<1>2. ASSUME HealthInv, [Next]_vars
      PROVE  /\ HealthInv'
             /\ disk'.incidents # disk.incidents => Extends(disk.incidents, disk'.incidents)
    <2>1. CASE H!Next
        BY <1>2, <2>1, HealthStep
    <2>2. CASE UNCHANGED health
        BY <1>2, <2>2 DEF health, HealthInv, RowTypes, RowsInv, WriteInv, OnDisk
    <2> QED BY <1>2, <2>1, <2>2 DEF Next, vars
<1>3. ASSUME TraceInv, [Next]_vars PROVE TraceInv' /\ [\A i \in known : shown'[i] # "prior"]_(C!vars)
    <2>1. CASE C!Next
        BY <1>3, <2>1, TraceStep, TraceSafe
    <2>2. CASE UNCHANGED trace
        BY <1>3, <2>2 DEF trace, C!vars, TraceInv, TraceTypes, PlanInv, IdsInv, BodyInv, BindingInv,
                          ShownInv, C!AttributedToItsRule
    <2> QED BY <1>3, <2>1, <2>2 DEF Next, vars
<1>4. RecordsInv /\ [Next]_vars => RecordsInv'
    BY <1>2, <1>3
<1>5. RecordsInv => H!TypeOK
    BY HealthSafe
<1>6. RecordsInv => H!PersistedIsTrue
    BY HealthSafe
<1>7. RecordsInv => H!LastIncidentIsState
    BY HealthSafe
<1>8. RecordsInv /\ [Next]_vars =>
        [disk'.incidents # disk.incidents =>
            \/ H!IsPrefix(disk.incidents, disk'.incidents)
            \/ Len(disk'.incidents) = MaxIncidents
               /\ \E n \in 1 .. Len(disk.incidents) :
                      H!IsPrefix(SubSeq(disk.incidents, n + 1, Len(disk.incidents)), disk'.incidents)]_(H!vars)
    <2> SUFFICES ASSUME RecordsInv, [Next]_vars, disk'.incidents # disk.incidents
                 PROVE  \/ H!IsPrefix(disk.incidents, disk'.incidents)
                        \/ Len(disk'.incidents) = MaxIncidents
                           /\ \E n \in 1 .. Len(disk.incidents) :
                                  H!IsPrefix(SubSeq(disk.incidents, n + 1, Len(disk.incidents)), disk'.incidents)
        OBVIOUS
    <2>1. disk.incidents \in Seq(Row) /\ disk'.incidents \in Seq(Row)
          /\ Extends(disk.incidents, disk'.incidents)
        BY <1>2 DEF HealthInv, RowsInv, Paired
    <2> QED BY <2>1, KeptFirst
<1>9. RecordsInv => C!TypeOK
    BY TraceSafe
<1>10. RecordsInv => C!AttributedToItsRule
    BY TraceSafe
<1>11. RecordsInv /\ [Next]_vars => [\A i \in known : shown'[i] # "prior"]_(C!vars)
    BY <1>3
<1> HIDE DEF RecordsInv
<1>12. Spec => []RecordsInv
    BY <1>1, <1>4, PTL DEF Spec
<1>13. Spec => []H!TypeOK
    BY <1>12, <1>5, PTL
<1>14. Spec => []H!PersistedIsTrue
    BY <1>12, <1>6, PTL
<1>15. Spec => []H!LastIncidentIsState
    BY <1>12, <1>7, PTL
<1>16. Spec => H!IncidentsAreKept
    BY <1>12, <1>8, PTL DEF Spec, H!IncidentsAreKept
<1>17. Spec => []C!TypeOK
    BY <1>12, <1>9, PTL
<1>18. Spec => []C!AttributedToItsRule
    BY <1>12, <1>10, PTL
<1>19. Spec => C!NeverReclassified
    BY <1>12, <1>11, PTL DEF Spec, C!NeverReclassified
<1> QED BY <1>13, <1>14, <1>15, <1>16, <1>17, <1>18, <1>19 DEF RecordsAreTrue
----------------------------------------------------------------------------
(* The streams *)

Sock == [state : {"off", "connecting", "open", "down"}, gen : 0 .. 3, epoch : 0 .. MaxOps]
Frames == [gen : 0 .. 3, epoch : 0 .. MaxOps]
Watch == [pc : {"idle", "probe", "repair"} \cup Channels, epoch : 0 .. MaxOps, obs : 0 .. 2 * MaxOps,
          due : SUBSET Channels, ev : {"none"} \cup S!Evidence]

\* A pause observes once and its end once more, so that the observations are bounded by the
\* pauses that were taken and are not given back.
CountInv ==
    /\ active \in BOOLEAN /\ epoch \in Nat /\ taken \in Nat /\ epoch + taken <= MaxOps
    /\ pauses \in Nat /\ pauses <= taken /\ observation \in Nat /\ observation + pauses <= 2 * taken

StreamTypes ==
    /\ control \in 0 .. MaxOps /\ sock \in [Channels -> Sock] /\ push \in [Channels -> Frames]
    /\ slot \in [Channels -> 0 .. MaxOps] /\ slept \in 0 .. (Threshold + 1)

\* Who holds "lifecycle" is what its holder is doing; what the monitor does with it is about
\* the runtime that is running.
HeldInv ==
    /\ owner \in {"idle", "start", "stop"} /\ monitor \in Watch
    /\ lifecycle = IF owner # "idle" THEN "owner"
                   ELSE IF monitor.pc \notin {"idle", "probe"} THEN "monitor" ELSE "free"
    /\ owner # "idle" => ~active /\ monitor.pc \in {"idle", "probe"}
    /\ S!RepairIsCurrent

CurrentInv == S!FrameIsOfThisKernel /\ S!EvidenceIsCurrent /\ S!NoDeafSocket

\* The attempts of a channel are a ring of three: the next to be replaced is the oldest.
Ring(h) == /\ h.attempts[h.repairs % 3] >= h.attempts[(h.repairs + 1) % 3]
           /\ h.attempts[(h.repairs + 1) % 3] >= h.attempts[(h.repairs + 2) % 3]

Tried(h) == {h.attempts[0], h.attempts[1], h.attempts[2]}

\* The run of valid frames is of this connection, and the reservations of this epoch are in
\* the ring, until the stop forgets it.
ChannelIs(h, valid, times, on) ==
    /\ h \in S!Health /\ valid \in 0 .. 2 /\ h.run <= valid
    /\ times \subseteq 0 .. Window - 1 /\ Ring(h)
    /\ \E f \in [0 .. 2 -> Nat] : times \subseteq {f[0], f[1], f[2]}
    /\ on => times \subseteq Tried(h)

ChannelInv ==
    /\ chan \in [Channels -> S!Health] /\ since \in [Channels -> 0 .. 2]
    /\ reserved \in [Channels -> SUBSET (0 .. Window - 1)]
    /\ \A c \in Channels : ChannelIs(chan[c], since[c], reserved[c], active)

StreamsInv == CountInv /\ StreamTypes /\ HeldInv /\ CurrentInv /\ ChannelInv

LEMMA TimeBounds ==
    /\ Threshold \in Nat /\ Grace \in Nat /\ Step \in Nat /\ Cap \in Nat /\ Window \in Nat /\ MaxOps \in Nat
    /\ 0 < Threshold /\ Threshold <= Grace /\ 0 < Step /\ Step <= Cap /\ Cap < Window
BY TimesAreInOrder

LEMMA EndsAreWithin == 0 \in 0 .. 2 /\ 0 \in 0 .. Threshold + 1 /\ Grace \in 0 .. Grace
BY TimeBounds

LEMMA HealthIs ==
    ASSUME NEW h \in S!Health
    PROVE  /\ h = [active |-> h.active, connected |-> h.connected, periodic |-> h.periodic, gen |-> h.gen, age |-> h.age,
                 grace |-> h.grace, wait |-> h.wait, run |-> h.run, repairs |-> h.repairs,
                 denied |-> h.denied, attempts |-> h.attempts]
           /\ h.active \in BOOLEAN /\ h.connected \in BOOLEAN /\ h.periodic \in BOOLEAN
           /\ h.gen \in 0 .. 3 /\ h.age \in 0 .. Threshold + 1 /\ h.grace \in 0 .. Grace
           /\ h.wait \in 0 .. Cap /\ h.run \in 0 .. 2 /\ h.repairs \in 0 .. 5
           /\ h.denied \in BOOLEAN /\ h.attempts \in [0 .. 2 -> 0 .. Window]
BY DEF S!Health

\* What the operations on a channel's health leave of its types, its run and its ring.
LEMMA BlankIs ==
    /\ S!Blank \in S!Health /\ S!Blank.run = 0 /\ Ring(S!Blank)
    /\ \A h \in S!Health, b \in BOOLEAN :
          /\ S!Stop(h) \in S!Health /\ S!Stop(h).run = 0 /\ Ring(S!Stop(h))
          /\ S!Reset(h, b) \in S!Health /\ S!Reset(h, b).run = 0 /\ Ring(S!Reset(h, b))
<1>1. S!Blank \in S!Health
    BY TimeBounds DEF S!Blank, S!Health
<1>2. S!Blank.run = 0 /\ S!Blank.repairs = 0 /\ \A i \in 0 .. 2 : S!Blank.attempts[i] = Window
    BY DEF S!Blank
<1>3. ASSUME NEW h \in S!Health, NEW b \in BOOLEAN
      PROVE  /\ S!Stop(h) \in S!Health /\ S!Stop(h).run = 0 /\ S!Stop(h).repairs = 0
             /\ S!Stop(h).attempts = S!Blank.attempts
             /\ S!Reset(h, b) \in S!Health /\ S!Reset(h, b).run = 0 /\ S!Reset(h, b).repairs = 0
             /\ S!Reset(h, b).attempts = S!Blank.attempts
    <2> DEFINE n == S!NextGen(h)
    <2>1. n \in 0 .. 3
        BY HealthIs DEF S!NextGen
    <2>2. S!Stop(h) = [S!Blank EXCEPT !.gen = n]
        BY DEF S!Stop
    <2>3. S!Reset(h, b) = [[[[S!Blank EXCEPT !.active = TRUE] EXCEPT !.periodic = b] EXCEPT !.gen = n]
                                EXCEPT !.grace = Grace]
        BY DEF S!Reset
    <2> HIDE DEF n
    <2> DEFINE Like(k) == k \in S!Health /\ k.run = 0 /\ k.repairs = 0 /\ k.attempts = S!Blank.attempts
    <2>4. \A k : Like(k) => Like([k EXCEPT !.gen = n])
        BY <2>1 DEF S!Health
    <2>7. \A k : Like(k) => Like([k EXCEPT !.active = TRUE])
        BY DEF S!Health
    <2>8. \A k : Like(k) => Like([k EXCEPT !.periodic = b])
        BY DEF S!Health
    <2>9. \A k : Like(k) => Like([k EXCEPT !.grace = Grace])
        BY EndsAreWithin DEF S!Health
    <2>5. Like(S!Blank)
        BY <1>1, <1>2
    <2> HIDE DEF Like
    <2>6. Like(S!Stop(h)) /\ Like(S!Reset(h, b))
        BY <2>2, <2>3, <2>4, <2>5, <2>7, <2>8, <2>9
    <2> QED BY <2>6 DEF Like
<1> QED BY <1>1, <1>2, <1>3, TimeBounds DEF Ring

\* One entry of a channel's health replaced, and what that leaves as it was.
Kept(g, h) == g.attempts = h.attempts /\ g.repairs = h.repairs

LEMMA EditedIs ==
    ASSUME NEW h \in S!Health
    PROVE  /\ \A b \in BOOLEAN : LET g == [h EXCEPT !.connected = b] IN
                  g \in S!Health /\ Kept(g, h) /\ g.run = h.run /\ g.gen = h.gen
           /\ \A b \in BOOLEAN : LET g == [h EXCEPT !.denied = b] IN
                  g \in S!Health /\ Kept(g, h) /\ g.run = h.run
           /\ \A n \in 0 .. 3 : LET g == [h EXCEPT !.gen = n] IN
                  g \in S!Health /\ Kept(g, h) /\ g.run = h.run
           /\ \A n \in 0 .. Threshold + 1 : LET g == [h EXCEPT !.age = n] IN
                  g \in S!Health /\ Kept(g, h) /\ g.run = h.run
           /\ \A n \in 0 .. Grace : LET g == [h EXCEPT !.grace = n] IN
                  g \in S!Health /\ Kept(g, h) /\ g.run = h.run
           /\ \A n \in 0 .. 2 : LET g == [h EXCEPT !.run = n] IN
                  g \in S!Health /\ Kept(g, h) /\ g.run = n
BY DEF S!Health, Kept

LEMMA ResumedIs ==
    ASSUME NEW h \in S!Health
    PROVE  S!Resume(h) \in S!Health /\ Kept(S!Resume(h), h) /\ S!Resume(h).run = 0
<1> DEFINE g == [h EXCEPT !.grace = Grace]
<1>1. g \in S!Health /\ Kept(g, h)
    BY EditedIs, EndsAreWithin
<1>2. S!Resume(h) = [g EXCEPT !.run = 0]
    BY DEF S!Resume
<1> HIDE DEF g
<1>3. [g EXCEPT !.run = 0] \in S!Health /\ Kept([g EXCEPT !.run = 0], g) /\ [g EXCEPT !.run = 0].run = 0
    BY <1>1, EditedIs, EndsAreWithin
<1> QED BY <1>1, <1>2, <1>3 DEF Kept

LEMMA ReopenedIs ==
    ASSUME NEW h \in S!Health
    PROVE  S!Reopen(h) \in S!Health /\ Kept(S!Reopen(h), h) /\ S!Reopen(h).run = 0
<1> DEFINE f == [h EXCEPT !.connected = FALSE]
           g == [f EXCEPT !.gen = S!NextGen(h)]
<1>1. f \in S!Health /\ Kept(f, h)
    BY EditedIs
<1>2. S!NextGen(h) \in 0 .. 3
    BY HealthIs DEF S!NextGen
<1>3. S!Reopen(h) = S!Resume(g)
    BY DEF S!Reopen
<1> HIDE DEF f
<1>4. g \in S!Health /\ Kept(g, f)
    BY <1>1, <1>2, EditedIs
<1> HIDE DEF g
<1> QED BY <1>1, <1>3, <1>4, ResumedIs DEF Kept

LEMMA ErredIs ==
    ASSUME NEW h \in S!Health, NEW b \in BOOLEAN
    PROVE  S!Erred(h, b) \in S!Health /\ Kept(S!Erred(h, b), h) /\ S!Erred(h, b).run = 0
<1> DEFINE f == [h EXCEPT !.connected = FALSE]
           g == [f EXCEPT !.run = 0]
<1>1. f \in S!Health /\ Kept(f, h)
    BY EditedIs
<1>2. S!Erred(h, b) = [g EXCEPT !.denied = b]
    BY DEF S!Erred
<1> HIDE DEF f
<1>3. g \in S!Health /\ Kept(g, f) /\ g.run = 0
    BY <1>1, EditedIs, EndsAreWithin
<1> HIDE DEF g
<1>4. [g EXCEPT !.denied = b] \in S!Health /\ Kept([g EXCEPT !.denied = b], g) /\ [g EXCEPT !.denied = b].run = g.run
    BY <1>3, EditedIs
<1> QED BY <1>1, <1>2, <1>3, <1>4 DEF Kept

LEMMA FramedIs ==
    ASSUME NEW h \in S!Health, NEW valid \in BOOLEAN
    PROVE  /\ S!Frame(h, valid) \in S!Health /\ Kept(S!Frame(h, valid), h)
           /\ S!Frame(h, valid).run <= IF valid THEN h.run + 1 ELSE 0
<1>1. CASE valid
    <2> DEFINE n == IF S!Silent(h) \/ h.run = 0 THEN 1 ELSE 2
               g == [h EXCEPT !.run = n]
    <2>1. n \in 0 .. 2 /\ n <= h.run + 1
        BY HealthIs
    <2>2. S!Frame(h, valid) = [g EXCEPT !.age = 0]
        BY <1>1 DEF S!Frame
    <2> HIDE DEF n
    <2>3. g \in S!Health /\ Kept(g, h) /\ g.run = n
        BY <2>1, EditedIs
    <2> HIDE DEF g
    <2>4. [g EXCEPT !.age = 0] \in S!Health /\ Kept([g EXCEPT !.age = 0], g) /\ [g EXCEPT !.age = 0].run = g.run
        BY <2>3, EditedIs, EndsAreWithin
    <2> QED BY <1>1, <2>1, <2>2, <2>3, <2>4 DEF Kept
<1>2. CASE ~valid
    <2> DEFINE g == [h EXCEPT !.run = 0]
    <2>1. S!Frame(h, valid) = [g EXCEPT !.denied = FALSE]
        BY <1>2 DEF S!Frame
    <2>2. g \in S!Health /\ Kept(g, h) /\ g.run = 0
        BY EditedIs, EndsAreWithin
    <2> HIDE DEF g
    <2>3. [g EXCEPT !.denied = FALSE] \in S!Health /\ Kept([g EXCEPT !.denied = FALSE], g)
          /\ [g EXCEPT !.denied = FALSE].run = g.run
        BY <2>2, EditedIs
    <2> QED BY <1>2, <2>1, <2>2, <2>3 DEF Kept
<1> QED BY <1>1, <1>2

LEMMA AgedIs ==
    ASSUME NEW h \in S!Health, Ring(h)
    PROVE  /\ S!Aged(h) \in S!Health /\ S!Aged(h).run = h.run /\ Ring(S!Aged(h))
           /\ \A i \in 0 .. 2 : S!Aged(h).attempts[i] = S!Older(h.attempts[i], Window)
<1>1. /\ \A a \in 0 .. Window : S!Older(a, Window) \in 0 .. Window
      /\ \A a \in 0 .. Threshold + 1 : S!Older(a, Threshold + 1) \in 0 .. Threshold + 1
      /\ \A d \in 0 .. Grace : S!Nearer(d) \in 0 .. Grace
      /\ \A d \in 0 .. Cap : S!Nearer(d) \in 0 .. Cap
    BY TimeBounds DEF S!Older, S!Nearer
<1>2. S!Aged(h) \in S!Health /\ S!Aged(h).run = h.run /\ S!Aged(h).repairs = h.repairs
      /\ \A i \in 0 .. 2 : S!Aged(h).attempts[i] = S!Older(h.attempts[i], Window)
    BY <1>1 DEF S!Aged, S!Health
<1>3. \A a, b \in 0 .. Window : a >= b => S!Older(a, Window) >= S!Older(b, Window)
    BY TimeBounds DEF S!Older
<1>4. \A n \in 0 .. 5 : n % 3 \in 0 .. 2 /\ (n + 1) % 3 \in 0 .. 2 /\ (n + 2) % 3 \in 0 .. 2
    OBVIOUS
<1>5. h.repairs \in 0 .. 5 /\ \A i \in 0 .. 2 : h.attempts[i] \in 0 .. Window
    BY DEF S!Health
<1> QED BY <1>2, <1>3, <1>4, <1>5 DEF Ring

LEMMA SameCount == \A T : S!Cardinality(T) = Cardinality(T)
BY DEF S!Cardinality, Cardinality

\* A repair that is due finds a place in the ring whose reservation is over.
LEMMA DueIsOldest ==
    ASSUME NEW h \in S!Health, Ring(h), S!RepairDue(h)
    PROVE  h.attempts[h.repairs % 3] = Window
<1> DEFINE young == {i \in 0 .. 2 : h.attempts[i] < Window}
<1>1. h.repairs \in 0 .. 5 /\ \A i \in 0 .. 2 : h.attempts[i] \in 0 .. Window
    BY DEF S!Health
<1>2. SUFFICES ASSUME h.attempts[h.repairs % 3] < Window PROVE FALSE
    BY <1>1, TimeBounds
<1>3. \A i \in 0 .. 2 : h.attempts[i] < Window
    BY <1>1, <1>2, TimeBounds DEF Ring
<1>4. young = 0 .. 2
    BY <1>3
<1>5. Cardinality(0 .. 2) = 3
    <2>1. Cardinality(0 .. 2) = IF 0 > 2 THEN 0 ELSE 2 - 0 + 1
        <3> DEFINE low == 0
                   high == 2
        <3>1. low \in Int /\ high \in Int
            OBVIOUS
        <3> HIDE DEF low, high
        <3>2. Cardinality(low .. high) = IF low > high THEN 0 ELSE high - low + 1
            BY <3>1, FS_Interval
        <3> QED BY <3>2 DEF low, high
    <2> QED BY <2>1
<1>6. S!Cardinality(young) < 3
    BY DEF S!RepairDue
<1> QED BY <1>4, <1>5, <1>6, SameCount

LEMMA ReservedIs ==
    ASSUME NEW h \in S!Health, Ring(h)
    PROVE  /\ S!ReserveRepair(h) \in S!Health /\ S!ReserveRepair(h).run = h.run
           /\ Ring(S!ReserveRepair(h))
           /\ 0 \in Tried(S!ReserveRepair(h))
           /\ \A i \in 0 .. 2 : i # h.repairs % 3 => h.attempts[i] \in Tried(S!ReserveRepair(h))
<1>1. h.repairs \in 0 .. 5 /\ h.repairs % 3 \in 0 .. 2 /\ \A i \in 0 .. 2 : h.attempts[i] \in 0 .. Window
    BY DEF S!Health
<1>2. S!Backoff(h.repairs + 1) \in 0 .. Cap
    BY <1>1, TimeBounds DEF S!Backoff
<1> DEFINE g == S!ReserveRepair(h)
<1>3. g \in S!Health /\ g.run = h.run
    <2> DEFINE a == [h.attempts EXCEPT ![h.repairs % 3] = 0]
               n == IF h.repairs = 5 THEN 3 ELSE h.repairs + 1
               w == S!Backoff(h.repairs + 1)
    <2>1. a \in [0 .. 2 -> 0 .. Window] /\ n \in 0 .. 5 /\ w \in 0 .. Cap
        BY <1>1, <1>2, HealthIs, TimeBounds
    <2>2. g = [[[h EXCEPT !.attempts = a] EXCEPT !.repairs = n] EXCEPT !.wait = w]
        BY DEF S!ReserveRepair
    <2> HIDE DEF a, n, w, g
    <2>3. [h EXCEPT !.attempts = a] \in S!Health /\ [h EXCEPT !.attempts = a].run = h.run
        BY <2>1 DEF S!Health
    <2>4. \A k \in S!Health : [k EXCEPT !.repairs = n] \in S!Health /\ [k EXCEPT !.repairs = n].run = k.run
        BY <2>1 DEF S!Health
    <2>5. \A k \in S!Health : [k EXCEPT !.wait = w] \in S!Health /\ [k EXCEPT !.wait = w].run = k.run
        BY <2>1 DEF S!Health
    <2> QED BY <2>2, <2>3, <2>4, <2>5
<1>4. /\ g.repairs = IF h.repairs = 5 THEN 3 ELSE h.repairs + 1
      /\ g.attempts = [h.attempts EXCEPT ![h.repairs % 3] = 0]
    BY DEF S!ReserveRepair, S!Health
<1>5. /\ h.attempts \in [0 .. 2 -> 0 .. Window]
      /\ \A i \in 0 .. 2 : g.attempts[i] = IF i = h.repairs % 3 THEN 0 ELSE h.attempts[i]
    BY <1>1, <1>4 DEF S!Health
<1>6. Ring(g)
    BY <1>1, <1>4, <1>5 DEF Ring
<1>7. 0 \in Tried(g) /\ \A i \in 0 .. 2 : i # h.repairs % 3 => h.attempts[i] \in Tried(g)
    BY <1>1, <1>5 DEF Tried
<1> QED BY <1>3, <1>6, <1>7

\* Only a stop, a reset and a repair begin a generation.
LEMMA GenerationIs ==
    ASSUME NEW h \in S!Health, NEW b \in BOOLEAN
    PROVE  /\ S!Resume(h).gen = h.gen
           /\ S!Resume([h EXCEPT !.connected = TRUE]).gen = h.gen
           /\ S!Erred(h, b).gen = h.gen
           /\ S!Frame(h, b).gen = h.gen
           /\ S!ReserveRepair(h).gen = h.gen
           /\ S!Aged(h).gen = h.gen
           /\ [h EXCEPT !.denied = b].gen = h.gen
<1>1. DOMAIN h = {"active", "connected", "periodic", "gen", "age", "grace", "wait", "run", "repairs",
                  "denied", "attempts"}
    BY HealthIs
<1>2. S!Resume(h).gen = h.gen
    BY <1>1 DEF S!Resume
<1>3. S!Resume([h EXCEPT !.connected = TRUE]).gen = h.gen
    BY <1>1 DEF S!Resume
<1>4. S!Erred(h, b).gen = h.gen
    BY <1>1 DEF S!Erred
<1>5. S!Frame(h, b).gen = h.gen
    BY <1>1 DEF S!Frame
<1>6. S!ReserveRepair(h).gen = h.gen
    BY <1>1 DEF S!ReserveRepair
<1>7. S!Aged(h).gen = h.gen
    BY <1>1 DEF S!Aged
<1>8. [h EXCEPT !.denied = b].gen = h.gen
    BY <1>1
<1> QED BY <1>2, <1>3, <1>4, <1>5, <1>6, <1>7, <1>8

\* What each kind of step leaves of a channel.
LEMMA KeptKeeps ==
    ASSUME NEW h, NEW v, NEW t, NEW on \in BOOLEAN, ChannelIs(h, v, t, on),
           NEW g \in S!Health, Kept(g, h), NEW w \in 0 .. 2, g.run <= w, NEW on2 \in BOOLEAN, on2 => on
    PROVE  ChannelIs(g, w, t, on2)
BY DEF ChannelIs, Kept, Ring, Tried

LEMMA ResetKeeps ==
    ASSUME NEW g \in S!Health, g.run = 0, Ring(g), NEW on \in BOOLEAN
    PROVE  ChannelIs(g, 0, {}, on)
<1>1. \E f \in [0 .. 2 -> Nat] : {} \subseteq {f[0], f[1], f[2]}
    <2>1. [i \in 0 .. 2 |-> 0] \in [0 .. 2 -> Nat]
        OBVIOUS
    <2> QED BY <2>1
<1> QED BY <1>1 DEF ChannelIs

LEMMA StopKeeps ==
    ASSUME NEW h, NEW v, NEW t, NEW on, ChannelIs(h, v, t, on), NEW g \in S!Health, g.run = 0, Ring(g)
    PROVE  ChannelIs(g, v, t, FALSE)
BY DEF ChannelIs

LEMMA AgedKeeps ==
    ASSUME NEW h, NEW v, NEW t, NEW on \in BOOLEAN, ChannelIs(h, v, t, on)
    PROVE  ChannelIs(S!Aged(h), v, {x + 1 : x \in t} \ {Window}, on)
<1> DEFINE u == {x + 1 : x \in t} \ {Window}
           g == S!Aged(h)
<1>1. h \in S!Health /\ Ring(h) /\ t \subseteq 0 .. Window - 1
    BY DEF ChannelIs
<1>2. g \in S!Health /\ g.run = h.run /\ Ring(g)
      /\ \A i \in 0 .. 2 : g.attempts[i] = S!Older(h.attempts[i], Window)
    BY <1>1, AgedIs
<1>3. u \subseteq 0 .. Window - 1
    <2>1. Window \in Nat
        BY TimeBounds
    <2>2. ASSUME NEW y \in u PROVE y \in 0 .. Window - 1
        <3>1. PICK x \in t : y = x + 1 /\ y # Window
            OBVIOUS
        <3>2. x \in 0 .. Window - 1
            BY <1>1
        <3> QED BY <2>1, <3>1, <3>2
    <2> QED BY <2>2
<1>4. \E f \in [0 .. 2 -> Nat] : u \subseteq {f[0], f[1], f[2]}
    <2>1. PICK f \in [0 .. 2 -> Nat] : t \subseteq {f[0], f[1], f[2]}
        BY DEF ChannelIs
    <2> DEFINE k == [i \in 0 .. 2 |-> f[i] + 1]
    <2>2. k \in [0 .. 2 -> Nat] /\ k[0] = f[0] + 1 /\ k[1] = f[1] + 1 /\ k[2] = f[2] + 1
        BY <2>1
    <2> HIDE DEF k
    <2>3. u \subseteq {k[0], k[1], k[2]}
        BY <2>1, <2>2
    <2> QED BY <2>2, <2>3
<1>5. ASSUME on PROVE u \subseteq Tried(g)
    <2>1. \A i \in 0 .. 2 : h.attempts[i] \in 0 .. Window
        BY <1>1, HealthIs
    <2>2. ASSUME NEW x \in t, x + 1 # Window PROVE x + 1 \in Tried(g)
        <3>1. PICK i \in 0 .. 2 : x = h.attempts[i]
            BY <1>5, 0 \in 0 .. 2, 1 \in 0 .. 2, 2 \in 0 .. 2 DEF ChannelIs, Tried
        <3>2. x < Window /\ x \in Nat
            BY <1>1, TimeBounds
        <3>3. g.attempts[i] = x + 1
            BY <1>2, <3>1, <3>2 DEF S!Older
        <3>4. i = 0 \/ i = 1 \/ i = 2
            OBVIOUS
        <3> QED BY <3>3, <3>4 DEF Tried
    <2> QED BY <2>2
<1> HIDE DEF u, g
<1>6. v \in 0 .. 2 /\ h.run <= v
    BY DEF ChannelIs
<1>7. ChannelIs(g, v, u, on)
    BY <1>2, <1>3, <1>4, <1>5, <1>6 DEF ChannelIs
<1> QED BY <1>7 DEF u, g

LEMMA ReserveKeeps ==
    ASSUME NEW h, NEW v, NEW t, ChannelIs(h, v, t, TRUE), S!RepairDue(h)
    PROVE  ChannelIs(S!ReserveRepair(h), v, t \cup {0}, TRUE)
<1> DEFINE g == S!ReserveRepair(h)
<1>1. h \in S!Health /\ Ring(h) /\ t \subseteq 0 .. Window - 1 /\ t \subseteq Tried(h)
      /\ v \in 0 .. 2 /\ h.run <= v
    BY DEF ChannelIs
<1>2. h.attempts[h.repairs % 3] = Window
    BY <1>1, DueIsOldest
<1>3. g \in S!Health /\ g.run = h.run /\ Ring(g) /\ 0 \in Tried(g)
      /\ \A i \in 0 .. 2 : i # h.repairs % 3 => h.attempts[i] \in Tried(g)
    BY <1>1, ReservedIs
<1>4. t \cup {0} \subseteq Tried(g)
    <2>1. ASSUME NEW x \in t PROVE x \in Tried(g)
        <3>1. PICK i \in 0 .. 2 : x = h.attempts[i]
            BY <1>1, 0 \in 0 .. 2, 1 \in 0 .. 2, 2 \in 0 .. 2 DEF Tried
        <3>2. x # Window
            BY <1>1, TimeBounds
        <3> QED BY <1>2, <1>3, <3>1, <3>2
    <2> QED BY <1>3, <2>1
<1>5. t \cup {0} \subseteq 0 .. Window - 1
    BY <1>1, TimeBounds
<1>6. \E f \in [0 .. 2 -> Nat] : t \cup {0} \subseteq {f[0], f[1], f[2]}
    <2>1. g.attempts \in [0 .. 2 -> 0 .. Window]
        BY <1>3, HealthIs
    <2>2. g.attempts \in [0 .. 2 -> Nat]
        BY <2>1, TimeBounds
    <2> QED BY <1>4, <2>2 DEF Tried
<1> HIDE DEF g
<1>7. ChannelIs(g, v, t \cup {0}, TRUE)
    BY <1>1, <1>3, <1>4, <1>5, <1>6 DEF ChannelIs
<1> QED BY <1>7 DEF g

\* Of the channels that are looked at again all, or only those with frames each second, get
\* their grace.
LEMMA ResumeKeeps ==
    ASSUME ChannelInv, NEW c \in Channels, active \in BOOLEAN
    PROVE  ChannelIs(S!Resumed[c], S!Forgotten[c], reserved[c], active)
<1>1. ChannelIs(chan[c], since[c], reserved[c], active) /\ chan[c] \in S!Health
    BY DEF ChannelInv, ChannelIs
<1>2. S!Resume(chan[c]) \in S!Health /\ Kept(S!Resume(chan[c]), chan[c]) /\ S!Resume(chan[c]).run = 0
    BY <1>1, ResumedIs
<1>3. ChannelIs(S!Resume(chan[c]), 0, reserved[c], active)
    BY <1>1, <1>2, 0 \in 0 .. 2, 0 <= 0, KeptKeeps
<1> QED BY <1>1, <1>3 DEF S!Resumed, S!Forgotten

LEMMA StreamsInit == ASSUME S!Init PROVE StreamsInv
<1>1. CountInv /\ StreamTypes
    <2>1. CountInv
        <3>1. active = FALSE /\ epoch = 0 /\ taken = 0 /\ pauses = 0 /\ observation = 0
            BY DEF S!Init
        <3>2. 0 \in Nat /\ 0 <= 0 /\ 0 + 0 <= MaxOps /\ 0 + 0 <= 2 * 0
            BY TimeBounds
        <3> QED BY <3>1, <3>2 DEF CountInv
    <2>2. S!None \in Frames /\ [state |-> "off", gen |-> 0, epoch |-> 0] \in Sock /\ 0 \in 0 .. MaxOps
        BY TimeBounds DEF S!None, Frames, Sock
    <2>3. control \in 0 .. MaxOps /\ slept \in 0 .. (Threshold + 1) /\ slot \in [Channels -> 0 .. MaxOps]
        BY TimeBounds, <2>2 DEF S!Init
    <2>4. sock \in [Channels -> Sock] /\ push \in [Channels -> Frames]
        BY <2>2 DEF S!Init
    <2> QED BY <2>1, <2>3, <2>4 DEF StreamTypes
<1>2. HeldInv
    BY TimeBounds DEF S!Init, S!Idle, S!Free, HeldInv, Watch, S!RepairIsCurrent
<1>3. CurrentInv
    BY DEF S!Init, CurrentInv, S!FrameIsOfThisKernel, S!EvidenceIsCurrent, S!NoDeafSocket
<1>4. ChannelInv
    <2>1. ASSUME NEW c \in Channels PROVE ChannelIs(chan[c], since[c], reserved[c], active)
        <3>1. ChannelIs(S!Blank, 0, {}, FALSE)
            BY BlankIs, ResetKeeps
        <3> QED BY <3>1 DEF S!Init
    <2>2. S!Blank \in S!Health /\ 0 \in 0 .. 2
        BY BlankIs
    <2> QED BY <2>1, <2>2 DEF S!Init, ChannelInv
<1> QED BY <1>1, <1>2, <1>3, <1>4 DEF StreamsInv

\* The bounded counters.
LEMMA CountStep == ASSUME CountInv, S!Next PROVE CountInv'
<1>1. CASE \E op \in {"start", "stop"} : S!Begin(op)
    <2>1. UNCHANGED <<taken, pauses, observation>> /\ active' = FALSE /\ epoch' = epoch + 1
          /\ epoch + taken < MaxOps
        BY <1>1 DEF S!Begin
    <2>2. epoch + 1 \in Nat /\ (epoch + 1) + taken <= MaxOps
        BY <2>1, TimeBounds DEF CountInv
    <2> QED BY <2>1, <2>2 DEF CountInv
<1>2. CASE S!Pause
    BY <1>2, TimeBounds DEF CountInv, S!Pause
<1>3. CASE S!Unpause
    <2>1. UNCHANGED <<active, epoch, taken>> /\ pauses > 0 /\ pauses' = pauses - 1
          /\ (observation' = observation \/ observation' = observation + 1)
        BY <1>3 DEF S!Unpause
    <2> QED BY <2>1, TimeBounds DEF CountInv
<1>4. CASE S!StartAll
    BY <1>4 DEF CountInv, S!StartAll
<1>5. CASE S!Sample
    BY <1>5 DEF CountInv, S!Sample
<1>6. CASE S!Tick \/ S!StopDone \/ \E ev \in S!Evidence : S!Record(ev)
    BY <1>6 DEF CountInv, S!Tick, S!StopDone, S!Record
<1>7. ASSUME NEW c \in Channels, S!StopAll(c) \/ S!Opened(c) \/ S!Message(c) \/ S!Take(c)
      PROVE  CountInv'
    BY <1>7 DEF CountInv, S!StopAll, S!Opened, S!Message, S!Take
<1>8. ASSUME NEW c \in Channels, S!Repair(c) \/ S!Rejoin(c) PROVE CountInv'
    BY <1>8 DEF CountInv, S!Repair, S!Rejoin
<1>9. ASSUME NEW c \in Channels, NEW b \in BOOLEAN, S!Lost(c, b) \/ S!Push(c, b) PROVE CountInv'
    BY <1>9 DEF CountInv, S!Lost, S!Push
<1> QED BY <1>1, <1>2, <1>3, <1>4, <1>5, <1>6, <1>7, <1>8, <1>9 DEF S!Next

\* The lock and the runtime it was taken about.
LEMMA HeldStep == ASSUME CountInv, HeldInv, S!Next PROVE HeldInv'
<1> USE DEF HeldInv, S!RepairIsCurrent
<1>1. CASE \E op \in {"start", "stop"} : S!Begin(op)
    BY <1>1 DEF S!Begin, S!Free
<1>2. CASE S!Pause \/ S!Unpause
    BY <1>2 DEF S!Pause, S!Unpause, S!Free, CountInv
<1>3. CASE S!StartAll
    BY <1>3 DEF S!StartAll, S!Free
<1>4. CASE S!StopDone
    BY <1>4 DEF S!StopDone, S!Free
<1>5. CASE S!Sample
    <2>1. \A due \in SUBSET Channels :
              [pc |-> "probe", epoch |-> epoch, obs |-> observation, due |-> due, ev |-> "none"] \in Watch
        BY TimeBounds DEF Watch, CountInv
    <2>2. monitor' = monitor
          \/ \E due \in SUBSET Channels :
                monitor' = [pc |-> "probe", epoch |-> epoch, obs |-> observation, due |-> due, ev |-> "none"]
        BY <1>5, ChannelsAreNoSteps DEF S!Sample
    <2>3. monitor' \in Watch /\ monitor'.pc \in {"idle", "probe"}
        BY <1>5, <2>1, <2>2 DEF S!Sample
    <2>4. UNCHANGED <<owner, lifecycle, active, pauses, epoch, observation>> /\ monitor.pc = "idle"
        BY <1>5 DEF S!Sample
    <2> QED BY <2>3, <2>4
<1>6. ASSUME NEW ev \in S!Evidence, S!Record(ev) PROVE HeldInv'
    <2>1. S!Idle \in Watch /\ S!Idle.pc = "idle"
        BY TimeBounds DEF S!Idle, Watch
    <2>2. LET m == [[monitor EXCEPT !.pc = "repair"] EXCEPT !.ev = ev] IN
          m \in Watch /\ m.pc = "repair" /\ m.epoch = monitor.epoch /\ m.obs = monitor.obs
        BY DEF Watch
    <2> QED BY <1>6, <2>1, <2>2 DEF S!Record, S!Free
<1>7. ASSUME NEW c \in Channels, S!Repair(c) \/ S!Rejoin(c) PROVE HeldInv'
    <2>1. S!Idle \in Watch /\ S!Idle.pc = "idle"
        BY TimeBounds DEF S!Idle, Watch
    <2>2. \A k \in {"repair"} \cup Channels :
              LET m == [monitor EXCEPT !.pc = k] IN
              m \in Watch /\ m.pc = k /\ m.epoch = monitor.epoch /\ m.obs = monitor.obs
        BY DEF Watch
    <2>3. LET m == [[monitor EXCEPT !.pc = "repair"] EXCEPT !.due = monitor.due \ {c}] IN
          m \in Watch /\ m.pc = "repair" /\ m.epoch = monitor.epoch /\ m.obs = monitor.obs
        BY DEF Watch
    <2>4. monitor.pc \in {"repair"} \cup Channels /\ UNCHANGED <<owner, active, pauses, epoch, observation>>
        BY <1>7 DEF S!Repair, S!Rejoin
    <2>5. lifecycle = "monitor" /\ owner = "idle"
        BY <2>4, ChannelsAreNoSteps
    <2>6. CASE S!Done(c)
        BY <2>1, <2>3, <2>4, <2>5, <2>6 DEF S!Done, S!Free
    <2>7. CASE monitor' = [monitor EXCEPT !.pc = c] /\ UNCHANGED lifecycle
        <3>1. monitor' \in Watch /\ monitor'.pc = c /\ monitor'.epoch = monitor.epoch /\ monitor'.obs = monitor.obs
            BY <2>2, <2>7
        <3>2. c \notin {"idle", "probe"}
            BY ChannelsAreNoSteps
        <3> QED BY <2>4, <2>5, <2>7, <3>1, <3>2
    <2> QED BY <1>7, <2>6, <2>7 DEF S!Repair, S!Rejoin
<1>8. CASE UNCHANGED <<owner, monitor, lifecycle, active, pauses, epoch, observation>>
    BY <1>8
<1>9. ASSUME NEW c \in Channels, S!StopAll(c) \/ S!Opened(c) \/ S!Message(c) \/ S!Take(c)
      PROVE  UNCHANGED <<owner, monitor, lifecycle, active, pauses, epoch, observation>>
    BY <1>9 DEF S!StopAll, S!Opened, S!Message, S!Take
<1>10. ASSUME NEW c \in Channels, NEW b \in BOOLEAN, S!Lost(c, b) \/ S!Push(c, b)
       PROVE  UNCHANGED <<owner, monitor, lifecycle, active, pauses, epoch, observation>>
    BY <1>10 DEF S!Lost, S!Push
<1>11. CASE S!Tick
    BY <1>11, <1>8 DEF S!Tick
<1> QED BY <1>1, <1>2, <1>3, <1>4, <1>5, <1>6, <1>7, <1>8, <1>9, <1>10, <1>11 DEF S!Next

\* What is in the sockets, their messages and the slots.
LEMMA StreamTypesStep == ASSUME CountInv, StreamTypes, HeldInv, ChannelInv, S!Next PROVE StreamTypes'
<1>1. epoch \in 0 .. MaxOps /\ 0 \in 0 .. MaxOps /\ monitor.epoch \in 0 .. MaxOps
    BY TimeBounds DEF CountInv, HeldInv, Watch
<1>2. \A c \in Channels : chan[c].gen \in 0 .. 3 /\ chan[c] \in S!Health
    BY HealthIs DEF ChannelInv, ChannelIs
<1>3. \A g \in 0 .. 3, e \in 0 .. MaxOps :
          [state |-> "connecting", gen |-> g, epoch |-> e] \in Sock /\ [gen |-> g, epoch |-> e] \in Frames
    BY DEF Sock, Frames
<1>4. S!None \in Frames
    BY <1>1 DEF S!None, Frames
<1>5. \A c \in Channels, k \in {"off", "connecting", "open", "down"} :
          [sock EXCEPT ![c].state = k] \in [Channels -> Sock]
    BY DEF StreamTypes, Sock
<1>6. CASE S!Tick
    BY <1>6, TimeBounds DEF StreamTypes, S!Tick, S!Older
<1>7. CASE S!Sample
    BY <1>7, TimeBounds DEF StreamTypes, S!Sample
<1>8. CASE S!StartAll
    <2>1. \A c \in Channels : chan'[c].gen \in 0 .. 3
        <3> SUFFICES ASSUME NEW c \in Channels PROVE chan'[c].gen \in 0 .. 3
            OBVIOUS
        <3>1. chan'[c] = S!Reset(chan[c], c \in Periodic)
            BY <1>8 DEF S!StartAll
        <3>2. (c \in Periodic) \in BOOLEAN
            OBVIOUS
        <3> QED BY <1>2, <3>1, <3>2, BlankIs, HealthIs
    <2>2. sock' = [c \in Channels |-> [state |-> "connecting", gen |-> chan'[c].gen, epoch |-> epoch]]
          /\ slot' = [c \in Channels |-> 0] /\ control' = 0 /\ UNCHANGED <<push, slept>>
        BY <1>8 DEF S!StartAll
    <2>3. sock' \in [Channels -> Sock]
        BY <1>1, <1>3, <2>1, <2>2
    <2>4. slot' \in [Channels -> 0 .. MaxOps]
        BY <1>1, <2>2
    <2> QED BY <1>1, <2>2, <2>3, <2>4 DEF StreamTypes
<1>9. ASSUME NEW ev \in S!Evidence, S!Record(ev) PROVE StreamTypes'
    BY <1>1, <1>9 DEF StreamTypes, S!Record
<1>10. ASSUME NEW c \in Channels, S!StopAll(c) \/ S!Opened(c) PROVE StreamTypes'
    BY <1>5, <1>10 DEF StreamTypes, S!StopAll, S!Opened
<1>11. ASSUME NEW c \in Channels, S!Message(c) PROVE StreamTypes'
    <2>1. [gen |-> sock[c].gen, epoch |-> sock[c].epoch] \in Frames
        BY DEF StreamTypes, Sock, Frames
    <2> QED BY <1>11, <2>1 DEF StreamTypes, S!Message
<1>12. ASSUME NEW c \in Channels, S!Take(c) PROVE StreamTypes'
    BY <1>1, <1>12 DEF StreamTypes, S!Take
<1>13. ASSUME NEW c \in Channels, S!Repair(c) PROVE StreamTypes'
    BY <1>13 DEF StreamTypes, S!Repair
<1>14. ASSUME NEW c \in Channels, S!Rejoin(c) PROVE StreamTypes'
    <2>1. [state |-> "connecting", gen |-> chan[c].gen, epoch |-> epoch] \in Sock
        BY <1>1, <1>2, <1>3
    <2> QED BY <1>14, <2>1 DEF StreamTypes, S!Rejoin
<1>15. ASSUME NEW c \in Channels, NEW b \in BOOLEAN, S!Lost(c, b) PROVE StreamTypes'
    BY <1>5, <1>15 DEF StreamTypes, S!Lost
<1>16. ASSUME NEW c \in Channels, NEW b \in BOOLEAN, S!Push(c, b) PROVE StreamTypes'
    <2>1. push[c].epoch \in 0 .. MaxOps
        BY DEF StreamTypes, Frames
    <2>2. push' = [push EXCEPT ![c] = S!None] /\ UNCHANGED <<control, sock, slept>>
          /\ (slot' = slot \/ slot' = [slot EXCEPT ![c] = push[c].epoch])
        BY <1>16 DEF S!Push
    <2> QED BY <1>4, <2>1, <2>2 DEF StreamTypes
<1>17. ASSUME S!Pause \/ S!Unpause \/ S!StopDone \/ \E op \in {"start", "stop"} : S!Begin(op) PROVE StreamTypes'
    BY <1>17 DEF StreamTypes, S!Pause, S!Unpause, S!StopDone, S!Begin
<1> QED BY <1>6, <1>7, <1>8, <1>9, <1>10, <1>11, <1>12, <1>13, <1>14, <1>15, <1>16, <1>17 DEF S!Next

\* Frames, evidence and sockets of the kernel that runs.
LEMMA CurrentStep ==
    ASSUME CountInv, StreamTypes, HeldInv, ChannelInv, CurrentInv, S!Next
    PROVE  CurrentInv'
<1> USE DEF CurrentInv, S!FrameIsOfThisKernel, S!EvidenceIsCurrent, S!NoDeafSocket
<1>0. chan = [c \in Channels |-> chan[c]] /\ \A c \in Channels : chan[c] \in S!Health
    BY DEF ChannelInv, ChannelIs
<1>1. CASE S!Tick
    <2>1. \A c \in Channels : chan'[c].gen = chan[c].gen
        BY <1>0, <1>1, GenerationIs DEF S!Tick
    <2> QED BY <1>1, <2>1 DEF S!Tick
<1>2. CASE S!Pause \/ S!StopDone
    BY <1>2 DEF S!Pause, S!StopDone
<1>3. CASE S!Unpause
    <2>1. \A c \in Channels : chan'[c].gen = chan[c].gen
        BY <1>0, <1>3, GenerationIs DEF S!Unpause, S!Resumed
    <2> QED BY <1>3, <2>1 DEF S!Unpause
<1>4. CASE \E op \in {"start", "stop"} : S!Begin(op)
    BY <1>4 DEF S!Begin
<1>5. CASE S!StartAll
    BY <1>5 DEF S!StartAll
<1>6. CASE S!Sample
    <2>1. \A c \in Channels : chan'[c].gen = chan[c].gen
        <3>1. \A c \in Channels : S!Resumed[c] \in S!Health /\ S!Resumed[c].gen = chan[c].gen
            BY <1>0, GenerationIs, ResumedIs DEF S!Resumed
        <3>2. ASSUME NEW c \in Channels
              PROVE  /\ S!ReserveRepair(S!Resumed[c]).gen = chan[c].gen
                     /\ S!ReserveRepair(chan[c]).gen = chan[c].gen
            BY <1>0, <3>1, GenerationIs
        <3>3. ASSUME NEW c \in Channels
              PROVE  UNCHANGED chan \/ chan'[c] \in {S!Resumed[c], chan[c],
                                 S!ReserveRepair(S!Resumed[c]), S!ReserveRepair(chan[c])}
            BY <1>6 DEF S!Sample
        <3> QED BY <3>1, <3>2, <3>3
    <2>2. UNCHANGED <<active, epoch, control, sock, slot>> /\ monitor.pc = "idle"
        BY <1>6 DEF S!Sample
    <2> QED BY <2>1, <2>2, ChannelsAreNoSteps
<1>7. ASSUME NEW ev \in S!Evidence, S!Record(ev) PROVE CurrentInv'
    BY <1>7, ChannelsAreNoSteps DEF S!Record
<1>8. ASSUME NEW c \in Channels, S!StopAll(c) PROVE CurrentInv'
    BY <1>8 DEF S!StopAll, StreamTypes, HeldInv
<1>9. ASSUME NEW c \in Channels, S!Opened(c) PROVE CurrentInv'
    <2>1. \A d \in Channels : chan'[d].gen = chan[d].gen
        <3>1. S!Resume([chan[c] EXCEPT !.connected = TRUE]).gen = chan[c].gen
            BY <1>0, GenerationIs
        <3>2. chan' = chan \/ chan' = [chan EXCEPT ![c] = S!Resume([chan[c] EXCEPT !.connected = TRUE])]
            BY <1>9 DEF S!Opened
        <3> QED BY <1>0, <3>1, <3>2
    <2>2. \A d \in Channels : sock'[d].gen = sock[d].gen /\ sock'[d].epoch = sock[d].epoch
                              /\ (sock'[d].state = sock[d].state \/ sock[d].state = "connecting")
        BY <1>9 DEF S!Opened, StreamTypes, Sock
    <2> QED BY <1>9, <2>1, <2>2 DEF S!Opened
<1>10. ASSUME NEW c \in Channels, NEW b \in BOOLEAN, S!Lost(c, b) PROVE CurrentInv'
    <2>1. \A d \in Channels : chan'[d].gen = chan[d].gen
        <3>1. S!Erred(chan[c], b).gen = chan[c].gen
            BY <1>0, GenerationIs
        <3>2. chan' = chan \/ chan' = [chan EXCEPT ![c] = S!Erred(chan[c], b)]
            BY <1>10 DEF S!Lost
        <3> QED BY <1>0, <3>1, <3>2
    <2>2. \A d \in Channels : sock'[d].gen = sock[d].gen /\ sock'[d].epoch = sock[d].epoch
                              /\ (sock'[d].state = sock[d].state \/ sock[d].state \in {"connecting", "open"})
        BY <1>10 DEF S!Lost, StreamTypes, Sock
    <2> QED BY <1>10, <2>1, <2>2 DEF S!Lost
<1>11. ASSUME NEW c \in Channels, S!Message(c) PROVE CurrentInv'
    BY <1>11 DEF S!Message
<1>12. ASSUME NEW c \in Channels, NEW b \in BOOLEAN, S!Push(c, b) PROVE CurrentInv'
    <2>1. \A d \in Channels : chan'[d].gen = chan[d].gen
        BY <1>0, <1>12, GenerationIs DEF S!Push
    <2>2. \A d \in Channels : slot'[d] = slot[d] \/ slot'[d] = epoch
        BY <1>12 DEF S!Push, S!Current, StreamTypes
    <2> QED BY <1>12, <2>1, <2>2 DEF S!Push
<1>13. ASSUME NEW c \in Channels, S!Take(c) PROVE CurrentInv'
    BY <1>13 DEF S!Take, StreamTypes
<1>14. ASSUME NEW c \in Channels, S!Repair(c) PROVE CurrentInv'
    <2>1. \A d \in Channels : d # c => chan'[d] = chan[d]
        BY <1>14 DEF S!Repair, ChannelInv
    <2>2. monitor'.pc = c \/ chan'[c].gen = chan[c].gen
        <3>1. CASE monitor.ev = "responsive"
                   /\ S!State([chan[c] EXCEPT !.denied = @ \/ monitor.ev = "denied"]) = "stale"
            BY <1>14, <3>1 DEF S!Repair, HeldInv, Watch
        <3>2. CASE ~(monitor.ev = "responsive"
                   /\ S!State([chan[c] EXCEPT !.denied = @ \/ monitor.ev = "denied"]) = "stale")
            <4>1. chan' = [chan EXCEPT ![c] = [chan[c] EXCEPT !.denied = @ \/ monitor.ev = "denied"]]
                BY <1>14, <3>2 DEF S!Repair
            <4>2. (chan[c].denied \/ monitor.ev = "denied") \in BOOLEAN
                BY <1>0, HealthIs
            <4> QED BY <1>0, <4>1, <4>2, GenerationIs
        <3> QED BY <3>1, <3>2
    <2>3. UNCHANGED <<active, epoch, control, sock, slot>> /\ monitor.pc = "repair"
        BY <1>14 DEF S!Repair
    <2> QED BY <2>1, <2>2, <2>3, ChannelsAreNoSteps
<1>15. ASSUME NEW c \in Channels, S!Rejoin(c) PROVE CurrentInv'
    <2>1. sock'[c].gen = chan[c].gen /\ sock'[c].epoch = epoch
          /\ \A d \in Channels : d # c => sock'[d] = sock[d]
        BY <1>15 DEF S!Rejoin, StreamTypes
    <2>2. UNCHANGED <<active, epoch, control, chan, slot>> /\ monitor.pc = c
        BY <1>15 DEF S!Rejoin
    <2> QED BY <2>1, <2>2
<1> QED BY <1>1, <1>2, <1>3, <1>4, <1>5, <1>6, <1>7, <1>8, <1>9, <1>10, <1>11, <1>12, <1>13, <1>14,
           <1>15 DEF S!Next

\* Whatever a step does to a channel keeps the ring and the run.
LEMMA ChannelStep == ASSUME CountInv, HeldInv, ChannelInv, S!Next PROVE ChannelInv'
<1>1. /\ \A c \in Channels : ChannelIs(chan[c], since[c], reserved[c], active)
      /\ chan \in [Channels -> S!Health] /\ since \in [Channels -> 0 .. 2]
      /\ reserved \in [Channels -> SUBSET (0 .. Window - 1)] /\ active \in BOOLEAN
    BY DEF ChannelInv, CountInv
<1>2. active' \in BOOLEAN
    BY CountStep DEF CountInv
<1> DEFINE Goal(c) == ChannelIs(chan'[c], since'[c], reserved'[c], active')
<1>3. ASSUME DOMAIN chan' = Channels /\ chan' = [c \in Channels |-> chan'[c]],
             since' = [c \in Channels |-> since'[c]], reserved' = [c \in Channels |-> reserved'[c]],
             \A c \in Channels : Goal(c)
      PROVE  ChannelInv'
    BY <1>3 DEF ChannelInv, ChannelIs
<1>4. ASSUME NEW c \in Channels, chan'[c] = chan[c], since'[c] = since[c], reserved'[c] = reserved[c],
             active' => active
      PROVE  Goal(c)
    BY <1>1, <1>4 DEF ChannelIs
<1>5. ASSUME NEW c \in Channels, UNCHANGED reserved, active' => active,
             chan'[c] \in S!Health, Kept(chan'[c], chan[c]), since'[c] \in 0 .. 2, chan'[c].run <= since'[c]
      PROVE  Goal(c)
    BY <1>1, <1>2, <1>5, KeptKeeps
<1>6. ASSUME NEW c \in Channels, UNCHANGED <<since, reserved>>, active' => active,
             \A d \in Channels : d # c => chan'[d] = chan[d], chan' = [d \in Channels |-> chan'[d]],
             chan'[c] \in S!Health, Kept(chan'[c], chan[c]), chan'[c].run <= chan[c].run
      PROVE  ChannelInv'
    <2>1. ASSUME NEW d \in Channels, d # c PROVE Goal(d)
        BY <1>4, <1>6, <2>1
    <2>2. chan[c].run <= since[c] /\ since[c] \in 0 .. 2 /\ chan[c].run \in 0 .. 2
          /\ chan'[c].run \in 0 .. 2
        BY <1>1, <1>6, HealthIs DEF ChannelIs
    <2>3. Goal(c)
        BY <1>5, <1>6, <2>2
    <2> QED BY <1>1, <1>3, <1>6, <2>1, <2>3
<1> HIDE DEF Goal
<1>10. CASE S!Tick
    <2>1. ASSUME NEW c \in Channels PROVE Goal(c)
        <3>1. /\ chan'[c] = S!Aged(chan[c]) /\ since'[c] = since[c] /\ active' = active
              /\ reserved'[c] = {t + 1 : t \in reserved[c]} \ {Window}
            BY <1>10 DEF S!Tick
        <3> QED BY <1>1, <3>1, AgedKeeps DEF Goal
    <2> QED BY <1>1, <1>3, <1>10, <2>1 DEF S!Tick
<1>11. CASE UNCHANGED <<chan, since, reserved, active>>
    BY <1>1, <1>3, <1>4, <1>11
<1>12. CASE S!Unpause
    <2>1. CASE chan' = S!Resumed /\ since' = S!Forgotten
        <3>1. ASSUME NEW c \in Channels PROVE Goal(c)
            BY <1>1, <1>12, <2>1, ResumeKeeps DEF S!Unpause, Goal
        <3> QED BY <1>1, <1>3, <1>12, <2>1, <3>1 DEF S!Unpause, S!Resumed, S!Forgotten
    <2> QED BY <1>11, <1>12, <2>1 DEF S!Unpause
<1>13. CASE \E op \in {"start", "stop"} : S!Begin(op)
    <2>1. UNCHANGED <<since, reserved>> /\ active' = FALSE
        BY <1>13 DEF S!Begin
    <2>2. CASE chan' = [c \in Channels |-> S!Stop(chan[c])]
        <3>1. ASSUME NEW c \in Channels PROVE Goal(c)
            <4>1. S!Stop(chan[c]) \in S!Health /\ S!Stop(chan[c]).run = 0 /\ Ring(S!Stop(chan[c]))
                BY <1>1, BlankIs
            <4> QED BY <1>1, <2>1, <2>2, <4>1, StopKeeps DEF Goal
        <3> QED BY <1>1, <1>3, <2>1, <2>2, <3>1
    <2>3. CASE chan' = chan
        BY <1>1, <1>3, <1>4, <2>1, <2>3
    <2> QED BY <1>13, <2>2, <2>3 DEF S!Begin
<1>14. CASE S!StartAll
    <2>1. ASSUME NEW c \in Channels PROVE Goal(c)
        <3>1. chan'[c] = S!Reset(chan[c], c \in Periodic) /\ since'[c] = 0 /\ reserved'[c] = {}
            BY <1>14 DEF S!StartAll
        <3>2. chan'[c] \in S!Health /\ chan'[c].run = 0 /\ Ring(chan'[c])
            <4> DEFINE b == c \in Periodic
            <4>1. b \in BOOLEAN /\ chan'[c] = S!Reset(chan[c], b)
                BY <3>1
            <4> HIDE DEF b
            <4> QED BY <1>1, <4>1, BlankIs
        <3> QED BY <1>2, <3>1, <3>2, ResetKeeps DEF Goal
    <2> QED BY <1>3, <1>14, <2>1 DEF S!StartAll
<1>15. CASE S!Sample
    <2>1. CASE active
        <3> DEFINE woke == slept > Threshold
                   seen == IF woke THEN S!Resumed ELSE chan
                   due == {c \in Periodic : S!RepairDue(seen[c])}
                   fresh == IF woke THEN S!Forgotten ELSE since
        <3>1. CASE pauses = 0
            <4>1. /\ chan' = [c \in Channels |-> IF c \in due THEN S!ReserveRepair(seen[c]) ELSE seen[c]]
                  /\ reserved' = [c \in Channels |-> IF c \in due THEN reserved[c] \cup {0} ELSE reserved[c]]
                  /\ since' = fresh /\ active' = active
                BY <1>15, <2>1, <3>1 DEF S!Sample
            <4>2. ASSUME NEW c \in Channels PROVE Goal(c)
                <5>1. ChannelIs(seen[c], fresh[c], reserved[c], TRUE)
                    BY <1>1, <2>1, ResumeKeeps
                <5>2. c \in due => S!RepairDue(seen[c])
                    OBVIOUS
                <5> HIDE DEF seen, fresh, due
                <5>3. CASE c \in due
                    <6>1. ChannelIs(S!ReserveRepair(seen[c]), fresh[c], reserved[c] \cup {0}, TRUE)
                        BY <5>1, <5>2, <5>3, ReserveKeeps
                    <6> QED BY <2>1, <4>1, <5>3, <6>1 DEF Goal
                <5>4. CASE c \notin due
                    BY <2>1, <4>1, <5>1, <5>4 DEF Goal
                <5> QED BY <5>3, <5>4
            <4>3. fresh = [c \in Channels |-> fresh[c]]
                BY <1>1 DEF S!Forgotten
            <4> HIDE DEF seen, fresh, due
            <4> QED BY <1>3, <4>1, <4>2, <4>3
        <3>2. CASE pauses # 0
            BY <1>11, <1>15, <3>2 DEF S!Sample
        <3> QED BY <3>1, <3>2
    <2>2. CASE ~active
        BY <1>11, <1>15, <2>2 DEF S!Sample
    <2> QED BY <2>1, <2>2
<1>16. ASSUME NEW c \in Channels, S!Opened(c) PROVE ChannelInv'
    <2> DEFINE h == [chan[c] EXCEPT !.connected = TRUE]
    <2>1. h \in S!Health /\ Kept(h, chan[c])
        BY <1>1, EditedIs
    <2>2. S!Resume(h) \in S!Health /\ Kept(S!Resume(h), chan[c]) /\ S!Resume(h).run = 0
        BY <2>1, ResumedIs DEF Kept
    <2>3. CASE chan' = [chan EXCEPT ![c] = S!Resume([@ EXCEPT !.connected = TRUE])]
               /\ since' = [since EXCEPT ![c] = 0]
        <3>1. chan'[c] = S!Resume(h) /\ since'[c] = 0
              /\ \A d \in Channels : d # c => chan'[d] = chan[d] /\ since'[d] = since[d]
            BY <1>1, <2>3
        <3>2. UNCHANGED <<reserved, active>>
            BY <1>16 DEF S!Opened
        <3> HIDE DEF h
        <3>3. Goal(c)
            BY <1>5, <2>2, <3>1, <3>2
        <3>4. \A d \in Channels : d # c => Goal(d)
            BY <1>4, <3>1, <3>2
        <3> QED BY <1>1, <1>3, <2>3, <3>2, <3>3, <3>4
    <2>4. CASE UNCHANGED <<chan, since>>
        BY <1>11, <1>16, <2>4 DEF S!Opened
    <2> QED BY <1>16, <2>3, <2>4 DEF S!Opened
<1>17. ASSUME NEW c \in Channels, NEW b \in BOOLEAN, S!Lost(c, b) PROVE ChannelInv'
    <2>1. CASE chan' = [chan EXCEPT ![c] = S!Erred(@, b)]
        <3>1. chan'[c] = S!Erred(chan[c], b) /\ \A d \in Channels : d # c => chan'[d] = chan[d]
            BY <1>1, <2>1
        <3>2. chan'[c] \in S!Health /\ Kept(chan'[c], chan[c]) /\ chan'[c].run = 0
            BY <1>1, <3>1, ErredIs
        <3>4. chan[c].run \in 0 .. 2
            BY <1>1, HealthIs
        <3>3. UNCHANGED <<since, reserved, active>>
            BY <1>17 DEF S!Lost
        <3>5. chan' = [d \in Channels |-> chan'[d]]
            BY <1>1, <2>1
        <3>6. chan'[c].run <= chan[c].run
            BY <3>2, <3>4
        <3> QED BY <1>6, <3>1, <3>2, <3>3, <3>5, <3>6
    <2>2. CASE UNCHANGED chan
        BY <1>11, <1>17, <2>2 DEF S!Lost
    <2> QED BY <1>17, <2>1, <2>2 DEF S!Lost
<1>18. ASSUME NEW c \in Channels, NEW valid \in BOOLEAN, S!Push(c, valid) PROVE ChannelInv'
    <2> DEFINE kept == S!Current(c, push[c].epoch, push[c].gen)
               more == IF since[c] < 2 THEN since[c] + 1 ELSE 2
    <2>1. UNCHANGED <<reserved, active>>
        BY <1>18 DEF S!Push
    <2>2. CASE kept
        <3>1. chan' = [chan EXCEPT ![c] = S!Frame(@, valid)]
              /\ since' = IF valid THEN [since EXCEPT ![c] = IF @ < 2 THEN @ + 1 ELSE 2] ELSE since
            BY <1>18, <2>2 DEF S!Push
        <3>2. /\ chan'[c] = S!Frame(chan[c], valid) /\ since'[c] = IF valid THEN more ELSE since[c]
              /\ \A d \in Channels : d # c => chan'[d] = chan[d] /\ since'[d] = since[d]
            BY <1>1, <3>1
        <3>3. chan[c].run \in 0 .. 2 /\ chan[c].run <= since[c] /\ since[c] \in 0 .. 2
            BY <1>1, HealthIs DEF ChannelIs
        <3>4. chan'[c] \in S!Health /\ Kept(chan'[c], chan[c])
              /\ chan'[c].run <= (IF valid THEN chan[c].run + 1 ELSE 0) /\ chan'[c].run \in 0 .. 2
            BY <1>1, <3>2, FramedIs, HealthIs
        <3>5. since'[c] \in 0 .. 2 /\ chan'[c].run <= since'[c]
            BY <3>2, <3>3, <3>4
        <3>6. Goal(c)
            BY <1>5, <2>1, <3>4, <3>5
        <3>7. \A d \in Channels : d # c => Goal(d)
            BY <1>4, <2>1, <3>2
        <3> QED BY <1>1, <1>3, <2>1, <3>1, <3>6, <3>7
    <2>3. CASE ~kept
        BY <1>11, <1>18, <2>3 DEF S!Push
    <2> QED BY <2>2, <2>3
<1>19. ASSUME NEW c \in Channels, S!Repair(c) PROVE ChannelInv'
    <2> DEFINE h == [chan[c] EXCEPT !.denied = @ \/ monitor.ev = "denied"]
               again == monitor.ev = "responsive" /\ S!State(h) = "stale"
    <2>1. (chan[c].denied \/ monitor.ev = "denied") \in BOOLEAN
        BY <1>1, HealthIs
    <2>2. h \in S!Health /\ Kept(h, chan[c]) /\ h.run = chan[c].run
        BY <1>1, <2>1, EditedIs
    <2>3. /\ chan' = [chan EXCEPT ![c] = IF again THEN S!Reopen(h) ELSE h]
          /\ since' = IF again THEN [since EXCEPT ![c] = 0] ELSE since
          /\ UNCHANGED <<reserved, active>>
        BY <1>19 DEF S!Repair
    <2> HIDE DEF h, again
    <2>4. chan'[c] = (IF again THEN S!Reopen(h) ELSE h) /\ since'[c] = (IF again THEN 0 ELSE since[c])
          /\ \A d \in Channels : d # c => chan'[d] = chan[d] /\ since'[d] = since[d]
        BY <1>1, <2>3
    <2>5. S!Reopen(h) \in S!Health /\ Kept(S!Reopen(h), chan[c]) /\ S!Reopen(h).run = 0
        BY <2>2, ReopenedIs DEF Kept
    <2>6. chan[c].run <= since[c] /\ since[c] \in 0 .. 2
        BY <1>1 DEF ChannelIs
    <2>7. Goal(c)
        BY <1>5, <2>2, <2>3, <2>4, <2>5, <2>6
    <2>8. \A d \in Channels : d # c => Goal(d)
        BY <1>4, <2>3, <2>4
    <2> QED BY <1>1, <1>3, <2>3, <2>7, <2>8
<1>20. ASSUME S!Pause \/ S!StopDone \/ \E ev \in S!Evidence : S!Record(ev) PROVE UNCHANGED <<chan, since, reserved, active>>
    BY <1>20 DEF S!Pause, S!StopDone, S!Record
<1>21. ASSUME NEW c \in Channels, S!StopAll(c) \/ S!Message(c) \/ S!Take(c) \/ S!Rejoin(c)
       PROVE  UNCHANGED <<chan, since, reserved, active>>
    BY <1>21 DEF S!StopAll, S!Message, S!Take, S!Rejoin
<1> QED BY <1>10, <1>11, <1>12, <1>13, <1>14, <1>15, <1>16, <1>17, <1>18, <1>19, <1>20, <1>21 DEF S!Next

LEMMA StreamsStep == ASSUME StreamsInv, S!Next PROVE StreamsInv'
BY CountStep, HeldStep, StreamTypesStep, CurrentStep, ChannelStep DEF StreamsInv

LEMMA FewRepairs ==
    ASSUME ChannelInv, NEW c \in Channels
    PROVE  S!Cardinality(reserved[c]) <= 3
<1>1. PICK f \in [0 .. 2 -> Nat] : reserved[c] \subseteq {f[0], f[1], f[2]}
    BY DEF ChannelInv, ChannelIs
<1> DEFINE a == f[0]
           b == f[1]
           d == f[2]
<1>2. IsFiniteSet({a}) /\ Cardinality({a}) = 1
    BY FS_Singleton
<1> DEFINE two == {a} \cup {b}
<1>3. IsFiniteSet(two) /\ Cardinality(two) <= 2
    BY <1>2, FS_AddElement
<1>4. Cardinality(two) \in Nat
    BY <1>3, FS_CardinalityType
<1> HIDE DEF two
<1>9. IsFiniteSet(two \cup {d}) /\ Cardinality(two \cup {d}) <= 3
    BY <1>3, <1>4, FS_AddElement
<1>5. IsFiniteSet(({a} \cup {b}) \cup {d}) /\ Cardinality(({a} \cup {b}) \cup {d}) <= 3
    BY <1>9 DEF two
<1>6. reserved[c] \in SUBSET (({a} \cup {b}) \cup {d})
    BY <1>1
<1> HIDE DEF a, b, d
<1>7. IsFiniteSet(reserved[c]) /\ Cardinality(reserved[c]) <= Cardinality(({a} \cup {b}) \cup {d})
    BY <1>5, <1>6, FS_Subset
<1>8. Cardinality(reserved[c]) \in Nat /\ Cardinality(({a} \cup {b}) \cup {d}) \in Nat
    BY <1>5, <1>7, FS_CardinalityType
<1> QED BY <1>5, <1>7, <1>8, SameCount

LEMMA StreamsSafe ==
    ASSUME StreamsInv
    PROVE  S!TypeOK /\ S!FreshIsEarned /\ S!RepairsAreRare
<1> USE DEF StreamsInv
<1>1. S!TypeOK
    <2>1. epoch \in 0 .. MaxOps /\ pauses \in 0 .. MaxOps /\ observation \in 0 .. (2 * MaxOps)
        <3>1. epoch \in Nat /\ taken \in Nat /\ pauses \in Nat /\ observation \in Nat
              /\ epoch + taken <= MaxOps /\ observation + pauses <= 2 * taken /\ pauses <= taken
            BY DEF CountInv
        <3>2. epoch <= MaxOps /\ taken <= MaxOps /\ MaxOps \in Nat
            BY <3>1, TimeBounds
        <3>3. pauses <= MaxOps
            BY <3>1, <3>2
        <3>4. observation <= 2 * MaxOps
            BY <3>1, <3>2
        <3> QED BY <3>1, <3>2, <3>3, <3>4
    <2>2. chan \in [Channels -> S!Health] /\ since \in [Channels -> 0 .. 2]
        BY DEF ChannelInv
    <2>3. \A c \in Channels : sock[c].state \in {"off", "connecting", "open", "down"}
        BY DEF StreamTypes, Sock
    <2>4. owner \in {"idle", "start", "stop"} /\ lifecycle \in {"free", "owner", "monitor"}
          /\ ((lifecycle = "owner") <=> (owner # "idle"))
        BY DEF HeldInv
    <2> QED BY <2>1, <2>2, <2>3, <2>4 DEF S!TypeOK, CountInv, StreamTypes, S!Free
<1>2. S!FreshIsEarned
    <2> SUFFICES ASSUME NEW c \in Channels, S!State(chan[c]) = "fresh" PROVE since[c] >= 2
        BY DEF S!FreshIsEarned
    <2>1. chan[c].run >= 2
        BY DEF S!State
    <2> QED BY <2>1, HealthIs DEF ChannelInv, ChannelIs
<1>3. S!RepairsAreRare
    BY FewRepairs DEF S!RepairsAreRare
<1> QED BY <1>1, <1>2, <1>3

\* A channel is reopened by Repair only, and while it is stale.
LEMMA SilentStep ==
    ASSUME StreamsInv, S!Next, NEW c \in Channels, monitor.pc # c, monitor'.pc = c
    PROVE  S!Silent(chan[c])
<1>1. c \notin {"idle", "probe", "repair"} /\ chan[c] \in S!Health /\ monitor = [monitor EXCEPT !.pc = @]
      /\ monitor \in Watch
    BY ChannelsAreNoSteps DEF StreamsInv, HeldInv, ChannelInv, Watch
<1>0. \A k : [monitor EXCEPT !.pc = k].pc = k
    BY <1>1 DEF Watch
<1>2. ASSUME NEW d \in Channels, S!Done(d) PROVE monitor'.pc \in {"idle", "repair"}
    <2>1. monitor' = S!Idle \/ monitor' = [[monitor EXCEPT !.pc = "repair"] EXCEPT !.due = monitor.due \ {d}]
        BY <1>1, <1>2 DEF S!Done, Watch
    <2>2. [[monitor EXCEPT !.pc = "repair"] EXCEPT !.due = monitor.due \ {d}].pc = "repair"
        BY <1>1 DEF Watch
    <2>3. S!Idle.pc = "idle"
        BY DEF S!Idle
    <2> QED BY <2>1, <2>2, <2>3
<1>3. CASE S!Repair(c)
    <2> DEFINE h == [chan[c] EXCEPT !.denied = @ \/ monitor.ev = "denied"]
    <2>1. S!State(h) = "stale"
        BY <1>1, <1>2, <1>3 DEF S!Repair
    <2>2. S!Silent(h)
        BY <2>1 DEF S!State
    <2>3. h.age = chan[c].age
        BY <1>1, HealthIs
    <2> HIDE DEF h
    <2> QED BY <2>2, <2>3 DEF S!Silent
<1>4. ASSUME NEW d \in Channels, d # c, S!Repair(d) PROVE FALSE
    BY <1>0, <1>1, <1>2, <1>4 DEF S!Repair
<1>5. ASSUME NEW d \in Channels, S!Rejoin(d) PROVE FALSE
    BY <1>1, <1>2, <1>5 DEF S!Rejoin
<1>6. CASE S!Sample
    BY <1>1, <1>6 DEF S!Sample
<1>7. ASSUME NEW ev \in S!Evidence, S!Record(ev) PROVE FALSE
    <2>1. monitor' = S!Idle \/ monitor' = [[monitor EXCEPT !.pc = "repair"] EXCEPT !.ev = ev]
        BY <1>7 DEF S!Record
    <2>2. [[monitor EXCEPT !.pc = "repair"] EXCEPT !.ev = ev].pc = "repair"
        BY <1>1 DEF Watch
    <2>3. S!Idle.pc = "idle"
        BY DEF S!Idle
    <2> QED BY <1>1, <1>7, <2>1, <2>2, <2>3
<1>8. CASE UNCHANGED monitor
    BY <1>8
<1>9. ASSUME NEW d \in Channels, S!StopAll(d) \/ S!Opened(d) \/ S!Message(d) \/ S!Take(d) PROVE UNCHANGED monitor
    BY <1>9 DEF S!StopAll, S!Opened, S!Message, S!Take
<1>10. ASSUME NEW d \in Channels, NEW b \in BOOLEAN, S!Lost(d, b) \/ S!Push(d, b) PROVE UNCHANGED monitor
    BY <1>10 DEF S!Lost, S!Push
<1>11. ASSUME S!Tick \/ S!Pause \/ S!Unpause \/ S!StartAll \/ S!StopDone \/ \E op \in {"start", "stop"} : S!Begin(op)
       PROVE  UNCHANGED monitor
    BY <1>11 DEF S!Tick, S!Pause, S!Unpause, S!StartAll, S!StopDone, S!Begin
<1> QED BY <1>3, <1>4, <1>5, <1>6, <1>7, <1>8, <1>9, <1>10, <1>11 DEF S!Next

\* Frames and evidence are of the kernel that runs; a channel is fresh only on frames of its
\* connection, repairs are rare and current, no socket is deaf, and only a silent channel is
\* reopened (CoreStreams, RuntimeHealth).
THEOREM StreamsHold == Spec => StreamsAreCurrent
<1>1. Init => StreamsInv
    BY StreamsInit DEF Init
<1>2. ASSUME StreamsInv, [Next]_vars
      PROVE  /\ StreamsInv'
             /\ [\A c \in Channels : monitor.pc # c /\ monitor'.pc = c => S!Silent(chan[c])]_(S!vars)
    <2>1. CASE S!Next
        BY <1>2, <2>1, StreamsStep, SilentStep
    <2>2. CASE UNCHANGED streams
        BY <1>2, <2>2 DEF streams, S!vars, StreamsInv, CountInv, StreamTypes, HeldInv, CurrentInv, ChannelInv,
                          S!RepairIsCurrent, S!FrameIsOfThisKernel, S!EvidenceIsCurrent, S!NoDeafSocket
    <2> QED BY <1>2, <2>1, <2>2 DEF Next, vars
<1>3. StreamsInv => S!TypeOK
    BY StreamsSafe
<1>4. StreamsInv => S!FreshIsEarned
    BY StreamsSafe
<1>5. StreamsInv => S!RepairsAreRare
    BY StreamsSafe
<1>6. StreamsInv => S!FrameIsOfThisKernel /\ S!EvidenceIsCurrent /\ S!NoDeafSocket /\ S!RepairIsCurrent
    BY DEF StreamsInv, CurrentInv, HeldInv
<1>7. StreamsInv /\ [Next]_vars =>
        [\A c \in Channels : monitor.pc # c /\ monitor'.pc = c => S!Silent(chan[c])]_(S!vars)
    BY <1>2
<1>8. Spec => []StreamsInv
    BY <1>1, <1>2, PTL DEF Spec
<1>9. Spec => []S!TypeOK
    BY <1>8, <1>3, PTL
<1>10. Spec => []S!FreshIsEarned
    BY <1>8, <1>4, PTL
<1>11. Spec => []S!RepairsAreRare
    BY <1>8, <1>5, PTL
<1>12. Spec => []S!FrameIsOfThisKernel /\ []S!EvidenceIsCurrent /\ []S!NoDeafSocket /\ []S!RepairIsCurrent
    BY <1>8, <1>6, PTL
<1>13. Spec => S!OnlySilentIsReopened
    BY <1>8, <1>7, PTL DEF Spec, S!OnlySilentIsReopened
<1> QED BY <1>9, <1>10, <1>11, <1>12, <1>13 DEF StreamsAreCurrent
=============================================================================

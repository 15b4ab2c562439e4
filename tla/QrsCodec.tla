------------------------------- MODULE QrsCodec -------------------------------
(***************************************************************************)
(* A configuration shared as a stream of QR codes (qrs_codec.cpp), and the *)
(* scanner that puts it together (profiles_page_forms.cpp).  A code holds  *)
(* the sum, bit by bit, of some of the source's blocks: a block is its     *)
(* number, and a sum the set of the blocks it is the sum of, so that to    *)
(* add is to take the symmetric difference.  What a code says it holds and *)
(* what it holds are two such sets; they differ by some noise when the     *)
(* code was not one of the source's.  Codes are seen in any order, again   *)
(* and again, some never, and those of another stream in between.  The     *)
(* streams have as many blocks and differ in their checksum.               *)
(***************************************************************************)
EXTENDS Integers, FiniteSets

CONSTANTS
    Streams,        \* by the headers of their codes
    BlockCount,     \* blocks of a source
    MaxDegree       \* blocks in a code

VARIABLES
    stream,         \* the stream whose rows are kept, or 0
    rows,           \* by pivot: the blocks a row is the sum of, and its data
    span,           \* every sum of the codes taken since the rows began
    result          \* what the last code brought

vars == <<stream, rows, span, result>>

Blocks == 1 .. BlockCount
Noises == {0, -1}
Row == [bits : SUBSET Blocks, data : SUBSET (Blocks \cup Noises)]
Empty == [p \in {} |-> {}]
Zero == [bits |-> {}, data |-> {}]

\* A checksum tells a source from anything else; a sum is the source's when its data are
\* the blocks it says.
Source == [b \in Blocks |-> {b}]

TypeOK ==
    /\ stream \in Streams \cup {0}
    /\ DOMAIN rows \subseteq Blocks /\ \A p \in DOMAIN rows : rows[p] \in Row
    /\ span \subseteq Row
    /\ result \in {"none", "more", "complete", "error"}

Init == stream = 0 /\ rows = Empty /\ span = {Zero} /\ result = "none"

\* Encode: the blocks one by one, then sums of a few of them.
Emitted == {bits \in SUBSET Blocks : Cardinality(bits) \in 1 .. MaxDegree}

Sum(a, b) == (a \ b) \cup (b \ a)
XorInto(target, source) == [bits |-> Sum(target.bits, source.bits), data |-> Sum(target.data, source.data)]

\* The row less every row whose pivot it has. No row has another's pivot, so the order does
\* not matter: what is left of an element is whether it was there an odd number of times.
Reduced(row, kept) ==
    LET used == {p \in DOMAIN kept : p \in row.bits}
        Odd(own, others) == own # (Cardinality(others) % 2 = 1) IN
    [bits |-> {b \in Blocks : Odd(b \in row.bits, {p \in used : b \in kept[p].bits})},
     data |-> {b \in Blocks \cup Noises : Odd(b \in row.data, {p \in used : b \in kept[p].data})}]

Pivot(row) == CHOOSE b \in row.bits : \A c \in row.bits : b <= c

\* The rows with one more, whose pivot no other keeps.
WithRow(kept, row) ==
    [p \in DOMAIN kept \cup {Pivot(row)} |->
        IF p = Pivot(row) THEN row
        ELSE IF Pivot(row) \in kept[p].bits THEN XorInto(kept[p], row) ELSE kept[p]]

\* Mutant: a code that tells nothing new begins the scan anew.
AddForgets(s, frame) ==
    LET kept == IF stream = s THEN rows ELSE Empty
        row == Reduced(frame, kept)
        next == WithRow(kept, row)
        sums == IF stream = s THEN span ELSE {Zero}
        grown == sums \cup {XorInto(v, frame) : v \in sums}
        whole == DOMAIN next = Blocks
        merged == [b \in Blocks |-> next[b].data] IN
    IF row.bits = {}
    THEN /\ stream' = s /\ rows' = Empty /\ span' = {Zero}
         /\ result' = "more"
    ELSE IF ~whole
    THEN /\ stream' = s /\ rows' = next /\ span' = grown
         /\ result' = "more"
    ELSE IF merged = Source
    THEN /\ stream' = s /\ rows' = next /\ span' = grown
         /\ result' = "complete"
    ELSE /\ stream' = 0 /\ rows' = Empty /\ span' = {Zero}
         /\ result' = "error"

\* Decoder::Add, and what the scanner does with its answer: a code of another stream begins
\* anew, one that tells nothing new is dropped, and a sum that does not check is forgotten
\* with all the rows.
Add(s, frame) ==
    LET kept == IF stream = s THEN rows ELSE Empty
        row == Reduced(frame, kept)
        next == WithRow(kept, row)
        sums == IF stream = s THEN span ELSE {Zero}
        grown == sums \cup {XorInto(v, frame) : v \in sums}
        whole == DOMAIN next = Blocks
        merged == [b \in Blocks |-> next[b].data] IN
    IF row.bits = {}
    THEN /\ stream' = s /\ rows' = kept /\ span' = grown
         /\ result' = "more"
    ELSE IF ~whole
    THEN /\ stream' = s /\ rows' = next /\ span' = grown
         /\ result' = "more"
    ELSE IF merged = Source
    THEN /\ stream' = s /\ rows' = next /\ span' = grown
         /\ result' = "complete"
    ELSE /\ stream' = 0 /\ rows' = Empty /\ span' = {Zero}
         /\ result' = "error"

Next ==
    \E s \in Streams, bits \in Emitted :
        \/ Add(s, [bits |-> bits, data |-> bits])
        \/ \E noise \in Noises : Add(s, [bits |-> bits, data |-> bits \cup {noise}])

Spec == Init /\ [][Next]_vars

-----------------------------------------------------------------------------
Clean(sums) == \A v \in sums : v.data = v.bits

\* The rows are the codes taken since they began, no more and no less: each is a sum of
\* them, each has a pivot of its own that no other row keeps, and whatever blocks the
\* codes add up to, the rows do.
RowsSpanCodes ==
    /\ \A p \in DOMAIN rows :
           /\ rows[p] \in span /\ p = Pivot(rows[p])
           /\ \A q \in DOMAIN rows \ {p} : p \notin rows[q].bits
    /\ Cardinality({v.bits : v \in span}) = 2 ^ Cardinality(DOMAIN rows)

\* Codes of the source that add up to every block are enough, whichever were lost, seen
\* again or out of order: each block is a row of its own, and the last of them completed it.
CodesSuffice ==
    Clean(span) /\ {v.bits : v \in span} = SUBSET Blocks =>
        /\ DOMAIN rows = Blocks
        /\ \A b \in Blocks : rows[b] = [bits |-> {b}, data |-> {b}]

\* A scan fails only by a code that was not the source's, and what was scanned is given up
\* only then or for another stream.
OnlyNoiseFails ==
    [][/\ result' = "error" =>
              \A s \in Streams, bits \in Emitted :
                  Add(s, [bits |-> bits, data |-> bits]) => stream = s /\ ~Clean(span)
       /\ stream' = stream => DOMAIN rows \subseteq DOMAIN rows']_vars
==============================================================================

------------------------------- MODULE Orderings -------------------------------
(***************************************************************************)
(* Lists that are filtered and sorted.  SelectSeq and SortSeq say the same *)
(* by recursion and by a choice among permutations, which proofs cannot    *)
(* use; here a list is read off in the order of a set of numbers.          *)
(***************************************************************************)
EXTENDS Integers, Sequences, FiniteSets

\* The numbers of a finite set, from the least on.
Ascending(J) ==
    CHOOSE f \in [1 .. Cardinality(J) -> J] :
        \A m, n \in 1 .. Cardinality(J) : m < n => f[m] < f[n]

\* std::erase_if: the elements that are in T stay, in their order.
Kept(s, T) ==
    LET at == Ascending({i \in DOMAIN s : s[i] \in T})
    IN [n \in DOMAIN at |-> s[at[n]]]
==============================================================================

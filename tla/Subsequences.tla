---------------------------- MODULE Subsequences ----------------------------
(***************************************************************************)
(* The order of what is left when elements are taken out of a list: the    *)
(* numbers of a set, the smallest first.  The set has one such sequence.   *)
(***************************************************************************)
EXTENDS Naturals, FiniteSets

Ascending(S) == {s \in [1..Cardinality(S) -> S] :
                   \A j, k \in 1..Cardinality(S) : j < k => s[j] < s[k]}

\* Its n-th number.
Rank(S, i) == Cardinality({j \in S : j <= i})
NthOf(S, n) == CHOOSE i \in S : Rank(S, i) = n
=============================================================================

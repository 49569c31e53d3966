----------------------------- MODULE Subsequences ----------------------------
(* What is left of a sequence when some of it is dropped (Array.filter), by    *)
(* the indices that stay: SelectSeq without its recursion.                      *)
EXTENDS Integers, FiniteSets

Kept(s, S) ==
    LET order == CHOOSE q \in [1..Cardinality(S) -> S] :
                     \A i \in DOMAIN q, j \in DOMAIN q : i < j => q[i] < q[j]
    IN [i \in 1..Cardinality(S) |-> s[order[i]]]
=============================================================================

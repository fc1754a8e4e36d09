------------------------------- MODULE Ascending -------------------------------
(***************************************************************************)
(* A finite set of naturals in ascending order, and the elements of a      *)
(* sequence at a set of its positions: what a filter keeps of a list.      *)
(* Both are defined without recursion, so that proofs may rest on them     *)
(* (AscendingProofs).                                                      *)
(***************************************************************************)
EXTENDS Naturals, FiniteSets

Increasing(s) == \A i, j \in DOMAIN s : i < j => s[i] < s[j]

Ascending(S) ==
    CHOOSE s \in [1..Cardinality(S) -> S] :
        Increasing(s) /\ \A x \in S : \E k \in DOMAIN s : s[k] = x

\* The elements of s at the positions I, in the order of s.
At(s, I) ==
    LET places == Ascending(I)
    IN  [k \in 1..Cardinality(I) |-> s[places[k]]]
=============================================================================

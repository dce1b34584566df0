----------------------------- MODULE SortedSets -----------------------------
(***************************************************************************)
(* sorted() of a set: the modules represent what the code sorts, ids and   *)
(* names, by numbers in that order.                                        *)
(***************************************************************************)
EXTENDS Naturals, FiniteSets

\* The elements of a finite set of numbers, in ascending order.
Ascending(numbers) ==
    CHOOSE order \in [1 .. Cardinality(numbers) -> numbers] :
        \A k, l \in DOMAIN order : k < l => order[k] < order[l]
=============================================================================

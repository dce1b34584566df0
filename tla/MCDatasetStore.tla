--------------------------- MODULE MCDatasetStore ---------------------------
(***************************************************************************)
(* Two processes and four tasks, so that builds overlap with one another   *)
(* and with evaluations; one edit, one crash.                              *)
(***************************************************************************)
EXTENDS DatasetStore, TLC

CONSTANTS p1, p2

Default == [seed |-> 1, perContract |-> 10]

\* The second has other seeds, the third other counts.
AnyRequest == {Default, [seed |-> 2, perContract |-> 10], [seed |-> 1, perContract |-> 5]}

ProcessSymmetry == Permutations({p1, p2})
=============================================================================

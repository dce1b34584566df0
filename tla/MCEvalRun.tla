------------------------------ MODULE MCEvalRun ------------------------------
(***************************************************************************)
(* Instances of EvalRun for TLC.  With three cases and a checkpoint every  *)
(* two, a run can stop before, at and after a checkpoint.                  *)
(***************************************************************************)
EXTENDS EvalRunInductive

CONSTANTS c1, c2, c3

TwoCases == <<c1, c2>>
ThreeCases == <<c1, c2, c3>>

\* No action tells one class of observations from another.
ValueSymmetry == Permutations(Values)
=============================================================================

-------------------------------- MODULE Corpus --------------------------------
(***************************************************************************)
(* The corpus from its documents to the results of a candidate: the graph  *)
(* is validated, sorted and exported; then case results come in, one after *)
(* another, and after each the candidate is scored and the graph asked for *)
(* the frontier.                                                           *)
(***************************************************************************)
EXTENDS CapabilityGraph, Scoring

CONSTANT MaxCases   \* bound: case results

ASSUME MaxCasesAssumption == MaxCases \in Nat

vars == <<graphVars, scoreVars>>

NumberOfCases ==
    FoldSet(LAMBDA id, sum : sum + FoldSet(LAMBDA outcome, n : n + cases[id][outcome], 0, Outcome),
            0, Contracts)

\* The documents give each Contract its level, which nothing reads before.
ReadLevels ==
    /\ At("built")
    /\ Contracts = {}
    /\ level' \in [Known -> ToSet(Levels)]
    /\ cases' = [id \in Known |-> [outcome \in Outcome |-> 0]]
    /\ UNCHANGED graphVars

CaseResult ==
    /\ NumberOfCases < MaxCases
    /\ \E id \in Contracts, outcome \in Outcome : AddCase(id, outcome)
    /\ UNCHANGED graphVars

Init ==
    /\ GraphInit
    /\ level = [id \in {} |-> "boot"]
    /\ cases = NoCases

Next ==
    \/ GraphNext /\ UNCHANGED scoreVars
    \/ ReadLevels
    \/ CaseResult

Spec == Init /\ [][Next]_vars

-----------------------------------------------------------------------------
\* Search, sort and scores work on Contracts of the corpus.
TypeOK ==
    /\ GraphTypeOK
    /\ level \in [Known -> ToSet(Levels)] \/ Contracts = {}
    /\ cases \in [Contracts -> [Outcome -> Nat]]

\* docs/BENCHMARK_DESIGN.md:40 and docs/CAPABILITY_COVERAGE.md:26: whoever works
\* through the frontier never runs dry before everything passed.  As long as
\* a Contract that a workload needs has not passed, one of those it needs is on
\* the frontier, and the frontier is empty only when every Contract passed, which
\* is when the candidate's score is perfect, if every level has a Contract.
FrontierNeverDry ==
    Contracts # {} =>
        /\ Frontier(Aggregates) = {} <=> Passed = Known
        /\ OSCorrectIsOne => Frontier(Aggregates) = {}
        /\ \A name \in DOMAIN Workload :
             ~(WorkloadClosure(name) \subseteq Passed) =>
                Frontier(Aggregates) \cap WorkloadClosure(name) # {}
=============================================================================

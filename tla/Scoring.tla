------------------------------- MODULE Scoring -------------------------------
(***************************************************************************)
(* score_results: what a list of case results says of the Contracts, the   *)
(* levels and the candidate.  Means are kept as fractions, which decide    *)
(* the same comparisons as the quotients in the code: a quotient is        *)
(* rounded to the nearest number, and so is a threshold.  Of the geometric *)
(* mean only what it can be 1 or 0 for is modelled.                        *)
(***************************************************************************)
EXTENDS Naturals, FiniteSets, Sequences, SequencesExt

CONSTANTS
    Levels,     \* LEVELS, in their order
    Threshold,  \* depth_threshold, as [num, den]
    NativeThresholds,
    Official,   \* the profiles whose performance is official
    Outcome,    \* what a case may come to: [passed, ratio]
    Unmeasured  \* a case result without performance_ratio

ASSUME ScoringAssumption ==
    /\ Levels \in Seq(STRING) /\ "boot" \in ToSet(Levels)
    /\ Threshold \in [num : Nat, den : Nat \ {0}] /\ Threshold.num <= Threshold.den
    /\ NativeThresholds \subseteq Nat
    /\ Outcome \subseteq [passed : BOOLEAN, ratio : Nat \cup {Unmeasured}]

VARIABLES
    level,  \* the level of each Contract of the corpus
    cases   \* case_results: how many cases of each Contract came to each outcome

scoreVars == <<level, cases>>

Contracts == DOMAIN level

-----------------------------------------------------------------------------
(* Contracts.  A definition whose name extends the name of the next one is *)
(* that one with a mistake in it; no specification uses it.                *)

Evaluated == {id \in Contracts : \E outcome \in Outcome : cases[id][outcome] > 0}

\* The score of a Contract is the share of its cases that passed; it is 1 only
\* if all did.
Passed ==
    {id \in Evaluated : \A outcome \in Outcome : cases[id][outcome] > 0 => outcome.passed}

\* aggregate_contract_results, as far as frontier reads it.
Aggregates == [id \in Evaluated |-> id \in Passed]

AtLevel(name) == {id \in Contracts : level[id] = name}

ObservedAt(name) == AtLevel(name) \cap Evaluated

-----------------------------------------------------------------------------
(* Depth.                                                                  *)

IdsSwapped(name, observedOnly) == IF observedOnly THEN AtLevel(name) ELSE ObservedAt(name)

Ids(name, observedOnly) == IF observedOnly THEN ObservedAt(name) ELSE AtLevel(name)

Upto(k, observedOnly) == UNION {Ids(Levels[i], observedOnly) : i \in 1..k}

Reaches(k, observedOnly) ==
    /\ Ids(Levels[k], observedOnly) # {}
    /\ LET cumulative == Upto(k, observedOnly)
       IN  Cardinality(cumulative \cap Passed) * Threshold.den
             >= Threshold.num * Cardinality(cumulative)

\* _depth: the number of the level it returns, 0 for none.
Depth(observedOnly) ==
    Max({k \in 0..Len(Levels) : \A i \in 1..k : Reaches(i, observedOnly)})

Depth90 == Depth(FALSE)
ObservedDepth90 == Depth(TRUE)

-----------------------------------------------------------------------------
(* Scores.                                                                 *)

BootGate == AtLevel("boot") # {} /\ AtLevel("boot") \subseteq Passed

ObservedBootGate == ObservedAt("boot") # {} /\ ObservedAt("boot") \subseteq Passed

\* A level without Contracts scores 0.
LevelIsFullObserved(name) == AtLevel(name) # {} /\ ObservedAt(name) \subseteq Passed

LevelIsFull(name) == AtLevel(name) # {} /\ AtLevel(name) \subseteq Passed

\* OSCorrect = 1.  The gate is a factor, and the mean of the levels is 1 only if
\* each of them is: no weight is 0 and no score above 1.
OSCorrectIsOne == BootGate /\ \A i \in DOMAIN Levels : LevelIsFull(Levels[i])

\* OSCorrect = 0: the mean itself is not below geometric_epsilon.
OSCorrectIsZero == ~BootGate

\* ObservedCorrect = 1: levels without observations are left out.
ObservedCorrectIsOne ==
    /\ ObservedBootGate
    /\ \A i \in DOMAIN Levels : ObservedAt(Levels[i]) \subseteq Passed

\* level_coverage and contract_coverage = 1.
Covered(name) == AtLevel(name) # {} /\ AtLevel(name) \subseteq Evaluated

ContractCoverageIsOne == Contracts # {} /\ Contracts \subseteq Evaluated

MacroWorkloads == AtLevel("real_workloads") \cup AtLevel("full_reconstruction")

\* Native_p counts the workload Contracts whose cases all passed within p times
\* the time of the reference.
Qualifying(p) ==
    {id \in MacroWorkloads \cap Passed :
        \A outcome \in Outcome :
            cases[id][outcome] > 0 => outcome.ratio # Unmeasured /\ outcome.ratio <= p}

NativeIsOne(p, profile) ==
    /\ profile \in Official
    /\ MacroWorkloads # {} /\ Qualifying(p) = MacroWorkloads

-----------------------------------------------------------------------------
NoCases == [id \in Contracts |-> [outcome \in Outcome |-> 0]]

\* One more case result of a Contract; one of an unknown Contract raises.
AddCase(id, outcome) ==
    /\ id \in Contracts
    /\ cases' = [cases EXCEPT ![id][outcome] = @ + 1]
    /\ UNCHANGED level

-----------------------------------------------------------------------------
(* Properties.                                                             *)

\* The docstring of score_results: what was not evaluated counts as failed, so
\* that a perfect score, or a full Native_p, is that of a candidate that passed
\* every Contract there is, whatever slice of the corpus was run and whichever
\* levels are empty; the observed metrics, which leave out what was not run,
\* are then perfect as well, and never worse than the full ones otherwise.
PerfectMeansComplete ==
    /\ OSCorrectIsOne =>
         /\ Passed = Contracts
         /\ ContractCoverageIsOne /\ \A i \in DOMAIN Levels : Covered(Levels[i])
         /\ Depth90 = Len(Levels) /\ ObservedDepth90 = Len(Levels)
         /\ ObservedCorrectIsOne
    /\ OSCorrectIsOne <=>
         Passed = Contracts /\ \A i \in DOMAIN Levels : AtLevel(Levels[i]) # {}
    /\ ~OSCorrectIsZero => ObservedBootGate
    /\ \A p \in NativeThresholds, profile \in Official :
         NativeIsOne(p, profile) =>
            /\ MacroWorkloads \subseteq Passed
            /\ \A q \in NativeThresholds : q >= p => NativeIsOne(q, profile)

\* README.md:161: a candidate goes deeper only by passing.  One more failed case
\* never raises Depth90, not even where it is the first of its level, one more
\* passed case never lowers it, and so for the boot gate; ObservedDepth90 is not
\* lowered by a passed case either, though a failed one may raise it.
DepthFollowsCases ==
    [][\A outcome \in Outcome, id \in Contracts :
         cases' # cases /\ cases'[id][outcome] > cases[id][outcome] =>
            IF outcome.passed
              THEN /\ Depth90' >= Depth90 /\ ObservedDepth90' >= ObservedDepth90
                   /\ BootGate => BootGate'
              ELSE Depth90' <= Depth90 /\ (BootGate' => BootGate)]_scoreVars
=============================================================================

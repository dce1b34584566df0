--------------------------- MODULE CaseSelection ---------------------------
(***************************************************************************)
(* oracle.select_cases: which cases of the corpus a run evaluates, in      *)
(* which order.  A case is a record of its case_id, its contract and       *)
(* whether its setup asks for a clean snapshot; ids are numbered in the    *)
(* order in which (case_family, case_id) sorts.                            *)
(***************************************************************************)
EXTENDS SequencesExt, SortedSets

CONSTANTS
    ShardOf(_, _),  \* _case_shard(case_id, shard_count)
    NoLimit         \* max_cases is None

\* What a sequence has at these positions, in their order.
Subsequence(seq, positions) ==
    LET order == Ascending(positions)
    IN  [k \in DOMAIN order |-> seq[order[k]]]

\* The least element of (clean_snapshot, case_family, case_id).
Precedes(a, b) ==
    \/ ~a.clean /\ b.clean
    \/ a.clean = b.clean /\ a.case_id <= b.case_id

\* One case per contract, in the order of the contracts.
Representatives(corpus) ==
    LET group(k) == {c \in ToSet(corpus) : c.contract = k}
        contracts == {c.contract : c \in ToSet(corpus)}
        least(k) == CHOOSE c \in group(k) : \A d \in group(k) : Precedes(c, d)
        sorted == Ascending(contracts)
    IN  [i \in DOMAIN sorted |-> least(sorted[i])]

First(cases, n) ==
    IF n = NoLimit \/ n >= Len(cases) THEN cases ELSE SubSeq(cases, 1, n)

\* The loop stops at the max_cases-th case of the shard.
SelectCases(corpus, onePerContract, maxCases, shardCount, shardIndex) ==
    LET cases == IF onePerContract THEN Representatives(corpus) ELSE corpus
        inShard == {k \in DOMAIN cases :
                      ShardOf(cases[k].case_id, shardCount) = shardIndex}
    IN  First(Subsequence(cases, inShard), maxCases)
=============================================================================

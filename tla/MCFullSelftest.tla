--------------------------- MODULE MCFullSelftest ---------------------------
(***************************************************************************)
(* Three shards on two workers, so that one waits in the queue; three      *)
(* cases of two contracts: one shard has two of them, one has none.        *)
(***************************************************************************)
EXTENDS FullSelftest

MCCase(i, k, clean) == [case_id |-> i, contract |-> k, clean |-> clean]

\* The second contract's reusable case is not its first one.
MCCorpus == <<MCCase(1, 1, FALSE), MCCase(2, 2, TRUE), MCCase(3, 2, FALSE)>>

MCShardOf(id, count) == (IF id = 3 THEN 1 ELSE 0) % count

MCOptions ==
    {[onePerContract |-> FALSE, maxCases |-> NoLimit],
     [onePerContract |-> TRUE, maxCases |-> NoLimit],
     [onePerContract |-> FALSE, maxCases |-> 1]}
=============================================================================

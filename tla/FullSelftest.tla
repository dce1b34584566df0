---------------------------- MODULE FullSelftest ----------------------------
(***************************************************************************)
(* full_selftest.run_full_local_selftest: every shard of the public corpus *)
(* is evaluated by a thread of a pool, the calling thread collects the     *)
(* results as they complete, merges the result documents and judges the    *)
(* whole.  What one evaluate call does inside is EvalRun's subject: here   *)
(* it loads the corpus, then returns a judgement for each case of its      *)
(* shard or raises.                                                        *)
(*                                                                         *)
(* Another process may rebuild the corpus while shards are starting.       *)
(***************************************************************************)
EXTENDS CaseSelection

CONSTANTS
    Corpus,         \* the cases of the public corpus, in file order
    ShardCount,     \* shard_count
    Jobs,           \* max_workers of the executor
    Options,        \* the [onePerContract, maxCases] a caller may ask for
    Versions,       \* the corpora that may be on disk when a shard loads it
    Hangs,          \* may a shard run for ever?
    NoDocument      \* no document

ASSUME PoolAssumption ==
    /\ ShardCount \in Nat \ {0}
    /\ Jobs \in Nat \ {0}
    /\ Versions # {}
    /\ Hangs \in BOOLEAN

Shard == 0 .. ShardCount - 1

\* validate_dataset refuses a corpus with a case id twice.
ASSUME CorpusAssumption ==
    /\ Corpus \in Seq([case_id : Nat, contract : Nat, clean : BOOLEAN])
    /\ \A i, j \in DOMAIN Corpus : Corpus[i].case_id = Corpus[j].case_id => i = j
    /\ \A i \in DOMAIN Corpus : ShardOf(Corpus[i].case_id, ShardCount) \in Shard

ASSUME OptionAssumption ==
    /\ Options \subseteq [onePerContract : BOOLEAN, maxCases : (Nat \ {0}) \cup {NoLimit}]
    /\ NoLimit \notin Nat

VARIABLES
    option,     \* one_per_contract and max_cases_per_shard
    shard,      \* the future of each shard
    document,   \* the result document of each shard
    overdue,    \* shards that have run longer than shard_timeout_seconds
    pc,         \* what the calling thread does next
    yielded,    \* futures as_completed has yielded
    paths,      \* shards whose result file was taken
    errors,     \* shards with an error line
    timedOut,   \* the "timed out waiting for shards" line was added
    merged,     \* results/full-local-selftest.json
    passed      \* the returned "passed"

poolVars == <<shard, document, overdue>>
mainVars == <<pc, yielded, paths, errors, timedOut, merged, passed>>
vars == <<option, poolVars, mainVars>>

Finished == {"returned", "raised"}

\* What each shard selects; with a name of its own TLC computes it once.
Selections ==
    [asked \in Options |-> [i \in Shard |->
        SelectCases(Corpus, asked.onePerContract, asked.maxCases, ShardCount, i)]]

Selection(i) == Selections[option][i]

-----------------------------------------------------------------------------
(* The pool.  A definition whose name extends the name of the next one is  *)
(* that one with a mistake in it; no specification uses it.                *)

Running == {i \in Shard : shard[i] \in {"starting", "running", "hung"}}

\* A free worker takes the oldest queued shard.
StartShard(i) ==
    /\ shard[i] = "queued"
    /\ \A j \in Shard : j < i => shard[j] # "queued"
    /\ Cardinality(Running) < Jobs
    /\ shard' = [shard EXCEPT ![i] = "starting"]
    /\ UNCHANGED <<option, document, overdue, mainVars>>

\* evaluate reads the corpus that is on disk now, and records its hash in the
\* result document.
LoadCorpus(i) ==
    /\ shard[i] = "starting"
    /\ shard' = [shard EXCEPT ![i] = "running"]
    /\ \E version \in Versions :
         document' = [document EXCEPT ![i].dataset = version]
    /\ UNCHANGED <<option, overdue, mainVars>>

Judgement == {"passed", "failed", "unsupported"}

\* What evaluate reports of its cases: the results, and the ids it skipped.
Judged(cases, verdict) ==
    LET skipped == {k \in DOMAIN cases : verdict[cases[k].case_id] = "unsupported"}
        run == Subsequence(cases, DOMAIN cases \ skipped)
        skip == Subsequence(cases, skipped)
    IN  [cases       |-> [k \in DOMAIN run |->
                            [case_id |-> run[k].case_id,
                             passed  |-> verdict[run[k].case_id] = "passed"]],
         unsupported |-> [k \in DOMAIN skip |-> skip[k].case_id]]

ReturnResult(i) ==
    /\ shard[i] = "running"
    /\ \E verdict \in [{c.case_id : c \in ToSet(Selection(i))} -> Judgement] :
         LET judged == Judged(Selection(i), verdict)
         IN  document' = [document EXCEPT ![i].cases = judged.cases,
                                          ![i].unsupported = judged.unsupported]
    /\ shard' = [shard EXCEPT ![i] = "returned"]
    /\ UNCHANGED <<option, overdue, mainVars>>

RaiseError(i) ==
    /\ shard[i] \in {"starting", "running"}
    /\ shard' = [shard EXCEPT ![i] = "raised"]
    /\ UNCHANGED <<option, document, overdue, mainVars>>

Hang(i) ==
    /\ Hangs
    /\ shard[i] = "running"
    /\ shard' = [shard EXCEPT ![i] = "hung"]
    /\ UNCHANGED <<option, document, overdue, mainVars>>

\* Time passes: a shard has been running longer than its timeout.
Overrun(i) ==
    /\ i \in Running \ overdue
    /\ overdue' = overdue \cup {i}
    /\ UNCHANGED <<option, shard, document, mainVars>>

-----------------------------------------------------------------------------
(* The calling thread.                                                     *)

CollectAnyway(i) ==
    /\ pc = "collect"
    /\ i \notin yielded
    /\ shard[i] \in Finished
    /\ yielded' = yielded \cup {i}
    /\ paths' = paths \cup {i}
    /\ UNCHANGED <<option, poolVars, pc, errors, timedOut, merged, passed>>

\* A finished future: its result file, or a line for its exception.  The
\* timeout passed to result() cannot expire any more.
Collect(i) ==
    /\ pc = "collect"
    /\ i \notin yielded
    /\ shard[i] \in Finished
    /\ yielded' = yielded \cup {i}
    /\ IF shard[i] = "returned"
         THEN paths' = paths \cup {i} /\ UNCHANGED errors
         ELSE errors' = errors \cup {i} /\ UNCHANGED paths
    /\ UNCHANGED <<option, poolVars, pc, timedOut, merged, passed>>

CollectedAllPaths ==
    /\ pc = "collect"
    /\ paths = Shard
    /\ pc' = "drain"
    /\ UNCHANGED <<option, poolVars, yielded, paths, errors, timedOut, merged, passed>>

CollectedAll ==
    /\ pc = "collect"
    /\ yielded = Shard
    /\ pc' = "drain"
    /\ UNCHANGED <<option, poolVars, yielded, paths, errors, timedOut, merged, passed>>

DeadlineUnreported ==
    /\ pc = "collect"
    /\ yielded # Shard
    /\ overdue # {}
    /\ pc' = "drain"
    /\ UNCHANGED <<option, poolVars, yielded, paths, errors, timedOut, merged, passed>>

DeadlineCountingFromOne ==
    /\ pc = "collect"
    /\ yielded # Shard
    /\ overdue # {}
    /\ timedOut' = TRUE
    /\ errors' = errors \cup {i + 1 : i \in {j \in Shard : shard[j] \notin Finished}}
    /\ pc' = "drain"
    /\ UNCHANGED <<option, poolVars, yielded, paths, merged, passed>>

\* as_completed gives up after shard_count times the timeout of a shard,
\* which takes at least one shard that has overrun its own.
Deadline ==
    /\ pc = "collect"
    /\ yielded # Shard
    /\ overdue # {}
    /\ timedOut' = TRUE
    /\ errors' = errors \cup {i \in Shard : shard[i] \notin Finished}
    /\ pc' = "drain"
    /\ UNCHANGED <<option, poolVars, yielded, paths, merged, passed>>

DrainStarted ==
    /\ pc = "drain"
    /\ Running = {}
    /\ pc' = "report"
    /\ UNCHANGED <<option, poolVars, yielded, paths, errors, timedOut, merged, passed>>

\* Leaving the with statement waits for every submitted shard, the queued
\* ones included; nothing is cancelled.
Drain ==
    /\ pc = "drain"
    /\ \A i \in Shard : shard[i] \in Finished
    /\ pc' = "report"
    /\ UNCHANGED <<option, poolVars, yielded, paths, errors, timedOut, merged, passed>>

ReportNothing ==
    /\ pc = "report"
    /\ paths = {}
    /\ passed' = FALSE
    /\ pc' = "done"
    /\ UNCHANGED <<option, poolVars, yielded, paths, errors, timedOut, merged>>

\* merge_results(sorted(paths), output): the documents one after another;
\* the selection is the first document's, with the counts replaced.
MergeDocuments(documents) ==
    LET cases == FlattenSeq([k \in DOMAIN documents |-> documents[k].cases])
        unsupported == FlattenSeq([k \in DOMAIN documents |-> documents[k].unsupported])
    IN  [cases       |-> cases,
         unsupported |-> unsupported,
         requested   |-> Len(cases) + Len(unsupported),
         complete    |-> TRUE,
         dataset     |-> documents[1].dataset]

Merge ==
    /\ pc = "report"
    /\ paths # {}
    /\ LET order == Ascending(paths)
       IN  merged' = MergeDocuments([k \in DOMAIN order |-> document[order[k]]])
    /\ pc' = "validate"
    /\ UNCHANGED <<option, poolVars, yielded, paths, errors, timedOut, passed>>

\* validate_results: the accounting adds up and no case was evaluated twice.
Valid(result) ==
    /\ result.requested = Len(result.cases) + Len(result.unsupported)
    /\ \A k, l \in DOMAIN result.cases :
         result.cases[k].case_id = result.cases[l].case_id => k = l

JudgeIgnoringErrors ==
    /\ pc = "validate"
    /\ passed' = (/\ Valid(merged)
                  /\ \A k \in DOMAIN merged.cases : merged.cases[k].passed)
    /\ pc' = "done"
    /\ UNCHANGED <<option, poolVars, yielded, paths, errors, timedOut, merged>>

Judge ==
    /\ pc = "validate"
    /\ passed' = (/\ Valid(merged)
                  /\ errors = {} /\ ~timedOut
                  /\ \A k \in DOMAIN merged.cases : merged.cases[k].passed)
    /\ pc' = "done"
    /\ UNCHANGED <<option, poolVars, yielded, paths, errors, timedOut, merged>>

-----------------------------------------------------------------------------
Init ==
    /\ option \in Options
    /\ shard = [i \in Shard |-> "queued"]
    /\ document = [i \in Shard |-> [cases |-> <<>>, unsupported |-> <<>>, dataset |-> NoDocument]]
    /\ overdue = {}
    /\ pc = "collect"
    /\ yielded = {}
    /\ paths = {}
    /\ errors = {}
    /\ timedOut = FALSE
    /\ merged = NoDocument
    /\ passed = FALSE

Worker(i) == StartShard(i) \/ LoadCorpus(i) \/ ReturnResult(i) \/ RaiseError(i)

Main ==
    \/ \E i \in Shard : Collect(i)
    \/ CollectedAll \/ Deadline \/ Drain
    \/ ReportNothing \/ Merge \/ Judge

Environment == \E i \in Shard : Hang(i) \/ Overrun(i)

Done == pc = "done" /\ UNCHANGED vars

Next == (\E i \in Shard : Worker(i)) \/ Main \/ Environment \/ Done

Spec == Init /\ [][Next]_vars

\* Threads are scheduled; a shard that hangs has left its Worker actions.
FairSpec == Spec /\ WF_vars(Main) /\ \A i \in Shard : WF_vars(Worker(i))

-----------------------------------------------------------------------------
(* Properties.                                                             *)

Result == [case_id : Nat, passed : BOOLEAN]

\* The futures, the collector's lists and the merged document have their types.
TypeOK ==
    /\ option \in Options
    /\ shard \in [Shard -> {"queued", "starting", "running", "hung"} \cup Finished]
    /\ \A i \in Shard : /\ document[i].cases \in Seq(Result)
                        /\ document[i].unsupported \in Seq(Nat)
                        /\ document[i].dataset \in Versions \cup {NoDocument}
    /\ overdue \subseteq Shard
    /\ pc \in {"collect", "drain", "report", "validate", "done"}
    /\ yielded \subseteq Shard
    /\ paths \cup errors \subseteq Shard
    /\ timedOut \in BOOLEAN
    /\ merged # NoDocument =>
         /\ merged.cases \in Seq(Result)
         /\ merged.unsupported \in Seq(Nat)
         /\ merged.complete \in BOOLEAN
    /\ passed \in BOOLEAN

Ids(cases) == {c.case_id : c \in ToSet(cases)}

\* A self-test that passed has evaluated, or recorded as unsupported, what one
\* unsharded evaluation would select, each case exactly once, and no evaluated
\* case failed: no shard was lost, whatever the order of completion.
PassCoversCorpus ==
    pc = "done" /\ passed =>
        /\ paths = Shard
        /\ option.maxCases = NoLimit =>
             Ids(merged.cases) \cup ToSet(merged.unsupported)
                = Ids(IF option.onePerContract THEN Representatives(Corpus) ELSE Corpus)
        /\ Cardinality(Ids(merged.cases) \cup ToSet(merged.unsupported))
             = Len(merged.cases) + Len(merged.unsupported)
        /\ \A i \in Shard : \A k \in DOMAIN document[i].cases : document[i].cases[k].passed

\* The verdict never hides a shard: one that is not in the merged report has an
\* error line of its own, or the run as a whole is reported as timed out, and
\* either way the self-test does not pass.
NoShardHidden ==
    pc = "done" =>
        \A i \in Shard \ paths : (i \in errors \/ timedOut) /\ ~passed

\* The result files are read when nobody writes them any more.
MergedAfterThePool ==
    pc \in {"report", "validate", "done"} => \A i \in Shard : shard[i] \in Finished

\* An error line names a shard that raised or was late, never one whose result
\* is in the report, and a shard in the report never raised.
ReportMatchesFutures ==
    /\ \A i \in paths : shard[i] = "returned" /\ i \notin errors
    /\ \A i \in errors : shard[i] # "returned" \/ timedOut
    /\ merged # NoDocument =>
         merged.cases = FlattenSeq([k \in 1 .. Cardinality(paths) |->
                            document[Ascending(paths)[k]].cases])

\* Unless a shard hangs, the self-test ends.
Finishes == <>(pc = "done" \/ \E i \in Shard : shard[i] = "hung")

\* README:121 says that the full self-test enforces a timeout per shard: a
\* shard that overran it is then not accepted.
ShardTimeoutEnforced ==
    pc = "done" => overdue \cap paths = {}

\* oracle.py:254 says that dataset_sha256 detects a dataset rewrite between
\* shards: results of two corpora are then not merged.
RewriteDetected ==
    merged # NoDocument => \A i \in paths : document[i].dataset = merged.dataset
=============================================================================

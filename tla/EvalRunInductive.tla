-------------------------- MODULE EvalRunInductive --------------------------
(***************************************************************************)
(* The inductive invariant of EvalRun, in the layers in which              *)
(* EvalRunProofs proves it: each is inductive relative to those before.    *)
(***************************************************************************)
EXTENDS EvalRun

\* Where evaluate is, persist calls aside.
At == IF pc \in PersistPoints THEN call.resume ELSE pc

\* Nothing has failed and the process has not died.
Live == error = "none" /\ pc # "killed"

OpeningPoints == {"journal_run_started", "open_reference", "open_candidate"}

CasePoints == LoopPoints \ {"next_case"}

\* The current case has no outcome yet.
UndecidedPoints == CasePoints \ {"journal_unsupported", "journal_completed"}

CandidateSeen == {"log_candidate", "journal_candidate", "compare", "journal_completed"}

ReferenceSeen ==
    {"log_reference", "journal_reference", "execute_candidate"} \cup CandidateSeen

PublishedPoints == {"journal_run_completed", "returned"}

ReportPoints == {"publish"} \cup PublishedPoints

ClosingPoints == {"close_reference", "close_candidate"}

PersistCalls ==
    {<<"starting", "open_reference">>,
     <<"running", "next_case">>, <<"running", "check_supports">>,
     <<"running", "execute_candidate">>,
     <<"failed", "close_reference">>, <<"completed", "returned">>}

\* Layer 1: persist is called with the status and the continuation of its
\* call site, and an error has been caught exactly where it can have been.
ControlInv ==
    /\ pc \in Point
    /\ call \in [status : Status, full : BOOLEAN, resume : Point]
    /\ error \in {"none", "error", "transport"}
    /\ pc \in PersistPoints => <<call.status, call.resume>> \in PersistCalls
    /\ At \in OpeningPoints \cup TryPoints \cup ReportPoints => error = "none"
    /\ InExcept => error # "none"

\* Layer 2: the current case is the one at the current position.
PositionInv ==
    /\ position \in 0 .. Len(Selected)
    /\ current \in Case \cup {NoCase}
    /\ At \in OpeningPoints => position = 0
    /\ At \in CasePoints => position >= 1 /\ current = Selected[position]
    /\ Live /\ At \in ClosingPoints \cup ReportPoints => position = Len(Selected)

\* Layer 3: what the current case's executions returned is at hand.
ObservedInv ==
    /\ rawReference \in Raw
    /\ rawCandidate \in Raw
    /\ At \in ReferenceSeen => rawReference[current] \in Observation
    /\ At \in CandidateSeen => rawCandidate[current] \in Observation

\* Layer 4: one outcome per case that has been decided.
TallyInv ==
    /\ caseResults \in Seq(CaseResult)
    /\ unsupported \in Seq(Case)
    /\ Live => Len(caseResults) + Len(unsupported) =
                 IF At \in UndecidedPoints THEN position - 1 ELSE position
    /\ At = "journal_completed" =>
         /\ caseResults # <<>>
         /\ Last(caseResults).case_id = current
    /\ At = "journal_unsupported" =>
         /\ unsupported # <<>>
         /\ Last(unsupported) = current

\* Layer 5 is TypeOK.

\* Layer 6: the rows behind a comparison are logged before it, and back it
\* in memory, in the journal and in the documents.
CurrentBacking ==
    /\ At \in ReferenceSeen \ {"log_reference"} =>
         Logged(referenceLog, current, rawReference[current])
    /\ At \in CandidateSeen \ {"log_candidate"} =>
         Logged(candidateLog, current, rawCandidate[current])

MemoryBacked == \A i \in DOMAIN caseResults : Backed(caseResults[i])

JournalBacked ==
    \A i \in DOMAIN journal :
        journal[i].event = "case_completed" => Backed(RowResult(journal[i]))

DocumentsBacked ==
    /\ partial # NoDocument => \A i \in DOMAIN partial.cases : Backed(partial.cases[i])
    /\ output # NoDocument => \A i \in DOMAIN output.cases : Backed(output.cases[i])

BackingInv == CurrentBacking /\ MemoryBacked /\ JournalBacked /\ DocumentsBacked

\* Layer 7: the state file is not ahead of the run, and once a report is out
\* no step can publish again.
HistoryInv ==
    /\ state # NoDocument => state.position <= position
    /\ output # NoDocument => At \in PublishedPoints \cup {"raised", "killed"}

\* Layer 8: the executions counted are the rows of the progress logs.
QueryInv ==
    /\ At \in OpeningPoints => /\ queries = 0
                               /\ referenceLog = <<>>
                               /\ candidateLog = <<>>
    /\ Live => queries = Len(referenceLog)
                         + (IF At = "log_reference" THEN 1 ELSE 0)
                         + (IF reuse THEN 0
                            ELSE Len(candidateLog)
                                 + (IF At = "log_candidate" THEN 1 ELSE 0))

\* Layer 9: the targets are open in the loop and closed before the report.
TargetInv ==
    /\ Live /\ At \in LoopPoints \cup {"open_candidate", "close_reference"} =>
         reference \in {"local", "qemu"}
    /\ Live /\ At \in LoopPoints \cup ClosingPoints => candidate \in {"local", "qemu"}
    /\ Live /\ At \in ReportPoints \cup {"close_candidate"} => reference = "closed"
    /\ Live /\ At \in ReportPoints => candidate = "closed"

DecidedEvent == {"case_completed", "case_unsupported"}

\* The cases whose outcome the journal holds are those up to this position.
JournaledTo == IF At \in CasePoints THEN position - 1 ELSE position

\* Layer 10: the journal holds one outcome for each of them.
JournalInv ==
    /\ \A k \in Decided :
         /\ journal[k].position \in 1 .. position
         /\ journal[k].case_id = Selected[journal[k].position]
         /\ Live => journal[k].position <= JournaledTo
    /\ \A k, l \in Decided : journal[k].position = journal[l].position => k = l
    /\ Live => \A p \in 1 .. JournaledTo :
                  \E k \in Decided : journal[k].position = p

\* The outcome in memory that the journal is about to receive.
Pending(i) == At = "journal_completed" /\ i = Len(caseResults)

PendingUnsupported(i) == At = "journal_unsupported" /\ i = Len(unsupported)

\* The k-th row of the journal tells of this result, of this case.
ResultRow(k, result) ==
    /\ journal[k].event = "case_completed"
    /\ journal[k].case_id = result.case_id
    /\ journal[k].info = Outcome(result)

UnsupportedRow(k, c) ==
    journal[k].event = "case_unsupported" /\ journal[k].case_id = c

\* Layer 11: memory and journal hold the same outcomes.
MemoryInv ==
    Live =>
    /\ \A i \in DOMAIN caseResults :
         Pending(i) \/ \E k \in Decided : ResultRow(k, caseResults[i])
    /\ \A i \in DOMAIN unsupported :
         PendingUnsupported(i) \/ \E k \in Decided : UnsupportedRow(k, unsupported[i])
    /\ \A k \in Decided :
         \/ \E i \in DOMAIN caseResults : ResultRow(k, caseResults[i])
         \/ \E i \in DOMAIN unsupported : UnsupportedRow(k, unsupported[i])

\* Layer 12 is ReportComplete: Publish makes it true of what memory, the
\* journal, the logs and the targets are by then, and no case follows it.

StartedPoints ==
    {"check_supports", "journal_unsupported", "execute_reference", "log_reference",
     "journal_reference"}

ObservedPoints == {"execute_candidate", "log_candidate", "journal_candidate"}

ComparedPoints == {"compare", "journal_completed"}

BetweenPoints ==
    {"open_reference", "open_candidate", "next_case", "publish", "journal_run_completed"}
        \cup ClosingPoints

\* The last row of the journal is the current case's, with this event.
LastIs(event) ==
    LET last == Last(journal)
    IN  last.event = event /\ last.position = position /\ last.case_id = current

\* Layer 13: the last row of the journal is one that the next may follow.
TailInv ==
    LET last == Last(journal)
    IN  /\ At = "journal_run_started" => journal = <<>>
        /\ At \notin {"journal_run_started", "raised", "killed"} => journal # <<>>
        /\ Live /\ At \in BetweenPoints =>
             last.event \in Between /\ last.position = position
        /\ At = "journal_started" =>
             last.event \in Between /\ last.position = position - 1
        /\ At \in StartedPoints => LastIs("case_started")
        /\ At \in ObservedPoints => LastIs("reference_observed")
        /\ At \in ComparedPoints => LastIs("candidate_observed")
        /\ At = "journal_run_failed" => last.event \notin {"run_failed", "run_completed"}
        /\ At = "returned" => last.event = "run_completed"

\* Layer 14: the state file names the active case, and its last words are true.
StateInv ==
    /\ At \in CasePoints \ {"journal_started"} /\ pc # "write_state" =>
         state # NoDocument /\ state.current = current /\ state.status = "running"
    /\ At \in PublishedPoints => output # NoDocument
    /\ pc \in PersistPoints /\ call.status = "failed" => Last(journal).event = "run_failed"
    /\ state # NoDocument /\ state.status = "completed" =>
         /\ At \in {"returned", "raised", "killed"}
         /\ output # NoDocument
         /\ Last(journal).event = "run_completed"
         /\ state.evaluated + state.unsupported = Len(Selected)
    /\ state # NoDocument /\ state.status = "failed" =>
         /\ At \in ClosingPoints \cup {"raised", "killed"}
         /\ error # "none"
         /\ Last(journal).event = "run_failed"
         /\ output = NoDocument

\* The rows are of cases up to this position, with what was observed of them.
LoggedOf(log, raw, last) ==
    \A i \in DOMAIN log :
        /\ \E p \in 1 .. last : log[i].case_id = Selected[p]
        /\ raw[log[i].case_id] = log[i].observation

\* Layer 15: the progress logs hold what the memory has of the executions,
\* and the last persist call of a run writes it all.
RowsInv ==
    /\ LoggedOf(referenceLog, rawReference,
                IF At \in {"journal_started", "check_supports", "execute_reference",
                           "log_reference"}
                THEN position - 1 ELSE position)
    /\ LoggedOf(candidateLog, rawCandidate,
                IF At \in CasePoints \ {"journal_candidate", "compare", "journal_completed"}
                THEN position - 1 ELSE position)

DumpInv ==
    At = "returned" =>
        /\ pc \in PersistPoints => call.full
        /\ pc # "write_state" => state # NoDocument /\ state.status = "completed"
        /\ pc \notin {"write_state", "write_partial"} =>
             partial # NoDocument /\ partial.status = "completed"
        /\ pc \in {"write_raw_candidate", "returned"} => rawReferenceFile = rawReference
        /\ pc = "returned" => rawCandidateFile = rawCandidate

\* The partial result on disk may miss this many of the cases up to the
\* current one.
Lag == IF position % CheckpointEvery # 0 THEN position % CheckpointEvery
       ELSE IF \/ At = "journal_started"
               \/ At = "check_supports" /\ pc \in {"write_state", "write_partial"}
            THEN CheckpointEvery
       ELSE IF At \in CasePoints \/ pc \in {"write_state", "write_partial"} THEN 1 ELSE 0

Known == Len(partial.cases) + Len(partial.unsupported)

Told == Len(caseResults) + Len(unsupported)

\* Layer 16: at a checkpoint the partial result catches up.
LagInv ==
    /\ pc \in PersistPoints /\ position % CheckpointEvery = 0 => call.full
    /\ Live /\ partial # NoDocument => position - Lag <= Known
    /\ Cardinality(Decided) <= Told /\ Told <= Cardinality(Decided) + 1
=============================================================================

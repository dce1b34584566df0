------------------------------- MODULE EvalRun -------------------------------
(***************************************************************************)
(* One call of oracle.evaluate, from the moment its run directory exists   *)
(* until it returns, raises or is killed.                                  *)
(*                                                                         *)
(* The evaluator is one thread.  What makes it hard is that every line     *)
(* can be its last: each action below is one durable write, one call of a  *)
(* target or one in-memory update, and between any two of them an          *)
(* exception may unwind the run (Raise) or the process may die (Kill).     *)
(*                                                                         *)
(* A case is known by its case_id.  Of an observation only what            *)
(* _compare_observations looks at is kept: the status, and the class of    *)
(* observations it is normalised to.                                       *)
(***************************************************************************)
EXTENDS SequencesExt

CONSTANTS
    Selected,          \* the case ids chosen by select_cases, in order
    CheckpointEvery,   \* OSBENCH_PROGRESS_CHECKPOINT_EVERY
    Values,            \* classes of normalised observations
    ReferenceSpec,     \* the reference_spec argument, "reference" or "image"
    TargetSpec,        \* the target_spec argument, likewise
    Faults,            \* the faults of this environment
    NoCase,            \* current_case_id is None
    NoValue,           \* what a failed execution observed
    NoObservation,     \* the raw dictionary has no such key
    NoDocument         \* the file does not exist yet

Case == {Selected[i] : i \in DOMAIN Selected}

\* select_cases keeps the corpus order, and the generator never repeats a
\* case_id, so the selected ids are distinct.
ASSUME SelectedAssumption ==
    /\ Selected \in Seq(Case)
    /\ \A i, j \in DOMAIN Selected : Selected[i] = Selected[j] => i = j
    /\ NoCase \notin Case

\* max(1, int(os.environ[...]))
ASSUME CheckpointAssumption == CheckpointEvery \in Nat \ {0}

\* Nothing is read from an observation whose status is not "ok".
Observation ==
    {[status |-> "ok", value |-> v] : v \in Values} \cup {[status |-> "error", value |-> NoValue]}

ASSUME ObservationAssumption == NoObservation \notin Observation

ASSUME SpecificationAssumption ==
    /\ ReferenceSpec \in {"reference", "image"}
    /\ TargetSpec \in {"reference", "image"}

\* "error": any operation of the evaluator itself raises (an interrupt, a
\* full disk, a missing image, a probe that cannot be normalised);
\* "transport": a QEMU target's execute raises; "kill": the process dies.
ASSUME FaultAssumption == Faults \subseteq {"error", "transport", "kill"}

VARIABLES
    pc,             \* the next operation of evaluate
    call,           \* the arguments of the persist call in progress
    error,          \* what the except clause caught
    position,       \* number of the current case, 0 before the loop
    current,        \* current_case_id
    caseResults,    \* case_results
    unsupported,    \* the cases a target's transport does not support
    rawReference,   \* raw_reference, by case
    rawCandidate,   \* raw_candidate, by case
    queries,        \* oracle_queries
    reuse,          \* reuse_identical_observations
    reference,      \* the reference target
    candidate,      \* the candidate target
    journal,        \* run.journal.jsonl
    referenceLog,   \* reference.progress.jsonl
    candidateLog,   \* candidate.progress.jsonl
    state,          \* run.state.json
    partial,        \* partial.result.json
    rawReferenceFile,   \* reference.raw.json
    rawCandidateFile,   \* candidate.raw.json
    output          \* the result document

control == <<pc, call, error>>
progress == <<position, current>>
results == <<caseResults, unsupported>>
raws == <<rawReference, rawCandidate, queries>>
targets == <<reuse, reference, candidate>>
logs == <<referenceLog, candidateLog>>
dumps == <<partial, rawReferenceFile, rawCandidateFile>>

vars == <<control, progress, results, raws, targets,
          journal, logs, state, dumps, output>>

-----------------------------------------------------------------------------
(* Control points.  A definition right before an action or an operator     *)
(* whose name extends its name is that one with a mistake in it; no        *)
(* specification uses it.                                                  *)

PersistPoints ==
    {"write_state", "write_partial", "write_raw_reference", "write_raw_candidate"}

LoopPoints ==
    {"next_case", "journal_started", "check_supports", "journal_unsupported",
     "execute_reference", "log_reference", "journal_reference",
     "execute_candidate", "log_candidate", "journal_candidate",
     "compare", "journal_completed"}

TryPoints == {"open_reference", "open_candidate"} \cup LoopPoints

Ended == {"returned", "raised", "killed"}

\* persist("running") is called inside the try block only, and
\* persist("failed") inside the except clause only.
InTry == pc \in TryPoints \/ (pc \in PersistPoints /\ call.status = "running")

InExcept ==
    pc = "journal_run_failed" \/ (pc \in PersistPoints /\ call.status = "failed")

(***************************************************************************)
(* persist(status, checkpoint) writes the state file and, at a checkpoint, *)
(* on an error and at every CheckpointEvery-th position, the partial       *)
(* result and both raw dumps: one atomic file replacement each, in this    *)
(* order.  resume is where evaluate continues.                             *)
(***************************************************************************)
CheckpointOnRequestOnly(status, checkpoint, resume) ==
    /\ pc' = "write_state"
    /\ call' = [status |-> status, full |-> checkpoint, resume |-> resume]

Persist(status, checkpoint, resume) ==
    /\ pc' = "write_state"
    /\ call' = [status |-> status,
                full   |-> checkpoint \/ position % CheckpointEvery = 0,
                resume |-> resume]

WriteState ==
    /\ pc = "write_state"
    /\ state' = [status      |-> call.status,
                 position    |-> position,
                 current     |-> current,
                 evaluated   |-> Len(caseResults),
                 unsupported |-> Len(unsupported)]
    /\ pc' = IF call.full THEN "write_partial" ELSE call.resume
    /\ UNCHANGED <<call, error, progress, results, raws, targets,
                   journal, logs, dumps, output>>

WritePartial ==
    /\ pc = "write_partial"
    /\ partial' = [status      |-> call.status,
                   position    |-> position,
                   cases       |-> caseResults,
                   unsupported |-> unsupported]
    /\ pc' = "write_raw_reference"
    /\ UNCHANGED <<call, error, progress, results, raws, targets,
                   journal, logs, state, rawReferenceFile, rawCandidateFile, output>>

WriteRawReference ==
    /\ pc = "write_raw_reference"
    /\ rawReferenceFile' = rawReference
    /\ pc' = "write_raw_candidate"
    /\ UNCHANGED <<call, error, progress, results, raws, targets,
                   journal, logs, state, partial, rawCandidateFile, output>>

WriteRawCandidateFromReference ==
    /\ pc = "write_raw_candidate"
    /\ rawCandidateFile' = rawReference
    /\ pc' = call.resume
    /\ UNCHANGED <<call, error, progress, results, raws, targets,
                   journal, logs, state, partial, rawReferenceFile, output>>

WriteRawCandidate ==
    /\ pc = "write_raw_candidate"
    /\ rawCandidateFile' = rawCandidate
    /\ pc' = call.resume
    /\ UNCHANGED <<call, error, progress, results, raws, targets,
                   journal, logs, state, partial, rawReferenceFile, output>>

RecordTruncating(event, info) ==
    journal' = <<[event |-> event, position |-> position, case_id |-> current, info |-> info]>>

\* _append_jsonl(journal_path, ...): one row, forced to disk.
Record(event, info) ==
    journal' = Append(journal, [event    |-> event,
                                position |-> position,
                                case_id  |-> current,
                                info     |-> info])

-----------------------------------------------------------------------------
(* Opening the run and the targets.                                        *)

JournalRunStarted ==
    /\ pc = "journal_run_started"
    /\ Record("run_started", "none")
    /\ Persist("starting", TRUE, "open_reference")
    /\ UNCHANGED <<error, progress, results, raws, targets,
                   logs, state, dumps, output>>

\* _target: only the "reference" specification may resolve to the host.
Resolves(specification, kind) ==
    kind = "qemu" \/ (kind = "local" /\ specification = "reference")

OpenReference ==
    /\ pc = "open_reference"
    /\ \E kind \in {"local", "qemu"} :
         /\ Resolves(ReferenceSpec, kind)
         /\ reference' = kind
    /\ pc' = "open_candidate"
    /\ UNCHANGED <<call, error, progress, results, raws, reuse, candidate,
                   journal, logs, state, dumps, output>>

OpenCandidate ==
    /\ pc = "open_candidate"
    /\ \E kind \in {"local", "qemu"} :
         /\ Resolves(TargetSpec, kind)
         /\ candidate' = kind
         /\ reuse' = (/\ TargetSpec = ReferenceSpec
                      /\ reference = "local"
                      /\ kind = "local")
    /\ Persist("running", FALSE, "next_case")
    /\ UNCHANGED <<error, progress, results, raws, reference,
                   journal, logs, state, dumps, output>>

-----------------------------------------------------------------------------
(* The loop over the selected cases.                                       *)

NextCase ==
    /\ pc = "next_case"
    /\ IF position < Len(Selected)
         THEN /\ position' = position + 1
              /\ current' = Selected[position + 1]
              /\ pc' = "journal_started"
         ELSE /\ pc' = "close_reference"
              /\ UNCHANGED progress
    /\ UNCHANGED <<call, error, results, raws, targets,
                   journal, logs, state, dumps, output>>

JournalStartedWithoutState ==
    /\ pc = "journal_started"
    /\ Record("case_started", "none")
    /\ pc' = "check_supports"
    /\ UNCHANGED <<call, error, progress, results, raws, targets,
                   logs, state, dumps, output>>

JournalStarted ==
    /\ pc = "journal_started"
    /\ Record("case_started", "none")
    /\ Persist("running", FALSE, "check_supports")
    /\ UNCHANGED <<error, progress, results, raws, targets,
                   logs, state, dumps, output>>

\* A target may support a case or not; QemuTarget.supports looks at the host
\* again on every call.
Supported ==
    /\ pc = "check_supports"
    /\ pc' = "execute_reference"
    /\ UNCHANGED <<call, error, progress, results, raws, targets,
                   journal, logs, state, dumps, output>>

Unsupported ==
    /\ pc = "check_supports"
    /\ unsupported' = Append(unsupported, current)
    /\ pc' = "journal_unsupported"
    /\ UNCHANGED <<call, error, progress, caseResults, raws, targets,
                   journal, logs, state, dumps, output>>

JournalUnsupportedAndExecute ==
    /\ pc = "journal_unsupported"
    /\ Record("case_unsupported", "none")
    /\ Persist("running", FALSE, "execute_reference")
    /\ UNCHANGED <<error, progress, results, raws, targets,
                   logs, state, dumps, output>>

JournalUnsupported ==
    /\ pc = "journal_unsupported"
    /\ Record("case_unsupported", "none")
    /\ Persist("running", FALSE, "next_case")
    /\ UNCHANGED <<error, progress, results, raws, targets,
                   logs, state, dumps, output>>

ExecuteReference ==
    /\ pc = "execute_reference"
    /\ \E o \in Observation : rawReference' = [rawReference EXCEPT ![current] = o]
    /\ queries' = queries + 1
    /\ pc' = "log_reference"
    /\ UNCHANGED <<call, error, progress, results, rawCandidate, targets,
                   journal, logs, state, dumps, output>>

LogReferenceFromCandidate ==
    /\ pc = "log_reference"
    /\ referenceLog' = Append(referenceLog,
                              [case_id |-> current,
                               observation |-> rawCandidate[current]])
    /\ pc' = "journal_reference"
    /\ UNCHANGED <<call, error, progress, results, raws, targets,
                   journal, candidateLog, state, dumps, output>>

LogReference ==
    /\ pc = "log_reference"
    /\ referenceLog' = Append(referenceLog,
                              [case_id |-> current,
                               observation |-> rawReference[current]])
    /\ pc' = "journal_reference"
    /\ UNCHANGED <<call, error, progress, results, raws, targets,
                   journal, candidateLog, state, dumps, output>>

JournalReference ==
    /\ pc = "journal_reference"
    /\ Record("reference_observed", rawReference[current].status)
    /\ Persist("running", FALSE, "execute_candidate")
    /\ UNCHANGED <<error, progress, results, raws, targets,
                   logs, state, dumps, output>>

\* A self-test against the host reuses the reference's observation.
ExecuteCandidate ==
    /\ pc = "execute_candidate"
    /\ \E o \in IF reuse THEN {rawReference[current]} ELSE Observation :
         rawCandidate' = [rawCandidate EXCEPT ![current] = o]
    /\ queries' = IF reuse THEN queries ELSE queries + 1
    /\ pc' = "log_candidate"
    /\ UNCHANGED <<call, error, progress, results, rawReference, targets,
                   journal, logs, state, dumps, output>>

LogCandidate ==
    /\ pc = "log_candidate"
    /\ candidateLog' = Append(candidateLog,
                              [case_id |-> current,
                               observation |-> rawCandidate[current]])
    /\ pc' = "journal_candidate"
    /\ UNCHANGED <<call, error, progress, results, raws, targets,
                   journal, referenceLog, state, dumps, output>>

JournalCandidateLater ==
    /\ pc = "journal_candidate"
    /\ pc' = "compare"
    /\ UNCHANGED <<call, error, progress, results, raws, targets,
                   journal, logs, state, dumps, output>>

\* The one journal row that no persist follows.
JournalCandidate ==
    /\ pc = "journal_candidate"
    /\ Record("candidate_observed", rawCandidate[current].status)
    /\ pc' = "compare"
    /\ UNCHANGED <<call, error, progress, results, raws, targets,
                   logs, state, dumps, output>>

AgreeOnValue(r, c) == r.value = c.value

\* _compare_observations: an observation that is not "ok" fails the case.
Agree(r, c) ==
    /\ r.status = "ok"
    /\ c.status = "ok"
    /\ r.value = c.value

Compare ==
    /\ pc = "compare"
    /\ caseResults' = Append(caseResults,
                             [case_id |-> current,
                              passed  |-> Agree(rawReference[current],
                                                rawCandidate[current])])
    /\ pc' = "journal_completed"
    /\ UNCHANGED <<call, error, progress, unsupported, raws, targets,
                   journal, logs, state, dumps, output>>

Outcome(result) == IF result.passed THEN "passed" ELSE "failed"

JournalCompleted ==
    /\ pc = "journal_completed"
    /\ Record("case_completed", Outcome(Last(caseResults)))
    /\ Persist("running", FALSE, "next_case")
    /\ UNCHANGED <<error, progress, results, raws, targets,
                   logs, state, dumps, output>>

-----------------------------------------------------------------------------
(* Leaving the loop: the except clause, the finally clause, the report.    *)

JournalRunFailedWithoutCheckpoint ==
    /\ pc = "journal_run_failed"
    /\ Record("run_failed", error)
    /\ Persist("failed", FALSE, "close_reference")
    /\ UNCHANGED <<error, progress, results, raws, targets,
                   logs, state, dumps, output>>

JournalRunFailed ==
    /\ pc = "journal_run_failed"
    /\ Record("run_failed", error)
    /\ Persist("failed", TRUE, "close_reference")
    /\ UNCHANGED <<error, progress, results, raws, targets,
                   logs, state, dumps, output>>

Close(target) == IF target = "none" THEN "none" ELSE "closed"

CloseReferenceOnly ==
    /\ pc = "close_reference"
    /\ reference' = Close(reference)
    /\ pc' = IF error = "none" THEN "close_candidate" ELSE "raised"
    /\ UNCHANGED <<call, error, progress, results, raws, reuse, candidate,
                   journal, logs, state, dumps, output>>

CloseReferenceHangs ==
    /\ pc = "close_reference"
    /\ reference # "qemu"
    /\ reference' = Close(reference)
    /\ pc' = "close_candidate"
    /\ UNCHANGED <<call, error, progress, results, raws, reuse, candidate,
                   journal, logs, state, dumps, output>>

CloseReference ==
    /\ pc = "close_reference"
    /\ reference' = Close(reference)
    /\ pc' = "close_candidate"
    /\ UNCHANGED <<call, error, progress, results, raws, reuse, candidate,
                   journal, logs, state, dumps, output>>

CloseCandidate ==
    /\ pc = "close_candidate"
    /\ candidate' = Close(candidate)
    /\ pc' = IF error = "none" THEN "publish" ELSE "raised"
    /\ UNCHANGED <<call, error, progress, results, raws, reuse, reference,
                   journal, logs, state, dumps, output>>

PublishWithoutUnsupported ==
    /\ pc = "publish"
    /\ current' = NoCase
    /\ output' = [cases |-> caseResults, unsupported |-> <<>>,
                  queries |-> queries, reused |-> reuse]
    /\ pc' = "journal_run_completed"
    /\ UNCHANGED <<call, error, position, results, raws, targets,
                   journal, logs, state, dumps>>

Publish ==
    /\ pc = "publish"
    /\ current' = NoCase
    /\ output' = [cases       |-> caseResults,
                  unsupported |-> unsupported,
                  queries     |-> queries,
                  reused      |-> reuse]
    /\ pc' = "journal_run_completed"
    /\ UNCHANGED <<call, error, position, results, raws, targets,
                   journal, logs, state, dumps>>

JournalRunCompleted ==
    /\ pc = "journal_run_completed"
    /\ Record("run_completed", "none")
    /\ Persist("completed", TRUE, "returned")
    /\ UNCHANGED <<error, progress, results, raws, targets,
                   logs, state, dumps, output>>

-----------------------------------------------------------------------------
(* Faults.                                                                 *)

(***************************************************************************)
(* An exception leaves the operation undone.  Inside try it is caught,     *)
(* recorded and raised again; inside except it still runs finally; inside  *)
(* finally, before try and after it, it leaves evaluate at once.           *)
(***************************************************************************)
Unwind(what) ==
    /\ error' = IF error = "none" THEN what ELSE error
    /\ pc' = IF InTry THEN "journal_run_failed"
             ELSE IF InExcept THEN "close_reference" ELSE "raised"
    /\ UNCHANGED <<call, progress, results, raws, targets,
                   journal, logs, state, dumps, output>>

Raise ==
    /\ "error" \in Faults
    /\ pc \notin Ended
    /\ Unwind("error")

\* agent_case or the guest's boot times out, or the answer cannot be decoded.
TransportRaises ==
    /\ "transport" \in Faults
    /\ \/ pc = "execute_reference" /\ reference = "qemu"
       \/ pc = "execute_candidate" /\ candidate = "qemu"
    /\ Unwind("transport")

Kill ==
    /\ "kill" \in Faults
    /\ pc \notin Ended
    /\ pc' = "killed"
    /\ UNCHANGED <<call, error, progress, results, raws, targets,
                   journal, logs, state, dumps, output>>

-----------------------------------------------------------------------------
Init ==
    /\ pc = "journal_run_started"
    /\ call = [status |-> "starting", full |-> TRUE, resume |-> "open_reference"]
    /\ error = "none"
    /\ position = 0
    /\ current = NoCase
    /\ caseResults = <<>>
    /\ unsupported = <<>>
    /\ rawReference = [c \in Case |-> NoObservation]
    /\ rawCandidate = [c \in Case |-> NoObservation]
    /\ queries = 0
    /\ reuse = FALSE
    /\ reference = "none"
    /\ candidate = "none"
    /\ journal = <<>>
    /\ referenceLog = <<>>
    /\ candidateLog = <<>>
    /\ state = NoDocument
    /\ partial = NoDocument
    /\ rawReferenceFile = NoDocument
    /\ rawCandidateFile = NoDocument
    /\ output = NoDocument

PersistStep == WriteState \/ WritePartial \/ WriteRawReference \/ WriteRawCandidate

CaseStep ==
    \/ NextCase \/ JournalStarted
    \/ Supported \/ Unsupported \/ JournalUnsupported
    \/ ExecuteReference \/ LogReference \/ JournalReference
    \/ ExecuteCandidate \/ LogCandidate \/ JournalCandidate
    \/ Compare \/ JournalCompleted

FrameStep ==
    \/ JournalRunStarted \/ OpenReference \/ OpenCandidate
    \/ JournalRunFailed \/ CloseReference \/ CloseCandidate
    \/ Publish \/ JournalRunCompleted

Progress == PersistStep \/ CaseStep \/ FrameStep

Fault == Raise \/ TransportRaises \/ Kill

Ending == pc \in Ended /\ UNCHANGED vars

Next == Progress \/ Fault \/ Ending

Spec == Init /\ [][Next]_vars

\* A probe in this process: nothing bounds it (probes.py:43 blocks in accept).
LocalExecution ==
    \/ pc = "execute_reference" /\ reference = "local"
    \/ pc = "execute_candidate" /\ candidate = "local" /\ ~reuse

\* The evaluator's thread keeps running, and the other calls it makes return or
\* raise: the waits of agent_case and QemuController.stop have deadlines.
FairSpec == Spec /\ WF_vars(~LocalExecution /\ Progress)

-----------------------------------------------------------------------------
(* Properties.                                                             *)

CaseResult == [case_id : Case, passed : BOOLEAN]

LogRow == [case_id : Case, observation : Observation]

Raw == [Case -> Observation \cup {NoObservation}]

Event == {"run_started", "case_started", "case_unsupported",
          "reference_observed", "candidate_observed", "case_completed",
          "run_failed", "run_completed"}

Info == {"none", "ok", "error", "passed", "failed", "transport"}

JournalRow == [event : Event, position : Nat, case_id : Case \cup {NoCase}, info : Info]

Status == {"starting", "running", "failed", "completed"}

Point == TryPoints \cup PersistPoints \cup Ended \cup
         {"journal_run_started", "journal_run_failed", "close_reference",
          "close_candidate", "publish", "journal_run_completed"}

TargetState == {"none", "local", "qemu", "closed"}

StateDocument == [status : Status, position : Nat, current : Case \cup {NoCase},
                  evaluated : Nat, unsupported : Nat]

PartialDocument == [status : Status, position : Nat,
                    cases : Seq(CaseResult), unsupported : Seq(Case)]

ResultDocument == [cases : Seq(CaseResult), unsupported : Seq(Case),
                   queries : Nat, reused : BOOLEAN]

\* A file that does not exist is none of the documents.
ASSUME DocumentAssumption ==
    /\ NoDocument \notin StateDocument
    /\ NoDocument \notin PartialDocument
    /\ NoDocument \notin ResultDocument
    /\ NoDocument \notin Raw

\* The state of evaluate and the files of its run directory have their types.
TypeOK ==
    /\ pc \in Point
    /\ call \in [status : Status, full : BOOLEAN, resume : Point]
    /\ error \in {"none", "error", "transport"}
    /\ position \in 0 .. Len(Selected)
    /\ current \in Case \cup {NoCase}
    /\ caseResults \in Seq(CaseResult)
    /\ unsupported \in Seq(Case)
    /\ rawReference \in Raw
    /\ rawCandidate \in Raw
    /\ queries \in Nat
    /\ reuse \in BOOLEAN
    /\ reference \in TargetState
    /\ candidate \in TargetState
    /\ journal \in Seq(JournalRow)
    /\ referenceLog \in Seq(LogRow)
    /\ candidateLog \in Seq(LogRow)
    /\ state \in StateDocument \cup {NoDocument}
    /\ partial \in PartialDocument \cup {NoDocument}
    /\ rawReferenceFile \in Raw \cup {NoDocument}
    /\ rawCandidateFile \in Raw \cup {NoDocument}
    /\ output \in ResultDocument \cup {NoDocument}

Journaled(event, c) ==
    \E i \in DOMAIN journal : journal[i].event = event /\ journal[i].case_id = c

Logged(log, c, o) ==
    \E i \in DOMAIN log : log[i] = [case_id |-> c, observation |-> o]

\* The events that may directly follow one another in a journal.
NextInCase ==
    {<<"case_started", "case_unsupported">>, <<"case_started", "reference_observed">>,
     <<"reference_observed", "candidate_observed">>,
     <<"candidate_observed", "case_completed">>}

Between == {"run_started", "case_unsupported", "case_completed"}

Follows(e, f) ==
    \/ /\ <<e.event, f.event>> \in NextInCase
       /\ f.position = e.position
       /\ f.case_id = e.case_id
    \/ /\ e.event \in Between
       /\ f.event = "case_started"
       /\ f.position = e.position + 1
       /\ f.case_id = Selected[f.position]
    \/ /\ e.event \in Between
       /\ f.event = "run_completed"
       /\ f.position = Len(Selected)
       /\ e.position = Len(Selected)
    \/ /\ e.event \notin {"run_failed", "run_completed"}
       /\ f.event = "run_failed"

\* Whatever fails and wherever, the journal is a prefix of a well-formed run:
\* it starts with run_started, each case's rows come in order and without a
\* gap before the next case starts, and nothing follows the run's last word.
JournalFollowsProtocol ==
    /\ journal # <<>> => journal[1].event = "run_started"
    /\ \A i \in 1 .. Len(journal) - 1 : Follows(journal[i], journal[i + 1])

\* While a target executes a case, the files on disk already name that case:
\* a reader who finds the run dead knows which case was active (README:131).
ActiveCaseIdentified ==
    pc \in {"execute_reference", "execute_candidate"} =>
        /\ state # NoDocument
        /\ state.current = Selected[position]
        /\ state.status = "running"
        /\ LET last == Last(journal)
           IN  /\ last.case_id = Selected[position]
               /\ last.event = IF pc = "execute_reference"
                                 THEN "case_started" ELSE "reference_observed"

\* If the result is a pass, the rows hold two equivalent observations of its case.
BackedBy(referenceRows, candidateRows, result) ==
    result.passed =>
        \E r, c \in Observation :
            /\ Logged(referenceRows, result.case_id, r)
            /\ Logged(candidateRows, result.case_id, c)
            /\ r.status = "ok" /\ c.status = "ok"
            /\ r.value = c.value

Backed(result) == BackedBy(referenceLog, candidateLog, result)

\* The result a case_completed row tells of.
RowResult(row) == [case_id |-> row.case_id, passed |-> row.info = "passed"]

\* Every document that calls a case passed is backed by rows of both progress
\* logs that were forced to disk before, both "ok" and equivalent; in
\* particular a failed execution is never turned into a pass.
PassesAreBacked ==
    /\ partial # NoDocument =>
         \A i \in DOMAIN partial.cases : Backed(partial.cases[i])
    /\ output # NoDocument =>
         \A i \in DOMAIN output.cases : Backed(output.cases[i])
    /\ \A i \in DOMAIN journal :
         journal[i].event = "case_completed" =>
            Backed(RowResult(journal[i]))

\* A result document accounts for every selected case exactly once, agrees
\* with the journal, counts the executions the logs hold, and is published
\* only after both targets are closed.
ReportComplete ==
    output # NoDocument =>
        /\ Len(output.cases) + Len(output.unsupported) = Len(Selected)
        /\ \A i \in DOMAIN output.cases :
             \E k \in DOMAIN journal :
                /\ journal[k].event = "case_completed"
                /\ journal[k].case_id = output.cases[i].case_id
                /\ journal[k].info = Outcome(output.cases[i])
        /\ \A c \in Case :
             Journaled("case_completed", c) <=> ~Journaled("case_unsupported", c)
        /\ \A i \in DOMAIN output.unsupported :
             Journaled("case_unsupported", output.unsupported[i])
        /\ output.queries =
             Len(referenceLog) + IF output.reused THEN 0 ELSE Len(candidateLog)
        /\ {reference, candidate} = {"closed"}

Decided == {i \in DOMAIN journal :
              journal[i].event \in {"case_completed", "case_unsupported"}}

\* The partial result on disk is never far behind the journal: fewer than
\* CheckpointEvery decided cases are missing from it (one, if every case is a
\* checkpoint), and it is at most one case ahead, the case whose row could
\* not be written when the run failed.
PartialLagBounded ==
    partial # NoDocument =>
        LET known == Len(partial.cases) + Len(partial.unsupported)
        IN  /\ Cardinality(Decided) <= known + Max({1, CheckpointEvery - 1})
            /\ known <= Cardinality(Decided) + 1

Whole(file, log) ==
    /\ file # NoDocument
    /\ \A i \in DOMAIN log : file[log[i].case_id] = log[i].observation

\* The state file never claims more than the run has done: "completed" only
\* over a published report and a closed journal, "failed" only after the
\* failure was journaled; and a call that returns leaves whole raw dumps.
StateFileHonest ==
    /\ state # NoDocument /\ state.status = "completed" =>
         /\ output # NoDocument
         /\ Last(journal).event = "run_completed"
         /\ state.evaluated + state.unsupported = Len(Selected)
    /\ state # NoDocument /\ state.status = "failed" =>
         /\ Last(journal).event = "run_failed"
         /\ output = NoDocument
    /\ pc = "returned" =>
         /\ state.status = "completed"
         /\ partial.status = "completed"
         /\ Whole(rawReferenceFile, referenceLog)
         /\ Whole(rawCandidateFile, candidateLog)

\* The journal and the logs are append-only, a report is never withdrawn or
\* rewritten, and the state file never goes back to an earlier case.
HistoryKept ==
    [][/\ IsPrefix(journal, journal')
       /\ IsPrefix(referenceLog, referenceLog')
       /\ IsPrefix(candidateLog, candidateLog')
       /\ output # NoDocument => output' = output
       /\ state # NoDocument => state'.position >= state.position]_vars

\* If only targets fail, evaluate leaves no target open, however it ends.
TargetsReleased ==
    pc \in {"returned", "raised"} => {reference, candidate} \subseteq {"none", "closed"}

\* CANDIDATE_INTERFACE:81 says that malformed guest output, a timeout or a
\* crash fails the case: such a failure then ends as a failed case.
TransportFailureFailsTheCase ==
    \A i \in DOMAIN journal :
        journal[i].event = "run_failed" /\ journal[i].info = "transport" =>
            Journaled("case_completed", journal[i].case_id)

\* evaluate ends; only a local probe that does not return can keep it, and a
\* guest, whatever it fails to answer, cannot.
EndsUnlessProbeHangs == <>(pc \in Ended) \/ <>[]LocalExecution

\* If only targets fail, a failure is recorded in the journal, in the state
\* file and in the partial result, and raised to the caller.
FailureReported ==
    error # "none" ~> /\ pc = "raised"
                      /\ state.status = "failed"
                      /\ partial.status = "failed"
                      /\ Last(journal).event = "run_failed"

-----------------------------------------------------------------------------
(***************************************************************************)
(* evaluate implements the ledger: the judgements are what the journal     *)
(* says, the report is what the result document says.                      *)
(***************************************************************************)
JournalVerdict(c) ==
    IF Journaled("case_unsupported", c) THEN "unsupported"
    ELSE IF \E i \in DOMAIN journal : /\ journal[i].event = "case_completed"
                                      /\ journal[i].case_id = c
                                      /\ journal[i].info = "passed"
    THEN "passed"
    ELSE IF Journaled("case_completed", c) THEN "failed" ELSE "pending"

ReportVerdict(document, c) ==
    IF \E i \in DOMAIN document.unsupported : document.unsupported[i] = c
    THEN "unsupported"
    ELSE IF \E i \in DOMAIN document.cases :
              document.cases[i].case_id = c /\ document.cases[i].passed
    THEN "passed"
    ELSE "failed"

Journal == INSTANCE Ledger WITH
    verdict  <- [c \in Case |-> JournalVerdict(c)],
    report   <- IF output = NoDocument THEN NoDocument
                ELSE [c \in Case |-> ReportVerdict(output, c)],
    NoReport <- NoDocument

ImplementsLedger == Journal!LedgerSpec
=============================================================================

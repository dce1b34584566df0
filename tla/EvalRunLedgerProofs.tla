------------------------- MODULE EvalRunLedgerProofs -------------------------
(***************************************************************************)
(* What a reader of a run directory may rely on, for every selection,      *)
(* checkpoint interval, set of observations and set of faults: the journal *)
(* follows its protocol, the state file and the partial result are true    *)
(* and current, and evaluate implements the ledger.                        *)
(***************************************************************************)
EXTENDS EvalRunProofs, FiniteSetTheorems

\* The layers that EvalRunProofs proves.
RunInv ==
    /\ TypeOK /\ ControlInv /\ PositionInv /\ ObservedInv /\ TallyInv
    /\ HistoryInv /\ QueryInv /\ JournalInv /\ MemoryInv

LEMMA RunCorrect == Spec => []RunInv
<1>1. TypeOK /\ ControlInv /\ PositionInv /\ ObservedInv /\ TallyInv /\ HistoryInv
        /\ QueryInv /\ JournalInv /\ MemoryInv => RunInv
  BY DEF RunInv
<1> QED
  BY <1>1, TypeCorrect, ControlCorrect, PositionCorrect, ObservedCorrect, TallyCorrect,
     HistoryCorrect, QueriesCorrect, JournalCorrect, MemoryCorrect, PTL

-----------------------------------------------------------------------------
(* Layer 13: the journal's last row.                                       *)

LEMMA Recorded ==
    ASSUME TypeOK, NEW event, NEW info, Record(event, info)
    PROVE  /\ journal' # <<>>
           /\ Last(journal').event = event
           /\ Last(journal').position = position
           /\ Last(journal').case_id = current
<1> DEFINE row == [event |-> event, position |-> position, case_id |-> current, info |-> info]
<1>1. journal' = Append(journal, row) /\ journal \in Seq(JournalRow \cup {row})
  BY DEF Record, TypeOK
<1>2. row.event = event /\ row.position = position /\ row.case_id = current
  OBVIOUS
<1> HIDE DEF row
<1> QED BY <1>1, <1>2, AppendFacts

\* Which control points a fault leads to from inside try and except.
LEMMA FaultTargets ==
    ASSUME ControlInv, Fault
    PROVE  /\ pc' = "journal_run_failed" => At \in TryPoints
           /\ pc' = "close_reference" => At \in {"journal_run_failed", "close_reference"}
           /\ pc' \in {"journal_run_failed", "close_reference", "raised", "killed"}
           /\ At' = pc'
<1>1. InTry => At \in TryPoints
  BY DEF InTry, At, ControlInv, PersistCalls, TryPoints, LoopPoints, PersistPoints
<1>2. InExcept => At \in {"journal_run_failed", "close_reference"}
  BY DEF InExcept, At, ControlInv, PersistCalls, PersistPoints
<1>3. \/ pc' = "killed"
      \/ pc' = IF InTry THEN "journal_run_failed"
               ELSE IF InExcept THEN "close_reference" ELSE "raised"
  BY DEF Fault, Raise, TransportRaises, Kill, Unwind
<1>4. pc' \in {"journal_run_failed", "close_reference", "raised", "killed"}
  BY <1>3
<1>5. At' = pc'
  BY <1>4 DEF At, PersistPoints
<1> QED BY <1>1, <1>2, <1>3, <1>4, <1>5

LEMMA InitTail == Init => TailInv
<1> SUFFICES ASSUME Init PROVE TailInv
  OBVIOUS
<1>1. At = "journal_run_started" /\ journal = <<>>
  BY DEF Init, At, PersistPoints
<1> QED BY <1>1 DEF TailInv, BetweenPoints, StartedPoints, ObservedPoints, ComparedPoints,
                    ClosingPoints

LEMMA QuietTail ==
    TypeOK /\ ControlInv /\ TailInv /\ (PersistStep \/ Fault \/ UNCHANGED vars) => TailInv'
<1> SUFFICES ASSUME TypeOK, ControlInv, TailInv, PersistStep \/ Fault \/ UNCHANGED vars
             PROVE  TailInv'
  OBVIOUS
<1>1. /\ position' = position /\ current' = current /\ journal' = journal
      /\ Live' => Live
  BY QuietMoves DEF progress
<1>2. CASE At' = At
  BY <1>1, <1>2 DEF TailInv, LastIs
<1>3. CASE At' # At
  <2>1. Fault
    <3>1. PersistStep => At' = At
      BY PersistStepMoves
    <3>2. UNCHANGED vars => At' = At
      BY DEF vars, control, At
    <3> QED BY <1>3, <3>1, <3>2
  <2>2. /\ At' = "journal_run_failed" => At \in TryPoints
        /\ At' = "close_reference" => At \in {"journal_run_failed", "close_reference"}
        /\ At' \in {"journal_run_failed", "close_reference", "raised", "killed"}
        /\ ~Live'
    BY <2>1, FaultTargets, FaultMoves
  <2>3. CASE At' = "journal_run_failed"
    <3>1. At \in TryPoints
      BY <2>2, <2>3
    <3>2. Live
      BY <3>1 DEF ControlInv, Live, At, TryPoints, LoopPoints, PersistPoints
    <3>3. Last(journal).event \notin {"run_failed", "run_completed"} /\ journal # <<>>
      BY <3>1, <3>2 DEF TailInv, LastIs, TryPoints, LoopPoints, BetweenPoints, StartedPoints,
                        ObservedPoints, ComparedPoints, Between
    <3> QED BY <1>1, <2>2, <2>3, <3>3 DEF TailInv, StartedPoints, ObservedPoints,
                                          ComparedPoints
  <2>4. CASE At' \in {"close_reference", "raised", "killed"}
    <3>1. At' = "close_reference" => journal # <<>>
      BY <2>2 DEF TailInv
    <3> QED BY <1>1, <2>2, <2>4, <3>1 DEF TailInv, StartedPoints, ObservedPoints,
                                          ComparedPoints
  <2> QED BY <2>2, <2>3, <2>4
<1> QED BY <1>2, <1>3

LEMMA CaseStepTail ==
    TypeOK /\ ControlInv /\ PositionInv /\ TailInv /\ CaseStep => TailInv'
<1> SUFFICES ASSUME TypeOK, ControlInv, PositionInv, TailInv, CaseStep PROVE TailInv'
  OBVIOUS
<1>0. Live /\ Live' /\ position \in Nat
  BY SelectedFacts, CaseMoves DEF PositionInv
<1> DEFINE Kept == position' = position /\ current' = current
           Quiet == journal' = journal /\ Kept
<1>1. CASE NextCase
  <2>1. /\ At = "next_case" /\ journal' = journal
        /\ At' = IF position < Len(Selected) THEN "journal_started" ELSE "close_reference"
        /\ position' = IF position < Len(Selected) THEN position + 1 ELSE position
    BY <1>1, CaseMoves DEF NextCase, progress
  <2> QED BY <1>0, <2>1 DEF TailInv, LastIs, BetweenPoints, StartedPoints, ObservedPoints,
                            ComparedPoints, ClosingPoints
<1>2. CASE JournalStarted
  <2>1. At' = "check_supports" /\ Record("case_started", "none") /\ Kept
    BY <1>2, CaseMoves DEF JournalStarted, progress
  <2> QED BY <2>1, Recorded DEF TailInv, LastIs, BetweenPoints, StartedPoints, ObservedPoints,
                                ComparedPoints, ClosingPoints
<1>3. CASE Supported
  <2>1. At = "check_supports" /\ At' = "execute_reference" /\ Quiet
    BY <1>3, CaseMoves DEF Supported, progress
  <2> QED BY <2>1 DEF TailInv, LastIs, BetweenPoints, StartedPoints, ObservedPoints,
                      ComparedPoints, ClosingPoints
<1>4. CASE Unsupported
  <2>1. At = "check_supports" /\ At' = "journal_unsupported" /\ Quiet
    BY <1>4, CaseMoves DEF Unsupported, progress
  <2> QED BY <2>1 DEF TailInv, LastIs, BetweenPoints, StartedPoints, ObservedPoints,
                      ComparedPoints, ClosingPoints
<1>5. CASE JournalUnsupported
  <2>1. At' = "next_case" /\ Record("case_unsupported", "none") /\ Kept
    BY <1>5, CaseMoves DEF JournalUnsupported, progress
  <2> QED BY <2>1, Recorded DEF TailInv, LastIs, BetweenPoints, StartedPoints, ObservedPoints,
                                ComparedPoints, ClosingPoints, Between
<1>6. CASE ExecuteReference
  <2>1. At = "execute_reference" /\ At' = "log_reference" /\ Quiet
    BY <1>6, CaseMoves DEF ExecuteReference, progress
  <2> QED BY <2>1 DEF TailInv, LastIs, BetweenPoints, StartedPoints, ObservedPoints,
                      ComparedPoints, ClosingPoints
<1>7. CASE LogReference
  <2>1. At = "log_reference" /\ At' = "journal_reference" /\ Quiet
    BY <1>7, CaseMoves DEF LogReference, progress
  <2> QED BY <2>1 DEF TailInv, LastIs, BetweenPoints, StartedPoints, ObservedPoints,
                      ComparedPoints, ClosingPoints
<1>8. CASE JournalReference
  <2>1. /\ At' = "execute_candidate" /\ Kept
        /\ Record("reference_observed", rawReference[current].status)
    BY <1>8, CaseMoves DEF JournalReference, progress
  <2> QED BY <2>1, Recorded DEF TailInv, LastIs, BetweenPoints, StartedPoints, ObservedPoints,
                                ComparedPoints, ClosingPoints
<1>9. CASE ExecuteCandidate
  <2>1. At = "execute_candidate" /\ At' = "log_candidate" /\ Quiet
    BY <1>9, CaseMoves DEF ExecuteCandidate, progress
  <2> QED BY <2>1 DEF TailInv, LastIs, BetweenPoints, StartedPoints, ObservedPoints,
                      ComparedPoints, ClosingPoints
<1>10. CASE LogCandidate
  <2>1. At = "log_candidate" /\ At' = "journal_candidate" /\ Quiet
    BY <1>10, CaseMoves DEF LogCandidate, progress
  <2> QED BY <2>1 DEF TailInv, LastIs, BetweenPoints, StartedPoints, ObservedPoints,
                      ComparedPoints, ClosingPoints
<1>11. CASE JournalCandidate
  <2>1. /\ At' = "compare" /\ Kept
        /\ Record("candidate_observed", rawCandidate[current].status)
    BY <1>11, CaseMoves DEF JournalCandidate, progress
  <2> QED BY <2>1, Recorded DEF TailInv, LastIs, BetweenPoints, StartedPoints, ObservedPoints,
                                ComparedPoints, ClosingPoints
<1>12. CASE Compare
  <2>1. At = "compare" /\ At' = "journal_completed" /\ Quiet
    BY <1>12, CaseMoves DEF Compare, progress
  <2> QED BY <2>1 DEF TailInv, LastIs, BetweenPoints, StartedPoints, ObservedPoints,
                      ComparedPoints, ClosingPoints
<1>13. CASE JournalCompleted
  <2>1. /\ At' = "next_case" /\ Kept
        /\ Record("case_completed", Outcome(Last(caseResults)))
    BY <1>13, CaseMoves DEF JournalCompleted, progress
  <2> QED BY <2>1, Recorded DEF TailInv, LastIs, BetweenPoints, StartedPoints, ObservedPoints,
                                ComparedPoints, ClosingPoints, Between
<1> QED
  BY <1>1, <1>2, <1>3, <1>4, <1>5, <1>6, <1>7, <1>8, <1>9, <1>10, <1>11, <1>12, <1>13
     DEF CaseStep

LEMMA FrameStepTail == TypeOK /\ ControlInv /\ TailInv /\ FrameStep => TailInv'
<1> SUFFICES ASSUME TypeOK, ControlInv, TailInv, FrameStep PROVE TailInv'
  OBVIOUS
<1>0. Live' = Live
  BY FrameMoves
<1> DEFINE Kept == position' = position /\ current' = current
           Quiet == journal' = journal /\ Kept
<1>1. CASE JournalRunStarted
  <2>1. At' = "open_reference" /\ Record("run_started", "none") /\ Kept
    BY <1>1, FrameMoves DEF JournalRunStarted, progress
  <2> QED BY <2>1, Recorded DEF TailInv, LastIs, BetweenPoints, StartedPoints, ObservedPoints,
                                ComparedPoints, ClosingPoints, Between
<1>2. CASE OpenReference
  <2>1. At = "open_reference" /\ At' = "open_candidate" /\ Quiet
    BY <1>2, FrameMoves DEF OpenReference, progress
  <2> QED BY <1>0, <2>1 DEF TailInv, LastIs, BetweenPoints, StartedPoints, ObservedPoints,
                            ComparedPoints, ClosingPoints
<1>3. CASE OpenCandidate
  <2>1. At = "open_candidate" /\ At' = "next_case" /\ Quiet
    BY <1>3, FrameMoves DEF OpenCandidate, progress
  <2> QED BY <1>0, <2>1 DEF TailInv, LastIs, BetweenPoints, StartedPoints, ObservedPoints,
                            ComparedPoints, ClosingPoints
<1>4. CASE JournalRunFailed
  <2>1. At' = "close_reference" /\ Record("run_failed", error) /\ ~Live'
    BY <1>0, <1>4, FrameMoves DEF JournalRunFailed, ControlInv, InExcept, Live
  <2> QED BY <2>1, Recorded DEF TailInv, LastIs, BetweenPoints, StartedPoints, ObservedPoints,
                                ComparedPoints, ClosingPoints
<1>5. CASE CloseReference
  <2>1. At = "close_reference" /\ At' = "close_candidate" /\ Quiet
    BY <1>5, FrameMoves DEF CloseReference, progress
  <2> QED BY <1>0, <2>1 DEF TailInv, LastIs, BetweenPoints, StartedPoints, ObservedPoints,
                            ComparedPoints, ClosingPoints
<1>6. CASE CloseCandidate
  <2>1. /\ At = "close_candidate" /\ Quiet
        /\ At' = IF error = "none" THEN "publish" ELSE "raised"
    BY <1>6, FrameMoves DEF CloseCandidate, progress
  <2> QED BY <1>0, <2>1 DEF TailInv, LastIs, BetweenPoints, StartedPoints, ObservedPoints,
                            ComparedPoints, ClosingPoints
<1>7. CASE Publish
  <2>1. /\ At = "publish" /\ At' = "journal_run_completed"
        /\ journal' = journal /\ position' = position
    BY <1>7, FrameMoves DEF Publish
  <2> QED BY <1>0, <2>1 DEF TailInv, LastIs, BetweenPoints, StartedPoints, ObservedPoints,
                            ComparedPoints, ClosingPoints
<1>8. CASE JournalRunCompleted
  <2>1. At' = "returned" /\ Record("run_completed", "none")
    BY <1>8, FrameMoves DEF JournalRunCompleted
  <2> QED BY <2>1, Recorded DEF TailInv, LastIs, BetweenPoints, StartedPoints, ObservedPoints,
                                ComparedPoints, ClosingPoints
<1> QED BY <1>1, <1>2, <1>3, <1>4, <1>5, <1>6, <1>7, <1>8 DEF FrameStep

LEMMA TailCorrect == Spec => []TailInv
<1>1. RunInv /\ TailInv /\ [Next]_vars => TailInv'
  BY QuietTail, CaseStepTail, FrameStepTail DEF Next, Progress, Ending, RunInv
<1> QED BY <1>1, InitTail, RunCorrect, PTL DEF Spec

LEMMA ProtocolAppend ==
    ASSUME TypeOK, JournalFollowsProtocol, NEW event, NEW info, Record(event, info),
           journal = <<>> => event = "run_started",
           journal # <<>> => Follows(Last(journal),
                                     [event |-> event, position |-> position,
                                      case_id |-> current, info |-> info])
    PROVE  JournalFollowsProtocol'
<1> DEFINE row == [event |-> event, position |-> position, case_id |-> current, info |-> info]
           n == Len(journal)
<1>1. journal' = Append(journal, row) /\ journal \in Seq(JournalRow \cup {row})
  BY DEF Record, TypeOK
<1>2. row.event = event
  OBVIOUS
<1>3. journal # <<>> => Follows(Last(journal), row)
  OBVIOUS
<1> HIDE DEF row
<1>4. /\ n \in Nat /\ Len(journal') = n + 1 /\ journal'[n + 1] = row
      /\ \A i \in 1 .. n : journal'[i] = journal[i]
  BY <1>1, AppendFacts
<1>5. n = 0 <=> journal = <<>>
  BY <1>1
<1>6. journal'[1].event = "run_started"
  <2>1. CASE n = 0
    BY <1>2, <1>4, <1>5, <2>1
  <2>2. CASE n # 0
    BY <1>4, <1>5, <2>2 DEF JournalFollowsProtocol
  <2> QED BY <2>1, <2>2
<1>7. ASSUME NEW i \in 1 .. Len(journal') - 1
      PROVE  Follows(journal'[i], journal'[i + 1])
  <2>1. CASE i = n
    <3>1. journal' [i] = Last(journal) /\ journal'[i + 1] = row /\ journal # <<>>
      BY <1>4, <1>5, <2>1 DEF Last
    <3> QED BY <1>3, <3>1
  <2>2. CASE i # n
    <3>1. i \in 1 .. n - 1 /\ i + 1 \in 1 .. n /\ i \in 1 .. n
      BY <1>4, <2>2
    <3> QED BY <1>4, <3>1 DEF JournalFollowsProtocol
  <2> QED BY <2>1, <2>2
<1> QED BY <1>6, <1>7 DEF JournalFollowsProtocol

\* Whatever fails and wherever, the journal is a prefix of a well-formed run
\* (JournalFollowsProtocol): each row may follow the one before it, and nothing
\* follows run_failed or run_completed.
THEOREM JournalIsWellFormed == Spec => []JournalFollowsProtocol
<1> DEFINE Inv == RunInv /\ TailInv
<1>1. Init => JournalFollowsProtocol
  BY DEF Init, JournalFollowsProtocol
<1>2. Inv /\ JournalFollowsProtocol /\ [Next]_vars => JournalFollowsProtocol'
  <2> SUFFICES ASSUME Inv, JournalFollowsProtocol, [Next]_vars, journal' # journal
               PROVE  JournalFollowsProtocol'
    BY DEF JournalFollowsProtocol, Follows
  <2> USE DEF RunInv
  <2>1. \/ JournalRunStarted \/ JournalStarted \/ JournalUnsupported \/ JournalReference
        \/ JournalCandidate \/ JournalCompleted \/ JournalRunFailed \/ JournalRunCompleted
    BY QuietMoves
       DEF Next, Progress, Ending, CaseStep, FrameStep, NextCase, Supported, Unsupported,
           ExecuteReference, LogReference, ExecuteCandidate, LogCandidate, Compare,
           OpenReference, OpenCandidate, CloseReference, CloseCandidate, Publish
  <2> USE DEF TailInv, LastIs, Follows, NextInCase
  <2>2. CASE JournalRunStarted
    <3>1. Record("run_started", "none") /\ journal = <<>>
      BY <2>2, FrameMoves DEF JournalRunStarted
    <3> QED BY <3>1, ProtocolAppend
  <2>3. CASE JournalStarted
    <3>1. /\ Record("case_started", "none")
          /\ Last(journal).event \in Between /\ Last(journal).position = position - 1
          /\ journal # <<>>
          /\ position \in Nat /\ current = Selected[position]
      BY <2>3, CaseMoves, SelectedFacts DEF JournalStarted, PositionInv, CasePoints, LoopPoints
    <3> QED BY <3>1, ProtocolAppend
  <2>4. CASE JournalUnsupported
    <3>1. /\ Record("case_unsupported", "none")
          /\ journal # <<>> /\ LastIs("case_started")
      BY <2>4, CaseMoves DEF JournalUnsupported, StartedPoints
    <3> QED BY <3>1, ProtocolAppend
  <2>5. CASE JournalReference
    <3>1. /\ Record("reference_observed", rawReference[current].status)
          /\ journal # <<>> /\ LastIs("case_started")
      BY <2>5, CaseMoves DEF JournalReference, StartedPoints
    <3> QED BY <3>1, ProtocolAppend
  <2>6. CASE JournalCandidate
    <3>1. /\ Record("candidate_observed", rawCandidate[current].status)
          /\ journal # <<>> /\ LastIs("reference_observed")
      BY <2>6, CaseMoves DEF JournalCandidate, ObservedPoints
    <3> QED BY <3>1, ProtocolAppend
  <2>7. CASE JournalCompleted
    <3>1. /\ Record("case_completed", Outcome(Last(caseResults)))
          /\ journal # <<>> /\ LastIs("candidate_observed")
      BY <2>7, CaseMoves DEF JournalCompleted, ComparedPoints
    <3> QED BY <3>1, ProtocolAppend
  <2>8. CASE JournalRunFailed
    <3>1. /\ Record("run_failed", error) /\ journal # <<>>
          /\ Last(journal).event \notin {"run_failed", "run_completed"}
      BY <2>8, FrameMoves DEF JournalRunFailed
    <3> QED BY <3>1, ProtocolAppend
  <2>9. CASE JournalRunCompleted
    <3>1. At = "journal_run_completed" /\ Live
      <4>1. At = "journal_run_completed" /\ pc = "journal_run_completed"
        BY <2>9, FrameMoves DEF JournalRunCompleted
      <4> QED BY <4>1 DEF ControlInv, Live, ReportPoints, PublishedPoints
    <3>2. /\ Record("run_completed", "none") /\ journal # <<>>
          /\ Last(journal).event \in Between /\ Last(journal).position = position
          /\ position = Len(Selected)
      BY <2>9, <3>1 DEF JournalRunCompleted, BetweenPoints, PositionInv, ReportPoints,
                        PublishedPoints
    <3> QED BY <3>2, ProtocolAppend
  <2> QED BY <2>1, <2>2, <2>3, <2>4, <2>5, <2>6, <2>7, <2>8, <2>9
<1>3. Spec => []Inv
  BY RunCorrect, TailCorrect, PTL
<1> QED BY <1>1, <1>2, <1>3, PTL DEF Spec

-----------------------------------------------------------------------------
(* Layer 14: the state file.                                               *)

\* What the three kinds of document are when they are written.
LEMMA DocumentsWritten ==
    ASSUME TypeOK
    PROVE  /\ WriteState => state' \in StateDocument /\ state' # NoDocument
           /\ WritePartial => partial' \in PartialDocument /\ partial' # NoDocument
           /\ Publish => output' \in ResultDocument /\ output' # NoDocument
           /\ rawReference # NoDocument /\ rawCandidate # NoDocument
<1>0. Len(caseResults) \in Nat /\ Len(unsupported) \in Nat /\ position \in Nat
  BY SelectedFacts DEF TypeOK
<1>1. WriteState => state' \in StateDocument
  BY <1>0 DEF TypeOK, WriteState, StateDocument
<1>2. WritePartial => partial' \in PartialDocument
  BY <1>0 DEF TypeOK, WritePartial, PartialDocument
<1>3. Publish => output' \in ResultDocument
  BY DEF TypeOK, Publish, ResultDocument
<1>4. rawReference \in Raw /\ rawCandidate \in Raw
  BY DEF TypeOK
<1> QED BY <1>1, <1>2, <1>3, <1>4, DocumentAssumption

LEMMA CaseStepDocuments == CaseStep => UNCHANGED <<error, state, dumps, output>>
BY DEF CaseStep, NextCase, JournalStarted, Supported, Unsupported, JournalUnsupported,
       ExecuteReference, LogReference, JournalReference, ExecuteCandidate, LogCandidate,
       JournalCandidate, Compare, JournalCompleted

LEMMA FrameStepDocuments ==
    FrameStep => /\ UNCHANGED <<error, state, dumps>>
                 /\ ~Publish => UNCHANGED output
BY DEF FrameStep, JournalRunStarted, OpenReference, OpenCandidate, JournalRunFailed,
       CloseReference, CloseCandidate, Publish, JournalRunCompleted

\* Which call of persist is in progress, by where it continues.
LEMMA CallStatus ==
    ASSUME ControlInv, pc \in PersistPoints
    PROVE  /\ At = call.resume
           /\ At \in CasePoints \cup {"next_case"} => call.status = "running"
           /\ At = "returned" <=> call.status = "completed"
           /\ At = "close_reference" <=> call.status = "failed"
           /\ call.status = "failed" => error # "none"
<1>1. <<call.status, call.resume>> \in PersistCalls /\ At = call.resume
  BY DEF ControlInv, At
<1>2. call.status = "failed" => error # "none"
  BY DEF ControlInv, InExcept
<1> QED BY <1>1, <1>2 DEF PersistCalls, CasePoints, LoopPoints

LEMMA InitState == Init => StateInv
<1> SUFFICES ASSUME Init PROVE StateInv
  OBVIOUS
<1>1. At = "journal_run_started" /\ pc \notin PersistPoints /\ state = NoDocument
  BY DEF Init, At, PersistPoints
<1> QED BY <1>1 DEF StateInv, CasePoints, LoopPoints, PublishedPoints

LEMMA PersistStepState ==
    /\ TypeOK /\ ControlInv /\ PositionInv /\ TallyInv /\ HistoryInv /\ TailInv /\ StateInv
    /\ PersistStep
    => StateInv'
<1> SUFFICES ASSUME TypeOK, ControlInv, PositionInv, TallyInv, HistoryInv, TailInv, StateInv,
                    PersistStep
             PROVE  StateInv'
  OBVIOUS
<1>0. /\ pc \in PersistPoints /\ At' = At /\ call' = call /\ error' = error
      /\ journal' = journal /\ current' = current /\ output' = output
      /\ pc # "killed"
  BY PersistStepMoves, PersistStepKeeps DEF progress
<1>1. At = call.resume
  BY CallStatus, <1>0
<1>2. pc' \in PersistPoints => pc \in PersistPoints
  BY <1>0
<1>3. CASE WriteState
  <2>1. state' # NoDocument
    BY <1>3, DocumentsWritten
  <2>2. /\ state'.status = call.status /\ state'.current = current
        /\ state'.evaluated = Len(caseResults) /\ state'.unsupported = Len(unsupported)
    BY <1>3 DEF WriteState
  <2>3. ASSUME call.status = "completed"
        PROVE  /\ At = "returned" /\ output # NoDocument
               /\ Last(journal).event = "run_completed"
               /\ state'.evaluated + state'.unsupported = Len(Selected)
    <3>1. At = "returned"
      BY <1>0, <2>3, CallStatus
    <3>2. error = "none" /\ Live
      BY <1>0, <3>1 DEF ControlInv, Live, ReportPoints, PublishedPoints
    <3>3. position = Len(Selected)
      BY <3>1, <3>2 DEF PositionInv, ReportPoints, PublishedPoints
    <3>4. Len(caseResults) + Len(unsupported) = position
      BY <3>1, <3>2 DEF TallyInv, UndecidedPoints, CasePoints, LoopPoints
    <3>5. output # NoDocument /\ Last(journal).event = "run_completed"
      BY <3>1 DEF StateInv, TailInv, PublishedPoints
    <3> QED BY <2>2, <3>1, <3>3, <3>4, <3>5
  <2>4. ASSUME call.status = "failed"
        PROVE  /\ At = "close_reference" /\ error # "none"
               /\ Last(journal).event = "run_failed" /\ output = NoDocument
    <3>1. At = "close_reference" /\ error # "none"
      BY <1>0, <2>4, CallStatus
    <3> QED BY <1>0, <2>4, <3>1 DEF StateInv, HistoryInv, PublishedPoints
  <2>5. At \in CasePoints => call.status = "running"
    BY <1>0, CallStatus
  <2> QED BY <1>0, <2>1, <2>2, <2>3, <2>4, <2>5 DEF StateInv, ClosingPoints
<1>4. CASE WritePartial \/ WriteRawReference \/ WriteRawCandidate
  <2>1. state' = state /\ pc # "write_state"
    BY <1>4 DEF WritePartial, WriteRawReference, WriteRawCandidate
  <2> QED BY <1>0, <2>1 DEF StateInv
<1> QED BY <1>3, <1>4 DEF PersistStep

LEMMA FaultState ==
    ControlInv /\ HistoryInv /\ StateInv /\ Fault => StateInv'
<1> SUFFICES ASSUME ControlInv, HistoryInv, StateInv, Fault PROVE StateInv'
  OBVIOUS
<1>1. /\ state' = state /\ journal' = journal /\ output' = output
  BY FaultKeeps
<1>2. error # "none" => error' = error
  BY DEF Fault, Raise, TransportRaises, Kill, Unwind
<1>3. /\ pc' = "journal_run_failed" => At \in TryPoints
      /\ pc' = "close_reference" => At \in {"journal_run_failed", "close_reference"}
      /\ pc' \in {"journal_run_failed", "close_reference", "raised", "killed"}
      /\ At' = pc'
  BY FaultTargets
<1>4. /\ At' \notin CasePoints /\ At' \notin PublishedPoints /\ pc' \notin PersistPoints
  BY <1>3 DEF CasePoints, LoopPoints, PublishedPoints, PersistPoints
<1>5. ASSUME state # NoDocument, state.status = "completed"
      PROVE  At' \in {"returned", "raised", "killed"}
  <2>1. At \in {"returned", "raised", "killed"}
    BY <1>5 DEF StateInv
  <2> QED BY <1>3, <2>1 DEF TryPoints, LoopPoints
<1>6. ASSUME state # NoDocument, state.status = "failed"
      PROVE  At' \in ClosingPoints \cup {"raised", "killed"}
  <2>1. At \in ClosingPoints \cup {"raised", "killed"}
    BY <1>6 DEF StateInv
  <2> QED BY <1>3, <2>1 DEF TryPoints, LoopPoints, ClosingPoints
<1>7. /\ At' \in CasePoints \ {"journal_started"} /\ pc' # "write_state" =>
           state' # NoDocument /\ state'.current = current' /\ state'.status = "running"
      /\ At' \in PublishedPoints => output' # NoDocument
      /\ pc' \in PersistPoints /\ call'.status = "failed" => Last(journal').event = "run_failed"
  BY <1>4
<1>8. state # NoDocument /\ state.status = "completed" =>
         /\ output # NoDocument
         /\ Last(journal).event = "run_completed"
         /\ state.evaluated + state.unsupported = Len(Selected)
  BY DEF StateInv
<1>9. state # NoDocument /\ state.status = "failed" =>
         error # "none" /\ Last(journal).event = "run_failed" /\ output = NoDocument
  BY DEF StateInv
<1> QED BY <1>1, <1>2, <1>5, <1>6, <1>7, <1>8, <1>9 DEF StateInv

LEMMA CaseStepState == TypeOK /\ ControlInv /\ StateInv /\ CaseStep => StateInv'
<1> SUFFICES ASSUME TypeOK, ControlInv, StateInv, CaseStep PROVE StateInv'
  OBVIOUS
<1>1. Live /\ Live' /\ state' = state /\ error' = error
  BY CaseMoves, CaseStepDocuments
<1>2. At \in LoopPoints /\ At' \in LoopPoints \cup {"close_reference"}
  BY CaseMoves DEF CaseStep, LoopPoints
<1>3. ~(state # NoDocument /\ state.status \in {"completed", "failed"})
  BY <1>1, <1>2 DEF StateInv, Live, LoopPoints, ClosingPoints
<1>4. At' \notin PublishedPoints
  BY <1>2 DEF PublishedPoints, LoopPoints
<1>5. pc' \in PersistPoints => call'.status # "failed"
  BY DEF CaseStep, NextCase, JournalStarted, Supported, Unsupported, JournalUnsupported,
         ExecuteReference, LogReference, JournalReference, ExecuteCandidate, LogCandidate,
         JournalCandidate, Compare, JournalCompleted, Persist, PersistPoints
<1>6. ASSUME At' \in CasePoints \ {"journal_started"}, pc' # "write_state"
      PROVE  state # NoDocument /\ state.current = current' /\ state.status = "running"
  <2>1. Supported \/ Unsupported \/ ExecuteReference \/ LogReference \/ ExecuteCandidate
           \/ LogCandidate \/ JournalCandidate \/ Compare
    <3>1. ~NextCase
      BY <1>6, CaseMoves DEF CasePoints, LoopPoints
    <3> QED BY <1>6, <3>1 DEF CaseStep, JournalStarted, JournalUnsupported, JournalReference,
                              JournalCompleted, Persist
  <2>2. /\ current' = current /\ pc # "write_state"
    BY <2>1 DEF Supported, Unsupported, ExecuteReference, LogReference, ExecuteCandidate,
                LogCandidate, JournalCandidate, Compare, progress
  <2>3. At \in CasePoints \ {"journal_started"}
    BY <2>1, CaseMoves DEF CasePoints, LoopPoints
  <2> QED BY <2>2, <2>3 DEF StateInv
<1> QED BY <1>1, <1>3, <1>4, <1>5, <1>6 DEF StateInv

LEMMA FrameStepState == TypeOK /\ ControlInv /\ StateInv /\ FrameStep => StateInv'
<1> SUFFICES ASSUME TypeOK, ControlInv, StateInv, FrameStep PROVE StateInv'
  OBVIOUS
<1>1. /\ state' = state /\ error' = error
      /\ ~Publish => output' = output
  BY FrameStepDocuments
<1>2. At' \notin CasePoints
  BY FrameMoves DEF FrameStep, CasePoints, LoopPoints
<1>3. At' \in PublishedPoints => output' # NoDocument
  <2>1. CASE Publish
    BY <2>1, DocumentsWritten
  <2>2. CASE ~Publish
    <3>1. At' \in PublishedPoints => At = "journal_run_completed"
      BY <2>2, FrameMoves DEF FrameStep, PublishedPoints
    <3> QED BY <1>1, <2>2, <3>1 DEF StateInv, PublishedPoints
  <2> QED BY <2>1, <2>2
<1>4. pc' \in PersistPoints /\ call'.status = "failed" => Last(journal').event = "run_failed"
  <2>1. CASE JournalRunFailed
    <3>1. Record("run_failed", error)
      BY <2>1 DEF JournalRunFailed
    <3> QED BY <3>1, Recorded
  <2>2. CASE ~JournalRunFailed
    <3>1. CASE JournalRunStarted \/ OpenCandidate \/ JournalRunCompleted
      <4>1. \/ Persist("starting", TRUE, "open_reference")
            \/ Persist("running", FALSE, "next_case")
            \/ Persist("completed", TRUE, "returned")
        BY <3>1 DEF JournalRunStarted, OpenCandidate, JournalRunCompleted
      <4>2. call'.status \in {"starting", "running", "completed"}
        BY <4>1, PersistCall
      <4> QED BY <4>2
    <3>2. CASE OpenReference \/ CloseReference \/ CloseCandidate \/ Publish
      BY <3>2 DEF OpenReference, CloseReference, CloseCandidate, Publish, PersistPoints
    <3> QED BY <2>2, <3>1, <3>2 DEF FrameStep
  <2> QED BY <2>1, <2>2
<1>5. ~(state # NoDocument /\ state.status = "completed")
  <2>1. At \notin {"returned", "raised", "killed"}
    BY FrameMoves DEF FrameStep
  <2> QED BY <2>1 DEF StateInv
<1>6. ASSUME state # NoDocument, state.status = "failed"
      PROVE  /\ At' \in ClosingPoints \cup {"raised", "killed"}
             /\ error # "none" /\ Last(journal').event = "run_failed" /\ output' = NoDocument
  <2>1. /\ error # "none" /\ At \in ClosingPoints \cup {"raised", "killed"}
        /\ Last(journal).event = "run_failed" /\ output = NoDocument
    BY <1>6 DEF StateInv
  <2>2. CloseReference \/ CloseCandidate
    BY <2>1, FrameMoves DEF FrameStep, ClosingPoints
  <2>3. journal' = journal /\ output' = output
    BY <2>2 DEF CloseReference, CloseCandidate
  <2>4. At' \in {"close_candidate", "raised"}
    BY <2>1, <2>2, FrameMoves
  <2> QED BY <2>1, <2>3, <2>4 DEF ClosingPoints
<1> QED BY <1>1, <1>2, <1>3, <1>4, <1>5, <1>6 DEF StateInv

LEMMA StateCorrect == Spec => []StateInv
<1>1. RunInv /\ TailInv /\ StateInv /\ [Next]_vars => StateInv'
  <2> SUFFICES ASSUME RunInv, TailInv, StateInv, UNCHANGED vars PROVE StateInv'
    BY PersistStepState, FaultState, CaseStepState, FrameStepState
       DEF Next, Progress, Ending, RunInv
  <2> QED BY DEF StateInv, At, vars, control, progress
<1> QED BY <1>1, InitState, RunCorrect, TailCorrect, PTL DEF Spec

\* While a target executes a case, the state file and the journal's last row on
\* disk already name that case (ActiveCaseIdentified): journal and persist come
\* before execute.
THEOREM DeadRunNamesItsCase == Spec => []ActiveCaseIdentified
<1>1. RunInv /\ TailInv /\ StateInv => ActiveCaseIdentified
  <2> SUFFICES ASSUME RunInv, TailInv, StateInv, pc \in {"execute_reference", "execute_candidate"}
               PROVE  ActiveCaseIdentified
    BY DEF ActiveCaseIdentified
  <2>1. At = pc
    BY DEF At, PersistPoints
  <2>2. current = Selected[position]
    BY <2>1 DEF RunInv, PositionInv, CasePoints, LoopPoints
  <2>3. state # NoDocument /\ state.current = current /\ state.status = "running"
    BY <2>1 DEF StateInv, CasePoints, LoopPoints
  <2>4. /\ Last(journal).case_id = current
        /\ Last(journal).event = IF pc = "execute_reference"
                                   THEN "case_started" ELSE "reference_observed"
    BY <2>1 DEF TailInv, LastIs, StartedPoints, ObservedPoints
  <2> QED BY <2>2, <2>3, <2>4 DEF ActiveCaseIdentified
<1> QED BY <1>1, RunCorrect, TailCorrect, StateCorrect, PTL

-----------------------------------------------------------------------------
(* Layer 15: the progress logs, the raw observations and their dumps.      *)

RowsEnd ==
    IF At \in {"journal_started", "check_supports", "execute_reference", "log_reference"}
    THEN position - 1 ELSE position

CandidateRowsEnd ==
    IF At \in CasePoints \ {"journal_candidate", "compare", "journal_completed"}
    THEN position - 1 ELSE position

LEMMA RowsSplit ==
    RowsInv <=> /\ LoggedOf(referenceLog, rawReference, RowsEnd)
                /\ LoggedOf(candidateLog, rawCandidate, CandidateRowsEnd)
BY DEF RowsInv, RowsEnd, CandidateRowsEnd

\* A longer range of positions keeps the rows.
LEMMA LoggedLonger ==
    ASSUME NEW log, NEW raw, NEW last \in Int, NEW more \in Int, last <= more,
           LoggedOf(log, raw, last)
    PROVE  LoggedOf(log, raw, more)
BY DEF LoggedOf

\* A new observation of a case that has no row yet keeps the rows.
LEMMA LoggedExcept ==
    ASSUME NEW log, NEW raw \in Raw, NEW at \in 1 .. Len(Selected), NEW o,
           NEW other, other = [raw EXCEPT ![Selected[at]] = o],
           LoggedOf(log, raw, at - 1)
    PROVE  LoggedOf(log, other, at - 1)
<1>1. at - 1 \in Int /\ at \in Nat
  BY SelectedFacts
<1>2. ASSUME NEW i \in DOMAIN log PROVE other[log[i].case_id] = log[i].observation
  <2>1. PICK p \in 1 .. at - 1 : log[i].case_id = Selected[p]
    BY DEF LoggedOf
  <2>2. p \in 1 .. Len(Selected) /\ p # at
    BY <2>1, SelectedFacts
  <2>3. Selected[p] # Selected[at] /\ Selected[p] \in Case
    BY <2>2, SelectedFacts
  <2>4. other[Selected[p]] = raw[Selected[p]]
    BY <2>3 DEF Raw
  <2> QED BY <2>1, <2>4 DEF LoggedOf
<1> QED BY <1>2 DEF LoggedOf

\* The row of the current case joins the rows of the cases before it.
LEMMA LoggedRow ==
    ASSUME NEW log \in Seq(LogRow), NEW raw, NEW at \in 1 .. Len(Selected),
           NEW row \in LogRow,
           row.case_id = Selected[at], row.observation = raw[Selected[at]],
           LoggedOf(log, raw, at - 1)
    PROVE  LoggedOf(Append(log, row), raw, at)
<1>1. /\ Len(log) \in Nat /\ DOMAIN log = 1 .. Len(log)
      /\ DOMAIN Append(log, row) = 1 .. Len(log) + 1
      /\ Append(log, row)[Len(log) + 1] = row
      /\ \A i \in 1 .. Len(log) : Append(log, row)[i] = log[i]
  BY AppendFacts
<1>2. at \in Nat /\ at \in 1 .. at
  BY SelectedFacts
<1>3. ASSUME NEW i \in DOMAIN Append(log, row)
      PROVE  /\ \E p \in 1 .. at : Append(log, row)[i].case_id = Selected[p]
             /\ raw[Append(log, row)[i].case_id] = Append(log, row)[i].observation
  <2>1. CASE i = Len(log) + 1
    <3>1. Append(log, row)[i] = row
      BY <1>1, <2>1
    <3> QED BY <1>2, <3>1
  <2>2. CASE i # Len(log) + 1
    <3>1. i \in DOMAIN log /\ Append(log, row)[i] = log[i]
      BY <1>1, <2>2
    <3>2. PICK p \in 1 .. at - 1 : log[i].case_id = Selected[p]
      BY <3>1 DEF LoggedOf
    <3>3. p \in 1 .. at
      BY <1>2, <3>2
    <3>4. raw[log[i].case_id] = log[i].observation
      BY <3>1 DEF LoggedOf
    <3> QED BY <3>1, <3>2, <3>3, <3>4
  <2> QED BY <2>1, <2>2
<1> QED BY <1>3 DEF LoggedOf

LEMMA InitRows == Init => RowsInv
BY DEF Init, RowsInv, LoggedOf

\* What both ends are before and after a step that keeps the rows.
LEMMA RowsKept ==
    ASSUME PositionInv, PositionInv', UNCHANGED <<raws, logs>>, RowsInv,
           RowsEnd <= RowsEnd', CandidateRowsEnd <= CandidateRowsEnd'
    PROVE  RowsInv'
<1>1. /\ RowsEnd \in Int /\ RowsEnd' \in Int
      /\ CandidateRowsEnd \in Int /\ CandidateRowsEnd' \in Int
  BY SelectedFacts DEF PositionInv, RowsEnd, CandidateRowsEnd
<1>2. /\ rawReference' = rawReference /\ rawCandidate' = rawCandidate
      /\ referenceLog' = referenceLog /\ candidateLog' = candidateLog
  BY DEF raws, logs
<1>3. /\ LoggedOf(referenceLog, rawReference, RowsEnd)
      /\ LoggedOf(candidateLog, rawCandidate, CandidateRowsEnd)
  BY RowsSplit
<1>4. /\ LoggedOf(referenceLog, rawReference, RowsEnd')
      /\ LoggedOf(candidateLog, rawCandidate, CandidateRowsEnd')
  BY <1>1, <1>3, LoggedLonger
<1> QED BY <1>2, <1>4 DEF RowsInv, RowsEnd, CandidateRowsEnd

LEMMA QuietRows ==
    /\ ControlInv /\ PositionInv /\ PositionInv' /\ RowsInv
    /\ (PersistStep \/ Fault \/ UNCHANGED vars)
    => RowsInv'
<1> SUFFICES ASSUME ControlInv, PositionInv, PositionInv', RowsInv,
                    PersistStep \/ Fault \/ UNCHANGED vars
             PROVE  RowsInv'
  OBVIOUS
<1>1. /\ UNCHANGED <<raws, logs>> /\ position' = position
      /\ At' = At \/ At' \in {"journal_run_failed", "raised", "killed"} \cup ClosingPoints
  BY QuietMoves DEF progress
<1>2. position \in Nat
  BY SelectedFacts DEF PositionInv
<1>3. RowsEnd <= RowsEnd' /\ CandidateRowsEnd <= CandidateRowsEnd'
  <2>1. CASE At' = At
    BY <1>1, <1>2, <2>1 DEF RowsEnd, CandidateRowsEnd
  <2>2. CASE At' \in {"journal_run_failed", "raised", "killed"} \cup ClosingPoints
    BY <1>1, <1>2, <2>2 DEF RowsEnd, CandidateRowsEnd, CasePoints, LoopPoints, ClosingPoints
  <2> QED BY <1>1, <2>1, <2>2
<1> QED BY <1>1, <1>3, RowsKept

LEMMA FrameStepRows ==
    ControlInv /\ PositionInv /\ PositionInv' /\ RowsInv /\ FrameStep => RowsInv'
<1> SUFFICES ASSUME ControlInv, PositionInv, PositionInv', RowsInv, FrameStep PROVE RowsInv'
  OBVIOUS
<1>1. UNCHANGED <<raws, logs>> /\ position' = position
  BY DEF FrameStep, JournalRunStarted, OpenReference, OpenCandidate, JournalRunFailed,
         CloseReference, CloseCandidate, Publish, JournalRunCompleted, progress
<1>2. At' \notin CasePoints
  BY FrameMoves DEF FrameStep, CasePoints, LoopPoints
<1>3. position \in Nat
  BY SelectedFacts DEF PositionInv
<1>4. RowsEnd <= RowsEnd' /\ CandidateRowsEnd <= CandidateRowsEnd'
  BY <1>1, <1>2, <1>3 DEF RowsEnd, CandidateRowsEnd, CasePoints, LoopPoints
<1> QED BY <1>1, <1>4, RowsKept

LEMMA CaseStepRows ==
    /\ ControlInv /\ PositionInv /\ PositionInv' /\ ObservedInv /\ TypeOK /\ RowsInv
    /\ CaseStep
    => RowsInv'
<1> SUFFICES ASSUME ControlInv, PositionInv, PositionInv', ObservedInv, TypeOK, RowsInv, CaseStep
             PROVE  RowsInv'
  OBVIOUS
<1>0. /\ position \in Nat
      /\ At \in CasePoints => position \in 1 .. Len(Selected) /\ current = Selected[position]
      /\ LoggedOf(referenceLog, rawReference, RowsEnd)
      /\ LoggedOf(candidateLog, rawCandidate, CandidateRowsEnd)
      /\ referenceLog \in Seq(LogRow) /\ candidateLog \in Seq(LogRow)
      /\ rawReference \in Raw /\ rawCandidate \in Raw
  BY SelectedFacts, RowsSplit DEF PositionInv, TypeOK
<1>1. CASE NextCase
  <2>1. /\ At = "next_case" /\ UNCHANGED <<raws, logs>>
        /\ \/ At' = "journal_started" /\ position' = position + 1
           \/ At' = "close_reference" /\ position' = position
    BY <1>1, CaseMoves DEF NextCase, progress
  <2>2. RowsEnd <= RowsEnd' /\ CandidateRowsEnd <= CandidateRowsEnd'
    BY <1>0, <2>1 DEF RowsEnd, CandidateRowsEnd, CasePoints, LoopPoints
  <2> QED BY <2>1, <2>2, RowsKept
<1>2. CASE JournalStarted \/ Supported \/ Unsupported \/ JournalUnsupported
             \/ JournalReference \/ JournalCandidate \/ Compare \/ JournalCompleted
  <2>1. UNCHANGED <<raws, logs>> /\ position' = position
    BY <1>2 DEF JournalStarted, Supported, Unsupported, JournalUnsupported, JournalReference,
                JournalCandidate, Compare, JournalCompleted, progress
  <2>2. \/ At = "journal_started" /\ At' = "check_supports"
        \/ At = "check_supports" /\ At' \in {"execute_reference", "journal_unsupported"}
        \/ At = "journal_unsupported" /\ At' = "next_case"
        \/ At = "journal_reference" /\ At' = "execute_candidate"
        \/ At = "journal_candidate" /\ At' = "compare"
        \/ At = "compare" /\ At' = "journal_completed"
        \/ At = "journal_completed" /\ At' = "next_case"
    BY <1>2, CaseMoves
  <2>3. RowsEnd <= RowsEnd' /\ CandidateRowsEnd <= CandidateRowsEnd'
    BY <1>0, <2>1, <2>2 DEF RowsEnd, CandidateRowsEnd, CasePoints, LoopPoints
  <2> QED BY <2>1, <2>3, RowsKept
<1>3. CASE ExecuteReference
  <2>1. /\ At = "execute_reference" /\ At' = "log_reference" /\ position' = position
        /\ UNCHANGED <<logs, rawCandidate>>
    BY <1>3, CaseMoves DEF ExecuteReference, progress
  <2>2. PICK o \in Observation : rawReference' = [rawReference EXCEPT ![current] = o]
    BY <1>3 DEF ExecuteReference
  <2>3. /\ RowsEnd = position - 1 /\ RowsEnd' = position - 1
        /\ CandidateRowsEnd = position - 1 /\ CandidateRowsEnd' = position - 1
    BY <1>0, <2>1 DEF RowsEnd, CandidateRowsEnd, CasePoints, LoopPoints
  <2>4. position \in 1 .. Len(Selected) /\ current = Selected[position]
    BY <1>0, <2>1 DEF CasePoints, LoopPoints
  <2>5. LoggedOf(referenceLog, rawReference', position - 1)
    BY <1>0, <2>2, <2>3, <2>4, LoggedExcept
  <2> QED BY <1>0, <2>1, <2>3, <2>5 DEF RowsInv, RowsEnd, CandidateRowsEnd, logs
<1>4. CASE ExecuteCandidate
  <2>1. /\ At = "execute_candidate" /\ At' = "log_candidate" /\ position' = position
        /\ UNCHANGED <<logs, rawReference>>
    BY <1>4, CaseMoves DEF ExecuteCandidate, progress
  <2>2. PICK o : rawCandidate' = [rawCandidate EXCEPT ![current] = o]
    BY <1>4 DEF ExecuteCandidate
  <2>3. /\ RowsEnd = position /\ RowsEnd' = position
        /\ CandidateRowsEnd = position - 1 /\ CandidateRowsEnd' = position - 1
    BY <1>0, <2>1 DEF RowsEnd, CandidateRowsEnd, CasePoints, LoopPoints
  <2>4. position \in 1 .. Len(Selected) /\ current = Selected[position]
    BY <1>0, <2>1 DEF CasePoints, LoopPoints
  <2>5. LoggedOf(candidateLog, rawCandidate', position - 1)
    BY <1>0, <2>2, <2>3, <2>4, LoggedExcept
  <2> QED BY <1>0, <2>1, <2>3, <2>5 DEF RowsInv, RowsEnd, CandidateRowsEnd, logs
<1>5. CASE LogReference
  <2> DEFINE row == [case_id |-> current, observation |-> rawReference[current]]
  <2>1. /\ At = "log_reference" /\ At' = "journal_reference" /\ position' = position
        /\ UNCHANGED <<raws, candidateLog>> /\ referenceLog' = Append(referenceLog, row)
    BY <1>5, CaseMoves DEF LogReference, progress
  <2>2. row \in LogRow
    BY <1>5, LoggedRows
  <2>3. /\ RowsEnd = position - 1 /\ RowsEnd' = position
        /\ CandidateRowsEnd = position - 1 /\ CandidateRowsEnd' = position - 1
    BY <1>0, <2>1 DEF RowsEnd, CandidateRowsEnd, CasePoints, LoopPoints
  <2>4. position \in 1 .. Len(Selected) /\ current = Selected[position]
    BY <1>0, <2>1 DEF CasePoints, LoopPoints
  <2>5. LoggedOf(referenceLog', rawReference, position)
    <3>1. row.case_id = Selected[position]
          /\ row.observation = rawReference[Selected[position]]
      BY <2>4
    <3> HIDE DEF row
    <3> QED BY <1>0, <2>1, <2>2, <2>3, <2>4, <3>1, LoggedRow
  <2> QED BY <1>0, <2>1, <2>3, <2>5 DEF RowsInv, RowsEnd, CandidateRowsEnd, raws
<1>6. CASE LogCandidate
  <2> DEFINE row == [case_id |-> current, observation |-> rawCandidate[current]]
  <2>1. /\ At = "log_candidate" /\ At' = "journal_candidate" /\ position' = position
        /\ UNCHANGED <<raws, referenceLog>> /\ candidateLog' = Append(candidateLog, row)
    BY <1>6, CaseMoves DEF LogCandidate, progress
  <2>2. row \in LogRow
    BY <1>6, LoggedRows
  <2>3. /\ RowsEnd = position /\ RowsEnd' = position
        /\ CandidateRowsEnd = position - 1 /\ CandidateRowsEnd' = position
    BY <1>0, <2>1 DEF RowsEnd, CandidateRowsEnd, CasePoints, LoopPoints
  <2>4. position \in 1 .. Len(Selected) /\ current = Selected[position]
    BY <1>0, <2>1 DEF CasePoints, LoopPoints
  <2>5. LoggedOf(candidateLog', rawCandidate, position)
    <3>1. row.case_id = Selected[position]
          /\ row.observation = rawCandidate[Selected[position]]
      BY <2>4
    <3> HIDE DEF row
    <3> QED BY <1>0, <2>1, <2>2, <2>3, <2>4, <3>1, LoggedRow
  <2> QED BY <1>0, <2>1, <2>3, <2>5 DEF RowsInv, RowsEnd, CandidateRowsEnd, raws
<1> QED BY <1>1, <1>2, <1>3, <1>4, <1>5, <1>6 DEF CaseStep

LEMMA RowsCorrect == Spec => []RowsInv
<1>1. RunInv /\ RunInv' /\ RowsInv /\ [Next]_vars => RowsInv'
  BY QuietRows, FrameStepRows, CaseStepRows DEF Next, Progress, Ending, RunInv
<1> QED BY <1>1, InitRows, RunCorrect, PTL DEF Spec

LEMMA InitDump == Init => DumpInv
<1> SUFFICES ASSUME Init PROVE DumpInv
  OBVIOUS
<1>1. At = "journal_run_started"
  BY DEF Init, At, PersistPoints
<1> QED BY <1>1 DEF DumpInv

\* The last persist call of a run writes the documents one after the other.
LEMMA PersistStepDump ==
    TypeOK /\ ControlInv /\ DumpInv /\ PersistStep => DumpInv'
<1> SUFFICES ASSUME TypeOK, ControlInv, DumpInv, PersistStep, At' = "returned" PROVE DumpInv'
  BY DEF DumpInv
<1>1. /\ pc \in PersistPoints /\ At = "returned" /\ call' = call
      /\ call.status = "completed" /\ call.resume = "returned" /\ call.full
  BY PersistStepMoves, CallStatus DEF DumpInv
<1>2. UNCHANGED raws
  BY PersistStepKeeps
<1>3. CASE WriteState
  <2>1. pc' = "write_partial" /\ state' # NoDocument /\ state'.status = "completed"
    BY <1>1, <1>3, DocumentsWritten DEF WriteState
  <2> QED BY <1>1, <2>1 DEF DumpInv
<1>4. CASE WritePartial
  <2>1. /\ pc = "write_partial" /\ pc' = "write_raw_reference" /\ state' = state
        /\ partial' # NoDocument /\ partial'.status = "completed"
    BY <1>1, <1>4, DocumentsWritten DEF WritePartial
  <2> QED BY <1>1, <2>1 DEF DumpInv
<1>5. CASE WriteRawReference
  <2>1. /\ pc = "write_raw_reference" /\ pc' = "write_raw_candidate"
        /\ state' = state /\ partial' = partial
        /\ rawReferenceFile' = rawReference /\ rawReference' = rawReference
    BY <1>2, <1>5 DEF WriteRawReference, raws
  <2> QED BY <1>1, <2>1 DEF DumpInv
<1>6. CASE WriteRawCandidate
  <2>1. /\ pc = "write_raw_candidate" /\ pc' = "returned"
        /\ state' = state /\ partial' = partial /\ rawReferenceFile' = rawReferenceFile
        /\ rawCandidateFile' = rawCandidate
        /\ rawReference' = rawReference /\ rawCandidate' = rawCandidate
    BY <1>1, <1>2, <1>6 DEF WriteRawCandidate, raws
  <2> QED BY <1>1, <2>1 DEF DumpInv, PersistPoints
<1> QED BY <1>3, <1>4, <1>5, <1>6 DEF PersistStep

LEMMA OthersDump ==
    ControlInv /\ DumpInv /\ (CaseStep \/ FrameStep \/ Fault \/ UNCHANGED vars) => DumpInv'
<1> SUFFICES ASSUME ControlInv, DumpInv, CaseStep \/ FrameStep \/ Fault \/ UNCHANGED vars,
                    At' = "returned"
             PROVE  DumpInv'
  BY DEF DumpInv
<1>1. ~CaseStep
  BY CaseMoves DEF CaseStep
<1>2. ~Fault
  BY FaultMoves DEF ClosingPoints
<1>3. CASE UNCHANGED vars
  BY <1>3 DEF DumpInv, At, vars, control, raws, dumps
<1>4. CASE FrameStep
  <2>1. JournalRunCompleted
    BY <1>4, FrameMoves DEF FrameStep
  <2>2. pc' = "write_state" /\ call'.full
    BY <2>1 DEF JournalRunCompleted, Persist
  <2> QED BY <2>2 DEF DumpInv
<1> QED BY <1>1, <1>2, <1>3, <1>4

LEMMA DumpCorrect == Spec => []DumpInv
<1>1. RunInv /\ DumpInv /\ [Next]_vars => DumpInv'
  BY PersistStepDump, OthersDump DEF Next, Progress, Ending, RunInv
<1> QED BY <1>1, InitDump, RunCorrect, PTL DEF Spec

\* The state file never claims more than the run has done, and a call of evaluate
\* that returns leaves a completed partial result and both raw dumps whole
\* (StateFileHonest): persist comes after what it reports.
THEOREM StateFileIsHonest == Spec => []StateFileHonest
<1>1. RunInv /\ TailInv /\ StateInv /\ RowsInv /\ DumpInv => StateFileHonest
  <2> SUFFICES ASSUME RunInv, StateInv, RowsInv, DumpInv, pc = "returned"
               PROVE  /\ state.status = "completed"
                      /\ partial.status = "completed"
                      /\ Whole(rawReferenceFile, referenceLog)
                      /\ Whole(rawCandidateFile, candidateLog)
    BY DEF StateFileHonest, StateInv
  <2>1. At = "returned"
    BY DEF At, PersistPoints
  <2>2. /\ state.status = "completed" /\ partial.status = "completed"
        /\ rawReferenceFile = rawReference /\ rawCandidateFile = rawCandidate
    BY <2>1 DEF DumpInv
  <2>3. rawReference # NoDocument /\ rawCandidate # NoDocument
    BY DocumentsWritten DEF RunInv
  <2>4. /\ \A i \in DOMAIN referenceLog :
             rawReference[referenceLog[i].case_id] = referenceLog[i].observation
        /\ \A i \in DOMAIN candidateLog :
             rawCandidate[candidateLog[i].case_id] = candidateLog[i].observation
    BY DEF RowsInv, LoggedOf
  <2> QED BY <2>2, <2>3, <2>4 DEF Whole
<1> QED
  BY <1>1, RunCorrect, TailCorrect, StateCorrect, RowsCorrect, DumpCorrect, PTL

-----------------------------------------------------------------------------
(* Layer 16: the partial result and the journal.                           *)

LEMMA DivMod ==
    ASSUME NEW n \in Int, NEW m \in Int, m > 0
    PROVE  n = m * (n \div m) + (n % m) /\ n \div m \in Int /\ n % m \in 0 .. m - 1
OBVIOUS

LEMMA ModIs ==
    ASSUME NEW n \in Nat, NEW m \in Nat \ {0}, NEW q \in Int, NEW r \in 0 .. m - 1,
           n = m * q + r
    PROVE  n % m = r
OBVIOUS

LEMMA ModNext ==
    ASSUME NEW n \in Nat, NEW m \in Nat \ {0}
    PROVE  (n + 1) % m = IF n % m = m - 1 THEN 0 ELSE (n % m) + 1
<1> DEFINE q == n \div m
           r == n % m
<1>1. n = m * q + r /\ q \in Int /\ r \in 0 .. m - 1
  BY DivMod
<1> HIDE DEF q, r
<1>2. CASE r = m - 1
  <2>1. n + 1 = m * (q + 1) + 0 /\ q + 1 \in Int /\ 0 \in 0 .. m - 1
    BY <1>1, <1>2
  <2>2. (n + 1) % m = 0
    BY <2>1, ModIs
  <2> QED BY <1>2, <2>2 DEF r
<1>3. CASE r # m - 1
  <2>1. n + 1 = m * q + (r + 1) /\ r + 1 \in 0 .. m - 1
    BY <1>1, <1>3
  <2>2. (n + 1) % m = r + 1
    BY <1>1, <2>1, ModIs
  <2> QED BY <1>3, <2>2 DEF r
<1> QED BY <1>2, <1>3

LEMMA MaxFacts ==
    ASSUME NEW n \in Int
    PROVE  Max({1, n}) \in Int /\ Max({1, n}) >= 1 /\ Max({1, n}) >= n
BY DEF Max

\* How far the run is past the last position that was a checkpoint.
Phase == position % CheckpointEvery

LEMMA PhaseFacts ==
    ASSUME position \in Nat
    PROVE  /\ CheckpointEvery \in Nat /\ CheckpointEvery >= 1
           /\ Phase \in 0 .. CheckpointEvery - 1
           /\ position' = position => Phase' = Phase
           /\ position' = position + 1 =>
                Phase' = IF Phase = CheckpointEvery - 1 THEN 0 ELSE Phase + 1
<1>1. CheckpointEvery \in Nat \ {0}
  BY CheckpointAssumption
<1>2. position % CheckpointEvery \in 0 .. CheckpointEvery - 1
  BY <1>1, DivMod
<1>3. (position + 1) % CheckpointEvery =
        IF position % CheckpointEvery = CheckpointEvery - 1 THEN 0
        ELSE (position % CheckpointEvery) + 1
  BY <1>1, ModNext
<1> QED BY <1>1, <1>2, <1>3 DEF Phase

LagCases ==
    Lag = IF Phase # 0 THEN Phase
          ELSE IF \/ At = "journal_started"
                  \/ At = "check_supports" /\ pc \in {"write_state", "write_partial"}
               THEN CheckpointEvery
          ELSE IF At \in CasePoints \/ pc \in {"write_state", "write_partial"} THEN 1 ELSE 0

LEMMA LagIs == LagCases /\ LagCases'
BY DEF LagCases, Lag, Phase

\* The journal's decided cases are the first JournaledTo ones.
LEMMA DecidedFinite ==
    ASSUME TypeOK
    PROVE  Decided \subseteq 1 .. Len(journal) /\ IsFiniteSet(Decided)
             /\ Cardinality(Decided) \in Nat
<1>1. Len(journal) \in Nat /\ DOMAIN journal = 1 .. Len(journal)
  BY DEF TypeOK
<1>2. Decided \subseteq 1 .. Len(journal)
  BY <1>1 DEF Decided
<1>3. IsFiniteSet(1 .. Len(journal))
  BY <1>1, FS_Interval
<1> QED BY <1>2, <1>3, FS_Subset, FS_CardinalityType

LEMMA DecidedCount ==
    ASSUME TypeOK, PositionInv, JournalInv, Live
    PROVE  Cardinality(Decided) = JournaledTo /\ JournaledTo \in Nat
<1>1. JournaledTo \in Nat /\ position \in Nat
  BY SelectedFacts DEF PositionInv, JournaledTo
<1>2. \A k \in Decided : journal[k].position \in 1 .. position
                           /\ journal[k].position <= JournaledTo
  BY DEF JournalInv
<1>3. \A k, l \in Decided : journal[k].position = journal[l].position => k = l
  BY DEF JournalInv
<1>4. \A p \in 1 .. JournaledTo : \E k \in Decided : journal[k].position = p
  BY DEF JournalInv
<1> DEFINE D == Decided
           P == 1 .. JournaledTo
           f == [k \in D |-> journal[k].position]
<1> HIDE DEF D
<1>5. \A k \in D : f[k] = journal[k].position /\ f[k] \in P
  BY <1>1, <1>2 DEF D
<1>6. f \in [D -> P]
  BY <1>5
<1>7. \A k, l \in D : f[k] = f[l] => k = l
  BY <1>3, <1>5 DEF D
<1>8. \A p \in P : \E k \in D : f[k] = p
  BY <1>4, <1>5 DEF D
<1>9. IsFiniteSet(P) /\ Cardinality(P) = JournaledTo
  BY <1>1, FS_Interval
<1> HIDE DEF f, P
<1>10. f \in Injection(D, P) /\ f \in Surjection(D, P)
  BY <1>6, <1>7, <1>8 DEF Injection, IsInjective, Surjection
<1>11. Cardinality(D) = Cardinality(P)
  BY <1>9, <1>10, FS_Injection
<1> QED BY <1>1, <1>9, <1>11 DEF D

LEMMA ToldBounds ==
    ASSUME TypeOK, PositionInv, TallyInv, JournalInv, Live
    PROVE  Cardinality(Decided) <= Told /\ Told <= Cardinality(Decided) + 1
<1>1. Cardinality(Decided) = JournaledTo /\ position \in Nat
  BY DecidedCount, SelectedFacts DEF PositionInv
<1>2. Told = IF At \in UndecidedPoints THEN position - 1 ELSE position
  BY DEF TallyInv, Told
<1>3. At \in UndecidedPoints => At \in CasePoints
  BY DEF UndecidedPoints
<1> QED BY <1>1, <1>2, <1>3 DEF JournaledTo

\* Outside the loop over the cases no outcome is journaled.
LEMMA DecidedKept ==
    ASSUME TypeOK, PersistStep \/ Fault \/ FrameStep \/ UNCHANGED vars
    PROVE  Decided' = Decided
<1>1. CASE UNCHANGED journal
  BY <1>1 DEF Decided
<1>2. CASE journal' # journal
  <2>1. JournalRunStarted \/ JournalRunFailed \/ JournalRunCompleted
    BY <1>2, PersistStepKeeps, FaultKeeps
       DEF FrameStep, OpenReference, OpenCandidate, CloseReference, CloseCandidate, Publish, vars
  <2>2. PICK event \in {"run_started", "run_failed", "run_completed"} :
          \E info : Record(event, info)
    BY <2>1 DEF JournalRunStarted, JournalRunFailed, JournalRunCompleted
  <2>3. PICK info : Record(event, info)
    BY <2>2
  <2> DEFINE row == [event |-> event, position |-> position, case_id |-> current, info |-> info]
  <2>4. journal' = Append(journal, row) /\ journal \in Seq(JournalRow \cup {row})
    BY <2>3 DEF Record, TypeOK
  <2>5. row.event \notin {"case_completed", "case_unsupported"}
    BY <2>2
  <2> HIDE DEF row
  <2>6. /\ Len(journal) \in Nat /\ DOMAIN journal = 1 .. Len(journal)
        /\ DOMAIN journal' = 1 .. Len(journal) + 1
        /\ journal'[Len(journal) + 1] = row
        /\ \A i \in 1 .. Len(journal) : journal'[i] = journal[i]
    BY <2>4, AppendFacts
  <2> QED BY <2>5, <2>6 DEF Decided
<1> QED BY <1>1, <1>2

\* What holds of the next state too, while nothing has failed.
Counted ==
    /\ Cardinality(Decided) = JournaledTo
    /\ Cardinality(Decided) <= Told
    /\ Told <= Cardinality(Decided) + 1

LEMMA CountedNext ==
    /\ RunInv /\ Live => Counted
    /\ RunInv' /\ Live' => Counted'
<1>1. RunInv /\ Live => Counted
  BY DecidedCount, ToldBounds DEF RunInv, Counted
<1> QED BY <1>1, PTL

LEMMA SumType == ASSUME NEW m \in Nat, NEW n \in Nat PROVE m + n \in Nat
OBVIOUS

LEMMA KnownType ==
    ASSUME TypeOK
    PROVE  /\ partial # NoDocument => Known \in Nat
           /\ Told \in Nat /\ position \in Nat
<1>1. partial # NoDocument => partial \in PartialDocument
  BY DEF TypeOK
<1>2. Told \in Nat /\ position \in Nat
  BY SelectedFacts DEF TypeOK, Told
<1>3. partial # NoDocument => Len(partial.cases) \in Nat /\ Len(partial.unsupported) \in Nat
  BY <1>1 DEF PartialDocument
<1>4. ASSUME partial # NoDocument PROVE Known \in Nat
  <2>1. Len(partial.cases) \in Nat /\ Len(partial.unsupported) \in Nat
    BY <1>3, <1>4
  <2>2. Len(partial.cases) + Len(partial.unsupported) \in Nat
    BY <2>1, SumType
  <2> QED BY <2>2 DEF Known
<1> QED BY <1>2, <1>4

LEMMA InitLag == Init => LagInv
<1> SUFFICES ASSUME Init PROVE LagInv
  OBVIOUS
<1>1. /\ pc \notin PersistPoints /\ partial = NoDocument
  BY DEF Init, PersistPoints
<1>2. Decided = {} /\ Told = 0
  BY DEF Init, Decided, Told
<1>3. Cardinality({}) = 0
  BY FS_EmptySet
<1> QED BY <1>1, <1>2, <1>3 DEF LagInv

\* A persist call at a checkpoint position writes everything.
FullCall == pc \in PersistPoints /\ Phase = 0 => call.full

LEMMA LagSplit ==
    LagInv <=> /\ FullCall
               /\ Live /\ partial # NoDocument => position - Lag <= Known
               /\ Cardinality(Decided) <= Told
               /\ Told <= Cardinality(Decided) + 1
BY DEF LagInv, FullCall, Phase

LEMMA PersistFull ==
    ASSUME NEW status, NEW checkpoint, NEW resume, Persist(status, checkpoint, resume),
           position' = position
    PROVE  FullCall'
BY DEF Persist, FullCall, Phase

LEMMA FullCallKept == TypeOK /\ ControlInv /\ FullCall /\ [Next]_vars => FullCall'
<1> SUFFICES ASSUME TypeOK, ControlInv, FullCall, [Next]_vars PROVE FullCall'
  OBVIOUS
<1>1. CASE PersistStep
  BY <1>1, PersistStepMoves, PersistStepKeeps DEF FullCall, Phase, progress
<1>2. CASE UNCHANGED vars
  BY <1>2 DEF FullCall, Phase, vars, control, progress
<1>3. CASE JournalStarted \/ JournalUnsupported \/ JournalReference \/ JournalCompleted
             \/ JournalRunStarted \/ OpenCandidate \/ JournalRunFailed \/ JournalRunCompleted
  <2>1. position' = position
    BY <1>3 DEF JournalStarted, JournalUnsupported, JournalReference, JournalCompleted,
                JournalRunStarted, OpenCandidate, JournalRunFailed, JournalRunCompleted, progress
  <2>2. \E status, checkpoint, resume : Persist(status, checkpoint, resume)
    BY <1>3 DEF JournalStarted, JournalUnsupported, JournalReference, JournalCompleted,
                JournalRunStarted, OpenCandidate, JournalRunFailed, JournalRunCompleted
  <2> QED BY <2>1, <2>2, PersistFull
<1>4. CASE Fault
  <2>1. pc' \notin PersistPoints
    BY <1>4, FaultTargets DEF PersistPoints
  <2> QED BY <2>1 DEF FullCall
<1>5. CASE NextCase \/ Supported \/ Unsupported \/ ExecuteReference \/ LogReference
             \/ ExecuteCandidate \/ LogCandidate \/ JournalCandidate \/ Compare
             \/ OpenReference \/ CloseReference \/ CloseCandidate \/ Publish
  <2>1. pc' \notin PersistPoints
    BY <1>5 DEF NextCase, Supported, Unsupported, ExecuteReference, LogReference,
                ExecuteCandidate, LogCandidate, JournalCandidate, Compare,
                OpenReference, CloseReference, CloseCandidate, Publish, PersistPoints
  <2> QED BY <2>1 DEF FullCall
<1> QED
  BY <1>1, <1>2, <1>3, <1>4, <1>5 DEF Next, Progress, Ending, CaseStep, FrameStep

\* A larger allowance keeps the bound.
LEMMA Later ==
    ASSUME NEW at \in Int, NEW lag \in Int, NEW more \in Int, NEW known \in Int,
           at - lag <= known, lag <= more
    PROVE  at - more <= known
OBVIOUS

\* While nothing has failed, how late the partial result may be grows with the
\* position and falls when it is written.
LateKept == Live /\ partial # NoDocument => position - Lag <= Known

LEMMA PersistStepLate ==
    RunInv /\ LagInv /\ PersistStep => LateKept'
<1> SUFFICES ASSUME RunInv, LagInv, PersistStep, Live', (partial # NoDocument)'
             PROVE  position' - Lag' <= Known'
  BY DEF LateKept
<1>0. TypeOK /\ ControlInv /\ PositionInv /\ TallyInv
  BY DEF RunInv
<1>1. /\ pc \in PersistPoints /\ At' = At /\ position' = position
      /\ caseResults' = caseResults /\ unsupported' = unsupported /\ Live
  BY <1>0, PersistStepMoves, PersistStepKeeps DEF progress, results, Live
<1>2. position \in Nat /\ CheckpointEvery >= 1 /\ Phase \in 0 .. CheckpointEvery - 1
      /\ Phase' = Phase /\ CheckpointEvery \in Nat
  BY <1>0, <1>1, KnownType, PhaseFacts
<1>3. FullCall /\ (partial # NoDocument => position - Lag <= Known)
  BY <1>1, LagSplit
<1>4. Lag = IF Phase # 0 THEN Phase
            ELSE IF \/ At = "journal_started"
                    \/ At = "check_supports" /\ pc \in {"write_state", "write_partial"}
                 THEN CheckpointEvery
            ELSE IF At \in CasePoints \/ pc \in {"write_state", "write_partial"} THEN 1 ELSE 0
  BY LagIs DEF LagCases
<1>5. Lag' = IF Phase # 0 THEN Phase
             ELSE IF \/ At = "journal_started"
                     \/ At = "check_supports" /\ pc' \in {"write_state", "write_partial"}
                  THEN CheckpointEvery
             ELSE IF At \in CasePoints \/ pc' \in {"write_state", "write_partial"} THEN 1 ELSE 0
  BY <1>1, <1>2 DEF Lag, Phase
<1>6. CASE WriteState
  <2>1. partial' = partial /\ pc = "write_state"
        /\ pc' = IF call.full THEN "write_partial" ELSE call.resume
    BY <1>6 DEF WriteState, dumps
  <2>2. Lag' = Lag
    BY <1>1, <1>3, <1>4, <1>5, <2>1 DEF FullCall
  <2> QED BY <1>1, <1>3, <2>1, <2>2 DEF Known
<1>7. CASE WritePartial
  <2>1. /\ pc' = "write_raw_reference"
        /\ partial'.cases = caseResults /\ partial'.unsupported = unsupported
    BY <1>7 DEF WritePartial
  <2>2. Known' = Told
    BY <2>1 DEF Known, Told
  <2>3. Told = IF At \in UndecidedPoints THEN position - 1 ELSE position
    BY <1>0, <1>1 DEF TallyInv, Told
  <2>4. At \in UndecidedPoints => At \in CasePoints
    BY DEF UndecidedPoints
  <2>5. Lag' \in Nat /\ (At \in CasePoints => Lag' >= 1)
    BY <1>2, <1>5
  <2> DEFINE late == Lag'
  <2>6. late \in Nat /\ (At \in CasePoints => late >= 1)
    BY <2>5
  <2>7. late = Lag'
    OBVIOUS
  <2> HIDE DEF late
  <2>8. position - late <= Told
    BY <1>2, <2>3, <2>4, <2>6
  <2> QED BY <1>1, <2>2, <2>7, <2>8
<1>8. CASE WriteRawReference \/ WriteRawCandidate
  <2>1. /\ partial' = partial
        /\ pc \in {"write_raw_reference", "write_raw_candidate"}
        /\ pc' \in {"write_raw_candidate", call.resume}
    BY <1>8 DEF WriteRawReference, WriteRawCandidate
  <2>2. call.resume \notin {"write_state", "write_partial"}
    BY <1>0, <1>1 DEF ControlInv, PersistCalls
  <2>3. Lag' = Lag
    BY <1>4, <1>5, <2>1, <2>2
  <2> QED BY <1>1, <1>3, <2>1, <2>3 DEF Known
<1> QED BY <1>6, <1>7, <1>8 DEF PersistStep

LEMMA FrameStepLate ==
    RunInv /\ LagInv /\ FrameStep => LateKept'
<1> SUFFICES ASSUME RunInv, LagInv, FrameStep, Live', (partial # NoDocument)'
             PROVE  position' - Lag' <= Known'
  BY DEF LateKept
<1>0. TypeOK /\ ControlInv /\ PositionInv
  BY DEF RunInv
<1>1. /\ position' = position /\ partial' = partial
  BY DEF FrameStep, JournalRunStarted, OpenReference, OpenCandidate, JournalRunFailed,
         CloseReference, CloseCandidate, Publish, JournalRunCompleted, progress, dumps
<1>2. Live /\ At \notin CasePoints /\ pc \notin PersistPoints
  BY <1>0, FrameMoves
     DEF FrameStep, JournalRunStarted, OpenReference, OpenCandidate, JournalRunFailed,
         CloseReference, CloseCandidate, Publish, JournalRunCompleted, PersistPoints,
         CasePoints, LoopPoints
<1>3. position \in Nat /\ CheckpointEvery >= 1 /\ Phase \in 0 .. CheckpointEvery - 1
      /\ Phase' = Phase /\ CheckpointEvery \in Nat /\ Known \in Nat
  BY <1>0, <1>1, KnownType, PhaseFacts
<1>4. Lag = IF Phase # 0 THEN Phase ELSE 0
  BY <1>2, LagIs DEF LagCases, CasePoints, LoopPoints, PersistPoints
<1>5. Lag' \in Nat /\ (Phase # 0 => Lag' = Phase)
  BY <1>3 DEF Lag, Phase
<1>6. Known' = Known /\ position - Lag <= Known
  BY <1>1, <1>2, LagSplit DEF Known
<1>7. Lag \in Nat /\ Lag <= Lag'
  BY <1>3, <1>4, <1>5
<1> DEFINE late == Lag'
<1>8. late \in Nat /\ Lag <= late
  BY <1>5, <1>7
<1>9. late = Lag'
  OBVIOUS
<1> HIDE DEF late
<1>10. position - late <= Known
  BY <1>3, <1>6, <1>7, <1>8, Later
<1> QED BY <1>1, <1>6, <1>9, <1>10

LEMMA CaseStepLate ==
    RunInv /\ LagInv /\ CaseStep => LateKept'
<1> SUFFICES ASSUME RunInv, LagInv, CaseStep, Live', (partial # NoDocument)'
             PROVE  position' - Lag' <= Known'
  BY DEF LateKept
<1>0. TypeOK /\ ControlInv /\ Live
  BY CaseMoves DEF RunInv
<1>1. partial' = partial /\ Known' = Known
  BY CaseStepDocuments DEF dumps, Known
<1>2. /\ position \in Nat /\ CheckpointEvery >= 1 /\ Phase \in 0 .. CheckpointEvery - 1
      /\ CheckpointEvery \in Nat /\ Known \in Nat
      /\ position' = position => Phase' = Phase
      /\ position' = position + 1 =>
           Phase' = IF Phase = CheckpointEvery - 1 THEN 0 ELSE Phase + 1
  BY <1>0, <1>1, KnownType, PhaseFacts
<1>3. position - Lag <= Known
  BY <1>0, <1>1, LagSplit
<1>4. Lag = IF Phase # 0 THEN Phase
            ELSE IF \/ At = "journal_started"
                    \/ At = "check_supports" /\ pc \in {"write_state", "write_partial"}
                 THEN CheckpointEvery
            ELSE IF At \in CasePoints \/ pc \in {"write_state", "write_partial"} THEN 1 ELSE 0
  BY LagIs DEF LagCases
<1>5. Lag' = IF Phase' # 0 THEN Phase'
             ELSE IF \/ At' = "journal_started"
                     \/ At' = "check_supports" /\ pc' \in {"write_state", "write_partial"}
                  THEN CheckpointEvery
             ELSE IF At' \in CasePoints \/ pc' \in {"write_state", "write_partial"} THEN 1 ELSE 0
  BY LagIs DEF LagCases
<1>6. CASE NextCase
  <2>1. /\ At = "next_case" /\ pc = "next_case"
        /\ \/ At' = "journal_started" /\ position' = position + 1
           \/ At' = "close_reference" /\ position' = position
    BY <1>0, <1>6, CaseMoves DEF NextCase, progress
  <2>2. Lag = Phase
    BY <1>4, <2>1 DEF CasePoints, LoopPoints
  <2>3. CASE At' = "journal_started" /\ position' = position + 1
    <3>1. Lag' = Lag + 1
      BY <1>2, <1>5, <2>2, <2>3
    <3> QED BY <1>1, <1>2, <1>3, <2>2, <2>3, <3>1
  <2>4. CASE At' = "close_reference" /\ position' = position
    <3>1. Lag <= Lag' /\ Lag' \in Nat /\ Lag \in Nat
      BY <1>2, <1>5, <2>2, <2>4
    <3> DEFINE late == Lag'
    <3>2. Lag \in Nat /\ Lag <= late /\ late \in Nat
      BY <3>1
    <3>3. late = Lag'
      OBVIOUS
    <3> HIDE DEF late
    <3>4. position - late <= Known
      BY <1>2, <1>3, <3>2, Later
    <3> QED BY <1>1, <2>4, <3>3, <3>4
  <2> QED BY <2>1, <2>3, <2>4
<1>7. CASE ~NextCase
  <2>1. position' = position
    BY <1>7 DEF CaseStep, JournalStarted, Supported, Unsupported, JournalUnsupported,
                ExecuteReference, LogReference, JournalReference, ExecuteCandidate, LogCandidate,
                JournalCandidate, Compare, JournalCompleted, progress
  <2>2. At \in CasePoints /\ pc \notin {"write_state", "write_partial"}
    BY <1>0, <1>7, CaseMoves
       DEF CaseStep, JournalStarted, Supported, Unsupported, JournalUnsupported,
           ExecuteReference, LogReference, JournalReference, ExecuteCandidate, LogCandidate,
           JournalCandidate, Compare, JournalCompleted, CasePoints, LoopPoints
  <2>3. Lag = IF Phase # 0 THEN Phase
              ELSE IF At = "journal_started" THEN CheckpointEvery ELSE 1
    BY <1>4, <2>2
  <2>4. CASE JournalStarted
    <3>1. At = "journal_started" /\ At' = "check_supports" /\ pc' = "write_state"
      BY <1>0, <2>4, CaseMoves DEF JournalStarted, Persist
    <3>2. Lag' = Lag
      BY <1>2, <1>5, <2>1, <2>3, <3>1
    <3> QED BY <1>1, <1>3, <2>1, <3>2
  <2>5. CASE ~JournalStarted
    <3>1. At # "journal_started" /\ (At' \in CasePoints \/ pc' = "write_state")
      BY <1>0, <1>7, <2>5, CaseMoves
         DEF CaseStep, JournalUnsupported, JournalCompleted, Persist, CasePoints, LoopPoints
    <3>2. Lag <= Lag' /\ Lag' \in Nat /\ Lag \in Nat
      BY <1>2, <1>5, <2>1, <2>3, <3>1
    <3> DEFINE late == Lag'
    <3>3. Lag \in Nat /\ Lag <= late /\ late \in Nat
      BY <3>2
    <3>4. late = Lag'
      OBVIOUS
    <3> HIDE DEF late
    <3>5. position - late <= Known
      BY <1>2, <1>3, <3>3, Later
    <3> QED BY <1>1, <2>1, <3>4, <3>5
  <2> QED BY <2>4, <2>5
<1> QED BY <1>6, <1>7

LEMMA LagCorrect == Spec => []LagInv
<1>1. RunInv /\ RunInv' /\ LagInv /\ [Next]_vars => LagInv'
  <2> SUFFICES ASSUME RunInv, RunInv', LagInv, [Next]_vars PROVE LagInv'
    OBVIOUS
  <2>1. FullCall'
    BY FullCallKept, LagSplit DEF RunInv
  <2>2. LateKept'
    <3>1. CASE Fault
      BY <3>1, FaultMoves DEF LateKept, RunInv
    <3>2. CASE UNCHANGED vars
      BY <3>2, LagSplit
         DEF LateKept, Live, Lag, At, Known, vars, control, progress, dumps
    <3> QED BY <3>1, <3>2, PersistStepLate, CaseStepLate, FrameStepLate
            DEF Next, Progress, Ending
  <2>3. (Cardinality(Decided) <= Told /\ Told <= Cardinality(Decided) + 1)'
    <3>1. CASE Live'
      BY <3>1, CountedNext DEF Counted
    <3>2. CASE ~Live'
      <4>1. PersistStep \/ Fault \/ FrameStep \/ UNCHANGED vars
        BY <3>2, CaseMoves DEF Next, Progress, Ending, RunInv
      <4>2. Decided' = Decided
        BY <4>1, DecidedKept DEF RunInv
      <4>3. UNCHANGED results
        BY <4>1, PersistStepKeeps, FaultKeeps
           DEF FrameStep, JournalRunStarted, OpenReference, OpenCandidate, JournalRunFailed,
               CloseReference, CloseCandidate, Publish, JournalRunCompleted, vars
      <4>4. Told' = Told
        BY <4>3 DEF Told, results
      <4> QED BY <4>2, <4>4 DEF LagInv
    <3> QED BY <3>1, <3>2
  <2>4. LagInv' <=> /\ FullCall' /\ LateKept'
                    /\ (Cardinality(Decided) <= Told)'
                    /\ (Told <= Cardinality(Decided) + 1)'
    BY DEF LagInv, FullCall, Phase, LateKept
  <2> QED BY <2>1, <2>2, <2>3, <2>4
<1> QED BY <1>1, InitLag, RunCorrect, PTL DEF Spec

\* The two halves of PartialLagBounded.
Allowance == Max({1, CheckpointEvery - 1})

NotBehind == partial # NoDocument => Cardinality(Decided) <= Known + Allowance

NotAhead == partial # NoDocument => Known <= Cardinality(Decided) + 1

LEMMA LagBoundSplit == PartialLagBounded <=> NotBehind /\ NotAhead
BY DEF PartialLagBounded, NotBehind, NotAhead, Known, Allowance

LEMMA AllowanceFacts ==
    Allowance \in Int /\ Allowance >= 1 /\ Allowance >= CheckpointEvery - 1
<1>1. CheckpointEvery - 1 \in Int
  BY CheckpointAssumption
<1> DEFINE n == CheckpointEvery - 1
<1> HIDE DEF n
<1>2. Max({1, n}) \in Int /\ Max({1, n}) >= 1 /\ Max({1, n}) >= n
  BY <1>1, MaxFacts DEF n
<1> QED BY <1>2 DEF Allowance, n

LEMMA LiveIsNotBehind == RunInv /\ LagInv /\ Live => NotBehind
<1> SUFFICES ASSUME RunInv, LagInv, Live, partial # NoDocument
             PROVE  Cardinality(Decided) <= Known + Allowance
  BY DEF NotBehind
<1>0. TypeOK /\ PositionInv /\ JournalInv
  BY DEF RunInv
<1>1. Cardinality(Decided) = JournaledTo
  BY <1>0, DecidedCount
<1>2. position \in Nat /\ Known \in Nat
  BY <1>0, KnownType
<1>3. CheckpointEvery \in Nat /\ CheckpointEvery >= 1 /\ Phase \in 0 .. CheckpointEvery - 1
  BY <1>2, PhaseFacts
<1>4. position - Lag <= Known
  BY LagSplit
<1>5. Lag = IF Phase # 0 THEN Phase
            ELSE IF \/ At = "journal_started"
                    \/ At = "check_supports" /\ pc \in {"write_state", "write_partial"}
                 THEN CheckpointEvery
            ELSE IF At \in CasePoints \/ pc \in {"write_state", "write_partial"} THEN 1 ELSE 0
  BY LagIs DEF LagCases
<1>6. At \in {"journal_started", "check_supports"} => At \in CasePoints
  BY DEF CasePoints, LoopPoints
<1>7. Allowance \in Int /\ Allowance >= 1 /\ Allowance >= CheckpointEvery - 1
  BY AllowanceFacts
<1>8. \/ Lag \in Nat /\ Lag <= Allowance /\ JournaledTo <= position
      \/ Lag = CheckpointEvery /\ JournaledTo = position - 1
  BY <1>2, <1>3, <1>5, <1>6, <1>7 DEF JournaledTo
<1>9. JournaledTo \in Int
  BY <1>2 DEF JournaledTo
<1> HIDE DEF Allowance
<1> QED BY <1>1, <1>2, <1>3, <1>4, <1>7, <1>8, <1>9

LEMMA NextIsNotBehind == RunInv' /\ LagInv' /\ Live' => NotBehind'
BY LiveIsNotBehind, PTL

LEMMA DecidedNatural == RunInv' => (Cardinality(Decided) \in Nat)'
<1>1. RunInv => Cardinality(Decided) \in Nat
  BY DecidedFinite DEF RunInv
<1> QED BY <1>1, PTL

\* Journaling never takes an outcome back.
LEMMA DecidedGrows ==
    RunInv /\ RunInv' /\ [Next]_vars => Cardinality(Decided) <= Cardinality(Decided')
<1> SUFFICES ASSUME RunInv, RunInv', [Next]_vars
             PROVE  Cardinality(Decided) <= Cardinality(Decided')
  OBVIOUS
<1>1. TypeOK /\ ControlInv /\ Cardinality(Decided) \in Nat
  BY DecidedFinite DEF RunInv
<1>2. CASE PersistStep \/ Fault \/ FrameStep \/ UNCHANGED vars
  BY <1>1, <1>2, DecidedKept
<1>3. CASE CaseStep
  <2>1. Live /\ Live'
    BY <1>1, <1>3, CaseMoves
  <2>2. Cardinality(Decided) = JournaledTo /\ Cardinality(Decided') = JournaledTo'
    BY <2>1, CountedNext DEF Counted
  <2>3. position \in Nat
    BY <1>1, KnownType
  <2>4. CASE NextCase
    <3>1. At = "next_case" /\ (\/ At' = "journal_started" /\ position' = position + 1
                               \/ At' = "close_reference" /\ position' = position)
      BY <1>1, <2>4, CaseMoves DEF NextCase, progress
    <3>2. JournaledTo = position /\ JournaledTo' = position
      BY <2>3, <3>1 DEF JournaledTo, CasePoints, LoopPoints
    <3> QED BY <2>2, <2>3, <3>2
  <2>5. CASE ~NextCase
    <3>1. position' = position /\ At \in CasePoints
      BY <1>1, <1>3, <2>5, CaseMoves
         DEF CaseStep, JournalStarted, Supported, Unsupported, JournalUnsupported,
             ExecuteReference, LogReference, JournalReference, ExecuteCandidate, LogCandidate,
             JournalCandidate, Compare, JournalCompleted, CasePoints, LoopPoints, progress
    <3>2. JournaledTo = position - 1 /\ JournaledTo' \in {position - 1, position}
      BY <3>1 DEF JournaledTo
    <3> QED BY <2>2, <2>3, <3>2
  <2> QED BY <2>4, <2>5
<1> QED BY <1>2, <1>3 DEF Next, Progress, Ending

\* Who writes partial.result.json.
LEMMA PartialWritten ==
    [Next]_vars => partial' = partial \/ (WritePartial /\ Known' = Told)
<1>1. WritePartial => Known' = Told
  BY DEF WritePartial, Known, Told
<1>2. CaseStep \/ FrameStep \/ Fault \/ UNCHANGED vars => partial' = partial
  BY CaseStepDocuments, FrameStepDocuments, FaultKeeps DEF dumps, vars
<1>3. WriteState \/ WriteRawReference \/ WriteRawCandidate => partial' = partial
  BY DEF WriteState, WriteRawReference, WriteRawCandidate, dumps
<1> QED BY <1>1, <1>2, <1>3 DEF Next, Progress, Ending, PersistStep

LEMMA AheadKept ==
    RunInv /\ RunInv' /\ LagInv /\ NotAhead /\ [Next]_vars => NotAhead'
<1> SUFFICES ASSUME RunInv, RunInv', LagInv, NotAhead, [Next]_vars, (partial # NoDocument)'
             PROVE  Known' <= Cardinality(Decided') + 1
  BY DEF NotAhead
<1>1. TypeOK /\ Cardinality(Decided) \in Nat /\ Told \in Nat
  BY DecidedFinite, KnownType DEF RunInv
<1> DEFINE was == Cardinality(Decided)
           is == Cardinality(Decided')
<1>2. was <= is
  BY DecidedGrows
<1>3. is \in Nat
  BY DecidedNatural
<1>4. CASE partial' = partial
  <2> DEFINE known == Known
  <2>1. Known' = known /\ known <= was + 1 /\ known \in Nat
    BY <1>1, <1>4, KnownType DEF Known, NotAhead
  <2>2. was \in Nat
    BY <1>1
  <2> HIDE DEF known, was, is
  <2>3. known <= is + 1
    BY <1>2, <1>3, <2>1, <2>2
  <2> QED BY <2>1, <2>3 DEF is
<1>5. CASE WritePartial /\ Known' = Told
  <2>1. Told <= was + 1
    BY DEF LagInv
  <2>2. was \in Nat
    BY <1>1
  <2> HIDE DEF was, is
  <2>3. Told <= is + 1
    BY <1>1, <1>2, <1>3, <2>1, <2>2
  <2> QED BY <1>5, <2>3 DEF is
<1> QED BY <1>4, <1>5, PartialWritten

LEMMA BehindKept ==
    /\ RunInv /\ RunInv' /\ LagInv /\ LagInv' /\ NotBehind /\ [Next]_vars
    => NotBehind'
<1> SUFFICES ASSUME RunInv, RunInv', LagInv, LagInv', NotBehind, [Next]_vars
             PROVE  NotBehind'
  OBVIOUS
<1>1. CASE Live'
  BY <1>1, NextIsNotBehind
<1>2. CASE ~Live'
  <2>1. PersistStep \/ Fault \/ FrameStep \/ UNCHANGED vars
    BY <1>2, CaseMoves DEF Next, Progress, Ending, RunInv
  <2>2. Decided' = Decided
    BY <2>1, DecidedKept DEF RunInv
  <2>3. CASE partial' = partial
    BY <2>2, <2>3 DEF NotBehind, Known, Allowance
  <2>4. CASE WritePartial /\ Known' = Told
    <3>1. Cardinality(Decided) \in Nat /\ Told \in Nat /\ Cardinality(Decided) <= Told
      BY DecidedFinite, KnownType DEF RunInv, LagInv
    <3>2. Cardinality(Decided) <= Told + Allowance
      BY <3>1, AllowanceFacts
    <3> QED BY <2>2, <2>4, <3>2 DEF NotBehind, Allowance
  <2> QED BY <2>3, <2>4, PartialWritten
<1> QED BY <1>1, <1>2

\* The partial result on disk misses fewer than CheckpointEvery of the outcomes in
\* the journal and is at most one ahead of it (PartialLagBounded): persist writes it
\* on every CheckpointEvery-th position, whatever the interval, and when a run fails.
THEOREM PartialResultIsRecent == Spec => []PartialLagBounded
<1>1. Init => NotBehind /\ NotAhead
  BY DEF Init, NotBehind, NotAhead
<1>2. /\ RunInv /\ RunInv' /\ LagInv /\ LagInv' /\ NotBehind /\ NotAhead /\ [Next]_vars
      => NotBehind' /\ NotAhead'
  BY AheadKept, BehindKept
<1>3. PartialLagBounded <=> NotBehind /\ NotAhead
  BY LagBoundSplit
<1> QED BY <1>1, <1>2, <1>3, RunCorrect, LagCorrect, PTL DEF Spec

-----------------------------------------------------------------------------
(* evaluate implements the ledger.                                         *)

RowOf(event, c) ==
    \E k \in Decided : journal[k].event = event /\ journal[k].case_id = c

PassedRow(c) ==
    \E k \in Decided : /\ journal[k].event = "case_completed"
                       /\ journal[k].case_id = c
                       /\ journal[k].info = "passed"

\* The verdict on a case depends on the decided rows only.
RowVerdict(c) ==
    IF RowOf("case_unsupported", c) THEN "unsupported"
    ELSE IF PassedRow(c) THEN "passed"
    ELSE IF RowOf("case_completed", c) THEN "failed" ELSE "pending"

LEMMA VerdictFrom == \A c : JournalVerdict(c) = RowVerdict(c)
<1>1. \A c : /\ Journaled("case_unsupported", c) <=> RowOf("case_unsupported", c)
             /\ Journaled("case_completed", c) <=> RowOf("case_completed", c)
  BY DEF Journaled, RowOf, Decided
<1>2. \A c : PassedRow(c) <=>
               \E i \in DOMAIN journal : /\ journal[i].event = "case_completed"
                                         /\ journal[i].case_id = c
                                         /\ journal[i].info = "passed"
  BY DEF PassedRow, Decided
<1> QED BY <1>1, <1>2 DEF JournalVerdict, RowVerdict

Verdicts == [c \in Case |-> JournalVerdict(c)]

Report == IF output = NoDocument THEN NoDocument
          ELSE [c \in Case |-> ReportVerdict(output, c)]

LEMMA VerdictsFrom ==
    /\ Verdicts = [c \in Case |-> RowVerdict(c)]
    /\ Verdicts' = [c \in Case |-> RowVerdict(c)']
<1>1. Verdicts = [c \in Case |-> RowVerdict(c)]
  BY VerdictFrom DEF Verdicts
<1>2. (Verdicts = [c \in Case |-> RowVerdict(c)])'
  BY <1>1, PTL
<1> QED BY <1>1, <1>2

\* A step that decides no case leaves every verdict as it is.
LEMMA VerdictsKept ==
    ASSUME TypeOK, Undeciding
    PROVE  Verdicts' = Verdicts
<1>1. Decided' = Decided /\ \A k \in Decided : journal'[k] = journal[k]
  BY UndecidingFacts
<1>2. ASSUME NEW c \in Case PROVE RowVerdict(c)' = RowVerdict(c)
  <2>1. \A event : RowOf(event, c)' <=> RowOf(event, c)
    BY <1>1 DEF RowOf
  <2>2. PassedRow(c)' <=> PassedRow(c)
    BY <1>1 DEF PassedRow
  <2> QED BY <2>1, <2>2 DEF RowVerdict
<1> QED BY <1>2, VerdictsFrom

LEMMA InitLedger == Init => Journal!LedgerInit
<1> SUFFICES ASSUME Init PROVE Journal!LedgerInit
  OBVIOUS
<1>1. \A c : JournalVerdict(c) = "pending"
  BY DEF Init, JournalVerdict, Journaled
<1>2. output = NoDocument
  BY DEF Init
<1> QED BY <1>1, <1>2 DEF Journal!LedgerInit, Journal!Undecided, Journal!Case, Case

\* The row that decides the current case is the first and the only one about it,
\* and every case before it has its own.
LEMMA DecidingIsNext ==
    ASSUME TypeOK, ControlInv, PositionInv, HistoryInv, JournalInv,
           JournalUnsupported \/ JournalCompleted
    PROVE  /\ position \in DOMAIN Selected /\ current = Selected[position] /\ current \in Case
           /\ output = NoDocument
           /\ \A k \in Decided : journal[k].case_id # current
           /\ \A p \in 1 .. position - 1 : \E k \in Decided : journal[k].case_id = Selected[p]
<1>1. At \in CasePoints /\ Live
  BY CaseMoves DEF CasePoints, LoopPoints, CaseStep
<1>2. position \in 1 .. Len(Selected) /\ current = Selected[position] /\ position \in Nat
  BY <1>1, SelectedFacts DEF PositionInv
<1>3. output = NoDocument
  BY <1>1 DEF HistoryInv, PublishedPoints, CasePoints, LoopPoints
<1>4. JournaledTo = position - 1
  BY <1>1 DEF JournaledTo
<1>5. \A k \in Decided : /\ journal[k].position \in 1 .. position - 1
                         /\ journal[k].case_id = Selected[journal[k].position]
  BY <1>1, <1>2, <1>4 DEF JournalInv
<1>6. \A k \in Decided : journal[k].case_id # current
  BY <1>2, <1>5, SelectedFacts
<1>7. \A p \in 1 .. position - 1 : \E k \in Decided : journal[k].case_id = Selected[p]
  BY <1>1, <1>4, <1>5 DEF JournalInv
<1>8. DOMAIN Selected = 1 .. Len(Selected)
  BY SelectedAssumption
<1> QED BY <1>2, <1>3, <1>6, <1>7, <1>8, SelectedFacts

\* It gives that case its verdict and leaves the others theirs.
Judgement(event, info) ==
    IF event = "case_unsupported" THEN "unsupported"
    ELSE IF info = "passed" THEN "passed" ELSE "failed"

LEMMA DecidingVerdict ==
    ASSUME TypeOK, NEW event \in DecidedEvent, NEW info, Record(event, info),
           \A k \in Decided : journal[k].case_id # current, current \in Case
    PROVE  /\ Verdicts[current] = "pending"
           /\ Verdicts' = [Verdicts EXCEPT ![current] = Judgement(event, info)]
<1>1. PICK c0 : c0 = current
  OBVIOUS
<1>2. PICK new : new = Len(journal) + 1
  OBVIOUS
<1>3. /\ Decided' = Decided \cup {new} /\ new \notin Decided
      /\ \A k \in Decided : journal'[k] = journal[k]
      /\ journal'[new].event = event /\ journal'[new].case_id = c0
      /\ journal'[new].info = info
  BY <1>1, <1>2, DecidingFacts, RecordFacts
<1>4. \A e : ~RowOf(e, c0) /\ ~PassedRow(c0)
  BY <1>1 DEF RowOf, PassedRow
<1>5. ASSUME NEW c, c # c0 PROVE RowVerdict(c)' = RowVerdict(c)
  <2>1. \A e : RowOf(e, c)' <=> RowOf(e, c)
    BY <1>3, <1>5 DEF RowOf
  <2>2. PassedRow(c)' <=> PassedRow(c)
    BY <1>3, <1>5 DEF PassedRow
  <2> QED BY <2>1, <2>2 DEF RowVerdict
<1>6. RowVerdict(c0)' = Judgement(event, info)
  <2>1. \A e : RowOf(e, c0)' <=> e = event
    BY <1>3, <1>1 DEF RowOf
  <2>2. PassedRow(c0)' <=> event = "case_completed" /\ info = "passed"
    BY <1>3, <1>1 DEF PassedRow
  <2> QED BY <2>1, <2>2 DEF RowVerdict, Judgement, DecidedEvent
<1>7. RowVerdict(c0) = "pending"
  BY <1>4 DEF RowVerdict
<1> QED BY <1>1, <1>5, <1>6, <1>7, VerdictsFrom

LEMMA JudgeIsLedger ==
    ASSUME TypeOK, ControlInv, PositionInv, HistoryInv, JournalInv,
           JournalUnsupported \/ JournalCompleted
    PROVE  \E i \in DOMAIN Selected, j \in Journal!Judgement : Journal!Judge(i, j)
<1>1. PICK event, info : event \in DecidedEvent /\ Record(event, info)
  <2>1. JournalUnsupported => Record("case_unsupported", "none")
    BY DEF JournalUnsupported
  <2>2. JournalCompleted => Record("case_completed", Outcome(Last(caseResults)))
    BY DEF JournalCompleted
  <2>3. "case_unsupported" \in DecidedEvent /\ "case_completed" \in DecidedEvent
    BY DEF DecidedEvent
  <2> QED BY <2>1, <2>2, <2>3
<1>2. /\ position \in DOMAIN Selected /\ current = Selected[position] /\ current \in Case
      /\ output = NoDocument
      /\ \A k \in Decided : journal[k].case_id # current
      /\ \A p \in 1 .. position - 1 : \E k \in Decided : journal[k].case_id = Selected[p]
  BY DecidingIsNext
<1>3. /\ Verdicts[current] = "pending"
      /\ Verdicts' = [Verdicts EXCEPT ![current] = Judgement(event, info)]
  BY <1>1, <1>2, DecidingVerdict
<1>4. Judgement(event, info) \in Journal!Judgement
  BY DEF Judgement, Journal!Judgement
<1>5. ASSUME NEW p \in 1 .. position - 1 PROVE Verdicts[Selected[p]] # "pending"
  <2>1. PICK k \in Decided : journal[k].case_id = Selected[p]
    BY <1>2
  <2>2. journal[k].event \in {"case_completed", "case_unsupported"}
    BY DEF Decided
  <2>3. RowOf("case_completed", Selected[p]) \/ RowOf("case_unsupported", Selected[p])
    BY <2>1, <2>2 DEF RowOf
  <2>4. RowVerdict(Selected[p]) # "pending"
    BY <2>3 DEF RowVerdict
  <2>5. Selected[p] \in Case
    <3>1. position \in 1 .. Len(Selected)
      BY <1>2, SelectedAssumption
    <3>2. p \in 1 .. Len(Selected)
      BY <3>1, SelectedFacts
    <3> QED BY <3>2, SelectedFacts
  <2> QED BY <2>4, <2>5, VerdictsFrom
<1>6. output' = output
  BY DEF JournalUnsupported, JournalCompleted
<1>7. Journal!Judge(position, Judgement(event, info))
  BY <1>2, <1>3, <1>5, <1>6 DEF Journal!Judge, Verdicts, Report
<1> QED BY <1>2, <1>4, <1>7

\* When the report is published, memory and journal say the same of every case.
LEMMA PublishVerdict ==
    ASSUME RunInv, Publish, NEW c \in Case
    PROVE  ReportVerdict(output', c) = RowVerdict(c) /\ RowVerdict(c) # "pending"
<1>0. TypeOK /\ ControlInv /\ PositionInv /\ JournalInv /\ MemoryInv
  BY DEF RunInv
<1>1. At = "publish" /\ Live
  <2>1. At = "publish" /\ pc = "publish"
    BY <1>0, FrameMoves DEF Publish
  <2> QED BY <1>0, <2>1 DEF ControlInv, Live, ReportPoints
<1>2. output'.cases = caseResults /\ output'.unsupported = unsupported
  BY DEF Publish
<1>3. JournaledTo = Len(Selected)
  BY <1>0, <1>1 DEF PositionInv, JournaledTo, ReportPoints, CasePoints, LoopPoints
<1>4. RowOf("case_completed", c) <=> ~RowOf("case_unsupported", c)
  <2>1. Journaled("case_completed", c) <=> ~Journaled("case_unsupported", c)
    BY <1>0, <1>1, <1>3, OneOutcomeEach
  <2> QED BY <2>1 DEF Journaled, RowOf, Decided
<1>5. /\ \A i \in DOMAIN caseResults : \E k \in Decided : ResultRow(k, caseResults[i])
      /\ \A i \in DOMAIN unsupported : \E k \in Decided : UnsupportedRow(k, unsupported[i])
      /\ \A k \in Decided :
           \/ \E i \in DOMAIN caseResults : ResultRow(k, caseResults[i])
           \/ \E i \in DOMAIN unsupported : UnsupportedRow(k, unsupported[i])
  BY <1>0, <1>1 DEF MemoryInv, Pending, PendingUnsupported
<1>6. (\E i \in DOMAIN unsupported : unsupported[i] = c) <=> RowOf("case_unsupported", c)
  <2>1. ASSUME NEW i \in DOMAIN unsupported, unsupported[i] = c
        PROVE  RowOf("case_unsupported", c)
    BY <1>5, <2>1 DEF UnsupportedRow, RowOf
  <2>2. ASSUME RowOf("case_unsupported", c)
        PROVE  \E i \in DOMAIN unsupported : unsupported[i] = c
    <3>1. PICK k \in Decided : journal[k].event = "case_unsupported" /\ journal[k].case_id = c
      BY <2>2 DEF RowOf
    <3>2. \A i \in DOMAIN caseResults : ~ResultRow(k, caseResults[i])
      BY <3>1 DEF ResultRow
    <3>3. PICK i \in DOMAIN unsupported : UnsupportedRow(k, unsupported[i])
      BY <1>5, <3>1, <3>2
    <3> QED BY <3>1, <3>3 DEF UnsupportedRow
  <2> QED BY <2>1, <2>2
<1>7. (\E i \in DOMAIN caseResults : caseResults[i].case_id = c /\ caseResults[i].passed)
        <=> PassedRow(c)
  <2>1. ASSUME NEW i \in DOMAIN caseResults, caseResults[i].case_id = c, caseResults[i].passed
        PROVE  PassedRow(c)
    <3>1. PICK k \in Decided : ResultRow(k, caseResults[i])
      BY <1>5
    <3>2. journal[k].event = "case_completed" /\ journal[k].case_id = c
            /\ journal[k].info = "passed"
      BY <2>1, <3>1 DEF ResultRow, Outcome
    <3> QED BY <3>2 DEF PassedRow
  <2>2. ASSUME PassedRow(c)
        PROVE  \E i \in DOMAIN caseResults : caseResults[i].case_id = c /\ caseResults[i].passed
    <3>1. PICK k \in Decided : /\ journal[k].event = "case_completed"
                               /\ journal[k].case_id = c
                               /\ journal[k].info = "passed"
      BY <2>2 DEF PassedRow
    <3>2. \A i \in DOMAIN unsupported : ~UnsupportedRow(k, unsupported[i])
      BY <3>1 DEF UnsupportedRow
    <3>3. PICK i \in DOMAIN caseResults : ResultRow(k, caseResults[i])
      BY <1>5, <3>1, <3>2
    <3>4. caseResults[i].case_id = c /\ caseResults[i].passed
      BY <3>1, <3>3 DEF ResultRow, Outcome
    <3> QED BY <3>4
  <2> QED BY <2>1, <2>2
<1> QED BY <1>2, <1>4, <1>6, <1>7 DEF ReportVerdict, RowVerdict

LEMMA PublishIsLedger ==
    RunInv /\ Publish => Journal!Publish
<1> SUFFICES ASSUME RunInv, Publish PROVE Journal!Publish
  OBVIOUS
<1>0. TypeOK /\ ControlInv /\ HistoryInv
  BY DEF RunInv
<1>1. output' # NoDocument
  BY <1>0, DocumentsWritten
<1>2. output = NoDocument
  <2>1. At = "publish"
    BY <1>0, FrameMoves
  <2> QED BY <1>0, <2>1 DEF HistoryInv, PublishedPoints
<1>3. \A c \in Case : ReportVerdict(output', c) = RowVerdict(c) /\ RowVerdict(c) # "pending"
  BY PublishVerdict
<1>4. Report = NoDocument /\ Report' = [c \in Case |-> ReportVerdict(output', c)]
  BY <1>1, <1>2 DEF Report, ReportVerdict
<1>5. Report' = Verdicts /\ \A c \in Case : Verdicts[c] # "pending"
  BY <1>3, <1>4, VerdictsFrom
<1>6. Verdicts' = Verdicts
  <2>1. Undeciding
    BY DEF Publish, Undeciding
  <2> QED BY <1>0, <2>1, VerdictsKept
<1> QED
  BY <1>4, <1>5, <1>6 DEF Journal!Publish, Journal!Case, Case, Verdicts, Report

LEMMA StepIsLedger == RunInv /\ [Next]_vars => [Journal!LedgerNext]_(Journal!ledgerVars)
<1> SUFFICES ASSUME RunInv, [Next]_vars PROVE [Journal!LedgerNext]_(Journal!ledgerVars)
  OBVIOUS
<1>0. TypeOK /\ ControlInv /\ PositionInv /\ HistoryInv /\ JournalInv
  BY DEF RunInv
<1>1. CASE JournalUnsupported \/ JournalCompleted
  BY <1>0, <1>1, JudgeIsLedger DEF Journal!LedgerNext
<1>2. CASE Publish
  BY <1>2, PublishIsLedger DEF Journal!LedgerNext
<1>3. CASE ~(JournalUnsupported \/ JournalCompleted \/ Publish)
  <2>1. Undeciding
    <3>1. PersistStep \/ Fault \/ UNCHANGED vars => Undeciding
      BY <1>0, QuietMoves DEF Undeciding
    <3> QED BY <1>3, <3>1, CaseStepJournal, FrameStepJournal DEF Next, Progress, Ending
  <2>2. output' = output
    BY <1>3, PersistStepKeeps, FaultKeeps, CaseStepDocuments, FrameStepDocuments
       DEF Next, Progress, Ending, vars
  <2>3. Verdicts' = Verdicts /\ Report' = Report
    BY <1>0, <2>1, <2>2, VerdictsKept DEF Report, ReportVerdict
  <2> QED BY <2>3 DEF Journal!ledgerVars, Verdicts, Report
<1> QED BY <1>1, <1>2, <1>3

\* To somebody who sees only the journal and the published document, evaluate
\* judges the selected cases one after the other, revises nothing, and publishes at
\* most one report, which is the ledger (ImplementsLedger), whatever fails.
THEOREM EvaluateImplementsLedger == Spec => ImplementsLedger
BY InitLedger, StepIsLedger, RunCorrect, PTL
   DEF Spec, ImplementsLedger, Journal!LedgerSpec

-----------------------------------------------------------------------------
(* The targets, when only targets fail.                                    *)

Released == {"none", "closed"}

ReleasedInv ==
    /\ At = "close_candidate" => reference \in Released
    /\ At \in ReportPoints \cup {"raised"} => reference \in Released /\ candidate \in Released

LEMMA InitReleased == Init => ReleasedInv
<1> SUFFICES ASSUME Init PROVE ReleasedInv
  OBVIOUS
<1>1. At = "journal_run_started"
  BY DEF Init, At, PersistPoints
<1> QED BY <1>1 DEF ReleasedInv, ReportPoints, PublishedPoints

\* An exception of a target unwinds through the except clause.
LEMMA TransportTarget ==
    ASSUME "error" \notin Faults, Fault
    PROVE  At' \in {"journal_run_failed", "killed"}
<1>1. TransportRaises \/ Kill
  BY DEF Fault, Raise
<1>2. CASE TransportRaises
  <2>1. InTry
    BY <1>2 DEF TransportRaises, InTry, TryPoints, LoopPoints
  <2> QED BY <1>2, <2>1 DEF TransportRaises, Unwind, At, PersistPoints
<1>3. CASE Kill
  BY <1>3 DEF Kill, At, PersistPoints
<1> QED BY <1>1, <1>2, <1>3

LEMMA FrameStepReleased == ControlInv /\ ReleasedInv /\ FrameStep => ReleasedInv'
<1> SUFFICES ASSUME ControlInv, ReleasedInv, FrameStep PROVE ReleasedInv'
  OBVIOUS
<1>1. CASE JournalRunStarted \/ OpenReference \/ OpenCandidate \/ JournalRunFailed
  <2>1. At' \in {"open_reference", "open_candidate", "next_case", "close_reference"}
    BY <1>1, FrameMoves
  <2> QED BY <2>1 DEF ReleasedInv, ReportPoints, PublishedPoints
<1>2. CASE CloseReference
  <2>1. At' = "close_candidate" /\ reference' \in Released
    BY <1>2, FrameMoves DEF CloseReference, Close, Released
  <2> QED BY <2>1 DEF ReleasedInv, ReportPoints, PublishedPoints
<1>3. CASE CloseCandidate
  <2>1. /\ At = "close_candidate" /\ At' \in {"publish", "raised"}
        /\ reference' = reference /\ candidate' \in Released
    BY <1>3, FrameMoves DEF CloseCandidate, Close, Released
  <2> QED BY <2>1 DEF ReleasedInv
<1>4. CASE Publish \/ JournalRunCompleted
  <2>1. /\ At \in {"publish", "journal_run_completed"}
        /\ At' \in {"journal_run_completed", "returned"}
    BY <1>4, FrameMoves
  <2>2. reference' = reference /\ candidate' = candidate
    BY <1>4 DEF Publish, JournalRunCompleted, targets
  <2> QED BY <2>1, <2>2 DEF ReleasedInv, ReportPoints, PublishedPoints
<1> QED BY <1>1, <1>2, <1>3, <1>4 DEF FrameStep

\* If only targets fail and processes die, evaluate has closed both targets whenever
\* it returns or raises (TargetsReleased): whatever execute raises is caught, and
\* finally closes the reference before the candidate.
THEOREM TargetsAreReleased ==
    ASSUME "error" \notin Faults
    PROVE  Spec => []TargetsReleased
<1>1. ControlInv /\ ReleasedInv /\ [Next]_vars => ReleasedInv'
  <2> SUFFICES ASSUME ControlInv, ReleasedInv, [Next]_vars PROVE ReleasedInv'
    OBVIOUS
  <2>1. CASE PersistStep \/ UNCHANGED vars
    <3>1. At' = At /\ reference' = reference /\ candidate' = candidate
      BY <2>1, PersistStepMoves, PersistStepKeeps DEF At, vars, control, targets
    <3> QED BY <3>1 DEF ReleasedInv
  <2>2. CASE Fault
    BY <2>2, TransportTarget DEF ReleasedInv, ReportPoints, PublishedPoints
  <2>3. CASE CaseStep
    <3>1. At' \in LoopPoints \cup {"close_reference"}
      BY <2>3, CaseMoves DEF CaseStep, LoopPoints
    <3> QED BY <3>1 DEF ReleasedInv, ReportPoints, PublishedPoints, LoopPoints
  <2> QED BY <2>1, <2>2, <2>3, FrameStepReleased DEF Next, Progress, Ending
<1>2. ReleasedInv => TargetsReleased
  BY DEF ReleasedInv, Released, TargetsReleased, At, PersistPoints, ReportPoints,
         PublishedPoints
<1> QED BY <1>1, <1>2, InitReleased, ControlCorrect, PTL DEF Spec
=============================================================================

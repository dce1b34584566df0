---------------------------- MODULE EvalRunProofs ----------------------------
(***************************************************************************)
(* What holds of evaluate for every selection, checkpoint interval, set of *)
(* observations and set of faults.  The invariant of EvalRunInductive is   *)
(* proved layer by layer.                                                  *)
(***************************************************************************)
EXTENDS EvalRunInductive, TLAPS

\* The groups of variables that UNCHANGED names.
USE DEF control, progress, results, raws, targets, logs, dumps

-----------------------------------------------------------------------------
(* Layer 1: control.                                                       *)

LEMMA InitControl == Init => ControlInv
BY DEF Init, ControlInv, At, Point, TryPoints, LoopPoints, PersistPoints, InExcept,
       OpeningPoints, ReportPoints, PublishedPoints, Status

\* A persist call leads to the first of its writes and has its arguments.
LEMMA PersistCall ==
    ASSUME NEW status, NEW checkpoint \in BOOLEAN, NEW resume,
           Persist(status, checkpoint, resume)
    PROVE  /\ pc' = "write_state"
           /\ call'.status = status
           /\ call'.resume = resume
           /\ call' \in [status : {status}, full : BOOLEAN, resume : {resume}]
           /\ At' = resume
BY DEF Persist, At, PersistPoints

\* A persist call from one of its call sites keeps the layer.
LEMMA PersistControl ==
    ASSUME NEW status, NEW checkpoint \in BOOLEAN, NEW resume,
           ControlInv,
           Persist(status, checkpoint, resume),
           <<status, resume>> \in PersistCalls,
           error' = error,
           status = "failed" <=> error # "none"
    PROVE  ControlInv'
<1>1. /\ pc' = "write_state" /\ At' = resume
      /\ call'.status = status /\ call'.resume = resume
      /\ call' \in [status : {status}, full : BOOLEAN, resume : {resume}]
  BY PersistCall
<1>2. status \in Status /\ resume \in Point
  BY DEF PersistCalls, Status, Point, TryPoints, LoopPoints, Ended
<1>3. pc' \in Point /\ call' \in [status : Status, full : BOOLEAN, resume : Point]
  BY <1>1, <1>2 DEF Point, PersistPoints
<1>4. At' \in OpeningPoints \cup TryPoints \cup ReportPoints => error' = "none"
  BY <1>1 DEF PersistCalls, OpeningPoints, TryPoints, LoopPoints, ReportPoints,
              PublishedPoints
<1>5. InExcept' => error' # "none"
  BY <1>1 DEF InExcept
<1> QED BY <1>1, <1>3, <1>4, <1>5 DEF ControlInv

\* Within a persist call control stays at the place the call returns to.
LEMMA PersistStepMoves ==
    ASSUME ControlInv, PersistStep
    PROVE  /\ pc \in PersistPoints
           /\ At' = At
           /\ call' = call
           /\ error' = error
           /\ pc # "killed" /\ pc' # "killed"
           /\ pc' \in PersistPoints \/ pc' = call.resume
<1> USE DEF PersistPoints, At
<1>1. call.resume \notin PersistPoints \cup {"killed"} \/ pc \notin PersistPoints
  BY DEF ControlInv, PersistCalls
<1>2. CASE WriteState
  BY <1>1, <1>2 DEF WriteState
<1>3. CASE WritePartial
  BY <1>1, <1>3 DEF WritePartial
<1>4. CASE WriteRawReference
  BY <1>1, <1>4 DEF WriteRawReference
<1>5. CASE WriteRawCandidate
  BY <1>1, <1>5 DEF WriteRawCandidate
<1> QED BY <1>2, <1>3, <1>4, <1>5 DEF PersistStep

LEMMA PersistStepControl == ControlInv /\ PersistStep => ControlInv'
<1> SUFFICES ASSUME ControlInv, PersistStep PROVE ControlInv'
  OBVIOUS
<1>1. /\ pc \in PersistPoints /\ At' = At /\ call' = call /\ error' = error
      /\ pc' \in PersistPoints \/ pc' = call.resume
  BY PersistStepMoves
<1>2. pc' \in Point
  BY <1>1 DEF ControlInv, Point
<1>3. InExcept' => InExcept
  <2>1. call.resume # "journal_run_failed"
    BY <1>1 DEF ControlInv, PersistCalls
  <2> QED BY <1>1, <2>1 DEF InExcept, PersistPoints
<1> QED
  BY <1>1, <1>2, <1>3 DEF ControlInv

LEMMA CaseStepControl == ControlInv /\ CaseStep => ControlInv'
<1> SUFFICES ASSUME ControlInv, CaseStep PROVE ControlInv'
  OBVIOUS
<1> USE DEF ControlInv, At, Point, TryPoints, LoopPoints, PersistPoints, InExcept,
            OpeningPoints, ReportPoints, PublishedPoints, Status, PersistCalls
<1>1. CASE NextCase
  BY <1>1 DEF NextCase
<1>2. CASE JournalStarted
  BY <1>2, PersistControl DEF JournalStarted
<1>3. CASE Supported
  BY <1>3 DEF Supported
<1>4. CASE Unsupported
  BY <1>4 DEF Unsupported
<1>5. CASE JournalUnsupported
  BY <1>5, PersistControl DEF JournalUnsupported
<1>6. CASE ExecuteReference
  BY <1>6 DEF ExecuteReference
<1>7. CASE LogReference
  BY <1>7 DEF LogReference
<1>8. CASE JournalReference
  BY <1>8, PersistControl DEF JournalReference
<1>9. CASE ExecuteCandidate
  BY <1>9 DEF ExecuteCandidate
<1>10. CASE LogCandidate
  BY <1>10 DEF LogCandidate
<1>11. CASE JournalCandidate
  BY <1>11 DEF JournalCandidate
<1>12. CASE Compare
  BY <1>12 DEF Compare
<1>13. CASE JournalCompleted
  BY <1>13, PersistControl DEF JournalCompleted
<1> QED
  BY <1>1, <1>2, <1>3, <1>4, <1>5, <1>6, <1>7, <1>8, <1>9, <1>10, <1>11, <1>12, <1>13
     DEF CaseStep

LEMMA FrameStepControl == ControlInv /\ FrameStep => ControlInv'
<1> SUFFICES ASSUME ControlInv, FrameStep PROVE ControlInv'
  OBVIOUS
<1> USE DEF ControlInv, At, Point, TryPoints, LoopPoints, PersistPoints, InExcept,
            OpeningPoints, ReportPoints, PublishedPoints, Status, PersistCalls, Ended
<1>1. CASE JournalRunStarted
  BY <1>1, PersistControl DEF JournalRunStarted
<1>2. CASE OpenReference
  BY <1>2 DEF OpenReference
<1>3. CASE OpenCandidate
  BY <1>3, PersistControl DEF OpenCandidate
<1>4. CASE JournalRunFailed
  BY <1>4, PersistControl DEF JournalRunFailed
<1>5. CASE CloseReference
  BY <1>5 DEF CloseReference
<1>6. CASE CloseCandidate
  BY <1>6 DEF CloseCandidate
<1>7. CASE Publish
  BY <1>7 DEF Publish
<1>8. CASE JournalRunCompleted
  BY <1>8, PersistControl DEF JournalRunCompleted
<1> QED
  BY <1>1, <1>2, <1>3, <1>4, <1>5, <1>6, <1>7, <1>8 DEF FrameStep

\* After a fault no report can follow.
LEMMA FaultMoves ==
    ASSUME ControlInv, Fault
    PROVE  /\ ~Live'
           /\ At' \in {"journal_run_failed", "raised", "killed"} \cup ClosingPoints
<1> USE DEF ControlInv, Live, At, PersistPoints, ClosingPoints
<1>1. CASE Raise
  BY <1>1 DEF Raise, Unwind
<1>2. CASE TransportRaises
  BY <1>2 DEF TransportRaises, Unwind
<1>3. CASE Kill
  BY <1>3 DEF Kill
<1> QED BY <1>1, <1>2, <1>3 DEF Fault

LEMMA FaultControl == ControlInv /\ Fault => ControlInv'
BY DEF ControlInv, Fault, Raise, TransportRaises, Kill, Unwind, At, Point, TryPoints,
       LoopPoints, PersistPoints, InExcept, OpeningPoints, ReportPoints,
       PublishedPoints, Ended

THEOREM ControlCorrect == Spec => []ControlInv
<1>1. ControlInv /\ [Next]_vars => ControlInv'
  <2> SUFFICES ASSUME ControlInv, [Next]_vars PROVE ControlInv'
    OBVIOUS
  <2>1. CASE UNCHANGED vars
    BY <2>1 DEF vars, ControlInv, At, InExcept
  <2> QED
    BY <2>1, PersistStepControl, CaseStepControl, FrameStepControl, FaultControl
       DEF Next, Progress, Ending
<1> QED BY <1>1, InitControl, PTL DEF Spec

-----------------------------------------------------------------------------
(* Where each action takes control.                                        *)

\* An action of the loop has one entry and one exit, and nothing has failed.
LEMMA CaseMoves ==
    ASSUME ControlInv
    PROVE  /\ NextCase => /\ At = "next_case"
                          /\ At' = IF position < Len(Selected)
                                     THEN "journal_started" ELSE "close_reference"
           /\ JournalStarted => At = "journal_started" /\ At' = "check_supports"
           /\ Supported => At = "check_supports" /\ At' = "execute_reference"
           /\ Unsupported => At = "check_supports" /\ At' = "journal_unsupported"
           /\ JournalUnsupported => At = "journal_unsupported" /\ At' = "next_case"
           /\ ExecuteReference => At = "execute_reference" /\ At' = "log_reference"
           /\ LogReference => At = "log_reference" /\ At' = "journal_reference"
           /\ JournalReference => At = "journal_reference" /\ At' = "execute_candidate"
           /\ ExecuteCandidate => At = "execute_candidate" /\ At' = "log_candidate"
           /\ LogCandidate => At = "log_candidate" /\ At' = "journal_candidate"
           /\ JournalCandidate => At = "journal_candidate" /\ At' = "compare"
           /\ Compare => At = "compare" /\ At' = "journal_completed"
           /\ JournalCompleted => At = "journal_completed" /\ At' = "next_case"
           /\ CaseStep => Live /\ Live'
<1> USE DEF At, PersistPoints
<1>1. NextCase => /\ At = "next_case"
                 /\ At' = IF position < Len(Selected)
                            THEN "journal_started" ELSE "close_reference"
  BY DEF NextCase
<1>2. JournalStarted => At = "journal_started" /\ At' = "check_supports"
  BY DEF JournalStarted, Persist
<1>3. Supported => At = "check_supports" /\ At' = "execute_reference"
  BY DEF Supported
<1>4. Unsupported => At = "check_supports" /\ At' = "journal_unsupported"
  BY DEF Unsupported
<1>5. JournalUnsupported => At = "journal_unsupported" /\ At' = "next_case"
  BY DEF JournalUnsupported, Persist
<1>6. ExecuteReference => At = "execute_reference" /\ At' = "log_reference"
  BY DEF ExecuteReference
<1>7. LogReference => At = "log_reference" /\ At' = "journal_reference"
  BY DEF LogReference
<1>8. JournalReference => At = "journal_reference" /\ At' = "execute_candidate"
  BY DEF JournalReference, Persist
<1>9. ExecuteCandidate => At = "execute_candidate" /\ At' = "log_candidate"
  BY DEF ExecuteCandidate
<1>10. LogCandidate => At = "log_candidate" /\ At' = "journal_candidate"
  BY DEF LogCandidate
<1>11. JournalCandidate => At = "journal_candidate" /\ At' = "compare"
  BY DEF JournalCandidate
<1>12. Compare => At = "compare" /\ At' = "journal_completed"
  BY DEF Compare
<1>13. JournalCompleted => At = "journal_completed" /\ At' = "next_case"
  BY DEF JournalCompleted, Persist
<1>14. CaseStep => Live /\ Live'
  <2>1. CaseStep => pc \in TryPoints /\ error' = error
    BY DEF CaseStep, TryPoints, LoopPoints, NextCase, JournalStarted, Supported, Unsupported, JournalUnsupported, ExecuteReference, LogReference, JournalReference, ExecuteCandidate, LogCandidate, JournalCandidate, Compare, JournalCompleted
  <2>2. pc \in TryPoints => At \in TryPoints
    BY DEF TryPoints, LoopPoints
  <2>3. CaseStep => pc' # "killed"
    BY DEF CaseStep, NextCase, JournalStarted, Supported, Unsupported, JournalUnsupported, ExecuteReference, LogReference, JournalReference, ExecuteCandidate, LogCandidate, JournalCandidate, Compare, JournalCompleted, Persist
  <2> QED BY <2>1, <2>2, <2>3 DEF ControlInv, Live, TryPoints, LoopPoints
<1> QED
  BY <1>1, <1>2, <1>3, <1>4, <1>5, <1>6, <1>7, <1>8, <1>9, <1>10, <1>11, <1>12, <1>13, <1>14

\* So has an action outside the loop.
LEMMA FrameMoves ==
    ASSUME ControlInv
    PROVE  /\ JournalRunStarted => At = "journal_run_started" /\ At' = "open_reference"
           /\ OpenReference => At = "open_reference" /\ At' = "open_candidate"
           /\ OpenCandidate => At = "open_candidate" /\ At' = "next_case"
           /\ JournalRunFailed => At = "journal_run_failed" /\ At' = "close_reference"
           /\ CloseReference => At = "close_reference" /\ At' = "close_candidate"
           /\ CloseCandidate => /\ At = "close_candidate"
                                /\ At' = IF error = "none" THEN "publish" ELSE "raised"
           /\ Publish => At = "publish" /\ At' = "journal_run_completed"
           /\ JournalRunCompleted => At = "journal_run_completed" /\ At' = "returned"
           /\ FrameStep => Live' = Live
<1> USE DEF At, PersistPoints
<1>1. JournalRunStarted => At = "journal_run_started" /\ At' = "open_reference"
  BY DEF JournalRunStarted, Persist
<1>2. OpenReference => At = "open_reference" /\ At' = "open_candidate"
  BY DEF OpenReference
<1>3. OpenCandidate => At = "open_candidate" /\ At' = "next_case"
  BY DEF OpenCandidate, Persist
<1>4. JournalRunFailed => At = "journal_run_failed" /\ At' = "close_reference"
  BY DEF JournalRunFailed, Persist
<1>5. CloseReference => At = "close_reference" /\ At' = "close_candidate"
  BY DEF CloseReference
<1>6. CloseCandidate => /\ At = "close_candidate"
                       /\ At' = IF error = "none" THEN "publish" ELSE "raised"
  BY DEF CloseCandidate
<1>7. Publish => At = "publish" /\ At' = "journal_run_completed"
  BY DEF Publish
<1>8. JournalRunCompleted => At = "journal_run_completed" /\ At' = "returned"
  BY DEF JournalRunCompleted, Persist
<1>9. FrameStep => Live' = Live
  <2>1. FrameStep => pc # "killed" /\ pc' # "killed" /\ error' = error
    BY DEF FrameStep, JournalRunStarted, OpenReference, OpenCandidate, JournalRunFailed, CloseReference, CloseCandidate, Publish, JournalRunCompleted, Persist
  <2> QED BY <2>1 DEF Live
<1> QED
  BY <1>1, <1>2, <1>3, <1>4, <1>5, <1>6, <1>7, <1>8, <1>9

\* A persist step and a fault touch nothing but control and their own file.
LEMMA PersistStepKeeps ==
    ASSUME PersistStep
    PROVE  UNCHANGED <<progress, results, raws, targets, journal, logs, output>>
BY DEF PersistStep, WriteState, WritePartial, WriteRawReference, WriteRawCandidate

LEMMA FaultKeeps ==
    ASSUME Fault
    PROVE  UNCHANGED <<progress, results, raws, targets, journal, logs,
                       state, dumps, output>>
BY DEF Fault, Raise, TransportRaises, Kill, Unwind

\* The same for a whole layer: what a persist step, a fault and a stuttering
\* step do to At and Live.
LEMMA QuietMoves ==
    ASSUME ControlInv, PersistStep \/ Fault \/ UNCHANGED vars
    PROVE  /\ UNCHANGED <<progress, results, raws, targets, journal, logs, output>>
           /\ Live' => Live
           /\ At' = At \/ (~Live' /\ At' \in {"journal_run_failed", "raised", "killed"}
                                               \cup ClosingPoints)
<1>1. CASE PersistStep
  BY <1>1, PersistStepKeeps, PersistStepMoves DEF Live
<1>2. CASE Fault
  BY <1>2, FaultKeeps, FaultMoves
<1>3. CASE UNCHANGED vars
  BY <1>3 DEF vars, At, Live
<1> QED BY <1>1, <1>2, <1>3

-----------------------------------------------------------------------------
(* Layer 2: the current case.                                              *)

LEMMA SelectedFacts ==
    /\ Len(Selected) \in Nat
    /\ \A i \in 1 .. Len(Selected) : Selected[i] \in Case
    /\ \A i, j \in 1 .. Len(Selected) : Selected[i] = Selected[j] => i = j
    /\ \A c \in Case : \E i \in 1 .. Len(Selected) : Selected[i] = c
BY SelectedAssumption DEF Case

LEMMA InitPosition == Init => PositionInv
<1> SUFFICES ASSUME Init PROVE PositionInv
  OBVIOUS
<1>1. At = "journal_run_started"
  BY DEF Init, At, PersistPoints
<1> QED
  BY <1>1, SelectedFacts
     DEF Init, PositionInv, CasePoints, LoopPoints, ClosingPoints, ReportPoints, PublishedPoints

LEMMA CaseStepPosition == ControlInv /\ PositionInv /\ CaseStep => PositionInv'
<1> SUFFICES ASSUME ControlInv, PositionInv, CaseStep PROVE PositionInv'
  OBVIOUS
<1> USE DEF PositionInv, CasePoints, LoopPoints, ClosingPoints, OpeningPoints,
            ReportPoints, PublishedPoints
<1>1. CASE NextCase
  BY <1>1, CaseMoves, SelectedFacts DEF NextCase
<1>2. CASE JournalStarted \/ Supported \/ Unsupported \/ JournalUnsupported
  BY <1>2, CaseMoves DEF JournalStarted, Supported, Unsupported, JournalUnsupported
<1>3. CASE ExecuteReference \/ LogReference \/ JournalReference
  BY <1>3, CaseMoves DEF ExecuteReference, LogReference, JournalReference
<1>4. CASE ExecuteCandidate \/ LogCandidate \/ JournalCandidate
  BY <1>4, CaseMoves DEF ExecuteCandidate, LogCandidate, JournalCandidate
<1>5. CASE Compare \/ JournalCompleted
  BY <1>5, CaseMoves DEF Compare, JournalCompleted
<1> QED BY <1>1, <1>2, <1>3, <1>4, <1>5 DEF CaseStep

LEMMA FrameStepPosition == ControlInv /\ PositionInv /\ FrameStep => PositionInv'
<1> SUFFICES ASSUME ControlInv, PositionInv, FrameStep PROVE PositionInv'
  OBVIOUS
<1> USE DEF PositionInv, CasePoints, LoopPoints, ClosingPoints, OpeningPoints,
            ReportPoints, PublishedPoints
<1>1. CASE JournalRunStarted \/ OpenReference \/ OpenCandidate
  BY <1>1, FrameMoves DEF JournalRunStarted, OpenReference, OpenCandidate
<1>2. CASE JournalRunFailed
  <2>1. ~Live'
    BY <1>2, FrameMoves DEF JournalRunFailed, Live, ControlInv, InExcept, FrameStep
  <2> QED BY <1>2, <2>1, FrameMoves DEF JournalRunFailed
<1>3. CASE CloseReference \/ CloseCandidate
  BY <1>3, FrameMoves DEF CloseReference, CloseCandidate, Live
<1>4. CASE Publish \/ JournalRunCompleted
  <2>1. Live' = Live
    BY <1>4, FrameMoves DEF FrameStep
  <2> QED BY <1>4, <2>1, FrameMoves DEF Publish, JournalRunCompleted
<1> QED BY <1>1, <1>2, <1>3, <1>4 DEF FrameStep

THEOREM PositionCorrect == Spec => []PositionInv
<1>1. ControlInv /\ PositionInv /\ [Next]_vars => PositionInv'
  <2> SUFFICES ASSUME ControlInv, PositionInv, PersistStep \/ Fault \/ UNCHANGED vars
               PROVE  PositionInv'
    BY CaseStepPosition, FrameStepPosition DEF Next, Progress, Ending
  <2> QED
    BY QuietMoves
       DEF PositionInv, CasePoints, LoopPoints, OpeningPoints, ClosingPoints
<1> QED BY <1>1, InitPosition, ControlCorrect, PTL DEF Spec

-----------------------------------------------------------------------------
(* Layer 3: the observations of the current case.                          *)

LEMMA InitObserved == Init => ObservedInv
<1> SUFFICES ASSUME Init PROVE ObservedInv
  OBVIOUS
<1>1. At = "journal_run_started"
  BY DEF Init, At, PersistPoints
<1>2. rawReference \in Raw /\ rawCandidate \in Raw
  BY DEF Init, Raw
<1> QED BY <1>1, <1>2 DEF ObservedInv, ReferenceSeen, CandidateSeen

LEMMA CaseStepObserved ==
    ControlInv /\ PositionInv /\ ObservedInv /\ CaseStep => ObservedInv'
<1> SUFFICES ASSUME ControlInv, PositionInv, ObservedInv, CaseStep PROVE ObservedInv'
  OBVIOUS
<1>0. At \in CasePoints => current \in Case
  BY SelectedFacts DEF PositionInv
<1> USE DEF ObservedInv, ReferenceSeen, CandidateSeen
<1>1. CASE NextCase
  BY <1>1, CaseMoves DEF NextCase
<1>2. CASE JournalStarted \/ Supported \/ Unsupported \/ JournalUnsupported
  BY <1>2, CaseMoves DEF JournalStarted, Supported, Unsupported, JournalUnsupported
<1>3. CASE ExecuteReference
  BY <1>0, <1>3, CaseMoves DEF ExecuteReference, Raw, CasePoints, LoopPoints
<1>4. CASE LogReference \/ JournalReference
  BY <1>4, CaseMoves DEF LogReference, JournalReference
<1>5. CASE ExecuteCandidate
  <2>1. PICK o \in Observation : rawCandidate' = [rawCandidate EXCEPT ![current] = o]
    BY <1>5, CaseMoves DEF ExecuteCandidate
  <2>2. current \in Case
    BY <1>0, <1>5, CaseMoves DEF CasePoints, LoopPoints
  <2> QED BY <1>5, <2>1, <2>2, CaseMoves DEF ExecuteCandidate, Raw
<1>6. CASE LogCandidate \/ JournalCandidate
  BY <1>6, CaseMoves DEF LogCandidate, JournalCandidate
<1>7. CASE Compare \/ JournalCompleted
  BY <1>7, CaseMoves DEF Compare, JournalCompleted
<1> QED BY <1>1, <1>2, <1>3, <1>4, <1>5, <1>6, <1>7 DEF CaseStep

LEMMA FrameStepObserved == ControlInv /\ ObservedInv /\ FrameStep => ObservedInv'
<1> SUFFICES ASSUME ControlInv, ObservedInv, FrameStep PROVE ObservedInv'
  OBVIOUS
<1>1. UNCHANGED raws
  BY DEF FrameStep, JournalRunStarted, OpenReference, OpenCandidate, JournalRunFailed,
         CloseReference, CloseCandidate, Publish, JournalRunCompleted
<1>2. At' \notin ReferenceSeen
  BY FrameMoves DEF FrameStep, ReferenceSeen, CandidateSeen
<1> QED BY <1>1, <1>2 DEF ObservedInv, ReferenceSeen

THEOREM ObservedCorrect == Spec => []ObservedInv
<1>1. ControlInv /\ PositionInv /\ ObservedInv /\ [Next]_vars => ObservedInv'
  <2> SUFFICES ASSUME ControlInv, ObservedInv, PersistStep \/ Fault \/ UNCHANGED vars
               PROVE  ObservedInv'
    BY CaseStepObserved, FrameStepObserved DEF Next, Progress, Ending
  <2> QED
    BY QuietMoves DEF ObservedInv, ReferenceSeen, CandidateSeen, ClosingPoints
<1> QED BY <1>1, InitObserved, ControlCorrect, PositionCorrect, PTL DEF Spec

-----------------------------------------------------------------------------
(* Layer 4: one outcome per decided case.                                  *)

LEMMA AppendFacts ==
    ASSUME NEW S, NEW s \in Seq(S), NEW x \in S
    PROVE  /\ Append(s, x) \in Seq(S)
           /\ Len(Append(s, x)) = Len(s) + 1
           /\ Append(s, x)[Len(s) + 1] = x
           /\ Last(Append(s, x)) = x
           /\ \A i \in 1 .. Len(s) : Append(s, x)[i] = s[i]
           /\ Append(s, x) # <<>>
           /\ DOMAIN s = 1 .. Len(s)
           /\ DOMAIN Append(s, x) = 1 .. Len(s) + 1
           /\ Len(s) \in Nat
BY DEF Last

LEMMA EmptyType == ASSUME NEW S PROVE <<>> \in Seq(S)
OBVIOUS

LEMMA InitTally == Init => TallyInv
<1> SUFFICES ASSUME Init PROVE TallyInv
  OBVIOUS
<1>1. At = "journal_run_started"
  BY DEF Init, At, PersistPoints
<1>2. caseResults \in Seq(CaseResult) /\ unsupported \in Seq(Case)
  BY EmptyType DEF Init
<1>3. Len(caseResults) + Len(unsupported) = position
  BY DEF Init
<1> QED BY <1>1, <1>2, <1>3 DEF TallyInv, UndecidedPoints, CasePoints, LoopPoints

LEMMA CaseStepTally ==
    ControlInv /\ PositionInv /\ ObservedInv /\ TallyInv /\ CaseStep => TallyInv'
<1> SUFFICES ASSUME ControlInv, PositionInv, ObservedInv, TallyInv, CaseStep
             PROVE  TallyInv'
  OBVIOUS
<1>0. /\ At \in CasePoints => current \in Case
      /\ Live /\ Live' /\ position \in Nat
      /\ Len(caseResults) \in Nat /\ Len(unsupported) \in Nat
  BY SelectedFacts, CaseMoves DEF PositionInv, TallyInv
<1> USE DEF TallyInv, UndecidedPoints, CasePoints, LoopPoints
<1>1. CASE NextCase
  BY <1>0, <1>1, CaseMoves DEF NextCase
<1>2. CASE JournalStarted \/ Supported \/ JournalUnsupported
  BY <1>0, <1>2, CaseMoves DEF JournalStarted, Supported, JournalUnsupported
<1>3. CASE Unsupported
  <2>1. current \in Case /\ unsupported' = Append(unsupported, current)
    BY <1>0, <1>3, CaseMoves DEF Unsupported
  <2>2. /\ unsupported' \in Seq(Case)
        /\ Len(unsupported') = Len(unsupported) + 1
        /\ unsupported' # <<>>
        /\ Last(unsupported') = current
    BY <2>1, AppendFacts
  <2> QED BY <1>0, <1>3, <2>2, CaseMoves DEF Unsupported
<1>4. CASE ExecuteReference \/ LogReference \/ JournalReference
  BY <1>0, <1>4, CaseMoves DEF ExecuteReference, LogReference, JournalReference
<1>5. CASE ExecuteCandidate \/ LogCandidate \/ JournalCandidate
  BY <1>0, <1>5, CaseMoves DEF ExecuteCandidate, LogCandidate, JournalCandidate
<1>6. CASE Compare
  <2> DEFINE result == [case_id |-> current,
                        passed  |-> Agree(rawReference[current], rawCandidate[current])]
  <2>1. result \in CaseResult /\ caseResults' = Append(caseResults, result)
    BY <1>0, <1>6, CaseMoves DEF Compare, CaseResult, Agree
  <2> HIDE DEF result
  <2>2. /\ caseResults' \in Seq(CaseResult)
        /\ Len(caseResults') = Len(caseResults) + 1
        /\ caseResults' # <<>>
        /\ Last(caseResults') = result
    BY <2>1, AppendFacts
  <2>3. Last(caseResults').case_id = current
    BY <2>2 DEF result
  <2> QED BY <1>0, <1>6, <2>2, <2>3, CaseMoves DEF Compare, Last
<1>7. CASE JournalCompleted
  BY <1>0, <1>7, CaseMoves DEF JournalCompleted
<1> QED BY <1>1, <1>2, <1>3, <1>4, <1>5, <1>6, <1>7 DEF CaseStep

LEMMA FrameStepTally == ControlInv /\ TallyInv /\ FrameStep => TallyInv'
<1> SUFFICES ASSUME ControlInv, TallyInv, FrameStep PROVE TallyInv'
  OBVIOUS
<1>1. UNCHANGED <<results, position>>
  BY DEF FrameStep, JournalRunStarted, OpenReference, OpenCandidate, JournalRunFailed,
         CloseReference, CloseCandidate, Publish, JournalRunCompleted
<1>2. Live' = Live /\ At \notin CasePoints /\ At' \notin CasePoints
  BY FrameMoves DEF FrameStep, CasePoints, LoopPoints
<1> QED BY <1>1, <1>2 DEF TallyInv, UndecidedPoints, CasePoints, LoopPoints

THEOREM TallyCorrect == Spec => []TallyInv
<1>1. /\ ControlInv /\ PositionInv /\ ObservedInv /\ TallyInv
      /\ [Next]_vars
      => TallyInv'
  <2> SUFFICES ASSUME ControlInv, TallyInv, PersistStep \/ Fault \/ UNCHANGED vars
               PROVE  TallyInv'
    BY CaseStepTally, FrameStepTally DEF Next, Progress, Ending
  <2> QED
    BY QuietMoves DEF TallyInv, ClosingPoints
<1> QED
  BY <1>1, InitTally, ControlCorrect, PositionCorrect, ObservedCorrect, PTL DEF Spec

-----------------------------------------------------------------------------
(* Layer 5: types.                                                         *)

LEMMA RecordType ==
    ASSUME TypeOK, NEW event \in Event, NEW info \in Info, Record(event, info)
    PROVE  journal' \in Seq(JournalRow)
<1>1. [event |-> event, position |-> position, case_id |-> current, info |-> info]
        \in JournalRow
  BY DEF TypeOK, JournalRow
<1> QED
  BY <1>1, AppendFacts DEF TypeOK, Record

\* The part of TypeOK that the layers before it do not cover.
FileTypes ==
    /\ queries \in Nat
    /\ reuse \in BOOLEAN
    /\ reference \in TargetState
    /\ candidate \in TargetState
    /\ journal \in Seq(JournalRow)
    /\ referenceLog \in Seq(LogRow)
    /\ candidateLog \in Seq(LogRow)
    /\ state \in StateDocument \cup {NoDocument}
    /\ partial \in PartialDocument \cup {NoDocument}
    /\ rawReferenceFile \in Raw \cup {NoDocument}
    /\ rawCandidateFile \in Raw \cup {NoDocument}
    /\ output \in ResultDocument \cup {NoDocument}

LEMMA TypeSplit ==
    ControlInv /\ PositionInv /\ ObservedInv /\ TallyInv => (TypeOK <=> FileTypes)
BY DEF ControlInv, PositionInv, ObservedInv, TallyInv, TypeOK, FileTypes

LEMMA InitFileTypes == Init => FileTypes
<1> SUFFICES ASSUME Init PROVE FileTypes
  OBVIOUS
<1>1. /\ journal \in Seq(JournalRow)
      /\ referenceLog \in Seq(LogRow) /\ candidateLog \in Seq(LogRow)
  BY EmptyType DEF Init
<1>2. queries \in Nat /\ reuse \in BOOLEAN
      /\ reference \in TargetState /\ candidate \in TargetState
  BY DEF Init, TargetState
<1> QED BY <1>1, <1>2 DEF Init, FileTypes

LEMMA PersistStepFileTypes == TypeOK /\ PersistStep => FileTypes'
<1> SUFFICES ASSUME TypeOK, PersistStep PROVE FileTypes'
  OBVIOUS
<1>0. Len(caseResults) \in Nat /\ Len(unsupported) \in Nat /\ position \in Nat
  BY SelectedFacts DEF TypeOK
<1>1. CASE WriteState
  <2>1. state' \in StateDocument
    BY <1>0, <1>1 DEF TypeOK, WriteState, StateDocument
  <2> QED BY <1>1, <2>1 DEF TypeOK, FileTypes, WriteState
<1>2. CASE WritePartial
  <2>1. partial' \in PartialDocument
    BY <1>0, <1>2 DEF TypeOK, WritePartial, PartialDocument
  <2> QED BY <1>2, <2>1 DEF TypeOK, FileTypes, WritePartial
<1>3. CASE WriteRawReference
  BY <1>3 DEF TypeOK, FileTypes, WriteRawReference
<1>4. CASE WriteRawCandidate
  BY <1>4 DEF TypeOK, FileTypes, WriteRawCandidate
<1> QED BY <1>1, <1>2, <1>3, <1>4 DEF PersistStep

LEMMA CaseStepFileTypes ==
    ControlInv /\ PositionInv /\ ObservedInv /\ TallyInv /\ TypeOK /\ CaseStep => FileTypes'
<1> SUFFICES ASSUME ControlInv, PositionInv, ObservedInv, TallyInv, TypeOK, CaseStep
             PROVE  FileTypes'
  OBVIOUS
<1>0. At \in CasePoints => current \in Case
  BY SelectedFacts DEF PositionInv
<1> USE DEF TypeOK, FileTypes
<1>1. CASE NextCase \/ Supported \/ Unsupported
  BY <1>1 DEF NextCase, Supported, Unsupported
<1>2. CASE JournalStarted
  BY <1>2, RecordType DEF JournalStarted, Event, Info
<1>3. CASE JournalUnsupported
  BY <1>3, RecordType DEF JournalUnsupported, Event, Info
<1>4. CASE ExecuteReference
  BY <1>4 DEF ExecuteReference
<1>5. CASE LogReference
  <2>1. [case_id |-> current, observation |-> rawReference[current]] \in LogRow
    BY <1>0, <1>5, CaseMoves
       DEF ObservedInv, ReferenceSeen, CasePoints, LoopPoints, LogRow
  <2> QED BY <1>5, <2>1, AppendFacts DEF LogReference
<1>6. CASE JournalReference
  <2>1. rawReference[current].status \in Info
    BY <1>6, CaseMoves DEF ObservedInv, ReferenceSeen, Observation, Info
  <2> QED BY <1>6, <2>1, RecordType DEF JournalReference, Event
<1>7. CASE ExecuteCandidate
  BY <1>7 DEF ExecuteCandidate
<1>8. CASE LogCandidate
  <2>1. [case_id |-> current, observation |-> rawCandidate[current]] \in LogRow
    BY <1>0, <1>8, CaseMoves
       DEF ObservedInv, CandidateSeen, CasePoints, LoopPoints, LogRow
  <2> QED BY <1>8, <2>1, AppendFacts DEF LogCandidate
<1>9. CASE JournalCandidate
  <2>1. rawCandidate[current].status \in Info
    BY <1>9, CaseMoves DEF ObservedInv, CandidateSeen, Observation, Info
  <2> QED BY <1>9, <2>1, RecordType DEF JournalCandidate, Event
<1>10. CASE Compare
  BY <1>10 DEF Compare
<1>11. CASE JournalCompleted
  <2>1. Outcome(Last(caseResults)) \in Info
    BY DEF Outcome, Info
  <2> QED BY <1>11, <2>1, RecordType DEF JournalCompleted, Event
<1> QED
  BY <1>1, <1>2, <1>3, <1>4, <1>5, <1>6, <1>7, <1>8, <1>9, <1>10, <1>11 DEF CaseStep

LEMMA FrameStepFileTypes == TypeOK /\ FrameStep => FileTypes'
<1> SUFFICES ASSUME TypeOK, FrameStep PROVE FileTypes'
  OBVIOUS
<1> USE DEF TypeOK, FileTypes
<1>1. CASE JournalRunStarted
  BY <1>1, RecordType DEF JournalRunStarted, Event, Info
<1>2. CASE OpenReference \/ OpenCandidate
  BY <1>2 DEF OpenReference, OpenCandidate, TargetState
<1>3. CASE JournalRunFailed
  BY <1>3, RecordType DEF JournalRunFailed, Event, Info
<1>4. CASE CloseReference \/ CloseCandidate
  BY <1>4 DEF CloseReference, CloseCandidate, Close, TargetState
<1>5. CASE Publish
  BY <1>5 DEF Publish, ResultDocument
<1>6. CASE JournalRunCompleted
  BY <1>6, RecordType DEF JournalRunCompleted, Event, Info
<1> QED BY <1>1, <1>2, <1>3, <1>4, <1>5, <1>6 DEF FrameStep

\* The state of a run and every file in its directory have their types, even
\* after a fault: no document ever mentions a case that was not selected, and
\* no log holds a row without an observation.
THEOREM TypeCorrect == Spec => []TypeOK
<1> DEFINE Inv == ControlInv /\ PositionInv /\ ObservedInv /\ TallyInv
<1>1. Inv /\ TypeOK /\ [Next]_vars => FileTypes'
  <2> SUFFICES ASSUME Inv, TypeOK, Fault \/ UNCHANGED vars PROVE FileTypes'
    BY PersistStepFileTypes, CaseStepFileTypes, FrameStepFileTypes
       DEF Next, Progress, Ending
  <2>1. CASE Fault
    BY <2>1, FaultKeeps DEF TypeOK, FileTypes
  <2>2. CASE UNCHANGED vars
    BY <2>2 DEF vars, TypeOK, FileTypes
  <2> QED BY <2>1, <2>2
<1>2. Inv => (TypeOK <=> FileTypes)
  BY TypeSplit
<1>3. Spec => []Inv
  BY ControlCorrect, PositionCorrect, ObservedCorrect, TallyCorrect, PTL
<1> QED BY <1>1, <1>2, <1>3, InitFileTypes, PTL DEF Spec

-----------------------------------------------------------------------------
(* Layer 6: what backs a pass.                                             *)

\* A longer log backs whatever a shorter one backed.
LEMMA LoggedAppend ==
    ASSUME NEW log \in Seq(LogRow), NEW row \in LogRow, NEW c, NEW o
    PROVE  /\ Logged(log, c, o) => Logged(Append(log, row), c, o)
           /\ row = [case_id |-> c, observation |-> o] => Logged(Append(log, row), c, o)
<1>1. /\ DOMAIN log = 1 .. Len(log) /\ Len(log) \in Nat
      /\ DOMAIN Append(log, row) = 1 .. Len(log) + 1
      /\ Append(log, row)[Len(log) + 1] = row
      /\ \A i \in 1 .. Len(log) : Append(log, row)[i] = log[i]
  BY AppendFacts
<1>2. Logged(log, c, o) => Logged(Append(log, row), c, o)
  BY <1>1 DEF Logged
<1>3. row = [case_id |-> c, observation |-> o] => Logged(Append(log, row), c, o)
  BY <1>1 DEF Logged
<1> QED BY <1>2, <1>3

LEMMA BackedAppend ==
    ASSUME NEW rows \in Seq(LogRow), NEW other \in Seq(LogRow), NEW row \in LogRow, NEW result
    PROVE  /\ BackedBy(rows, other, result) => BackedBy(Append(rows, row), other, result)
           /\ BackedBy(other, rows, result) => BackedBy(other, Append(rows, row), result)
BY LoggedAppend DEF BackedBy

\* The rows of the two logs are observations of the current case.
LEMMA LoggedRows ==
    ASSUME ControlInv, PositionInv, ObservedInv
    PROVE  /\ LogReference =>
                [case_id |-> current, observation |-> rawReference[current]] \in LogRow
           /\ LogCandidate =>
                [case_id |-> current, observation |-> rawCandidate[current]] \in LogRow
<1>1. At \in CasePoints => current \in Case
  BY SelectedFacts DEF PositionInv
<1>2. LogReference =>
        [case_id |-> current, observation |-> rawReference[current]] \in LogRow
  BY <1>1, CaseMoves DEF ObservedInv, ReferenceSeen, CasePoints, LoopPoints, LogRow
<1>3. LogCandidate =>
        [case_id |-> current, observation |-> rawCandidate[current]] \in LogRow
  BY <1>1, CaseMoves DEF ObservedInv, CandidateSeen, CasePoints, LoopPoints, LogRow
<1> QED BY <1>2, <1>3

LEMMA FrameStepLogs == FrameStep => UNCHANGED logs
BY DEF FrameStep, JournalRunStarted, OpenReference, OpenCandidate, JournalRunFailed,
       CloseReference, CloseCandidate, Publish, JournalRunCompleted

LEMMA CaseStepLogs == CaseStep => UNCHANGED logs \/ LogReference \/ LogCandidate
BY DEF CaseStep, NextCase, JournalStarted, Supported, Unsupported, JournalUnsupported,
       ExecuteReference, JournalReference, ExecuteCandidate, JournalCandidate, Compare,
       JournalCompleted

\* Nothing that was backed ceases to be.
LEMMA BackedKept ==
    ASSUME ControlInv, PositionInv, ObservedInv, TypeOK, CaseStep, NEW result,
           BackedBy(referenceLog, candidateLog, result)
    PROVE  BackedBy(referenceLog', candidateLog', result)
<1>1. referenceLog \in Seq(LogRow) /\ candidateLog \in Seq(LogRow)
  BY DEF TypeOK
<1>2. CASE UNCHANGED logs
  BY <1>2
<1>3. CASE LogReference
  BY <1>1, <1>3, LoggedRows, BackedAppend DEF LogReference
<1>4. CASE LogCandidate
  BY <1>1, <1>4, LoggedRows, BackedAppend DEF LogCandidate
<1> QED BY <1>2, <1>3, <1>4, CaseStepLogs

\* A row appended to the journal does not unback the others.
LEMMA RecordBacked ==
    ASSUME TypeOK, NEW event, NEW info, Record(event, info), NEW rows, NEW others,
           \A i \in DOMAIN journal : journal[i].event = "case_completed" =>
                BackedBy(rows, others, RowResult(journal[i])),
           event = "case_completed" =>
                BackedBy(rows, others, [case_id |-> current, passed |-> info = "passed"])
    PROVE  \A i \in DOMAIN journal' : journal'[i].event = "case_completed" =>
                BackedBy(rows, others, RowResult(journal'[i]))
<1> DEFINE row == [event |-> event, position |-> position, case_id |-> current, info |-> info]
<1>1. journal' = Append(journal, row) /\ journal \in Seq(JournalRow \cup {row})
  BY DEF Record, TypeOK
<1>2. row.event = event /\ RowResult(row) = [case_id |-> current, passed |-> info = "passed"]
  BY DEF RowResult
<1> HIDE DEF row
<1>3. /\ DOMAIN journal = 1 .. Len(journal) /\ Len(journal) \in Nat
      /\ DOMAIN journal' = 1 .. Len(journal) + 1
      /\ journal'[Len(journal) + 1] = row
      /\ \A i \in 1 .. Len(journal) : journal'[i] = journal[i]
  BY <1>1, AppendFacts
<1> QED BY <1>2, <1>3

LEMMA CaseStepCurrentBacking ==
    ControlInv /\ PositionInv /\ ObservedInv /\ TypeOK /\ CurrentBacking /\ CaseStep
        => CurrentBacking'
<1> SUFFICES ASSUME ControlInv, PositionInv, ObservedInv, TypeOK, CurrentBacking, CaseStep
             PROVE  CurrentBacking'
  OBVIOUS
<1>0. referenceLog \in Seq(LogRow) /\ candidateLog \in Seq(LogRow)
  BY DEF TypeOK
<1> USE DEF CurrentBacking, ReferenceSeen, CandidateSeen
<1>1. CASE NextCase
  BY <1>1, CaseMoves DEF NextCase
<1>2. CASE JournalStarted \/ Supported \/ Unsupported \/ JournalUnsupported
  BY <1>2, CaseMoves DEF JournalStarted, Supported, Unsupported, JournalUnsupported
<1>3. CASE ExecuteReference
  BY <1>3, CaseMoves DEF ExecuteReference
<1>4. CASE LogReference
  BY <1>0, <1>4, CaseMoves, LoggedRows, LoggedAppend DEF LogReference
<1>5. CASE JournalReference
  BY <1>5, CaseMoves DEF JournalReference
<1>6. CASE ExecuteCandidate
  BY <1>6, CaseMoves DEF ExecuteCandidate
<1>7. CASE LogCandidate
  BY <1>0, <1>7, CaseMoves, LoggedRows, LoggedAppend DEF LogCandidate
<1>8. CASE JournalCandidate \/ Compare
  BY <1>8, CaseMoves DEF JournalCandidate, Compare
<1>9. CASE JournalCompleted
  BY <1>9, CaseMoves DEF JournalCompleted
<1> QED BY <1>1, <1>2, <1>3, <1>4, <1>5, <1>6, <1>7, <1>8, <1>9 DEF CaseStep

\* A comparison that passes is backed by the rows just logged.
LEMMA ComparisonBacked ==
    ASSUME ControlInv, ObservedInv, CurrentBacking, Compare
    PROVE  BackedBy(referenceLog, candidateLog,
                    [case_id |-> current,
                     passed  |-> Agree(rawReference[current], rawCandidate[current])])
<1>1. /\ rawReference[current] \in Observation
      /\ rawCandidate[current] \in Observation
      /\ Logged(referenceLog, current, rawReference[current])
      /\ Logged(candidateLog, current, rawCandidate[current])
  BY CaseMoves DEF ObservedInv, CurrentBacking, ReferenceSeen, CandidateSeen
<1> QED BY <1>1 DEF BackedBy, Agree

LEMMA CaseStepMemoryBacked ==
    /\ ControlInv /\ PositionInv /\ ObservedInv /\ TallyInv /\ TypeOK
    /\ CurrentBacking /\ MemoryBacked /\ CaseStep
    => MemoryBacked'
<1> SUFFICES ASSUME ControlInv, PositionInv, ObservedInv, TallyInv, TypeOK,
                    CurrentBacking, MemoryBacked, CaseStep
             PROVE  MemoryBacked'
  OBVIOUS
<1>1. \A i \in DOMAIN caseResults :
        BackedBy(referenceLog', candidateLog', caseResults[i])
  BY BackedKept DEF MemoryBacked, Backed
<1>2. CASE caseResults' = caseResults
  BY <1>1, <1>2 DEF MemoryBacked, Backed
<1>3. CASE Compare
  <2> DEFINE result == [case_id |-> current,
                        passed  |-> Agree(rawReference[current], rawCandidate[current])]
  <2>1. BackedBy(referenceLog', candidateLog', result)
    BY <1>3, ComparisonBacked DEF Compare
  <2>2. /\ caseResults' = Append(caseResults, result)
        /\ caseResults \in Seq(CaseResult \cup {result})
    BY <1>3 DEF Compare, TallyInv
  <2> HIDE DEF result
  <2>3. /\ DOMAIN caseResults = 1 .. Len(caseResults) /\ Len(caseResults) \in Nat
        /\ DOMAIN caseResults' = 1 .. Len(caseResults) + 1
        /\ caseResults'[Len(caseResults) + 1] = result
        /\ \A i \in 1 .. Len(caseResults) : caseResults'[i] = caseResults[i]
    BY <2>2, AppendFacts
  <2> QED BY <1>1, <2>1, <2>3 DEF MemoryBacked, Backed
<1>4. caseResults' = caseResults \/ Compare
  BY DEF CaseStep, NextCase, JournalStarted, Supported, Unsupported, JournalUnsupported,
         ExecuteReference, LogReference, JournalReference, ExecuteCandidate, LogCandidate,
         JournalCandidate, JournalCompleted
<1> QED BY <1>2, <1>3, <1>4

LEMMA CaseStepJournalBacked ==
    /\ ControlInv /\ PositionInv /\ ObservedInv /\ TallyInv /\ TypeOK
    /\ MemoryBacked /\ JournalBacked /\ CaseStep
    => JournalBacked'
<1> SUFFICES ASSUME ControlInv, PositionInv, ObservedInv, TallyInv, TypeOK,
                    MemoryBacked, JournalBacked, CaseStep
             PROVE  JournalBacked'
  OBVIOUS
<1>1. \A i \in DOMAIN journal : journal[i].event = "case_completed" =>
        BackedBy(referenceLog', candidateLog', RowResult(journal[i]))
  BY BackedKept DEF JournalBacked, Backed
<1>2. CASE journal' = journal
  BY <1>1, <1>2 DEF JournalBacked, Backed
<1>3. CASE JournalCompleted
  <2> DEFINE last == Last(caseResults)
  <2>1. /\ caseResults \in Seq(CaseResult) /\ caseResults # <<>>
        /\ last.case_id = current
    BY <1>3, CaseMoves DEF TallyInv
  <2>2. last \in CaseResult /\ Backed(last)
    BY <2>1 DEF MemoryBacked, Last
  <2>3. BackedBy(referenceLog', candidateLog',
                 [case_id |-> current, passed |-> Outcome(last) = "passed"])
    <3>1. BackedBy(referenceLog', candidateLog', last)
      BY <2>2, BackedKept DEF Backed
    <3>2. Outcome(last) = "passed" <=> last.passed
      BY DEF Outcome
    <3> QED BY <2>1, <3>1, <3>2 DEF BackedBy
  <2>4. Record("case_completed", Outcome(last))
    BY <1>3 DEF JournalCompleted
  <2> HIDE DEF last
  <2> QED BY <1>1, <2>3, <2>4, RecordBacked DEF JournalBacked, Backed
<1>4. \/ journal' = journal \/ JournalCompleted
      \/ \E event, info : event # "case_completed" /\ Record(event, info)
  BY DEF CaseStep, NextCase, JournalStarted, Supported, Unsupported, JournalUnsupported,
         ExecuteReference, LogReference, JournalReference, ExecuteCandidate, LogCandidate,
         JournalCandidate, Compare, Event
<1>5. CASE \E event, info : event # "case_completed" /\ Record(event, info)
  <2>1. PICK event, info : event # "case_completed" /\ Record(event, info)
    BY <1>5
  <2> QED BY <1>1, <2>1, RecordBacked DEF JournalBacked, Backed
<1> QED BY <1>2, <1>3, <1>4, <1>5

LEMMA CaseStepDocumentsBacked ==
    ControlInv /\ PositionInv /\ ObservedInv /\ TypeOK /\ DocumentsBacked /\ CaseStep
        => DocumentsBacked'
<1> SUFFICES ASSUME ControlInv, PositionInv, ObservedInv, TypeOK, DocumentsBacked, CaseStep
             PROVE  DocumentsBacked'
  OBVIOUS
<1>1. UNCHANGED <<partial, output>>
  BY DEF CaseStep, NextCase, JournalStarted, Supported, Unsupported, JournalUnsupported,
         ExecuteReference, LogReference, JournalReference, ExecuteCandidate, LogCandidate,
         JournalCandidate, Compare, JournalCompleted
<1>2. partial # NoDocument => \A i \in DOMAIN partial.cases :
        BackedBy(referenceLog', candidateLog', partial.cases[i])
  BY BackedKept DEF DocumentsBacked, Backed
<1>3. output # NoDocument => \A i \in DOMAIN output.cases :
        BackedBy(referenceLog', candidateLog', output.cases[i])
  BY BackedKept DEF DocumentsBacked, Backed
<1> QED BY <1>1, <1>2, <1>3 DEF DocumentsBacked, Backed

LEMMA FrameStepBacking == ControlInv /\ TypeOK /\ BackingInv /\ FrameStep => BackingInv'
<1> SUFFICES ASSUME ControlInv, TypeOK, BackingInv, FrameStep PROVE BackingInv'
  OBVIOUS
<1>1. CurrentBacking'
  BY FrameMoves DEF FrameStep, CurrentBacking, ReferenceSeen, CandidateSeen
<1>2. UNCHANGED <<referenceLog, candidateLog>>
  BY FrameStepLogs
<1>3. UNCHANGED <<caseResults, partial>>
  BY DEF FrameStep, JournalRunStarted, OpenReference, OpenCandidate, JournalRunFailed,
         CloseReference, CloseCandidate, Publish, JournalRunCompleted
<1>4. MemoryBacked'
  BY <1>2, <1>3 DEF BackingInv, MemoryBacked, Backed
<1>5. JournalBacked'
  <2>1. \/ journal' = journal
        \/ \E event, info : event # "case_completed" /\ Record(event, info)
    BY DEF FrameStep, JournalRunStarted, OpenReference, OpenCandidate, JournalRunFailed,
           CloseReference, CloseCandidate, Publish, JournalRunCompleted, Event
  <2>2. CASE journal' = journal
    BY <1>2, <2>2 DEF BackingInv, JournalBacked, Backed
  <2>3. CASE \E event, info : event # "case_completed" /\ Record(event, info)
    <3>1. PICK event, info : event # "case_completed" /\ Record(event, info)
      BY <2>3
    <3>2. \A i \in DOMAIN journal : journal[i].event = "case_completed" =>
            BackedBy(referenceLog, candidateLog, RowResult(journal[i]))
      BY DEF BackingInv, JournalBacked, Backed
    <3> QED BY <1>2, <3>1, <3>2, RecordBacked DEF JournalBacked, Backed
  <2> QED BY <2>1, <2>2, <2>3
<1>6. DocumentsBacked'
  <2>1. output' = output \/ output'.cases = caseResults
    <3>1. FrameStep => output' = output \/ Publish
      BY DEF FrameStep, JournalRunStarted, OpenReference, OpenCandidate, JournalRunFailed,
             CloseReference, CloseCandidate, JournalRunCompleted
    <3>2. Publish => output'.cases = caseResults
      BY DEF Publish
    <3> QED BY <3>1, <3>2
  <2> QED BY <1>2, <1>3, <2>1 DEF BackingInv, MemoryBacked, DocumentsBacked, Backed
<1> QED BY <1>1, <1>4, <1>5, <1>6 DEF BackingInv

\* A checkpoint writes the results in memory.
LEMMA PersistStepBacking == ControlInv /\ BackingInv /\ PersistStep => BackingInv'
<1> SUFFICES ASSUME ControlInv, BackingInv, PersistStep PROVE BackingInv'
  OBVIOUS
<1>1. UNCHANGED <<progress, results, raws, journal, logs, output>> /\ At' = At
  BY PersistStepKeeps, PersistStepMoves
<1>2. CurrentBacking' /\ MemoryBacked' /\ JournalBacked'
  BY <1>1 DEF BackingInv, CurrentBacking, MemoryBacked, JournalBacked, Backed
<1>3. partial' = partial \/ (partial' # NoDocument /\ partial'.cases = caseResults)
      \/ partial' = NoDocument
  BY DEF PersistStep, WriteState, WritePartial, WriteRawReference, WriteRawCandidate
<1>4. DocumentsBacked'
  BY <1>1, <1>3 DEF BackingInv, MemoryBacked, DocumentsBacked, Backed
<1> QED BY <1>2, <1>4 DEF BackingInv

LEMMA InitBacking == Init => BackingInv
<1> SUFFICES ASSUME Init PROVE BackingInv
  OBVIOUS
<1>1. At = "journal_run_started"
  BY DEF Init, At, PersistPoints
<1> QED
  BY <1>1 DEF Init, BackingInv, CurrentBacking, MemoryBacked, JournalBacked,
              DocumentsBacked, ReferenceSeen, CandidateSeen

\* Whatever fails, and however often a run is cut short, no document of the run
\* calls a case passed unless both progress logs hold the rows that show it.
THEOREM PassesBacked == Spec => []PassesAreBacked
<1> DEFINE Inv == ControlInv /\ PositionInv /\ ObservedInv /\ TallyInv /\ TypeOK
<1>1. Inv /\ BackingInv /\ [Next]_vars => BackingInv'
  <2> SUFFICES ASSUME Inv, BackingInv, [Next]_vars PROVE BackingInv'
    OBVIOUS
  <2>1. CASE PersistStep
    BY <2>1, PersistStepBacking
  <2>2. CASE CaseStep
    BY <2>2, CaseStepCurrentBacking, CaseStepMemoryBacked, CaseStepJournalBacked,
       CaseStepDocumentsBacked DEF BackingInv
  <2>3. CASE FrameStep
    BY <2>3, FrameStepBacking
  <2>4. CASE Fault
    <3>1. UNCHANGED <<progress, results, raws, targets, journal, logs, dumps, output>>
      BY <2>4, FaultKeeps
    <3>2. At' = At \/ At' \notin ReferenceSeen
      BY <2>4, QuietMoves DEF ReferenceSeen, CandidateSeen, ClosingPoints
    <3> QED BY <3>1, <3>2 DEF BackingInv, CurrentBacking, MemoryBacked, JournalBacked,
                  DocumentsBacked, Backed, ReferenceSeen
  <2>5. CASE UNCHANGED vars
    BY <2>5 DEF vars, At, BackingInv, CurrentBacking, MemoryBacked, JournalBacked,
                DocumentsBacked, Backed
  <2> QED BY <2>1, <2>2, <2>3, <2>4, <2>5 DEF Next, Progress, Ending
<1>2. BackingInv => PassesAreBacked
  BY DEF BackingInv, JournalBacked, DocumentsBacked, PassesAreBacked
<1>3. Spec => []Inv
  BY ControlCorrect, PositionCorrect, ObservedCorrect, TallyCorrect, TypeCorrect, PTL
<1> QED BY <1>1, <1>2, <1>3, InitBacking, PTL DEF Spec

-----------------------------------------------------------------------------
(* Layer 7: nothing written is revised.                                    *)

LEMMA PrefixFacts ==
    ASSUME NEW S, NEW s \in Seq(S), NEW x
    PROVE  IsPrefix(s, s) /\ IsPrefix(s, Append(s, x))
<1>1. s \in Seq(S \cup {x}) /\ x \in S \cup {x}
  OBVIOUS
<1>2. SubSeq(s, 1, Len(s)) = SubSeq(Append(s, x), 1, Len(s))
  <2>1. /\ Len(s) \in Nat
        /\ Append(s, x) \in Seq(S \cup {x})
        /\ Len(Append(s, x)) = Len(s) + 1
        /\ \A i \in 1 .. Len(s) : Append(s, x)[i] = s[i]
    BY <1>1, AppendFacts
  <2> QED BY <1>1, <2>1
<1> QED BY <1>1, <1>2, AppendFacts DEF IsPrefix

\* The state file is written by persist only, and the report by Publish only.
LEMMA StateAndOutput ==
    /\ PersistStep => state' = state \/ state'.position = position
    /\ CaseStep => UNCHANGED <<state, output>>
    /\ FrameStep => UNCHANGED state
    /\ FrameStep => output' = output \/ Publish
<1>1. PersistStep => state' = state \/ state'.position = position
  BY DEF PersistStep, WriteState, WritePartial, WriteRawReference, WriteRawCandidate
<1>2. CaseStep => UNCHANGED <<state, output>>
  BY DEF CaseStep, NextCase, JournalStarted, Supported, Unsupported, JournalUnsupported,
         ExecuteReference, LogReference, JournalReference, ExecuteCandidate, LogCandidate,
         JournalCandidate, Compare, JournalCompleted
<1>3. FrameStep => UNCHANGED state
  BY DEF FrameStep, JournalRunStarted, OpenReference, OpenCandidate, JournalRunFailed,
         CloseReference, CloseCandidate, Publish, JournalRunCompleted
<1>4. FrameStep => output' = output \/ Publish
  BY DEF FrameStep, JournalRunStarted, OpenReference, OpenCandidate, JournalRunFailed,
         CloseReference, CloseCandidate, JournalRunCompleted
<1> QED BY <1>1, <1>2, <1>3, <1>4

LEMMA PersistStepHistory == TypeOK /\ ControlInv /\ HistoryInv /\ PersistStep => HistoryInv'
<1> SUFFICES ASSUME TypeOK, ControlInv, HistoryInv, PersistStep PROVE HistoryInv'
  OBVIOUS
<1>1. UNCHANGED <<progress, output>> /\ At' = At
  BY PersistStepKeeps, PersistStepMoves
<1>2. state' = state \/ state'.position = position
  BY StateAndOutput
<1> QED BY <1>1, <1>2 DEF HistoryInv, TypeOK

LEMMA CaseStepHistory == TypeOK /\ ControlInv /\ HistoryInv /\ CaseStep => HistoryInv'
<1> SUFFICES ASSUME TypeOK, ControlInv, HistoryInv, CaseStep PROVE HistoryInv'
  OBVIOUS
<1>0. UNCHANGED <<state, output>>
  BY StateAndOutput
<1>1. position' = position \/ position' = position + 1
  BY DEF CaseStep, NextCase, JournalStarted, Supported, Unsupported, JournalUnsupported,
         ExecuteReference, LogReference, JournalReference, ExecuteCandidate, LogCandidate,
         JournalCandidate, Compare, JournalCompleted
<1>2. At \in LoopPoints
  BY CaseMoves DEF CaseStep, LoopPoints
<1>3. output = NoDocument
  BY <1>2 DEF HistoryInv, LoopPoints, PublishedPoints
<1>4. state # NoDocument => state.position \in Nat
  BY DEF TypeOK, StateDocument
<1> QED BY <1>0, <1>1, <1>3, <1>4 DEF HistoryInv, TypeOK

LEMMA FrameStepHistory == ControlInv /\ HistoryInv /\ FrameStep => HistoryInv'
<1> SUFFICES ASSUME ControlInv, HistoryInv, FrameStep PROVE HistoryInv'
  OBVIOUS
<1>1. UNCHANGED <<state, position>>
  BY DEF FrameStep, JournalRunStarted, OpenReference, OpenCandidate, JournalRunFailed,
         CloseReference, CloseCandidate, Publish, JournalRunCompleted
<1>2. CASE Publish \/ JournalRunCompleted
  BY <1>1, <1>2, FrameMoves DEF HistoryInv, PublishedPoints
<1>3. CASE ~(Publish \/ JournalRunCompleted)
  <2>1. output' = output
    BY <1>3, StateAndOutput
  <2>2. At \notin PublishedPoints \cup {"raised", "killed"}
    BY <1>3, FrameMoves DEF FrameStep, PublishedPoints
  <2> QED BY <1>1, <2>1, <2>2 DEF HistoryInv
<1> QED BY <1>1, <1>2, <1>3 DEF HistoryInv

\* After the report an exception leaves evaluate at once.
LEMMA FaultHistory == ControlInv /\ HistoryInv /\ Fault => HistoryInv'
<1> SUFFICES ASSUME ControlInv, HistoryInv, Fault PROVE HistoryInv'
  OBVIOUS
<1>1. UNCHANGED <<state, position, output>>
  BY FaultKeeps
<1>2. pc \notin Ended
  BY DEF Fault, Raise, TransportRaises, Kill, Ended
<1>3. At \in PublishedPoints \cup {"raised", "killed"} => ~InTry /\ ~InExcept
  BY DEF ControlInv, PersistCalls, At, InTry, InExcept, PublishedPoints, TryPoints,
         LoopPoints, PersistPoints
<1>4. ~InTry /\ ~InExcept => At' \in {"raised", "killed"}
  BY DEF Fault, Raise, TransportRaises, Kill, Unwind, At, PersistPoints
<1> QED BY <1>1, <1>3, <1>4 DEF HistoryInv

LEMMA HistoryCorrect == Spec => []HistoryInv
<1> DEFINE Inv == ControlInv /\ PositionInv /\ ObservedInv /\ TypeOK
<1>1. Init => HistoryInv
  BY DEF Init, HistoryInv
<1>2. Inv /\ HistoryInv /\ [Next]_vars => HistoryInv'
  <2>1. UNCHANGED vars /\ HistoryInv => HistoryInv'
    BY DEF vars, HistoryInv, At
  <2> QED
    BY <2>1, PersistStepHistory, CaseStepHistory, FrameStepHistory, FaultHistory
       DEF Next, Progress, Ending
<1>3. Spec => []Inv
  BY ControlCorrect, PositionCorrect, ObservedCorrect, TypeCorrect, PTL
<1> QED BY <1>1, <1>2, <1>3, PTL DEF Spec

\* No step rewrites a row of the journal or of a progress log, withdraws or
\* changes a published result document, or takes the state file back to an
\* earlier case: whatever was on disk when the process died is what happened.
THEOREM HistoryIsKept == Spec => HistoryKept
<1> DEFINE Inv == ControlInv /\ PositionInv /\ ObservedInv /\ TypeOK
           Kept == /\ IsPrefix(journal, journal')
                   /\ IsPrefix(referenceLog, referenceLog')
                   /\ IsPrefix(candidateLog, candidateLog')
                   /\ output # NoDocument => output' = output
                   /\ state # NoDocument => state'.position >= state.position
<1>1. Inv /\ HistoryInv /\ [Next]_vars => [Kept]_vars
  <2> SUFFICES ASSUME Inv, HistoryInv, Next PROVE Kept
    OBVIOUS
  <2>0. /\ journal \in Seq(JournalRow)
        /\ referenceLog \in Seq(LogRow) /\ candidateLog \in Seq(LogRow)
    BY DEF TypeOK
  <2>1. journal' = journal \/ \E row : journal' = Append(journal, row)
    BY DEF Next, Progress, PersistStep, CaseStep, FrameStep, Fault, Ending, vars,
           WriteState, WritePartial, WriteRawReference, WriteRawCandidate,
           NextCase, JournalStarted, Supported, Unsupported, JournalUnsupported,
           ExecuteReference, LogReference, JournalReference, ExecuteCandidate,
           LogCandidate, JournalCandidate, Compare, JournalCompleted,
           JournalRunStarted, OpenReference, OpenCandidate, JournalRunFailed,
           CloseReference, CloseCandidate, Publish, JournalRunCompleted,
           Raise, TransportRaises, Kill, Unwind, Record
  <2>2. UNCHANGED logs \/ LogReference \/ LogCandidate
    BY PersistStepKeeps, CaseStepLogs, FrameStepLogs, FaultKeeps
       DEF Next, Progress, Ending, vars
  <2>3. /\ referenceLog' = referenceLog \/ \E row : referenceLog' = Append(referenceLog, row)
        /\ candidateLog' = candidateLog \/ \E row : candidateLog' = Append(candidateLog, row)
    BY <2>2 DEF LogReference, LogCandidate
  <2>4. output # NoDocument => output' = output
    <3>1. Publish => output = NoDocument
      BY FrameMoves DEF HistoryInv, PublishedPoints
    <3>2. output' = output \/ Publish
      BY StateAndOutput, PersistStepKeeps, FaultKeeps DEF Next, Progress, Ending, vars
    <3> QED BY <3>1, <3>2
  <2>5. state # NoDocument => state'.position >= state.position
    <3>1. state' = state \/ state'.position = position
      BY StateAndOutput, FaultKeeps DEF Next, Progress, Ending, vars
    <3>2. state # NoDocument => state.position \in Nat
      BY DEF TypeOK, StateDocument
    <3> QED BY <3>1, <3>2 DEF HistoryInv, TypeOK
  <2> QED BY <2>0, <2>1, <2>3, <2>4, <2>5, PrefixFacts
<1>2. Spec => [](Inv /\ HistoryInv)
  BY ControlCorrect, PositionCorrect, ObservedCorrect, TypeCorrect, HistoryCorrect, PTL
<1> QED BY <1>1, <1>2, PTL DEF Spec, HistoryKept

-----------------------------------------------------------------------------
(* Layer 8: the executions counted.                                        *)

LEMMA CaseStepQuery == TypeOK /\ ControlInv /\ PositionInv /\ ObservedInv /\ QueryInv /\ CaseStep => QueryInv'
<1> SUFFICES ASSUME TypeOK, ControlInv, PositionInv, ObservedInv, QueryInv, CaseStep
             PROVE  QueryInv'
  OBVIOUS
<1>1. /\ referenceLog \in Seq(LogRow) /\ Len(referenceLog) \in Nat
      /\ candidateLog \in Seq(LogRow) /\ Len(candidateLog) \in Nat
      /\ queries \in Nat
  BY DEF TypeOK
<1>2. Live /\ Live'
  BY CaseMoves
<1> USE DEF QueryInv, OpeningPoints
<1>3. CASE ExecuteReference
  <2>1. At = "execute_reference" /\ At' = "log_reference"
    BY <1>3, CaseMoves
  <2>2. queries' = queries + 1 /\ UNCHANGED <<reuse, referenceLog, candidateLog>>
    BY <1>3 DEF ExecuteReference
  <2>3. queries = Len(referenceLog) + (IF reuse THEN 0 ELSE Len(candidateLog))
    BY <1>1, <1>2, <2>1
  <2>4. CASE reuse
    <3>1. queries = Len(referenceLog)
      BY <1>1, <2>3, <2>4
    <3> QED BY <1>1, <2>1, <2>2, <2>4, <3>1
  <2>5. CASE ~reuse
    <3>1. queries = Len(referenceLog) + Len(candidateLog)
      BY <2>3, <2>5
    <3> QED BY <1>1, <2>1, <2>2, <2>5, <3>1
  <2> QED BY <2>4, <2>5
<1>4. CASE LogReference
  <2>1. Len(referenceLog') = Len(referenceLog) + 1
    BY <1>1, <1>4, LoggedRows, AppendFacts DEF LogReference
  <2> QED BY <1>1, <1>2, <1>4, <2>1, CaseMoves DEF LogReference
<1>5. CASE ExecuteCandidate
  <2>1. At = "execute_candidate" /\ At' = "log_candidate"
    BY <1>5, CaseMoves
  <2>2. /\ queries' = IF reuse THEN queries ELSE queries + 1
        /\ UNCHANGED <<reuse, referenceLog, candidateLog>>
    BY <1>5 DEF ExecuteCandidate
  <2>3. queries = Len(referenceLog) + (IF reuse THEN 0 ELSE Len(candidateLog))
    BY <1>1, <1>2, <2>1
  <2>4. CASE reuse
    <3>1. queries' = queries /\ queries = Len(referenceLog)
      BY <1>1, <2>2, <2>3, <2>4
    <3> QED BY <1>1, <2>1, <2>2, <2>4, <3>1
  <2>5. CASE ~reuse
    <3>1. queries' = queries + 1 /\ queries = Len(referenceLog) + Len(candidateLog)
      BY <1>1, <2>2, <2>3, <2>5
    <3> QED BY <1>1, <2>1, <2>2, <2>5, <3>1
  <2> QED BY <2>4, <2>5
<1>6. CASE LogCandidate
  <2>1. Len(candidateLog') = Len(candidateLog) + 1
    BY <1>1, <1>6, LoggedRows, AppendFacts DEF LogCandidate
  <2> QED BY <1>1, <1>2, <1>6, <2>1, CaseMoves DEF LogCandidate
<1>7. CASE NextCase
  BY <1>1, <1>2, <1>7, CaseMoves DEF NextCase
<1>8. CASE \/ JournalStarted \/ Supported \/ Unsupported \/ JournalUnsupported
           \/ JournalReference \/ JournalCandidate \/ Compare \/ JournalCompleted
  <2>1. UNCHANGED <<queries, reuse, referenceLog, candidateLog>>
    BY <1>8 DEF JournalStarted, Supported, Unsupported, JournalUnsupported,
                JournalReference, JournalCandidate, Compare, JournalCompleted
  <2>2. /\ At \notin {"log_reference", "log_candidate"}
        /\ At' \notin {"log_reference", "log_candidate"} \cup OpeningPoints
    BY <1>8, CaseMoves
  <2> QED BY <1>2, <2>1, <2>2
<1> QED BY <1>3, <1>4, <1>5, <1>6, <1>7, <1>8 DEF CaseStep

LEMMA FrameStepQuery == ControlInv /\ QueryInv /\ FrameStep => QueryInv'
<1> SUFFICES ASSUME ControlInv, QueryInv, FrameStep PROVE QueryInv'
  OBVIOUS
<1>1. UNCHANGED <<queries, referenceLog, candidateLog>>
  BY DEF FrameStep, JournalRunStarted, OpenReference, OpenCandidate, JournalRunFailed,
         CloseReference, CloseCandidate, Publish, JournalRunCompleted
<1>2. reuse' = reuse \/ OpenCandidate
  BY DEF FrameStep, JournalRunStarted, OpenReference, JournalRunFailed,
         CloseReference, CloseCandidate, Publish, JournalRunCompleted
<1>3. /\ Live' = Live
      /\ At' \in OpeningPoints => At \in OpeningPoints
      /\ At \notin {"log_reference", "log_candidate"}
      /\ At' \notin {"log_reference", "log_candidate"}
      /\ OpenCandidate => At \in OpeningPoints
  BY FrameMoves DEF FrameStep, OpeningPoints
<1>4. CASE reuse' = reuse
  BY <1>1, <1>3, <1>4 DEF QueryInv
<1>5. CASE OpenCandidate
  BY <1>1, <1>3, <1>5 DEF QueryInv
<1> QED BY <1>2, <1>4, <1>5

LEMMA QuietQuery ==
    ControlInv /\ QueryInv /\ (PersistStep \/ Fault \/ UNCHANGED vars) => QueryInv'
<1> SUFFICES ASSUME ControlInv, QueryInv, PersistStep \/ Fault \/ UNCHANGED vars
             PROVE  QueryInv'
  OBVIOUS
<1>1. UNCHANGED <<queries, reuse, referenceLog, candidateLog>> /\ (Live' => Live)
  BY QuietMoves
<1>2. CASE At' = At
  BY <1>1, <1>2 DEF QueryInv
<1>3. CASE ~Live' /\ At' \notin OpeningPoints
  BY <1>3 DEF QueryInv
<1> QED BY <1>2, <1>3, QuietMoves DEF OpeningPoints, ClosingPoints

LEMMA QueriesCorrect == Spec => []QueryInv
<1> DEFINE Inv == TypeOK /\ ControlInv /\ PositionInv /\ ObservedInv
<1>1. Init => QueryInv
  BY DEF Init, QueryInv, Live, At, PersistPoints
<1>2. Inv /\ QueryInv /\ [Next]_vars => QueryInv'
  BY CaseStepQuery, FrameStepQuery, QuietQuery DEF Next, Progress, Ending
<1>3. Spec => []Inv
  BY ControlCorrect, PositionCorrect, ObservedCorrect, TypeCorrect, PTL
<1> QED BY <1>1, <1>2, <1>3, PTL DEF Spec

-----------------------------------------------------------------------------
(* Layer 9: the targets.                                                   *)

LEMMA CaseStepTarget == ControlInv /\ TargetInv /\ CaseStep => TargetInv'
<1> SUFFICES ASSUME ControlInv, TargetInv, CaseStep PROVE TargetInv'
  OBVIOUS
<1>1. UNCHANGED <<reference, candidate>> /\ Live
  BY CaseMoves DEF CaseStep, NextCase, JournalStarted, Supported, Unsupported, JournalUnsupported,
         ExecuteReference, LogReference, JournalReference, ExecuteCandidate, LogCandidate,
         JournalCandidate, Compare, JournalCompleted
<1>2. At \in LoopPoints /\ At' \in LoopPoints \cup {"close_reference"}
  BY CaseMoves DEF CaseStep, LoopPoints
<1> QED BY <1>1, <1>2 DEF TargetInv, LoopPoints, ClosingPoints, ReportPoints, PublishedPoints

LEMMA FrameStepTarget == ControlInv /\ TargetInv /\ FrameStep => TargetInv'
<1> SUFFICES ASSUME ControlInv, TargetInv, FrameStep PROVE TargetInv'
  OBVIOUS
<1>0. Live' = Live
  BY FrameMoves
<1> USE DEF TargetInv, LoopPoints, ClosingPoints, ReportPoints, PublishedPoints
<1>1. CASE JournalRunStarted
  BY <1>1, FrameMoves
<1>2. CASE OpenReference
  BY <1>2, FrameMoves DEF OpenReference
<1>3. CASE OpenCandidate
  BY <1>0, <1>3, FrameMoves DEF OpenCandidate
<1>4. CASE JournalRunFailed
  BY <1>0, <1>4, FrameMoves DEF ControlInv, Live, OpeningPoints, TryPoints, JournalRunFailed, At, InExcept, PersistPoints
<1>5. CASE CloseReference
  BY <1>0, <1>5, FrameMoves DEF CloseReference, Close
<1>6. CASE CloseCandidate
  BY <1>0, <1>6, FrameMoves DEF CloseCandidate, Close
<1>7. CASE Publish
  BY <1>0, <1>7, FrameMoves DEF Publish
<1>8. CASE JournalRunCompleted
  BY <1>0, <1>8, FrameMoves DEF JournalRunCompleted
<1> QED BY <1>1, <1>2, <1>3, <1>4, <1>5, <1>6, <1>7, <1>8 DEF FrameStep

LEMMA TargetsCorrect == Spec => []TargetInv
<1>1. Init => TargetInv
  BY DEF Init, TargetInv, Live, At, PersistPoints, LoopPoints, ClosingPoints, ReportPoints,
         PublishedPoints
<1>2. ControlInv /\ TargetInv /\ [Next]_vars => TargetInv'
  <2>1. ControlInv /\ TargetInv /\ (PersistStep \/ Fault \/ UNCHANGED vars) => TargetInv'
    BY QuietMoves DEF TargetInv
  <2> QED BY <2>1, CaseStepTarget, FrameStepTarget DEF Next, Progress, Ending
<1> QED BY <1>1, <1>2, ControlCorrect, PTL DEF Spec

-----------------------------------------------------------------------------
(* Layer 10: the outcomes in the journal.                                  *)

\* A row that a step appends to the journal.
LEMMA RecordFacts ==
    ASSUME TypeOK, NEW event, NEW info, Record(event, info)
    PROVE  /\ Len(journal) \in Nat
           /\ DOMAIN journal = 1 .. Len(journal)
           /\ DOMAIN journal' = 1 .. Len(journal) + 1
           /\ \A i \in DOMAIN journal : journal'[i] = journal[i]
           /\ journal'[Len(journal) + 1].event = event
           /\ journal'[Len(journal) + 1].position = position
           /\ journal'[Len(journal) + 1].case_id = current
           /\ journal'[Len(journal) + 1].info = info
<1> DEFINE row == [event |-> event, position |-> position, case_id |-> current, info |-> info]
<1>1. journal' = Append(journal, row) /\ journal \in Seq(JournalRow \cup {row})
  BY DEF Record, TypeOK
<1>2. /\ row.event = event /\ row.position = position
      /\ row.case_id = current /\ row.info = info
  OBVIOUS
<1> HIDE DEF row
<1> QED BY <1>1, <1>2, AppendFacts

\* A step that decides no case: it may record something else.
Undeciding ==
    \/ journal' = journal
    \/ \E event, info : event \notin DecidedEvent /\ Record(event, info)

LEMMA UndecidingFacts ==
    ASSUME TypeOK, Undeciding
    PROVE  /\ Decided' = Decided
           /\ \A k \in Decided : k \in DOMAIN journal /\ journal'[k] = journal[k]
<1>1. CASE journal' = journal
  BY <1>1 DEF Decided
<1>2. CASE \E event, info : event \notin DecidedEvent /\ Record(event, info)
  <2>1. PICK event, info : event \notin DecidedEvent /\ Record(event, info)
    BY <1>2
  <2> QED BY <2>1, RecordFacts DEF Decided, DecidedEvent
<1> QED BY <1>1, <1>2 DEF Undeciding

LEMMA DecidingFacts ==
    ASSUME TypeOK, NEW event \in DecidedEvent, NEW info, Record(event, info)
    PROVE  /\ Decided' = Decided \cup {Len(journal) + 1}
           /\ Len(journal) + 1 \notin Decided
           /\ \A k \in Decided : k \in DOMAIN journal /\ journal'[k] = journal[k]
BY RecordFacts DEF Decided, DecidedEvent

LEMMA CaseStepJournal == CaseStep => Undeciding \/ JournalUnsupported \/ JournalCompleted
BY DEF CaseStep, NextCase, JournalStarted, Supported, Unsupported, ExecuteReference,
       LogReference, JournalReference, ExecuteCandidate, LogCandidate, JournalCandidate,
       Compare, Undeciding, DecidedEvent

LEMMA FrameStepJournal == FrameStep => Undeciding
BY DEF FrameStep, JournalRunStarted, OpenReference, OpenCandidate, JournalRunFailed,
       CloseReference, CloseCandidate, Publish, JournalRunCompleted, Undeciding, DecidedEvent

\* The two rows that decide the current case.
LEMMA DecidingJournal ==
    /\ TypeOK /\ ControlInv /\ PositionInv /\ JournalInv
    /\ JournalUnsupported \/ JournalCompleted
    => JournalInv'
<1> SUFFICES ASSUME TypeOK, ControlInv, PositionInv, JournalInv,
                    JournalUnsupported \/ JournalCompleted
             PROVE  JournalInv'
  OBVIOUS
<1>1. PICK event, info : event \in DecidedEvent /\ Record(event, info)
  <2>1. JournalUnsupported => Record("case_unsupported", "none")
    BY DEF JournalUnsupported
  <2>2. JournalCompleted => Record("case_completed", Outcome(Last(caseResults)))
    BY DEF JournalCompleted
  <2>3. "case_unsupported" \in DecidedEvent /\ "case_completed" \in DecidedEvent
    BY DEF DecidedEvent
  <2> QED BY <2>1, <2>2, <2>3
<1>2. /\ At \in CasePoints /\ At' = "next_case"
      /\ Live /\ position' = position
  BY CaseMoves DEF JournalUnsupported, JournalCompleted, CasePoints, LoopPoints, CaseStep
<1>3. /\ position \in Nat /\ position >= 1 /\ current = Selected[position]
  BY <1>2 DEF PositionInv, TypeOK
<1>4. JournaledTo = position - 1 /\ JournaledTo' = position
  BY <1>2 DEF JournaledTo, CasePoints
<1> DEFINE new == Len(journal) + 1
<1>5. /\ Decided' = Decided \cup {new} /\ new \notin Decided
      /\ \A k \in Decided : journal'[k] = journal[k]
      /\ journal'[new].position = position /\ journal'[new].case_id = current
  BY <1>1, DecidingFacts, RecordFacts
<1> HIDE DEF new
<1>6. \A k \in Decided : /\ journal[k].position \in 1 .. position
                         /\ journal[k].position <= position - 1
                         /\ journal[k].case_id = Selected[journal[k].position]
  BY <1>2, <1>4 DEF JournalInv
<1>7. \A k \in Decided' : /\ journal'[k].position \in 1 .. position'
                          /\ journal'[k].case_id = Selected[journal'[k].position]
                          /\ journal'[k].position <= JournaledTo'
  BY <1>2, <1>3, <1>4, <1>5, <1>6
<1>8. \A k, l \in Decided' : journal'[k].position = journal'[l].position => k = l
  <2>1. \A k, l \in Decided : journal'[k].position = journal'[l].position => k = l
    BY <1>5 DEF JournalInv
  <2>2. \A k \in Decided : journal'[k].position # journal'[new].position
    BY <1>3, <1>5, <1>6
  <2> QED BY <1>5, <2>1, <2>2
<1>9. \A p \in 1 .. JournaledTo' : \E k \in Decided' : journal'[k].position = p
  <2>1. \A p \in 1 .. position - 1 : \E k \in Decided : journal[k].position = p
    BY <1>2, <1>4 DEF JournalInv
  <2> QED BY <1>3, <1>4, <1>5, <2>1
<1> QED BY <1>7, <1>8, <1>9 DEF JournalInv

LEMMA CaseStepJournalInv ==
    TypeOK /\ ControlInv /\ PositionInv /\ JournalInv /\ CaseStep => JournalInv'
<1> SUFFICES ASSUME TypeOK, ControlInv, PositionInv, JournalInv, CaseStep,
                    ~(JournalUnsupported \/ JournalCompleted)
             PROVE  JournalInv'
  BY DecidingJournal
<1>1. /\ Decided' = Decided
      /\ \A k \in Decided : journal'[k] = journal[k]
  BY CaseStepJournal, UndecidingFacts
<1>2. Live /\ Live'
  BY CaseMoves
<1>3. position \in Nat
  BY DEF TypeOK
<1>4. /\ position' \in Nat /\ position' >= position
      /\ JournaledTo' = JournaledTo
  <2>1. CASE NextCase
    BY <1>3, <2>1, CaseMoves DEF NextCase, JournaledTo, CasePoints, LoopPoints
  <2>2. CASE ~NextCase
    <3>1. position' = position
      BY <2>2 DEF CaseStep, JournalStarted, Supported, Unsupported, JournalUnsupported,
         ExecuteReference, LogReference, JournalReference, ExecuteCandidate, LogCandidate,
         JournalCandidate, Compare, JournalCompleted
    <3>2. At \in CasePoints /\ At' \in CasePoints
      BY <2>2, CaseMoves DEF CaseStep, CasePoints, LoopPoints
    <3> QED BY <1>3, <3>1, <3>2 DEF JournaledTo
  <2> QED BY <2>1, <2>2
<1> QED BY <1>1, <1>2, <1>3, <1>4 DEF JournalInv

LEMMA OtherJournalInv ==
    TypeOK /\ ControlInv /\ JournalInv /\ (PersistStep \/ FrameStep \/ Fault \/ UNCHANGED vars)
        => JournalInv'
<1> SUFFICES ASSUME TypeOK, ControlInv, JournalInv,
                    PersistStep \/ FrameStep \/ Fault \/ UNCHANGED vars
             PROVE  JournalInv'
  OBVIOUS
<1>1. Undeciding /\ position' = position
  <2>1. FrameStep => position' = position
    BY DEF FrameStep, JournalRunStarted, OpenReference, OpenCandidate, JournalRunFailed,
           CloseReference, CloseCandidate, Publish, JournalRunCompleted
  <2> QED BY <2>1, FrameStepJournal, QuietMoves DEF Undeciding
<1>2. Decided' = Decided /\ \A k \in Decided : journal'[k] = journal[k]
  BY <1>1, UndecidingFacts
<1>3. (Live' => Live) /\ (Live' => JournaledTo' = JournaledTo)
  <2>1. CASE FrameStep
    <3>1. At \notin CasePoints /\ At' \notin CasePoints
      BY <2>1, FrameMoves DEF FrameStep, CasePoints, LoopPoints
    <3> QED BY <1>1, <2>1, <3>1, FrameMoves DEF JournaledTo
  <2>2. CASE PersistStep \/ Fault \/ UNCHANGED vars
    BY <1>1, <2>2, QuietMoves DEF JournaledTo
  <2> QED BY <2>1, <2>2
<1> QED BY <1>1, <1>2, <1>3 DEF JournalInv

\* While nothing has failed, the journal holds exactly one outcome for each case
\* decided so far, under the case's own id and position; and no more than one
\* whatever happens.
THEOREM JournalCorrect == Spec => []JournalInv
<1> DEFINE Inv == TypeOK /\ ControlInv /\ PositionInv
<1>1. Init => JournalInv
  <2> SUFFICES ASSUME Init PROVE JournalInv
    OBVIOUS
  <2>1. At \notin CasePoints /\ position = 0
    BY DEF Init, At, PersistPoints, CasePoints, LoopPoints
  <2>2. Decided = {} /\ JournaledTo = 0
    BY <2>1 DEF Init, Decided, JournaledTo
  <2>3. 1 .. 0 = {}
    OBVIOUS
  <2> QED BY <2>1, <2>2, <2>3 DEF JournalInv
<1>2. Inv /\ JournalInv /\ [Next]_vars => JournalInv'
  BY CaseStepJournalInv, OtherJournalInv DEF Next, Progress, Ending
<1>3. Spec => []Inv
  BY ControlCorrect, PositionCorrect, TypeCorrect, PTL
<1> QED BY <1>1, <1>2, <1>3, PTL DEF Spec

-----------------------------------------------------------------------------
(* Layer 11: memory and journal.                                           *)

\* A step that neither decides a case nor records a decision.
LEMMA IdleMemory ==
    ASSUME TypeOK, MemoryInv, Undeciding, UNCHANGED results, Live' => Live,
           Live' => /\ At # "journal_completed" \/ At' = At
                    /\ At # "journal_unsupported" \/ At' = At
    PROVE  MemoryInv'
<1>1. Decided' = Decided /\ \A k \in Decided : journal'[k] = journal[k]
  BY UndecidingFacts
<1>2. SUFFICES ASSUME Live' PROVE MemoryInv'
  BY DEF MemoryInv
<1>3. /\ \A i : Pending(i) => Pending(i)'
      /\ \A i : PendingUnsupported(i) => PendingUnsupported(i)'
  BY <1>2 DEF Pending, PendingUnsupported
<1>4. /\ \A i \in DOMAIN caseResults :
           Pending(i) \/ \E k \in Decided : ResultRow(k, caseResults[i])
      /\ \A i \in DOMAIN unsupported :
           PendingUnsupported(i) \/ \E k \in Decided : UnsupportedRow(k, unsupported[i])
      /\ \A k \in Decided :
           \/ \E i \in DOMAIN caseResults : ResultRow(k, caseResults[i])
           \/ \E i \in DOMAIN unsupported : UnsupportedRow(k, unsupported[i])
  BY <1>2 DEF MemoryInv
<1>5. /\ \A k \in Decided, i \in DOMAIN caseResults :
           journal'[k].event = "case_completed" /\ journal'[k].case_id = caseResults[i].case_id
             /\ journal'[k].info = Outcome(caseResults[i]) <=> ResultRow(k, caseResults[i])
      /\ \A k \in Decided, i \in DOMAIN unsupported :
           journal'[k].event = "case_unsupported" /\ journal'[k].case_id = unsupported[i]
             <=> UnsupportedRow(k, unsupported[i])
  BY <1>1 DEF ResultRow, UnsupportedRow
<1>6. /\ \A i \in DOMAIN caseResults' :
           Pending(i)' \/ \E k \in Decided' : ResultRow(k, caseResults[i])'
      /\ \A i \in DOMAIN unsupported' :
           PendingUnsupported(i)' \/ \E k \in Decided' : UnsupportedRow(k, unsupported[i])'
      /\ \A k \in Decided' :
           \/ \E i \in DOMAIN caseResults' : ResultRow(k, caseResults[i])'
           \/ \E i \in DOMAIN unsupported' : UnsupportedRow(k, unsupported[i])'
  BY <1>1, <1>3, <1>4, <1>5 DEF ResultRow, UnsupportedRow, Outcome
<1> QED BY <1>6 DEF MemoryInv

LEMMA UnsupportedMemory ==
    TypeOK /\ ControlInv /\ PositionInv /\ MemoryInv /\ Unsupported => MemoryInv'
<1> SUFFICES ASSUME TypeOK, ControlInv, PositionInv, MemoryInv, Unsupported PROVE MemoryInv'
  OBVIOUS
<1>1. Live /\ At = "check_supports" /\ At' = "journal_unsupported"
  BY CaseMoves DEF CaseStep
<1>2. UNCHANGED <<caseResults, journal>> /\ unsupported' = Append(unsupported, current)
  BY DEF Unsupported
<1>3. /\ unsupported \in Seq(Case) /\ current \in Case
  BY <1>1, SelectedFacts DEF PositionInv, TypeOK, CasePoints, LoopPoints
<1>4. /\ Len(unsupported) \in Nat /\ Len(unsupported') = Len(unsupported) + 1
      /\ DOMAIN unsupported = 1 .. Len(unsupported)
      /\ DOMAIN unsupported' = 1 .. Len(unsupported) + 1
      /\ \A i \in DOMAIN unsupported : unsupported'[i] = unsupported[i]
  BY <1>2, <1>3, AppendFacts
<1>5. Decided' = Decided
  BY <1>2 DEF Decided
<1>6. /\ \A i \in DOMAIN caseResults : \E k \in Decided : ResultRow(k, caseResults[i])
      /\ \A i \in DOMAIN unsupported : \E k \in Decided : UnsupportedRow(k, unsupported[i])
      /\ \A k \in Decided :
           \/ \E i \in DOMAIN caseResults : ResultRow(k, caseResults[i])
           \/ \E i \in DOMAIN unsupported : UnsupportedRow(k, unsupported[i])
  BY <1>1 DEF MemoryInv, Pending, PendingUnsupported
<1>7. \A i \in DOMAIN caseResults' : \E k \in Decided' : ResultRow(k, caseResults[i])'
  BY <1>2, <1>5, <1>6 DEF ResultRow, Outcome
<1>8. \A i \in DOMAIN unsupported' :
        PendingUnsupported(i)' \/ \E k \in Decided' : UnsupportedRow(k, unsupported[i])'
  BY <1>1, <1>2, <1>4, <1>5, <1>6 DEF UnsupportedRow, PendingUnsupported
<1>9. \A k \in Decided' :
        \/ \E i \in DOMAIN caseResults' : ResultRow(k, caseResults[i])'
        \/ \E i \in DOMAIN unsupported' : UnsupportedRow(k, unsupported[i])'
  BY <1>2, <1>4, <1>5, <1>6 DEF ResultRow, UnsupportedRow, Outcome
<1> QED BY <1>7, <1>8, <1>9 DEF MemoryInv

LEMMA CompareMemory ==
    TypeOK /\ ControlInv /\ PositionInv /\ MemoryInv /\ Compare => MemoryInv'
<1> SUFFICES ASSUME TypeOK, ControlInv, PositionInv, MemoryInv, Compare PROVE MemoryInv'
  OBVIOUS
<1>1. Live /\ At = "compare" /\ At' = "journal_completed"
  BY CaseMoves DEF CaseStep
<1>2. PICK result : caseResults' = Append(caseResults, result)
  BY DEF Compare
<1>3. UNCHANGED <<unsupported, journal>>
  BY DEF Compare
<1>4. /\ Len(caseResults) \in Nat /\ Len(caseResults') = Len(caseResults) + 1
      /\ DOMAIN caseResults = 1 .. Len(caseResults)
      /\ DOMAIN caseResults' = 1 .. Len(caseResults) + 1
      /\ \A i \in DOMAIN caseResults : caseResults'[i] = caseResults[i]
  <2>1. caseResults \in Seq(CaseResult \cup {result})
    BY DEF TypeOK
  <2> QED BY <1>2, <2>1, AppendFacts
<1>5. Decided' = Decided
  BY <1>3 DEF Decided
<1>6. /\ \A i \in DOMAIN caseResults : \E k \in Decided : ResultRow(k, caseResults[i])
      /\ \A i \in DOMAIN unsupported : \E k \in Decided : UnsupportedRow(k, unsupported[i])
      /\ \A k \in Decided :
           \/ \E i \in DOMAIN caseResults : ResultRow(k, caseResults[i])
           \/ \E i \in DOMAIN unsupported : UnsupportedRow(k, unsupported[i])
  BY <1>1 DEF MemoryInv, Pending, PendingUnsupported
<1>7. \A i \in DOMAIN caseResults' :
        Pending(i)' \/ \E k \in Decided' : ResultRow(k, caseResults[i])'
  BY <1>1, <1>3, <1>4, <1>5, <1>6 DEF ResultRow, Outcome, Pending
<1>8. \A i \in DOMAIN unsupported' : \E k \in Decided' : UnsupportedRow(k, unsupported[i])'
  BY <1>3, <1>5, <1>6 DEF UnsupportedRow
<1>9. \A k \in Decided' :
        \/ \E i \in DOMAIN caseResults' : ResultRow(k, caseResults[i])'
        \/ \E i \in DOMAIN unsupported' : UnsupportedRow(k, unsupported[i])'
  BY <1>3, <1>4, <1>5, <1>6 DEF ResultRow, UnsupportedRow, Outcome
<1> QED BY <1>7, <1>8, <1>9 DEF MemoryInv

\* The row of the outcome that was pending.
LEMMA DecidingMemory ==
    /\ TypeOK /\ ControlInv /\ PositionInv /\ TallyInv /\ MemoryInv
    /\ JournalUnsupported \/ JournalCompleted
    => MemoryInv'
<1> SUFFICES ASSUME TypeOK, ControlInv, PositionInv, TallyInv, MemoryInv,
                    JournalUnsupported \/ JournalCompleted
             PROVE  MemoryInv'
  OBVIOUS
<1>1. /\ Live /\ At' = "next_case"
      /\ UNCHANGED <<caseResults, unsupported>>
  BY CaseMoves DEF CaseStep, JournalUnsupported, JournalCompleted
<1>2. PICK new : new = Len(journal) + 1
  OBVIOUS
<1>3. /\ Decided' = Decided \cup {new}
      /\ \A k \in Decided : journal'[k] = journal[k]
  <2>1. JournalUnsupported => Record("case_unsupported", "none")
    BY DEF JournalUnsupported
  <2>2. JournalCompleted => Record("case_completed", Outcome(Last(caseResults)))
    BY DEF JournalCompleted
  <2>3. "case_unsupported" \in DecidedEvent /\ "case_completed" \in DecidedEvent
    BY DEF DecidedEvent
  <2> QED BY <1>2, <2>1, <2>2, <2>3, DecidingFacts
<1>4. /\ \A i \in DOMAIN caseResults :
           Pending(i) \/ \E k \in Decided : ResultRow(k, caseResults[i])'
      /\ \A i \in DOMAIN unsupported :
           PendingUnsupported(i) \/ \E k \in Decided : UnsupportedRow(k, unsupported[i])'
      /\ \A k \in Decided :
           \/ \E i \in DOMAIN caseResults : ResultRow(k, caseResults[i])'
           \/ \E i \in DOMAIN unsupported : UnsupportedRow(k, unsupported[i])'
  BY <1>1, <1>3 DEF MemoryInv, ResultRow, UnsupportedRow, Outcome
<1>5. ASSUME JournalUnsupported PROVE MemoryInv'
  <2>1. At = "journal_unsupported"
    BY <1>5, CaseMoves
  <2>2. unsupported \in Seq(Case) /\ unsupported # <<>> /\ Last(unsupported) = current
    BY <2>1 DEF TallyInv
  <2>3. Len(unsupported) \in DOMAIN unsupported /\ unsupported[Len(unsupported)] = current
    BY <2>2 DEF Last
  <2>4. journal'[new].event = "case_unsupported" /\ journal'[new].case_id = current
    BY <1>2, <1>5, RecordFacts DEF JournalUnsupported
  <2>5. UnsupportedRow(new, unsupported[Len(unsupported)])'
    BY <1>1, <2>3, <2>4 DEF UnsupportedRow
  <2>6. \A i : ~Pending(i) /\ (PendingUnsupported(i) => i = Len(unsupported))
    BY <2>1 DEF Pending, PendingUnsupported
  <2> QED BY <1>1, <1>3, <1>4, <2>3, <2>5, <2>6 DEF MemoryInv
<1>6. ASSUME JournalCompleted PROVE MemoryInv'
  <2>1. At = "journal_completed"
    BY <1>6, CaseMoves
  <2>2. /\ caseResults \in Seq(CaseResult) /\ caseResults # <<>>
        /\ Last(caseResults).case_id = current
    BY <2>1 DEF TallyInv
  <2>3. Len(caseResults) \in DOMAIN caseResults /\ caseResults[Len(caseResults)] = Last(caseResults)
    BY <2>2 DEF Last
  <2>4. /\ journal'[new].event = "case_completed" /\ journal'[new].case_id = current
        /\ journal'[new].info = Outcome(Last(caseResults))
    BY <1>2, <1>6, RecordFacts DEF JournalCompleted
  <2>5. ResultRow(new, caseResults[Len(caseResults)])'
    BY <1>1, <2>2, <2>3, <2>4 DEF ResultRow, Outcome
  <2>6. \A i : ~PendingUnsupported(i) /\ (Pending(i) => i = Len(caseResults))
    BY <2>1 DEF Pending, PendingUnsupported
  <2> QED BY <1>1, <1>3, <1>4, <2>3, <2>5, <2>6 DEF MemoryInv
<1> QED BY <1>5, <1>6

\* While nothing has failed, memory and journal hold the same outcomes, except
\* for the one whose row is written next.
LEMMA MemoryCorrect == Spec => []MemoryInv
<1> DEFINE Inv == TypeOK /\ ControlInv /\ PositionInv /\ TallyInv
<1>1. Init => MemoryInv
  BY DEF Init, MemoryInv, Decided
<1>2. Inv /\ MemoryInv /\ [Next]_vars => MemoryInv'
  <2> SUFFICES ASSUME Inv, MemoryInv, [Next]_vars PROVE MemoryInv'
    OBVIOUS
  <2>1. CASE PersistStep \/ Fault \/ UNCHANGED vars
    BY <2>1, QuietMoves, IdleMemory DEF Undeciding
  <2>2. CASE FrameStep
    <3>1. UNCHANGED results
      BY <2>2 DEF FrameStep, JournalRunStarted, OpenReference, OpenCandidate, JournalRunFailed,
             CloseReference, CloseCandidate, Publish, JournalRunCompleted
    <3>2. Live' = Live /\ At \notin {"journal_completed", "journal_unsupported"}
      BY <2>2, FrameMoves DEF FrameStep
    <3> QED BY <2>2, <3>1, <3>2, FrameStepJournal, IdleMemory
  <2>3. CASE CaseStep
    <3>1. CASE JournalUnsupported \/ JournalCompleted
      BY <3>1, DecidingMemory
    <3>2. CASE Unsupported \/ Compare
      BY <3>2, UnsupportedMemory, CompareMemory
    <3>3. CASE ~(JournalUnsupported \/ JournalCompleted \/ Unsupported \/ Compare)
      <4>1. UNCHANGED results
        BY <2>3, <3>3 DEF CaseStep, NextCase, JournalStarted, Supported, ExecuteReference,
               LogReference, JournalReference, ExecuteCandidate, LogCandidate,
               JournalCandidate
      <4>2. Live /\ At \notin {"journal_completed", "journal_unsupported"}
        BY <2>3, <3>3, CaseMoves DEF CaseStep
      <4> QED BY <2>3, <3>3, <4>1, <4>2, CaseStepJournal, IdleMemory
    <3> QED BY <3>1, <3>2, <3>3
  <2> QED BY <2>1, <2>2, <2>3 DEF Next, Progress, Ending
<1>3. Spec => []Inv
  BY ControlCorrect, PositionCorrect, TallyCorrect, TypeCorrect, PTL
<1> QED BY <1>1, <1>2, <1>3, PTL DEF Spec

-----------------------------------------------------------------------------
(* Layer 12: the report.                                                   *)

\* When every case is decided, each has an outcome of one kind in the journal.
LEMMA OneOutcomeEach ==
    ASSUME JournalInv, Live, JournaledTo = Len(Selected), TypeOK, NEW c \in Case
    PROVE  Journaled("case_completed", c) <=> ~Journaled("case_unsupported", c)
<1>1. PICK p \in 1 .. Len(Selected) : Selected[p] = c
  BY SelectedFacts DEF Case
<1>2. PICK k \in Decided : journal[k].position = p
  BY <1>1 DEF JournalInv
<1>3. k \in DOMAIN journal /\ journal[k].event \in DecidedEvent /\ journal[k].case_id = c
  BY <1>1, <1>2 DEF JournalInv, Decided, DecidedEvent
<1>4. ASSUME NEW l \in DOMAIN journal, journal[l].event \in DecidedEvent,
             journal[l].case_id = c
      PROVE  l = k
  <2>1. l \in Decided /\ k \in Decided
    BY <1>2, <1>4 DEF Decided, DecidedEvent
  <2>2. /\ journal[l].position \in DOMAIN Selected
        /\ Selected[journal[l].position] = Selected[p]
        /\ p \in DOMAIN Selected
    BY <1>1, <1>4, <2>1, SelectedFacts DEF JournalInv, TypeOK
  <2>3. journal[l].position = p
    BY <2>2, SelectedAssumption
  <2> QED BY <1>2, <2>1, <2>3 DEF JournalInv
<1> QED BY <1>3, <1>4 DEF Journaled, DecidedEvent

LEMMA PublishReports ==
    /\ TypeOK /\ ControlInv /\ PositionInv /\ TallyInv
    /\ QueryInv /\ TargetInv /\ JournalInv /\ MemoryInv /\ Publish
    => ReportComplete'
<1> SUFFICES ASSUME TypeOK, ControlInv, PositionInv, TallyInv, QueryInv, TargetInv,
                    JournalInv, MemoryInv, Publish
             PROVE  ReportComplete'
  OBVIOUS
<1>1. At = "publish" /\ Live
  <2>1. At = "publish" /\ pc = "publish"
    BY FrameMoves DEF Publish
  <2> QED BY <2>1 DEF ControlInv, Live, ReportPoints
<1>2. /\ UNCHANGED <<reference, candidate, journal, referenceLog, candidateLog>>
      /\ output' = [cases |-> caseResults, unsupported |-> unsupported,
                    queries |-> queries, reused |-> reuse]
  BY DEF Publish
<1>3. position = Len(Selected) /\ JournaledTo = Len(Selected)
  BY <1>1 DEF PositionInv, JournaledTo, ReportPoints, CasePoints, LoopPoints
<1>4. Len(caseResults) + Len(unsupported) = Len(Selected)
  BY <1>1, <1>3 DEF TallyInv, UndecidedPoints, CasePoints, LoopPoints
<1>5. \A i \in DOMAIN caseResults :
        \E k \in DOMAIN journal : /\ journal[k].event = "case_completed"
                                  /\ journal[k].case_id = caseResults[i].case_id
                                  /\ journal[k].info = Outcome(caseResults[i])
  BY <1>1 DEF MemoryInv, Pending, ResultRow, Decided
<1>6. \A i \in DOMAIN unsupported : Journaled("case_unsupported", unsupported[i])
  BY <1>1 DEF MemoryInv, PendingUnsupported, UnsupportedRow, Journaled, Decided
<1>7. \A c \in Case : Journaled("case_completed", c) <=> ~Journaled("case_unsupported", c)
  BY <1>1, <1>3, OneOutcomeEach
<1>8. queries = Len(referenceLog) + IF reuse THEN 0 ELSE Len(candidateLog)
  BY <1>1 DEF QueryInv, TypeOK
<1>9. {reference, candidate} = {"closed"}
  BY <1>1 DEF TargetInv, ReportPoints
<1>0. PICK document : document = output'
  OBVIOUS
<1>10. /\ document.cases = caseResults /\ document.unsupported = unsupported
       /\ document.queries = queries /\ document.reused = reuse
  BY <1>0, <1>2
<1>11. \A event, c : Journaled(event, c)' <=> Journaled(event, c)
  BY <1>2 DEF Journaled
<1>12. document.queries =
         Len(referenceLog') + IF document.reused THEN 0 ELSE Len(candidateLog')
  BY <1>2, <1>8, <1>10
<1>13. \A i \in DOMAIN document.cases :
         \E k \in DOMAIN journal' : /\ journal'[k].event = "case_completed"
                                    /\ journal'[k].case_id = document.cases[i].case_id
                                    /\ journal'[k].info = Outcome(document.cases[i])
  BY <1>2, <1>5, <1>10
<1>14. \A c \in Case :
         Journaled("case_completed", c)' <=> ~Journaled("case_unsupported", c)'
  BY <1>7, <1>11
<1>15. \A i \in DOMAIN document.unsupported :
         Journaled("case_unsupported", document.unsupported[i])'
  BY <1>6, <1>10, <1>11
<1> QED BY <1>0, <1>2, <1>4, <1>9, <1>10, <1>12, <1>13, <1>14, <1>15 DEF ReportComplete

\* What follows the report records nothing about a case and opens no target.
LEMMA ReportStays ==
    /\ TypeOK /\ ControlInv /\ HistoryInv /\ ReportComplete /\ [Next]_vars /\ ~Publish
    => ReportComplete'
<1> SUFFICES ASSUME TypeOK, ControlInv, HistoryInv, ReportComplete, [Next]_vars, ~Publish,
                    output' # NoDocument
             PROVE  ReportComplete'
  BY DEF ReportComplete
<1>1. output' = output /\ ~CaseStep
  <2>1. output' = output
    BY StateAndOutput, PersistStepKeeps, FaultKeeps DEF Next, Progress, Ending, vars
  <2>2. CaseStep => At \in LoopPoints
    BY CaseMoves DEF CaseStep, LoopPoints
  <2> QED BY <2>1, <2>2 DEF HistoryInv, PublishedPoints, LoopPoints
<1>2. UNCHANGED <<reference, candidate, referenceLog, candidateLog>> /\ Undeciding
  <2>1. CASE PersistStep \/ Fault \/ UNCHANGED vars
    BY <2>1, QuietMoves DEF Undeciding
  <2>2. CASE FrameStep
    <3>1. JournalRunCompleted
      BY <1>1, <2>2, FrameMoves DEF FrameStep, HistoryInv, PublishedPoints
    <3> QED BY <2>2, <3>1, FrameStepJournal DEF JournalRunCompleted
  <2> QED BY <1>1, <2>1, <2>2 DEF Next, Progress, Ending
<1>3. Decided' = Decided /\ \A k \in Decided : k \in DOMAIN journal /\ journal'[k] = journal[k]
  BY <1>2, UndecidingFacts
<1>4. \A event \in DecidedEvent : \A c : Journaled(event, c)' <=> Journaled(event, c)
  <2>1. \A event \in DecidedEvent : \A c :
          /\ Journaled(event, c) <=>
               \E k \in Decided : journal[k].event = event /\ journal[k].case_id = c
          /\ Journaled(event, c)' <=>
               \E k \in Decided' : journal'[k].event = event /\ journal'[k].case_id = c
    BY DEF Journaled, Decided, DecidedEvent
  <2> QED BY <1>3, <2>1
<1>5. \A i \in DOMAIN output'.cases :
        \E k \in DOMAIN journal' : /\ journal'[k].event = "case_completed"
                                   /\ journal'[k].case_id = output'.cases[i].case_id
                                   /\ journal'[k].info = Outcome(output'.cases[i])
  <2>1. \A i \in DOMAIN output.cases :
          \E k \in Decided : /\ journal[k].event = "case_completed"
                             /\ journal[k].case_id = output.cases[i].case_id
                             /\ journal[k].info = Outcome(output.cases[i])
    BY <1>1 DEF ReportComplete, Decided
  <2>2. Decided' \subseteq DOMAIN journal'
    BY DEF Decided
  <2> QED BY <1>1, <1>3, <2>1, <2>2
<1> QED BY <1>1, <1>2, <1>4, <1>5 DEF ReportComplete, DecidedEvent, Outcome

\* A published result document has every selected case exactly once, with the
\* outcome the journal gives it, counts the executions the logs hold, and was
\* published after both targets were closed.
THEOREM ReportsComplete == Spec => []ReportComplete
<1> DEFINE Inv == /\ TypeOK /\ ControlInv /\ PositionInv /\ TallyInv /\ HistoryInv
                  /\ QueryInv /\ TargetInv /\ JournalInv /\ MemoryInv
<1>1. Init => ReportComplete
  BY DEF Init, ReportComplete
<1>2. Inv /\ ReportComplete /\ [Next]_vars => ReportComplete'
  BY PublishReports, ReportStays
<1>3. Spec => []Inv
  BY ControlCorrect, PositionCorrect, TallyCorrect, TypeCorrect, HistoryCorrect,
     QueriesCorrect, TargetsCorrect, JournalCorrect, MemoryCorrect, PTL
<1> QED BY <1>1, <1>2, <1>3, PTL DEF Spec
=============================================================================

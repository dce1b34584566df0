------------------------------- MODULE Ledger -------------------------------
(***************************************************************************)
(* What one call of oracle.evaluate promises to somebody who can see only  *)
(* the run's append-only journal and the result document it publishes.     *)
(*                                                                         *)
(* The selected cases are judged one at a time, in selection order, and a  *)
(* judgement is never revised.  At most one report is published; when it   *)
(* is, every selected case has been judged and the report is the ledger.   *)
(* A run may stop anywhere: a stopped run publishes nothing more.          *)
(***************************************************************************)
EXTENDS Naturals, Sequences

CONSTANTS
    Selected,   \* the cases of this run, in the order they are evaluated
    NoReport    \* no result document has been published

VARIABLES
    verdict,    \* the judgement recorded for each selected case
    report      \* the published judgements

ledgerVars == <<verdict, report>>

Case == {Selected[i] : i \in DOMAIN Selected}

Judgement == {"unsupported", "passed", "failed"}

Undecided == [c \in Case |-> "pending"]

LedgerTypeOK ==
    /\ verdict \in [Case -> Judgement \cup {"pending"}]
    /\ report \in [Case -> Judgement] \cup {NoReport}

LedgerInit ==
    /\ verdict = Undecided
    /\ report = NoReport

\* The next case in selection order receives its judgement.
Judge(i, j) ==
    /\ report = NoReport
    /\ verdict[Selected[i]] = "pending"
    /\ \A k \in 1 .. i - 1 : verdict[Selected[k]] # "pending"
    /\ verdict' = [verdict EXCEPT ![Selected[i]] = j]
    /\ UNCHANGED report

Publish ==
    /\ report = NoReport
    /\ \A c \in Case : verdict[c] # "pending"
    /\ report' = verdict
    /\ UNCHANGED verdict

LedgerNext ==
    \/ \E i \in DOMAIN Selected, j \in Judgement : Judge(i, j)
    \/ Publish

LedgerSpec == LedgerInit /\ [][LedgerNext]_ledgerVars
=============================================================================

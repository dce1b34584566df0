------------------------------- MODULE Target -------------------------------
(***************************************************************************)
(* What targets.Target promises to evaluate: cases are executed one at a   *)
(* time, and a target that raised executes nothing more.  It may be closed *)
(* between two calls, and a closed target stays closed.                    *)
(*                                                                         *)
(* What an execute returns is what the guest says.  A guest that is asked  *)
(* and answers is trusted: then the observation is of the case asked for.  *)
(* Once a guest has answered out of turn, an observation may be of any     *)
(* case, or of none, and the rest of the promise still holds.              *)
(***************************************************************************)
EXTENDS Sequences

CONSTANTS Cases, NoCase

VARIABLES
    phase,      \* of the target
    asked,      \* the case being executed
    observed,   \* for each observation returned, the case it is of
    trusted     \* the guest has not answered out of turn

targetVars == <<phase, asked, observed, trusted>>

TargetInit ==
    /\ phase = "ready"
    /\ asked = NoCase
    /\ observed = <<>>
    /\ trusted = TRUE

Execute(c) ==
    /\ phase = "ready"
    /\ phase' = "executing"
    /\ asked' = c
    /\ UNCHANGED <<observed, trusted>>

Return ==
    /\ phase = "executing"
    /\ phase' = "ready"
    /\ asked' = NoCase
    /\ \E c \in Cases \cup {NoCase} :
         /\ trusted => c = asked
         /\ observed' = Append(observed, c)
    /\ UNCHANGED trusted

Fail ==
    /\ phase = "executing"
    /\ phase' = "failed"
    /\ asked' = NoCase
    /\ UNCHANGED <<observed, trusted>>

Close ==
    /\ phase \in {"ready", "failed"}
    /\ phase' = "closed"
    /\ UNCHANGED <<asked, observed, trusted>>

\* An answer that nobody asked for, while a case is being executed.
AnswerOutOfTurn ==
    /\ phase = "executing"
    /\ trusted' = FALSE
    /\ UNCHANGED <<phase, asked, observed>>

TargetNext ==
    (\E c \in Cases : Execute(c)) \/ Return \/ Fail \/ Close \/ AnswerOutOfTurn

TargetSpec == TargetInit /\ [][TargetNext]_targetVars
=============================================================================

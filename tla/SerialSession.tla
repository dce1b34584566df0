--------------------------- MODULE SerialSession ---------------------------
(***************************************************************************)
(* A QemuTarget at work: the host side of targets.py and qemu.py, one QEMU *)
(* process, its serial socket, and the guest agent at the other end.       *)
(*                                                                         *)
(* evaluate executes its cases one after another and closes the target     *)
(* when it is done or when an execute raised.  The VM starts at the first  *)
(* case.  Every wait of the host has a deadline; the guest has none, and   *)
(* may crash, restart its agent, or answer late at any moment.             *)
(*                                                                         *)
(* The guest is an agent that writes one result for each request it reads  *)
(* (reference/guest/osbench_agent.py), and beside it whatever else the     *)
(* image runs: a candidate brings its own shim, and may write any record   *)
(* at any time (docs/THREAT_MODEL.md).  trusted tells whether it has       *)
(* written a result, or part of one, out of turn while the host waited for *)
(* one.                                                                    *)
(*                                                                         *)
(* What the guest writes is a stream of fragments.  A result record takes  *)
(* two, and the second ends the line: recv may return one without the      *)
(* other.                                                                  *)
(***************************************************************************)
EXTENDS SequencesExt

CONSTANTS
    Cases,          \* the cases of the run, numbered in order
    Clean,          \* those whose setup says clean_snapshot
    MaxRestarts,    \* bound: how often the guest agent is restarted
    MaxNoise,       \* bound: how many diagnostic lines the kernel writes
    MaxForged,      \* bound: how many records the guest writes out of turn
    NoCase,         \* what a made-up observation is of
    NoRecord        \* the agent has nothing to write

ASSUME CasesAssumption ==
    /\ Cases \in Nat \ {0}
    /\ Clean \subseteq 1 .. Cases
    /\ MaxRestarts \in Nat /\ MaxNoise \in Nat /\ MaxForged \in Nat

VARIABLES
    pc,             \* what the host does next
    next,           \* the case being executed, or the next one
    hasRun,         \* QemuTarget.run is not None
    vm,             \* the QEMU process
    connected,      \* a host socket is connected to the serial port
    toGuest,        \* requests the agent has not read
    toHost,         \* fragments sent to the connected socket
    buffer,         \* what this call has received
    agent,          \* the guest agent
    writing,        \* the record the agent is writing, and how much of it is out
    answers,        \* for each returned observation, the case it is of
    served,         \* cases this VM has been asked to execute
    trusted,        \* no result was written out of turn to a waiting host
    restarts, noise, forged \* counters

hostVars == <<pc, next, hasRun, buffer, answers>>
guestVars == <<agent, writing, trusted, restarts, noise, forged>>
vars == <<hostVars, guestVars, vm, connected, toGuest, toHost, served>>

Case == 1 .. Cases

Record ==
    [kind : {"ready", "noise"}] \cup
    [kind : {"result"}, of : Case \cup {NoCase}, valid : BOOLEAN]

Fragment == [record : Record, part : {1, 2}]

Parts(record) == IF record.kind = "result" THEN 2 ELSE 1

-----------------------------------------------------------------------------
(* The serial port and the guest.  A definition whose name extends the     *)
(* name of the next one is that one with a mistake in it; no specification *)
(* uses it.                                                                *)

\* QEMU drops what the guest writes while no client is connected.
Emit(fragments) ==
    toHost' = IF connected THEN toHost \o fragments ELSE toHost

AgentStarts ==
    /\ vm = "up"
    /\ agent = "off"
    /\ agent' = "writing"
    /\ writing' = [record |-> [kind |-> "ready"], part |-> 1]
    /\ UNCHANGED <<hostVars, vm, connected, toGuest, toHost, served, trusted, restarts, noise, forged>>

AgentReads ==
    /\ vm = "up"
    /\ agent = "reading"
    /\ toGuest # <<>>
    /\ agent' = "busy"
    /\ writing' = [record |-> [kind |-> "result", of |-> Head(toGuest), valid |-> TRUE],
                   part   |-> 1]
    /\ toGuest' = Tail(toGuest)
    /\ UNCHANGED <<hostVars, vm, connected, toHost, served, trusted, restarts, noise, forged>>

\* The case has been executed; a candidate's shim may answer nonsense.
AgentAnswers ==
    /\ vm = "up"
    /\ agent = "busy"
    /\ agent' = "writing"
    /\ \E valid \in BOOLEAN : writing' = [writing EXCEPT !.record.valid = valid]
    /\ UNCHANGED <<hostVars, vm, connected, toGuest, toHost, served, trusted, restarts, noise, forged>>

AgentWrites ==
    /\ vm = "up"
    /\ agent = "writing"
    /\ Emit(<<writing>>)
    /\ IF writing.part < Parts(writing.record)
         THEN writing' = [writing EXCEPT !.part = @ + 1] /\ UNCHANGED agent
         ELSE writing' = NoRecord /\ agent' = "reading"
    /\ UNCHANGED <<hostVars, vm, connected, toGuest, served, trusted, restarts, noise, forged>>

\* Restart=always: the agent dies and is started again.
AgentRestarts ==
    /\ vm = "up"
    /\ agent # "off"
    /\ restarts < MaxRestarts
    /\ restarts' = restarts + 1
    /\ agent' = "off"
    /\ writing' = NoRecord
    /\ UNCHANGED <<hostVars, vm, connected, toGuest, toHost, served, trusted, noise, forged>>

\* The kernel's console is the same port; it may write into a line of the agent.
KernelWrites ==
    /\ vm = "up"
    /\ noise < MaxNoise
    /\ noise' = noise + 1
    /\ Emit(<<[record |-> [kind |-> "noise"], part |-> 1]>>)
    /\ UNCHANGED <<hostVars, agent, writing, trusted, restarts, forged, vm, connected, toGuest, served>>

\* What a case can be reported of: one the guest was asked, or none.
Known == {served[i] : i \in DOMAIN served} \cup {NoCase}

\* A candidate's software writes what it likes, when it likes: a sentinel
\* before it is ready, an answer again, one that nobody asked for, or half of it.
CandidateForges ==
    /\ vm = "up"
    /\ forged < MaxForged
    /\ forged' = forged + 1
    /\ \E record \in Record :
         /\ record.kind = "result" => record.of \in Known
         /\ \E n \in 1 .. Parts(record) : Emit([i \in 1 .. n |-> [record |-> record, part |-> i]])
         /\ trusted' = IF record.kind = "result" /\ pc = "receive" THEN FALSE ELSE trusted
    /\ UNCHANGED <<hostVars, agent, writing, restarts, noise, vm, connected, toGuest, served>>

\* The guest resets or powers off (-no-reboot), QEMU crashes, or a signal of
\* the host takes effect.
VmExits ==
    /\ vm \in {"up", "terminating", "killed"}
    /\ vm' = "exited"
    /\ agent' = "off"
    /\ writing' = NoRecord
    /\ toGuest' = <<>>
    /\ UNCHANGED <<hostVars, connected, toHost, served, trusted, restarts, noise, forged>>

-----------------------------------------------------------------------------
(* QemuTarget.execute: _ensure_run, wait_for_serial, agent_case.           *)

\* After an exception evaluate executes nothing more on this target.
FailOnlyTheCase ==
    /\ pc' = "idle"
    /\ next' = next + 1

Fail ==
    /\ pc' = "failed"
    /\ UNCHANGED next

ExecuteCasePastTheLast ==
    /\ pc = "idle"
    /\ next <= Cases + 1
    /\ buffer' = <<>>
    /\ hasRun' = TRUE
    /\ pc' = IF hasRun THEN "connect" ELSE "connect_boot"
    /\ vm' = IF hasRun THEN vm ELSE "up"
    /\ UNCHANGED <<next, answers, guestVars, connected, toGuest, toHost, served>>

\* _ensure_run starts a VM if there is none; self.run is set before it boots.
\* What the setup of the case says is not looked at.
ExecuteCase ==
    /\ pc = "idle"
    /\ next <= Cases
    /\ buffer' = <<>>
    /\ IF hasRun
         THEN pc' = "connect" /\ UNCHANGED <<hasRun, vm>>
         ELSE /\ pc' = "connect_boot"
              /\ hasRun' = TRUE
              /\ vm' = "up"
    /\ UNCHANGED <<next, answers, guestVars, connected, toGuest, toHost, served>>

\* _connect_unix retries until the socket accepts.
ConnectForBoot ==
    /\ pc = "connect_boot"
    /\ vm = "up"
    /\ connected' = TRUE
    /\ toHost' = <<>>
    /\ pc' = "wait_boot"
    /\ UNCHANGED <<next, hasRun, buffer, answers, guestVars, vm, toGuest, served>>

\* QEMU is gone, or the socket never accepted: raise.
ConnectFails ==
    /\ pc \in {"connect_boot", "connect"}
    /\ Fail
    /\ UNCHANGED <<hasRun, buffer, answers, guestVars, vm, connected, toGuest, toHost, served>>

\* recv returns some of the fragments that have arrived.
Receive(n) ==
    /\ connected
    /\ n \in 1 .. Len(toHost)
    /\ buffer' = buffer \o SubSeq(toHost, 1, n)
    /\ toHost' = SubSeq(toHost, n + 1, Len(toHost))

SentinelIn(fragments) == \E i \in DOMAIN fragments : fragments[i].record.kind = "ready"

WaitForSerial ==
    /\ pc = "wait_boot"
    /\ \E n \in 1 .. Len(toHost) : Receive(n)
    /\ IF SentinelIn(buffer')
         THEN pc' = "connect" /\ connected' = FALSE
         ELSE UNCHANGED <<pc, connected>>
    /\ UNCHANGED <<next, hasRun, answers, guestVars, vm, toGuest, served>>

\* No sentinel by the deadline, or QEMU exited: stop the VM and raise.
BootGivenUp ==
    /\ pc = "wait_boot"
    /\ connected' = FALSE
    /\ pc' = "boot_failed"
    /\ UNCHANGED <<next, hasRun, buffer, answers, guestVars, vm, toGuest, toHost, served>>

SendCaseOnOpenSocket ==
    /\ pc = "connect"
    /\ vm = "up"
    /\ connected' = TRUE
    /\ buffer' = <<>>
    /\ toGuest' = Append(toGuest, next)
    /\ served' = Append(served, next)
    /\ pc' = "receive"
    /\ UNCHANGED <<next, hasRun, answers, guestVars, vm, toHost>>

\* agent_case connects and sends its request, one line.
SendCase ==
    /\ pc = "connect"
    /\ vm = "up"
    /\ connected' = TRUE
    /\ toHost' = <<>>
    /\ buffer' = <<>>
    /\ toGuest' = Append(toGuest, next)
    /\ served' = Append(served, next)
    /\ pc' = "receive"
    /\ UNCHANGED <<next, hasRun, answers, guestVars, vm>>

\* The first line that starts with OSBENCH_RESULT.  splitlines also returns
\* the text after the last newline.
Starts(fragments) ==
    {i \in DOMAIN fragments :
        fragments[i].record.kind = "result" /\ fragments[i].part = 1}

Whole(fragments, i) ==
    /\ i + 1 \in DOMAIN fragments
    /\ fragments[i + 1] = [fragments[i] EXCEPT !.part = 2]

\* b64decode and json.loads raise on part of a record and on nonsense.
Decodes(fragments, i) == Whole(fragments, i) /\ fragments[i].record.valid

ReceiveAnswer ==
    /\ pc = "receive"
    /\ \E n \in 1 .. Len(toHost) : Receive(n)
    /\ IF Starts(buffer') = {}
         THEN UNCHANGED <<pc, next, connected, answers>>
         ELSE LET i == Min(Starts(buffer'))
              IN  /\ connected' = FALSE
                  /\ IF Decodes(buffer', i)
                       THEN /\ answers' = Append(answers, buffer'[i].record.of)
                            /\ pc' = "idle"
                            /\ next' = next + 1
                       ELSE Fail /\ UNCHANGED answers
    /\ UNCHANGED <<hasRun, guestVars, vm, toGuest, served>>

CaseTimesOutAndIsRetried ==
    /\ pc = "receive"
    /\ connected' = FALSE
    /\ pc' = "connect"
    /\ UNCHANGED <<next, hasRun, buffer, answers, guestVars, vm, toGuest, toHost, served>>

CaseTimesOutIfExited ==
    /\ pc = "receive"
    /\ vm = "exited"
    /\ connected' = FALSE
    /\ Fail
    /\ UNCHANGED <<hasRun, buffer, answers, guestVars, vm, toGuest, toHost, served>>

\* The loop runs into its deadline: nothing came, or the guest is gone and
\* recv keeps returning nothing.
CaseTimesOut ==
    /\ pc = "receive"
    /\ connected' = FALSE
    /\ Fail
    /\ UNCHANGED <<hasRun, buffer, answers, guestVars, vm, toGuest, toHost, served>>

-----------------------------------------------------------------------------
(* QemuTarget.close and QemuController.stop.                               *)

CloseTarget ==
    /\ pc \in {"idle", "failed"}
    /\ pc' = IF hasRun THEN "stop" ELSE "closed"
    /\ UNCHANGED <<next, hasRun, buffer, answers, guestVars, vm, connected, toGuest, toHost, served>>

\* stop was called by wait_for_serial, which raises afterwards, or by close.
Booting == pc \in {"boot_failed", "boot_stopping", "boot_killing"}

StopPoint == {"boot_failed", "boot_stopping", "boot_killing", "stop", "stopping", "killing"}

StopExited ==
    /\ pc \in StopPoint
    /\ vm = "exited"
    /\ pc' = IF Booting THEN "failed" ELSE "closed"
    /\ hasRun' = Booting
    /\ UNCHANGED <<next, buffer, answers, guestVars, vm, connected, toGuest, toHost, served>>

Terminate ==
    /\ pc \in {"boot_failed", "stop"}
    /\ vm \in {"up", "killed"}
    /\ vm' = IF vm = "up" THEN "terminating" ELSE vm
    /\ pc' = IF Booting THEN "boot_stopping" ELSE "stopping"
    /\ UNCHANGED <<next, hasRun, buffer, answers, guestVars, connected, toGuest, toHost, served>>

KillNobody ==
    /\ pc \in {"boot_stopping", "stopping"}
    /\ vm \in {"terminating", "killed"}
    /\ pc' = IF Booting THEN "failed" ELSE "closed"
    /\ hasRun' = Booting
    /\ UNCHANGED <<next, buffer, answers, guestVars, vm, connected, toGuest, toHost, served>>

\* The process outlived shutdown_timeout_seconds.
Kill ==
    /\ pc \in {"boot_stopping", "stopping"}
    /\ vm \in {"terminating", "killed"}
    /\ vm' = "killed"
    /\ pc' = IF Booting THEN "boot_killing" ELSE "killing"
    /\ agent' = "off"
    /\ writing' = NoRecord
    /\ toGuest' = <<>>
    /\ UNCHANGED <<next, hasRun, buffer, answers, connected, toHost, served,
                  trusted, restarts, noise, forged>>

\* It is not gone five seconds after the kill: wait raises out of stop, before
\* close clears self.run.
KillTimesOut ==
    /\ pc \in {"boot_killing", "killing"}
    /\ vm = "killed"
    /\ pc' = IF Booting THEN "failed" ELSE "closed"
    /\ UNCHANGED <<next, hasRun, buffer, answers, guestVars, vm, connected, toGuest, toHost, served>>

-----------------------------------------------------------------------------
Init ==
    /\ pc = "idle"
    /\ next = 1
    /\ hasRun = FALSE
    /\ vm = "none"
    /\ connected = FALSE
    /\ toGuest = <<>>
    /\ toHost = <<>>
    /\ buffer = <<>>
    /\ agent = "off"
    /\ writing = NoRecord
    /\ answers = <<>>
    /\ served = <<>>
    /\ trusted = TRUE
    /\ restarts = 0
    /\ noise = 0
    /\ forged = 0

Guest ==
    \/ AgentStarts \/ AgentReads \/ AgentAnswers \/ AgentWrites
    \/ AgentRestarts \/ KernelWrites \/ CandidateForges \/ VmExits

\* What a wait of the host does when its deadline passes.
HostDeadline == ConnectFails \/ BootGivenUp \/ CaseTimesOut \/ Kill \/ KillTimesOut

Host ==
    \/ ExecuteCase \/ ConnectForBoot \/ WaitForSerial \/ SendCase \/ ReceiveAnswer
    \/ CloseTarget \/ StopExited \/ Terminate

Done == pc = "closed" /\ UNCHANGED vars

Next == Guest \/ Host \/ HostDeadline \/ Done

Spec == Init /\ [][Next]_vars

\* The host's thread runs and its deadlines pass; nothing is assumed of the
\* guest.
FairSpec == Spec /\ WF_vars(Host) /\ WF_vars(HostDeadline)

-----------------------------------------------------------------------------
(* Properties.                                                             *)

Point == {"idle", "connect_boot", "wait_boot", "connect", "receive", "failed", "closed"}
           \cup StopPoint

\* The target, the VM, the serial port and the agent have their types.
TypeOK ==
    /\ pc \in Point
    /\ next \in 1 .. Cases + 1
    /\ hasRun \in BOOLEAN
    /\ vm \in {"none", "up", "terminating", "killed", "exited"}
    /\ connected \in BOOLEAN
    /\ toGuest \in Seq(Case)
    /\ toHost \in Seq(Fragment)
    /\ buffer \in Seq(Fragment)
    /\ agent \in {"off", "reading", "busy", "writing"}
    /\ writing \in Fragment \cup {NoRecord}
    /\ answers \in Seq(Case \cup {NoCase})
    /\ served \in Seq(Case)
    /\ trusted \in BOOLEAN
    /\ restarts \in 0 .. MaxRestarts
    /\ noise \in 0 .. MaxNoise
    /\ forged \in 0 .. MaxForged

\* However starting it or a case failed, a VM outlives its target only if it
\* has been killed and the kernel is not done with it after five seconds; and
\* no VM runs that close would not find.
NoOrphanVm ==
    /\ pc = "closed" => vm \in {"none", "killed", "exited"}
    /\ vm \in {"up", "terminating", "killed"} => hasRun

\* Requests carry no number, nothing compares the case_id of an answer, and
\* nothing empties the port between two cases.  As long as the guest has
\* written no result out of turn to a waiting host, what it still has to read,
\* is working on or has written answers the case the host waits for, across
\* restarts of the agent and whatever it forged at boot or between two cases.
OneRequestAtATime ==
    trusted =>
      /\ Len(toGuest) <= 1
      /\ pc = "receive" =>
           /\ \A i \in DOMAIN toGuest : toGuest[i] = next
           /\ \A i \in DOMAIN toHost :
                toHost[i].record.kind = "result" => toHost[i].record.of = next
           /\ writing # NoRecord /\ writing.record.kind = "result" =>
                writing.record.of = next

\* A guest is asked each case once and in order, and none after one that it
\* did not answer.
AskedInOrder ==
    /\ \A i \in DOMAIN served : served[i] = i
    /\ Len(answers) <= Len(served)
    /\ Len(served) <= Len(answers) + 1

\* Whatever the guest writes or fails to write, every case returns or raises,
\* and close returns or raises in the end.
Closes == <>(pc = "closed")

\* The session is a Target (see there); a close in progress takes no calls.
Phase ==
    CASE pc = "idle" -> "ready"
      [] pc = "failed" -> "failed"
      [] pc \in {"stop", "stopping", "killing", "closed"} -> "closed"
      [] OTHER -> "executing"

\* Whatever the guest writes, calls return or raise one at a time and in order;
\* until it writes a result out of turn to a waiting host, each observation is
\* of the case that was asked.
Contract == INSTANCE Target WITH
    Cases    <- Case,
    phase    <- Phase,
    asked    <- IF Phase = "executing" THEN next ELSE NoCase,
    observed <- answers

ImplementsTarget == Contract!TargetSpec

\* docs/CANDIDATE_INTERFACE.md:38 says that records are delimited by newlines:
\* then a record of which only a part has arrived is not decoded, and does not
\* fail its case.
WholeRecordsOnly ==
    [][pc = "receive" /\ pc' = "failed" /\ Starts(buffer') # {} =>
        Len(buffer') > Min(Starts(buffer'))]_vars

\* docs/ARCHITECTURE.md:54 says that a case marked clean_snapshot forces a fresh
\* VM: then it is the first case its VM is asked.
CleanSnapshotIsFresh ==
    \A i \in DOMAIN served : served[i] \in Clean => i = 1
=============================================================================

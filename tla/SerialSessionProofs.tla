------------------------ MODULE SerialSessionProofs ------------------------
(***************************************************************************)
(* What holds of a QEMU target for any number of cases, agent restarts,    *)
(* diagnostics and records that the guest writes out of turn; and, as long *)
(* as none of these is a result written to a waiting host, that answers    *)
(* belong to their requests.                                               *)
(***************************************************************************)
EXTENDS SerialSession, DataLemmas

\* The groups of variables that UNCHANGED names.
USE DEF hostVars, guestVars

-----------------------------------------------------------------------------
(* The serial port.                                                        *)

LEMMA CaseFacts ==
    /\ Cases \in Nat /\ Cases >= 1
    /\ MaxRestarts \in Nat /\ MaxNoise \in Nat /\ MaxForged \in Nat
BY CasesAssumption

\* The first line that starts a result is one of the lines.
LEMMA FirstStart ==
    ASSUME NEW fragments \in Seq(Fragment), Starts(fragments) # {}
    PROVE  Min(Starts(fragments)) \in Starts(fragments)
<1>1. Starts(fragments) \subseteq Nat
  BY LenProperties DEF Starts
<1> QED BY <1>1, MinFacts

\* recv takes a prefix of what has arrived, and each fragment is one of those
\* that were there.
LEMMA ReceiveFacts ==
    ASSUME toHost \in Seq(Fragment), buffer \in Seq(Fragment),
           NEW n \in 1 .. Len(toHost), Receive(n)
    PROVE  /\ buffer' \in Seq(Fragment) /\ toHost' \in Seq(Fragment)
           /\ \A i \in DOMAIN buffer' : \/ \E k \in DOMAIN buffer : buffer'[i] = buffer[k]
                                        \/ \E k \in DOMAIN toHost : buffer'[i] = toHost[k]
           /\ \A i \in DOMAIN toHost' : \E k \in DOMAIN toHost : toHost'[i] = toHost[k]
<1> DEFINE taken == SubSeq(toHost, 1, n)
           left == SubSeq(toHost, n + 1, Len(toHost))
<1>1. Len(toHost) \in Nat /\ Len(buffer) \in Nat
      /\ \A i \in 1 .. Len(toHost) : toHost[i] \in Fragment
  BY LenProperties, ElementOfSeq
<1>2. /\ taken \in Seq(Fragment) /\ Len(taken) = n
      /\ \A i \in 1 .. n : taken[i] = toHost[i]
  <2>1. \A i \in 1 .. n : toHost[i] \in Fragment
    BY <1>1
  <2>2. /\ taken \in Seq(Fragment)
        /\ Len(taken) = IF 1 <= n THEN n - 1 + 1 ELSE 0
        /\ \A i \in 1 .. n - 1 + 1 : taken[i] = toHost[1 + i - 1]
    BY <1>1, <2>1, SubSeqProperties
  <2> QED BY <1>1, <2>2
<1>3. /\ left \in Seq(Fragment) /\ Len(left) = Len(toHost) - n
      /\ \A i \in 1 .. Len(toHost) - n : left[i] = toHost[n + i]
  <2>1. \A i \in n + 1 .. Len(toHost) : toHost[i] \in Fragment
    BY <1>1
  <2>2. /\ left \in Seq(Fragment)
        /\ Len(left) = IF n + 1 <= Len(toHost) THEN Len(toHost) - (n + 1) + 1 ELSE 0
        /\ \A i \in 1 .. Len(toHost) - (n + 1) + 1 : left[i] = toHost[n + 1 + i - 1]
    BY <1>1, <2>1, SubSeqProperties
  <2> QED BY <1>1, <2>2
<1>4. /\ buffer \o taken \in Seq(Fragment)
      /\ Len(buffer \o taken) = Len(buffer) + n
      /\ \A i \in 1 .. Len(buffer) + n :
           (buffer \o taken)[i] = IF i <= Len(buffer) THEN buffer[i] ELSE taken[i - Len(buffer)]
  BY <1>1, <1>2, ConcatProperties
<1>5. buffer' = buffer \o taken /\ toHost' = left
  BY DEF Receive
<1>6. ASSUME NEW i \in DOMAIN buffer'
      PROVE  \/ \E k \in DOMAIN buffer : buffer'[i] = buffer[k]
             \/ \E k \in DOMAIN toHost : buffer'[i] = toHost[k]
  <2>1. i \in 1 .. Len(buffer) + n
    BY <1>4, <1>5, LenProperties
  <2>2. CASE i <= Len(buffer)
    <3>1. i \in DOMAIN buffer
      BY <1>1, <2>1, <2>2, LenProperties
    <3>2. buffer'[i] = buffer[i]
      BY <1>4, <1>5, <2>1, <2>2
    <3> QED BY <3>1, <3>2
  <2>3. CASE ~(i <= Len(buffer))
    <3>1. i - Len(buffer) \in 1 .. n /\ i - Len(buffer) \in 1 .. Len(toHost)
      BY <1>1, <2>1, <2>3
    <3>2. buffer'[i] = toHost[i - Len(buffer)]
      BY <1>2, <1>4, <1>5, <2>1, <2>3, <3>1
    <3> QED BY <3>1, <3>2
  <2> QED BY <2>2, <2>3
<1>7. ASSUME NEW i \in DOMAIN toHost'
      PROVE  \E k \in DOMAIN toHost : toHost'[i] = toHost[k]
  <2>1. i \in 1 .. Len(toHost) - n
    BY <1>3, <1>5, LenProperties
  <2>2. n + i \in 1 .. Len(toHost) /\ toHost'[i] = toHost[n + i]
    BY <1>1, <1>3, <1>5, <2>1
  <2> QED BY <2>2
<1> QED BY <1>2, <1>3, <1>4, <1>5, <1>6, <1>7

\* What the guest emits is added at the end, or lost.
LEMMA EmitFacts ==
    ASSUME toHost \in Seq(Fragment), NEW fragments \in Seq(Fragment), Emit(fragments)
    PROVE  /\ toHost' \in Seq(Fragment)
           /\ \A i \in DOMAIN toHost' : \/ \E k \in DOMAIN toHost : toHost'[i] = toHost[k]
                                        \/ \E k \in DOMAIN fragments : toHost'[i] = fragments[k]
<1>1. CASE toHost' = toHost
  BY <1>1
<1>2. CASE toHost' = toHost \o fragments
  <2>1. /\ Len(toHost) \in Nat /\ DOMAIN toHost = 1 .. Len(toHost)
        /\ Len(fragments) \in Nat /\ DOMAIN fragments = 1 .. Len(fragments)
    BY LenProperties
  <2>2. /\ toHost' \in Seq(Fragment)
        /\ Len(toHost') = Len(toHost) + Len(fragments)
        /\ \A i \in 1 .. Len(toHost) + Len(fragments) :
             toHost'[i] = IF i <= Len(toHost) THEN toHost[i] ELSE fragments[i - Len(toHost)]
    BY <1>2, ConcatProperties
  <2>3. ASSUME NEW i \in DOMAIN toHost'
        PROVE  \/ \E k \in DOMAIN toHost : toHost'[i] = toHost[k]
               \/ \E k \in DOMAIN fragments : toHost'[i] = fragments[k]
    <3>1. i \in 1 .. Len(toHost) + Len(fragments)
      BY <2>2, LenProperties
    <3>2. CASE i <= Len(toHost)
      BY <2>1, <2>2, <3>1, <3>2
    <3>3. CASE ~(i <= Len(toHost))
      <4>1. i - Len(toHost) \in 1 .. Len(fragments)
        BY <2>1, <3>1, <3>3
      <4> QED BY <2>1, <2>2, <3>1, <3>3, <4>1
    <3> QED BY <3>2, <3>3
  <2> QED BY <2>2, <2>3
<1> QED BY <1>1, <1>2 DEF Emit

\* One fragment emitted.
LEMMA EmitOne ==
    ASSUME toHost \in Seq(Fragment), NEW fragment \in Fragment, Emit(<<fragment>>)
    PROVE  /\ toHost' \in Seq(Fragment)
           /\ \A i \in DOMAIN toHost' : \/ \E k \in DOMAIN toHost : toHost'[i] = toHost[k]
                                        \/ toHost'[i] = fragment
<1>1. <<fragment>> \in Seq(Fragment) /\ \A k \in DOMAIN <<fragment>> : <<fragment>>[k] = fragment
  OBVIOUS
<1> QED BY <1>1, EmitFacts

\* A record written out of turn, or the first part of it.
LEMMA ForgedFacts ==
    ASSUME NEW record \in Record, NEW n \in 1 .. Parts(record)
    PROVE  LET fragments == [i \in 1 .. n |-> [record |-> record, part |-> i]]
           IN  /\ fragments \in Seq(Fragment)
               /\ \A k \in DOMAIN fragments : fragments[k].record = record
<1> DEFINE fragments == [i \in 1 .. n |-> [record |-> record, part |-> i]]
<1>1. n \in Nat /\ 1 .. n \subseteq {1, 2}
  BY DEF Parts
<1>2. ASSUME NEW i \in 1 .. n PROVE fragments[i] \in Fragment /\ fragments[i].record = record
  BY <1>1 DEF Fragment
<1>3. fragments \in [1 .. n -> Fragment]
  BY <1>2
<1>4. fragments \in Seq(Fragment)
  BY <1>1, <1>3, FunctionIsSeq
<1> QED BY <1>2, <1>4

-----------------------------------------------------------------------------
(* The target: who owns the VM.                                            *)

OwnerInv ==
    /\ hasRun \in BOOLEAN
    /\ ~hasRun => vm \in {"none", "exited"}
    /\ pc = "closed" => vm \in {"none", "killed", "exited"}

LEMMA InitOwner == Init => OwnerInv
BY DEF Init, OwnerInv

LEMMA StepOwner == ASSUME OwnerInv, [Next]_vars PROVE OwnerInv'
<1> USE DEF OwnerInv
<1>1. CASE Guest
  BY <1>1 DEF Guest, AgentStarts, AgentReads, AgentAnswers, AgentWrites, AgentRestarts,
              KernelWrites, CandidateForges, VmExits
<1>2. CASE Host
  <2>1. CASE ExecuteCase \/ ConnectForBoot \/ WaitForSerial \/ SendCase
    BY <2>1 DEF ExecuteCase, ConnectForBoot, WaitForSerial, SendCase
  <2>2. CASE ReceiveAnswer
    BY <2>2 DEF ReceiveAnswer, Fail
  <2>3. CASE CloseTarget
    BY <2>3 DEF CloseTarget
  <2>4. CASE StopExited
    BY <2>4 DEF StopExited, Booting
  <2>5. CASE Terminate
    BY <2>5 DEF Terminate, Booting
  <2> QED BY <1>2, <2>1, <2>2, <2>3, <2>4, <2>5 DEF Host
<1>3. CASE HostDeadline
  BY <1>3 DEF HostDeadline, ConnectFails, BootGivenUp, CaseTimesOut, Kill, KillTimesOut,
              Booting, Fail
<1>4. CASE Done \/ UNCHANGED vars
  BY <1>4 DEF Done, vars
<1> QED BY <1>1, <1>2, <1>3, <1>4 DEF Next

\* No VM outlives its target, but one that was killed and has not ended in time
\* (NoOrphanVm): QemuTarget.run is set before the VM boots and cleared only
\* after stop, on every path out of a failed start or case.
THEOREM NoVmIsOrphaned == Spec => []NoOrphanVm
<1>1. OwnerInv => NoOrphanVm
  BY DEF OwnerInv, NoOrphanVm
<1> QED BY <1>1, InitOwner, StepOwner, PTL DEF Spec

-----------------------------------------------------------------------------
(* Types.  Which case the host is at, and whether the agent holds a record *)
(* to write, is part of what makes them inductive.                         *)

CallPoints == {"connect_boot", "wait_boot", "connect", "receive"}

Typed ==
    /\ TypeOK
    /\ pc \in CallPoints => next <= Cases
    /\ agent \in {"busy", "writing"} => writing \in Fragment
    /\ agent = "busy" => writing.record.kind = "result"
    /\ agent \in {"off", "reading"} => writing = NoRecord

LEMMA ResultFragment ==
    ASSUME NEW c \in Case \cup {NoCase}, NEW valid \in BOOLEAN
    PROVE  [record |-> [kind |-> "result", of |-> c, valid |-> valid], part |-> 1] \in Fragment
BY DEF Fragment, Record

\* Of a fragment of a result it is known whose it is.
LEMMA FragmentFacts ==
    ASSUME NEW f \in Fragment
    PROVE  /\ f.part \in {1, 2} /\ f.record \in Record
           /\ f.record.kind \in {"ready", "noise", "result"}
           /\ f.record.kind = "result" =>
                /\ f.record.of \in Case \cup {NoCase} /\ f.record.valid \in BOOLEAN
                /\ f.record = [kind |-> "result", of |-> f.record.of, valid |-> f.record.valid]
BY DEF Fragment, Record

LEMMA InitTyped == Init => Typed
<1> SUFFICES ASSUME Init PROVE Typed
  OBVIOUS
<1>1. <<>> \in Seq(Case) /\ <<>> \in Seq(Fragment) /\ <<>> \in Seq(Case \cup {NoCase})
  BY EmptySeq
<1>2. next \in 1 .. Cases + 1 /\ 0 \in 0 .. MaxRestarts /\ 0 \in 0 .. MaxNoise
      /\ 0 \in 0 .. MaxForged
  BY CaseFacts DEF Init
<1> QED BY <1>1, <1>2 DEF Init, Typed, TypeOK, Point, CallPoints

LEMMA GuestTyped == ASSUME Typed, Guest PROVE Typed'
<1> USE DEF Typed, TypeOK, CallPoints
<1>1. CASE AgentStarts
  <2>1. writing' \in Fragment
    BY <1>1 DEF AgentStarts, Fragment, Record
  <2> QED BY <1>1, <2>1 DEF AgentStarts
<1>2. CASE AgentReads
  <2>1. Head(toGuest) \in Case /\ Tail(toGuest) \in Seq(Case)
    BY <1>2, HeadTailProperties DEF AgentReads
  <2>2. writing' \in Fragment /\ writing'.record.kind = "result"
    BY <1>2, <2>1, ResultFragment DEF AgentReads
  <2> QED BY <1>2, <2>1, <2>2 DEF AgentReads
<1>3. CASE AgentAnswers
  <2>1. writing \in Fragment /\ writing.record.kind = "result"
    BY <1>3 DEF AgentAnswers
  <2>2. PICK valid \in BOOLEAN : writing' = [writing EXCEPT !.record.valid = valid]
    BY <1>3 DEF AgentAnswers
  <2>3. writing' = [record |-> [kind |-> "result", of |-> writing.record.of, valid |-> valid],
                    part |-> writing.part]
    <3> DEFINE record == writing.record
    <3>1. record = [kind |-> "result", of |-> record.of, valid |-> record.valid]
      BY <2>1, FragmentFacts
    <3>2. [record EXCEPT !.valid = valid] = [kind |-> "result", of |-> record.of, valid |-> valid]
      <4>1. \A o, v : [[kind |-> "result", of |-> o, valid |-> v] EXCEPT !.valid = valid]
                       = [kind |-> "result", of |-> o, valid |-> valid]
        OBVIOUS
      <4> QED BY ONLY <3>1, <4>1
    <3>3. writing = [record |-> record, part |-> writing.part]
      BY <2>1 DEF Fragment
    <3>4. writing' = [record |-> [record EXCEPT !.valid = valid], part |-> writing.part]
      BY <2>2, <3>3
    <3> QED BY <3>2, <3>4
  <2>4. writing' \in Fragment
    BY <2>1, <2>3, FragmentFacts DEF Fragment, Record
  <2> QED BY <1>3, <2>4 DEF AgentAnswers
<1>4. CASE AgentWrites
  <2>1. writing \in Fragment
    BY <1>4 DEF AgentWrites
  <2>2. toHost' \in Seq(Fragment)
    BY <1>4, <2>1, EmitOne DEF AgentWrites
  <2>3. CASE writing.part < Parts(writing.record)
    <3>1. writing' = [writing EXCEPT !.part = writing.part + 1] /\ agent' = agent
      BY <1>4, <2>3 DEF AgentWrites
    <3>2. writing.part + 1 = 2
      <4>1. writing.part \in {1, 2}
        BY <2>1, FragmentFacts
      <4>2. Parts(writing.record) \in {1, 2}
        BY DEF Parts
      <4> QED BY <2>3, <4>1, <4>2
    <3>3. writing' \in Fragment
      BY <2>1, <3>1, <3>2 DEF Fragment
    <3>4. agent = "writing"
      BY <1>4 DEF AgentWrites
    <3>5. UNCHANGED <<hostVars, vm, connected, toGuest, served, trusted, restarts, noise, forged>>
      BY <1>4 DEF AgentWrites
    <3>6. agent' = "writing"
      BY <3>1, <3>4
    <3>7. TypeOK'
      BY <2>2, <3>3, <3>5, <3>6
    <3> QED BY <3>3, <3>5, <3>6, <3>7
  <2>4. CASE ~(writing.part < Parts(writing.record))
    BY <1>4, <2>2, <2>4 DEF AgentWrites
  <2> QED BY <2>3, <2>4
<1>5. CASE AgentRestarts
  <2>1. restarts' \in 0 .. MaxRestarts
    BY <1>5, CaseFacts DEF AgentRestarts
  <2> QED BY <1>5, <2>1 DEF AgentRestarts
<1>6. CASE KernelWrites
  <2>1. [record |-> [kind |-> "noise"], part |-> 1] \in Fragment
    BY DEF Fragment, Record
  <2>2. toHost' \in Seq(Fragment)
    BY <1>6, <2>1, EmitOne DEF KernelWrites
  <2>3. noise' \in 0 .. MaxNoise
    BY <1>6, CaseFacts DEF KernelWrites
  <2> QED BY <1>6, <2>2, <2>3 DEF KernelWrites
<1>7. CASE VmExits
  BY <1>7, EmptySeq DEF VmExits
<1>8. CASE CandidateForges
  <2>1. PICK record \in Record : \E n \in 1 .. Parts(record) :
          Emit([i \in 1 .. n |-> [record |-> record, part |-> i]])
    BY <1>8 DEF CandidateForges
  <2>2. toHost' \in Seq(Fragment)
    <3> PICK n \in 1 .. Parts(record) : Emit([i \in 1 .. n |-> [record |-> record, part |-> i]])
      BY <2>1
    <3> DEFINE fragments == [i \in 1 .. n |-> [record |-> record, part |-> i]]
    <3>1. fragments \in Seq(Fragment)
      BY ForgedFacts
    <3>2. Emit(fragments) /\ toHost \in Seq(Fragment)
      OBVIOUS
    <3> HIDE DEF fragments
    <3> QED BY <3>1, <3>2, EmitFacts
  <2>3. forged' \in 0 .. MaxForged
    BY <1>8, CaseFacts DEF CandidateForges
  <2>4. trusted' \in BOOLEAN
    BY <1>8 DEF CandidateForges
  <2> QED BY <1>8, <2>2, <2>3, <2>4 DEF CandidateForges
<1> QED BY <1>1, <1>2, <1>3, <1>4, <1>5, <1>6, <1>7, <1>8 DEF Guest

\* A record that decodes is a result of some case.
LEMMA DecodedFacts ==
    ASSUME NEW fragments \in Seq(Fragment), NEW i \in Starts(fragments), Decodes(fragments, i)
    PROVE  /\ i \in DOMAIN fragments /\ i + 1 \in DOMAIN fragments
           /\ fragments[i] \in Fragment /\ fragments[i + 1] \in Fragment
           /\ fragments[i].record.of \in Case \cup {NoCase}
           /\ fragments[i + 1].record.kind = "result" /\ fragments[i + 1].part = 2
<1>1. i \in DOMAIN fragments /\ i + 1 \in DOMAIN fragments
  BY DEF Starts, Decodes, Whole
<1>2. fragments[i] \in Fragment /\ fragments[i + 1] \in Fragment
  BY <1>1, ElementOfSeq, LenProperties
<1>3. fragments[i + 1] = [fragments[i] EXCEPT !.part = 2]
  BY DEF Decodes, Whole
<1>4. fragments[i].record.kind = "result"
  BY DEF Starts
<1>5. fragments[i + 1].record = fragments[i].record /\ fragments[i + 1].part = 2
  BY <1>2, <1>3 DEF Fragment
<1> QED BY <1>1, <1>2, <1>4, <1>5, FragmentFacts

\* What a call of recv can make of the case being executed.
LEMMA AnswerFacts ==
    ASSUME toHost \in Seq(Fragment), buffer \in Seq(Fragment), ReceiveAnswer
    PROVE  /\ pc = "receive"
           /\ \E n \in 1 .. Len(toHost) : Receive(n)
           /\ buffer' \in Seq(Fragment) /\ toHost' \in Seq(Fragment)
           /\ \/ UNCHANGED <<pc, next, answers>>
              \/ pc' = "failed" /\ UNCHANGED <<next, answers>>
              \/ /\ pc' = "idle" /\ next' = next + 1
                 /\ \E i \in Starts(buffer') :
                      /\ Decodes(buffer', i)
                      /\ answers' = Append(answers, buffer'[i].record.of)
<1>1. pc = "receive" /\ \E n \in 1 .. Len(toHost) : Receive(n)
  BY DEF ReceiveAnswer
<1>2. buffer' \in Seq(Fragment) /\ toHost' \in Seq(Fragment)
  BY <1>1, ReceiveFacts
<1>3. CASE Starts(buffer') = {}
  BY <1>1, <1>2, <1>3 DEF ReceiveAnswer
<1>4. CASE Starts(buffer') # {}
  <2> DEFINE i == Min(Starts(buffer'))
  <2>1. i \in Starts(buffer')
    BY <1>2, <1>4, FirstStart
  <2>2. CASE Decodes(buffer', i)
    <3>1. /\ pc' = "idle" /\ next' = next + 1
          /\ answers' = Append(answers, buffer'[i].record.of)
      BY <1>4, <2>2 DEF ReceiveAnswer
    <3> HIDE DEF i
    <3> QED BY <1>1, <1>2, <2>1, <2>2, <3>1
  <2>3. CASE ~Decodes(buffer', i)
    BY <1>1, <1>2, <1>4, <2>3 DEF ReceiveAnswer, Fail
  <2> QED BY <2>2, <2>3
<1> QED BY <1>3, <1>4

LEMMA HostTyped == ASSUME Typed, Host PROVE Typed'
<1> USE DEF Typed, TypeOK, CallPoints, Point, StopPoint
<1>1. CASE ExecuteCase
  BY <1>1, EmptySeq, CaseFacts DEF ExecuteCase
<1>2. CASE ConnectForBoot
  BY <1>2, EmptySeq DEF ConnectForBoot
<1>3. CASE WaitForSerial
  <2>1. buffer' \in Seq(Fragment) /\ toHost' \in Seq(Fragment)
    BY <1>3, ReceiveFacts DEF WaitForSerial
  <2>2. pc' \in {"wait_boot", "connect"} /\ connected' \in BOOLEAN
    BY <1>3 DEF WaitForSerial
  <2> QED BY <1>3, <2>1, <2>2 DEF WaitForSerial
<1>4. CASE SendCase
  <2>1. next \in Case
    BY <1>4, CaseFacts DEF SendCase, Case
  <2>2. toGuest' \in Seq(Case) /\ served' \in Seq(Case)
    BY <1>4, <2>1, AppendProperties DEF SendCase
  <2> QED BY <1>4, <2>2, EmptySeq DEF SendCase
<1>5. CASE ReceiveAnswer
  <2>1. connected' \in BOOLEAN
    BY <1>5 DEF ReceiveAnswer
  <2>2. /\ pc' \in {"receive", "failed", "idle"}
        /\ next' \in 1 .. Cases + 1
        /\ pc' = "receive" => next' = next
    <3>1. next \in 1 .. Cases
      BY <1>5, AnswerFacts, CaseFacts
    <3> QED BY <1>5, <3>1, AnswerFacts, CaseFacts
  <2>3. answers' \in Seq(Case \cup {NoCase})
    <3>1. CASE UNCHANGED answers
      BY <3>1
    <3>2. ASSUME NEW i \in Starts(buffer'), Decodes(buffer', i),
                 answers' = Append(answers, buffer'[i].record.of)
          PROVE  answers' \in Seq(Case \cup {NoCase})
      <4>1. buffer' \in Seq(Fragment)
        BY <1>5, AnswerFacts
      <4>2. buffer'[i].record.of \in Case \cup {NoCase}
        BY <3>2, <4>1, DecodedFacts
      <4> QED BY <3>2, <4>2, AppendProperties
    <3> QED BY <1>5, <3>1, <3>2, AnswerFacts
  <2>4. UNCHANGED <<hasRun, guestVars, vm, toGuest, served>>
    BY <1>5 DEF ReceiveAnswer
  <2>5. pc = "receive" /\ buffer' \in Seq(Fragment) /\ toHost' \in Seq(Fragment)
    BY <1>5, AnswerFacts
  <2> QED BY <2>1, <2>2, <2>3, <2>4, <2>5
<1>6. CASE CloseTarget
  BY <1>6 DEF CloseTarget
<1>7. CASE StopExited
  BY <1>7 DEF StopExited, Booting
<1>8. CASE Terminate
  BY <1>8 DEF Terminate, Booting
<1> QED BY <1>1, <1>2, <1>3, <1>4, <1>5, <1>6, <1>7, <1>8 DEF Host

LEMMA StepTyped == ASSUME Typed, [Next]_vars PROVE Typed'
<1>1. CASE HostDeadline
  BY <1>1, EmptySeq DEF HostDeadline, ConnectFails, BootGivenUp, CaseTimesOut, Kill,
                        KillTimesOut, Booting, Fail, Typed, TypeOK, CallPoints, Point, StopPoint
<1>2. CASE Done \/ UNCHANGED vars
  BY <1>2 DEF Done, vars, Typed, TypeOK, CallPoints
<1> QED BY <1>1, <1>2, GuestTyped, HostTyped DEF Next

\* The target, the VM, the serial port and the agent have their types
\* (TypeOK): no case past the last is asked, and the agent writes only what it
\* has.
THEOREM TypeCorrect == Spec => []TypeOK
<1>1. Typed => TypeOK
  BY DEF Typed
<1> QED BY <1>1, InitTyped, StepTyped, PTL DEF Spec

-----------------------------------------------------------------------------
(* The order of requests.                                                  *)

QuietPoints == {"idle", "connect_boot", "wait_boot", "connect"}

OrderInv ==
    /\ \A i \in DOMAIN served : served[i] = i
    /\ next = Len(answers) + 1
    /\ Len(answers) <= Len(served) /\ Len(served) <= Len(answers) + 1
    /\ pc \in QuietPoints => Len(served) = Len(answers)
    /\ pc = "receive" => Len(served) = Len(answers) + 1

LEMMA InitOrder == Init => OrderInv
BY DEF Init, OrderInv, QuietPoints

\* The guest and the clock ask nothing.
LEMMA OthersKeepOrder ==
    ASSUME OrderInv, Guest \/ HostDeadline \/ Done \/ UNCHANGED vars
    PROVE  OrderInv'
<1> USE DEF OrderInv, QuietPoints
<1>1. CASE Guest
  BY <1>1 DEF Guest, AgentStarts, AgentReads, AgentAnswers, AgentWrites, AgentRestarts,
              KernelWrites, CandidateForges, VmExits
<1>2. CASE HostDeadline
  BY <1>2 DEF HostDeadline, ConnectFails, BootGivenUp, CaseTimesOut, Kill, KillTimesOut,
              Booting, Fail
<1>3. CASE Done \/ UNCHANGED vars
  BY <1>3 DEF Done, vars
<1> QED BY <1>1, <1>2, <1>3

LEMMA HostOrder == ASSUME Typed, OrderInv, Host PROVE OrderInv'
<1> USE DEF OrderInv, QuietPoints
<1>1. /\ served \in Seq(Case) /\ answers \in Seq(Case \cup {NoCase})
      /\ Len(served) \in Nat /\ Len(answers) \in Nat
      /\ toHost \in Seq(Fragment) /\ buffer \in Seq(Fragment)
  BY LenProperties DEF Typed, TypeOK
<1>2. CASE ExecuteCase
  BY <1>2 DEF ExecuteCase
<1>3. CASE ConnectForBoot
  BY <1>3 DEF ConnectForBoot
<1>4. CASE WaitForSerial
  BY <1>4 DEF WaitForSerial
<1>5. CASE SendCase
  <2>1. next \in Case
    BY <1>5, CaseFacts DEF SendCase, Case, Typed, TypeOK, CallPoints
  <2>2. /\ served' \in Seq(Case)
        /\ Len(served') = Len(served) + 1
        /\ \A i \in 1 .. Len(served) : served'[i] = served[i]
        /\ served'[Len(served) + 1] = next
    BY <1>1, <1>5, <2>1, AppendProperties DEF SendCase
  <2>3. Len(served) + 1 = next
    BY <1>1, <1>5 DEF SendCase
  <2>4. ASSUME NEW i \in DOMAIN served' PROVE served'[i] = i
    <3>1. i \in 1 .. Len(served) \/ i = Len(served) + 1
      BY <1>1, <2>2, <2>4, LenProperties
    <3>2. DOMAIN served = 1 .. Len(served)
      BY <1>1, LenProperties
    <3> QED BY <2>2, <2>3, <3>1, <3>2
  <2>5. pc' = "receive" /\ UNCHANGED <<next, answers>> /\ Len(served) = Len(answers)
    BY <1>5 DEF SendCase
  <2> QED BY <1>1, <2>2, <2>4, <2>5
<1>6. CASE ReceiveAnswer
  <2>1. served' = served /\ pc = "receive" /\ Len(served) = Len(answers) + 1
    BY <1>6 DEF ReceiveAnswer
  <2>2. CASE UNCHANGED <<pc, next, answers>>
    BY <2>1, <2>2
  <2>3. CASE pc' = "failed" /\ UNCHANGED <<next, answers>>
    BY <2>1, <2>3
  <2>4. ASSUME pc' = "idle", next' = next + 1,
               NEW i \in Starts(buffer'), Decodes(buffer', i),
               answers' = Append(answers, buffer'[i].record.of)
        PROVE  OrderInv'
    <3>1. buffer'[i].record.of \in Case \cup {NoCase}
      BY <1>1, <1>6, <2>4, AnswerFacts, DecodedFacts
    <3>2. Len(answers') = Len(answers) + 1
      BY <1>1, <2>4, <3>1, AppendProperties
    <3> QED BY <1>1, <2>1, <2>4, <3>2
  <2> QED BY <1>1, <1>6, <2>2, <2>3, <2>4, AnswerFacts
<1>7. CASE CloseTarget
  BY <1>7 DEF CloseTarget
<1>8. CASE StopExited
  BY <1>8 DEF StopExited, Booting
<1>9. CASE Terminate
  BY <1>9 DEF Terminate, Booting
<1> QED BY <1>2, <1>3, <1>4, <1>5, <1>6, <1>7, <1>8, <1>9 DEF Host

\* A guest is asked each case once and in order, and nothing after a case that
\* it did not answer (AskedInOrder): a failed execute is never retried.
THEOREM CasesAreAskedInOrder == Spec => []AskedInOrder
<1>1. Typed /\ OrderInv /\ [Next]_vars => OrderInv'
  BY OthersKeepOrder, HostOrder DEF Next
<1>2. OrderInv => AskedInOrder
  BY DEF OrderInv, AskedInOrder
<1> QED BY <1>1, <1>2, InitTyped, StepTyped, InitOrder, PTL DEF Spec

-----------------------------------------------------------------------------
(* The one request in flight.  While the host waits, it is in one place:   *)
(* not read yet, being answered, or answered; and as long as a part of its *)
(* answer is still to come, the host has not seen that part.  What the     *)
(* guest forges leaves the requests and the agent's own record alone, and  *)
(* what it forged before a request is sent does not reach that connection. *)

Answering == agent \in {"busy", "writing"} /\ writing.record.kind = "result"

Result(fragment) == fragment.record.kind = "result"

\* What has left the agent and was not thrown away.
Sent == {toHost[i] : i \in DOMAIN toHost} \cup {buffer[i] : i \in DOMAIN buffer}

Waiting ==
    /\ \A i \in DOMAIN toGuest : toGuest[i] = next
    /\ Answering => toGuest = <<>> /\ writing.record.of = next
    /\ \A f \in Sent : Result(f) =>
         /\ f.record.of = next
         /\ toGuest = <<>>
         /\ Answering => f.part < writing.part

InFlight ==
    /\ Len(toGuest) <= 1
    /\ pc \in QuietPoints => toGuest = <<>> /\ ~Answering
    /\ pc = "receive" => Waiting

\* It is so until the guest writes a result out of turn.
RequestInv == trusted => InFlight

LEMMA InitRequest == Init => RequestInv
BY DEF Init, RequestInv, InFlight, QuietPoints, Answering

LEMMA RequestFacts ==
    ASSUME Typed, InFlight
    PROVE  /\ Len(toGuest) \in Nat /\ toGuest \in Seq(Case)
           /\ toGuest # <<>> => Tail(toGuest) = <<>> /\ 1 \in DOMAIN toGuest
                                /\ Head(toGuest) = toGuest[1] /\ Head(toGuest) \in Case
           /\ toHost \in Seq(Fragment) /\ buffer \in Seq(Fragment)
           /\ \A f \in Sent : f \in Fragment
<1>1. Len(toGuest) \in Nat /\ toGuest \in Seq(Case)
  BY LenProperties DEF Typed, TypeOK
<1>2. toHost \in Seq(Fragment) /\ buffer \in Seq(Fragment)
  BY DEF Typed, TypeOK
<1>3. \A f \in Sent : f \in Fragment
  BY <1>2, ElementOfSeq, LenProperties DEF Sent
<1>4. ASSUME toGuest # <<>>
      PROVE  /\ Tail(toGuest) = <<>> /\ 1 \in DOMAIN toGuest
             /\ Head(toGuest) = toGuest[1] /\ Head(toGuest) \in Case
  <2>1. Len(toGuest) # 0
    BY <1>1, <1>4, EmptySeq
  <2>2. Len(toGuest) = 1
    <3>1. Len(toGuest) <= 1
      BY DEF InFlight
    <3>2. \A k \in Nat : k # 0 /\ k <= 1 => k = 1
      OBVIOUS
    <3> HIDE DEF InFlight
    <3> QED BY <1>1, <2>1, <3>1, <3>2
  <2>3. Tail(toGuest) \in Seq(Case) /\ Len(Tail(toGuest)) = 0
    BY <1>1, <1>4, <2>2, HeadTailProperties
  <2>4. Tail(toGuest) = <<>>
    BY <2>3, EmptySeq
  <2>5. 1 \in DOMAIN toGuest
    BY <1>1, <2>2, LenProperties
  <2>6. Head(toGuest) = toGuest[1]
    OBVIOUS
  <2> QED BY <1>1, <1>4, <2>4, <2>5, <2>6, HeadTailProperties
<1> QED BY <1>1, <1>2, <1>3, <1>4

LEMMA GuestRequest == ASSUME Typed, InFlight, Guest, trusted' PROVE InFlight'
<1> USE DEF InFlight, QuietPoints, Waiting
<1>1. CASE AgentStarts
  BY <1>1 DEF AgentStarts, Answering, Sent
<1>2. CASE AgentReads
  <2>1. /\ toGuest # <<>> /\ ~Answering /\ toGuest' = <<>>
        /\ Head(toGuest) = toGuest[1] /\ 1 \in DOMAIN toGuest
    BY <1>2, RequestFacts DEF AgentReads, Answering
  <2>2. pc' = pc /\ next' = next /\ Sent' = Sent /\ writing'.record.of = Head(toGuest)
    BY <1>2 DEF AgentReads, Sent
  <2>3. pc = "receive" => \A f \in Sent : ~Result(f)
    BY <2>1
  <2>4. pc \notin QuietPoints
    BY <2>1
  <2>5. pc = "receive" => Waiting'
    BY <2>1, <2>2, <2>3 DEF Result
  <2> QED BY <2>1, <2>2, <2>4, <2>5
<1>3. CASE AgentAnswers
  <2>1. Answering /\ writing \in Fragment
    BY <1>3 DEF AgentAnswers, Answering, Typed
  <2>2. PICK valid \in BOOLEAN : writing' = [writing EXCEPT !.record.valid = valid]
    BY <1>3 DEF AgentAnswers
  <2>3. writing'.part = writing.part /\ writing'.record.of = writing.record.of
    <3>1. writing' = [record |-> [writing.record EXCEPT !.valid = valid], part |-> writing.part]
      BY <2>1, <2>2 DEF Fragment
    <3>2. [writing.record EXCEPT !.valid = valid].of = writing.record.of
      <4>1. writing.record = [kind  |-> "result", of |-> writing.record.of,
                              valid |-> writing.record.valid]
        BY <2>1, FragmentFacts DEF Answering
      <4> QED BY <4>1
    <3> QED BY <3>1, <3>2
  <2>4. pc' = pc /\ next' = next /\ toGuest' = toGuest /\ Sent' = Sent
    BY <1>3 DEF AgentAnswers, Sent
  <2> QED BY <2>1, <2>3, <2>4 DEF Result
<1>4. CASE AgentWrites
  <2>1. /\ writing \in Fragment /\ agent = "writing"
        /\ pc' = pc /\ next' = next /\ toGuest' = toGuest /\ buffer' = buffer
    BY <1>4 DEF AgentWrites, Typed
  <2>2. \A f \in Sent' : f \in Sent \/ f = writing
    BY <1>4, <2>1, EmitOne DEF AgentWrites, Sent, Typed, TypeOK
  <2>3. CASE writing.record.kind = "result" /\ writing.part = 1
    <3>1. writing' = [writing EXCEPT !.part = 2] /\ agent' = agent
      BY <1>4, <2>3 DEF AgentWrites, Parts
    <3>2. writing'.record = writing.record /\ writing'.part = 2
      BY <2>1, <3>1 DEF Fragment
    <3>3. \A f \in Sent : f.part \in {1, 2}
      BY RequestFacts, FragmentFacts
    <3>4. Answering /\ Answering'
      BY <2>1, <2>3, <3>1, <3>2 DEF Answering
    <3>5. pc = "receive" => Waiting'
      BY <2>1, <2>2, <2>3, <3>2, <3>3, <3>4 DEF Result
    <3> QED BY <2>1, <3>4, <3>5
  <2>4. CASE ~(writing.record.kind = "result" /\ writing.part = 1)
    <3>1. ~Answering'
      <4>1. writing.part \in {1, 2}
        BY <2>1, FragmentFacts
      <4>2. ~(writing.part < Parts(writing.record))
        <5>1. CASE writing.record.kind = "result"
          BY <2>4, <4>1, <5>1 DEF Parts
        <5>2. CASE writing.record.kind # "result"
          <6>1. Parts(writing.record) = 1
            BY <5>2 DEF Parts
          <6> QED BY <4>1, <6>1
        <5> QED BY <5>1, <5>2
      <4>3. agent' = "reading"
        BY <1>4, <4>2 DEF AgentWrites
      <4> QED BY <4>3 DEF Answering
    <3>2. writing.record.kind = "result" => Answering
      BY <2>1 DEF Answering
    <3> QED BY <2>1, <2>2, <3>1, <3>2 DEF Result
  <2> QED BY <2>3, <2>4
<1>5. CASE AgentRestarts
  BY <1>5 DEF AgentRestarts, Answering, Sent
<1>6. CASE KernelWrites
  <2> DEFINE line == [record |-> [kind |-> "noise"], part |-> 1]
  <2>1. line \in Fragment /\ ~Result(line)
    BY DEF Fragment, Record, Result
  <2>2. \A f \in Sent' : f \in Sent \/ f = line
    BY <1>6, <2>1, EmitOne DEF KernelWrites, Sent, Typed, TypeOK
  <2>3. UNCHANGED <<pc, next, toGuest, agent, writing>> /\ Answering' = Answering
    BY <1>6 DEF KernelWrites, Answering
  <2> HIDE DEF line
  <2> QED BY <2>1, <2>2, <2>3 DEF Result
<1>7. CASE VmExits
  <2>1. toGuest' = <<>> /\ ~Answering' /\ pc' = pc /\ next' = next /\ Sent' = Sent
    BY <1>7 DEF VmExits, Answering, Sent
  <2>2. Len(toGuest') = 0
    BY <2>1
  <2> QED BY <2>1, <2>2 DEF Result
<1>8. CASE CandidateForges
  <2>0. PICK record \in Record :
          /\ \E n \in 1 .. Parts(record) : Emit([i \in 1 .. n |-> [record |-> record, part |-> i]])
          /\ trusted' = IF record.kind = "result" /\ pc = "receive" THEN FALSE ELSE trusted
    BY <1>8 DEF CandidateForges
  <2>1. PICK n \in 1 .. Parts(record) : Emit([i \in 1 .. n |-> [record |-> record, part |-> i]])
    BY <2>0
  <2> DEFINE fragments == [i \in 1 .. n |-> [record |-> record, part |-> i]]
  <2>2. fragments \in Seq(Fragment) /\ \A k \in DOMAIN fragments : fragments[k].record = record
    BY ForgedFacts
  <2>3. Emit(fragments) /\ (record.kind = "result" => pc # "receive")
    BY <2>0, <2>1
  <2> HIDE DEF fragments
  <2>4. \A f \in Sent' : f \in Sent \/ f.record = record
    <3>1. toHost \in Seq(Fragment) /\ buffer' = buffer
      BY <1>8 DEF CandidateForges, Typed, TypeOK
    <3>2. \A i \in DOMAIN toHost' : \/ \E k \in DOMAIN toHost : toHost'[i] = toHost[k]
                                    \/ \E k \in DOMAIN fragments : toHost'[i] = fragments[k]
      BY <2>2, <2>3, <3>1, EmitFacts
    <3> HIDE DEF Typed, InFlight
    <3> QED BY <2>2, <3>1, <3>2 DEF Sent
  <2>5. UNCHANGED <<pc, next, toGuest, agent, writing>> /\ Answering' = Answering
    BY <1>8 DEF CandidateForges, Answering
  <2> QED BY <2>3, <2>4, <2>5 DEF Result
<1> QED BY <1>1, <1>2, <1>3, <1>4, <1>5, <1>6, <1>7, <1>8 DEF Guest

\* What recv moves was sent before.
LEMMA ReceiveMoves ==
    ASSUME Typed, ReceiveAnswer
    PROVE  Sent' \subseteq Sent
<1>1. toHost \in Seq(Fragment) /\ buffer \in Seq(Fragment)
  BY DEF Typed, TypeOK
<1>2. PICK n \in 1 .. Len(toHost) : Receive(n)
  BY <1>1, AnswerFacts
<1> SUFFICES ASSUME NEW f \in Sent' PROVE f \in Sent
  OBVIOUS
<1>3. CASE \E i \in DOMAIN toHost' : f = toHost'[i]
  BY <1>1, <1>2, <1>3, ReceiveFacts DEF Sent
<1>4. CASE \E i \in DOMAIN buffer' : f = buffer'[i]
  BY <1>1, <1>2, <1>4, ReceiveFacts DEF Sent
<1> QED BY <1>3, <1>4 DEF Sent

\* An answer that decodes is to the request, and nothing of it is to come.
LEMMA AnswerIsCurrent ==
    ASSUME Typed, InFlight, ReceiveAnswer,
           NEW i \in Starts(buffer'), Decodes(buffer', i)
    PROVE  buffer'[i].record.of = next /\ toGuest = <<>> /\ ~Answering
<1>1. buffer' \in Seq(Fragment) /\ pc = "receive"
  BY AnswerFacts DEF Typed, TypeOK
<1>2. /\ i \in DOMAIN buffer' /\ i + 1 \in DOMAIN buffer'
      /\ Result(buffer'[i + 1]) /\ buffer'[i + 1].part = 2
  BY <1>1, DecodedFacts DEF Result
<1>3. buffer'[i] \in Sent /\ buffer'[i + 1] \in Sent
  BY <1>2, ReceiveMoves DEF Sent
<1>4. Result(buffer'[i])
  BY DEF Starts, Result
<1>5. ~Answering
  <2>1. Answering => writing.part \in {1, 2}
    BY FragmentFacts DEF Answering, Typed
  <2> QED BY <1>1, <1>2, <1>3, <2>1 DEF InFlight, Waiting
<1> QED BY <1>1, <1>3, <1>4, <1>5 DEF InFlight, Waiting

LEMMA HostRequest == ASSUME Typed, OrderInv, InFlight, Host PROVE InFlight'
<1> USE DEF InFlight, QuietPoints
<1>1. CASE ExecuteCase
  BY <1>1 DEF ExecuteCase, Answering
<1>2. CASE ConnectForBoot
  BY <1>2 DEF ConnectForBoot, Answering
<1>3. CASE WaitForSerial
  <2>1. pc = "wait_boot" /\ pc' \in {"wait_boot", "connect"}
    BY <1>3 DEF WaitForSerial
  <2> QED BY <1>3, <2>1 DEF WaitForSerial, Answering
<1>4. CASE SendCase
  <2>1. toGuest = <<>> /\ ~Answering /\ toGuest' = Append(toGuest, next)
    BY <1>4 DEF SendCase
  <2>2. toGuest' = <<next>>
    BY <2>1
  <2>3. Sent' = {} /\ Answering' = Answering /\ pc' = "receive" /\ next' = next
    BY <1>4 DEF SendCase, Sent, Answering
  <2>4. Len(toGuest') = 1 /\ \A i \in DOMAIN toGuest' : toGuest'[i] = next
    BY <2>2
  <2> QED BY <2>1, <2>3, <2>4 DEF Waiting
<1>5. CASE ReceiveAnswer
  <2>1. /\ UNCHANGED <<toGuest, agent, writing>> /\ Answering' = Answering
        /\ pc = "receive"
    BY <1>5 DEF ReceiveAnswer, Answering
  <2>2. CASE UNCHANGED <<pc, next, answers>>
    BY <1>5, <2>1, <2>2, ReceiveMoves DEF Waiting, Result
  <2>3. CASE pc' = "failed"
    BY <2>1, <2>3
  <2>4. ASSUME pc' = "idle", NEW i \in Starts(buffer'), Decodes(buffer', i)
        PROVE  InFlight'
    BY <1>5, <2>1, <2>4, AnswerIsCurrent
  <2> QED BY <1>5, <2>2, <2>3, <2>4, AnswerFacts DEF Typed, TypeOK
<1>6. CASE CloseTarget
  BY <1>6 DEF CloseTarget
<1>7. CASE StopExited
  BY <1>7 DEF StopExited, Booting
<1>8. CASE Terminate
  BY <1>8 DEF Terminate, Booting
<1> QED BY <1>1, <1>2, <1>3, <1>4, <1>5, <1>6, <1>7, <1>8 DEF Host

LEMMA DeadlineRequest ==
    ASSUME InFlight, HostDeadline \/ Done \/ UNCHANGED vars
    PROVE  InFlight'
<1> USE DEF InFlight, QuietPoints
<1>1. CASE ConnectFails \/ BootGivenUp \/ CaseTimesOut
  BY <1>1 DEF ConnectFails, BootGivenUp, CaseTimesOut, Fail
<1>2. CASE Kill \/ KillTimesOut
  BY <1>2 DEF Kill, KillTimesOut, Booting
<1>3. CASE Done \/ UNCHANGED vars
  BY <1>3 DEF Done, vars, Waiting, Answering, Sent
<1> QED BY <1>1, <1>2, <1>3 DEF HostDeadline

\* Only a forged record takes the trust away, and nothing gives it back.
LEMMA TrustFacts ==
    ASSUME [Next]_vars
    PROVE  /\ trusted' => trusted
           /\ \/ trusted' = trusted
              \/ trusted' = FALSE /\ pc = "receive" /\ UNCHANGED hostVars
<1>1. CASE CandidateForges
  BY <1>1 DEF CandidateForges
<1>2. CASE Guest /\ ~CandidateForges
  BY <1>2 DEF Guest, AgentStarts, AgentReads, AgentAnswers, AgentWrites, AgentRestarts,
              KernelWrites, VmExits
<1>3. CASE Host
  BY <1>3 DEF Host, ExecuteCase, ConnectForBoot, WaitForSerial, SendCase, ReceiveAnswer,
              CloseTarget, StopExited, Terminate
<1>4. CASE HostDeadline
  BY <1>4 DEF HostDeadline, ConnectFails, BootGivenUp, CaseTimesOut, Kill, KillTimesOut
<1>5. CASE Done \/ UNCHANGED vars
  BY <1>5 DEF Done, vars
<1> QED BY <1>1, <1>2, <1>3, <1>4, <1>5 DEF Next

LEMMA StepRequest == ASSUME Typed, OrderInv, RequestInv, [Next]_vars PROVE RequestInv'
<1> SUFFICES ASSUME trusted' PROVE InFlight'
  BY DEF RequestInv
<1>1. InFlight
  BY TrustFacts DEF RequestInv
<1> QED BY <1>1, GuestRequest, HostRequest, DeadlineRequest DEF Next

\* While the host waits for a case, whatever is unread, in work or on its way
\* belongs to that case (OneRequestAtATime), so the unnumbered answers cannot be
\* confused: until the guest writes a result out of turn to a waiting host, and
\* whatever else it writes.
THEOREM OneRequestIsInFlight == Spec => []OneRequestAtATime
<1>1. Typed /\ RequestInv => OneRequestAtATime
  <2> SUFFICES ASSUME Typed, InFlight, trusted PROVE OneRequestAtATime
    BY DEF RequestInv, OneRequestAtATime
  <2>1. writing # NoRecord /\ writing.record.kind = "result" => Answering
    BY DEF Answering, Typed, TypeOK
  <2> QED BY <2>1 DEF InFlight, Waiting, OneRequestAtATime, Sent, Result
<1>2. Typed /\ OrderInv /\ [Next]_vars => OrderInv'
  BY OthersKeepOrder, HostOrder DEF Next
<1> QED
  BY <1>1, <1>2, InitTyped, StepTyped, InitOrder, InitRequest, StepRequest, PTL DEF Spec

-----------------------------------------------------------------------------
(* The session is a Target.                                                *)

LEMMA InitTarget == Init => Contract!TargetInit
BY DEF Init, Contract!TargetInit, Phase

LEMMA HostIsTarget ==
    ASSUME Typed, OrderInv, RequestInv, Host
    PROVE  [Contract!TargetNext]_(Contract!targetVars)
<1> USE DEF Contract!TargetNext, Contract!targetVars, Phase
<1>1. CASE ExecuteCase
  <2>1. next \in Case
    BY <1>1, CaseFacts DEF ExecuteCase, Case, Typed, TypeOK
  <2>2. Contract!Execute(next)
    BY <1>1 DEF ExecuteCase, Contract!Execute
  <2> QED BY <2>1, <2>2
<1>2. CASE ConnectForBoot
  BY <1>2 DEF ConnectForBoot
<1>3. CASE WaitForSerial
  <2>1. pc = "wait_boot" /\ pc' \in {"wait_boot", "connect"}
    BY <1>3 DEF WaitForSerial
  <2> QED BY <1>3, <2>1 DEF WaitForSerial
<1>4. CASE SendCase
  BY <1>4 DEF SendCase
<1>5. CASE ReceiveAnswer
  <2>1. CASE UNCHANGED <<pc, next, answers>>
    BY <1>5, <2>1 DEF ReceiveAnswer
  <2>2. CASE pc' = "failed" /\ UNCHANGED <<next, answers>>
    <3>1. Contract!Fail
      BY <1>5, <2>2 DEF ReceiveAnswer, Contract!Fail
    <3> QED BY <3>1
  <2>3. ASSUME pc' = "idle", NEW i \in Starts(buffer'), Decodes(buffer', i),
               answers' = Append(answers, buffer'[i].record.of)
        PROVE  Contract!Return
    <3>1. trusted => buffer'[i].record.of = next
      BY <1>5, <2>3, AnswerIsCurrent DEF RequestInv
    <3>2. buffer'[i].record.of \in Case \cup {NoCase}
      BY <1>5, <2>3, AnswerFacts, DecodedFacts DEF Typed, TypeOK
    <3>3. pc = "receive" /\ trusted' = trusted
      BY <1>5 DEF ReceiveAnswer
    <3> QED BY <2>3, <3>1, <3>2, <3>3 DEF Contract!Return
  <2> QED BY <1>5, <2>1, <2>2, <2>3, AnswerFacts DEF Typed, TypeOK
<1>6. CASE CloseTarget
  <2>1. Contract!Close
    BY <1>6 DEF CloseTarget, Contract!Close
  <2> QED BY <2>1
<1>7. CASE StopExited
  <2>1. CASE pc \in {"boot_failed", "boot_stopping", "boot_killing"}
    <3>1. Contract!Fail
      BY <1>7, <2>1 DEF StopExited, Booting, Contract!Fail
    <3> QED BY <3>1
  <2>2. CASE pc \in {"stop", "stopping", "killing"}
    BY <1>7, <2>2 DEF StopExited, Booting
  <2> QED BY <1>7, <2>1, <2>2 DEF StopExited, StopPoint
<1>8. CASE Terminate
  BY <1>8 DEF Terminate, Booting
<1> QED BY <1>1, <1>2, <1>3, <1>4, <1>5, <1>6, <1>7, <1>8 DEF Host

LEMMA OtherIsTarget ==
    ASSUME Guest \/ HostDeadline \/ Done \/ UNCHANGED vars
    PROVE  [Contract!TargetNext]_(Contract!targetVars)
<1> USE DEF Contract!TargetNext, Contract!targetVars, Phase
<1>1. CASE Guest
  <2>1. UNCHANGED hostVars
    BY <1>1 DEF Guest, AgentStarts, AgentReads, AgentAnswers, AgentWrites, AgentRestarts,
                KernelWrites, CandidateForges, VmExits
  <2>2. CASE trusted' = trusted
    BY <2>1, <2>2
  <2>3. CASE trusted' # trusted
    <3>1. trusted' = FALSE /\ pc = "receive"
      BY <1>1, <2>3, TrustFacts DEF Next
    <3>2. Contract!AnswerOutOfTurn
      BY <2>1, <3>1 DEF Contract!AnswerOutOfTurn
    <3> QED BY <3>2
  <2> QED BY <2>2, <2>3
<1>2. CASE ConnectFails \/ CaseTimesOut
  <2>1. Contract!Fail
    BY <1>2 DEF ConnectFails, CaseTimesOut, Fail, Contract!Fail
  <2> QED BY <2>1
<1>3. CASE BootGivenUp \/ Kill
  BY <1>3 DEF BootGivenUp, Kill, Booting
<1>4. CASE KillTimesOut
  <2>1. CASE pc = "boot_killing"
    <3>1. Contract!Fail
      BY <1>4, <2>1 DEF KillTimesOut, Booting, Contract!Fail
    <3> QED BY <3>1
  <2>2. CASE pc = "killing"
    BY <1>4, <2>2 DEF KillTimesOut, Booting
  <2> QED BY <1>4, <2>1, <2>2 DEF KillTimesOut
<1>5. CASE Done \/ UNCHANGED vars
  BY <1>5 DEF Done, vars
<1> QED BY <1>1, <1>2, <1>3, <1>4, <1>5 DEF HostDeadline

\* The QEMU side implements the target that evaluate is written against
\* (ImplementsTarget): whatever the guest writes, calls return or raise in order;
\* and an execute that returns has observed the case it was asked, until the
\* guest writes a result out of turn to a waiting host.
THEOREM SessionImplementsTarget == Spec => ImplementsTarget
<1>1. Typed /\ OrderInv /\ [Next]_vars => OrderInv'
  BY OthersKeepOrder, HostOrder DEF Next
<1>2. Typed /\ OrderInv /\ RequestInv /\ [Next]_vars
        => [Contract!TargetNext]_(Contract!targetVars)
  BY HostIsTarget, OtherIsTarget DEF Next
<1> QED
  BY <1>1, <1>2, InitTyped, StepTyped, InitOrder, InitRequest, StepRequest, InitTarget, PTL
     DEF Spec, ImplementsTarget, Contract!TargetSpec
=============================================================================

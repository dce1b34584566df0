------------------------- MODULE DatasetStoreProofs -------------------------
(***************************************************************************)
(* What holds of the public corpus for any number of processes, tasks,     *)
(* requests, crashes and versions of the Contracts.  What needs it says    *)
(* that nobody edits the Contracts during a build.                         *)
(***************************************************************************)
EXTENDS DatasetStore, TLAPS

USE DEF files, builders, bounds

-----------------------------------------------------------------------------
(* Types.  A process that is past a point of its task has what it read or  *)
(* wrote there.                                                            *)

\* This process has written the cases or seen that they are there.
AfterCases == (BuildPoints \ {"find_cases", "write_cases"}) \cup LoadPoints \cup {"read_cases"}

Located(p) ==
    /\ job[p].pc # "idle" => cache[p] \in Version
    /\ job[p].pc \in AfterCases => casesFile \in Corpus
    /\ job[p].pc \in BuildPoints \ {"find_cases"} => job[p].corpus \in Corpus
    /\ job[p].pc \in {"hash_cases", "write_manifest"} => job[p].contractsSha \in Version
    /\ job[p].pc = "write_manifest" => job[p].casesSha \in Corpus

Typed ==
    /\ TypeOK
    /\ \A p \in Process : Located(p)

-----------------------------------------------------------------------------
(* Builds, when no Contract is edited meanwhile.                           *)

\* What a build has in hand is of the Contracts on disk.
BuildsCurrent(p) ==
    /\ job[p].pc \in BuildPoints \ {"find_cases"} => job[p].corpus.contracts = contracts
    /\ job[p].pc \in {"hash_cases", "write_manifest"} => job[p].contractsSha = contracts
    /\ job[p].pc \in BuildPoints \ {"find_cases", "write_cases"} =>
         casesFile.contracts = contracts
    /\ job[p].pc = "write_manifest" => job[p].casesSha.contracts = contracts

\* As long as there is no corpus, a process that has loaded the Contracts is
\* about to build it.
FirstBuild(p) ==
    casesFile = NoFile /\ cache[p] # NoVersion =>
        job[p].pc \in BuildPoints /\ cache[p] = contracts

ManifestPaired ==
    manifest # NoFile => manifest.casesSha.contracts = manifest.contractsSha

BuildInv ==
    /\ \A p \in Process : BuildsCurrent(p) /\ FirstBuild(p)
    /\ ManifestPaired

\* An undisturbed evaluation sees one file throughout,
SeesOneFile(p) ==
    p \notin disturbed =>
        /\ job[p].pc \in LoadPoints => casesFile = job[p].loaded
        /\ job[p].pc \in {"hash_digest", "verify", "evaluating"} =>
             job[p].fileSha = job[p].loaded

\* and, once accepted, the Contracts this file is made from.
SeesItsContracts(p) ==
    p \notin disturbed /\ job[p].pc = "evaluating" => job[p].loaded.contracts = job[p].digest

SeenInv == \A p \in Process : SeesOneFile(p)

ReadInv == \A p \in Process : SeesItsContracts(p)

\* A build whose cases nobody replaced has the file it hashes in hand.
HasItsCases(p) ==
    job[p].pc \in BetweenWrites /\ p \notin crossed =>
        /\ casesFile = job[p].corpus
        /\ job[p].pc = "write_manifest" => job[p].casesSha = casesFile

\* The manifest of such a build has the counts of the cases it has the hash of,
ManifestFits ==
    manifest # NoFile /\ ~mixed =>
        /\ manifest.count = manifest.casesSha.request.perContract
        /\ manifest.datasetSha = manifest.casesSha

\* and is of the present cases, until another build replaces these or is killed.
ManifestCurrent ==
    /\ \A p \in Process : job[p].pc \notin BetweenWrites
    /\ ~mixed /\ casesFile # NoFile /\ crashes = 0
    => manifest # NoFile /\ manifest.casesSha = casesFile

PairInv ==
    /\ \A p \in Process : HasItsCases(p)
    /\ ManifestFits
    /\ ManifestCurrent

\* Until a Contract is edited, only its first version is anywhere.
FirstVersion ==
    contracts = 1 =>
        /\ casesFile # NoFile => casesFile.contracts = 1
        /\ manifest # NoFile => manifest.contractsSha = 1 /\ manifest.casesSha.contracts = 1
        /\ \A p \in Process :
             /\ cache[p] # NoVersion => cache[p] = 1
             /\ job[p].pc \in BuildPoints \ {"find_cases"} => job[p].corpus.contracts = 1
             /\ job[p].pc \in {"hash_cases", "write_manifest"} => job[p].contractsSha = 1
             /\ job[p].pc = "write_manifest" => job[p].casesSha.contracts = 1
             /\ job[p].pc \in {"hash_digest", "verify"} =>
                  job[p].fileSha \in Corpus /\ job[p].fileSha.contracts = 1
             /\ job[p].pc = "verify" => job[p].digest = 1

-----------------------------------------------------------------------------
(* The step of one process.                                                *)

Others(p) == \A q \in Process \ {p} : job'[q] = job[q]

\* Job p becomes j.
Becomes(p, j) == j \in Job /\ job'[p] = j /\ Others(p) /\ job' \in [Process -> Job]

LEMMA BecomesFacts ==
    ASSUME Typed, NEW p \in Process, NEW j \in Job, job' = [job EXCEPT ![p] = j]
    PROVE  Becomes(p, j)
BY DEF Typed, TypeOK, Becomes, Others

LEMMA StoreFacts ==
    /\ MaxVersion \in Nat /\ MaxTasks \in Nat /\ MaxCrashes \in Nat
    /\ NoFile \notin Corpus /\ NoFile \notin Manifest /\ NoVersion \notin Version
    /\ DefaultRequest \in Requests
BY StoreAssumption

LEMMA IdleFacts == Idle \in Job
BY DEF Idle, Job, Point, BuildPoints, LoadPoints

\* A field may be set to what it can hold.
LEMMA FieldFacts ==
    ASSUME NEW j \in Job, NEW pc \in Point,
           NEW corpus \in Corpus \cup {NoFile}, NEW version \in Version \cup {NoVersion}
    PROVE  /\ [j EXCEPT !.pc = pc] \in Job
           /\ [j EXCEPT !.pc = pc, !.contractsSha = version] \in Job
           /\ [j EXCEPT !.pc = pc, !.casesSha = corpus] \in Job
           /\ [j EXCEPT !.pc = pc, !.loaded = corpus] \in Job
           /\ [j EXCEPT !.pc = pc, !.fileSha = corpus] \in Job
           /\ [j EXCEPT !.pc = pc, !.digest = version] \in Job
<1>1. [j EXCEPT !.pc = pc] \in Job
  BY DEF Job
<1>2. [j EXCEPT !.pc = pc, !.contractsSha = version] \in Job
  BY DEF Job
<1>3. [j EXCEPT !.pc = pc, !.casesSha = corpus] \in Job
  BY DEF Job
<1>4. [j EXCEPT !.pc = pc, !.loaded = corpus] \in Job
  BY DEF Job
<1>5. [j EXCEPT !.pc = pc, !.fileSha = corpus] \in Job
  BY DEF Job
<1>6. [j EXCEPT !.pc = pc, !.digest = version] \in Job
  BY DEF Job
<1> QED BY <1>1, <1>2, <1>3, <1>4, <1>5, <1>6

\* What each action makes of the process that takes it.
LEMMA StartBuildMoves ==
    ASSUME Typed, NEW p \in Process, StartBuild(p)
    PROVE  \E r \in Requests :
             Becomes(p, [Idle EXCEPT !.pc = "write_cases", !.task = "build",
                                     !.corpus = [request |-> r, contracts |-> contracts]])
<1>1. PICK r \in Requests :
        job' = [job EXCEPT ![p] =
                  [Idle EXCEPT !.pc = "write_cases", !.task = "build",
                               !.corpus = [request |-> r, contracts |-> contracts]]]
  BY DEF StartBuild
<1> DEFINE j == [Idle EXCEPT !.pc = "write_cases", !.task = "build",
                             !.corpus = [request |-> r, contracts |-> contracts]]
<1>2. j \in Job
  BY DEF Idle, Job, Point, BuildPoints, LoadPoints, Corpus, Typed, TypeOK
<1> QED BY <1>1, <1>2, BecomesFacts

LEMMA StartEvaluateMoves ==
    ASSUME Typed, NEW p \in Process, StartEvaluate(p)
    PROVE  Becomes(p, [Idle EXCEPT !.pc = "find_cases", !.task = "evaluate"])
<1>1. [Idle EXCEPT !.pc = "find_cases", !.task = "evaluate"] \in Job
  BY DEF Idle, Job, Point, BuildPoints, LoadPoints
<1> QED BY <1>1, BecomesFacts DEF StartEvaluate

\* The other actions keep the fields they do not name.
LEMMA FieldMoves ==
    ASSUME Typed, NEW p \in Process
    PROVE  /\ WriteCases(p) => Becomes(p, [job[p] EXCEPT !.pc = "hash_contracts"])
           /\ HashContracts(p) =>
                Becomes(p, [job[p] EXCEPT !.pc = "hash_cases", !.contractsSha = contracts])
           /\ HashCases(p) =>
                Becomes(p, [job[p] EXCEPT !.pc = "write_manifest", !.casesSha = casesFile])
           /\ ReadCases(p) =>
                Becomes(p, [job[p] EXCEPT !.pc = "hash_file", !.loaded = casesFile])
           /\ HashFile(p) =>
                Becomes(p, [job[p] EXCEPT !.pc = "hash_digest", !.fileSha = casesFile])
           /\ HashDigest(p) =>
                Becomes(p, [job[p] EXCEPT !.pc = "verify", !.digest = contracts])
           /\ Accept(p) => Becomes(p, [job[p] EXCEPT !.pc = "evaluating"])
           /\ Refuse(p) => Becomes(p, [job[p] EXCEPT !.pc = "refused"])
           /\ EndTask(p) \/ Crash(p) => Becomes(p, Idle)
<1>1. /\ job \in [Process -> Job] /\ job[p] \in Job
      /\ casesFile \in Corpus \cup {NoFile} /\ contracts \in Version
  BY DEF Typed, TypeOK
<1>2. /\ \A pc \in Point : [job[p] EXCEPT !.pc = pc] \in Job
      /\ [job[p] EXCEPT !.pc = "hash_cases", !.contractsSha = contracts] \in Job
      /\ [job[p] EXCEPT !.pc = "write_manifest", !.casesSha = casesFile] \in Job
      /\ [job[p] EXCEPT !.pc = "hash_file", !.loaded = casesFile] \in Job
      /\ [job[p] EXCEPT !.pc = "hash_digest", !.fileSha = casesFile] \in Job
      /\ [job[p] EXCEPT !.pc = "verify", !.digest = contracts] \in Job
  BY <1>1, FieldFacts DEF Point, BuildPoints, LoadPoints
<1>3. {"hash_contracts", "evaluating", "refused"} \subseteq Point
  BY DEF Point, BuildPoints
<1>4. ASSUME WriteCases(p) PROVE Becomes(p, [job[p] EXCEPT !.pc = "hash_contracts"])
  BY <1>1, <1>2, <1>3, <1>4, BecomesFacts DEF WriteCases
<1>5. ASSUME HashContracts(p)
      PROVE  Becomes(p, [job[p] EXCEPT !.pc = "hash_cases", !.contractsSha = contracts])
  <2>1. job' = [job EXCEPT ![p] =
                  [job[p] EXCEPT !.pc = "hash_cases", !.contractsSha = contracts]]
    BY <1>1, <1>5 DEF HashContracts
  <2> QED BY <1>2, <2>1, BecomesFacts
<1>6. ASSUME HashCases(p)
      PROVE  Becomes(p, [job[p] EXCEPT !.pc = "write_manifest", !.casesSha = casesFile])
  <2>1. job' = [job EXCEPT ![p] =
                  [job[p] EXCEPT !.pc = "write_manifest", !.casesSha = casesFile]]
    BY <1>1, <1>6 DEF HashCases
  <2> QED BY <1>2, <2>1, BecomesFacts
<1>7. ASSUME ReadCases(p)
      PROVE  Becomes(p, [job[p] EXCEPT !.pc = "hash_file", !.loaded = casesFile])
  <2>1. job' = [job EXCEPT ![p] = [job[p] EXCEPT !.pc = "hash_file", !.loaded = casesFile]]
    BY <1>1, <1>7 DEF ReadCases
  <2> QED BY <1>2, <2>1, BecomesFacts
<1>8. ASSUME HashFile(p)
      PROVE  Becomes(p, [job[p] EXCEPT !.pc = "hash_digest", !.fileSha = casesFile])
  <2>1. job' = [job EXCEPT ![p] = [job[p] EXCEPT !.pc = "hash_digest", !.fileSha = casesFile]]
    BY <1>1, <1>8 DEF HashFile
  <2> QED BY <1>2, <2>1, BecomesFacts
<1>9. ASSUME HashDigest(p)
      PROVE  Becomes(p, [job[p] EXCEPT !.pc = "verify", !.digest = contracts])
  <2>1. job' = [job EXCEPT ![p] = [job[p] EXCEPT !.pc = "verify", !.digest = contracts]]
    BY <1>1, <1>9 DEF HashDigest
  <2> QED BY <1>2, <2>1, BecomesFacts
<1>10. ASSUME Accept(p) PROVE Becomes(p, [job[p] EXCEPT !.pc = "evaluating"])
  BY <1>1, <1>2, <1>3, <1>10, BecomesFacts DEF Accept
<1>11. ASSUME Refuse(p) PROVE Becomes(p, [job[p] EXCEPT !.pc = "refused"])
  BY <1>1, <1>2, <1>3, <1>11, BecomesFacts DEF Refuse
<1>12. ASSUME EndTask(p) \/ Crash(p) PROVE Becomes(p, Idle)
  BY <1>12, IdleFacts, BecomesFacts DEF EndTask, Crash
<1> QED BY <1>4, <1>5, <1>6, <1>7, <1>8, <1>9, <1>10, <1>11, <1>12

\* A process that has its cases file missing builds it, else reads it.
LEMMA FindCasesMoves ==
    ASSUME Typed, NEW p \in Process, FindCases(p)
    PROVE  IF casesFile = NoFile
             THEN Becomes(p, [job[p] EXCEPT !.pc = "write_cases",
                                            !.corpus = [request   |-> DefaultRequest,
                                                        contracts |-> cache[p]]])
             ELSE Becomes(p, [job[p] EXCEPT !.pc = "read_cases"])
<1>1. /\ job \in [Process -> Job] /\ job[p] \in Job /\ cache[p] \in Version
      /\ DefaultRequest \in Requests
  BY StoreFacts DEF Typed, TypeOK, Located, FindCases, At
<1> DEFINE j == [job[p] EXCEPT !.pc = "write_cases",
                               !.corpus = [request   |-> DefaultRequest,
                                           contracts |-> cache[p]]]
<1>2. j \in Job /\ [job[p] EXCEPT !.pc = "read_cases"] \in Job
  BY <1>1 DEF Job, Point, BuildPoints, LoadPoints, Corpus
<1>3. CASE casesFile = NoFile
  <2>1. job' = [job EXCEPT ![p] = j]
    BY <1>1, <1>3 DEF FindCases
  <2> QED BY <1>2, <1>3, <2>1, BecomesFacts
<1>4. CASE casesFile # NoFile
  <2>1. job' = [job EXCEPT ![p] = [job[p] EXCEPT !.pc = "read_cases"]]
    BY <1>1, <1>4 DEF FindCases
  <2> QED BY <1>2, <1>4, <2>1, BecomesFacts
<1> QED BY <1>3, <1>4

\* The end of a build: the process ends, or its evaluation goes on.
LEMMA WriteManifestMoves ==
    ASSUME Typed, NEW p \in Process, WriteManifest(p)
    PROVE  Becomes(p, Idle) \/ Becomes(p, [job[p] EXCEPT !.pc = "read_cases"])
<1>1. job \in [Process -> Job] /\ job[p] \in Job
  BY DEF Typed, TypeOK
<1>2. [job[p] EXCEPT !.pc = "read_cases"] \in Job
  BY <1>1 DEF Job, Point
<1>3. CASE job' = [job EXCEPT ![p] = Idle]
  BY <1>3, IdleFacts, BecomesFacts
<1>4. CASE job' = [job EXCEPT ![p].pc = "read_cases"]
  <2>1. job' = [job EXCEPT ![p] = [job[p] EXCEPT !.pc = "read_cases"]]
    BY <1>1, <1>4
  <2> QED BY <1>2, <2>1, BecomesFacts
<1> QED BY <1>3, <1>4 DEF WriteManifest

-----------------------------------------------------------------------------
(* What a step of a process reads and writes, with the types known.        *)

\* Nobody else's variables change, and no Contract.
Alone(p) ==
    /\ job \in [Process -> Job] /\ job' \in [Process -> Job] /\ Others(p)
    /\ contracts' = contracts /\ cache \in [Process -> Version \cup {NoVersion}]
    /\ \A q \in Process \ {p} : cache'[q] = cache[q]

LEMMA WriteCasesFacts ==
    ASSUME Typed, NEW p \in Process, WriteCases(p)
    PROVE  /\ Alone(p) /\ job[p].pc = "write_cases" /\ job'[p].pc = "hash_contracts"
           /\ job'[p].corpus = job[p].corpus /\ job[p].corpus \in Corpus
           /\ casesFile' = job[p].corpus
           /\ Disturb /\ UNCHANGED <<manifest, cache, crashes>>
<1>1. Becomes(p, [job[p] EXCEPT !.pc = "hash_contracts"])
  BY FieldMoves
<1>2. job[p] \in Job /\ job \in [Process -> Job]
  BY DEF Typed, TypeOK
<1> QED BY <1>1, <1>2 DEF Alone, Becomes, Job, WriteCases, At, Typed, TypeOK, Located, BuildPoints

LEMMA HashContractsFacts ==
    ASSUME Typed, NEW p \in Process, HashContracts(p)
    PROVE  /\ Alone(p) /\ job[p].pc = "hash_contracts" /\ job'[p].pc = "hash_cases"
           /\ job'[p].corpus = job[p].corpus /\ job'[p].contractsSha = contracts
           /\ UNCHANGED <<casesFile, manifest, cache, disturbed, crashes>>
<1>1. Becomes(p, [job[p] EXCEPT !.pc = "hash_cases", !.contractsSha = contracts])
  BY FieldMoves
<1>2. job[p] \in Job /\ job \in [Process -> Job]
  BY DEF Typed, TypeOK
<1> QED BY <1>1, <1>2 DEF Alone, Becomes, Job, HashContracts, At, Typed, TypeOK

LEMMA HashCasesFacts ==
    ASSUME Typed, NEW p \in Process, HashCases(p)
    PROVE  /\ Alone(p) /\ job[p].pc = "hash_cases" /\ job'[p].pc = "write_manifest"
           /\ job'[p].corpus = job[p].corpus /\ job'[p].contractsSha = job[p].contractsSha
           /\ job'[p].casesSha = casesFile /\ casesFile \in Corpus
           /\ UNCHANGED <<casesFile, manifest, cache, disturbed, crashes>>
<1>1. Becomes(p, [job[p] EXCEPT !.pc = "write_manifest", !.casesSha = casesFile])
  BY FieldMoves
<1>2. job[p] \in Job /\ job \in [Process -> Job]
  BY DEF Typed, TypeOK
<1> QED BY <1>1, <1>2 DEF Alone, Becomes, Job, HashCases, At, Typed, TypeOK, Located,
                          AfterCases, BuildPoints

LEMMA WriteManifestFacts ==
    ASSUME Typed, NEW p \in Process, WriteManifest(p)
    PROVE  /\ Alone(p) /\ job[p].pc = "write_manifest"
           /\ job'[p].pc \in {"idle", "read_cases"}
           /\ manifest' = [count        |-> job[p].corpus.request.perContract,
                           contractsSha |-> job[p].contractsSha,
                           casesSha     |-> job[p].casesSha,
                           datasetSha   |-> job[p].corpus]
           /\ manifest' \in Manifest /\ casesFile \in Corpus
           /\ cache'[p] \in {cache[p], NoVersion}
           /\ Disturb /\ UNCHANGED <<casesFile, crashes>>
<1>1. Becomes(p, Idle) \/ Becomes(p, [job[p] EXCEPT !.pc = "read_cases"])
  BY WriteManifestMoves
<1>2. job[p] \in Job /\ job \in [Process -> Job] /\ Located(p)
  BY DEF Typed, TypeOK
<1>3. Alone(p)
  BY <1>1, <1>2 DEF Alone, Becomes, WriteManifest, Typed, TypeOK
<1>4. job'[p].pc \in {"idle", "read_cases"}
  BY <1>1, <1>2 DEF Becomes, Idle, Job
<1>5. job[p].pc = "write_manifest" /\ casesFile \in Corpus
  BY <1>2 DEF WriteManifest, At, Located, AfterCases, BuildPoints
<1>6. manifest' \in Manifest
  BY <1>2, <1>5 DEF WriteManifest, Manifest, Corpus, Located, BuildPoints
<1>7. cache'[p] \in {cache[p], NoVersion} /\ Disturb /\ UNCHANGED <<casesFile, crashes>>
  BY DEF WriteManifest, Typed, TypeOK
<1> QED BY <1>3, <1>4, <1>5, <1>6, <1>7 DEF WriteManifest

LEMMA StartBuildFacts ==
    ASSUME Typed, NEW p \in Process, StartBuild(p)
    PROVE  /\ Alone(p) /\ job[p].pc = "idle" /\ job'[p].pc = "write_cases"
           /\ job'[p].corpus \in Corpus /\ job'[p].corpus.contracts = contracts
           /\ cache'[p] = contracts /\ UNCHANGED <<casesFile, manifest, disturbed, crashes>>
<1>1. PICK r \in Requests :
        Becomes(p, [Idle EXCEPT !.pc = "write_cases", !.task = "build",
                                !.corpus = [request |-> r, contracts |-> contracts]])
  BY StartBuildMoves
<1>2. /\ job'[p].pc = "write_cases"
      /\ job'[p].corpus = [request |-> r, contracts |-> contracts]
  BY <1>1 DEF Becomes, Idle
<1>3. contracts \in Version
  BY DEF Typed, TypeOK
<1> QED BY <1>1, <1>2, <1>3 DEF Alone, Becomes, StartBuild, At, Typed, TypeOK, Corpus

LEMMA StartEvaluateFacts ==
    ASSUME Typed, NEW p \in Process, StartEvaluate(p)
    PROVE  /\ Alone(p) /\ job[p].pc = "idle" /\ job'[p].pc = "find_cases"
           /\ cache'[p] = Cached(p)
           /\ UNCHANGED <<casesFile, manifest, disturbed, crashes>>
<1>1. Becomes(p, [Idle EXCEPT !.pc = "find_cases", !.task = "evaluate"])
  BY StartEvaluateMoves
<1>2. job'[p].pc = "find_cases"
  BY <1>1 DEF Becomes, Idle
<1> QED BY <1>1, <1>2 DEF Alone, Becomes, StartEvaluate, At, Typed, TypeOK

LEMMA FindCasesFacts ==
    ASSUME Typed, NEW p \in Process, FindCases(p)
    PROVE  /\ Alone(p) /\ job[p].pc = "find_cases" /\ cache[p] \in Version
           /\ \/ /\ casesFile = NoFile /\ job'[p].pc = "write_cases"
                 /\ job'[p].corpus.contracts = cache[p]
              \/ casesFile # NoFile /\ job'[p].pc = "read_cases"
           /\ UNCHANGED <<casesFile, manifest, cache, disturbed, crashes>>
<1>1. job[p] \in Job /\ job \in [Process -> Job] /\ Located(p)
  BY DEF Typed, TypeOK
<1>2. job[p].pc = "find_cases" /\ cache[p] \in Version
  BY <1>1 DEF FindCases, At, Located
<1>3. Alone(p)
  BY <1>1, FindCasesMoves DEF Alone, Becomes, FindCases, Typed, TypeOK
<1>4. CASE casesFile = NoFile
  <2>1. Becomes(p, [job[p] EXCEPT !.pc = "write_cases",
                                  !.corpus = [request   |-> DefaultRequest,
                                              contracts |-> cache[p]]])
    BY <1>4, FindCasesMoves
  <2>2. /\ job'[p].pc = "write_cases"
        /\ job'[p].corpus = [request |-> DefaultRequest, contracts |-> cache[p]]
    BY <1>1, <2>1 DEF Becomes, Job
  <2> QED BY <1>2, <1>3, <1>4, <2>2 DEF FindCases
<1>5. CASE casesFile # NoFile
  <2>1. job'[p].pc = "read_cases"
    BY <1>1, <1>5, FindCasesMoves DEF Becomes, Job
  <2> QED BY <1>2, <1>3, <1>5, <2>1 DEF FindCases
<1> QED BY <1>4, <1>5

LEMMA ReadCasesFacts ==
    ASSUME Typed, NEW p \in Process, ReadCases(p)
    PROVE  /\ Alone(p) /\ job[p].pc = "read_cases" /\ job'[p].pc = "hash_file"
           /\ job'[p].loaded = casesFile /\ disturbed' = disturbed \ {p}
           /\ UNCHANGED <<casesFile, manifest, cache, crashes>>
<1>1. Becomes(p, [job[p] EXCEPT !.pc = "hash_file", !.loaded = casesFile])
  BY FieldMoves
<1>2. job[p] \in Job /\ job \in [Process -> Job]
  BY DEF Typed, TypeOK
<1> QED BY <1>1, <1>2 DEF Alone, Becomes, Job, ReadCases, At, Typed, TypeOK

LEMMA HashFileFacts ==
    ASSUME Typed, NEW p \in Process, HashFile(p)
    PROVE  /\ Alone(p) /\ job[p].pc = "hash_file" /\ job'[p].pc = "hash_digest"
           /\ job'[p].loaded = job[p].loaded /\ job'[p].fileSha = casesFile
           /\ casesFile \in Corpus
           /\ UNCHANGED <<casesFile, manifest, cache, disturbed, crashes>>
<1>1. Becomes(p, [job[p] EXCEPT !.pc = "hash_digest", !.fileSha = casesFile])
  BY FieldMoves
<1>2. job[p] \in Job /\ job \in [Process -> Job]
  BY DEF Typed, TypeOK
<1> QED BY <1>1, <1>2 DEF Alone, Becomes, Job, HashFile, At, Typed, TypeOK, Located,
                          AfterCases, LoadPoints

LEMMA HashDigestFacts ==
    ASSUME Typed, NEW p \in Process, HashDigest(p)
    PROVE  /\ Alone(p) /\ job[p].pc = "hash_digest" /\ job'[p].pc = "verify"
           /\ job'[p].loaded = job[p].loaded /\ job'[p].fileSha = job[p].fileSha
           /\ job'[p].digest = contracts
           /\ UNCHANGED <<casesFile, manifest, cache, disturbed, crashes>>
<1>1. Becomes(p, [job[p] EXCEPT !.pc = "verify", !.digest = contracts])
  BY FieldMoves
<1>2. job[p] \in Job /\ job \in [Process -> Job]
  BY DEF Typed, TypeOK
<1> QED BY <1>1, <1>2 DEF Alone, Becomes, Job, HashDigest, At, Typed, TypeOK

LEMMA VerdictFacts ==
    ASSUME Typed, NEW p \in Process, Accept(p) \/ Refuse(p)
    PROVE  /\ Alone(p) /\ job[p].pc = "verify" /\ job'[p].pc \in {"evaluating", "refused"}
           /\ job'[p].pc = "evaluating" => InSync(p)
           /\ job'[p].loaded = job[p].loaded /\ job'[p].fileSha = job[p].fileSha
           /\ job'[p].digest = job[p].digest
           /\ UNCHANGED <<casesFile, manifest, cache, disturbed, crashes>>
<1>1. job[p] \in Job /\ job \in [Process -> Job]
  BY DEF Typed, TypeOK
<1>2. CASE Accept(p)
  <2>1. Becomes(p, [job[p] EXCEPT !.pc = "evaluating"])
    BY <1>2, FieldMoves
  <2> QED BY <1>1, <1>2, <2>1 DEF Alone, Becomes, Job, Accept, At, Typed, TypeOK
<1>3. CASE Refuse(p)
  <2>1. Becomes(p, [job[p] EXCEPT !.pc = "refused"])
    BY <1>3, FieldMoves
  <2> QED BY <1>1, <1>3, <2>1 DEF Alone, Becomes, Job, Refuse, At, Typed, TypeOK
<1> QED BY <1>2, <1>3

LEMMA EndFacts ==
    ASSUME Typed, NEW p \in Process, EndTask(p) \/ Crash(p)
    PROVE  /\ Alone(p) /\ job'[p].pc = "idle" /\ cache'[p] \in {cache[p], NoVersion}
           /\ job[p].pc # "idle" /\ cache[p] \in Version
           /\ Crash(p) => cache'[p] = NoVersion /\ crashes' = crashes + 1
           /\ EndTask(p) => job[p].pc \in {"evaluating", "refused"} /\ crashes' = crashes
           /\ UNCHANGED <<casesFile, manifest, disturbed>>
<1>1. Becomes(p, Idle)
  BY FieldMoves
<1> QED BY <1>1 DEF Alone, Becomes, Idle, EndTask, Crash, Typed, TypeOK, Located

\* What the builds' histories become.
LEMMA HistoryFacts ==
    ASSUME NEW p \in Process, Build(p) \/ Evaluate(p) \/ Crash(p)
    PROVE  \/ WriteCases(p) /\ Cross(p)
           \/ WriteManifest(p) /\ crossed' = crossed \ {p} /\ mixed' = (p \in crossed)
           \/ Crash(p) /\ crossed' = crossed \ {p} /\ mixed' = mixed
           \/ /\ ~WriteCases(p) /\ ~WriteManifest(p) /\ ~Crash(p)
              /\ crossed' = crossed /\ mixed' = mixed
<1>1. CASE WriteCases(p)
  BY <1>1 DEF WriteCases
<1>2. CASE WriteManifest(p)
  BY <1>2 DEF WriteManifest
<1>3. CASE Crash(p)
  BY <1>3 DEF Crash
<1>4. CASE ~WriteCases(p) /\ ~WriteManifest(p) /\ ~Crash(p)
  BY <1>4 DEF Build, Evaluate, StartBuild, HashContracts, HashCases, StartEvaluate,
              FindCases, ReadCases, HashFile, HashDigest, Accept, Refuse, EndTask
<1> QED BY <1>1, <1>2, <1>3, <1>4

-----------------------------------------------------------------------------
(* Types are preserved.                                                    *)

Loaded(p) == job[p].pc \in LoadPoints \cup {"evaluating", "refused"} => job[p].loaded \in Corpus

\* What one process does leaves the others where they are.
LEMMA OthersTyped ==
    ASSUME Typed, NEW p \in Process, Others(p), casesFile' = casesFile \/ casesFile' \in Corpus,
           \A q \in Process \ {p} : cache'[q] = cache[q]
    PROVE  \A q \in Process \ {p} : Located(q)' /\ Loaded(q)'
BY DEF Typed, TypeOK, Located, Loaded, Others

\* So it is the types of that process that have to be shown.
LEMMA ProcessTyped ==
    ASSUME Typed, NEW p \in Process, Build(p) \/ Evaluate(p) \/ Crash(p),
           Others(p), job' \in [Process -> Job],
           casesFile' = casesFile \/ casesFile' \in Corpus,
           manifest' \in Manifest \cup {NoFile},
           cache' \in [Process -> Version \cup {NoVersion}],
           \A q \in Process \ {p} : cache'[q] = cache[q],
           contracts' = contracts, disturbed' \subseteq Process,
           tasks' \in 0 .. MaxTasks, crashes' \in 0 .. MaxCrashes,
           Located(p)', Loaded(p)'
    PROVE  Typed'
<1>1. \A q \in Process : Located(q)' /\ Loaded(q)'
  BY OthersTyped
<1>2. crossed \subseteq Process /\ mixed \in BOOLEAN
  BY DEF Typed, TypeOK
<1>3. crossed' \subseteq Process
  BY <1>2, HistoryFacts DEF Cross
<1>4. mixed' \in BOOLEAN
  <2>1. mixed' = mixed \/ mixed' = (p \in crossed)
    BY HistoryFacts DEF Cross
  <2>2. CASE mixed' = (p \in crossed)
    <3>1. (p \in crossed) \in BOOLEAN
      OBVIOUS
    <3> QED BY <2>2, <3>1, Zenon
  <2> QED BY <1>2, <2>1, <2>2, Zenon
<1> QED BY <1>1, <1>3, <1>4 DEF Typed, TypeOK, Loaded

LEMMA InitTyped == Init => Typed
<1> SUFFICES ASSUME Init PROVE Typed
  OBVIOUS
<1>1. /\ contracts \in Version
      /\ [request |-> DefaultRequest, contracts |-> 1] \in Corpus
      /\ Describes([request |-> DefaultRequest, contracts |-> 1]) \in Manifest
  BY StoreAssumption DEF Init, Version, Corpus, Manifest, Describes
<1>2. \A p \in Process : job[p] = Idle
  BY DEF Init
<1>3. job \in [Process -> Job]
  BY IdleFacts DEF Init
<1>4. 0 \in 0 .. MaxTasks /\ 0 \in 0 .. MaxCrashes
  BY StoreFacts
<1>5. TypeOK
  BY <1>1, <1>2, <1>3, <1>4 DEF Init, TypeOK, Idle, LoadPoints
<1> QED BY <1>2, <1>5 DEF Typed, Located, Idle, AfterCases, BuildPoints, LoadPoints

LEMMA BuildTyped == ASSUME Typed, NEW p \in Process, Build(p) PROVE Typed'
<1> USE DEF Located, Loaded, AfterCases, BuildPoints, LoadPoints, At
<1>1. /\ contracts \in Version /\ cache \in [Process -> Version \cup {NoVersion}]
      /\ job \in [Process -> Job] /\ job[p] \in Job /\ Located(p) /\ Loaded(p)
      /\ manifest \in Manifest \cup {NoFile} /\ casesFile \in Corpus \cup {NoFile}
      /\ disturbed \subseteq Process /\ tasks \in 0 .. MaxTasks /\ crashes \in 0 .. MaxCrashes
  BY DEF Typed, TypeOK
<1>2. ASSUME StartBuild(p) PROVE Typed'
  <2>1. PICK r \in Requests :
          Becomes(p, [Idle EXCEPT !.pc = "write_cases", !.task = "build",
                                  !.corpus = [request |-> r, contracts |-> contracts]])
    BY <1>2, StartBuildMoves
  <2>2. /\ job'[p].pc = "write_cases"
        /\ job'[p].corpus = [request |-> r, contracts |-> contracts]
    BY <2>1 DEF Becomes, Idle
  <2>3. /\ cache' = [cache EXCEPT ![p] = contracts] /\ tasks' = tasks + 1 /\ tasks < MaxTasks
        /\ UNCHANGED <<contracts, casesFile, manifest, disturbed, crashes>>
    BY <1>2 DEF StartBuild
  <2>4. tasks' \in 0 .. MaxTasks
    BY <1>1, <2>3, StoreFacts
  <2>5. Located(p)' /\ Loaded(p)'
    BY <1>1, <2>2, <2>3 DEF Corpus
  <2>6. Others(p) /\ job' \in [Process -> Job]
    BY <2>1 DEF Becomes
  <2> HIDE DEF Located, Loaded
  <2> QED BY <1>1, <2>3, <2>4, <2>5, <2>6, ProcessTyped
<1>3. ASSUME WriteCases(p) PROVE Typed'
  <2>1. Becomes(p, [job[p] EXCEPT !.pc = "hash_contracts"])
    BY <1>3, FieldMoves
  <2>2. job'[p].pc = "hash_contracts" /\ job'[p].corpus = job[p].corpus
    BY <1>1, <2>1 DEF Becomes, Job
  <2>3. /\ casesFile' = job[p].corpus /\ job[p].pc = "write_cases"
        /\ disturbed' \subseteq Process
        /\ UNCHANGED <<contracts, manifest, cache, tasks, crashes>>
    BY <1>1, <1>3 DEF WriteCases, Disturb
  <2>4. Located(p)' /\ Loaded(p)' /\ casesFile' \in Corpus
    BY <1>1, <2>2, <2>3
  <2>5. Others(p) /\ job' \in [Process -> Job]
    BY <2>1 DEF Becomes
  <2> HIDE DEF Located, Loaded
  <2> QED BY <1>1, <2>3, <2>4, <2>5, ProcessTyped
<1>4. ASSUME HashContracts(p) PROVE Typed'
  <2>1. Becomes(p, [job[p] EXCEPT !.pc = "hash_cases", !.contractsSha = contracts])
    BY <1>4, FieldMoves
  <2>2. /\ job'[p].pc = "hash_cases" /\ job'[p].corpus = job[p].corpus
        /\ job'[p].contractsSha = contracts
    BY <1>1, <2>1 DEF Becomes, Job
  <2>3. /\ job[p].pc = "hash_contracts"
        /\ UNCHANGED <<contracts, casesFile, manifest, cache, disturbed, tasks, crashes>>
    BY <1>4 DEF HashContracts
  <2>4. Located(p)' /\ Loaded(p)'
    BY <1>1, <2>2, <2>3
  <2>5. Others(p) /\ job' \in [Process -> Job]
    BY <2>1 DEF Becomes
  <2> HIDE DEF Located, Loaded
  <2> QED BY <1>1, <2>3, <2>4, <2>5, ProcessTyped
<1>5. ASSUME HashCases(p) PROVE Typed'
  <2>1. Becomes(p, [job[p] EXCEPT !.pc = "write_manifest", !.casesSha = casesFile])
    BY <1>5, FieldMoves
  <2>2. /\ job'[p].pc = "write_manifest" /\ job'[p].corpus = job[p].corpus
        /\ job'[p].contractsSha = job[p].contractsSha /\ job'[p].casesSha = casesFile
    BY <1>1, <2>1 DEF Becomes, Job
  <2>3. /\ job[p].pc = "hash_cases"
        /\ UNCHANGED <<contracts, casesFile, manifest, cache, disturbed, tasks, crashes>>
    BY <1>5 DEF HashCases
  <2>4. Located(p)' /\ Loaded(p)'
    BY <1>1, <2>2, <2>3
  <2>5. Others(p) /\ job' \in [Process -> Job]
    BY <2>1 DEF Becomes
  <2> HIDE DEF Located, Loaded
  <2> QED BY <1>1, <2>3, <2>4, <2>5, ProcessTyped
<1>6. ASSUME WriteManifest(p) PROVE Typed'
  <2>1. Becomes(p, Idle) \/ Becomes(p, [job[p] EXCEPT !.pc = "read_cases"])
    BY <1>6, WriteManifestMoves
  <2>2. job'[p].pc \in {"idle", "read_cases"}
    BY <1>1, <2>1 DEF Becomes, Idle, Job
  <2>3. /\ job[p].pc = "write_manifest" /\ disturbed' \subseteq Process
        /\ cache' = cache \/ (cache' = [cache EXCEPT ![p] = NoVersion] /\ job' = [job EXCEPT ![p] = Idle])
        /\ UNCHANGED <<contracts, casesFile, tasks, crashes>>
    BY <1>1, <1>6 DEF WriteManifest, Disturb
  <2>4. manifest' \in Manifest
    BY <1>1, <1>6, <2>3 DEF WriteManifest, Manifest, Corpus
  <2>5. Located(p)' /\ Loaded(p)'
    BY <1>1, <2>2, <2>3 DEF Idle
  <2>6. Others(p) /\ job' \in [Process -> Job]
    BY <2>1 DEF Becomes
  <2> HIDE DEF Located, Loaded
  <2> QED BY <1>1, <2>3, <2>4, <2>5, <2>6, ProcessTyped
<1> QED BY <1>2, <1>3, <1>4, <1>5, <1>6 DEF Build

LEMMA EvaluateTyped == ASSUME Typed, NEW p \in Process, Evaluate(p) PROVE Typed'
<1> USE DEF Located, Loaded, AfterCases, BuildPoints, LoadPoints, At
<1>1. /\ contracts \in Version /\ cache \in [Process -> Version \cup {NoVersion}]
      /\ job \in [Process -> Job] /\ job[p] \in Job /\ Located(p) /\ Loaded(p)
      /\ manifest \in Manifest \cup {NoFile} /\ casesFile \in Corpus \cup {NoFile}
      /\ disturbed \subseteq Process /\ tasks \in 0 .. MaxTasks /\ crashes \in 0 .. MaxCrashes
  BY DEF Typed, TypeOK
<1>2. ASSUME StartEvaluate(p) PROVE Typed'
  <2>1. Becomes(p, [Idle EXCEPT !.pc = "find_cases", !.task = "evaluate"])
    BY <1>2, StartEvaluateMoves
  <2>2. job'[p].pc = "find_cases"
    BY <2>1 DEF Becomes, Idle
  <2>3. /\ cache' = [cache EXCEPT ![p] = Cached(p)] /\ tasks' = tasks + 1 /\ tasks < MaxTasks
        /\ UNCHANGED <<contracts, casesFile, manifest, disturbed, crashes>>
    BY <1>2 DEF StartEvaluate
  <2>4. tasks' \in 0 .. MaxTasks /\ Cached(p) \in Version
    BY <1>1, <2>3, StoreFacts DEF Cached
  <2>5. Located(p)' /\ Loaded(p)'
    BY <1>1, <2>2, <2>3, <2>4
  <2>6. Others(p) /\ job' \in [Process -> Job]
    BY <2>1 DEF Becomes
  <2> HIDE DEF Located, Loaded
  <2> QED BY <1>1, <2>3, <2>4, <2>5, <2>6, ProcessTyped
<1>3. ASSUME FindCases(p) PROVE Typed'
  <2>1. /\ job[p].pc = "find_cases"
        /\ UNCHANGED <<contracts, casesFile, manifest, cache, disturbed, tasks, crashes>>
    BY <1>3 DEF FindCases
  <2>2. /\ Others(p) /\ job' \in [Process -> Job]
        /\ \/ /\ job'[p].pc = "write_cases"
              /\ job'[p].corpus = [request |-> DefaultRequest, contracts |-> cache[p]]
           \/ job'[p].pc = "read_cases" /\ casesFile # NoFile
    BY <1>1, <1>3, FindCasesMoves DEF Becomes, Job
  <2>3. Located(p)' /\ Loaded(p)'
    BY <1>1, <2>1, <2>2, StoreFacts DEF Corpus
  <2> HIDE DEF Located, Loaded
  <2> QED BY <1>1, <2>1, <2>2, <2>3, ProcessTyped
<1>4. ASSUME ReadCases(p) PROVE Typed'
  <2>1. Becomes(p, [job[p] EXCEPT !.pc = "hash_file", !.loaded = casesFile])
    BY <1>4, FieldMoves
  <2>2. job'[p].pc = "hash_file" /\ job'[p].loaded = casesFile
    BY <1>1, <2>1 DEF Becomes, Job
  <2>3. /\ job[p].pc = "read_cases" /\ disturbed' \subseteq Process
        /\ UNCHANGED <<contracts, casesFile, manifest, cache, tasks, crashes>>
    BY <1>1, <1>4 DEF ReadCases
  <2>4. Located(p)' /\ Loaded(p)'
    BY <1>1, <2>2, <2>3
  <2>5. Others(p) /\ job' \in [Process -> Job]
    BY <2>1 DEF Becomes
  <2> HIDE DEF Located, Loaded
  <2> QED BY <1>1, <2>3, <2>4, <2>5, ProcessTyped
<1>5. ASSUME HashFile(p) \/ HashDigest(p) \/ Accept(p) \/ Refuse(p) PROVE Typed'
  <2>1. /\ job[p].pc \in LoadPoints
        /\ UNCHANGED <<contracts, casesFile, manifest, cache, disturbed, tasks, crashes>>
    BY <1>5 DEF HashFile, HashDigest, Accept, Refuse
  <2>2. /\ Others(p) /\ job' \in [Process -> Job]
        /\ job'[p].pc \in {"hash_digest", "verify", "evaluating", "refused"}
        /\ job'[p].loaded = job[p].loaded
    BY <1>5, HashFileFacts, HashDigestFacts, VerdictFacts DEF Alone, Typed, TypeOK
  <2>3. Located(p)' /\ Loaded(p)'
    BY <1>1, <2>1, <2>2
  <2> HIDE DEF Located, Loaded
  <2> QED BY <1>1, <2>1, <2>2, <2>3, ProcessTyped
<1>6. ASSUME EndTask(p) PROVE Typed'
  <2>1. Becomes(p, Idle)
    BY <1>6, FieldMoves
  <2>2. /\ cache' \in {cache, [cache EXCEPT ![p] = NoVersion]}
        /\ UNCHANGED <<contracts, casesFile, manifest, disturbed, tasks, crashes>>
    BY <1>6 DEF EndTask
  <2>3. Located(p)' /\ Loaded(p)' /\ Others(p) /\ job' \in [Process -> Job]
    BY <2>1 DEF Becomes, Idle
  <2> HIDE DEF Located, Loaded
  <2> QED BY <1>1, <2>2, <2>3, ProcessTyped
<1> QED BY <1>2, <1>3, <1>4, <1>5, <1>6 DEF Evaluate

LEMMA StepTyped == ASSUME Typed, [Next]_vars PROVE Typed'
<1>1. ASSUME NEW p \in Process, Crash(p) PROVE Typed'
  <2>1. Becomes(p, Idle)
    BY <1>1, FieldMoves
  <2>2. /\ cache' = [cache EXCEPT ![p] = NoVersion]
        /\ UNCHANGED <<contracts, casesFile, manifest, disturbed, tasks>>
    BY <1>1 DEF Crash
  <2>3. crashes' \in 0 .. MaxCrashes
    BY <1>1, StoreFacts DEF Crash, Typed, TypeOK
  <2>4. Located(p)' /\ Loaded(p)' /\ Others(p) /\ job' \in [Process -> Job]
    BY <2>1 DEF Becomes, Idle, Located, Loaded, AfterCases, BuildPoints, LoadPoints
  <2> QED BY <1>1, <2>2, <2>3, <2>4, ProcessTyped DEF Typed, TypeOK
<1>2. CASE EditContracts
  <2>1. contracts' \in Version
    BY <1>2, StoreFacts DEF EditContracts, Typed, TypeOK, Version
  <2> QED BY <1>2, <2>1 DEF EditContracts, Typed, TypeOK, Located
<1>3. CASE AllDone \/ UNCHANGED vars
  BY <1>3 DEF AllDone, vars, Typed, TypeOK, Located
<1> QED BY <1>1, <1>2, <1>3, BuildTyped, EvaluateTyped DEF Next

\* The files, the caches and what every process has read have their types
\* (TypeOK): whatever overlaps or is killed, no evaluation reads a corpus that
\* is not there, since build_dataset never removes one.
THEOREM StoreTypeCorrect == Spec => []TypeOK
<1>1. Typed => TypeOK
  BY DEF Typed
<1> QED BY <1>1, InitTyped, StepTyped, PTL DEF Spec

-----------------------------------------------------------------------------
(* Accepted evaluations are consistent.                                    *)

LEMMA InitBuild == Init => BuildInv /\ SeenInv /\ ReadInv
<1> SUFFICES ASSUME Init PROVE BuildInv /\ SeenInv /\ ReadInv
  OBVIOUS
<1>1. \A p \in Process : job[p].pc = "idle" /\ cache[p] = NoVersion
  BY DEF Init, Idle
<1>2. ManifestPaired
  BY DEF Init, Describes, ManifestPaired
<1> QED BY <1>1, <1>2 DEF BuildInv, BuildsCurrent, FirstBuild, SeenInv, SeesOneFile,
                          ReadInv, SeesItsContracts, BuildPoints, LoadPoints

\* A step of p leaves the builds of the others what they were.
LEMMA OthersBuild ==
    ASSUME Typed, BuildInv, NEW p \in Process, Alone(p),
           casesFile' = casesFile
             \/ (casesFile' \in Corpus /\ casesFile'.contracts = contracts)
    PROVE  \A q \in Process \ {p} : BuildsCurrent(q)' /\ FirstBuild(q)'
<1> SUFFICES ASSUME NEW q \in Process \ {p} PROVE BuildsCurrent(q)' /\ FirstBuild(q)'
  OBVIOUS
<1>1. job'[q] = job[q] /\ cache'[q] = cache[q] /\ contracts' = contracts
  BY DEF Alone, Others
<1>2. casesFile' = NoFile => casesFile = NoFile
  BY StoreFacts
<1> QED BY <1>1, <1>2 DEF BuildInv, BuildsCurrent, FirstBuild

LEMMA ProcessBuild ==
    ASSUME Typed, BuildInv, NEW p \in Process, Build(p) \/ Evaluate(p) \/ Crash(p)
    PROVE  BuildInv'
<1> USE DEF BuildsCurrent, FirstBuild, BuildPoints
<1>1. /\ BuildsCurrent(p) /\ FirstBuild(p) /\ ManifestPaired
      /\ cache \in [Process -> Version \cup {NoVersion}]
      /\ contracts \in Version /\ job[p] \in Job
  BY DEF BuildInv, Typed, TypeOK
<1>2. CASE StartBuild(p)
  <2>1. BuildsCurrent(p)' /\ FirstBuild(p)'
    BY <1>2, StartBuildFacts DEF Alone
  <2> QED BY <1>1, <1>2, <2>1, OthersBuild, StartBuildFacts DEF BuildInv, ManifestPaired
<1>3. CASE WriteCases(p)
  <2>1. casesFile' \in Corpus /\ casesFile'.contracts = contracts
    BY <1>1, <1>3, WriteCasesFacts
  <2>2. BuildsCurrent(p)' /\ FirstBuild(p)'
    BY <1>1, <1>3, <2>1, WriteCasesFacts, StoreFacts DEF Alone
  <2> QED BY <1>1, <1>3, <2>1, <2>2, OthersBuild, WriteCasesFacts DEF BuildInv, ManifestPaired
<1>4. CASE HashContracts(p)
  <2>1. BuildsCurrent(p)' /\ FirstBuild(p)'
    BY <1>1, <1>4, HashContractsFacts DEF Alone
  <2> QED BY <1>1, <1>4, <2>1, OthersBuild, HashContractsFacts DEF BuildInv, ManifestPaired
<1>5. CASE HashCases(p)
  <2>1. BuildsCurrent(p)' /\ FirstBuild(p)'
    BY <1>1, <1>5, HashCasesFacts DEF Alone
  <2> QED BY <1>1, <1>5, <2>1, OthersBuild, HashCasesFacts DEF BuildInv, ManifestPaired
<1>6. CASE WriteManifest(p)
  <2>1. BuildsCurrent(p)' /\ FirstBuild(p)'
    BY <1>1, <1>6, WriteManifestFacts, StoreFacts DEF Alone
  <2>2. ManifestPaired'
    BY <1>1, <1>6, WriteManifestFacts DEF ManifestPaired
  <2> QED BY <1>6, <2>1, <2>2, OthersBuild, WriteManifestFacts DEF BuildInv
<1>7. CASE StartEvaluate(p)
  <2>1. BuildsCurrent(p)' /\ FirstBuild(p)'
    BY <1>1, <1>7, StartEvaluateFacts DEF Alone, Cached
  <2> QED BY <1>1, <1>7, <2>1, OthersBuild, StartEvaluateFacts DEF BuildInv, ManifestPaired
<1>8. CASE FindCases(p)
  <2>1. BuildsCurrent(p)' /\ FirstBuild(p)'
    BY <1>1, <1>8, FindCasesFacts, StoreFacts DEF Alone
  <2> QED BY <1>1, <1>8, <2>1, OthersBuild, FindCasesFacts DEF BuildInv, ManifestPaired
<1>9. CASE ReadCases(p) \/ HashFile(p) \/ HashDigest(p) \/ Accept(p) \/ Refuse(p)
  <2>1. /\ Alone(p) /\ UNCHANGED <<casesFile, manifest, cache>>
        /\ job[p].pc \in LoadPoints \cup {"read_cases"}
        /\ job'[p].pc \in LoadPoints \cup {"evaluating", "refused"}
    BY <1>9, ReadCasesFacts, HashFileFacts, HashDigestFacts, VerdictFacts DEF LoadPoints
  <2>2. casesFile # NoFile
    BY <2>1, StoreFacts DEF Typed, Located, AfterCases
  <2>3. BuildsCurrent(p)' /\ FirstBuild(p)'
    BY <2>1, <2>2 DEF LoadPoints
  <2> QED BY <1>1, <2>1, <2>3, OthersBuild DEF BuildInv, ManifestPaired
<1>10. CASE EndTask(p) \/ Crash(p)
  <2>1. casesFile = NoFile => job[p].pc \in BuildPoints
    BY <1>1, <1>10, EndFacts, StoreFacts
  <2>2. BuildsCurrent(p)' /\ FirstBuild(p)'
    BY <1>1, <1>10, <2>1, EndFacts
  <2> QED BY <1>1, <1>10, <2>2, OthersBuild, EndFacts DEF BuildInv, ManifestPaired
<1> QED
  BY <1>2, <1>3, <1>4, <1>5, <1>6, <1>7, <1>8, <1>9, <1>10 DEF Build, Evaluate

LEMMA StepBuild ==
    ASSUME ~EditWhileBuilding, Typed, BuildInv, [Next]_vars
    PROVE  BuildInv'
<1> USE DEF BuildInv, BuildsCurrent, FirstBuild, ManifestPaired
<1>1. CASE EditContracts
  BY <1>1 DEF EditContracts, Building, BuildPoints
<1>2. CASE AllDone \/ UNCHANGED vars
  BY <1>2 DEF AllDone, vars
<1> QED BY <1>1, <1>2, ProcessBuild DEF Next

\* Replacing a file disturbs every evaluation between its reads.
LEMMA OthersSee ==
    ASSUME Typed, SeenInv, NEW p \in Process, Alone(p),
           \/ UNCHANGED casesFile /\ disturbed \ {p} \subseteq disturbed'
           \/ Disturb
    PROVE  \A q \in Process \ {p} : SeesOneFile(q)'
<1> SUFFICES ASSUME NEW q \in Process \ {p} PROVE SeesOneFile(q)'
  OBVIOUS
<1>1. job'[q] = job[q] /\ SeesOneFile(q)
  BY DEF Alone, Others, SeenInv
<1>2. q \notin disturbed' => /\ q \notin disturbed
                             /\ job[q].pc \in LoadPoints => casesFile' = casesFile
  BY DEF Disturb
<1> QED BY <1>1, <1>2 DEF SeesOneFile

LEMMA StepSeen == ASSUME Typed, SeenInv, [Next]_vars PROVE SeenInv'
<1> USE DEF SeesOneFile, LoadPoints
<1>1. ASSUME NEW p \in Process, Build(p) \/ Evaluate(p) \/ Crash(p)
      PROVE  SeenInv'
  <2>1. SeesOneFile(p)
    BY DEF SeenInv
  <2>2. CASE Build(p)
    <3>1. /\ Alone(p) /\ job'[p].pc \in BuildPoints \cup {"idle", "read_cases"}
          /\ (UNCHANGED <<casesFile, disturbed>>) \/ Disturb
      BY <2>2, StartBuildFacts, WriteCasesFacts, HashContractsFacts, HashCasesFacts,
         WriteManifestFacts DEF Build, BuildPoints
    <3> QED BY <3>1, OthersSee DEF SeenInv, BuildPoints
  <2>3. CASE StartEvaluate(p) \/ FindCases(p)
    <3>1. /\ Alone(p) /\ job'[p].pc \in {"find_cases", "write_cases", "read_cases"}
          /\ UNCHANGED <<casesFile, disturbed>>
      BY <2>3, StartEvaluateFacts, FindCasesFacts
    <3> QED BY <3>1, OthersSee DEF SeenInv
  <2>4. CASE ReadCases(p)
    BY <2>4, OthersSee, ReadCasesFacts DEF SeenInv
  <2>5. CASE HashFile(p)
    BY <2>1, <2>5, OthersSee, HashFileFacts DEF SeenInv
  <2>6. CASE HashDigest(p)
    BY <2>1, <2>6, OthersSee, HashDigestFacts DEF SeenInv
  <2>7. CASE Accept(p) \/ Refuse(p)
    BY <2>1, <2>7, OthersSee, VerdictFacts DEF SeenInv
  <2>8. CASE EndTask(p) \/ Crash(p)
    BY <2>8, OthersSee, EndFacts DEF SeenInv
  <2> QED BY <1>1, <2>2, <2>3, <2>4, <2>5, <2>6, <2>7, <2>8 DEF Evaluate
<1>2. CASE EditContracts
  BY <1>2 DEF EditContracts, SeenInv
<1>3. CASE AllDone \/ UNCHANGED vars
  BY <1>3 DEF AllDone, vars, SeenInv
<1> QED BY <1>1, <1>2, <1>3 DEF Next

\* The manifest has the digest of the file that was read.
LEMMA StepRead ==
    ASSUME Typed, BuildInv, SeenInv, ReadInv, [Next]_vars
    PROVE  ReadInv'
<1> USE DEF SeesItsContracts
<1>1. ASSUME NEW p \in Process, Build(p) \/ Evaluate(p) \/ Crash(p)
      PROVE  ReadInv'
  <2>1. Alone(p) /\ disturbed \ {p} \subseteq disturbed'
    BY <1>1, StartBuildFacts, WriteCasesFacts, HashContractsFacts, HashCasesFacts,
       WriteManifestFacts, StartEvaluateFacts, FindCasesFacts, ReadCasesFacts,
       HashFileFacts, HashDigestFacts, VerdictFacts, EndFacts
       DEF Build, Evaluate, Disturb
  <2>2. \A q \in Process \ {p} : SeesItsContracts(q)'
    BY <2>1 DEF Alone, Others, ReadInv
  <2>3. CASE Accept(p) \/ Refuse(p)
    <3>1. job'[p].pc = "evaluating" /\ p \notin disturbed' =>
            job'[p].loaded.contracts = job'[p].digest
      BY <2>3, VerdictFacts
         DEF InSync, BuildInv, ManifestPaired, SeenInv, SeesOneFile
    <3> QED BY <2>2, <3>1 DEF ReadInv
  <2>4. CASE ~(Accept(p) \/ Refuse(p))
    <3>1. job'[p].pc # "evaluating"
      BY <1>1, <2>4, StartBuildFacts, WriteCasesFacts, HashContractsFacts, HashCasesFacts,
         WriteManifestFacts, StartEvaluateFacts, FindCasesFacts, ReadCasesFacts,
         HashFileFacts, HashDigestFacts, EndFacts DEF Build, Evaluate
    <3> QED BY <2>2, <3>1 DEF ReadInv
  <2> QED BY <2>3, <2>4
<1>2. CASE EditContracts \/ AllDone \/ UNCHANGED vars
  BY <1>2 DEF EditContracts, AllDone, vars, ReadInv
<1> QED BY <1>1, <1>2 DEF Next

\* If no Contract is edited during a build, an evaluation that
\* _verify_public_dataset lets pass, that had no file replaced under its reads
\* and whose Contracts are those on disk evaluates the cases it records the
\* hash of, made from the Contracts it judges them by (AcceptedIsConsistent) --
\* for any overlap of builds of any requests, crash and later edit.
THEOREM AcceptedCorpusIsConsistent ==
    ASSUME ~EditWhileBuilding
    PROVE  Spec => []AcceptedIsConsistent
<1>1. SeenInv /\ ReadInv => AcceptedIsConsistent
  BY DEF SeenInv, SeesOneFile, ReadInv, SeesItsContracts, AcceptedIsConsistent, At
<1>2. Typed /\ BuildInv /\ [Next]_vars => BuildInv'
  BY StepBuild
<1> QED BY <1>1, <1>2, InitTyped, StepTyped, InitBuild, StepSeen, StepRead, PTL DEF Spec

-----------------------------------------------------------------------------
(* The manifest and the cases.                                             *)

LEMMA InitPair == Init => PairInv
<1> SUFFICES ASSUME Init PROVE PairInv
  OBVIOUS
<1>1. \A p \in Process : job[p].pc = "idle"
  BY DEF Init, Idle
<1>2. Describes([request |-> DefaultRequest, contracts |-> 1]) \in Manifest
  BY StoreAssumption DEF Describes, Manifest, Corpus, Version
<1>3. \A p \in Process : HasItsCases(p)
  BY <1>1 DEF HasItsCases, BetweenWrites
<1>4. ManifestFits
  BY DEF Init, ManifestFits, Describes
<1>5. ManifestCurrent
  BY <1>2, StoreFacts DEF Init, ManifestCurrent, Describes
<1> QED BY <1>3, <1>4, <1>5 DEF PairInv

\* A step of p leaves the other builds their cases, or marks them.
LEMMA OthersPair ==
    ASSUME PairInv, NEW p \in Process, Alone(p),
           \/ casesFile' = casesFile /\ crossed \ {p} \subseteq crossed'
           \/ Cross(p)
    PROVE  \A q \in Process \ {p} : HasItsCases(q)'
<1> SUFFICES ASSUME NEW q \in Process \ {p} PROVE HasItsCases(q)'
  OBVIOUS
<1>1. job'[q] = job[q] /\ HasItsCases(q)
  BY DEF Alone, Others, PairInv
<1>2. q \notin crossed' => /\ job[q].pc \in BetweenWrites => q \notin crossed
                           /\ job[q].pc \in BetweenWrites => casesFile' = casesFile
  BY DEF Cross
<1> QED BY <1>1, <1>2 DEF HasItsCases

LEMMA ProcessPair ==
    ASSUME Typed, PairInv, NEW p \in Process, Build(p) \/ Evaluate(p) \/ Crash(p)
    PROVE  PairInv'
<1> USE DEF HasItsCases, BetweenWrites
<1>1. /\ HasItsCases(p) /\ ManifestFits /\ ManifestCurrent
  BY DEF PairInv
<1>2. CASE WriteCases(p)
  <2>1. /\ Alone(p) /\ Cross(p) /\ UNCHANGED <<manifest, mixed>>
        /\ job'[p].pc = "hash_contracts" /\ casesFile' = job'[p].corpus
    BY <1>2, WriteCasesFacts DEF WriteCases, Cross
  <2>2. ManifestFits' /\ ManifestCurrent'
    BY <1>1, <2>1 DEF ManifestFits, ManifestCurrent
  <2> QED BY <2>1, <2>2, OthersPair DEF PairInv
<1>3. CASE HashContracts(p) \/ HashCases(p)
  <2>1. /\ Alone(p) /\ UNCHANGED <<casesFile, manifest, crossed, mixed>>
        /\ job[p].pc \in BetweenWrites /\ job'[p].pc \in BetweenWrites
        /\ job'[p].corpus = job[p].corpus
        /\ job'[p].pc = "write_manifest" => job'[p].casesSha = casesFile
    BY <1>3, HashContractsFacts, HashCasesFacts DEF HashContracts, HashCases
  <2>2. ManifestFits' /\ ManifestCurrent'
    BY <1>1, <2>1 DEF ManifestFits, ManifestCurrent
  <2>3. HasItsCases(p)'
    BY <1>1, <2>1
  <2> QED BY <2>1, <2>2, <2>3, OthersPair DEF PairInv
<1>4. CASE WriteManifest(p)
  <2>1. /\ Alone(p) /\ UNCHANGED casesFile
        /\ crossed' = crossed \ {p} /\ mixed' = (p \in crossed)
        /\ job[p].pc = "write_manifest" /\ job'[p].pc \notin BetweenWrites
    BY <1>4, WriteManifestFacts DEF WriteManifest
  <2>2. /\ manifest' # NoFile
        /\ manifest'.count = job[p].corpus.request.perContract
        /\ manifest'.casesSha = job[p].casesSha
        /\ manifest'.datasetSha = job[p].corpus
    BY <1>4, WriteManifestFacts, StoreFacts DEF WriteManifest
  <2>3. mixed' \/ (job[p].corpus = casesFile /\ job[p].casesSha = casesFile)
    BY <1>1, <2>1
  <2>4. ManifestFits' /\ ManifestCurrent'
    BY <2>1, <2>2, <2>3 DEF ManifestFits, ManifestCurrent
  <2> QED BY <2>1, <2>4, OthersPair DEF PairInv
<1>5. CASE StartBuild(p) \/ (Evaluate(p) /\ ~WriteCases(p))
  <2>1. /\ Alone(p) /\ UNCHANGED <<casesFile, manifest, crashes>>
        /\ job[p].pc \notin BetweenWrites /\ job'[p].pc \notin BetweenWrites
    BY <1>5, StartBuildFacts, StartEvaluateFacts, FindCasesFacts, ReadCasesFacts,
       HashFileFacts, HashDigestFacts, VerdictFacts, EndFacts DEF Evaluate
  <2>2. UNCHANGED <<crossed, mixed>>
    BY <1>5 DEF StartBuild, Evaluate, StartEvaluate, FindCases, ReadCases, HashFile,
                HashDigest, Accept, Refuse, EndTask
  <2>3. ManifestFits' /\ ManifestCurrent'
    BY <1>1, <2>1, <2>2 DEF ManifestFits, ManifestCurrent, Alone, Others
  <2> QED BY <2>1, <2>2, <2>3, OthersPair DEF PairInv
<1>6. CASE Crash(p)
  <2>1. /\ Alone(p) /\ UNCHANGED <<casesFile, manifest, mixed>>
        /\ crossed' = crossed \ {p} /\ job'[p].pc = "idle"
    BY <1>6, EndFacts DEF Crash
  <2>2. crashes \in Nat /\ crashes' = crashes + 1
    BY <1>6, StoreFacts DEF Crash, Typed, TypeOK
  <2>3. crashes' # 0
    BY <2>2
  <2>4. ManifestFits' /\ ManifestCurrent'
    BY <1>1, <2>1, <2>3 DEF ManifestFits, ManifestCurrent
  <2> QED BY <2>1, <2>4, OthersPair DEF PairInv
<1> QED BY <1>2, <1>3, <1>4, <1>5, <1>6 DEF Build, Evaluate

LEMMA StepPair == ASSUME Typed, PairInv, [Next]_vars PROVE PairInv'
<1>1. CASE EditContracts \/ AllDone \/ UNCHANGED vars
  BY <1>1 DEF EditContracts, AllDone, vars, PairInv, HasItsCases, ManifestFits,
              ManifestCurrent
<1> QED BY <1>1, ProcessPair DEF Next

\* If no Contract is edited during a build, then between the builds a manifest
\* with the hash of the case file has its counts and Contracts, and without a
\* crash it has that hash, unless its build had its cases replaced before it
\* wrote it (ManifestDescribesItsCases): for builds of any requests, overlapping
\* in any order.
THEOREM ManifestIsOfItsCases ==
    ASSUME ~EditWhileBuilding
    PROVE  Spec => []ManifestDescribesItsCases
<1>1. Typed /\ BuildInv /\ PairInv => ManifestDescribesItsCases
  <2> SUFFICES ASSUME Typed, BuildInv, PairInv,
                      \A p \in Process : job[p].pc \notin BetweenWrites,
                      ~mixed, casesFile # NoFile,
                      crashes = 0 \/ (manifest # NoFile /\ manifest.casesSha = casesFile)
               PROVE  manifest = Describes(casesFile)
    BY DEF ManifestDescribesItsCases
  <2>1. manifest # NoFile /\ manifest.casesSha = casesFile
    BY DEF PairInv, ManifestCurrent
  <2>2. manifest \in Manifest
    BY <2>1 DEF Typed, TypeOK
  <2>3. /\ manifest.count = casesFile.request.perContract
        /\ manifest.datasetSha = casesFile
        /\ manifest.contractsSha = casesFile.contracts
    BY <2>1 DEF PairInv, ManifestFits, BuildInv, ManifestPaired
  <2> QED BY <2>1, <2>2, <2>3 DEF Manifest, Describes
<1>2. Typed /\ BuildInv /\ [Next]_vars => BuildInv'
  BY StepBuild
<1> QED BY <1>1, <1>2, InitTyped, StepTyped, InitBuild, InitPair, StepPair, PTL DEF Spec

-----------------------------------------------------------------------------
(* Refusals.                                                               *)

LEMMA InitFirst == Init => FirstVersion
<1> SUFFICES ASSUME Init PROVE FirstVersion
  OBVIOUS
<1>1. \A p \in Process : job[p].pc = "idle" /\ cache[p] = NoVersion
  BY DEF Init, Idle
<1> QED BY <1>1 DEF Init, FirstVersion, Describes, BuildPoints

\* What FirstVersion says of a process.
FirstOf(p) ==
    /\ cache[p] # NoVersion => cache[p] = 1
    /\ job[p].pc \in BuildPoints \ {"find_cases"} => job[p].corpus.contracts = 1
    /\ job[p].pc \in {"hash_cases", "write_manifest"} => job[p].contractsSha = 1
    /\ job[p].pc = "write_manifest" => job[p].casesSha.contracts = 1
    /\ job[p].pc \in {"hash_digest", "verify"} =>
         job[p].fileSha \in Corpus /\ job[p].fileSha.contracts = 1
    /\ job[p].pc = "verify" => job[p].digest = 1

LEMMA ProcessFirst ==
    ASSUME Typed, FirstVersion, NEW p \in Process, Build(p) \/ Evaluate(p) \/ Crash(p)
    PROVE  FirstVersion'
<1>1. SUFFICES ASSUME contracts = 1 PROVE FirstVersion'
  <2>1. contracts' = contracts
    BY StartBuildFacts, WriteCasesFacts, HashContractsFacts, HashCasesFacts,
       WriteManifestFacts, StartEvaluateFacts, FindCasesFacts, ReadCasesFacts,
       HashFileFacts, HashDigestFacts, VerdictFacts, EndFacts
       DEF Build, Evaluate, Alone
  <2> QED BY <1>1, <2>1 DEF FirstVersion
<1>2. /\ \A q \in Process : FirstOf(q)
      /\ casesFile # NoFile => casesFile.contracts = 1
      /\ manifest # NoFile => manifest.contractsSha = 1 /\ manifest.casesSha.contracts = 1
  BY <1>1 DEF FirstVersion, FirstOf
<1>3. SUFFICES /\ Alone(p) /\ FirstOf(p)'
               /\ (casesFile # NoFile => casesFile.contracts = 1)'
               /\ (manifest # NoFile =>
                     manifest.contractsSha = 1 /\ manifest.casesSha.contracts = 1)'
  <2>1. ASSUME Alone(p), FirstOf(p)' PROVE \A q \in Process : FirstOf(q)'
    BY <1>2, <2>1 DEF Alone, Others, FirstOf
  <2> QED BY <1>3, <2>1 DEF FirstVersion, FirstOf
<1> USE DEF FirstOf, BuildPoints
<1>4. CASE Build(p)
  BY <1>1, <1>2, <1>4, StartBuildFacts, WriteCasesFacts, HashContractsFacts, HashCasesFacts,
     WriteManifestFacts, StoreFacts DEF Build
<1>5. CASE StartEvaluate(p)
  BY <1>1, <1>2, <1>5, StartEvaluateFacts DEF Cached
<1>6. CASE FindCases(p)
  BY <1>1, <1>2, <1>6, FindCasesFacts, StoreFacts
<1>7. CASE ReadCases(p) \/ HashFile(p)
  BY <1>1, <1>2, <1>7, ReadCasesFacts, HashFileFacts, StoreFacts
<1>8. CASE HashDigest(p) \/ Accept(p) \/ Refuse(p)
  BY <1>1, <1>2, <1>8, HashDigestFacts, VerdictFacts
<1>9. CASE EndTask(p) \/ Crash(p)
  BY <1>1, <1>2, <1>9, EndFacts
<1> QED BY <1>4, <1>5, <1>6, <1>7, <1>8, <1>9 DEF Evaluate

LEMMA StepFirst == ASSUME Typed, FirstVersion, [Next]_vars PROVE FirstVersion'
<1>1. CASE EditContracts
  <2>1. contracts' # 1
    BY <1>1 DEF EditContracts, Typed, TypeOK, Version
  <2> QED BY <1>1, <2>1 DEF EditContracts, FirstVersion
<1>2. CASE AllDone \/ UNCHANGED vars
  BY <1>2 DEF AllDone, vars, FirstVersion
<1> QED BY <1>1, <1>2, ProcessFirst DEF Next

\* An evaluation refuses the corpus only after a crash or an edit, when a file
\* was replaced under its reads, while another process is between the two writes
\* of a build, or after a build whose cases were replaced (RefusedForCause).
THEOREM RefusalHasCause == Spec => RefusedForCause
<1> DEFINE cause(p) ==
      \/ crashes > 0 \/ contracts > 1
      \/ p \in disturbed
      \/ mixed
      \/ \E q \in Process \ {p} : job[q].pc \in BetweenWrites
<1>1. ASSUME Typed, SeenInv, PairInv, FirstVersion, [Next]_vars,
             NEW p \in Process, At(p, "verify"), job'[p].pc = "refused", ~cause(p)
      PROVE  FALSE
  <2>1. crashes = 0 /\ contracts = 1
    BY <1>1 DEF Typed, TypeOK, Version
  <2>2. job[p].pc = "verify" /\ job[p] \in Job /\ job[p].loaded \in Corpus
        /\ casesFile \in Corpus
    BY <1>1 DEF At, Typed, TypeOK, Located, AfterCases, LoadPoints
  <2>3. manifest # NoFile /\ manifest.casesSha = casesFile
    <3>1. \A q \in Process : job[q].pc \notin BetweenWrites
      BY <1>1, <2>2 DEF BetweenWrites
    <3> QED BY <1>1, <2>1, <2>2, <3>1, StoreFacts DEF PairInv, ManifestCurrent
  <2>4. job[p].loaded = casesFile /\ job[p].fileSha = casesFile
    BY <1>1, <2>2 DEF SeenInv, SeesOneFile, LoadPoints
  <2>5. manifest.count = job[p].loaded.request.perContract
    BY <1>1, <2>3, <2>4 DEF PairInv, ManifestFits
  <2>6. manifest.casesSha = job[p].fileSha /\ manifest.contractsSha = job[p].digest
    BY <1>1, <2>1, <2>2, <2>3, <2>4 DEF FirstVersion
  <2>7. InSync(p)
    BY <2>3, <2>5, <2>6 DEF InSync
  <2>8. ~Refuse(p)
    BY <2>7 DEF Refuse
  <2>9. \A q \in Process : Build(q) \/ Evaluate(q) \/ Crash(q) =>
          q = p \/ job'[p] = job[p]
    BY <1>1, StartBuildFacts, WriteCasesFacts, HashContractsFacts, HashCasesFacts,
       WriteManifestFacts, StartEvaluateFacts, FindCasesFacts, ReadCasesFacts,
       HashFileFacts, HashDigestFacts, VerdictFacts, EndFacts
       DEF Build, Evaluate, Alone, Others
  <2>10. ~(Build(p) \/ Evaluate(p) \/ Crash(p))
    <3>1. ~Accept(p)
      <4>1. ASSUME Accept(p) PROVE job'[p].pc = "evaluating"
        <5>1. Becomes(p, [job[p] EXCEPT !.pc = "evaluating"])
          BY <1>1, <4>1, FieldMoves
        <5> QED BY <2>2, <5>1 DEF Becomes, Job
      <4> QED BY <1>1, <4>1
    <3> QED
      BY <1>1, <2>2, <2>8, <3>1, StartBuildFacts, WriteCasesFacts, HashContractsFacts,
         HashCasesFacts, WriteManifestFacts, StartEvaluateFacts, FindCasesFacts,
         ReadCasesFacts, HashFileFacts, HashDigestFacts, EndFacts DEF Build, Evaluate
  <2>11. CASE EditContracts \/ AllDone \/ UNCHANGED vars
    BY <1>1, <2>2, <2>11 DEF EditContracts, AllDone, vars
  <2> QED BY <1>1, <2>2, <2>9, <2>10, <2>11 DEF Next
<1>2. Typed /\ SeenInv /\ PairInv /\ FirstVersion /\ [Next]_vars =>
        \A p \in Process : At(p, "verify") /\ job'[p].pc = "refused" => cause(p)
  BY <1>1
<1> QED
  BY <1>2, InitTyped, StepTyped, InitBuild, StepSeen, InitPair, StepPair, InitFirst,
     StepFirst, PTL DEF Spec, RefusedForCause
=============================================================================

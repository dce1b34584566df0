---------------------------- MODULE DatasetStore ----------------------------
(***************************************************************************)
(* The public corpus on disk: cases.jsonl and its manifest, two files that *)
(* dataset.build_dataset replaces one after the other, and the Contracts   *)
(* both are made from.  oracle.evaluate reads the cases, hashes the file,  *)
(* hashes the Contracts and compares with the manifest: four reads, while  *)
(* other processes may build, and an author may edit a Contract.           *)
(*                                                                         *)
(* A process keeps the Contracts it loaded first (lru_cache).  A hash is   *)
(* represented by what it is the hash of.                                  *)
(***************************************************************************)
EXTENDS Naturals

CONSTANTS
    Process,            \* processes that build or evaluate
    Requests,           \* the [seed, perContract] that builds are asked for
    DefaultRequest,     \* what load_public_cases asks for
    EditWhileBuilding,  \* may Contracts be edited while a process builds?
    MaxVersion,         \* bound: versions of the Contracts
    MaxTasks,           \* bound: builds and evaluations started
    MaxCrashes,         \* bound: processes killed
    NoFile,             \* the file does not exist
    NoVersion           \* the process has not loaded the Contracts

Version == 1 .. MaxVersion

\* The corpus is a function of the request and the Contracts.
Corpus == [request : Requests, contracts : Version]

Manifest == [count : {r.perContract : r \in Requests}, contractsSha : Version,
             casesSha : Corpus, datasetSha : Corpus]

ASSUME StoreAssumption ==
    /\ DefaultRequest \in Requests
    /\ EditWhileBuilding \in BOOLEAN
    /\ MaxVersion \in Nat \ {0} /\ MaxTasks \in Nat /\ MaxCrashes \in Nat
    /\ NoFile \notin Corpus \cup Manifest
    /\ NoVersion \notin Version

VARIABLES
    contracts,  \* the Contracts on disk
    casesFile,  \* dataset/public/v0.1/cases.jsonl
    manifest,   \* dataset/manifests/v0.1-public.json
    cache,      \* the Contracts each process works with
    job,        \* what each process is doing, and its local variables
    disturbed,  \* history: who had a file replaced under its four reads
    crossed,    \* history: whose cases were replaced before its manifest is written
    mixed,      \* history: was the manifest written by such a build?
    tasks, crashes  \* counters

files == <<casesFile, manifest>>
builders == <<crossed, mixed>>
bounds == <<tasks, crashes>>
vars == <<contracts, files, cache, job, disturbed, builders, bounds>>

BuildPoints ==
    {"find_cases", "write_cases", "hash_contracts", "hash_cases", "write_manifest"}

\* Between the two writes of a build.
BetweenWrites == {"hash_contracts", "hash_cases", "write_manifest"}

\* Between the first of the four reads and the last.
LoadPoints == {"hash_file", "hash_digest", "verify"}

Building == \E p \in Process : job[p].pc \in BuildPoints

At(p, point) == job[p].pc = point

Idle ==
    [pc |-> "idle", task |-> "none", corpus |-> NoFile, contractsSha |-> NoVersion,
     casesSha |-> NoFile, loaded |-> NoFile, fileSha |-> NoFile, digest |-> NoVersion]

Disturb == disturbed' = disturbed \cup {q \in Process : job[q].pc \in LoadPoints}

\* New cases fall between the two writes of the other builds.
Cross(p) ==
    /\ crossed' = {q \in Process : job[q].pc \in BetweenWrites}
    /\ UNCHANGED mixed

\* validate_contracts: read the Contracts once per process.
Cached(p) == IF cache[p] = NoVersion THEN contracts ELSE cache[p]

-----------------------------------------------------------------------------
(* build_dataset, as a command or from load_public_cases.  A definition    *)
(* whose name extends the name of the next one is that one with a mistake  *)
(* in it; no specification uses it.                                        *)

\* `osbench dataset build` is a process of its own.
StartBuild(p) ==
    /\ At(p, "idle") /\ cache[p] = NoVersion
    /\ tasks < MaxTasks
    /\ tasks' = tasks + 1
    /\ cache' = [cache EXCEPT ![p] = contracts]
    /\ \E r \in Requests :
         job' = [job EXCEPT ![p] =
                   [Idle EXCEPT !.pc = "write_cases",
                                !.task = "build",
                                !.corpus = [request |-> r, contracts |-> contracts]]]
    /\ UNCHANGED <<contracts, files, disturbed, builders, crashes>>

WriteCasesOnly(p) ==
    /\ At(p, "write_cases")
    /\ casesFile' = job[p].corpus
    /\ job' = [job EXCEPT ![p].pc =
                 IF job[p].task = "build" THEN "hash_contracts" ELSE "read_cases"]
    /\ Disturb /\ Cross(p)
    /\ UNCHANGED <<contracts, manifest, cache, bounds>>

WriteCases(p) ==
    /\ At(p, "write_cases")
    /\ casesFile' = job[p].corpus
    /\ job' = [job EXCEPT ![p].pc = "hash_contracts"]
    /\ Disturb /\ Cross(p)
    /\ UNCHANGED <<contracts, manifest, cache, bounds>>

HashContractsOnce(p) ==
    /\ At(p, "hash_contracts")
    /\ job' = [job EXCEPT ![p].pc = "hash_cases",
                          ![p].contractsSha = IF manifest = NoFile THEN contracts
                                              ELSE manifest.contractsSha]
    /\ UNCHANGED <<contracts, files, cache, disturbed, builders, bounds>>

\* contract_corpus_sha256 reads the Contracts again, not the cached ones.
HashContracts(p) ==
    /\ At(p, "hash_contracts")
    /\ job' = [job EXCEPT ![p].pc = "hash_cases", ![p].contractsSha = contracts]
    /\ UNCHANGED <<contracts, files, cache, disturbed, builders, bounds>>

\* sha256_file reads the file again, which may be another build's by now.
HashCases(p) ==
    /\ At(p, "hash_cases")
    /\ job' = [job EXCEPT ![p].pc = "write_manifest", ![p].casesSha = casesFile]
    /\ UNCHANGED <<contracts, files, cache, disturbed, builders, bounds>>

\* The process of a build command ends here.
WriteManifest(p) ==
    /\ At(p, "write_manifest")
    /\ manifest' = [count        |-> job[p].corpus.request.perContract,
                    contractsSha |-> job[p].contractsSha,
                    casesSha     |-> job[p].casesSha,
                    datasetSha   |-> job[p].corpus]
    /\ IF job[p].task = "build"
         THEN /\ job' = [job EXCEPT ![p] = Idle]
              /\ cache' = [cache EXCEPT ![p] = NoVersion]
         ELSE /\ job' = [job EXCEPT ![p].pc = "read_cases"]
              /\ UNCHANGED cache
    /\ Disturb
    /\ crossed' = crossed \ {p}
    /\ mixed' = (p \in crossed)
    /\ UNCHANGED <<contracts, casesFile, bounds>>

-----------------------------------------------------------------------------
(* The opening of evaluate.                                                *)

\* A process may evaluate several times, as the full self-test does.
StartEvaluate(p) ==
    /\ At(p, "idle")
    /\ tasks < MaxTasks
    /\ tasks' = tasks + 1
    /\ cache' = [cache EXCEPT ![p] = Cached(p)]
    /\ job' = [job EXCEPT ![p] = [Idle EXCEPT !.pc = "find_cases", !.task = "evaluate"]]
    /\ UNCHANGED <<contracts, files, disturbed, builders, crashes>>

FindCasesUnchecked(p) ==
    /\ At(p, "find_cases")
    /\ job' = [job EXCEPT ![p].pc = "read_cases"]
    /\ UNCHANGED <<contracts, files, cache, disturbed, builders, bounds>>

\* load_public_cases: a missing corpus is built first.
FindCases(p) ==
    /\ At(p, "find_cases")
    /\ job' = IF casesFile = NoFile
                THEN [job EXCEPT ![p].pc = "write_cases",
                                 ![p].corpus = [request   |-> DefaultRequest,
                                                contracts |-> cache[p]]]
                ELSE [job EXCEPT ![p].pc = "read_cases"]
    /\ UNCHANGED <<contracts, files, cache, disturbed, builders, bounds>>

ReadCases(p) ==
    /\ At(p, "read_cases")
    /\ job' = [job EXCEPT ![p].pc = "hash_file", ![p].loaded = casesFile]
    /\ disturbed' = disturbed \ {p}
    /\ UNCHANGED <<contracts, files, cache, builders, bounds>>

HashFile(p) ==
    /\ At(p, "hash_file")
    /\ job' = [job EXCEPT ![p].pc = "hash_digest", ![p].fileSha = casesFile]
    /\ UNCHANGED <<contracts, files, cache, disturbed, builders, bounds>>

HashDigest(p) ==
    /\ At(p, "hash_digest")
    /\ job' = [job EXCEPT ![p].pc = "verify", ![p].digest = contracts]
    /\ UNCHANGED <<contracts, files, cache, disturbed, builders, bounds>>

InSyncByFile(p) ==
    /\ manifest # NoFile
    /\ manifest.count = job[p].loaded.request.perContract
    /\ manifest.casesSha = job[p].fileSha

\* _verify_public_dataset; datasetSha is not compared.
InSync(p) ==
    /\ manifest # NoFile
    /\ manifest.count = job[p].loaded.request.perContract
    /\ manifest.casesSha = job[p].fileSha
    /\ manifest.contractsSha = job[p].digest

Accept(p) ==
    /\ At(p, "verify")
    /\ InSync(p)
    /\ job' = [job EXCEPT ![p].pc = "evaluating"]
    /\ UNCHANGED <<contracts, files, cache, disturbed, builders, bounds>>

Refuse(p) ==
    /\ At(p, "verify")
    /\ ~InSync(p)
    /\ job' = [job EXCEPT ![p].pc = "refused"]
    /\ UNCHANGED <<contracts, files, cache, disturbed, builders, bounds>>

\* The process goes on, or exits and another takes its place.
EndTask(p) ==
    /\ job[p].pc \in {"evaluating", "refused"}
    /\ job' = [job EXCEPT ![p] = Idle]
    /\ cache' \in {cache, [cache EXCEPT ![p] = NoVersion]}
    /\ UNCHANGED <<contracts, files, disturbed, builders, bounds>>

-----------------------------------------------------------------------------
(* The environment.                                                        *)

EditContracts ==
    /\ contracts < MaxVersion
    /\ EditWhileBuilding \/ ~Building
    /\ contracts' = contracts + 1
    /\ UNCHANGED <<files, cache, job, disturbed, builders, bounds>>

Crash(p) ==
    /\ job[p].pc # "idle"
    /\ crashes < MaxCrashes
    /\ crashes' = crashes + 1
    /\ job' = [job EXCEPT ![p] = Idle]
    /\ cache' = [cache EXCEPT ![p] = NoVersion]
    /\ crossed' = crossed \ {p}
    /\ UNCHANGED <<contracts, files, disturbed, mixed, tasks>>

-----------------------------------------------------------------------------
Describes(corpus) ==
    [count |-> corpus.request.perContract, contractsSha |-> corpus.contracts,
     casesSha |-> corpus, datasetSha |-> corpus]

\* Nothing has been built, or the committed dataset is there.
Init ==
    /\ contracts = 1
    /\ \/ casesFile = NoFile /\ manifest = NoFile
       \/ /\ casesFile = [request |-> DefaultRequest, contracts |-> 1]
          /\ manifest = Describes(casesFile)
    /\ cache = [p \in Process |-> NoVersion]
    /\ job = [p \in Process |-> Idle]
    /\ disturbed = {}
    /\ crossed = {}
    /\ mixed = FALSE
    /\ tasks = 0
    /\ crashes = 0

Build(p) ==
    StartBuild(p) \/ WriteCases(p) \/ HashContracts(p) \/ HashCases(p) \/ WriteManifest(p)

Evaluate(p) ==
    \/ StartEvaluate(p) \/ FindCases(p) \/ ReadCases(p) \/ HashFile(p)
    \/ HashDigest(p) \/ Accept(p) \/ Refuse(p) \/ EndTask(p)

AllDone ==
    /\ tasks = MaxTasks /\ \A p \in Process : At(p, "idle")
    /\ UNCHANGED vars

Next ==
    \/ \E p \in Process : Build(p) \/ Evaluate(p) \/ Crash(p)
    \/ EditContracts
    \/ AllDone

Spec == Init /\ [][Next]_vars

-----------------------------------------------------------------------------
(* Properties.                                                             *)

Point == BuildPoints \cup LoadPoints \cup {"idle", "read_cases", "evaluating", "refused"}

Job == [pc : Point, task : {"none", "build", "evaluate"},
        corpus : Corpus \cup {NoFile}, contractsSha : Version \cup {NoVersion},
        casesSha : Corpus \cup {NoFile}, loaded : Corpus \cup {NoFile},
        fileSha : Corpus \cup {NoFile}, digest : Version \cup {NoVersion}]

\* The two files, the caches and every process's variables have their types;
\* in particular no process reads a corpus that is not there.
TypeOK ==
    /\ contracts \in Version
    /\ casesFile \in Corpus \cup {NoFile}
    /\ manifest \in Manifest \cup {NoFile}
    /\ cache \in [Process -> Version \cup {NoVersion}]
    /\ job \in [Process -> Job]
    /\ \A p \in Process :
        job[p].pc \in LoadPoints \cup {"evaluating", "refused"} => job[p].loaded \in Corpus
    /\ disturbed \subseteq Process
    /\ crossed \subseteq Process
    /\ mixed \in BOOLEAN
    /\ tasks \in 0 .. MaxTasks
    /\ crashes \in 0 .. MaxCrashes

\* If the file was not replaced under its reads and its Contracts are those on
\* disk, an evaluation that _verify_public_dataset lets pass evaluates the cases
\* it records the hash of, made from the Contracts it judges them by: no crash
\* between the two writes of a build and no edit is accepted as a corpus.
AcceptedIsConsistent ==
    \A p \in Process :
        At(p, "evaluating") /\ p \notin disturbed /\ cache[p] = job[p].digest =>
            /\ job[p].loaded = job[p].fileSha
            /\ job[p].loaded.contracts = cache[p]

\* docs/DATASET.md:5 says that the manifest records counts, the Contract-corpus
\* hash and the case-file hash.  When no build is between its two writes, only a
\* build whose cases another one replaced before it wrote its manifest can have
\* left a manifest that has the hash of the case file and not its counts and
\* Contracts; and only such a build or a killed one, a manifest of other cases.
ManifestDescribesItsCases ==
    /\ \A p \in Process : job[p].pc \notin BetweenWrites
    /\ ~mixed
    /\ casesFile # NoFile
    /\ crashes = 0 \/ (manifest # NoFile /\ manifest.casesSha = casesFile)
    => manifest = Describes(casesFile)

\* Without a crash and an edit, an evaluation refuses the corpus only because of
\* builds: a file was replaced under its reads, another process is between its
\* two writes, or the manifest was written by a build whose cases were replaced.
RefusedForCause ==
    [][\A p \in Process : At(p, "verify") /\ job'[p].pc = "refused" =>
         \/ crashes > 0 \/ contracts > 1
         \/ p \in disturbed
         \/ mixed
         \/ \E q \in Process \ {p} : job[q].pc \in BetweenWrites]_vars
=============================================================================

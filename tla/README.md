# osbench: a TLA+ model of the evaluator

This directory holds TLA+ modules for the parts of `src/osbench` that decide
whether a benchmark result can be trusted: the run that compares a candidate
with the reference, the sharded self-test, the serial session with a virtual
machine, the corpus both are fed from, the pipeline that makes the reference, and the
Contracts with their graph and scores. TLC checks each on a small instance; TLAPS
proves, for every value of the constants, each invariant and each action property that
these runs check, and the two refinements. Only liveness stays with TLC.

Paths below are relative to the repository's root; `oracle.py` alone means
`src/osbench/oracle.py`, and so on.

## 1. The system

osbench compares a candidate operating system with a Debian reference. A
*Contract* describes one behaviour; a *case* is one seeded instance of a
Contract; both systems execute the case and their *observations* are normalised
and compared.

| Component | State it keeps | Operations | Interacts with | What is hard | What makes it correct |
|---|---|---|---|---|---|
| Evaluation run, `oracle.evaluate` | journal, two progress logs, state file, partial result, two raw dumps, result document; in memory the results and raw observations | open and close the targets, per case: start, execute twice, compare, record; checkpoint; fail; publish | targets (calls), the corpus (reads), the self-test (called by it) | eight files written one after another, each write may be the last; exceptions inside `except` and `finally` | the files agree, whatever happens; a pass is backed by two logged observations; a report accounts for every case once |
| Case selection, `oracle.select_cases` | none | one per Contract, shard, limit | corpus | limits combined with shards | shards partition the corpus |
| Full self-test, `full_selftest.py`, `results.py` | one future per shard, paths, errors, merged document | submit, collect, merge, validate, judge | evaluate (one thread each) | any order of completion, exceptions, a deadline, a shard that never ends | no shard is lost silently; a pass covers the corpus |
| QEMU target and serial protocol, `targets.py`, `qemu.py`, guest agent `reference/guest/osbench_agent.py` and its service, or a candidate's shim | the VM process, one socket per call, the guest's agent | start, wait for the sentinel, send a case, receive its answer, stop | evaluate; the guest over a byte stream | a late or partial answer, kernel messages in the stream, a guest that dies at any time or writes records of its own, unnumbered requests | answers belong to their cases while the guest answers in turn; no VM outlives its target; every call ends |
| Local target and probes, `local_probes.py`, `probes.py`, `probe_worker.py` | none of their own | execute one probe on the host | evaluate | a probe without a timeout | — |
| Public dataset, `dataset.py`, `oracle._verify_public_dataset`, `util.py` | `cases.jsonl`, manifest, the Contracts, an `lru_cache` of them per process | build, load (builds if missing), verify | evaluate, authors who edit Contracts | two files replaced one after the other, four reads by evaluate, builds that overlap, stale caches | what verification accepts is consistent; it refuses for a cause |
| Atomic replacement, `util.py` (not modelled) | a temporary file | mkstemp, write, fsync, replace, unlink | every writer | a crash between the system calls | old or new content, never neither |
| Reference pipeline, `reference.py`, `inventory.py`, `oci.py`, `source_lock.py`, `reference/build/*.sh`, `reference/inventory/collect.sh`, `Dockerfile` | the cached checksums and installer ISO, the payload, the image, the inventory, the rootfs, OCI layout and archive, one calibration per profile, the two lock files | preflight (what to run next), lock-sources, payload build, build, inventory, export-oci, calibrate-unsynced, lock-realize | an operator, QEMU and other tools, the guest | commands write in place, may be killed or run out of order; preflight looks only at what is on disk, and not at how it came there | a materialized lock is calibrated on what it records; who follows preflight ends, and ends with a lock of one image |
| Contracts and capability graph, `contracts.py`, `graph.py` | the documents; the stack of the search, the queue of the sort, four output files | validate, build, prerequisites, unlocked_by, workloads, frontier | dataset, scoring | cycles and diamonds in any order, duplicate and unknown ids, an output that raises after others were written | validation accepts exactly the acyclic corpora; the sort finishes; the queries agree; the frontier never runs dry |
| Scoring, `scoring.py` | the case results | per-Contract results, gates, depth, coverage, Native_p | results, the graph | thresholds at their boundary, empty levels, Contracts that were not run | a perfect score means that everything passed; a candidate goes deeper only by passing |
| Trajectory, `trajectory.py` (not modelled) | one JSON file, a copy in memory | open, record, finish | agents | two recorders of one file | no event is lost |
| Payload, `payload.py` | a staged tree, an ISO | stage, build | QEMU | failure in the middle of staging, which is done in place | a partial tree is never taken for a whole one |
| Minimisation, `minimization.py` (not modelled) | none | reduce a failing case | — | the order of reductions | the result still fails and is locally minimal |
| Normalisers, perturbations, tracing, doctor, command line, probe sources (not modelled) | none | data to data, input and output | — | — | — |

The parts interact by calls, except in four places where state is shared
between processes, threads or commands: the files of the corpus (`DatasetStore`), the
serial port (`SerialSession`), the thread pool (`FullSelftest`) and the artifacts of the
reference (`ReferencePipeline`).

## 2. The modules

| Module | What it is |
|---|---|
| `Ledger` | abstract specification: what a run promises to a reader of its journal and its result document |
| `EvalRun` | one call of `evaluate`, one action per durable write, target call or in-memory update |
| `EvalRunInductive` | the inductive invariant of `EvalRun`, in layers |
| `EvalRunProofs` | proofs of layers 1 to 12 |
| `EvalRunLedgerProofs` | proofs of layers 13 to 16: journal, state file, partial result, targets, and the refinement of `Ledger` |
| `SortedSets` | `sorted()` of a set, as the code uses it on ids |
| `CaseSelection` | `select_cases` as operators on sequences |
| `FullSelftest` | the pool, the collecting thread, merging and judging |
| `FullSelftestProofs` | its invariants and proofs |
| `Target` | abstract specification: what `targets.Target` promises to `evaluate` |
| `SerialSession` | `QemuTarget` and `QemuController` against a guest whose agent answers, dies and restarts, and whose other software writes records out of turn |
| `SerialSessionProofs` | its invariants and proofs, and the refinement of `Target` |
| `DatasetStore` | builds and evaluations that share the corpus on disk |
| `DatasetStoreProofs` | its invariants and proofs |
| `ReferencePipeline` | an operator, the commands that make the reference, and what preflight says of them |
| `ReferencePipelineProofs` | its invariants and proofs |
| `CapabilityGraph` | validation, topological sort, outputs and queries of the Contract graph |
| `Scoring` | what a list of case results says of Contracts, levels and the candidate |
| `Corpus` | composition: a corpus is validated and exported, results come in, scores and frontier follow |
| `CorpusProofs` | the invariants and proofs of the composition |
| `DataLemmas` | lemmas about numbers, finite sets and sequences that several proofs use |
| `MC*` | constants for TLC |

How they fit: `EvalRun` calls two targets and takes from each either an
observation or an exception; `SerialSession` shows that a QEMU target delivers
just that (it implements `Target`), and until when the observation is of the case asked. `Corpus` composes `CapabilityGraph` and `Scoring`:
what one accepts is what the other scores, and the frontier reads the results of both. `FullSelftest` takes one `evaluate` call as
a worker that returns judgements or raises; `EvalRun` shows that a call ends in
one of those ways and that its document is complete. `DatasetStore` models the
reads that `evaluate` makes before `EvalRun` begins.

In every module, a definition placed directly before another whose name its own
name extends, or that takes the same parameters and differs in one line
(`CheckpointOnRequestOnly` before `Persist`, `FailOnlyTheCase` before `Fail`), is
that definition with a plausible mistake. No specification uses it. It is there so
that one can put it in place of the right one and see the property fail that is
supposed to notice; `PROJECT.json` lists which.

### EvalRun

`pc` names the next operation of `evaluate`; `call` holds the arguments of the
`persist` in progress and where to continue after it. Each journal row and the
`persist` call that follows it in the code are two or more actions, so that a
failure can fall between them. The actions, in the order of the code:
`JournalRunStarted`, `OpenReference`, `OpenCandidate`, then for each case
`NextCase`, `JournalStarted`, `Supported` or `Unsupported` and
`JournalUnsupported`, `ExecuteReference`, `LogReference`, `JournalReference`,
`ExecuteCandidate`, `LogCandidate`, `JournalCandidate`, `Compare`,
`JournalCompleted`, and at the end `CloseReference`, `CloseCandidate`,
`Publish`, `JournalRunCompleted`. `WriteState`, `WritePartial`,
`WriteRawReference` and `WriteRawCandidate` are the body of `persist`.
`JournalRunFailed` is the `except` clause.

Three faults: `Raise` (any operation of the evaluator raises; an exception
inside `except` still runs `finally`, one inside `finally` leaves at once),
`TransportRaises` (a QEMU target's `execute` raises) and `Kill` (the process
dies). Which can occur is a constant, because what one may expect differs: after
a transport failure everything must be on record, after a failing disk it
cannot be.

Abstractions. A journal row and an atomic file replacement are one step, done or
not done; an operation that raises has not had its effect. An observation is its
status and the class it is normalised to. Which of the targets exists on this
host is chosen when it is opened, and whether a case is supported is chosen when
it is asked, because the code looks at the environment and the image anew each
time. Directories are created before `Init`; verification of the corpus is in
`DatasetStore`.

### FullSelftest and CaseSelection

A future is queued, starting, running, hung, returned or raised. A free worker
takes the oldest queued shard; loading the corpus is a step of its own. `Collect`
is the body of the `as_completed` loop, `Deadline` its `TimeoutError`, `Drain`
the end of the `with` statement, which waits for every shard. `Merge` and `Judge`
are `merge_results`, `validate_results` and the verdict. Time is one history
variable: the shards that have run longer than the timeout of one shard. The hash
that assigns a case to a shard is an arbitrary function of the id.

### SerialSession

The host's thread is `pc`; each wait has a deadline that may pass at any time
(`ConnectFails`, `BootGivenUp`, `CaseTimesOut`, `Kill`). The guest's stream is a
sequence of fragments: a result record takes two, and `recv` returns any
non-empty prefix of what has arrived. Kernel messages may fall between the two.
What the guest writes while nobody is connected is lost. Agent and VM may die or
restart at any time. Requests carry no number, in the code and in the model.

The guest has two parts. Its agent writes one result for each request it reads, which is
what `osbench_agent.py` does; its result may be nonsense, late or cut short by a restart.
Beside it, `CandidateForges` stands for whatever else a candidate's image runs: it may
write a sentinel, noise, or a result of any case the guest has been asked or of none, whole
or in part, at any moment, `MaxForged` times. `trusted` becomes false when it writes a
result while the host waits for one. `Target` has the same variable: once a target has
answered out of turn, what it returns may be of any case.

Abstractions. A retry of `connect` inside its deadline is not a step. A record's
contents are the case it answers and whether it decodes. `terminate`, `wait`, `kill` and
the second `wait`, which raises if the process is not gone after five seconds
(`KillTimesOut`), are kept; QMP commands and `boot_check` have no caller in an
evaluation.

### DatasetStore

A build is `WriteCases`, `HashContracts`, `HashCases`, `WriteManifest`; an
evaluation `FindCases` (which builds if there is no file), `ReadCases`,
`HashFile`, `HashDigest`, then `Accept` or `Refuse`. Each is one read or one
replacement of one file. Hashes are represented by what was hashed, so equal
hashes mean equal contents. Three variables are history: `disturbed`, the evaluations
under whose reads a file was replaced; `crossed`, the builds whose cases another build
replaced before they wrote their manifest; and `mixed`, whether such a build wrote the
manifest that is on disk.

### ReferencePipeline

`disk` is a record with one field per artifact; `job` is the running command, at the
point it has reached, with what it remembers from earlier points. A command that writes
under the final name takes two steps, start and end, so that it can be interrupted
between them: `xorriso`, the installer, the rootfs, a layer, the archive. The payload is
staged part by part. `NextAction` is preflight's chain of conditions in its order,
`LockReady` and `CalibrationReady` its two judgements with and without
`--verify-hashes`, `RealizeLock` what `lock-realize` writes. `Follow` runs what preflight
printed, `RunUnasked` any other command, `Stop` kills the running one, `FetchBad` is
a bad download, `Edit` an edit of the sources or of the lock's other sections.
`reference build` is the three scripts it calls: checksum file and signature are fetched
unless cached (`FetchSums`) and checked (`CheckSums`), then the ISO (`FetchIso`,
`CheckIso`), then the image is created and installed. `DockerBuild` moves the operator to
the container of `Dockerfile`, which has what its packages bring (`ContainerTools`) and
keeps the files.

Abstractions. A hash is what was hashed. An image or a payload is a number, no two
alike, and what was done to it since. Package lists are represented by the system they
were collected on; whether such a list names kernel, systemd and libc is a constant for
the host and true for the image. Tools come in the groups that preflight and the commands
tell apart. Two facts outside the code decide what can happen, and both are free in every
behaviour: whether the operator boots an installed image outside osbench (`boots`; every
VM osbench starts runs with `-snapshot`, so its guest's inventory, which its agent writes
at each start, never reaches the image that `collect.sh` copies it out of), and whether the
guest names an outcome class (`classifies`; calibration needs one, and the repository's
agent returns none). Each boot changes the image: the first is made when an inventory that
fails asks for it (`BootByHand`), others count as unasked (`BootUnasked`).

### CapabilityGraph, Scoring and Corpus

`Load` collects the issues of the documents; `VisitRoot`, `SkipDependency`,
`VisitDependency`, `CloseCycle` and `Return` are the recursion of `_cycle_nodes` with its
stack made explicit, taking the prerequisites of a node in any order. `BuildGraph`,
`TakeFromQueue` and `CheckOrder` are `_topology`, `WriteOutput` the four files of
`write_graph_outputs` in their order. The queries are operators on the accepted graph.
In `Corpus`, `ReadLevels` gives each Contract of the accepted corpus a level and
`CaseResult` adds one case result; `Scoring`'s operators and `Frontier` are evaluated in
each state.

Abstractions. A document is its id, prerequisites, orthogonal Contracts and normalizers,
or malformed, or absent; `Issues` has every check of `_validate_contracts_uncached`, each
reduced to the documents it finds wrong. A query that raises has the value `KeyError`:
`workloads_for` does for every Contract as soon as one workload names an unknown one.
Identifiers are numbers, in the order `sorted` gives them. Ratios are compared as fractions. Of a
score, only whether it is 1 or 0 is modelled.

## 3. What TLC checks

Every property of a run below that must hold has, in `PROJECT.json`, a mistake in
the model that makes it fail, so none holds vacuously.

| Run | Instance | What it shows |
|---|---|---|
| `eval_run` | three cases, a checkpoint every two, both specifications `reference`, all faults, none of them fair | `JournalFollowsProtocol`: any journal, of a run cut short anywhere, is a prefix of a well-formed one. `ActiveCaseIdentified`: while a case executes, the files name it. `PassesAreBacked`. `ReportComplete`: a published document has each case once, agrees with the journal and counts its executions. `PartialLagBounded`: how far a partial result may lag. `StateFileHonest`. `HistoryKept`: nothing written is revised. `ImplementsLedger`: the refinement. |
| `eval_transport` | two cases, candidate on QEMU, only transport faults, fair but for local probes | `EndsUnlessProbeHangs`, `FailureReported` (in journal, state file, partial result and to the caller), `TargetsReleased` |
| `selftest` | three cases of two Contracts in three shards on two workers, every option, shards may raise, overrun or hang | `PassCoversCorpus`, `NoShardHidden`, `MergedAfterThePool`, `ReportMatchesFutures`, `Finishes` |
| `serial` | three cases, one restart, one diagnostic, one forged record, fair host | `NoOrphanVm`, `AskedInOrder`, `Closes`, whatever the guest writes; `OneRequestAtATime` and the answers of `ImplementsTarget` until it writes a result out of turn to a waiting host |
| `dataset` | two processes, four builds of three requests or evaluations, one edit of the Contracts between builds, one crash | `AcceptedIsConsistent`. `ManifestDescribesItsCases`: which overlaps of builds leave a manifest that does not describe its cases. `RefusedForCause`. |
| `reference` | a host with every tool, one with `xorriso`, `qemu-img` and the downloads only and one with none, two profiles, one command or boot out of order, one fault, one edit, fair operator | `MaterializedIsCalibrated`, `FollowedLockIsCoherent`: who only follows preflight and meets no failure ends with a lock of one image. `ValidTreeIsWhole`. `FollowingEnds`: after any disturbance, following preflight ends or is `Blocked` by one of the listed causes. |
| `corpus` | every graph on three identifiers and three files, and other issues in graphs without edges, two workloads, three levels, three case results | `ValidationDecidesCycles`, `TopologyIsOrdered`, `QueriesAgree`, `PerfectMeansComplete`, `FrontierNeverDry`, `DepthFollowsCases` |

Five runs show where the code differs from what the repository says of it. Each
checks the documented statement and ends in a counterexample.

| Run | Documented | What the code does |
|---|---|---|
| `eval_transport_documented` | `docs/CANDIDATE_INTERFACE.md:81`: a timeout, malformed output or a crash fails the case | the exception ends the whole run; the case gets no verdict and no result document is written. The document speaks of the candidate; the code treats both targets alike, and TLC's trace may show the reference |
| `selftest_timeout` | `README.md:121`: a timeout per shard | `result(timeout=...)` is asked of futures that are done; the only deadline is the sum for all shards |
| `selftest_rewrite` | comment at `oracle.py:253`: the hash detects a rewrite between shards | `merge_results` does not compare the hashes |
| `serial_framing` | `docs/CANDIDATE_INTERFACE.md:38`: newline-delimited records | a record without its newline is decoded as soon as its beginning has arrived |
| `serial_snapshot` | `docs/ARCHITECTURE.md:54`: `clean_snapshot` forces a fresh VM | the VM of the cases before is used |

Disagreements met while modelling that have no run of their own:

- `docs/DATASET.md:5` has the manifest record counts and hash of the case file. If two
  builds of different requests overlap, the manifest can record the counts of one and the
  hash of the other's cases. `ManifestDescribesItsCases` says that nothing else can do this:
  it assumes `~mixed`, and TLC finds the mixed manifest when that premise is dropped.
- `docs/THREAT_MODEL.md:31` has evaluator-channel corruption fail closed. `agent_case`
  (`qemu.py:355-359`) takes the first result it receives and does not look at its
  `case_id`, so a candidate that writes a result early, or one twice while the host waits,
  has it taken for the answer. `OneRequestAtATime` and `Target` say what holds until then.
- `reference.py:292` wants `debian-role-keys.gpg`, of the package `debian-keyring`, which
  `Dockerfile` does not install: on a host that lacks a tool preflight asks for `docker
  compose build`, and in the container, as long as something is left to make, for ever
  (`Blocked`, third case). `download_iso.sh` does
  without it.
- `download_iso.sh:19` keeps what is in the cache. A bad `SHA256SUMS` or signature makes
  every later `reference build` fail, and preflight, which checks the ISO only, goes on
  asking for it (`Blocked`, fourth case).
- `docs/ARCHITECTURE.md:40` has the payload staged in an isolated temporary tree.
  `payload.py:20` removes `artifacts/payload/staging` and builds it again in place: a failure
  leaves a partial tree under the final name. `validate_payload_tree` refuses it
  (`ValidTreeIsWhole`), but the tree of before is lost.
- `docs/REFERENCE.md:61` has the inventory boot a writable overlay; `collect.sh` reads
  the base image, into which no VM of osbench writes.
- `docs/REFERENCE.md:33` has the build cold-boot the image and succeed only after
  `OSBENCH_AGENT_READY`; `build_image.sh` runs `qemu-img check`, and takes the
  installer's timeout for success.
- `docs/REFERENCE.md:70` says that versions of the host never enter the lock; an inventory
  run before there is an image collects the host's, and `lock-realize` reads them. It
  takes a command that preflight did not ask for, which is why `FollowedLockIsCoherent`
  asks for none.
- preflight's calibration command names no profile: asked about another profile than the
  environment's, it asks for ever (`Blocked`, first case).
- `build_workload_matrix.py` and `write_graph_outputs` write the same
  `workload_matrix.json` with different schemas.

### Bounds, and why they are enough

- `EvalRun`: three cases and a checkpoint every two give a first case, a case at a
  checkpoint and one after it, so that the partial result may lag, be level or be
  ahead. Two values of observations are enough, because only equality is looked
  at; they are a symmetry set. Nothing else is bounded: a run is finite.
- `FullSelftest`: three shards on two workers are the smallest pool in which one
  waits while two run. One Contract has two cases, with and without a clean snapshot,
  so that choosing its representative matters; one shard has two cases, so that a limit
  of one cuts off something, one shard has one, and one has none.
- `SerialSession`: `MaxRestarts`, `MaxNoise` and `MaxForged` bound the guest; one restart
  is enough to lose an answer, one diagnostic to split a record, one forged record to
  displace an answer or to end a boot early. Three cases give a request before and one
  after the one that goes wrong.
- `DatasetStore`: `MaxVersion`, `MaxTasks` and `MaxCrashes`. Two processes and four
  tasks allow an interrupted build, its repair and two evaluations, or builds that cross
  and an evaluation after them. Of the three requests one is what `load_public_cases` asks
  for, one differs from it in the seed and one in the counts, so that manifests of two
  builds may or may not look alike. The two
  processes are a symmetry set; the properties of that run are invariants and one
  action property, for which symmetry is sound.
- `ReferencePipeline`: `MaxUnasked`, `MaxFaults` and `MaxEdits` are one each: one command
  out of order is enough to leave something stale behind, one kill to leave something
  torn, and the two together to let a stale artifact meet a torn one. Boots that no
  failing inventory asked for count as unasked. `Hosts` has a host on which nothing is
  missing, one on which commands stop in the middle and one with nothing; from the last two
  the operator goes on in the container.
  With two commands out of order (2.7 million states) TLC finds the same.
  Section 4 proves the four invariants without any bound.
- Section 4 does the same for the other modules. There `MaxCases`, `MaxRestarts`,
  `MaxNoise`, `MaxForged`, `MaxVersion`, `MaxTasks`, `MaxCrashes`, `MaxUnasked`, `MaxFaults` and
  `MaxEdits` are any natural numbers, so the bounds above matter only for liveness.
- `Corpus`: three identifiers are enough for a diamond's two ways, a cycle of each length
  up to three and a second document of one id; the other issues do not look at edges, so
  that they are tried in corpora without any; `MaxCases` three gives the first failure of
  a level, a Contract with both outcomes and a full pass. `corpus` turns the deadlock
  check off, since a behaviour ends when no more results come in.

### Fairness

- `EvalRun!FairSpec`: the one thread of the evaluator keeps running
  (`WF(~LocalExecution /\ Progress)`), because every call it makes to a QEMU target has a
  deadline. A local probe has none (`probes.py:43` blocks in `accept`), so the step that
  executes a case on a local target is not fair, and `EndsUnlessProbeHangs` says that
  nothing else keeps `evaluate` from ending. Faults are not fair.
- `FullSelftest!FairSpec`: threads are scheduled (`WF` of the calling thread and of
  each shard's worker). A hung shard has no worker step. `Finishes` says that only a
  hung shard keeps the self-test from ending. `selftest` turns TLC's deadlock
  check off for that reason: with a hung shard the calling thread waits in the
  `with` statement for ever, in the code as in the model.
- `SerialSession!FairSpec`: the host's thread runs and deadlines pass. Nothing is
  assumed of the guest.
- `ReferencePipeline!FairSpec`: the operator goes on with what preflight asks for and
  commands end (`WF(Operator)`), and one who boots images does so for the first time in the end
  (`SF(BootByHand)`: an image may be booted only between commands, so the action is
  enabled again and again rather than for ever; a failing `inventory` asks for it each
  time). Faults, edits and commands out of order are not fair; their bounds end them.
- `Corpus` states no liveness: each phase is a loop over a finite set.

## 4. What is proved

### The evaluation run

`EvalRunProofs` holds, for every sequence `Selected` of distinct cases, every
`CheckpointEvery` of at least one, any set of values, either specification for each
target and any set of faults:

- `ControlCorrect`, `Spec => []ControlInv`: each `persist` carries the status and the
  continuation of its call site; an error is recorded exactly while `evaluate`
  unwinds.
- `PositionCorrect`, `Spec => []PositionInv`: the current case is the one at the
  current position.
- `ObservedCorrect`, `Spec => []ObservedInv`: what is logged and compared has been
  observed before.
- `TallyCorrect`, `Spec => []TallyInv`: in memory there is one outcome per case
  decided so far, and the newest one is the current case's.
- `TypeCorrect`, `Spec => []TypeOK`.
- `PassesBacked`, `Spec => []PassesAreBacked`: no document calls a case passed
  without two equivalent, successful observations of it in the logs.
- `HistoryIsKept`, `Spec => HistoryKept`: journal and logs only grow, a published
  report is final, the state file never goes back to an earlier case.
- `JournalCorrect`, `Spec => []JournalInv`: no two outcomes of one position in the
  journal, and one for each case decided so far while nothing has failed.
- `ReportsComplete`, `Spec => []ReportComplete`: a published document has every
  selected case once, agrees with the journal, counts the logged executions, and was
  published after both targets were closed.

`EvalRunLedgerProofs` holds under the same conditions:

- `JournalIsWellFormed`, `Spec => []JournalFollowsProtocol`: a journal cut short anywhere
  is a prefix of a well-formed one.
- `DeadRunNamesItsCase`, `Spec => []ActiveCaseIdentified`: while a case executes, the last
  journal row and the state file name it, so that a dead run says where it died.
- `StateFileIsHonest`, `Spec => []StateFileHonest`: a state file that says completed or
  failed is right, and agrees with the journal, the documents and the dumps.
- `PartialResultIsRecent`, `Spec => []PartialLagBounded`: how many outcomes the partial
  result may miss, for every checkpoint interval.
- `TargetsAreReleased`, `Spec => []TargetsReleased`, under the hypothesis that no operation
  of the evaluator itself raises (`"error" \notin Faults`), which is the instance of
  `eval_transport`: a failing `close` may leave the other target open.
- `EvaluateImplementsLedger`, `Spec => ImplementsLedger`. The refinement mapping reads the
  verdict on a case off the decided rows of the journal. `JournalUnsupported` and
  `JournalCompleted` map to the ledger's next judgement, `Publish` to its publication,
  every other step to a stutter, since it adds no decided row. That the judgement is the
  next one needs layer 10; that the report published is the ledger's needs layers 4, 8
  and 11.

The assumptions are the named ones in `EvalRun`: `SelectedAssumption` (ids are
distinct), `CheckpointAssumption`, `ObservationAssumption`,
`SpecificationAssumption`, `FaultAssumption`, `DocumentAssumption` (a file that does not
exist is none of the documents). TLC evaluates them in `eval_run`.

The argument. `TypeOK` is not inductive: that a log row has an observation needs
that the case was executed before, which needs that the control point and the
current case fit together, which needs to know where `persist` returns to.
`EvalRunInductive` therefore builds the invariant in layers, each inductive
relative to those before it. `At` is the control point with `persist` calls taken
out, which is what lets every layer ignore them; `Live` says that nothing has failed
yet, which is when memory and files must agree.

| Layer | Says | Is needed because |
|---|---|---|
| 1 `ControlInv` | `persist` returns to its call site; an error is recorded while unwinding | everything below speaks of `At` |
| 2 `PositionInv` | `current` is `Selected[position]` | rows carry the current case |
| 3 `ObservedInv` | what is logged has been observed | the type of the log rows |
| 4 `TallyInv` | one outcome per decided case, the newest the current case's | the type of the `case_completed` row, the report's length |
| 5 `TypeOK` | types | |
| 6 `BackingInv` | the rows behind a comparison are logged before it and back it in memory, in the journal and in the documents | `PassesAreBacked` |
| 7 `HistoryInv` | the state file is not ahead; after the report only its own two steps remain | `HistoryKept` |
| 8 `QueryInv` | executions counted are rows logged, but for the one about to be | the report's `oracle_queries` |
| 9 `TargetInv` | open in the loop, closed before the report | the report follows closing |
| 10 `JournalInv` | one decided row per position up to the current one | each case has one outcome, hence not both kinds |
| 11 `MemoryInv` | memory and journal hold the same outcomes, but for the one about to be written | the report, which is written from memory, agrees with the journal |
| 12 `ReportComplete` | | `Publish` establishes it from 4 and 8 to 11; by 7 no later step disturbs it |
| 13 `TailInv` | the last journal row is one that the next may follow, at each control point | `JournalFollowsProtocol` is about neighbours; a step looks only at the last row |
| 14 `StateInv` | the state file names the current case; when it says completed or failed, so does the journal | `ActiveCaseIdentified`, and the status half of `StateFileHonest` |
| 15 `RowsInv`, `DumpInv` | log rows are of cases up to this position and hold what memory holds; the last `persist` writes everything | the other half: after a completed run the raw dumps are all that was observed |
| 16 `LagInv` | how far the partial result is behind, by position modulo the interval and by control point | `PartialLagBounded`: the bound shrinks at a checkpoint and grows by one per case |

Each layer has a lemma or step that `Init` establishes it, lemmas that the steps of a
case, of the frame, of `persist` and of a fault preserve it, and a temporal statement
that combines them.

### The reference pipeline

`ReferencePipelineProofs` holds for all profiles and tools, and for any number of commands
out of order, faults and edits. The assumptions are `PipelineAssumption` and
`NothingAssumption` (no artifact is the value that stands for none).

- `TypeCorrect`, `Spec => []TypeOK`. Its strengthening `Typed` adds `JobInv`: a command
  past its first step still has the artifact it works on. That is what makes the types
  inductive, as a step in the middle of a command reads a file without looking whether
  it is there.
- `LockIsCalibrated`, `Spec => []MaterializedIsCalibrated`. The invariant
  `CalibrationsHonest` says of every calibration on disk that it names the artifacts it was
  observed on; it rests on `JobInv`, by which nothing replaces them between the trials
  and the taking of the hashes.
- `AcceptedTreeIsWhole`, `Spec => []ValidTreeIsWhole`, from `DigestOfWhole`: the
  manifest in the tree is absent or that of the whole.
- `FollowingIsCoherent`, `Spec => []FollowedLockIsCoherent`. While nothing failed and
  nothing ran unasked (`Clean`), `Coherent` holds: `Chain`, a derived artifact is there
  only with what it is derived from; `Ordered`, a command runs only while nothing was
  derived from what it writes, which is the order of preflight's checks; `Derived`,
  outside the command that writes it an artifact is whole and from the image. No part
  is inductive without the others. TLC checks `Clean => Coherent` on the instance of
  `reference` in seconds.

### The Contract corpus

`CorpusProofs` holds for all finite sets of identifiers and files, all corpora, levels
and outcomes. The assumptions are `GraphAssumption`, `ScoringAssumption` and
`MaxCasesAssumption`.

- `ValidationIsExact`, `Spec => []ValidationDecidesCycles`. `SearchInv` has two parts
  while the search runs. `StackInv`: nodes on the stack are not done and occur once, each
  is a prerequisite of the one below, and what a node needs is done, left, or next on the
  stack. `VisitedInv`: what is done needs only what is done, and has no cycle. A node
  that returns needs only what is done while nothing done needs it, so `VisitedInv` goes on;
  a dependency on the stack closes a cycle. No induction over the graph is needed, since
  acyclicity is stated as "every non-empty set has a member that needs none of it".
- `SortIsTotal`, `Spec => []TopologyIsOrdered`. `KahnInv`: the queue holds exactly the
  Contracts that are not placed and miss nothing, each once, and the indegree of a
  Contract counts what it misses. Taking the head frees just those that missed nothing
  else. If the queue is empty before all are placed, the rest has, by acyclicity, a member
  that needs none of the rest, and that one would be in the queue; so `graph build` never
  raises on an accepted corpus. `WriteInv` says which outputs are there at each point.
- `QueriesAreCoherent`, `Spec => []QueriesAgree`. `Reach` is a recursive function.
  `ReachIsLeast` shows that it returns the least closed set around its start: the least
  closed set solves the equation, and by induction on how many identifiers are missing
  nothing else does. From there the arguments are about sets: were B not unlocked by A, the
  Contracts neither A nor unlocked by A would be closed under prerequisites and hold all
  that B needs; of all that need A, one would need none of those.
- `PerfectScoresAreComplete`, `Spec => []PerfectMeansComplete`; depth needs that the
  threshold is at most 1, which `ScoringAssumption` states.
- `FrontierIsNeverDry`, `Spec => []FrontierNeverDry`: the closure of a workload has all
  that its members need (`WorkloadFacts`), so what has not passed of it has a member that
  waits for none of the rest. It uses that scores are of a corpus whose workloads name
  known Contracts (`SortInv`: otherwise the matrix would have raised).
- `DepthIsMonotone`, `Spec => DepthFollowsCases`. `OneMoreCase` says what one case makes of
  `Evaluated` and `Passed`. A Contract that passes its first case counts on both sides
  of the observed fraction, which does not lower it since the threshold is at most 1.
- `CorpusIsTyped`, `Spec => []TypeOK`.

### The full self-test

`FullSelftestProofs` holds for every corpus, assignment of cases to shards, number of
shards and workers, and set of options. The assumptions are `PoolAssumption`,
`CorpusAssumption` (no case id twice, which `validate_dataset` refuses; a case is in one of
the shards) and `OptionAssumption`.

- `MergeAfterPool`, `NoShardIsHidden`: `[]MergedAfterThePool`, `[]NoShardHidden`, from
  `PoolInv`: what was yielded has finished and is either taken or an error; after a
  collection that did not time out everything was yielded; nothing is reported before
  every future has finished.
- `ReportIsOfFutures`, `[]ReportMatchesFutures`: `MergeInv` says that the merged document
  is always that of the files taken, in the order of their shards.
- `SelftestTypeCorrect`, `[]TypeOK`.
- `PassMeansCovered`, `[]PassCoversCorpus`: a self-test that passed covers what one
  unsharded evaluation would select, each case once. `DocInv` says that a returned shard's
  document reports its selection, each case once (`JudgedReports`). The rest is about
  `select_cases`: `SelectionFacts` (a shard selects those of the base selection that hash to
  it, each once, or as many as the limit allows), `RepresentativesFacts` (one case of each Contract, the least in the sort's
  order), `AscendingFacts` and `FlattenFacts` for merging.

### The serial session

`SerialSessionProofs` holds for any number of cases, restarts, diagnostics and forged
records (`CasesAssumption`).

- `NoVmIsOrphaned`, `[]NoOrphanVm`, from `OwnerInv`: a VM that runs is owned by a target
  that will stop it, and a closed target owns none but one that was killed and was not gone
  five seconds later, when `stop` raises.
- `TypeCorrect`, `[]TypeOK`; the strengthening says of each fragment in a buffer which
  part of which record it is.
- `CasesAreAskedInOrder`, `[]AskedInOrder`, from `OrderInv`, which counts requests and
  answers.
- `OneRequestIsInFlight`, `[]OneRequestAtATime`, from `RequestInv`: while `trusted`, and while
  the host waits, its one request is unread, being answered or answered, and whatever part
  of a result is anywhere on its way to the host is of that request. At the points where the
  host is about to ask there is none: what was forged before is lost with the connection.
  This is why requests need no number, as long as the guest answers in turn; after the first
  result out of turn (`CandidateForges`, `TrustFacts`) nothing of the kind is claimed, and
  TLC shows that it is false.
- `SessionImplementsTarget`, `Spec => ImplementsTarget`: the step that decodes a record
  maps to `Return`, of the case that was asked while `trusted`; a deadline, a record that
  does not decode and the end of a boot that was given up to `Fail`; a forged result to
  `AnswerOutOfTurn` if it is the first that a waiting host gets, and every other step of the
  guest to a stutter.

### The public dataset

`DatasetStoreProofs` holds for any requests and any number of processes, versions, tasks
and crashes (`StoreAssumption`). Two of its theorems have a hypothesis on a constant, that no
Contract is edited during a build (`~EditWhileBuilding`), as in the instance of `dataset`.

- `StoreTypeCorrect`, `[]TypeOK`; `Located` says what a process past a point of its task
  has in hand.
- `AcceptedCorpusIsConsistent`, `[]AcceptedIsConsistent`, if no Contract is edited during a
  build. `BuildInv`: what a build has in
  hand is of the Contracts on disk, and the manifest's two hashes are of one version.
  `ReadInv`: an evaluation that nobody disturbed reads one file throughout.
- `ManifestIsOfItsCases`, `[]ManifestDescribesItsCases`, if no Contract is edited during a
  build. `PairInv`: a build that nobody crossed has the file it hashes in hand; a manifest
  that is not mixed has the counts of the cases it has the hash of (`ManifestFits`); and when
  no build is between its writes, nothing is mixed and nobody crashed, these are the cases on
  disk (`ManifestCurrent`).
- `RefusalHasCause`, `Spec => RefusedForCause`, without a hypothesis. `FirstVersion`: until
  the first edit only the first version is anywhere; `PairInv` gives the rest.

### Induction, and the shared lemmas

The library's induction theorems take an operator as a parameter, which the installed
provers cannot instantiate. `DataLemmas` has the principle with a set in its place:
`SetInduction`, a set that holds 0 and with n also n + 1 holds all of `Nat`. It is proved
from finite sets alone: were m missing, adding one would map the members below m one to
one into fewer. From it follow `MinFacts` (a set of numbers has a least), `AscendingExists`
and `AscendingFacts` (a finite set of numbers has one ascending enumeration, of its
cardinality), `FlattenFacts` (what the fold behind `FlattenSeq` returns) and, in
`CorpusProofs`, `ReachIsLeast` and `GreatestDepth`. `SetOfSeq` to `SetOfAscending` say what
appending, taking the tail and concatenating do to a sequence as a set.

### What is only model-checked

Liveness (`EndsUnlessProbeHangs`, `FailureReported`, `Finishes`, `Closes`, `FollowingEnds`): the proof
system does not reason about fairness and `ENABLED`. The five counterexamples of section 3
are TLC's as well. Every other property of a passing run is a theorem above.

## 5. Plan

Done: all modules of section 2, with a theorem for each invariant and each action
property of a passing run.

Next, in this order:

1. The hypothesis of `TargetsAreReleased`: what can be said of the targets when closing
   one raises (hazard at `oracle.py:590`).
2. What a reader may conclude from a journal whose last row is torn (hazard at
   `oracle.py:203`), as an abstraction of `Ledger`.
3. Safety halves of the liveness properties that can be stated without fairness, such as a
   measure that every step of `EvalRun` other than a fault decreases.

## 6. Not modelled, and why

- Contents: probe results, normalisers, comparators beyond equality, the Contracts'
  fields, case generation. They are data to the properties here.
- Geometric means in `scoring.py`: real arithmetic.
- QMP hotplug and `power_cut` (`qemu.py`): nothing under `src/` calls them.
- A journal row torn by a crash in the middle of a write: nothing in the repository
  reads a journal back. Closing a target may raise and leave the other one open;
  `TargetsReleased` is therefore stated for failing executions only.
- Evaluations after an edit of the Contracts in a process that has cached the old
  ones: `AcceptedIsConsistent` excludes them by its premise, since the cache is not
  among the things that are verified.
- Atomic replacement (`util.py`): between its system calls nothing is visible under the
  final name, and what a crash between them leaves is the file system's promise.
- The trajectory recorder: one recorder rewrites its own file after each event. Two of one
  file lose events; nothing in the repository opens one twice.
- Failure minimisation: a sequential loop around a predicate that it is given.
- Calibration's trials one by one, the reproducibility report, `doctor`: they
  read artifacts and count.
- Tracing, command line, probe sources and tools: input and output without state.

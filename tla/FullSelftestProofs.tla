------------------------- MODULE FullSelftestProofs -------------------------
(***************************************************************************)
(* What holds of the full self-test for any corpus, number of shards and   *)
(* workers, and any verdict, hang and rebuild.                             *)
(***************************************************************************)
EXTENDS FullSelftest, DataLemmas

USE DEF poolVars, mainVars

-----------------------------------------------------------------------------
(* The pool and the collector.                                             *)

PoolInv ==
    /\ shard \in [Shard -> {"queued", "starting", "running", "hung"} \cup Finished]
    /\ document = [i \in Shard |-> document[i]]
    /\ pc \in {"collect", "drain", "report", "validate", "done"}
    /\ yielded \subseteq Shard /\ paths \subseteq yielded /\ errors \subseteq Shard
    /\ timedOut \in BOOLEAN /\ passed \in BOOLEAN
    /\ \A i \in yielded : shard[i] \in Finished /\ i \in paths \cup errors
    /\ \A i \in paths : shard[i] = "returned" /\ i \notin errors
    /\ \A i \in errors : shard[i] # "returned" \/ timedOut
    /\ ~timedOut => errors \subseteq yielded
    /\ pc = "collect" => ~timedOut
    /\ pc # "collect" => yielded = Shard \/ timedOut
    /\ pc \in {"report", "validate", "done"} => \A i \in Shard : shard[i] \in Finished
    /\ passed => pc = "done" /\ errors = {} /\ ~timedOut

LEMMA InitPool == Init => PoolInv
BY DEF Init, PoolInv, Finished

\* A worker leaves what has finished alone, and so does the environment.
LEMMA WorkerMoves ==
    ASSUME PoolInv, NEW i \in Shard, Worker(i) \/ Hang(i) \/ Overrun(i)
    PROVE  /\ shard' \in [Shard -> {"queued", "starting", "running", "hung"} \cup Finished]
           /\ document' = [j \in Shard |-> document'[j]]
           /\ \A j \in Shard : shard[j] \in Finished =>
                shard'[j] = shard[j] /\ document'[j] = document[j]
           /\ (\A j \in Shard : shard[j] \in Finished) => UNCHANGED document
           /\ UNCHANGED mainVars
<1> USE DEF PoolInv, Finished
<1>1. CASE StartShard(i)
  BY <1>1 DEF StartShard
<1>2. CASE LoadCorpus(i)
  BY <1>2 DEF LoadCorpus
<1>3. CASE ReturnResult(i)
  BY <1>3 DEF ReturnResult
<1>4. CASE RaiseError(i)
  BY <1>4 DEF RaiseError
<1>5. CASE Hang(i)
  BY <1>5 DEF Hang
<1>6. CASE Overrun(i)
  BY <1>6 DEF Overrun
<1> QED BY <1>1, <1>2, <1>3, <1>4, <1>5, <1>6 DEF Worker

LEMMA StepPool == ASSUME PoolInv, [Next]_vars PROVE PoolInv'
<1>1. ASSUME NEW i \in Shard, Worker(i) \/ Hang(i) \/ Overrun(i)
      PROVE  PoolInv'
  <2>1. /\ shard' \in [Shard -> {"queued", "starting", "running", "hung"} \cup Finished]
        /\ document' = [j \in Shard |-> document'[j]]
        /\ \A j \in Shard : shard[j] \in Finished => shard'[j] = shard[j]
        /\ UNCHANGED mainVars
    BY <1>1, WorkerMoves
  <2>2. \A j \in errors : shard'[j] # "returned" \/ timedOut
    <3> SUFFICES ASSUME NEW j \in errors, ~timedOut, shard'[j] = "returned" PROVE FALSE
      OBVIOUS
    <3>1. j \in yielded
      BY DEF PoolInv
    <3> QED BY <2>1, <3>1 DEF PoolInv, Finished
  <2> QED BY <2>1, <2>2 DEF PoolInv, Finished
<1>2. CASE Main
  <2> USE DEF PoolInv, Finished
  <2>1. ASSUME NEW i \in Shard, Collect(i) PROVE PoolInv'
    <3>1. CASE shard[i] = "returned"
      BY <2>1, <3>1 DEF Collect
    <3>2. CASE shard[i] # "returned"
      BY <2>1, <3>2 DEF Collect
    <3> QED BY <3>1, <3>2
  <2>2. CASE CollectedAll
    BY <2>2 DEF CollectedAll
  <2>3. CASE Deadline
    <3>1. /\ pc = "collect" /\ pc' = "drain" /\ timedOut' = TRUE
          /\ UNCHANGED <<shard, document, yielded, paths, passed>>
      BY <2>3 DEF Deadline
    <3>2. errors' = errors \cup {i \in Shard : shard[i] \notin Finished}
      BY <2>3 DEF Deadline
    <3>3. errors' \subseteq Shard /\ \A i \in yielded : i \in errors' => i \in errors
      BY <3>2
    <3>4. \A i \in yielded : i \in paths \cup errors'
      BY <3>2
    <3>5. passed' = FALSE
      BY <3>1
    <3>6. \A i \in paths : shard[i] = "returned" /\ i \notin errors'
      BY <3>3
    <3> HIDE DEF Finished
    <3> QED BY <3>1, <3>3, <3>4, <3>5, <3>6
  <2>4. CASE Drain
    BY <2>4 DEF Drain
  <2>5. CASE ReportNothing \/ Merge
    <3>1. pc = "report" /\ pc' \in {"validate", "done"} /\ passed' = FALSE
      BY <2>5 DEF ReportNothing, Merge
    <3>2. UNCHANGED <<poolVars, yielded, paths, errors, timedOut>>
      BY <2>5 DEF ReportNothing, Merge
    <3> QED BY <3>1, <3>2
  <2>6. CASE Judge
    <3>1. passed' \in BOOLEAN /\ (passed' => errors = {} /\ ~timedOut)
      BY <2>6, Zenon DEF Judge
    <3> QED BY <2>6, <3>1 DEF Judge
  <2> QED BY <1>2, <2>1, <2>2, <2>3, <2>4, <2>5, <2>6 DEF Main
<1>3. CASE Done \/ UNCHANGED vars
  BY <1>3 DEF Done, vars, PoolInv
<1> QED BY <1>1, <1>2, <1>3 DEF Next, Environment

\* The result files are read when nobody writes them any more
\* (MergedAfterThePool): leaving the with statement waits for every shard, the
\* ones submitted after a timeout included.
THEOREM MergeAfterPool == Spec => []MergedAfterThePool
<1>1. PoolInv => MergedAfterThePool
  BY DEF PoolInv, MergedAfterThePool
<1> QED BY <1>1, InitPool, StepPool, PTL DEF Spec

\* A self-test that has ended names every shard that is not in its report, or
\* says that it timed out, and then it has not passed (NoShardHidden).
THEOREM NoShardIsHidden == Spec => []NoShardHidden
<1>1. PoolInv => NoShardHidden
  BY DEF PoolInv, NoShardHidden
<1> QED BY <1>1, InitPool, StepPool, PTL DEF Spec

-----------------------------------------------------------------------------
(* The merged report.                                                      *)

\* The documents whose files were taken, in the order of their shards.
Taken == [k \in 1 .. Cardinality(paths) |-> document[Ascending(paths)[k]]]

MergeInv ==
    /\ pc \in {"collect", "drain", "report"} => merged = NoDocument
    /\ merged # NoDocument => merged = MergeDocuments(Taken)
    /\ pc = "validate" \/ passed => merged = MergeDocuments(Taken)
    /\ passed => Valid(merged) /\ \A k \in DOMAIN merged.cases : merged.cases[k].passed

LEMMA PathsFinite == PoolInv => paths \subseteq Nat /\ IsFiniteSet(paths)
<1> SUFFICES ASSUME PoolInv PROVE paths \subseteq Nat /\ IsFiniteSet(paths)
  OBVIOUS
<1>1. IsFiniteSet(Shard) /\ Shard \subseteq Nat
  BY PoolAssumption, FS_Interval DEF Shard
<1>2. paths \subseteq Shard
  BY DEF PoolInv
<1> QED BY <1>1, <1>2, FS_Subset

LEMMA InitMerge == Init => MergeInv
BY DEF Init, MergeInv

LEMMA StepMerge == ASSUME PoolInv, MergeInv, [Next]_vars PROVE MergeInv'
<1>1. ASSUME NEW i \in Shard, Worker(i) \/ Hang(i) \/ Overrun(i)
      PROVE  MergeInv'
  <2>1. UNCHANGED mainVars
    BY <1>1, WorkerMoves
  <2>2. CASE pc \in {"collect", "drain"}
    BY <2>1, <2>2 DEF MergeInv, PoolInv
  <2>3. CASE pc \notin {"collect", "drain"}
    <3>1. UNCHANGED document
      BY <1>1, <2>3, WorkerMoves DEF PoolInv
    <3>2. Taken' = Taken
      BY <2>1, <3>1 DEF Taken
    <3> QED BY <2>1, <3>2 DEF MergeInv, Valid
  <2> QED BY <2>2, <2>3
<1>2. CASE Main
  <2>1. CASE (\E i \in Shard : Collect(i)) \/ CollectedAll \/ Deadline \/ Drain
    <3>1. /\ pc \in {"collect", "drain"} /\ pc' \in {"collect", "drain", "report"}
          /\ UNCHANGED <<merged, passed>>
      BY <2>1 DEF Collect, CollectedAll, Deadline, Drain
    <3> QED BY <3>1 DEF MergeInv, PoolInv
  <2>2. CASE ReportNothing
    <3>1. pc = "report" /\ merged' = merged /\ passed' = FALSE /\ pc' = "done"
      BY <2>2 DEF ReportNothing
    <3> QED BY <3>1 DEF MergeInv
  <2>3. CASE Merge
    <3>1. pc' = "validate" /\ UNCHANGED <<paths, document, passed>> /\ pc = "report"
      BY <2>3 DEF Merge
    <3>2. DOMAIN Ascending(paths) = 1 .. Cardinality(paths)
      BY PathsFinite, AscendingFacts
    <3>3. merged' = MergeDocuments(Taken)
      BY <2>3, <3>2 DEF Merge, Taken
    <3>4. Taken' = Taken
      BY <3>1 DEF Taken
    <3> QED BY <3>1, <3>3, <3>4 DEF MergeInv, PoolInv
  <2>4. CASE Judge
    <3>1. /\ pc = "validate" /\ pc' = "done" /\ UNCHANGED <<paths, document, merged>>
          /\ passed' = (/\ Valid(merged)
                        /\ errors = {} /\ ~timedOut
                        /\ \A k \in DOMAIN merged.cases : merged.cases[k].passed)
      BY <2>4 DEF Judge
    <3>2. Taken' = Taken /\ (Valid(merged))' = Valid(merged)
      BY <3>1 DEF Taken, Valid
    <3>3. passed' => Valid(merged) /\ \A k \in DOMAIN merged.cases : merged.cases[k].passed
      BY <3>1, Zenon
    <3> QED BY <3>1, <3>2, <3>3 DEF MergeInv
  <2> QED BY <1>2, <2>1, <2>2, <2>3, <2>4 DEF Main
<1>3. CASE Done \/ UNCHANGED vars
  <2>1. UNCHANGED <<pc, paths, document, merged, passed>>
    BY <1>3 DEF Done, vars
  <2>2. Taken' = Taken
    BY <2>1 DEF Taken
  <2> QED BY <2>1, <2>2 DEF MergeInv, Valid
<1> QED BY <1>1, <1>2, <1>3 DEF Next, Environment

\* The report says of each shard what became of its future, and holds the
\* documents of those that returned in time, in the order of their shards,
\* whatever the order of completion (ReportMatchesFutures).
THEOREM ReportIsOfFutures == Spec => []ReportMatchesFutures
<1>1. ASSUME PoolInv, MergeInv, merged # NoDocument
      PROVE  merged.cases = FlattenSeq([k \in 1 .. Cardinality(paths) |->
                                document[Ascending(paths)[k]].cases])
  <2>1. merged = MergeDocuments(Taken) /\ DOMAIN Taken = 1 .. Cardinality(paths)
    BY <1>1 DEF MergeInv, Taken
  <2>2. merged.cases = FlattenSeq([k \in 1 .. Cardinality(paths) |-> Taken[k].cases])
    BY <2>1 DEF MergeDocuments
  <2>3. [k \in 1 .. Cardinality(paths) |-> Taken[k].cases]
          = [k \in 1 .. Cardinality(paths) |-> document[Ascending(paths)[k]].cases]
    BY DEF Taken
  <2> QED BY <2>2, <2>3
<1>2. PoolInv /\ MergeInv => ReportMatchesFutures
  BY <1>1 DEF PoolInv, ReportMatchesFutures
<1> QED BY <1>2, InitPool, StepPool, InitMerge, StepMerge, PTL DEF Spec

-----------------------------------------------------------------------------
(* What a shard selects and reports.                                       *)

Case == [case_id : Nat, contract : Nat, clean : BOOLEAN]

\* No two positions have the same case id.
Unique(cases) ==
    \A k, l \in DOMAIN cases : cases[k].case_id = cases[l].case_id => k = l

LEMMA SubsequenceFacts ==
    ASSUME NEW X, NEW seq \in Seq(X), NEW P, P \subseteq DOMAIN seq
    PROVE  /\ Subsequence(seq, P) \in Seq(X)
           /\ Cardinality(P) \in Nat
           /\ DOMAIN Subsequence(seq, P) = 1 .. Cardinality(P)
           /\ Len(Subsequence(seq, P)) = Cardinality(P)
           /\ \E at \in [1 .. Cardinality(P) -> P] :
                /\ \A k, l \in 1 .. Cardinality(P) : at[k] = at[l] => k = l
                /\ \A p \in P : \E k \in 1 .. Cardinality(P) : at[k] = p
                /\ \A k \in 1 .. Cardinality(P) : Subsequence(seq, P)[k] = seq[at[k]]
<1> DEFINE N == Cardinality(P)
           at == Ascending(P)
<1>1. /\ IsFiniteSet(DOMAIN seq) /\ DOMAIN seq \subseteq Nat
      /\ DOMAIN seq = 1 .. Len(seq)
  <2>1. DOMAIN seq = 1 .. Len(seq) /\ Len(seq) \in Nat
    BY LenProperties
  <2>2. IsFiniteSet(1 .. Len(seq))
    BY <2>1, FS_Interval
  <2> QED BY <2>1, <2>2
<1>2. IsFiniteSet(P) /\ P \subseteq Nat
  BY <1>1, FS_Subset
<1>3. /\ N \in Nat /\ at \in [1 .. N -> P]
      /\ \A k, l \in 1 .. N : at[k] = at[l] => k = l
      /\ \A p \in P : \E k \in 1 .. N : at[k] = p
  BY <1>2, AscendingFacts
<1>4. Subsequence(seq, P) = [k \in 1 .. N |-> seq[at[k]]]
  BY <1>3 DEF Subsequence
<1> HIDE DEF N, at
<1>5. \A k \in 1 .. N : seq[at[k]] \in X
  <2> TAKE k \in 1 .. N
  <2>1. at[k] \in 1 .. Len(seq)
    BY <1>1, <1>3
  <2> QED BY <2>1, ElementOfSeq
<1>6. Subsequence(seq, P) \in Seq(X)
  BY <1>3, <1>4, <1>5, SeqDef
<1>7. Len(Subsequence(seq, P)) = N
  BY <1>3, <1>4, <1>6
<1>8. \A k \in 1 .. N : Subsequence(seq, P)[k] = seq[at[k]]
  BY <1>4
<1> QED BY <1>3, <1>4, <1>6, <1>7, <1>8 DEF N

\* The same of a subsequence that has a name.
LEMMA SubsequencePlaces ==
    ASSUME NEW X, NEW seq \in Seq(X), NEW P, P \subseteq DOMAIN seq,
           NEW own, own = Subsequence(seq, P), NEW N, N = Cardinality(P)
    PROVE  \E at \in [1 .. N -> P] :
               /\ \A k, l \in 1 .. N : at[k] = at[l] => k = l
               /\ \A p \in P : \E k \in 1 .. N : at[k] = p
               /\ \A k \in 1 .. N : own[k] = seq[at[k]]
BY SubsequenceFacts

LEMMA FirstFacts ==
    ASSUME NEW X, NEW seq \in Seq(X), NEW n \in (Nat \ {0}) \cup {NoLimit}
    PROVE  /\ First(seq, n) \in Seq(X)
           /\ DOMAIN First(seq, n) \subseteq DOMAIN seq
           /\ \A k \in DOMAIN First(seq, n) : First(seq, n)[k] = seq[k]
           /\ n = NoLimit => First(seq, n) = seq
<1>1. CASE n = NoLimit \/ n >= Len(seq)
  BY <1>1 DEF First
<1>2. CASE ~(n = NoLimit \/ n >= Len(seq))
  <2>1. n \in Nat /\ Len(seq) \in Nat /\ n < Len(seq) /\ First(seq, n) = SubSeq(seq, 1, n)
    BY <1>2, LenProperties DEF First
  <2>2. SubSeq(seq, 1, n) = [k \in 1 .. n |-> seq[k]]
    BY <2>1
  <2>3. \A k \in 1 .. n : k \in 1 .. Len(seq) /\ seq[k] \in X
    <3> TAKE k \in 1 .. n
    <3>1. k \in 1 .. Len(seq)
      BY <2>1
    <3> QED BY <3>1, ElementOfSeq
  <2>4. SubSeq(seq, 1, n) \in Seq(X)
    BY <2>1, <2>2, <2>3, SeqDef
  <2> QED BY <1>2, <2>1, <2>2, <2>3, <2>4, LenProperties
<1> QED BY <1>1, <1>2

\* Of a set of cases with some contract one comes first.
LEMMA LeastExists ==
    ASSUME NEW G, G \subseteq Case, G # {}
    PROVE  \E c \in G : \A d \in G : Precedes(c, d)
<1> DEFINE Ids0(H) == {c.case_id : c \in H}
           U == {c \in G : ~c.clean}
<1>1. ASSUME NEW H, H \subseteq G, H # {}
      PROVE  \E c \in H : \A d \in H : c.case_id <= d.case_id
  <2> DEFINE I == Ids0(H)
  <2>1. I \subseteq Nat /\ I # {}
    BY <1>1 DEF Case
  <2>2. \A d \in H : d.case_id \in I
    OBVIOUS
  <2>3. \A m \in I : \E c \in H : c.case_id = m
    OBVIOUS
  <2> HIDE DEF I
  <2>4. Min(I) \in I /\ \A y \in I : Min(I) <= y
    BY <2>1, MinFacts
  <2> QED BY <2>2, <2>3, <2>4
<1>2. CASE U # {}
  <2>1. PICK c \in U : \A d \in U : c.case_id <= d.case_id
    BY <1>1, <1>2
  <2>2. \A d \in G : d.clean \in BOOLEAN /\ (d \in U <=> ~d.clean)
    BY DEF Case
  <2> QED BY <2>1, <2>2 DEF Precedes
<1>3. CASE U = {}
  <2>1. PICK c \in G : \A d \in G : c.case_id <= d.case_id
    BY <1>1
  <2>2. \A d \in G : d.clean \in BOOLEAN /\ d.clean
    BY <1>3 DEF Case
  <2> QED BY <2>1, <2>2 DEF Precedes
<1> QED BY <1>2, <1>3

\* One case of the corpus for each contract.
LEMMA RepresentativesFacts ==
    /\ Representatives(Corpus) \in Seq(Case)
    /\ Unique(Representatives(Corpus))
    /\ \A k \in DOMAIN Representatives(Corpus) :
         \E j \in DOMAIN Corpus : Representatives(Corpus)[k] = Corpus[j]
<1> DEFINE all == ToSet(Corpus)
           group(k) == {c \in all : c.contract = k}
           contracts == {c.contract : c \in all}
           least(k) == CHOOSE c \in group(k) : \A d \in group(k) : Precedes(c, d)
           sorted == Ascending(contracts)
           N == Cardinality(contracts)
<1>1. Representatives(Corpus) = [i \in DOMAIN sorted |-> least(sorted[i])]
  BY DEF Representatives
<1>2. Corpus \in Seq(Case) /\ DOMAIN Corpus = 1 .. Len(Corpus) /\ Len(Corpus) \in Nat
  BY CorpusAssumption, LenProperties DEF Case
<1>3. all = {Corpus[k] : k \in DOMAIN Corpus}
  BY DEF ToSet
<1>4. all \subseteq Case
  BY <1>2, <1>3, ElementOfSeq
<1>5. contracts \subseteq Nat
  BY <1>4 DEF Case
<1>6. IsFiniteSet(contracts)
  <2> DEFINE f == [k \in 1 .. Len(Corpus) |-> Corpus[k].contract]
  <2>1. f \in Surjection(1 .. Len(Corpus), contracts)
    BY <1>2, <1>3 DEF Surjection
  <2>2. IsFiniteSet(1 .. Len(Corpus))
    BY <1>2, FS_Interval
  <2> HIDE DEF f, contracts
  <2> QED BY <2>1, <2>2, FS_Surjection
<1>7. /\ N \in Nat /\ sorted \in [1 .. N -> contracts]
      /\ \A k, l \in 1 .. N : sorted[k] = sorted[l] => k = l
  BY <1>5, <1>6, AscendingFacts
<1>8. \A k \in contracts : least(k) \in group(k)
  <2> TAKE k \in contracts
  <2>1. group(k) # {} /\ group(k) \subseteq Case
    BY <1>4
  <2> HIDE DEF group
  <2>2. \E c \in group(k) : \A d \in group(k) : Precedes(c, d)
    BY <2>1, LeastExists
  <2> QED BY <2>2
<1> DEFINE R == Representatives(Corpus)
<1>9. R = [i \in 1 .. N |-> least(sorted[i])]
  BY <1>1, <1>7
<1>10. \A k \in 1 .. N : R[k] \in all /\ R[k].contract = sorted[k]
  <2> TAKE k \in 1 .. N
  <2>1. sorted[k] \in contracts
    BY <1>7
  <2>2. R[k] = least(sorted[k])
    BY <1>9
  <2>3. R[k] \in group(sorted[k])
    <3> HIDE DEF least, group, contracts, sorted, N, R
    <3> QED BY <1>8, <2>1, <2>2
  <2> QED BY <2>3
<1> HIDE DEF all, R, least, sorted, contracts, N
<1>11. R \in Seq(Case) /\ DOMAIN R = 1 .. N
  BY <1>4, <1>7, <1>9, <1>10, SeqDef
<1>12. \A k \in 1 .. N : \E j \in DOMAIN Corpus : R[k] = Corpus[j]
  BY <1>3, <1>10
<1>13. Unique(R)
  <2> SUFFICES ASSUME NEW k \in 1 .. N, NEW l \in 1 .. N, R[k].case_id = R[l].case_id
               PROVE  k = l
    BY <1>11 DEF Unique
  <2>1. PICK i \in DOMAIN Corpus : R[k] = Corpus[i]
    BY <1>12
  <2>2. PICK j \in DOMAIN Corpus : R[l] = Corpus[j]
    BY <1>12
  <2>3. R[k] = R[l]
    BY <2>1, <2>2, CorpusAssumption
  <2> QED BY <1>7, <1>10, <2>3
<1> QED BY <1>11, <1>12, <1>13 DEF R

\* Of what an unsharded evaluation would select.
Base == IF option.onePerContract THEN Representatives(Corpus) ELSE Corpus

LEMMA BaseFacts ==
    /\ Base \in Seq(Case)
    /\ Unique(Base)
    /\ \A k \in DOMAIN Base : ShardOf(Base[k].case_id, ShardCount) \in Shard
<1>1. CASE option.onePerContract
  <2>1. Base = Representatives(Corpus)
    BY <1>1 DEF Base
  <2> QED BY <2>1, RepresentativesFacts, CorpusAssumption
<1>2. CASE ~option.onePerContract
  <2>1. Base = Corpus
    BY <1>2 DEF Base
  <2> QED BY <2>1, CorpusAssumption DEF Unique, Case
<1> QED BY <1>1, <1>2

\* A shard selects cases of its own, each once, and all of them if there is
\* no limit.
LEMMA SelectionFacts ==
    ASSUME option \in Options, NEW i \in Shard
    PROVE  /\ Selection(i) \in Seq(Case)
           /\ Unique(Selection(i))
           /\ \A k \in DOMAIN Selection(i) :
                /\ ShardOf(Selection(i)[k].case_id, ShardCount) = i
                /\ \E j \in DOMAIN Base : Selection(i)[k] = Base[j]
           /\ option.maxCases = NoLimit =>
                \A j \in DOMAIN Base : ShardOf(Base[j].case_id, ShardCount) = i =>
                    \E k \in DOMAIN Selection(i) : Selection(i)[k] = Base[j]
<1> DEFINE P == {k \in DOMAIN Base : ShardOf(Base[k].case_id, ShardCount) = i}
           own == Subsequence(Base, P)
           N == Cardinality(P)
           chosen == Selection(i)
<1>1. chosen = First(own, option.maxCases)
  <2>1. Selection(i) = SelectCases(Corpus, option.onePerContract, option.maxCases, ShardCount, i)
    BY DEF Selection, Selections
  <2> QED BY <2>1 DEF SelectCases, Base
<1>2. option.maxCases \in (Nat \ {0}) \cup {NoLimit}
  BY OptionAssumption
<1>3. P \subseteq DOMAIN Base /\ Base \in Seq(Case)
  BY BaseFacts
<1>4. P = {k \in DOMAIN Base : ShardOf(Base[k].case_id, ShardCount) = i}
  OBVIOUS
<1>4a. own = Subsequence(Base, P) /\ N = Cardinality(P)
  OBVIOUS
<1> HIDE DEF P, own, N, chosen
<1>5. own \in Seq(Case) /\ DOMAIN own = 1 .. N
  BY <1>3, <1>4a, SubsequenceFacts
<1>6. PICK at \in [1 .. N -> P] :
        /\ \A k, l \in 1 .. N : at[k] = at[l] => k = l
        /\ \A p \in P : \E k \in 1 .. N : at[k] = p
        /\ \A k \in 1 .. N : own[k] = Base[at[k]]
  BY <1>3, <1>4a, SubsequencePlaces
<1>7. /\ chosen \in Seq(Case) /\ DOMAIN chosen \subseteq 1 .. N
      /\ \A k \in DOMAIN chosen : chosen[k] = own[k]
      /\ option.maxCases = NoLimit => chosen = own
  BY <1>1, <1>2, <1>5, FirstFacts
<1>8. \A k \in DOMAIN chosen : /\ k \in 1 .. N /\ at[k] \in P /\ at[k] \in DOMAIN Base
                               /\ chosen[k] = Base[at[k]]
  BY <1>3, <1>6, <1>7
<1>9. Unique(chosen)
  <2> SUFFICES ASSUME NEW k \in DOMAIN chosen, NEW l \in DOMAIN chosen,
                      chosen[k].case_id = chosen[l].case_id
               PROVE  k = l
    BY DEF Unique
  <2>1. at[k] = at[l]
    BY <1>8, BaseFacts DEF Unique
  <2> QED BY <1>6, <1>8, <2>1
<1>10. \A k \in DOMAIN chosen : /\ ShardOf(chosen[k].case_id, ShardCount) = i
                                /\ \E j \in DOMAIN Base : chosen[k] = Base[j]
  BY <1>4, <1>8
<1>11. ASSUME option.maxCases = NoLimit, NEW j \in DOMAIN Base,
              ShardOf(Base[j].case_id, ShardCount) = i
       PROVE  \E k \in DOMAIN chosen : chosen[k] = Base[j]
  <2>1. j \in P
    BY <1>4, <1>11
  <2>2. PICK k \in 1 .. N : at[k] = j
    BY <1>6, <2>1
  <2> QED BY <1>5, <1>6, <1>7, <1>11, <2>2
<1> QED BY <1>7, <1>9, <1>10, <1>11 DEF chosen

\* What a document says of the cases its shard selected: each has a result or
\* is unsupported, not both.
Reports(doc, cases) ==
    /\ doc.cases \in Seq(Result)
    /\ doc.unsupported \in Seq(Nat)
    /\ \A k \in DOMAIN doc.cases :
         \E c \in DOMAIN cases : doc.cases[k].case_id = cases[c].case_id
    /\ \A k \in DOMAIN doc.unsupported :
         \E c \in DOMAIN cases : doc.unsupported[k] = cases[c].case_id
    /\ \A c \in DOMAIN cases :
         \/ \E k \in DOMAIN doc.cases : doc.cases[k].case_id = cases[c].case_id
         \/ \E k \in DOMAIN doc.unsupported : doc.unsupported[k] = cases[c].case_id
    /\ \A k, l \in DOMAIN doc.unsupported : doc.unsupported[k] = doc.unsupported[l] => k = l
    /\ \A k \in DOMAIN doc.cases : \A l \in DOMAIN doc.unsupported :
         doc.cases[k].case_id # doc.unsupported[l]

LEMMA JudgedReports ==
    ASSUME NEW cases \in Seq(Case), Unique(cases), NEW verdict
    PROVE  Reports(Judged(cases, verdict), cases)
<1> DEFINE skipped == {k \in DOMAIN cases : verdict[cases[k].case_id] = "unsupported"}
           kept == DOMAIN cases \ skipped
           run == Subsequence(cases, kept)
           skip == Subsequence(cases, skipped)
           M == Cardinality(kept)
           N == Cardinality(skipped)
           J == Judged(cases, verdict)
<1>1. kept \subseteq DOMAIN cases /\ skipped \subseteq DOMAIN cases
      /\ \A c \in DOMAIN cases : c \in kept \/ c \in skipped
  OBVIOUS
<1>2. \A c \in kept : c \notin skipped
  OBVIOUS
<1>3. /\ J.cases = [k \in DOMAIN run |->
                      [case_id |-> run[k].case_id,
                       passed  |-> verdict[run[k].case_id] = "passed"]]
      /\ J.unsupported = [k \in DOMAIN skip |-> skip[k].case_id]
  BY DEF Judged
<1> HIDE DEF skipped, kept, run, skip, M, N, J
<1>4. run \in Seq(Case) /\ DOMAIN run = 1 .. M /\ M \in Nat
  BY <1>1, SubsequenceFacts DEF run, M
<1>5. PICK at \in [1 .. M -> kept] :
        /\ \A p \in kept : \E k \in 1 .. M : at[k] = p
        /\ \A k \in 1 .. M : run[k] = cases[at[k]]
  BY <1>1, SubsequenceFacts DEF run, M
<1>6. skip \in Seq(Case) /\ DOMAIN skip = 1 .. N /\ N \in Nat
  BY <1>1, SubsequenceFacts DEF skip, N
<1>7. PICK on \in [1 .. N -> skipped] :
        /\ \A k, l \in 1 .. N : on[k] = on[l] => k = l
        /\ \A p \in skipped : \E k \in 1 .. N : on[k] = p
        /\ \A k \in 1 .. N : skip[k] = cases[on[k]]
  BY <1>1, SubsequenceFacts DEF skip, N
<1>8. \A c \in DOMAIN cases : cases[c].case_id \in Nat
  <2> TAKE c \in DOMAIN cases
  <2>1. cases[c] \in Case
    BY LenProperties, ElementOfSeq
  <2> QED BY <2>1 DEF Case
<1>9. /\ DOMAIN J.cases = 1 .. M
      /\ \A k \in 1 .. M : /\ J.cases[k] \in Result
                           /\ at[k] \in kept /\ at[k] \in DOMAIN cases
                           /\ J.cases[k].case_id = cases[at[k]].case_id
  <2>1. DOMAIN J.cases = 1 .. M
    BY <1>3, <1>4
  <2>2. ASSUME NEW k \in 1 .. M
        PROVE  /\ J.cases[k] \in Result
               /\ at[k] \in kept /\ at[k] \in DOMAIN cases
               /\ J.cases[k].case_id = cases[at[k]].case_id
    <3>1. at[k] \in kept /\ at[k] \in DOMAIN cases /\ run[k] = cases[at[k]]
      BY <1>1, <1>5
    <3>2. J.cases[k] = [case_id |-> run[k].case_id,
                        passed  |-> verdict[run[k].case_id] = "passed"]
      BY <1>3, <1>4
    <3> QED BY <1>8, <3>1, <3>2 DEF Result
  <2> QED BY <2>1, <2>2
<1>10. /\ DOMAIN J.unsupported = 1 .. N
       /\ \A k \in 1 .. N : /\ on[k] \in skipped /\ on[k] \in DOMAIN cases
                            /\ J.unsupported[k] = cases[on[k]].case_id
                            /\ J.unsupported[k] \in Nat
  BY <1>1, <1>3, <1>6, <1>7, <1>8
<1>11. J.cases \in Seq(Result) /\ J.unsupported \in Seq(Nat)
  <2>1. J.cases = [k \in 1 .. M |-> J.cases[k]] /\ J.unsupported = [k \in 1 .. N |-> J.unsupported[k]]
    BY <1>3, <1>4, <1>6
  <2>2. J.cases \in [1 .. M -> Result] /\ J.unsupported \in [1 .. N -> Nat]
    <3> DEFINE C == J.cases
               U == J.unsupported
    <3>1. C = [k \in 1 .. M |-> C[k]] /\ U = [k \in 1 .. N |-> U[k]]
      BY <2>1
    <3>2. (\A k \in 1 .. M : C[k] \in Result) /\ \A k \in 1 .. N : U[k] \in Nat
      BY <1>9, <1>10
    <3> HIDE DEF C, U
    <3>3. C \in [1 .. M -> Result] /\ U \in [1 .. N -> Nat]
      BY <3>1, <3>2
    <3> QED BY <3>3 DEF C, U
  <2> QED BY <1>4, <1>6, <2>2, SeqDef
<1>12. \A c, d \in DOMAIN cases : cases[c].case_id = cases[d].case_id => c = d
  BY DEF Unique
<1>13. \A c \in DOMAIN cases :
         \/ \E k \in 1 .. M : J.cases[k].case_id = cases[c].case_id
         \/ \E k \in 1 .. N : J.unsupported[k] = cases[c].case_id
  BY <1>1, <1>5, <1>7, <1>9, <1>10
<1>14. \A k, l \in 1 .. N : J.unsupported[k] = J.unsupported[l] => k = l
  BY <1>7, <1>10, <1>12
<1>15. \A k \in 1 .. M : \A l \in 1 .. N : J.cases[k].case_id # J.unsupported[l]
  BY <1>2, <1>9, <1>10, <1>12
<1> QED
  <2>1. \A k \in 1 .. M : \E c \in DOMAIN cases : J.cases[k].case_id = cases[c].case_id
    BY <1>9
  <2>2. \A k \in 1 .. N : \E c \in DOMAIN cases : J.unsupported[k] = cases[c].case_id
    BY <1>10
  <2>3. Reports(J, cases)
    BY <1>9, <1>10, <1>11, <1>13, <1>14, <1>15, <2>1, <2>2, Zenon DEF Reports
  <2> QED BY <2>3 DEF J

-----------------------------------------------------------------------------
(* The documents.                                                          *)

Document == [cases : Seq(Result), unsupported : Seq(Nat), dataset : Versions \cup {NoDocument}]

DocInv ==
    /\ option \in Options
    /\ overdue \subseteq Shard
    /\ document \in [Shard -> Document]
    /\ \A i \in Shard : shard[i] = "returned" => Reports(document[i], Selection(i))

LEMMA InitDoc == Init => DocInv
<1> SUFFICES ASSUME Init PROVE DocInv
  OBVIOUS
<1>1. <<>> \in Seq(Result) /\ <<>> \in Seq(Nat)
  BY EmptySeq
<1>2. document \in [Shard -> Document]
  BY <1>1 DEF Init, Document
<1> QED BY <1>2 DEF Init, DocInv

LEMMA StepDoc == ASSUME PoolInv, DocInv, [Next]_vars PROVE DocInv'
<1>1. ASSUME NEW i \in Shard, LoadCorpus(i) PROVE DocInv'
  <2>1. PICK version \in Versions : document' = [document EXCEPT ![i].dataset = version]
    BY <1>1 DEF LoadCorpus
  <2>2. document' \in [Shard -> Document] /\ \A j \in Shard \ {i} : document'[j] = document[j]
    BY <2>1 DEF DocInv, Document
  <2>3. shard' = [shard EXCEPT ![i] = "running"] /\ UNCHANGED <<option, overdue>>
    BY <1>1 DEF LoadCorpus
  <2> QED BY <2>2, <2>3 DEF DocInv, PoolInv, Selection
<1>2. ASSUME NEW i \in Shard, ReturnResult(i) PROVE DocInv'
  <2>1. PICK verdict :
          document' = [document EXCEPT ![i].cases = Judged(Selection(i), verdict).cases,
                                       ![i].unsupported = Judged(Selection(i), verdict).unsupported]
    BY <1>2 DEF ReturnResult
  <2> DEFINE J == Judged(Selection(i), verdict)
  <2>2. Reports(J, Selection(i))
    BY SelectionFacts, JudgedReports DEF DocInv
  <2>3. document' = [document EXCEPT ![i].cases = J.cases, ![i].unsupported = J.unsupported]
    BY <2>1
  <2> HIDE DEF J
  <2>4. J.cases \in Seq(Result) /\ J.unsupported \in Seq(Nat)
    BY <2>2 DEF Reports
  <2>5. /\ document' \in [Shard -> Document]
        /\ \A j \in Shard \ {i} : document'[j] = document[j]
        /\ document'[i].cases = J.cases /\ document'[i].unsupported = J.unsupported
    BY <2>3, <2>4 DEF DocInv, Document
  <2>6. Reports(document'[i], Selection(i))
    BY <2>2, <2>5 DEF Reports
  <2>7. shard' = [shard EXCEPT ![i] = "returned"] /\ UNCHANGED <<option, overdue>>
    BY <1>2 DEF ReturnResult
  <2>8. \A j \in Shard : (Selection(j))' = Selection(j)
    BY <2>7 DEF Selection
  <2> QED BY <2>5, <2>6, <2>7, <2>8 DEF DocInv, PoolInv
<1>3. ASSUME NEW i \in Shard, StartShard(i) \/ RaiseError(i) \/ Hang(i) \/ Overrun(i)
      PROVE  DocInv'
  <2>1. /\ UNCHANGED <<option, document>> /\ overdue' \subseteq Shard
        /\ \A j \in Shard : shard'[j] = "returned" => shard[j] = "returned"
    BY <1>3 DEF DocInv, PoolInv, StartShard, RaiseError, Hang, Overrun
  <2> QED BY <2>1 DEF DocInv, Selection
<1>4. CASE Main \/ Done \/ UNCHANGED vars
  <2>1. UNCHANGED <<option, shard, document, overdue>>
    BY <1>4 DEF Main, Collect, CollectedAll, Deadline, Drain, ReportNothing, Merge, Judge,
                Done, vars
  <2> QED BY <2>1 DEF DocInv, Selection
<1> QED BY <1>1, <1>2, <1>3, <1>4 DEF Next, Environment, Worker

\* The documents that are merged, their results and their unsupported cases.
LEMMA TakenFacts ==
    ASSUME PoolInv, DocInv, MergeInv, merged # NoDocument \/ passed,
           NEW N, N = Cardinality(paths),
           NEW order, order = Ascending(paths),
           NEW C, C = [k \in 1 .. N |-> document[order[k]].cases],
           NEW U, U = [k \in 1 .. N |-> document[order[k]].unsupported]
    PROVE  /\ N \in Nat /\ order \in [1 .. N -> paths]
           /\ \A k, l \in 1 .. N : order[k] = order[l] => k = l
           /\ \A i \in paths : \E k \in 1 .. N : order[k] = i
           /\ C \in Seq(Seq(Result)) /\ U \in Seq(Seq(Nat))
           /\ merged.cases = FlattenSeq(C)
           /\ merged.unsupported = FlattenSeq(U)
           /\ merged.complete \in BOOLEAN
<1>1. /\ N \in Nat /\ order \in [1 .. N -> paths]
      /\ \A k, l \in 1 .. N : order[k] = order[l] => k = l
      /\ \A i \in paths : \E k \in 1 .. N : order[k] = i
  BY PathsFinite, AscendingFacts
<1>2. \A k \in 1 .. N : order[k] \in Shard
  BY <1>1 DEF PoolInv
<1>3. \A k \in 1 .. N : /\ document[order[k]].cases \in Seq(Result)
                        /\ document[order[k]].unsupported \in Seq(Nat)
  BY <1>2 DEF DocInv, Document
<1>4. C \in Seq(Seq(Result)) /\ U \in Seq(Seq(Nat))
  <2>1. C \in [1 .. N -> Seq(Result)] /\ U \in [1 .. N -> Seq(Nat)]
    BY <1>3
  <2> QED BY <1>1, <2>1, FunctionIsSeq
<1>5. Taken = [k \in 1 .. N |-> document[order[k]]]
  BY DEF Taken
<1>6. merged = MergeDocuments(Taken)
  BY DEF MergeInv
<1>7. merged.cases = FlattenSeq(C) /\ merged.unsupported = FlattenSeq(U) /\ merged.complete = TRUE
  <2>1. DOMAIN Taken = 1 .. N /\ \A k \in 1 .. N : Taken[k] = document[order[k]]
    BY <1>5
  <2>2. /\ [k \in DOMAIN Taken |-> Taken[k].cases] = C
        /\ [k \in DOMAIN Taken |-> Taken[k].unsupported] = U
    BY <2>1
  <2> QED BY <1>6, <2>2 DEF MergeDocuments
<1> QED BY <1>1, <1>4, <1>7

\* The futures, the collector's lists and the documents have their types
\* (TypeOK).
THEOREM SelftestTypeCorrect == Spec => []TypeOK
<1>1. ASSUME PoolInv, DocInv, MergeInv, merged # NoDocument
      PROVE  /\ merged.cases \in Seq(Result) /\ merged.unsupported \in Seq(Nat)
             /\ merged.complete \in BOOLEAN
  <2> DEFINE N == Cardinality(paths)
             order == Ascending(paths)
             C == [k \in 1 .. N |-> document[order[k]].cases]
             U == [k \in 1 .. N |-> document[order[k]].unsupported]
  <2>1. /\ C \in Seq(Seq(Result)) /\ U \in Seq(Seq(Nat))
        /\ merged.cases = FlattenSeq(C)
        /\ merged.unsupported = FlattenSeq(U)
        /\ merged.complete \in BOOLEAN
    BY <1>1, TakenFacts
  <2> HIDE DEF C, U
  <2> QED BY <2>1, FlattenElements
<1>2. PoolInv /\ DocInv /\ MergeInv => TypeOK
  <2> SUFFICES ASSUME PoolInv, DocInv, MergeInv PROVE TypeOK
    OBVIOUS
  <2>1. \A i \in Shard : /\ document[i].cases \in Seq(Result)
                         /\ document[i].unsupported \in Seq(Nat)
                         /\ document[i].dataset \in Versions \cup {NoDocument}
    BY DEF DocInv, Document
  <2> QED BY <1>1, <2>1 DEF PoolInv, DocInv, TypeOK
<1> QED BY <1>2, InitPool, StepPool, InitMerge, StepMerge, InitDoc, StepDoc, PTL DEF Spec

\* A document that reports of its selection names cases of its own shard only.
LEMMA ReportedFacts ==
    ASSUME DocInv, NEW i \in Shard, Reports(document[i], Selection(i))
    PROVE  /\ \A j \in DOMAIN document[i].cases :
                /\ ShardOf(document[i].cases[j].case_id, ShardCount) = i
                /\ \E b \in DOMAIN Base : document[i].cases[j].case_id = Base[b].case_id
           /\ \A j \in DOMAIN document[i].unsupported :
                /\ ShardOf(document[i].unsupported[j], ShardCount) = i
                /\ \E b \in DOMAIN Base : document[i].unsupported[j] = Base[b].case_id
<1> DEFINE S == Selection(i)
           doc == document[i]
<1>1. \A c \in DOMAIN S : /\ ShardOf(S[c].case_id, ShardCount) = i
                          /\ \E b \in DOMAIN Base : S[c] = Base[b]
  BY SelectionFacts DEF DocInv
<1>2. /\ \A j \in DOMAIN doc.cases : \E c \in DOMAIN S : doc.cases[j].case_id = S[c].case_id
      /\ \A j \in DOMAIN doc.unsupported : \E c \in DOMAIN S : doc.unsupported[j] = S[c].case_id
  BY DEF Reports
<1> HIDE DEF S, doc
<1>3. /\ \A j \in DOMAIN doc.cases :
           /\ ShardOf(doc.cases[j].case_id, ShardCount) = i
           /\ \E b \in DOMAIN Base : doc.cases[j].case_id = Base[b].case_id
      /\ \A j \in DOMAIN doc.unsupported :
           /\ ShardOf(doc.unsupported[j], ShardCount) = i
           /\ \E b \in DOMAIN Base : doc.unsupported[j] = Base[b].case_id
  BY <1>1, <1>2
<1> QED BY <1>3 DEF doc

\* What a self-test that passed has in its report: the reports of every shard,
\* each of the cases it selected.
LEMMA PassedReport ==
    ASSUME PoolInv, DocInv, MergeInv, passed,
           NEW mc, mc = merged.cases, NEW mu, mu = merged.unsupported
    PROVE  /\ paths = Shard /\ \A i \in Shard : Reports(document[i], Selection(i))
           /\ mc \in Seq(Result) /\ mu \in Seq(Nat)
           /\ \A k \in DOMAIN mc : \E i \in Shard : \E j \in DOMAIN document[i].cases :
                mc[k] = document[i].cases[j]
           /\ \A i \in Shard : \A j \in DOMAIN document[i].cases :
                \E k \in DOMAIN mc : mc[k] = document[i].cases[j]
           /\ \A k \in DOMAIN mu : \E i \in Shard : \E j \in DOMAIN document[i].unsupported :
                mu[k] = document[i].unsupported[j]
           /\ \A i \in Shard : \A j \in DOMAIN document[i].unsupported :
                \E k \in DOMAIN mu : mu[k] = document[i].unsupported[j]
           /\ Distinct(mu)
<1> DEFINE N == Cardinality(paths)
           order == Ascending(paths)
           C == [k \in 1 .. N |-> document[order[k]].cases]
           U == [k \in 1 .. N |-> document[order[k]].unsupported]
<1>1. paths = Shard
  BY DEF PoolInv
<1>2. \A i \in Shard : Reports(document[i], Selection(i))
  BY <1>1 DEF PoolInv, DocInv
<1>3. /\ N \in Nat /\ order \in [1 .. N -> Shard]
      /\ \A k, l \in 1 .. N : order[k] = order[l] => k = l
      /\ \A i \in Shard : \E k \in 1 .. N : order[k] = i
      /\ C \in Seq(Seq(Result)) /\ U \in Seq(Seq(Nat))
      /\ mc = FlattenSeq(C) /\ mu = FlattenSeq(U)
  BY <1>1, TakenFacts
<1>4. /\ DOMAIN C = 1 .. N /\ DOMAIN U = 1 .. N
      /\ \A k \in 1 .. N : /\ C[k] = document[order[k]].cases
                           /\ U[k] = document[order[k]].unsupported
  OBVIOUS
<1> HIDE DEF N, order, C, U
<1>5. /\ mc \in Seq(Result)
      /\ \A k \in DOMAIN mc :
           \E a \in DOMAIN C : \E b \in DOMAIN C[a] : mc[k] = C[a][b]
      /\ \A a \in DOMAIN C : \A b \in DOMAIN C[a] : \E k \in DOMAIN mc : mc[k] = C[a][b]
  BY <1>3, FlattenElements
<1>6. /\ mu \in Seq(Nat)
      /\ \A k \in DOMAIN mu :
           \E a \in DOMAIN U : \E b \in DOMAIN U[a] : mu[k] = U[a][b]
      /\ \A a \in DOMAIN U : \A b \in DOMAIN U[a] : \E k \in DOMAIN mu : mu[k] = U[a][b]
      /\ DistinctAcross(U) => Distinct(mu)
  BY <1>3, FlattenElements
<1>7. ASSUME NEW a \in 1 .. N, NEW c \in 1 .. N, NEW b \in DOMAIN U[a], NEW d \in DOMAIN U[c],
             U[a][b] = U[c][d]
      PROVE  a = c /\ b = d
  <2>1. order[a] \in Shard /\ order[c] \in Shard
    BY <1>3
  <2>2. U[a] = document[order[a]].unsupported /\ U[c] = document[order[c]].unsupported
    BY <1>4
  <2>3. Reports(document[order[a]], Selection(order[a]))
        /\ Reports(document[order[c]], Selection(order[c]))
    BY <1>2, <2>1
  <2>4. ShardOf(U[a][b], ShardCount) = order[a] /\ ShardOf(U[c][d], ShardCount) = order[c]
    BY <2>1, <2>2, <2>3, ReportedFacts
  <2>5. a = c
    BY <1>3, <1>7, <2>4
  <2>6. \A k, l \in DOMAIN U[a] : U[a][k] = U[a][l] => k = l
    BY <2>2, <2>3 DEF Reports
  <2> QED BY <1>7, <2>5, <2>6
<1>8. Distinct(mu)
  BY <1>4, <1>6, <1>7 DEF DistinctAcross
<1>9. ASSUME NEW k \in DOMAIN mc
      PROVE  \E i \in Shard : \E j \in DOMAIN document[i].cases : mc[k] = document[i].cases[j]
  <2>1. PICK a \in 1 .. N : \E b \in DOMAIN C[a] : mc[k] = C[a][b]
    BY <1>4, <1>5
  <2>2. order[a] \in Shard /\ C[a] = document[order[a]].cases
    BY <1>3, <1>4
  <2>3. \E j \in DOMAIN document[order[a]].cases : mc[k] = document[order[a]].cases[j]
    BY <2>1, <2>2
  <2> QED BY <2>2, <2>3
<1>10. ASSUME NEW k \in DOMAIN mu
       PROVE  \E i \in Shard : \E j \in DOMAIN document[i].unsupported :
                  mu[k] = document[i].unsupported[j]
  <2>1. PICK a \in 1 .. N : \E b \in DOMAIN U[a] : mu[k] = U[a][b]
    BY <1>4, <1>6
  <2>2. order[a] \in Shard /\ U[a] = document[order[a]].unsupported
    BY <1>3, <1>4
  <2>3. \E j \in DOMAIN document[order[a]].unsupported : mu[k] = document[order[a]].unsupported[j]
    BY <2>1, <2>2
  <2> QED BY <2>2, <2>3
<1>11. ASSUME NEW i \in Shard
       PROVE  /\ \A j \in DOMAIN document[i].cases :
                   \E k \in DOMAIN mc : mc[k] = document[i].cases[j]
              /\ \A j \in DOMAIN document[i].unsupported :
                   \E k \in DOMAIN mu : mu[k] = document[i].unsupported[j]
  <2>1. PICK a \in 1 .. N : order[a] = i
    BY <1>3
  <2>2. C[a] = document[i].cases /\ U[a] = document[i].unsupported
    BY <1>4, <2>1
  <2>3. \A b \in DOMAIN C[a] : \E k \in DOMAIN mc : mc[k] = C[a][b]
    BY <1>4, <1>5
  <2>4. \A b \in DOMAIN U[a] : \E k \in DOMAIN mu : mu[k] = U[a][b]
    BY <1>4, <1>6
  <2> QED BY <2>2, <2>3, <2>4
<1> QED BY <1>1, <1>2, <1>5, <1>6, <1>8, <1>9, <1>10, <1>11

\* Whatever the order of completion, a self-test that passed covers what one
\* unsharded evaluation would select, each case exactly once, and no evaluated
\* case failed (PassCoversCorpus).
THEOREM PassMeansCovered == Spec => []PassCoversCorpus
<1>1. ASSUME PoolInv, DocInv, MergeInv, passed
      PROVE  /\ paths = Shard
             /\ option.maxCases = NoLimit =>
                  Ids(merged.cases) \cup ToSet(merged.unsupported) = Ids(Base)
             /\ Cardinality(Ids(merged.cases) \cup ToSet(merged.unsupported))
                  = Len(merged.cases) + Len(merged.unsupported)
             /\ \A i \in Shard : \A k \in DOMAIN document[i].cases :
                  document[i].cases[k].passed
  <2> DEFINE mc == merged.cases
             mu == merged.unsupported
  <2>0. mc = merged.cases /\ mu = merged.unsupported
    OBVIOUS
  <2> HIDE DEF mc, mu
  <2>1. paths = Shard /\ \A i \in Shard : Reports(document[i], Selection(i))
    BY <1>1, <2>0, PassedReport
  <2>2. mc \in Seq(Result) /\ mu \in Seq(Nat)
    BY <1>1, <2>0, PassedReport
  <2>3. /\ \A k \in DOMAIN mc : \E i \in Shard : \E j \in DOMAIN document[i].cases :
             mc[k] = document[i].cases[j]
        /\ \A i \in Shard : \A j \in DOMAIN document[i].cases :
             \E k \in DOMAIN mc : mc[k] = document[i].cases[j]
    BY <1>1, <2>0, PassedReport
  <2>4. /\ \A k \in DOMAIN mu : \E i \in Shard : \E j \in DOMAIN document[i].unsupported :
             mu[k] = document[i].unsupported[j]
        /\ \A i \in Shard : \A j \in DOMAIN document[i].unsupported :
             \E k \in DOMAIN mu : mu[k] = document[i].unsupported[j]
    BY <1>1, <2>0, PassedReport
  <2>5. Distinct(mu)
    BY <1>1, <2>0, PassedReport
  <2>6. /\ \A k, l \in DOMAIN mc : mc[k].case_id = mc[l].case_id => k = l
        /\ \A k \in DOMAIN mc : mc[k].passed
    BY <1>1, <2>0 DEF MergeInv, Valid
  <2>7. Ids(mc) = {mc[k].case_id : k \in DOMAIN mc} /\ ToSet(mu) = {mu[k] : k \in DOMAIN mu}
    BY DEF Ids, ToSet
  <2>8. IsFiniteSet(Ids(mc)) /\ Cardinality(Ids(mc)) = Len(mc)
    <3> DEFINE ids == [k \in 1 .. Len(mc) |-> mc[k].case_id]
    <3>1. DOMAIN mc = 1 .. Len(mc) /\ Len(mc) \in Nat
      BY <2>2, LenProperties
    <3>2. \A k \in 1 .. Len(mc) : mc[k].case_id \in Nat
      <4> TAKE k \in 1 .. Len(mc)
      <4>1. mc[k] \in Result
        BY <2>2, ElementOfSeq
      <4> QED BY <4>1 DEF Result
    <3>3. ids \in [1 .. Len(mc) -> Nat]
      BY <3>2
    <3>4. ids \in Seq(Nat)
      BY <3>1, <3>3, SeqDef
    <3>5. Len(ids) = Len(mc) /\ DOMAIN ids = 1 .. Len(mc)
      BY <3>1, <3>4
    <3>6. \A k \in 1 .. Len(mc) : ids[k] = mc[k].case_id
      OBVIOUS
    <3>7. ToSet(ids) = Ids(mc)
      BY <2>7, <3>1, <3>5, <3>6 DEF ToSet
    <3> HIDE DEF ids
    <3>8. Distinct(ids)
      BY <2>6, <3>1, <3>5, <3>6 DEF Distinct
    <3> QED BY <3>4, <3>5, <3>7, <3>8, ListCardinality
  <2>9. IsFiniteSet(ToSet(mu)) /\ Cardinality(ToSet(mu)) = Len(mu)
    BY <2>2, <2>5, ListCardinality
  <2>10. Ids(mc) \cap ToSet(mu) = {}
    <3> SUFFICES ASSUME NEW k \in DOMAIN mc, NEW l \in DOMAIN mu, mc[k].case_id = mu[l]
                 PROVE  FALSE
      BY <2>7
    <3>1. PICK i \in Shard : \E j \in DOMAIN document[i].cases : mc[k] = document[i].cases[j]
      BY <2>3
    <3>2. PICK j \in DOMAIN document[i].cases : mc[k] = document[i].cases[j]
      BY <3>1
    <3>3. PICK m \in Shard :
            \E n \in DOMAIN document[m].unsupported : mu[l] = document[m].unsupported[n]
      BY <2>4
    <3>4. PICK n \in DOMAIN document[m].unsupported : mu[l] = document[m].unsupported[n]
      BY <3>3
    <3>5. ShardOf(mc[k].case_id, ShardCount) = i /\ ShardOf(mu[l], ShardCount) = m
      BY <1>1, <2>1, <3>2, <3>4, ReportedFacts
    <3>6. \A a \in DOMAIN document[i].cases : \A b \in DOMAIN document[i].unsupported :
             document[i].cases[a].case_id # document[i].unsupported[b]
      BY <2>1 DEF Reports
    <3> QED BY <3>2, <3>4, <3>5, <3>6
  <2>11. Cardinality(Ids(mc) \cup ToSet(mu)) = Len(mc) + Len(mu)
    <3>1. Cardinality(Ids(mc) \cup ToSet(mu))
            = Cardinality(Ids(mc)) + Cardinality(ToSet(mu)) - Cardinality(Ids(mc) \cap ToSet(mu))
      BY <2>8, <2>9, FS_Union
    <3>2. Cardinality(Ids(mc) \cap ToSet(mu)) = 0
      BY <2>10, FS_EmptySet
    <3>3. Len(mc) \in Nat /\ Len(mu) \in Nat
      BY <2>2, LenProperties
    <3> QED BY <2>8, <2>9, <3>1, <3>2, <3>3
  <2>12. \A i \in Shard : \A k \in DOMAIN document[i].cases : document[i].cases[k].passed
    <3> TAKE i \in Shard
    <3> TAKE k \in DOMAIN document[i].cases
    <3>1. PICK n \in DOMAIN mc : mc[n] = document[i].cases[k]
      BY <2>3
    <3> QED BY <2>6, <3>1
  <2>13. Ids(Base) = {Base[j].case_id : j \in DOMAIN Base}
    BY DEF Ids, ToSet
  <2>14. Ids(mc) \cup ToSet(mu) \subseteq Ids(Base)
    <3>1. ASSUME NEW k \in DOMAIN mc PROVE mc[k].case_id \in Ids(Base)
      <4>1. PICK i \in Shard : \E j \in DOMAIN document[i].cases : mc[k] = document[i].cases[j]
        BY <2>3
      <4>2. \A j \in DOMAIN document[i].cases :
              \E b \in DOMAIN Base : document[i].cases[j].case_id = Base[b].case_id
        BY <1>1, <2>1, ReportedFacts
      <4> QED BY <2>13, <4>1, <4>2
    <3>2. ASSUME NEW k \in DOMAIN mu PROVE mu[k] \in Ids(Base)
      <4>1. PICK i \in Shard :
              \E j \in DOMAIN document[i].unsupported : mu[k] = document[i].unsupported[j]
        BY <2>4
      <4>2. \A j \in DOMAIN document[i].unsupported :
              \E b \in DOMAIN Base : document[i].unsupported[j] = Base[b].case_id
        BY <1>1, <2>1, ReportedFacts
      <4> QED BY <2>13, <4>1, <4>2
    <3> QED BY <2>7, <3>1, <3>2
  <2>15. ASSUME option.maxCases = NoLimit, NEW b \in DOMAIN Base
         PROVE  Base[b].case_id \in Ids(mc) \cup ToSet(mu)
    <3>1. PICK i \in Shard : ShardOf(Base[b].case_id, ShardCount) = i
      BY BaseFacts
    <3>2. PICK c \in DOMAIN Selection(i) : Selection(i)[c] = Base[b]
      BY <1>1, <2>15, <3>1, SelectionFacts DEF DocInv
    <3>3. CASE \E k \in DOMAIN document[i].cases :
                 document[i].cases[k].case_id = Selection(i)[c].case_id
      <4>1. PICK k \in DOMAIN document[i].cases :
              document[i].cases[k].case_id = Selection(i)[c].case_id
        BY <3>3
      <4>2. PICK n \in DOMAIN mc : mc[n] = document[i].cases[k]
        BY <2>3
      <4> QED BY <2>7, <3>2, <4>1, <4>2
    <3>4. CASE \E k \in DOMAIN document[i].unsupported :
                 document[i].unsupported[k] = Selection(i)[c].case_id
      <4>1. PICK k \in DOMAIN document[i].unsupported :
              document[i].unsupported[k] = Selection(i)[c].case_id
        BY <3>4
      <4>2. PICK n \in DOMAIN mu : mu[n] = document[i].unsupported[k]
        BY <2>4
      <4> QED BY <2>7, <3>2, <4>1, <4>2
    <3> QED BY <2>1, <3>3, <3>4 DEF Reports
  <2>16. option.maxCases = NoLimit => Ids(mc) \cup ToSet(mu) = Ids(Base)
    BY <2>13, <2>14, <2>15
  <2> QED BY <2>1, <2>11, <2>12, <2>16 DEF mc, mu
<1>2. PoolInv /\ DocInv /\ MergeInv => PassCoversCorpus
  BY <1>1 DEF PassCoversCorpus, Base
<1> QED BY <1>2, InitPool, StepPool, InitMerge, StepMerge, InitDoc, StepDoc, PTL DEF Spec
=============================================================================

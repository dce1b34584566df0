------------------------------ MODULE DataLemmas ------------------------------
(***************************************************************************)
(* Facts about numbers, finite sets and sequences that several proofs      *)
(* need.  Induction is stated with a set in the place of a predicate, so   *)
(* that the provers can apply it.                                          *)
(***************************************************************************)
EXTENDS SequencesExt, SortedSets, FiniteSetTheorems, SequenceTheorems, WellFoundedInduction, TLAPS

\* Induction: were m the first number missing, k |-> k + 1 would map those of
\* the set up to m, a finite set, one to one into fewer.
LEMMA SetInduction ==
    ASSUME NEW T, 0 \in T, \A k \in Nat : k \in T => k + 1 \in T
    PROVE  Nat \subseteq T
<1> SUFFICES ASSUME NEW m \in Nat, m \notin T PROVE FALSE
  OBVIOUS
<1> DEFINE S == {k \in 0 .. m : k \in T}
           U == S \ {0}
           f == [k \in S |-> k + 1]
<1>1. IsFiniteSet(S) /\ 0 \in S
  <2>1. IsFiniteSet(0 .. m)
    BY FS_Interval
  <2> QED BY <2>1, FS_Subset
<1>2. IsFiniteSet(U) /\ Cardinality(U) = Cardinality(S) - 1 /\ Cardinality(S) \in Nat
  BY <1>1, FS_RemoveElement, FS_CardinalityType
<1>3. f \in [S -> U]
  OBVIOUS
<1>4. \E x, y \in S : x # y /\ f[x] = f[y]
  <2>1. Cardinality(U) < Cardinality(S)
    BY <1>2
  <2> HIDE DEF S, U, f
  <2> QED BY <1>1, <1>2, <1>3, <2>1, FS_PigeonHole
<1> QED BY <1>4

\* A set of natural numbers has a least one.
LEMMA MinFacts ==
    ASSUME NEW S, S \subseteq Nat, S # {}
    PROVE  Min(S) \in S /\ \A y \in S : Min(S) <= y
<1> DEFINE Less == {p \in Nat \X Nat : p[1] < p[2]}
<1>1. OpToRel(<, Nat) = Less
  BY DEF OpToRel
<1>2. IsWellFoundedOn(Less, Nat)
  BY <1>1, NatLessThanWellFounded, Zenon
<1>3. PICK x \in S : \A y \in S : <<y, x>> \notin Less
  <2> HIDE DEF Less
  <2> QED BY <1>2, WFMin
<1>4. \E z \in S : \A y \in S : z <= y
  <2>1. ASSUME NEW y \in S PROVE x <= y
    <3>1. <<y, x>> \in Nat \X Nat /\ <<y, x>>[1] = y /\ <<y, x>>[2] = x
      OBVIOUS
    <3>2. ~(y < x)
      BY <1>3, <3>1
    <3> QED BY <3>2
  <2> QED BY <2>1
<1> QED BY <1>4, Zenon DEF Min

LEMMA FunctionIsSeq ==
    ASSUME NEW X, NEW n \in Nat, NEW f \in [1 .. n -> X]
    PROVE  f \in Seq(X) /\ Len(f) = n
<1>1. f \in Seq(X)
  BY SeqDef
<1> QED BY <1>1

-----------------------------------------------------------------------------
(* Ascending lists a finite set of numbers, each once.                     *)

LEMMA AscendingExists ==
    \A n \in Nat : \A S \in SUBSET Nat : IsFiniteSet(S) /\ Cardinality(S) = n =>
        \E order \in [1 .. n -> S] : \A k, l \in 1 .. n : k < l => order[k] < order[l]
<1> DEFINE T == {n \in Nat : \A S \in SUBSET Nat : IsFiniteSet(S) /\ Cardinality(S) = n =>
                   \E order \in [1 .. n -> S] :
                       \A k, l \in 1 .. n : k < l => order[k] < order[l]}
<1>1. 0 \in T
  <2> SUFFICES ASSUME NEW S \in SUBSET Nat
               PROVE  \E order \in [1 .. 0 -> S] :
                          \A k, l \in 1 .. 0 : k < l => order[k] < order[l]
    OBVIOUS
  <2> DEFINE order == [k \in 1 .. 0 |-> 0]
  <2>1. order \in [1 .. 0 -> S] /\ \A k \in 1 .. 0 : FALSE
    OBVIOUS
  <2> HIDE DEF order
  <2> QED BY <2>1, Zenon
<1>2. ASSUME NEW n \in Nat, n \in T PROVE n + 1 \in T
  <2> SUFFICES ASSUME NEW S \in SUBSET Nat, IsFiniteSet(S), Cardinality(S) = n + 1
               PROVE  \E order \in [1 .. n + 1 -> S] :
                          \A k, l \in 1 .. n + 1 : k < l => order[k] < order[l]
    OBVIOUS
  <2> DEFINE least == Min(S)
             rest == S \ {least}
  <2>1. S # {}
    BY FS_EmptySet
  <2>2. least \in S /\ \A y \in S : least <= y
    BY <2>1, MinFacts
  <2>3. IsFiniteSet(rest) /\ Cardinality(rest) = n
    BY <2>2, FS_RemoveElement
  <2> HIDE DEF least
  <2>4. rest \in SUBSET Nat /\ \A y \in rest : y \in S /\ least < y
    BY <2>2
  <2> HIDE DEF rest
  <2>5. PICK g \in [1 .. n -> rest] : \A k, l \in 1 .. n : k < l => g[k] < g[l]
    BY <1>2, <2>3, <2>4
  <2> DEFINE order == [k \in 1 .. n + 1 |-> IF k = 1 THEN least ELSE g[k - 1]]
  <2>6. \A k \in 1 .. n + 1 : k # 1 => k - 1 \in 1 .. n /\ g[k - 1] \in rest
    BY <2>5
  <2>7. order \in [1 .. n + 1 -> S]
    BY <2>2, <2>4, <2>6
  <2>8. \A k, l \in 1 .. n + 1 : k < l => order[k] < order[l]
    <3> SUFFICES ASSUME NEW k \in 1 .. n + 1, NEW l \in 1 .. n + 1, k < l
                 PROVE  order[k] < order[l]
      OBVIOUS
    <3>1. l # 1 /\ order[l] = g[l - 1]
      OBVIOUS
    <3>2. CASE k = 1
      BY <2>4, <2>6, <3>1, <3>2
    <3>3. CASE k # 1
      <4>1. k - 1 \in 1 .. n /\ l - 1 \in 1 .. n /\ k - 1 < l - 1 /\ order[k] = g[k - 1]
        BY <3>1, <3>3
      <4> HIDE DEF order
      <4> QED BY <2>5, <3>1, <4>1
    <3> QED BY <3>2, <3>3
  <2> HIDE DEF order
  <2> QED BY <2>7, <2>8
<1>3. Nat \subseteq T
  <2> HIDE DEF T
  <2> QED BY <1>1, <1>2, SetInduction
<1> QED BY <1>3

LEMMA AscendingFacts ==
    ASSUME NEW S, S \subseteq Nat, IsFiniteSet(S)
    PROVE  /\ Cardinality(S) \in Nat
           /\ Ascending(S) \in [1 .. Cardinality(S) -> S]
           /\ \A k, l \in 1 .. Cardinality(S) : Ascending(S)[k] = Ascending(S)[l] => k = l
           /\ \A x \in S : \E k \in 1 .. Cardinality(S) : Ascending(S)[k] = x
<1> DEFINE N == Cardinality(S)
           order == Ascending(S)
<1>1. N \in Nat
  BY FS_CardinalityType
<1>2. \E f \in [1 .. N -> S] : \A k, l \in 1 .. N : k < l => f[k] < f[l]
  BY <1>1, AscendingExists
<1>3. \E f \in [1 .. N -> S] : \A k, l \in DOMAIN f : k < l => f[k] < f[l]
  BY <1>2
<1>4. order \in [1 .. N -> S] /\ \A k, l \in DOMAIN order : k < l => order[k] < order[l]
  BY <1>3 DEF Ascending
<1>5. \A k \in 1 .. N : order[k] \in Nat
  BY <1>4
<1>6. \A k, l \in 1 .. N : k < l => order[k] < order[l]
  BY <1>4
<1> HIDE DEF order, N
<1>7. \A k, l \in 1 .. N : order[k] = order[l] => k = l
  <2> SUFFICES ASSUME NEW k \in 1 .. N, NEW l \in 1 .. N, order[k] = order[l], k # l
               PROVE  FALSE
    OBVIOUS
  <2>1. k < l \/ l < k
    BY <1>1
  <2> QED BY <1>5, <1>6, <2>1
<1>8. order \in Injection(1 .. N, S)
  BY <1>4, <1>7 DEF Injection, IsInjective
<1>9. IsFiniteSet(1 .. N) /\ Cardinality(1 .. N) = N
  BY <1>1, FS_Interval
<1>10. order \in Surjection(1 .. N, S)
  BY <1>8, <1>9, FS_Injection DEF N
<1>11. \A x \in S : \E k \in 1 .. N : order[k] = x
  BY <1>10 DEF Surjection
<1> QED BY <1>1, <1>4, <1>7, <1>11 DEF order, N

-----------------------------------------------------------------------------
(* Concatenation of a sequence of sequences.                               *)

\* The positions of its first n sequences.
Positions(seqs, n) == {p \in (1 .. n) \X Nat : p[2] \in 1 .. Len(seqs[p[1]])}

\* A concatenation lists the elements at these positions, each once.
Lists(seq, seqs, n) ==
    \E at \in [1 .. Len(seq) -> Positions(seqs, n)] :
        /\ \A k, l \in 1 .. Len(seq) : at[k] = at[l] => k = l
        /\ \A p \in Positions(seqs, n) : \E k \in 1 .. Len(seq) : at[k] = p
        /\ \A k \in 1 .. Len(seq) : seq[k] = seqs[at[k][1]][at[k][2]]

\* The function that FlattenSeq computes.
Flattens(f, seqs, n) ==
    \A i \in 1 .. n : f[i] = IF i = 1 THEN seqs[i] ELSE f[i - 1] \o seqs[i]

LEMMA FlattenExists ==
    ASSUME NEW X, NEW seqs \in Seq(Seq(X))
    PROVE  \A k \in Nat : k \in 1 .. Len(seqs) =>
             \E f \in [1 .. k -> Seq(X)] : Flattens(f, seqs, k)
<1> DEFINE T == {k \in Nat : k \in 1 .. Len(seqs) =>
                   \E f \in [1 .. k -> Seq(X)] : Flattens(f, seqs, k)}
<1>1. 0 \in T
  OBVIOUS
<1>2. ASSUME NEW k \in Nat, k \in T PROVE k + 1 \in T
  <2> SUFFICES ASSUME k + 1 \in 1 .. Len(seqs)
               PROVE  \E f \in [1 .. k + 1 -> Seq(X)] : Flattens(f, seqs, k + 1)
    OBVIOUS
  <2>1. seqs[k + 1] \in Seq(X)
    BY ElementOfSeq
  <2>2. CASE k = 0
    <3> DEFINE f == [i \in 1 .. 1 |-> seqs[1]]
    <3>1. f \in [1 .. k + 1 -> Seq(X)] /\ Flattens(f, seqs, k + 1)
      BY <2>1, <2>2 DEF Flattens
    <3> QED BY <3>1
  <2>3. CASE k # 0
    <3>1. PICK g \in [1 .. k -> Seq(X)] : Flattens(g, seqs, k)
      <4>1. k \in 1 .. Len(seqs)
        BY <2>3, LenProperties
      <4> QED BY <1>2, <4>1
    <3> DEFINE f == [i \in 1 .. k + 1 |-> IF i = k + 1 THEN g[k] \o seqs[k + 1] ELSE g[i]]
    <3>2. g[k] \o seqs[k + 1] \in Seq(X)
      <4>1. g[k] \in Seq(X)
        BY <2>3, <3>1
      <4> QED BY <2>1, <4>1, ConcatProperties
    <3>3. f \in [1 .. k + 1 -> Seq(X)]
      BY <3>1, <3>2
    <3>4. Flattens(f, seqs, k + 1)
      <4> SUFFICES ASSUME NEW i \in 1 .. k + 1
                   PROVE  f[i] = IF i = 1 THEN seqs[i] ELSE f[i - 1] \o seqs[i]
        BY DEF Flattens
      <4>1. CASE i = k + 1
        <5>1. i # 1 /\ i - 1 = k /\ k \in 1 .. k + 1 /\ k # k + 1
          BY <2>3, <4>1
        <5> QED BY <4>1, <5>1
      <4>2. CASE i # k + 1
        <5>1. i \in 1 .. k /\ (i # 1 => i - 1 \in 1 .. k /\ i - 1 # k + 1)
          BY <4>2
        <5>2. g[i] = IF i = 1 THEN seqs[i] ELSE g[i - 1] \o seqs[i]
          BY <3>1, <5>1 DEF Flattens
        <5>3. f[i] = g[i] /\ (i # 1 => f[i - 1] = g[i - 1])
          BY <4>2, <5>1
        <5> HIDE DEF f
        <5>4. CASE i = 1
          BY <5>2, <5>3, <5>4
        <5>5. CASE i # 1
          BY <5>2, <5>3, <5>5
        <5> QED BY <5>4, <5>5
      <4> QED BY <4>1, <4>2
    <3> HIDE DEF f
    <3> QED BY <3>3, <3>4
  <2> QED BY <2>2, <2>3
<1>3. Nat \subseteq T
  <2> HIDE DEF T
  <2> QED BY <1>1, <1>2, SetInduction
<1> QED BY <1>3

\* What FlattenSeq makes of at least one sequence.
LEMMA FlattenFunction ==
    ASSUME NEW X, NEW seqs \in Seq(Seq(X)), Len(seqs) # 0
    PROVE  \E f : /\ f = [i \in 1 .. Len(seqs) |->
                           IF i = 1 THEN seqs[i] ELSE f[i - 1] \o seqs[i]]
                  /\ FlattenSeq(seqs) = f[Len(seqs)]
<1>1. Len(seqs) \in Nat /\ Len(seqs) \in 1 .. Len(seqs)
  BY LenProperties
<1>2. PICK g \in [1 .. Len(seqs) -> Seq(X)] : Flattens(g, seqs, Len(seqs))
  BY <1>1, FlattenExists
<1>3. g = [i \in 1 .. Len(seqs) |-> IF i = 1 THEN seqs[i] ELSE g[i - 1] \o seqs[i]]
  BY <1>2 DEF Flattens
<1> DEFINE f == CHOOSE f : f = [i \in 1 .. Len(seqs) |->
                                 IF i = 1 THEN seqs[i] ELSE f[i - 1] \o seqs[i]]
<1>4. f = [i \in 1 .. Len(seqs) |-> IF i = 1 THEN seqs[i] ELSE f[i - 1] \o seqs[i]]
  BY <1>3
<1>5. FlattenSeq(seqs) = f[Len(seqs)]
  BY DEF FlattenSeq
<1> QED
  <2> HIDE DEF f
  <2> QED BY <1>4, <1>5

LEMMA ListsNothing ==
    ASSUME NEW seqs PROVE Lists(<<>>, seqs, 0)
<1>1. Len(<<>>) = 0 /\ Positions(seqs, 0) = {}
  BY DEF Positions
<1> DEFINE at == [k \in 1 .. 0 |-> 0]
<1>2. at \in [1 .. 0 -> {}]
  OBVIOUS
<1> QED BY <1>1, <1>2 DEF Lists

LEMMA ListsOneMore ==
    ASSUME NEW X, NEW seqs \in Seq(Seq(X)), NEW n \in Nat, n + 1 \in 1 .. Len(seqs),
           NEW seq \in Seq(X), Lists(seq, seqs, n)
    PROVE  /\ seq \o seqs[n + 1] \in Seq(X)
           /\ Lists(seq \o seqs[n + 1], seqs, n + 1)
<1> DEFINE more == seqs[n + 1]
           both == seq \o more
<1>1. more \in Seq(X)
  BY ElementOfSeq
<1>2. Len(seq) \in Nat /\ Len(more) \in Nat
  BY <1>1, LenProperties
<1>3. /\ both \in Seq(X) /\ Len(both) = Len(seq) + Len(more)
      /\ \A k \in 1 .. Len(seq) + Len(more) :
           both[k] = IF k <= Len(seq) THEN seq[k] ELSE more[k - Len(seq)]
  BY <1>1, ConcatProperties
<1>4. PICK at \in [1 .. Len(seq) -> Positions(seqs, n)] :
        /\ \A k, l \in 1 .. Len(seq) : at[k] = at[l] => k = l
        /\ \A p \in Positions(seqs, n) : \E k \in 1 .. Len(seq) : at[k] = p
        /\ \A k \in 1 .. Len(seq) : seq[k] = seqs[at[k][1]][at[k][2]]
  BY DEF Lists
<1> DEFINE N == Len(seq) + Len(more)
           on == [k \in 1 .. N |-> IF k <= Len(seq) THEN at[k] ELSE <<n + 1, k - Len(seq)>>]
<1>5. \A p \in Positions(seqs, n) : p \in Positions(seqs, n + 1) /\ p[1] \in 1 .. n
  BY DEF Positions
<1>6. \A j \in 1 .. Len(more) : /\ <<n + 1, j>> \in Positions(seqs, n + 1)
                                /\ <<n + 1, j>>[1] = n + 1 /\ <<n + 1, j>>[2] = j
  BY <1>2 DEF Positions
<1>7. \A k \in 1 .. N : /\ k <= Len(seq) => k \in 1 .. Len(seq)
                        /\ ~(k <= Len(seq)) => k - Len(seq) \in 1 .. Len(more)
  BY <1>2
<1>8. \A k \in 1 .. Len(seq) : at[k] \in Positions(seqs, n) /\ at[k][1] # n + 1
  BY <1>4, <1>5
<1> HIDE DEF more, both
<1>9. on \in [1 .. N -> Positions(seqs, n + 1)]
  BY <1>5, <1>6, <1>7, <1>8
<1>10. \A k, l \in 1 .. N : on[k] = on[l] => k = l
  <2> SUFFICES ASSUME NEW k \in 1 .. N, NEW l \in 1 .. N, on[k] = on[l] PROVE k = l
    OBVIOUS
  <2>1. on[k] = IF k <= Len(seq) THEN at[k] ELSE <<n + 1, k - Len(seq)>>
    OBVIOUS
  <2>2. on[l] = IF l <= Len(seq) THEN at[l] ELSE <<n + 1, l - Len(seq)>>
    OBVIOUS
  <2> HIDE DEF on, N
  <2>3. CASE k <= Len(seq) /\ l <= Len(seq)
    BY <1>4, <1>7, <2>1, <2>2, <2>3
  <2>4. CASE k <= Len(seq) /\ ~(l <= Len(seq))
    <3>1. at[k] = <<n + 1, l - Len(seq)>>
      BY <2>1, <2>2, <2>4
    <3>2. l - Len(seq) \in 1 .. Len(more) /\ k \in 1 .. Len(seq)
      BY <1>7, <2>4
    <3>3. at[k][1] = n + 1 /\ at[k][1] # n + 1
      BY <1>6, <1>8, <3>1, <3>2
    <3> QED BY <3>3
  <2>5. CASE ~(k <= Len(seq)) /\ l <= Len(seq)
    BY <1>6, <1>7, <1>8, <2>1, <2>2, <2>5
  <2>6. CASE ~(k <= Len(seq)) /\ ~(l <= Len(seq))
    <3>1. k - Len(seq) = l - Len(seq)
      BY <1>6, <1>7, <2>1, <2>2, <2>6
    <3>2. k \in Int /\ l \in Int
      BY <1>2 DEF N
    <3> QED BY <1>2, <3>1, <3>2
  <2> QED BY <2>3, <2>4, <2>5, <2>6
<1>11. \A p \in Positions(seqs, n + 1) : \E k \in 1 .. N : on[k] = p
  <2> SUFFICES ASSUME NEW p \in Positions(seqs, n + 1) PROVE \E k \in 1 .. N : on[k] = p
    OBVIOUS
  <2>1. p = <<p[1], p[2]>> /\ p[1] \in 1 .. n + 1 /\ p[2] \in 1 .. Len(seqs[p[1]])
        /\ p[2] \in Nat
    BY DEF Positions
  <2>2. CASE p[1] = n + 1
    <3>1. p[2] + Len(seq) \in 1 .. N /\ ~(p[2] + Len(seq) <= Len(seq))
          /\ (p[2] + Len(seq)) - Len(seq) = p[2]
      BY <1>2, <2>1, <2>2 DEF more
    <3>2. on[p[2] + Len(seq)] = <<n + 1, p[2]>>
      BY <3>1
    <3> HIDE DEF on, N
    <3> QED BY <2>1, <2>2, <3>1, <3>2
  <2>3. CASE p[1] # n + 1
    <3>1. p \in Positions(seqs, n)
      BY <2>1, <2>3 DEF Positions
    <3>2. PICK k \in 1 .. Len(seq) : at[k] = p
      BY <1>4, <3>1
    <3>3. k \in 1 .. N /\ k <= Len(seq)
      BY <1>2
    <3> QED BY <3>2, <3>3
  <2> QED BY <2>2, <2>3
<1>12. \A k \in 1 .. N : both[k] = seqs[on[k][1]][on[k][2]]
  <2> SUFFICES ASSUME NEW k \in 1 .. N PROVE both[k] = seqs[on[k][1]][on[k][2]]
    OBVIOUS
  <2>1. on[k] = IF k <= Len(seq) THEN at[k] ELSE <<n + 1, k - Len(seq)>>
    OBVIOUS
  <2>2. both[k] = IF k <= Len(seq) THEN seq[k] ELSE more[k - Len(seq)]
    BY <1>3
  <2> HIDE DEF on, N
  <2>3. CASE k <= Len(seq)
    BY <1>4, <1>7, <2>1, <2>2, <2>3
  <2>4. CASE ~(k <= Len(seq))
    <3>1. on[k][1] = n + 1 /\ on[k][2] = k - Len(seq)
      BY <1>6, <1>7, <2>1, <2>4
    <3> QED BY <2>2, <2>4, <3>1 DEF more
  <2> QED BY <2>3, <2>4
<1>13. Lists(both, seqs, n + 1)
  <2>1. Len(both) = N
    BY <1>3
  <2> HIDE DEF on, N
  <2> QED BY <2>1, <1>9, <1>10, <1>11, <1>12, Zenon DEF Lists
<1> QED BY <1>3, <1>13 DEF both, more

\* FlattenSeq lists what the sequences have, each position once.
LEMMA FlattenFacts ==
    ASSUME NEW X, NEW seqs \in Seq(Seq(X))
    PROVE  FlattenSeq(seqs) \in Seq(X) /\ Lists(FlattenSeq(seqs), seqs, Len(seqs))
<1>1. Len(seqs) \in Nat
  BY LenProperties
<1>2. CASE Len(seqs) = 0
  <2>1. seqs = <<>>
    BY <1>2, EmptySeq
  <2>2. FlattenSeq(seqs) = <<>>
    BY <1>2, <2>1 DEF FlattenSeq
  <2> QED BY <1>2, <2>2, ListsNothing, EmptySeq
<1>3. CASE Len(seqs) # 0
  <2>1. PICK f : /\ f = [i \in 1 .. Len(seqs) |->
                          IF i = 1 THEN seqs[i] ELSE f[i - 1] \o seqs[i]]
                 /\ FlattenSeq(seqs) = f[Len(seqs)]
    BY <1>3, FlattenFunction
  <2>2. \A i \in 1 .. Len(seqs) : f[i] = IF i = 1 THEN seqs[i] ELSE f[i - 1] \o seqs[i]
    BY <2>1
  <2> DEFINE T == {k \in Nat : k \in 1 .. Len(seqs) =>
                      f[k] \in Seq(X) /\ Lists(f[k], seqs, k)}
  <2>3. 0 \in T
    OBVIOUS
  <2>4. ASSUME NEW k \in Nat, k \in T PROVE k + 1 \in T
    <3> SUFFICES ASSUME k + 1 \in 1 .. Len(seqs)
                 PROVE  f[k + 1] \in Seq(X) /\ Lists(f[k + 1], seqs, k + 1)
      OBVIOUS
    <3>1. CASE k = 0
      <4>1. seqs[1] \in Seq(X) /\ f[1] = seqs[1]
        BY <2>2, <3>1, ElementOfSeq
      <4>2. <<>> \o seqs[1] = seqs[1] /\ <<>> \in Seq(X)
        BY <4>1, ConcatEmptySeq, EmptySeq
      <4>3. <<>> \o seqs[0 + 1] \in Seq(X) /\ Lists(<<>> \o seqs[0 + 1], seqs, 0 + 1)
        BY <3>1, <4>2, ListsNothing, ListsOneMore
      <4> QED BY <3>1, <4>1, <4>2, <4>3
    <3>2. CASE k # 0
      <4>1. k \in 1 .. Len(seqs) /\ k + 1 # 1 /\ (k + 1) - 1 = k
        BY <1>1, <3>2
      <4>2. f[k + 1] = f[k] \o seqs[k + 1]
        BY <2>2, <4>1
      <4>3. f[k] \in Seq(X) /\ Lists(f[k], seqs, k)
        BY <2>4, <4>1
      <4> QED BY <4>2, <4>3, ListsOneMore
    <3> QED BY <3>1, <3>2
  <2>5. Nat \subseteq T
    <3> HIDE DEF T
    <3> QED BY <2>3, <2>4, SetInduction
  <2>6. Len(seqs) \in 1 .. Len(seqs)
    BY <1>1, <1>3
  <2> QED BY <1>1, <2>1, <2>5, <2>6
<1> QED BY <1>2, <1>3

\* No element occurs twice in a sequence, or in several.
Distinct(seq) == \A k, l \in DOMAIN seq : seq[k] = seq[l] => k = l
DistinctAcross(seqs) ==
    \A a, c \in DOMAIN seqs : \A b \in DOMAIN seqs[a] : \A d \in DOMAIN seqs[c] :
        seqs[a][b] = seqs[c][d] => a = c /\ b = d

\* Its elements are those of the sequences; where no element occurs twice in
\* them, none occurs twice in it.
LEMMA FlattenElements ==
    ASSUME NEW X, NEW seqs \in Seq(Seq(X)), NEW all, all = FlattenSeq(seqs)
    PROVE  /\ all \in Seq(X)
           /\ \A k \in DOMAIN all :
                \E a \in DOMAIN seqs : \E b \in DOMAIN seqs[a] : all[k] = seqs[a][b]
           /\ \A a \in DOMAIN seqs : \A b \in DOMAIN seqs[a] :
                \E k \in DOMAIN all : all[k] = seqs[a][b]
           /\ DistinctAcross(seqs) => Distinct(all)
<1> DEFINE N == Len(seqs)
           P == Positions(seqs, N)
<1>1. all \in Seq(X) /\ Lists(all, seqs, N)
  BY FlattenFacts
<1>2. DOMAIN seqs = 1 .. N /\ DOMAIN all = 1 .. Len(all)
  BY <1>1, LenProperties
<1>3. \A a \in 1 .. N : DOMAIN seqs[a] = 1 .. Len(seqs[a]) /\ Len(seqs[a]) \in Nat
  <2> TAKE a \in 1 .. N
  <2>1. seqs[a] \in Seq(X)
    BY ElementOfSeq
  <2> QED BY <2>1, LenProperties
<1>4. PICK at \in [1 .. Len(all) -> P] :
        /\ \A k, l \in 1 .. Len(all) : at[k] = at[l] => k = l
        /\ \A p \in P : \E k \in 1 .. Len(all) : at[k] = p
        /\ \A k \in 1 .. Len(all) : all[k] = seqs[at[k][1]][at[k][2]]
  BY <1>1 DEF Lists
<1>5. \A p \in P : p[1] \in 1 .. N /\ p[2] \in DOMAIN seqs[p[1]] /\ p = <<p[1], p[2]>>
  BY <1>3 DEF Positions
<1>6. \A a \in 1 .. N : \A b \in DOMAIN seqs[a] :
        <<a, b>> \in P /\ <<a, b>>[1] = a /\ <<a, b>>[2] = b
  BY <1>3 DEF Positions
<1> HIDE DEF N, P
<1>7. \A k \in DOMAIN all :
        \E a \in DOMAIN seqs : \E b \in DOMAIN seqs[a] : all[k] = seqs[a][b]
  <2> TAKE k \in DOMAIN all
  <2>1. at[k] \in P
    BY <1>2, <1>4
  <2> QED BY <1>2, <1>4, <1>5, <2>1
<1>8. ASSUME NEW a \in DOMAIN seqs, NEW b \in DOMAIN seqs[a]
      PROVE  \E k \in DOMAIN all : all[k] = seqs[a][b]
  <2>1. PICK k \in 1 .. Len(all) : at[k] = <<a, b>>
    BY <1>2, <1>4, <1>6
  <2>2. at[k][1] = a /\ at[k][2] = b
    BY <1>2, <1>6, <2>1
  <2>3. all[k] = seqs[a][b] /\ k \in DOMAIN all
    BY <1>2, <1>4, <2>2
  <2> QED BY <2>3
<1>9. ASSUME DistinctAcross(seqs), NEW k \in DOMAIN all, NEW l \in DOMAIN all, all[k] = all[l]
      PROVE  k = l
  <2>1. at[k] \in P /\ at[l] \in P
    BY <1>2, <1>4
  <2>2. seqs[at[k][1]][at[k][2]] = seqs[at[l][1]][at[l][2]]
    BY <1>2, <1>4, <1>9
  <2>3. at[k][1] = at[l][1] /\ at[k][2] = at[l][2]
    BY <1>2, <1>5, <1>9, <2>1, <2>2 DEF DistinctAcross
  <2>4. at[k] = at[l]
    BY <1>5, <2>1, <2>3
  <2> QED BY <1>2, <1>4, <2>4
<1> QED BY <1>1, <1>7, <1>8, <1>9 DEF Distinct

\* A sequence without repetition has as many elements as positions.
LEMMA ListCardinality ==
    ASSUME NEW X, NEW seq \in Seq(X), Distinct(seq)
    PROVE  IsFiniteSet(ToSet(seq)) /\ Cardinality(ToSet(seq)) = Len(seq)
<1> DEFINE D == 1 .. Len(seq)
<1>1. DOMAIN seq = D /\ Len(seq) \in Nat
  BY LenProperties
<1>2. IsFiniteSet(D) /\ Cardinality(D) = Len(seq)
  BY <1>1, FS_Interval
<1>3. ToSet(seq) = {seq[k] : k \in D}
  BY <1>1 DEF ToSet
<1>4. seq \in [D -> ToSet(seq)]
  <2>1. seq = [k \in D |-> seq[k]]
    BY LenProperties
  <2> QED BY <1>3, <2>1
<1>5. seq \in Surjection(D, ToSet(seq)) /\ seq \in Injection(D, ToSet(seq))
  BY <1>1, <1>3, <1>4 DEF Distinct, Surjection, Injection, IsInjective
<1> HIDE DEF D
<1> QED BY <1>2, <1>5, FS_Surjection

-----------------------------------------------------------------------------
(* A sequence as the set of its elements.                                  *)

LEMMA SetOfSeq ==
    ASSUME NEW X, NEW seq \in Seq(X)
    PROVE  ToSet(seq) = {seq[k] : k \in 1 .. Len(seq)} /\ ToSet(seq) \subseteq X
<1>1. DOMAIN seq = 1 .. Len(seq) /\ \A k \in 1 .. Len(seq) : seq[k] \in X
  BY LenProperties, ElementOfSeq
<1> QED BY <1>1 DEF ToSet

LEMMA SetOfAppend ==
    ASSUME NEW X, NEW seq \in Seq(X), NEW x \in X
    PROVE  /\ Append(seq, x) \in Seq(X)
           /\ ToSet(Append(seq, x)) = ToSet(seq) \cup {x}
           /\ Distinct(seq) /\ x \notin ToSet(seq) => Distinct(Append(seq, x))
<1> DEFINE n == Len(seq)
           more == Append(seq, x)
<1>1. /\ n \in Nat /\ more \in Seq(X) /\ DOMAIN more = 1 .. n + 1 /\ DOMAIN seq = 1 .. n
      /\ \A k \in 1 .. n : more[k] = seq[k]
      /\ more[n + 1] = x
  BY LenProperties, AppendProperties
<1> HIDE DEF n, more
<1>2. ToSet(seq) = {seq[k] : k \in 1 .. n} /\ ToSet(more) = {more[k] : k \in 1 .. n + 1}
  BY <1>1 DEF ToSet
<1>3. ToSet(more) = ToSet(seq) \cup {x}
  BY <1>1, <1>2
<1>4. ASSUME Distinct(seq), x \notin ToSet(seq) PROVE Distinct(more)
  <2> SUFFICES ASSUME NEW k \in 1 .. n + 1, NEW l \in 1 .. n + 1, more[k] = more[l]
               PROVE  k = l
    BY <1>1 DEF Distinct
  <2>1. CASE k \in 1 .. n /\ l \in 1 .. n
    BY <1>1, <1>4, <2>1 DEF Distinct
  <2>2. CASE k = n + 1 /\ l \in 1 .. n
    BY <1>1, <1>2, <1>4, <2>2
  <2>3. CASE l = n + 1 /\ k \in 1 .. n
    BY <1>1, <1>2, <1>4, <2>3
  <2> QED BY <1>1, <2>1, <2>2, <2>3
<1> QED BY <1>1, <1>3, <1>4 DEF more

LEMMA SetOfTail ==
    ASSUME NEW X, NEW seq \in Seq(X), seq # <<>>, Distinct(seq)
    PROVE  /\ Head(seq) \in ToSet(seq) /\ Head(seq) \in X
           /\ Tail(seq) \in Seq(X)
           /\ ToSet(Tail(seq)) = ToSet(seq) \ {Head(seq)}
           /\ Distinct(Tail(seq))
<1> DEFINE n == Len(seq)
           rest == Tail(seq)
           head == Head(seq)
<1>1. /\ n \in Nat \ {0} /\ head = seq[1] /\ head \in X /\ rest \in Seq(X)
      /\ DOMAIN seq = 1 .. n /\ DOMAIN rest = 1 .. n - 1
      /\ \A k \in 1 .. n - 1 : rest[k] = seq[k + 1]
  BY EmptySeq, LenProperties, HeadTailProperties, ElementOfSeq
<1> HIDE DEF n, rest, head
<1>2. ToSet(seq) = {seq[k] : k \in 1 .. n} /\ ToSet(rest) = {rest[k] : k \in 1 .. n - 1}
  BY <1>1 DEF ToSet
<1>3. \A k \in 1 .. n - 1 : k + 1 \in 1 .. n /\ k + 1 # 1
  BY <1>1
<1>4. \A k \in 1 .. n : k # 1 => k - 1 \in 1 .. n - 1 /\ (k - 1) + 1 = k
  BY <1>1
<1>5. 1 \in 1 .. n
  BY <1>1
<1>6. \A k, l \in 1 .. n : seq[k] = seq[l] => k = l
  BY <1>1 DEF Distinct
<1>7. \A x \in ToSet(rest) : x \in ToSet(seq) /\ x # head
  BY <1>1, <1>2, <1>3, <1>5, <1>6
<1>8. \A x \in ToSet(seq) : x # head => x \in ToSet(rest)
  BY <1>1, <1>2, <1>4
<1>9. Distinct(rest)
  <2> SUFFICES ASSUME NEW k \in 1 .. n - 1, NEW l \in 1 .. n - 1, rest[k] = rest[l]
               PROVE  k = l
    BY <1>1 DEF Distinct
  <2>1. k + 1 = l + 1
    BY <1>1, <1>3, <1>6
  <2> QED BY <2>1
<1>10. head \in ToSet(seq)
  BY <1>1, <1>2, <1>5
<1> QED BY <1>1, <1>7, <1>8, <1>9, <1>10 DEF head, rest

LEMMA SetOfConcat ==
    ASSUME NEW X, NEW a \in Seq(X), NEW b \in Seq(X)
    PROVE  /\ a \o b \in Seq(X)
           /\ ToSet(a \o b) = ToSet(a) \cup ToSet(b)
           /\ Distinct(a) /\ Distinct(b) /\ ToSet(a) \cap ToSet(b) = {} => Distinct(a \o b)
<1> DEFINE m == Len(a)
           n == Len(b)
           both == a \o b
<1>1. /\ m \in Nat /\ n \in Nat /\ both \in Seq(X)
      /\ DOMAIN a = 1 .. m /\ DOMAIN b = 1 .. n /\ DOMAIN both = 1 .. m + n
      /\ \A k \in 1 .. m + n : both[k] = IF k <= m THEN a[k] ELSE b[k - m]
  BY LenProperties, ConcatProperties
<1> HIDE DEF m, n, both
<1>2. /\ ToSet(a) = {a[k] : k \in 1 .. m} /\ ToSet(b) = {b[k] : k \in 1 .. n}
      /\ ToSet(both) = {both[k] : k \in 1 .. m + n}
  BY <1>1 DEF ToSet
<1>3. \A k \in 1 .. m + n : IF k <= m THEN k \in 1 .. m ELSE k - m \in 1 .. n
  BY <1>1
<1>4. \A k \in 1 .. m : k \in 1 .. m + n /\ k <= m
  BY <1>1
<1>5. \A k \in 1 .. n : k + m \in 1 .. m + n /\ ~(k + m <= m) /\ (k + m) - m = k
  BY <1>1
<1>6. \A x \in ToSet(both) : x \in ToSet(a) \cup ToSet(b)
  BY <1>1, <1>2, <1>3
<1>7. \A x \in ToSet(a) : x \in ToSet(both)
  BY <1>1, <1>2, <1>4
<1>8. \A x \in ToSet(b) : x \in ToSet(both)
  BY <1>1, <1>2, <1>5
<1>9. ASSUME Distinct(a), Distinct(b), ToSet(a) \cap ToSet(b) = {} PROVE Distinct(both)
  <2> SUFFICES ASSUME NEW k \in 1 .. m + n, NEW l \in 1 .. m + n, both[k] = both[l]
               PROVE  k = l
    BY <1>1 DEF Distinct
  <2>1. CASE k <= m /\ l <= m
    BY <1>1, <1>3, <1>9, <2>1 DEF Distinct
  <2>2. CASE ~(k <= m) /\ ~(l <= m)
    <3>1. k - m \in 1 .. n /\ l - m \in 1 .. n /\ b[k - m] = b[l - m]
      BY <1>1, <1>3, <2>2
    <3>2. k - m = l - m
      BY <1>1, <1>9, <3>1 DEF Distinct
    <3> QED BY <1>1, <3>2
  <2>3. CASE k <= m /\ ~(l <= m)
    BY <1>1, <1>2, <1>3, <1>9, <2>3
  <2>4. CASE ~(k <= m) /\ l <= m
    BY <1>1, <1>2, <1>3, <1>9, <2>4
  <2> QED BY <2>1, <2>2, <2>3, <2>4
<1> QED BY <1>1, <1>6, <1>7, <1>8, <1>9 DEF both

LEMMA SetOfAscending ==
    ASSUME NEW X, NEW S, S \subseteq Nat, S \subseteq X, IsFiniteSet(S)
    PROVE  Ascending(S) \in Seq(X) /\ ToSet(Ascending(S)) = S /\ Distinct(Ascending(S))
<1> DEFINE n == Cardinality(S)
           sorted == Ascending(S)
<1>1. /\ n \in Nat /\ sorted \in [1 .. n -> S]
      /\ \A k, l \in 1 .. n : sorted[k] = sorted[l] => k = l
      /\ \A x \in S : \E k \in 1 .. n : sorted[k] = x
  BY AscendingFacts
<1> HIDE DEF n, sorted
<1>2. sorted \in [1 .. n -> X]
  BY <1>1
<1>3. sorted \in Seq(X) /\ DOMAIN sorted = 1 .. n
  BY <1>1, <1>2, FunctionIsSeq
<1>4. ToSet(sorted) = S
  <2>1. ToSet(sorted) = {sorted[k] : k \in 1 .. n}
    BY <1>3 DEF ToSet
  <2>2. \A k \in 1 .. n : sorted[k] \in S
    BY <1>1
  <2>3. \A x \in S : x \in {sorted[k] : k \in 1 .. n}
    BY <1>1
  <2> QED BY <2>1, <2>2, <2>3
<1>5. Distinct(sorted)
  BY <1>1, <1>3 DEF Distinct
<1> QED BY <1>3, <1>4, <1>5 DEF sorted

=============================================================================

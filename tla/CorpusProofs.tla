----------------------------- MODULE CorpusProofs -----------------------------
(***************************************************************************)
(* What holds of every corpus: the depth-first search of validate_contracts *)
(* accepts exactly the corpora without issues and without a cycle, and     *)
(* what follows from that for the sort, the queries, the frontier and the  *)
(* scores.                                                                 *)
(***************************************************************************)
EXTENDS Corpus, DataLemmas

USE DEF At

-----------------------------------------------------------------------------
(* The corpus does not change, and without issues every Contract has its   *)
(* one declaration.                                                        *)

LEMMA DocumentStays == ASSUME [Next]_vars PROVE document' = document
BY DEF Next, vars, graphVars, GraphNext, Load, VisitRoot, SkipDependency, VisitDependency,
       CloseCycle, Return, Accept, BuildGraph, TakeFromQueue, CheckOrder, WriteOutput,
       ReadLevels, CaseResult, searchVars, sortVars

LEMMA CorpusStays ==
    ASSUME document' = document
    PROVE  Known' = Known /\ prerequisites' = prerequisites /\ Issues' = Issues /\ Acyclic' = Acyclic
<1>1. Loaded' = Loaded
  BY DEF Loaded
<1>2. Known' = Known
  BY <1>1 DEF Known
<1>3. prerequisites' = prerequisites
  BY <1>1, <1>2 DEF prerequisites, Declaration
<1>4. Issues' = Issues
  BY <1>1, <1>2 DEF Issues, Unreadable, Duplicate, NamesWrongly, MixesNone
<1>5. QED BY <1>2, <1>3, <1>4 DEF Acyclic

\* Unknown prerequisites and second declarations are issues.
LEMMA PrerequisitesKnown ==
    ASSUME document \in Corpora, Issues = {}
    PROVE  prerequisites \in [Known -> SUBSET Known]
<1> SUFFICES ASSUME NEW id \in Known PROVE document[Declaration(id)].prerequisites \subseteq Known
  BY DEF prerequisites
<1>1. PICK file \in Loaded : document[file].id = id
  BY DEF Known
<1>2. ASSUME NEW other \in Loaded, document[other].id = id PROVE other = file
  <2>1. file \in Nat /\ other \in Nat
    BY GraphAssumption DEF Loaded
  <2>2. ~(file < other) /\ ~(other < file)
    BY <1>1, <1>2 DEF Issues, Duplicate
  <2>3. QED BY <2>1, <2>2
<1>3. Declaration(id) \in Loaded
  <2>1. file <= file
    BY GraphAssumption DEF Loaded
  <2>2. \A other \in Loaded : document[other].id = id => other <= file
    BY <1>2, <2>1
  <2>3. QED BY <1>1, <2>2 DEF Declaration
<1>4. QED BY <1>3 DEF Issues, NamesWrongly

-----------------------------------------------------------------------------
(* The search.                                                             *)

\* The stack: nodes that are not done, each once; each is a prerequisite of the one
\* below it, and what a node still needs is done, left or next on the stack.
StackInv ==
    /\ path \in Seq([node : Known, left : SUBSET Known])
    /\ \A i \in 1..Len(path) :
         /\ path[i].node \notin visited
         /\ path[i].left \subseteq prerequisites[path[i].node]
         /\ i = Len(path) => prerequisites[path[i].node] \subseteq visited \cup path[i].left
    /\ \A i \in 1..Len(path) : i < Len(path) =>
         /\ path[i + 1].node \in prerequisites[path[i].node]
         /\ prerequisites[path[i].node] \subseteq visited \cup path[i].left \cup {path[i + 1].node}
    /\ \A i \in 1..Len(path), j \in 1..Len(path) : path[i].node = path[j].node => i = j

AcyclicIn(nodes) ==
    \A ids \in SUBSET nodes : ids # {} => \E id \in ids : prerequisites[id] \cap ids = {}

\* What is done needs only what is done, and has no cycle.
VisitedInv ==
    /\ visited \subseteq Known
    /\ \A id \in visited : prerequisites[id] \subseteq visited
    /\ AcyclicIn(visited)

SearchInv ==
    /\ document \in Corpora
    /\ phase \in {"load", "search", "rejected", "accepted", "sort", "write", "raised", "built"}
    /\ phase = "load" => path = <<>> /\ visited = {} /\ cycle = <<>>
    /\ phase = "search" => Issues = {} /\ cycle = <<>> /\ StackInv /\ VisitedInv
    /\ phase = "rejected" => ~(Issues = {} /\ Acyclic)
    /\ phase \notin {"load", "search", "rejected"} => Issues = {} /\ Acyclic /\ cycle = <<>>
    /\ cycle # <<>> =>
         /\ Len(cycle) > 1 /\ cycle[1] = cycle[Len(cycle)]
         /\ \A i \in 1..(Len(cycle) - 1) : cycle[i + 1] \in prerequisites[cycle[i]]

LEMMA SearchInit == Init => SearchInv
BY DEF Init, GraphInit, SearchInv

LEMMA SearchLoad == ASSUME SearchInv, Load PROVE SearchInv'
<1>1. document' = document /\ path' = <<>> /\ visited' = {} /\ cycle' = <<>>
  BY DEF Load, SearchInv, searchVars
<1>2. /\ Known' = Known /\ prerequisites' = prerequisites /\ Issues' = Issues
      /\ Acyclic' = Acyclic
  BY <1>1, CorpusStays
<1>3. StackInv'
  BY <1>1 DEF StackInv
<1>4. VisitedInv'
  BY <1>1 DEF VisitedInv, AcyclicIn
<1>5. QED BY <1>1, <1>2, <1>3, <1>4 DEF Load, SearchInv

\* A step of the search leaves the corpus, what was found and what was written.
LEMMA SearchOn ==
    ASSUME SearchInv, phase = "search", phase' = "search", cycle' = cycle, document' = document,
           StackInv', VisitedInv'
    PROVE  SearchInv'
<1>1. Issues' = Issues
  BY CorpusStays
<1>2. QED BY <1>1 DEF SearchInv

LEMMA SearchRoot == ASSUME SearchInv, VisitRoot PROVE SearchInv'
<1>1. PICK node \in Known \ visited : path' = <<[node |-> node, left |-> Dependencies(node)]>>
  BY DEF VisitRoot
<1>2. /\ document' = document /\ visited' = visited /\ phase = "search" /\ phase' = phase
      /\ cycle' = cycle
  BY DEF VisitRoot
<1>3. Known' = Known /\ prerequisites' = prerequisites
  BY <1>2, CorpusStays
<1>4. prerequisites \in [Known -> SUBSET Known]
  BY <1>2, PrerequisitesKnown DEF SearchInv
<1>5. Dependencies(node) = prerequisites[node] /\ Dependencies(node) \subseteq Known
  BY <1>4 DEF Dependencies
<1> DEFINE entry == [node |-> node, left |-> Dependencies(node)]
<1>6. entry \in [node : Known, left : SUBSET Known]
  BY <1>5
<1>7. entry.node = node /\ entry.left = prerequisites[node]
  BY <1>5
<1> HIDE DEF entry
<1>8. path' = <<entry>>
  BY <1>1 DEF entry
<1>9. Len(path') = 1 /\ path'[1] = entry /\ path' \in Seq([node : Known, left : SUBSET Known])
  BY <1>6, <1>8
<1>10. StackInv'
  BY <1>2, <1>3, <1>7, <1>9 DEF StackInv
<1>11. VisitedInv'
  BY <1>2, <1>3 DEF SearchInv, VisitedInv, AcyclicIn
<1>12. QED BY <1>2, <1>10, <1>11, SearchOn

\* The stack whose top has looked at a dependency.
LEMMA TopMarked ==
    ASSUME StackInv, path # <<>>, NEW dependency
    PROVE  /\ TopWithout(dependency) \in Seq([node : Known, left : SUBSET Known])
           /\ Len(TopWithout(dependency)) = Len(path)
           /\ \A i \in 1..Len(path) :
                /\ TopWithout(dependency)[i].node = path[i].node
                /\ i < Len(path) => TopWithout(dependency)[i].left = path[i].left
                /\ i = Len(path) => TopWithout(dependency)[i].left = path[i].left \ {dependency}
<1> DEFINE Entry == [node : Known, left : SUBSET Known]
           top == Len(path)
           marked == [path[top] EXCEPT !.left = @ \ {dependency}]
<1>1. path \in Seq(Entry) /\ top \in 1..Len(path)
  BY EmptySeq DEF StackInv
<1>2. path[top] \in Entry
  BY <1>1, ElementOfSeq
<1>3. marked \in Entry
  BY <1>2
<1>4. marked.node = path[top].node /\ marked.left = path[top].left \ {dependency}
  BY <1>2
<1>5. TopWithout(dependency) = [path EXCEPT ![top] = marked]
  BY DEF TopWithout
<1> HIDE DEF marked, Entry
<1>6. /\ [path EXCEPT ![top] = marked] \in Seq(Entry)
      /\ Len([path EXCEPT ![top] = marked]) = Len(path)
      /\ \A i \in 1..Len(path) : [path EXCEPT ![top] = marked][i] = IF i = top THEN marked ELSE path[i]
  BY <1>1, <1>3, ExceptSeq
<1>7. ASSUME NEW i \in 1..Len(path)
      PROVE  /\ TopWithout(dependency)[i].node = path[i].node
             /\ i < Len(path) => TopWithout(dependency)[i].left = path[i].left
             /\ i = Len(path) => TopWithout(dependency)[i].left = path[i].left \ {dependency}
  <2>1. TopWithout(dependency)[i] = IF i = top THEN marked ELSE path[i]
    BY <1>5, <1>6
  <2>2. CASE i = top
    BY <1>4, <2>1, <2>2
  <2>3. CASE i # top
    BY <2>1, <2>3
  <2>4. QED BY <2>2, <2>3
<1>8. TopWithout(dependency) \in Seq(Entry) /\ Len(TopWithout(dependency)) = Len(path)
  BY <1>5, <1>6
<1>9. QED BY <1>7, <1>8 DEF Entry

LEMMA SearchSkip == ASSUME SearchInv, SkipDependency PROVE SearchInv'
<1>1. PICK dependency \in Top.left : dependency \in visited /\ path' = TopWithout(dependency)
  BY DEF SkipDependency, DoneWith
<1>2. /\ document' = document /\ visited' = visited /\ phase = "search" /\ phase' = phase
      /\ cycle' = cycle /\ path # <<>>
  BY DEF SkipDependency
<1>3. Known' = Known /\ prerequisites' = prerequisites
  BY <1>2, CorpusStays
<1>4. StackInv
  BY <1>2 DEF SearchInv
<1>5. /\ path' \in Seq([node : Known, left : SUBSET Known])
      /\ Len(path') = Len(path)
      /\ \A i \in 1..Len(path) :
           /\ path'[i].node = path[i].node
           /\ i < Len(path) => path'[i].left = path[i].left
           /\ i = Len(path) => path'[i].left = path[i].left \ {dependency}
  BY <1>1, <1>2, <1>4, TopMarked
<1>6. Len(path) \in Nat
  BY <1>4 DEF StackInv
<1>7. StackInv'
  <2>1. \A i \in 1..Len(path) :
          /\ path'[i].node \notin visited
          /\ path'[i].left \subseteq prerequisites[path'[i].node]
          /\ i = Len(path) => prerequisites[path'[i].node] \subseteq visited \cup path'[i].left
    BY <1>1, <1>4, <1>5, <1>6 DEF StackInv
  <2>2. \A i \in 1..Len(path) : i < Len(path) =>
          /\ path'[i + 1].node \in prerequisites[path'[i].node]
          /\ prerequisites[path'[i].node]
               \subseteq visited \cup path'[i].left \cup {path'[i + 1].node}
    <3> SUFFICES ASSUME NEW i \in 1..Len(path), i < Len(path)
                 PROVE  /\ path'[i + 1].node \in prerequisites[path'[i].node]
                        /\ prerequisites[path'[i].node]
                             \subseteq visited \cup path'[i].left \cup {path'[i + 1].node}
      OBVIOUS
    <3>1. i + 1 \in 1..Len(path)
      BY <1>6
    <3>2. /\ path'[i + 1].node = path[i + 1].node /\ path'[i].node = path[i].node
          /\ path'[i].left = path[i].left
      BY <1>5, <3>1
    <3>3. QED BY <1>4, <3>2 DEF StackInv
  <2>3. \A i \in 1..Len(path), j \in 1..Len(path) : path'[i].node = path'[j].node => i = j
    BY <1>4, <1>5 DEF StackInv
  <2>4. QED BY <1>2, <1>3, <1>5, <2>1, <2>2, <2>3 DEF StackInv
<1>8. VisitedInv'
  BY <1>2, <1>3 DEF SearchInv, VisitedInv, AcyclicIn
<1>9. QED BY <1>2, <1>7, <1>8, SearchOn

LEMMA SearchDown == ASSUME SearchInv, VisitDependency PROVE SearchInv'
<1>1. PICK dependency \in Top.left :
        /\ dependency \notin visited /\ dependency \notin Visiting
        /\ path' = Append(TopWithout(dependency),
                          [node |-> dependency, left |-> Dependencies(dependency)])
  BY DEF VisitDependency, DoneWith
<1>2. /\ document' = document /\ visited' = visited /\ phase = "search" /\ phase' = phase
      /\ cycle' = cycle /\ path # <<>>
  BY DEF VisitDependency
<1>3. Known' = Known /\ prerequisites' = prerequisites
  BY <1>2, CorpusStays
<1>4. StackInv /\ prerequisites \in [Known -> SUBSET Known]
  BY <1>2, PrerequisitesKnown DEF SearchInv
<1> DEFINE n == Len(path)
           marked == TopWithout(dependency)
           entry == [node |-> dependency, left |-> Dependencies(dependency)]
<1>5. n \in Nat /\ n >= 1 /\ path \in Seq([node : Known, left : SUBSET Known])
  BY <1>2, <1>4 DEF StackInv
<1>6. dependency \in prerequisites[path[n].node] /\ path[n].node \in Known /\ dependency \in Known
  <2>1. dependency \in path[n].left
    BY DEF Top
  <2>2. path[n].left \subseteq prerequisites[path[n].node]
    BY <1>4, <1>5 DEF StackInv
  <2>5. n \in 1..Len(path)
    BY <1>5
  <2>3. path[n] \in [node : Known, left : SUBSET Known]
    BY <1>5, <2>5, ElementOfSeq
  <2>4. QED BY <1>4, <2>1, <2>2, <2>3
<1>7. /\ entry \in [node : Known, left : SUBSET Known]
      /\ entry.node = dependency /\ entry.left = prerequisites[dependency]
  BY <1>4, <1>6 DEF Dependencies
<1>8. /\ marked \in Seq([node : Known, left : SUBSET Known]) /\ Len(marked) = n
      /\ \A i \in 1..n :
           /\ marked[i].node = path[i].node
           /\ i < n => marked[i].left = path[i].left
           /\ i = n => marked[i].left = path[i].left \ {dependency}
  BY <1>2, <1>4, TopMarked
<1>9. \A i \in 1..n : path[i].node # dependency
  BY <1>1, <1>5 DEF Visiting
<1> HIDE DEF marked, entry
<1>10. /\ path' \in Seq([node : Known, left : SUBSET Known]) /\ Len(path') = n + 1
       /\ path'[n + 1] = entry
       /\ \A i \in 1..n : path'[i] = marked[i]
  <2>1. path' = Append(marked, entry)
    BY <1>1 DEF marked, entry
  <2>2. QED BY <1>5, <1>7, <1>8, <2>1
<1>11. StackInv'
  <2>1. ASSUME NEW i \in 1..(n + 1)
        PROVE  /\ path'[i].node \notin visited
               /\ path'[i].left \subseteq prerequisites[path'[i].node]
               /\ i = n + 1 => prerequisites[path'[i].node] \subseteq visited \cup path'[i].left
    <3>1. CASE i = n + 1
      BY <1>1, <1>7, <1>10, <3>1
    <3>2. CASE i \in 1..n
      <4>1. path'[i].node = path[i].node /\ path'[i].left \subseteq path[i].left /\ i # n + 1
        BY <1>5, <1>8, <1>10, <3>2
      <4>2. path[i].node \notin visited /\ path[i].left \subseteq prerequisites[path[i].node]
        BY <1>4, <3>2 DEF StackInv
      <4>3. QED BY <4>1, <4>2
    <3>3. QED BY <1>5, <3>1, <3>2
  <2>2. ASSUME NEW i \in 1..n
        PROVE  /\ path'[i + 1].node \in prerequisites[path'[i].node]
               /\ prerequisites[path'[i].node]
                    \subseteq visited \cup path'[i].left \cup {path'[i + 1].node}
    <3>1. CASE i = n
      <4>1. path'[i + 1].node = dependency /\ path'[i].node = path[n].node
            /\ path'[i].left = path[n].left \ {dependency}
        BY <1>5, <1>7, <1>8, <1>10, <3>1
      <4>2. prerequisites[path[n].node] \subseteq visited \cup path[n].left
        BY <1>4, <1>5 DEF StackInv
      <4>3. QED BY <1>6, <4>1, <4>2
    <3>2. CASE i < n
      <4>1. i + 1 \in 1..n
        BY <1>5, <3>2
      <4>2. /\ path'[i + 1].node = path[i + 1].node /\ path'[i].node = path[i].node
            /\ path'[i].left = path[i].left
        BY <1>8, <1>10, <3>2, <4>1
      <4>3. QED BY <1>4, <3>2, <4>2 DEF StackInv
    <3>3. QED BY <1>5, <3>1, <3>2
  <2>3. ASSUME NEW i \in 1..(n + 1), NEW j \in 1..(n + 1), path'[i].node = path'[j].node
        PROVE  i = j
    <3>1. \A k \in 1..n : path'[k].node = path[k].node
      BY <1>8, <1>10
    <3>2. path'[n + 1].node = dependency
      BY <1>7, <1>10
    <3>3. i \in 1..n \/ i = n + 1
      BY <1>5
    <3>4. j \in 1..n \/ j = n + 1
      BY <1>5
    <3>5. QED BY <1>4, <1>9, <2>3, <3>1, <3>2, <3>3, <3>4 DEF StackInv
  <2>4. \A i \in 1..(n + 1) : i < n + 1 => i \in 1..n
    BY <1>5
  <2>5. QED BY <1>2, <1>3, <1>10, <2>1, <2>2, <2>3, <2>4 DEF StackInv
<1>12. VisitedInv'
  BY <1>2, <1>3 DEF SearchInv, VisitedInv, AcyclicIn
<1>13. QED BY <1>2, <1>11, <1>12, SearchOn

\* A dependency that is on the stack: from there to the top, each node needs the
\* next, and the top needs the dependency.
LEMMA SearchCloses == ASSUME SearchInv, CloseCycle PROVE SearchInv'
<1> DEFINE n == Len(path)
<1>1. PICK dependency \in Top.left :
        /\ dependency \in Visiting
        /\ cycle' = LET back == SubSeq(path, Position(dependency), n)
                    IN  Append([i \in DOMAIN back |-> back[i].node], dependency)
  BY DEF CloseCycle
<1>2. /\ document' = document /\ phase = "search" /\ phase' = "rejected" /\ path # <<>>
  BY DEF CloseCycle
<1>3. /\ Known' = Known /\ prerequisites' = prerequisites
      /\ Issues' = Issues /\ Acyclic' = Acyclic
  BY <1>2, CorpusStays
<1>4. StackInv
  BY <1>2 DEF SearchInv
<1>5. n \in Nat /\ n >= 1 /\ path \in Seq([node : Known, left : SUBSET Known])
  BY <1>2, <1>4, EmptySeq DEF StackInv
<1> DEFINE p == Position(dependency)
<1>6. p \in 1..n /\ path[p].node = dependency
  <2>1. DOMAIN path = 1..n
    BY <1>5
  <2>2. \E i \in 1..n : path[i].node = dependency
    BY <1>1, <2>1 DEF Visiting
  <2>3. QED BY <2>1, <2>2 DEF Position
<1> HIDE DEF p
<1>7. dependency \in prerequisites[path[n].node]
  BY <1>4, <1>5 DEF Top, StackInv
<1>8. \A i \in 1..n : path[i].node \in Known
  <2> SUFFICES ASSUME NEW i \in 1..n PROVE path[i].node \in Known
    OBVIOUS
  <2>1. path[i] \in [node : Known, left : SUBSET Known]
    BY <1>5, ElementOfSeq
  <2>2. QED BY <2>1
<1>9. \A i \in 1..n : i < n => path[i + 1].node \in prerequisites[path[i].node]
  BY <1>4 DEF StackInv
<1>10. ~Acyclic
  <2> DEFINE ids == {path[i].node : i \in p..n}
  <2>1. \A i \in p..n : i \in 1..n
    BY <1>5, <1>6
  <2>2. ids \subseteq Known /\ dependency \in ids
    <3>1. p \in p..n
      BY <1>5, <1>6
    <3>2. QED BY <1>6, <1>8, <2>1, <3>1
  <2>3. ASSUME NEW id \in ids PROVE prerequisites[id] \cap ids # {}
    <3>1. PICK i \in p..n : id = path[i].node
      OBVIOUS
    <3>2. CASE i = n
      BY <1>7, <2>2, <3>1, <3>2
    <3>3. CASE i < n
      <4>1. i + 1 \in p..n
        BY <1>5, <1>6, <3>3
      <4>2. path[i + 1].node \in ids
        BY <4>1
      <4>3. QED BY <1>9, <2>1, <3>1, <3>3, <4>2
    <3>4. i = n \/ i < n
      BY <1>5, <1>6
    <3>5. QED BY <3>2, <3>3, <3>4
  <2> HIDE DEF ids
  <2>4. QED BY <2>2, <2>3 DEF Acyclic
<1> DEFINE back == SubSeq(path, p, n)
           m == (n - p) + 1
           nodes == [i \in 1..m |-> back[i].node]
<1>11. /\ m \in Nat /\ m >= 1 /\ Len(back) = m /\ DOMAIN back = 1..m
       /\ \A i \in 1..m : back[i] = path[(p + i) - 1]
  <2>1. \A i \in p..n : path[i] \in [node : Known, left : SUBSET Known]
    <3>1. \A i \in p..n : i \in 1..n
      BY <1>5, <1>6
    <3>2. QED BY <1>5, <3>1, ElementOfSeq
  <2>2. p \in Int /\ n \in Int /\ p <= n /\ m \in Nat /\ m >= 1
    BY <1>5, <1>6
  <2>3. /\ back \in Seq([node : Known, left : SUBSET Known])
        /\ Len(back) = IF p <= n THEN n - p + 1 ELSE 0
        /\ \A i \in 1..(n - p + 1) : back[i] = path[p + i - 1]
    BY <2>1, <2>2, SubSeqProperties
  <2> HIDE DEF back
  <2>4. QED BY <2>2, <2>3
<1> HIDE DEF back
<1>12. cycle' = Append(nodes, dependency)
  BY <1>1, <1>11 DEF back, p
<1>13. nodes \in Seq(Known) /\ Len(nodes) = m /\ \A i \in 1..m : nodes[i] = path[(p + i) - 1].node
  <2>1. \A i \in 1..m : (p + i) - 1 \in 1..n
    BY <1>5, <1>6
  <2>2. \A i \in 1..m : nodes[i] = path[(p + i) - 1].node /\ nodes[i] \in Known
    BY <1>8, <1>11, <2>1
  <2>3. nodes \in [1..m -> Known]
    BY <2>2
  <2>4. nodes \in Seq(Known)
    BY <1>11, <2>3
  <2>5. Len(nodes) = m
    BY <1>11, <2>4
  <2>6. QED BY <2>2, <2>4, <2>5
<1> HIDE DEF nodes, m
<1>14. dependency \in Known
  BY <1>6, <1>8
<1>15. /\ Len(cycle') = m + 1 /\ cycle'[m + 1] = dependency
       /\ \A i \in 1..m : cycle'[i] = path[(p + i) - 1].node
  BY <1>12, <1>13, <1>14, AppendProperties
<1>16. /\ Len(cycle') > 1 /\ cycle'[1] = cycle'[Len(cycle')]
       /\ \A i \in 1..(Len(cycle') - 1) : cycle'[i + 1] \in prerequisites[cycle'[i]]
  <2>1. Len(cycle') > 1
    BY <1>11, <1>15
  <2>2. cycle'[1] = dependency
    <3>1. 1 \in 1..m /\ (p + 1) - 1 = p
      BY <1>6, <1>11
    <3>2. QED BY <1>6, <1>15, <3>1
  <2>3. ASSUME NEW i \in 1..m PROVE cycle'[i + 1] \in prerequisites[cycle'[i]]
    <3>1. CASE i = m
      <4>1. (p + m) - 1 = n
        BY <1>5, <1>6 DEF m
      <4>2. QED BY <1>7, <1>15, <3>1, <4>1
    <3>2. CASE i < m
      <4>1. i + 1 \in 1..m /\ (p + i) - 1 \in 1..n /\ (p + i) - 1 < n
            /\ (p + (i + 1)) - 1 = ((p + i) - 1) + 1
        BY <1>5, <1>6, <1>11, <3>2 DEF m
      <4>2. cycle'[i] = path[(p + i) - 1].node /\ cycle'[i + 1] = path[((p + i) - 1) + 1].node
        BY <1>15, <4>1
      <4>3. QED BY <1>9, <4>1, <4>2
    <3>3. QED BY <1>11, <3>1, <3>2
  <2>4. 1..(Len(cycle') - 1) = 1..m
    BY <1>11, <1>15
  <2>5. QED BY <1>15, <2>1, <2>2, <2>3, <2>4
<1>17. QED BY <1>2, <1>3, <1>10, <1>16 DEF SearchInv

\* A node that returns needs only what is done, and nothing that is done needs it.
LEMMA SearchReturns == ASSUME SearchInv, Return PROVE SearchInv'
<1> DEFINE n == Len(path)
           node == path[n].node
<1>1. /\ document' = document /\ phase = "search" /\ phase' = phase /\ cycle' = cycle
      /\ path # <<>> /\ path[n].left = {} /\ visited' = visited \cup {node}
      /\ path' = SubSeq(path, 1, n - 1)
  BY DEF Return, Top, Front
<1>2. Known' = Known /\ prerequisites' = prerequisites
  BY <1>1, CorpusStays
<1>3. StackInv /\ VisitedInv
  BY <1>1 DEF SearchInv
<1>4. n \in Nat /\ n >= 1 /\ n \in 1..n /\ path \in Seq([node : Known, left : SUBSET Known])
  <2>1. path \in Seq([node : Known, left : SUBSET Known])
    BY <1>3 DEF StackInv
  <2>2. n \in Nat \ {0}
    BY <1>1, <2>1, EmptySeq
  <2>3. QED BY <2>1, <2>2
<1>5. node \in Known /\ node \notin visited /\ prerequisites[node] \subseteq visited
  <2>1. path[n] \in [node : Known, left : SUBSET Known]
    BY <1>4, ElementOfSeq
  <2>2. prerequisites[node] \subseteq visited \cup path[n].left /\ node \notin visited
    BY <1>3, <1>4 DEF StackInv
  <2>3. QED BY <1>1, <2>1, <2>2
<1>6. /\ path' \in Seq([node : Known, left : SUBSET Known]) /\ Len(path') = n - 1
      /\ \A i \in 1..(n - 1) : path'[i] = path[i]
  <2>1. \A i \in 1..(n - 1) : i \in 1..n
    BY <1>4
  <2>2. \A i \in 1..(n - 1) : path[i] \in [node : Known, left : SUBSET Known]
    BY <1>4, <2>1, ElementOfSeq
  <2>3. /\ SubSeq(path, 1, n - 1) \in Seq([node : Known, left : SUBSET Known])
        /\ Len(SubSeq(path, 1, n - 1)) = IF 1 <= n - 1 THEN n - 1 - 1 + 1 ELSE 0
        /\ \A i \in 1..(n - 1 - 1 + 1) : SubSeq(path, 1, n - 1)[i] = path[1 + i - 1]
    <3> DEFINE last == n - 1
    <3>1. 1 \in Int /\ last \in Int
      BY <1>4
    <3>2. \A i \in 1..last : path[i] \in [node : Known, left : SUBSET Known]
      BY <2>2
    <3> HIDE DEF last
    <3>3. /\ SubSeq(path, 1, last) \in Seq([node : Known, left : SUBSET Known])
          /\ Len(SubSeq(path, 1, last)) = IF 1 <= last THEN last - 1 + 1 ELSE 0
          /\ \A i \in 1..(last - 1 + 1) : SubSeq(path, 1, last)[i] = path[1 + i - 1]
      BY <3>1, <3>2, SubSeqProperties
    <3>4. QED BY <3>3 DEF last
  <2>4. Len(path') = n - 1 /\ 1..(n - 1 - 1 + 1) = 1..(n - 1)
    <3> HIDE DEF n
    <3>1. n \in Nat /\ n >= 1
      BY <1>4
    <3>2. n - 1 - 1 + 1 = n - 1
      BY <3>1
    <3>3. 1 <= n - 1 \/ n - 1 = 0
      BY <3>1
    <3>4. QED BY <1>1, <2>3, <3>2, <3>3
  <2>5. \A i \in 1..(n - 1) : 1 + i - 1 = i
    BY <1>4
  <2>6. QED BY <1>1, <2>3, <2>4, <2>5
<1>7. StackInv'
  <2>1. ASSUME NEW i \in 1..(n - 1)
        PROVE  /\ path[i].node \notin visited \cup {node}
               /\ path[i].left \subseteq prerequisites[path[i].node]
               /\ i = n - 1 => prerequisites[path[i].node] \subseteq (visited \cup {node}) \cup path[i].left
               /\ i < n - 1 =>
                    /\ path[i + 1].node \in prerequisites[path[i].node]
                    /\ prerequisites[path[i].node]
                         \subseteq (visited \cup {node}) \cup path[i].left \cup {path[i + 1].node}
    <3>1. i \in 1..n /\ i < n /\ i # n /\ (i = n - 1 => i + 1 = n)
      BY <1>4
    <3>2. path[i].node # node
      BY <1>3, <1>4, <3>1 DEF StackInv
    <3>3. path[i].node \notin visited /\ path[i].left \subseteq prerequisites[path[i].node]
      BY <1>3, <3>1 DEF StackInv
    <3>4. /\ path[i + 1].node \in prerequisites[path[i].node]
          /\ prerequisites[path[i].node] \subseteq visited \cup path[i].left \cup {path[i + 1].node}
      BY <1>3, <3>1 DEF StackInv
    <3>5. QED BY <3>1, <3>2, <3>3, <3>4
  <2>2. \A i \in 1..(n - 1) : i < n - 1 => path'[i] = path[i] /\ path'[i + 1] = path[i + 1]
    <3>1. \A i \in 1..(n - 1) : i < n - 1 => i + 1 \in 1..(n - 1)
      BY <1>4
    <3>2. QED BY <1>6, <3>1
  <2>3. \A i \in 1..(n - 1), j \in 1..(n - 1) : path'[i].node = path'[j].node => i = j
    <3>1. \A i \in 1..(n - 1) : i \in 1..n
      BY <1>4
    <3>2. QED BY <1>3, <1>6, <3>1 DEF StackInv
  <2>4. QED BY <1>1, <1>2, <1>6, <2>1, <2>2, <2>3 DEF StackInv
<1>8. VisitedInv'
  <2>1. visited \cup {node} \subseteq Known
    BY <1>3, <1>5 DEF VisitedInv
  <2>2. \A id \in visited \cup {node} : prerequisites[id] \subseteq visited \cup {node}
    BY <1>3, <1>5 DEF VisitedInv
  <2>3. ASSUME NEW ids \in SUBSET (visited \cup {node}), ids # {}
        PROVE  \E id \in ids : prerequisites[id] \cap ids = {}
    <3>1. CASE ids \cap visited = {}
      <4>1. node \in ids
        BY <2>3, <3>1
      <4>2. prerequisites[node] \cap ids = {}
        BY <1>5, <3>1
      <4>3. QED BY <4>1, <4>2
    <3>2. CASE ids \cap visited # {}
      <4>1. PICK id \in ids \cap visited : prerequisites[id] \cap (ids \cap visited) = {}
        BY <1>3, <3>2 DEF VisitedInv, AcyclicIn
      <4>2. prerequisites[id] \subseteq visited
        BY <1>3 DEF VisitedInv
      <4>3. QED BY <4>1, <4>2
    <3>3. QED BY <3>1, <3>2
  <2>4. QED BY <1>1, <1>2, <2>1, <2>2, <2>3 DEF VisitedInv, AcyclicIn
<1>9. QED BY <1>1, <1>7, <1>8, SearchOn

\* When every Contract is done, there is no cycle.
LEMMA SearchAccepts == ASSUME SearchInv, Accept PROVE SearchInv'
<1>1. /\ document' = document /\ phase = "search" /\ phase' = "accepted" /\ cycle' = cycle
      /\ Known \subseteq visited
  BY DEF Accept, searchVars
<1>2. Issues = {} /\ Acyclic /\ cycle = <<>>
  BY <1>1 DEF SearchInv, VisitedInv, AcyclicIn, Acyclic
<1>3. Issues' = Issues /\ Acyclic' = Acyclic
  BY <1>1, CorpusStays
<1>4. QED BY <1>1, <1>2, <1>3 DEF SearchInv

\* The rest of the behaviour changes neither the corpus nor what was decided.
LEMMA SearchOver ==
    ASSUME SearchInv,
           \/ BuildGraph \/ TakeFromQueue \/ CheckOrder \/ WriteOutput
           \/ ReadLevels \/ CaseResult \/ UNCHANGED vars
    PROVE  SearchInv'
<1>1. document' = document /\ path' = path /\ visited' = visited /\ cycle' = cycle
  BY DEF BuildGraph, TakeFromQueue, CheckOrder, WriteOutput, ReadLevels, CaseResult, vars,
         graphVars, searchVars
<1>2. /\ Known' = Known /\ prerequisites' = prerequisites
      /\ Issues' = Issues /\ Acyclic' = Acyclic
  BY <1>1, CorpusStays
<1>3. CASE phase' = phase
  <2>1. StackInv' <=> StackInv
    BY <1>1, <1>2 DEF StackInv
  <2>2. VisitedInv' <=> VisitedInv
    BY <1>1, <1>2 DEF VisitedInv, AcyclicIn
  <2>3. QED BY <1>1, <1>2, <1>3, <2>1, <2>2 DEF SearchInv
<1>4. CASE phase' # phase
  <2>1. /\ phase \in {"accepted", "sort", "write"}
        /\ phase' \in {"sort", "write", "raised", "built"}
    BY <1>4 DEF BuildGraph, TakeFromQueue, CheckOrder, WriteOutput, ReadLevels, CaseResult, vars,
         graphVars
  <2>2. QED BY <1>1, <1>2, <2>1 DEF SearchInv
<1>5. QED BY <1>3, <1>4

LEMMA SearchAlways == Spec => []SearchInv
<1>1. SearchInv /\ [Next]_vars => SearchInv'
  BY SearchLoad, SearchRoot, SearchSkip, SearchDown, SearchCloses, SearchReturns, SearchAccepts,
     SearchOver DEF Next, GraphNext
<1>2. QED BY <1>1, SearchInit, PTL DEF Spec

\* For every corpus and every order of prerequisites: validate_contracts
\* (contracts.py: _cycle_nodes) rejects exactly the corpora that have an issue or
\* a cycle, and what it reports is a cycle.
THEOREM ValidationIsExact == Spec => []ValidationDecidesCycles
<1>1. SearchInv => ValidationDecidesCycles
  BY DEF SearchInv, ValidationDecidesCycles, Decided
<1>2. QED BY <1>1, SearchAlways, PTL

-----------------------------------------------------------------------------
(* What the queries reach.  A set is closed if it has all that next leads  *)
(* to from its members; Reach gives the least closed set around start.     *)

Closed(next, ids) == \A id \in ids \cap DOMAIN next : next[id] \subseteq ids

Wider(next, found) == found \cup UNION {next[id] : id \in found \cap DOMAIN next}

Least(next, found) ==
    {id \in Identifier : \A ids \in SUBSET Identifier :
        found \subseteq ids /\ Closed(next, ids) => id \in ids}

LEMMA WiderFacts ==
    ASSUME NEW next, \A id \in DOMAIN next : next[id] \subseteq Identifier,
           NEW found \in SUBSET Identifier
    PROVE  /\ Wider(next, found) \in SUBSET Identifier
           /\ found \subseteq Wider(next, found)
           /\ Wider(next, found) = found <=> Closed(next, found)
           /\ \A ids \in SUBSET Identifier : found \subseteq ids /\ Closed(next, ids) =>
                Wider(next, found) \subseteq ids
BY DEF Wider, Closed

LEMMA LeastFacts ==
    ASSUME NEW next, \A id \in DOMAIN next : next[id] \subseteq Identifier,
           NEW found \in SUBSET Identifier
    PROVE  /\ Least(next, found) \in SUBSET Identifier
           /\ found \subseteq Least(next, found)
           /\ Closed(next, Least(next, found))
           /\ \A ids \in SUBSET Identifier : found \subseteq ids /\ Closed(next, ids) =>
                Least(next, found) \subseteq ids
           /\ Least(next, found) = IF Wider(next, found) = found THEN found
                                   ELSE Least(next, Wider(next, found))
<1>1. Closed(next, Least(next, found))
  BY DEF Least, Closed
<1>2. CASE Wider(next, found) = found
  BY <1>1, <1>2, WiderFacts DEF Least
<1>3. CASE Wider(next, found) # found
  <2>1. \A ids \in SUBSET Identifier : Closed(next, ids) =>
          (found \subseteq ids <=> Wider(next, found) \subseteq ids)
    BY WiderFacts
  <2>2. Least(next, found) = Least(next, Wider(next, found))
    BY <2>1 DEF Least
  <2> QED BY <1>1, <1>3, <2>2 DEF Least
<1> QED BY <1>2, <1>3

\* The recursion of Reach has a solution: Least is one.
LEMMA ReachFunction ==
    ASSUME NEW start, NEW next, \A id \in DOMAIN next : next[id] \subseteq Identifier
    PROVE  \E g : /\ g = [found \in SUBSET Identifier |->
                            IF Wider(next, found) = found THEN found ELSE g[Wider(next, found)]]
                  /\ Reach(start, next) = g[start]
<1> DEFINE least == [found \in SUBSET Identifier |-> Least(next, found)]
           g == CHOOSE g : g = [found \in SUBSET Identifier |->
                   LET wider == found \cup UNION {next[id] : id \in found \cap DOMAIN next}
                   IN  IF wider = found THEN found ELSE g[wider]]
<1>1. \A found \in SUBSET Identifier :
        Least(next, found) = IF Wider(next, found) = found THEN found
                             ELSE least[Wider(next, found)]
  BY WiderFacts, LeastFacts
<1>2. least = [found \in SUBSET Identifier |->
                 IF Wider(next, found) = found THEN found ELSE least[Wider(next, found)]]
  BY <1>1
<1>3. g = [found \in SUBSET Identifier |->
             IF Wider(next, found) = found THEN found ELSE g[Wider(next, found)]]
  <2> HIDE DEF least
  <2> QED BY <1>2 DEF Wider
<1>4. Reach(start, next) = g[start]
  BY DEF Reach
<1> QED
  <2> HIDE DEF g
  <2> QED BY <1>3, <1>4

Missing(found) == Cardinality(Identifier \ found)

LEMMA MissingFacts ==
    ASSUME NEW next, \A id \in DOMAIN next : next[id] \subseteq Identifier,
           NEW found \in SUBSET Identifier
    PROVE  /\ Missing(found) \in Nat
           /\ Wider(next, found) # found => Missing(Wider(next, found)) < Missing(found)
<1> DEFINE S == Identifier \ found
           R == Identifier \ Wider(next, found)
<1>1. found \subseteq Wider(next, found) /\ Wider(next, found) \in SUBSET Identifier
  BY WiderFacts
<1>2. /\ IsFiniteSet(S) /\ Cardinality(S) \in Nat
      /\ IsFiniteSet(R) /\ Cardinality(R) \in Nat
  BY GraphAssumption, FS_Subset, FS_CardinalityType
<1>3. ASSUME NEW id \in Wider(next, found), id \notin found
      PROVE  Cardinality(R) < Cardinality(S)
  <2>1. R \subseteq S \ {id} /\ id \in S
    BY <1>1, <1>3
  <2> HIDE DEF R, S
  <2>2. IsFiniteSet(S \ {id}) /\ Cardinality(S \ {id}) = Cardinality(S) - 1
    BY <1>2, <2>1, FS_RemoveElement
  <2>3. Cardinality(R) <= Cardinality(S \ {id})
    BY <2>1, <2>2, FS_Subset
  <2> QED BY <1>2, <2>2, <2>3
<1>4. Wider(next, found) # found => \E id \in Wider(next, found) : id \notin found
  BY <1>1
<1> QED BY <1>2, <1>3, <1>4 DEF Missing

\* It is the only one: each step but the last finds something.
LEMMA ReachIsLeast ==
    ASSUME NEW start \in SUBSET Identifier,
           NEW next, \A id \in DOMAIN next : next[id] \subseteq Identifier
    PROVE  Reach(start, next) = Least(next, start)
<1>1. PICK g : /\ g = [found \in SUBSET Identifier |->
                         IF Wider(next, found) = found THEN found ELSE g[Wider(next, found)]]
               /\ Reach(start, next) = g[start]
  BY ReachFunction
<1>2. \A found \in SUBSET Identifier :
        g[found] = IF Wider(next, found) = found THEN found ELSE g[Wider(next, found)]
  BY <1>1
<1> DEFINE T == {n \in Nat : \A found \in SUBSET Identifier :
                    Missing(found) <= n => g[found] = Least(next, found)}
<1>3. ASSUME NEW found \in SUBSET Identifier, Wider(next, found) = found
      PROVE  g[found] = Least(next, found)
  BY <1>2, <1>3, LeastFacts
<1>4. 0 \in T
  <2> SUFFICES ASSUME NEW found \in SUBSET Identifier, Missing(found) <= 0
               PROVE  g[found] = Least(next, found)
    OBVIOUS
  <2>1. Wider(next, found) \in SUBSET Identifier
    BY WiderFacts
  <2>2. Missing(found) \in Nat /\ Missing(Wider(next, found)) \in Nat
    BY <2>1, MissingFacts
  <2>3. Wider(next, found) = found
    BY <2>2, MissingFacts
  <2> QED BY <1>3, <2>3
<1>5. ASSUME NEW n \in Nat, n \in T PROVE n + 1 \in T
  <2> SUFFICES ASSUME NEW found \in SUBSET Identifier, Missing(found) <= n + 1,
                      Wider(next, found) # found
               PROVE  g[found] = Least(next, found)
    BY <1>3
  <2>1. Wider(next, found) \in SUBSET Identifier
    BY WiderFacts
  <2>2. Missing(found) \in Nat /\ Missing(Wider(next, found)) \in Nat
    BY <2>1, MissingFacts
  <2>3. Missing(Wider(next, found)) <= n
    BY <2>2, MissingFacts
  <2>4. g[Wider(next, found)] = Least(next, Wider(next, found))
    BY <1>5, <2>1, <2>3
  <2> QED BY <1>2, <2>4, LeastFacts
<1>6. Nat \subseteq T
  <2> HIDE DEF T
  <2> QED BY <1>4, <1>5, SetInduction
<1>7. Missing(start) \in Nat /\ Missing(start) <= Missing(start)
  BY MissingFacts
<1> QED BY <1>1, <1>6, <1>7

-----------------------------------------------------------------------------
(* The queries of an accepted corpus.                                      *)

LEMMA ReachFacts ==
    ASSUME NEW start \in SUBSET Identifier,
           NEW next, \A id \in DOMAIN next : next[id] \subseteq Identifier
    PROVE  /\ Reach(start, next) \in SUBSET Identifier
           /\ start \subseteq Reach(start, next)
           /\ Closed(next, Reach(start, next))
           /\ \A ids \in SUBSET Identifier : start \subseteq ids /\ Closed(next, ids) =>
                Reach(start, next) \subseteq ids
BY ReachIsLeast, LeastFacts

Unlocks == [other \in Known |-> Successors(other)]

\* Without issues, prerequisites are Contracts of the corpus.
SoundCorpus ==
    /\ Known \subseteq Identifier
    /\ prerequisites \in [Known -> SUBSET Known]

LEMMA PrerequisiteFacts ==
    ASSUME SoundCorpus, NEW id \in Known
    PROVE  /\ prerequisites[id] \subseteq Prerequisites(id)
           /\ Prerequisites(id) \subseteq Known
           /\ \A other \in Prerequisites(id) : prerequisites[other] \subseteq Prerequisites(id)
           /\ \A ids \in SUBSET Known :
                /\ prerequisites[id] \subseteq ids
                /\ \A other \in ids : prerequisites[other] \subseteq ids
                => Prerequisites(id) \subseteq ids
<1> DEFINE start == prerequisites[id]
<1>1. start \in SUBSET Identifier /\ start \subseteq Known
  BY DEF SoundCorpus
<1>2. DOMAIN prerequisites = Known /\ \A other \in Known : prerequisites[other] \subseteq Known
  BY DEF SoundCorpus
<1>3. \A other \in DOMAIN prerequisites : prerequisites[other] \subseteq Identifier
  BY <1>2 DEF SoundCorpus
<1> HIDE DEF start
<1>4. \A ids \in SUBSET Known :
        Closed(prerequisites, ids) <=> \A other \in ids : prerequisites[other] \subseteq ids
  BY <1>2 DEF Closed
<1>5. /\ start \subseteq Reach(start, prerequisites)
      /\ Closed(prerequisites, Reach(start, prerequisites))
      /\ \A ids \in SUBSET Identifier : start \subseteq ids /\ Closed(prerequisites, ids) =>
           Reach(start, prerequisites) \subseteq ids
  BY <1>1, <1>3, ReachFacts
<1>6. \A other \in Known : prerequisites[other] \subseteq Known
  BY <1>2
<1>7. Reach(start, prerequisites) \subseteq Known
  BY <1>1, <1>4, <1>5, <1>6 DEF SoundCorpus
<1>8. \A ids \in SUBSET Known : start \subseteq ids /\ Closed(prerequisites, ids) =>
           Reach(start, prerequisites) \subseteq ids
  BY <1>5 DEF SoundCorpus
<1>9. Prerequisites(id) = Reach(start, prerequisites)
  BY DEF Prerequisites, start
<1> QED BY <1>4, <1>5, <1>7, <1>8, <1>9 DEF start

LEMMA UnlockedFacts ==
    ASSUME SoundCorpus, NEW id \in Known
    PROVE  /\ Successors(id) \subseteq UnlockedBy(id)
           /\ UnlockedBy(id) \subseteq Known
           /\ \A other \in UnlockedBy(id) : Successors(other) \subseteq UnlockedBy(id)
           /\ \A ids \in SUBSET Known :
                /\ Successors(id) \subseteq ids
                /\ \A other \in ids : Successors(other) \subseteq ids
                => UnlockedBy(id) \subseteq ids
<1>1. DOMAIN Unlocks = Known /\ \A other \in Known : Unlocks[other] = Successors(other)
  BY DEF Unlocks
<1>2. \A other \in Known : Successors(other) \subseteq Known
  BY DEF Successors
<1>3. /\ Successors(id) \in SUBSET Identifier
      /\ \A other \in DOMAIN Unlocks : Unlocks[other] \subseteq Identifier
  BY <1>1, <1>2 DEF SoundCorpus
<1>4. \A ids \in SUBSET Known :
        Closed(Unlocks, ids) <=> \A other \in ids : Successors(other) \subseteq ids
  BY <1>1 DEF Closed
<1>5. UnlockedBy(id) = Reach(Successors(id), Unlocks)
  BY DEF UnlockedBy, Unlocks
<1>6. /\ Successors(id) \subseteq UnlockedBy(id)
      /\ Closed(Unlocks, UnlockedBy(id))
      /\ \A ids \in SUBSET Identifier : Successors(id) \subseteq ids /\ Closed(Unlocks, ids) =>
           UnlockedBy(id) \subseteq ids
  BY <1>3, <1>5, ReachFacts
<1>7. UnlockedBy(id) \subseteq Known
  BY <1>2, <1>4, <1>6 DEF SoundCorpus
<1>8. \A ids \in SUBSET Known : Successors(id) \subseteq ids /\ Closed(Unlocks, ids) =>
           UnlockedBy(id) \subseteq ids
  BY <1>6 DEF SoundCorpus
<1> QED BY <1>4, <1>6, <1>7, <1>8

LEMMA SuccessorFacts ==
    ASSUME NEW id \in Known, NEW other \in Known
    PROVE  id \in prerequisites[other] <=> other \in Successors(id)
BY DEF Successors

\* Were other not unlocked by id, what is neither id nor unlocked by it would be
\* closed under prerequisites, and hold all that other needs.
LEMMA NeededUnlocks ==
    ASSUME SoundCorpus, NEW id \in Known, NEW other \in Known, id \in Prerequisites(other)
    PROVE  other \in UnlockedBy(id)
<1> SUFFICES ASSUME other \notin UnlockedBy(id) PROVE FALSE
  OBVIOUS
<1> DEFINE rest == Known \ (UnlockedBy(id) \cup {id})
<1>1. ASSUME NEW one \in Known, one \notin UnlockedBy(id), NEW needed \in prerequisites[one]
      PROVE  needed \in rest
  <2>1. needed \in Known
    BY DEF SoundCorpus
  <2>2. one \in Successors(needed)
    BY <2>1, SuccessorFacts
  <2>3. needed # id
    BY <1>1, <2>2, UnlockedFacts
  <2>4. needed \notin UnlockedBy(id)
    BY <1>1, <2>2, UnlockedFacts
  <2> QED BY <2>1, <2>3, <2>4
<1>2. prerequisites[other] \subseteq rest
  BY <1>1
<1>3. \A one \in rest : prerequisites[one] \subseteq rest
  BY <1>1
<1>4. rest \in SUBSET Known /\ id \notin rest
  OBVIOUS
<1> HIDE DEF rest
<1>5. Prerequisites(other) \subseteq rest
  BY <1>2, <1>3, <1>4, PrerequisiteFacts
<1> QED BY <1>4, <1>5

LEMMA UnlockedNeeds ==
    ASSUME SoundCorpus, NEW id \in Known, NEW other \in Known, other \in UnlockedBy(id)
    PROVE  id \in Prerequisites(other)
<1> SUFFICES ASSUME id \notin Prerequisites(other) PROVE FALSE
  OBVIOUS
<1> DEFINE rest == Known \ (Prerequisites(other) \cup {other})
<1>1. ASSUME NEW one \in Known, one \notin Prerequisites(other), NEW next \in Successors(one)
      PROVE  next \in rest
  <2>1. next \in Known
    BY DEF Successors
  <2>2. one \in prerequisites[next]
    BY <2>1, SuccessorFacts
  <2>3. next # other
    BY <1>1, <2>2, PrerequisiteFacts
  <2>4. next \notin Prerequisites(other)
    BY <1>1, <2>2, PrerequisiteFacts
  <2> QED BY <2>1, <2>3, <2>4
<1>2. Successors(id) \subseteq rest
  BY <1>1
<1>3. \A one \in rest : Successors(one) \subseteq rest
  BY <1>1
<1>4. rest \in SUBSET Known /\ other \notin rest
  OBVIOUS
<1> HIDE DEF rest
<1>5. UnlockedBy(id) \subseteq rest
  BY <1>2, <1>3, <1>4, UnlockedFacts
<1> QED BY <1>4, <1>5

\* What a Contract needs, it needs directly or by what it needs directly.
LEMMA NeededBy ==
    ASSUME SoundCorpus, NEW id \in Known
    PROVE  Prerequisites(id) \subseteq
             prerequisites[id] \cup UNION {Prerequisites(other) : other \in prerequisites[id]}
<1> DEFINE all == prerequisites[id] \cup UNION {Prerequisites(other) : other \in prerequisites[id]}
<1>1. \A other \in prerequisites[id] : other \in Known
  BY DEF SoundCorpus
<1>2. all \in SUBSET Known
  BY <1>1, PrerequisiteFacts
<1>3. \A one \in all : prerequisites[one] \subseteq all
  <2> SUFFICES ASSUME NEW one \in all PROVE prerequisites[one] \subseteq all
    OBVIOUS
  <2>1. CASE one \in prerequisites[id]
    BY <1>1, <2>1, PrerequisiteFacts
  <2>2. ASSUME NEW other \in prerequisites[id], one \in Prerequisites(other)
        PROVE  prerequisites[one] \subseteq all
    BY <1>1, <2>2, PrerequisiteFacts
  <2> QED BY <2>1, <2>2
<1>4. prerequisites[id] \subseteq all
  OBVIOUS
<1> HIDE DEF all
<1>5. Prerequisites(id) \subseteq all
  BY <1>2, <1>3, <1>4, PrerequisiteFacts
<1> QED BY <1>5 DEF all

\* Of all that need id, one would need none of those, and so not id.
LEMMA NothingNeedsItself ==
    ASSUME SoundCorpus, Acyclic, NEW id \in Known
    PROVE  id \notin Prerequisites(id)
<1> SUFFICES ASSUME id \in Prerequisites(id) PROVE FALSE
  OBVIOUS
<1> DEFINE needing == {one \in Known : id \in Prerequisites(one)}
<1>1. id \in needing /\ needing \in SUBSET Known
  OBVIOUS
<1>2. PICK one \in needing : prerequisites[one] \cap needing = {}
  <2> HIDE DEF needing
  <2> QED BY <1>1 DEF Acyclic
<1>3. one \in Known /\ id \in Prerequisites(one)
  OBVIOUS
<1>4. id \notin prerequisites[one]
  BY <1>1, <1>2
<1>5. PICK other \in prerequisites[one] : id \in Prerequisites(other)
  BY <1>3, <1>4, NeededBy
<1>6. other \in needing
  BY <1>3, <1>5 DEF SoundCorpus
<1> QED BY <1>2, <1>5, <1>6

LEMMA WorkloadFacts ==
    ASSUME SoundCorpus, NEW name \in DOMAIN Workload, Workload[name] \subseteq Known
    PROVE  /\ WorkloadClosure(name) \subseteq Known
           /\ \A id \in WorkloadClosure(name) : prerequisites[id] \subseteq WorkloadClosure(name)
<1>1. WorkloadClosure(name) \subseteq Known
  BY PrerequisiteFacts DEF WorkloadClosure
<1>2. ASSUME NEW id \in Workload[name]
      PROVE  /\ Prerequisites(id) \subseteq WorkloadClosure(name)
             /\ prerequisites[id] \subseteq Prerequisites(id)
             /\ \A other \in Prerequisites(id) : prerequisites[other] \subseteq Prerequisites(id)
  BY PrerequisiteFacts DEF WorkloadClosure
<1>3. ASSUME NEW one \in WorkloadClosure(name)
      PROVE  prerequisites[one] \subseteq WorkloadClosure(name)
  <2>1. CASE one \in Workload[name]
    BY <1>2, <2>1
  <2>2. CASE one \notin Workload[name]
    <3>1. PICK id \in Workload[name] : one \in Prerequisites(id)
      BY <2>2 DEF WorkloadClosure
    <3> QED BY <1>2, <3>1
  <2> QED BY <2>1, <2>2
<1> QED BY <1>1, <1>3

LEMMA AcceptedIsSound == ASSUME document \in Corpora, Issues = {} PROVE SoundCorpus
<1>1. Known \subseteq Identifier
  <2> SUFFICES ASSUME NEW file \in Loaded PROVE document[file].id \in Identifier
    BY DEF Known
  <2>1. document[file] \in Document
    BY GraphAssumption DEF Loaded
  <2>2. QED BY <2>1 DEF Document
<1> QED BY <1>1, PrerequisitesKnown DEF SoundCorpus

\* For every accepted corpus and all workloads (graph.py: _closure, prerequisites,
\* unlocked_by, contracts_for_workload, workloads_for): the queries agree with one
\* another, and nothing needs itself.
THEOREM QueriesAreCoherent == Spec => []QueriesAgree
<1>1. SearchInv => QueriesAgree
  <2> SUFFICES ASSUME SearchInv, phase = "accepted" PROVE QueriesAgree
    BY DEF QueriesAgree
  <2>1. SoundCorpus /\ Acyclic
    BY AcceptedIsSound DEF SearchInv
  <2>2. \A id \in Known, other \in Known :
          id \in Prerequisites(other) <=> other \in UnlockedBy(id)
    BY <2>1, NeededUnlocks, UnlockedNeeds
  <2>3. ASSUME WorkloadsKnown, NEW id \in Known
        PROVE  WorkloadsFor(id) = {name \in DOMAIN Workload :
                                     Workload[name] \cap (UnlockedBy(id) \cup {id}) # {}}
    <3>1. ASSUME NEW name \in DOMAIN Workload
          PROVE  id \in WorkloadClosure(name)
                   <=> Workload[name] \cap (UnlockedBy(id) \cup {id}) # {}
      <4>1. \A direct \in Workload[name] :
              id \in Prerequisites(direct) <=> direct \in UnlockedBy(id)
        BY <2>2, <2>3 DEF WorkloadsKnown
      <4> QED BY <4>1 DEF WorkloadClosure
    <3> QED BY <2>3, <3>1 DEF WorkloadsFor
  <2>4. \A id \in Known : id \notin Prerequisites(id)
    BY <2>1, NothingNeedsItself
  <2>5. \A name \in DOMAIN Workload : Workload[name] \subseteq Known =>
          \A id \in WorkloadClosure(name) : prerequisites[id] \subseteq WorkloadClosure(name)
    BY <2>1, WorkloadFacts
  <2> QED BY <2>2, <2>3, <2>4, <2>5 DEF QueriesAgree
<1> QED BY <1>1, SearchAlways, PTL

-----------------------------------------------------------------------------
(* The sort and the outputs.                                               *)

Placed == ToSet(order)

\* The queue is what may come next, each once; a Contract's indegree counts what it
\* still misses.
KahnInv ==
    /\ order \in Seq(Known) /\ Distinct(order)
    /\ queue \in Seq(Known) /\ Distinct(queue)
    /\ \A i \in 1 .. Len(order) :
         prerequisites[order[i]] \subseteq {order[j] : j \in 1 .. i - 1}
    /\ ToSet(queue) = {id \in Known \ Placed : prerequisites[id] \subseteq Placed}
    /\ indegree \in [Known -> Nat]
    /\ \A id \in Known : indegree[id] = Cardinality(prerequisites[id] \ Placed)

\* The outputs written so far.
Unwritten == {}
Graph == {"graph.yaml"}
Graphs == {"graph.yaml", "graph.json"}
Matrix == {"graph.yaml", "graph.json", "workload_matrix.json"}

WriteInv ==
    /\ phase \notin {"write", "raised", "built"} => written = Unwritten
    /\ phase = "write" => written \in {Unwritten, Graph, Graphs, Matrix}
    /\ phase = "write" /\ written = Matrix => WorkloadsKnown
    /\ phase = "raised" => written = Graphs
    /\ phase = "built" => written = ToSet(Outputs) /\ WorkloadsKnown

SortInv ==
    /\ phase \in {"load", "search", "rejected", "accepted"} =>
         order = <<>> /\ queue = <<>> /\ DOMAIN indegree = {}
    /\ phase \in {"sort", "write", "raised", "built"} => KahnInv
    /\ phase \in {"write", "raised", "built"} => Placed = Known
    /\ WriteInv

LEMMA KnownFinite == ASSUME SoundCorpus PROVE IsFiniteSet(Known) /\ Known \subseteq Nat
BY GraphAssumption, FS_Subset DEF SoundCorpus

LEMMA MissingFinite ==
    ASSUME SoundCorpus, NEW id \in Known, NEW ids
    PROVE  /\ IsFiniteSet(prerequisites[id] \ ids)
           /\ Cardinality(prerequisites[id] \ ids) \in Nat
<1>1. prerequisites[id] \ ids \subseteq Known
  BY DEF SoundCorpus
<1> QED BY <1>1, KnownFinite, FS_Subset, FS_CardinalityType

LEMMA KahnStarts == ASSUME SearchInv, SortInv, BuildGraph PROVE SortInv'
<1>1. /\ phase = "accepted" /\ phase' = "sort" /\ document' = document /\ written' = written
      /\ order' = <<>> /\ indegree' = [id \in Known |-> Cardinality(prerequisites[id])]
      /\ queue' = Ascending({id \in Known : prerequisites[id] = {}})
  BY DEF BuildGraph
<1>2. Known' = Known /\ prerequisites' = prerequisites
  BY <1>1, CorpusStays
<1>3. SoundCorpus
  BY <1>1, AcceptedIsSound DEF SearchInv
<1>4. Placed' = {} /\ Len(order') = 0 /\ order' \in Seq(Known) /\ Distinct(order')
  BY <1>1, EmptySeq DEF Placed, ToSet, Distinct
<1> DEFINE roots == {id \in Known : prerequisites[id] = {}}
<1>5. roots \subseteq Known /\ roots \subseteq Nat /\ IsFiniteSet(roots)
  BY <1>3, KnownFinite, FS_Subset
<1> HIDE DEF roots
<1>6. queue' \in Seq(Known) /\ ToSet(queue') = roots /\ Distinct(queue')
  BY <1>1, <1>5, SetOfAscending DEF roots
<1>7. roots = {id \in Known \ Placed' : prerequisites[id] \subseteq Placed'}
  BY <1>4 DEF roots
<1>8. \A id \in Known : /\ prerequisites[id] \ Placed' = prerequisites[id]
                        /\ Cardinality(prerequisites[id]) \in Nat
  BY <1>3, <1>4, MissingFinite
<1>9. /\ indegree' \in [Known -> Nat]
      /\ \A id \in Known : indegree'[id] = Cardinality(prerequisites[id] \ Placed')
  BY <1>1, <1>8
<1>10. KahnInv'
  BY <1>2, <1>4, <1>6, <1>7, <1>9 DEF KahnInv
<1> QED BY <1>1, <1>10 DEF SortInv, WriteInv

\* What the head of the queue frees needed nothing else.
LEMMA FreedFacts ==
    ASSUME SoundCorpus, KahnInv, queue # <<>>
    PROVE  LET head == Head(queue)
               freed == Freed(Successors(head))
           IN  /\ head \in Known /\ head \notin Placed /\ prerequisites[head] \subseteq Placed
               /\ freed \subseteq Known
               /\ freed \cap ToSet(queue) = {}
               /\ (ToSet(queue) \ {head}) \cup freed =
                    {id \in Known \ (Placed \cup {head}) :
                        prerequisites[id] \subseteq Placed \cup {head}}
<1> DEFINE head == Head(queue)
           freed == Freed(Successors(head))
           waiting == ToSet(queue)
<1>1. waiting = {id \in Known \ Placed : prerequisites[id] \subseteq Placed}
  BY DEF KahnInv
<1>2. head \in waiting
  BY SetOfTail DEF KahnInv
<1>3. head \in Known /\ head \notin Placed /\ prerequisites[head] \subseteq Placed
  BY <1>1, <1>2
<1>4. freed = {id \in Known : head \in prerequisites[id] /\ indegree[id] = 1}
  BY DEF Freed, Successors
<1>5. \A id \in Placed : id \in Known /\ prerequisites[id] \subseteq Placed
  <2>1. Placed = {order[i] : i \in 1 .. Len(order)} /\ Placed \subseteq Known
    BY SetOfSeq DEF KahnInv, Placed
  <2>2. \A i \in 1 .. Len(order) : {order[j] : j \in 1 .. i - 1} \subseteq Placed
    <3>1. Len(order) \in Nat
      BY LenProperties DEF KahnInv
    <3> QED BY <2>1, <3>1
  <2> QED BY <2>1, <2>2 DEF KahnInv
<1> HIDE DEF head, freed, waiting
<1>6. ASSUME NEW id \in Known, head \in prerequisites[id]
      PROVE  indegree[id] = 1 <=> prerequisites[id] \subseteq Placed \cup {head}
  <2> DEFINE missing == prerequisites[id] \ Placed
  <2>1. head \in missing /\ IsFiniteSet(missing) /\ Cardinality(missing) \in Nat
    BY <1>3, <1>6, MissingFinite
  <2>2. indegree[id] = Cardinality(missing)
    BY DEF KahnInv
  <2>3. IsFiniteSet(missing \ {head}) /\ Cardinality(missing \ {head}) = Cardinality(missing) - 1
    BY <2>1, FS_RemoveElement
  <2>4. Cardinality(missing) = 1 <=> missing \ {head} = {}
    <3> HIDE DEF missing
    <3>1. Cardinality(missing \ {head}) = 0 <=> missing \ {head} = {}
      BY <2>3, FS_EmptySet
    <3> QED BY <2>1, <2>3, <3>1
  <2> QED BY <2>2, <2>4
<1>7. \A id \in freed : id \in Known /\ head \in prerequisites[id]
                        /\ prerequisites[id] \subseteq Placed \cup {head}
  BY <1>4, <1>6
<1>8. \A id \in freed : id \notin Placed /\ id # head /\ id \notin waiting
  BY <1>1, <1>3, <1>5, <1>7
<1>9. \A id \in Known : id \notin Placed /\ prerequisites[id] \subseteq Placed \cup {head} =>
        id \in waiting \/ id \in freed
  BY <1>1, <1>4, <1>6
<1>10. (waiting \ {head}) \cup freed =
         {id \in Known \ (Placed \cup {head}) : prerequisites[id] \subseteq Placed \cup {head}}
  BY <1>1, <1>7, <1>8, <1>9
<1> QED BY <1>3, <1>7, <1>8, <1>10 DEF head, freed, waiting

LEMMA KahnGoesOn == ASSUME SearchInv, SortInv, TakeFromQueue PROVE SortInv'
<1> DEFINE head == Head(queue)
           freed == Freed(Successors(head))
           n == Len(order)
<1>1. /\ phase = "sort" /\ phase' = "sort" /\ document' = document /\ written' = written
      /\ queue # <<>> /\ order' = Append(order, head)
      /\ queue' = Tail(queue) \o Ascending(freed)
      /\ indegree' = [id \in Known |-> IF id \in Successors(head) THEN indegree[id] - 1
                                                                 ELSE indegree[id]]
  BY DEF TakeFromQueue
<1>2. Known' = Known /\ prerequisites' = prerequisites
  BY <1>1, CorpusStays
<1>3. SoundCorpus
  BY <1>1, AcceptedIsSound DEF SearchInv
<1>4. KahnInv
  BY <1>1 DEF SortInv
<1>5. /\ head \in Known /\ head \notin Placed /\ prerequisites[head] \subseteq Placed
      /\ freed \subseteq Known
      /\ freed \cap ToSet(queue) = {}
      /\ (ToSet(queue) \ {head}) \cup freed =
           {id \in Known \ (Placed \cup {head}) : prerequisites[id] \subseteq Placed \cup {head}}
  BY <1>1, <1>3, <1>4, FreedFacts
<1>6. \A id \in Known : id \in Successors(head) <=> head \in prerequisites[id]
  BY DEF Successors
<1> HIDE DEF head, freed
<1>7. /\ order' \in Seq(Known) /\ Distinct(order') /\ Placed' = Placed \cup {head}
  BY <1>1, <1>4, <1>5, SetOfAppend DEF KahnInv, Placed
<1>8. /\ Tail(queue) \in Seq(Known) /\ Distinct(Tail(queue))
      /\ ToSet(Tail(queue)) = ToSet(queue) \ {head}
  BY <1>1, <1>4, SetOfTail DEF KahnInv, head
<1>9. /\ Ascending(freed) \in Seq(Known) /\ Distinct(Ascending(freed))
      /\ ToSet(Ascending(freed)) = freed
  <2>1. freed \subseteq Nat /\ IsFiniteSet(freed)
    BY <1>3, <1>5, KnownFinite, FS_Subset
  <2> QED BY <1>5, <2>1, SetOfAscending
<1>10. /\ queue' \in Seq(Known) /\ Distinct(queue')
       /\ ToSet(queue') = (ToSet(queue) \ {head}) \cup freed
  <2> DEFINE rest == Tail(queue)
             more == Ascending(freed)
  <2>1. /\ rest \in Seq(Known) /\ Distinct(rest) /\ ToSet(rest) = ToSet(queue) \ {head}
        /\ more \in Seq(Known) /\ Distinct(more) /\ ToSet(more) = freed
        /\ queue' = rest \o more
    BY <1>1, <1>8, <1>9 DEF freed, head
  <2> HIDE DEF rest, more
  <2>2. ToSet(rest) \cap ToSet(more) = {}
    BY <1>5, <2>1
  <2>3. /\ rest \o more \in Seq(Known) /\ Distinct(rest \o more)
        /\ ToSet(rest \o more) = ToSet(rest) \cup ToSet(more)
    BY <2>1, <2>2, SetOfConcat
  <2> QED BY <2>1, <2>3
<1>11. n \in Nat /\ Placed = {order[i] : i \in 1 .. n}
       /\ Len(order') = n + 1 /\ order'[n + 1] = head /\ \A i \in 1 .. n : order'[i] = order[i]
  <2>1. order \in Seq(Known)
    BY <1>4 DEF KahnInv
  <2>2. n \in Nat /\ Placed = {order[i] : i \in 1 .. n}
    BY <2>1, LenProperties, SetOfSeq DEF Placed
  <2> QED BY <1>1, <1>5, <2>1, <2>2, AppendProperties
<1>12. \A i \in 1 .. n : prerequisites[order[i]] \subseteq {order[j] : j \in 1 .. i - 1}
  BY <1>4 DEF KahnInv
<1> HIDE DEF n
<1>13. \A i \in 1 .. n + 1 :
         prerequisites[order'[i]] \subseteq {order'[j] : j \in 1 .. i - 1}
  <2> SUFFICES ASSUME NEW i \in 1 .. n + 1
               PROVE  prerequisites[order'[i]] \subseteq {order'[j] : j \in 1 .. i - 1}
    OBVIOUS
  <2>1. \A j \in 1 .. i - 1 : j \in 1 .. n /\ order'[j] = order[j]
    BY <1>11
  <2>2. CASE i \in 1 .. n
    BY <1>11, <1>12, <2>1, <2>2
  <2>3. CASE i = n + 1
    BY <1>5, <1>11, <2>1, <2>3
  <2> QED BY <1>11, <2>2, <2>3
<1>14. ASSUME NEW id \in Known
       PROVE  /\ indegree'[id] = Cardinality(prerequisites[id] \ Placed')
              /\ indegree'[id] \in Nat
  <2> DEFINE missing == prerequisites[id] \ Placed
  <2>1. IsFiniteSet(missing) /\ Cardinality(missing) \in Nat /\ indegree[id] = Cardinality(missing)
    BY <1>3, <1>4, MissingFinite DEF KahnInv
  <2>2. prerequisites[id] \ Placed' = missing \ {head}
    BY <1>7
  <2>3. head \in prerequisites[id] <=> head \in missing
    BY <1>5
  <2> HIDE DEF missing
  <2>4. Cardinality(missing \ {head}) \in Nat
    BY <2>1, FS_Subset, FS_CardinalityType
  <2>5. CASE head \in missing
    <3>1. indegree'[id] = indegree[id] - 1
      BY <1>1, <1>6, <2>3, <2>5
    <3>2. Cardinality(missing \ {head}) = Cardinality(missing) - 1
      BY <2>1, <2>5, FS_RemoveElement
    <3> QED BY <2>1, <2>2, <2>4, <3>1, <3>2
  <2>6. CASE head \notin missing
    <3>1. missing \ {head} = missing
      BY <2>6
    <3> QED BY <1>1, <1>6, <2>1, <2>2, <2>3, <2>6, <3>1
  <2> QED BY <2>5, <2>6
<1>15. indegree' \in [Known -> Nat]
  BY <1>1, <1>14
<1>16. ToSet(queue') = {id \in Known \ Placed' : prerequisites[id] \subseteq Placed'}
  BY <1>5, <1>7, <1>10
<1>17. KahnInv'
  BY <1>2, <1>7, <1>10, <1>11, <1>13, <1>14, <1>15, <1>16 DEF KahnInv
<1> QED BY <1>1, <1>17 DEF SortInv, WriteInv

\* An empty queue is the end: if some Contract were not placed, one of those would
\* miss none of the others, and be in the queue.
LEMMA KahnEnds ==
    ASSUME SearchInv, KahnInv, phase = "sort", queue = <<>>
    PROVE  Placed = Known /\ Len(order) = Cardinality(Known)
<1>1. SoundCorpus /\ Acyclic
  BY AcceptedIsSound DEF SearchInv
<1>2. Placed \subseteq Known
  BY SetOfSeq DEF KahnInv, Placed
<1>3. ToSet(queue) = {}
  BY DEF ToSet
<1>4. Placed = Known
  <2> SUFFICES ASSUME Known \ Placed # {} PROVE FALSE
    BY <1>2
  <2>1. PICK id \in Known \ Placed : prerequisites[id] \cap (Known \ Placed) = {}
    BY <1>1 DEF Acyclic
  <2>2. prerequisites[id] \subseteq Placed
    BY <1>1, <2>1 DEF SoundCorpus
  <2> QED BY <1>3, <2>1, <2>2 DEF KahnInv
<1>5. Cardinality(Placed) = Len(order)
  BY ListCardinality DEF KahnInv, Placed
<1> QED BY <1>4, <1>5

LEMMA KahnStays ==
    ASSUME KahnInv, document' = document, order' = order, queue' = queue, indegree' = indegree
    PROVE  KahnInv'
<1>1. Known' = Known /\ prerequisites' = prerequisites /\ Placed' = Placed
  BY CorpusStays DEF Placed
<1>2. Distinct(order') /\ Distinct(queue')
  BY DEF KahnInv
<1>3. ToSet(queue') = {id \in Known' \ Placed' : prerequisites'[id] \subseteq Placed'}
  <2>1. ToSet(queue') = ToSet(queue)
    OBVIOUS
  <2> QED BY <1>1, <2>1 DEF KahnInv
<1>4. \A i \in 1 .. Len(order') :
        prerequisites'[order'[i]] \subseteq {order'[j] : j \in 1 .. i - 1}
  <2>1. \A i \in 1 .. Len(order) : prerequisites[order[i]] \subseteq {order[j] : j \in 1 .. i - 1}
    BY DEF KahnInv
  <2>2. order' = order /\ prerequisites' = prerequisites
    BY <1>1
  <2> QED BY <2>1, <2>2
<1>5. /\ indegree' \in [Known' -> Nat]
      /\ \A id \in Known' : indegree'[id] = Cardinality(prerequisites'[id] \ Placed')
  BY <1>1 DEF KahnInv
<1>6. order' \in Seq(Known') /\ queue' \in Seq(Known')
  BY <1>1 DEF KahnInv
<1> QED BY <1>2, <1>3, <1>4, <1>5, <1>6 DEF KahnInv

LEMMA KahnChecked == ASSUME SearchInv, SortInv, CheckOrder PROVE SortInv'
<1>1. /\ phase = "sort" /\ queue = <<>> /\ document' = document /\ written' = written
      /\ order' = order /\ queue' = queue /\ indegree' = indegree
      /\ phase' = IF Len(order) = Cardinality(Known) THEN "write" ELSE "raised"
  BY DEF CheckOrder, sortVars
<1>2. Known' = Known /\ prerequisites' = prerequisites /\ Placed' = Placed
  BY <1>1, CorpusStays DEF Placed
<1>3. KahnInv
  BY <1>1 DEF SortInv
<1>4. KahnInv'
  BY <1>1, <1>3, KahnStays
<1>5. Placed = Known /\ phase' = "write"
  BY <1>1, <1>3, KahnEnds
<1>6. written' = Unwritten /\ Unwritten # Matrix
  BY <1>1 DEF SortInv, WriteInv, Unwritten, Matrix
<1>7. WriteInv'
  BY <1>5, <1>6 DEF WriteInv
<1> QED BY <1>2, <1>4, <1>5, <1>7 DEF SortInv

LEMMA OutputFacts ==
    /\ Cardinality(Unwritten) = 0 /\ Outputs[0 + 1] = "graph.yaml"
    /\ Cardinality(Graph) = 1 /\ Outputs[1 + 1] = "graph.json"
    /\ Cardinality(Graphs) = 2 /\ Outputs[2 + 1] = "workload_matrix.json"
    /\ Cardinality(Matrix) = 3 /\ Outputs[3 + 1] = "graph.dot"
    /\ ToSet(Outputs) = Matrix \cup {"graph.dot"}
<1>1. IsFiniteSet(Unwritten) /\ Cardinality(Unwritten) = 0
  BY FS_EmptySet DEF Unwritten
<1>2. Graph = Unwritten \cup {"graph.yaml"} /\ "graph.yaml" \notin Unwritten
  BY DEF Graph, Unwritten
<1>3. Graphs = Graph \cup {"graph.json"} /\ "graph.json" \notin Graph
  BY DEF Graphs, Graph
<1>4. Matrix = Graphs \cup {"workload_matrix.json"} /\ "workload_matrix.json" \notin Graphs
  BY DEF Matrix, Graphs
<1>5. IsFiniteSet(Graph) /\ Cardinality(Graph) = 1
  BY <1>1, <1>2, FS_AddElement
<1>6. IsFiniteSet(Graphs) /\ Cardinality(Graphs) = 2
  BY <1>3, <1>5, FS_AddElement
<1>7. Cardinality(Matrix) = 3
  BY <1>4, <1>6, FS_AddElement
<1>8. /\ DOMAIN Outputs = 1 .. 4
      /\ Outputs[1] = "graph.yaml" /\ Outputs[2] = "graph.json"
      /\ Outputs[3] = "workload_matrix.json" /\ Outputs[4] = "graph.dot"
  BY DEF Outputs
<1>9. ToSet(Outputs) = {Outputs[1], Outputs[2], Outputs[3], Outputs[4]}
  <2>1. \A i : i \in 1 .. 4 <=> i \in {1, 2, 3, 4}
    OBVIOUS
  <2> HIDE DEF Outputs
  <2> QED BY <1>8, <2>1 DEF ToSet
<1> QED BY <1>1, <1>5, <1>6, <1>7, <1>8, <1>9 DEF Matrix

\* The outputs of this corpus are written in their order; only the matrix can raise.
LEMMA OutputStep ==
    ASSUME SortInv, WriteOutput
    PROVE  /\ phase = "write" /\ phase' \in {"write", "raised", "built"}
           /\ Known' = Known => WriteInv'
<1> DEFINE output == Outputs[Cardinality(written) + 1]
           broken == output = "workload_matrix.json" /\ ~WorkloadsKnown
<1>1. /\ phase = "write" /\ written \in {Unwritten, Graph, Graphs, Matrix}
      /\ written = Matrix => WorkloadsKnown
  BY DEF WriteOutput, SortInv, WriteInv
<1>2. IF broken THEN phase' = "raised" /\ written' = written
      ELSE /\ written' = written \cup {output}
           /\ phase' = IF output = "graph.dot" THEN "built" ELSE phase
  BY DEF WriteOutput, WorkloadsKnown
<1>3. /\ written = Unwritten => output = "graph.yaml"
      /\ written = Graph => output = "graph.json"
      /\ written = Graphs => output = "workload_matrix.json"
      /\ written = Matrix => output = "graph.dot"
  BY OutputFacts
<1> HIDE DEF output
<1>4. /\ Graph = Unwritten \cup {"graph.yaml"} /\ Graphs = Graph \cup {"graph.json"}
      /\ Matrix = Graphs \cup {"workload_matrix.json"}
  BY DEF Unwritten, Graph, Graphs, Matrix
<1>5. phase' \in {"write", "raised", "built"}
  BY <1>1, <1>2
<1>6. ASSUME Known' = Known PROVE WriteInv'
  <2>1. WorkloadsKnown' <=> WorkloadsKnown
    BY <1>6 DEF WorkloadsKnown
  <2>2. CASE written = Unwritten
    <3>1. phase' = "write" /\ written' = Graph
      BY <1>1, <1>2, <1>3, <1>4, <2>2
    <3>2. Graph # Matrix
      BY DEF Graph, Matrix
    <3> QED BY <3>1, <3>2 DEF WriteInv
  <2>3. CASE written = Graph
    <3>1. phase' = "write" /\ written' = Graphs
      BY <1>1, <1>2, <1>3, <1>4, <2>3
    <3>2. Graphs # Matrix
      BY DEF Graphs, Matrix
    <3> QED BY <3>1, <3>2 DEF WriteInv
  <2>4. CASE written = Graphs
    <3>1. CASE WorkloadsKnown
      <4>1. phase' = "write" /\ written' = Matrix
        BY <1>1, <1>2, <1>3, <1>4, <2>4, <3>1
      <4> QED BY <2>1, <3>1, <4>1 DEF WriteInv
    <3>2. CASE ~WorkloadsKnown
      <4>1. phase' = "raised" /\ written' = Graphs
        BY <1>2, <1>3, <2>4, <3>2
      <4> QED BY <4>1 DEF WriteInv
    <3> QED BY <3>1, <3>2
  <2>5. CASE written = Matrix
    <3>1. phase' = "built" /\ written' = Matrix \cup {"graph.dot"} /\ WorkloadsKnown
      BY <1>1, <1>2, <1>3, <2>5
    <3>2. (ToSet(Outputs))' = Matrix \cup {"graph.dot"}
      BY OutputFacts DEF ToSet, Outputs
    <3> QED BY <2>1, <3>1, <3>2 DEF WriteInv
  <2> QED BY <1>1, <2>2, <2>3, <2>4, <2>5
<1> QED BY <1>1, <1>5, <1>6

\* A step that touches neither the sort nor the outputs.
LEMMA SortStays ==
    ASSUME SortInv, document' = document, order' = order, queue' = queue, indegree' = indegree,
           written' = written,
           \/ phase' = phase
           \/ {phase, phase'} \subseteq {"load", "search", "rejected", "accepted"}
    PROVE  SortInv'
<1>1. Known' = Known /\ prerequisites' = prerequisites /\ Placed' = Placed
  BY CorpusStays DEF Placed
<1>2. KahnInv => KahnInv'
  BY KahnStays
<1>3. WorkloadsKnown' <=> WorkloadsKnown
  BY <1>1 DEF WorkloadsKnown
<1>4. WriteInv'
  BY <1>3 DEF SortInv, WriteInv
<1> QED BY <1>1, <1>2, <1>4 DEF SortInv

LEMMA SortStep == ASSUME SearchInv, SortInv, [Next]_vars PROVE SortInv'
<1>1. CASE BuildGraph
  BY <1>1, KahnStarts
<1>2. CASE TakeFromQueue
  BY <1>2, KahnGoesOn
<1>3. CASE CheckOrder
  BY <1>3, KahnChecked
<1>4. CASE WriteOutput
  <2>1. /\ document' = document /\ order' = order /\ queue' = queue /\ indegree' = indegree
    BY <1>4 DEF WriteOutput, sortVars
  <2>2. Known' = Known /\ prerequisites' = prerequisites /\ Placed' = Placed
    BY <2>1, CorpusStays DEF Placed
  <2>3. phase = "write" /\ phase' \in {"write", "raised", "built"} /\ WriteInv'
    BY <1>4, <2>2, OutputStep
  <2>4. KahnInv /\ Placed = Known
    BY <2>3 DEF SortInv
  <2>5. KahnInv'
    BY <2>1, <2>4, KahnStays
  <2> QED BY <2>2, <2>3, <2>4, <2>5 DEF SortInv
<1>5. CASE Load \/ VisitRoot \/ SkipDependency \/ VisitDependency \/ CloseCycle \/ Return \/ Accept
  <2>1. /\ document' = document /\ order' = order /\ queue' = queue /\ indegree' = indegree
        /\ written' = written
        /\ {phase, phase'} \subseteq {"load", "search", "rejected", "accepted"}
    BY <1>5 DEF Load, VisitRoot, SkipDependency, VisitDependency, CloseCycle, Return, Accept, sortVars
  <2> QED BY <2>1, SortStays
<1>6. CASE ReadLevels \/ CaseResult \/ UNCHANGED vars
  <2>1. /\ document' = document /\ order' = order /\ queue' = queue /\ indegree' = indegree
        /\ written' = written /\ phase' = phase
    BY <1>6 DEF ReadLevels, CaseResult, vars, graphVars
  <2> QED BY <2>1, SortStays
<1> QED BY <1>1, <1>2, <1>3, <1>4, <1>5, <1>6 DEF Next, GraphNext

LEMMA SortAlways == Spec => []SortInv
<1>1. Init => SortInv
  BY DEF Init, GraphInit, SortInv, WriteInv, Unwritten
<1>2. QED BY <1>1, SortStep, SearchAlways, PTL DEF Spec

\* For every accepted corpus (graph.py: _topology, write_graph_outputs): the sort
\* places each Contract once, after all it needs, and never comes to an end before;
\* the outputs are all written, or the two graph files if a workload is broken.
THEOREM SortIsTotal == Spec => []TopologyIsOrdered
<1>1. SortInv /\ SearchInv => TopologyIsOrdered
  <2> SUFFICES ASSUME SortInv, SearchInv PROVE TopologyIsOrdered
    OBVIOUS
  <2>1. ASSUME NEW i \in DOMAIN order
        PROVE  /\ prerequisites[order[i]] \subseteq {order[j] : j \in 1..(i - 1)}
               /\ \A j \in 1..(i - 1) : order[j] # order[i]
    <3>1. phase \in {"load", "search", "rejected", "accepted"} => DOMAIN order = {}
      BY DEF SortInv
    <3>2. KahnInv
      BY <2>1, <3>1 DEF SortInv, SearchInv
    <3>3. DOMAIN order = 1 .. Len(order) /\ Len(order) \in Nat
      BY <3>2, LenProperties DEF KahnInv
    <3>4. \A j \in 1 .. i - 1 : j \in DOMAIN order /\ j # i
      BY <3>3
    <3> QED BY <3>2, <3>3, <3>4 DEF KahnInv, Distinct
  <2>2. phase \in {"write", "raised", "built"} => ToSet(order) = Known
    BY DEF SortInv, Placed
  <2>3. /\ phase = "raised" => written = {"graph.yaml", "graph.json"}
        /\ phase = "built" => written = ToSet(Outputs)
    BY DEF SortInv, WriteInv, Graphs
  <2> QED BY <2>1, <2>2, <2>3 DEF TopologyIsOrdered
<1> QED BY <1>1, SortAlways, SearchAlways, PTL

-----------------------------------------------------------------------------
(* The candidate.                                                          *)

\* Scores are of an accepted corpus.
ScoreInv ==
    /\ Contracts = {} \/ (Contracts = Known /\ phase = "built")
    /\ level \in [Contracts -> ToSet(Levels)]
    /\ cases \in [Contracts -> [Outcome -> Nat]]

LEMMA ScoreStep == ASSUME SearchInv, ScoreInv, [Next]_vars PROVE ScoreInv'
<1>1. document' = document /\ Known' = Known
  BY DocumentStays, CorpusStays
<1>2. CASE level' = level /\ cases' = cases /\ (phase = "built" => phase' = "built")
  BY <1>1, <1>2 DEF ScoreInv, Contracts
<1>3. CASE (GraphNext /\ UNCHANGED scoreVars) \/ UNCHANGED vars
  <2>1. level' = level /\ cases' = cases
    BY <1>3 DEF vars, scoreVars
  <2>2. phase = "built" => phase' = "built"
    BY <1>3 DEF vars, graphVars, GraphNext, Load, VisitRoot, SkipDependency, VisitDependency,
       CloseCycle, Return, Accept, BuildGraph, TakeFromQueue, CheckOrder, WriteOutput
  <2>3. QED BY <1>2, <2>1, <2>2
<1>4. CASE ReadLevels
  <2>1. /\ phase = "built" /\ phase' = phase /\ level' \in [Known -> ToSet(Levels)]
        /\ cases' = [id \in Known |-> [outcome \in Outcome |-> 0]]
    BY <1>4 DEF ReadLevels, graphVars
  <2>2. Contracts' = Known
    BY <2>1 DEF Contracts
  <2>3. cases' \in [Known -> [Outcome -> Nat]]
    BY <2>1
  <2>4. QED BY <1>1, <2>1, <2>2, <2>3 DEF ScoreInv
<1>5. CASE CaseResult
  <2>1. PICK id \in Contracts, outcome \in Outcome : AddCase(id, outcome)
    BY <1>5 DEF CaseResult
  <2>2. level' = level /\ phase' = phase
    BY <1>5, <2>1 DEF AddCase, CaseResult, graphVars
  <2>3. cases[id] \in [Outcome -> Nat] /\ cases[id][outcome] + 1 \in Nat
    BY DEF ScoreInv
  <2>4. [cases[id] EXCEPT ![outcome] = @ + 1] \in [Outcome -> Nat]
    BY <2>3
  <2>5. cases' = [cases EXCEPT ![id] = [cases[id] EXCEPT ![outcome] = @ + 1]]
    BY <2>1 DEF AddCase
  <2>6. cases' \in [Contracts -> [Outcome -> Nat]]
    BY <2>4, <2>5 DEF ScoreInv
  <2>7. QED BY <1>1, <2>2, <2>6 DEF ScoreInv, Contracts
<1>6. QED BY <1>3, <1>4, <1>5 DEF Next

LEMMA ScoreAlways == Spec => []ScoreInv
<1>1. Init => ScoreInv
  BY DEF Init, ScoreInv, Contracts, NoCases
<1>2. SearchInv /\ ScoreInv /\ [Next]_vars => ScoreInv'
  BY ScoreStep
<1>3. QED BY <1>1, <1>2, SearchAlways, PTL DEF Spec

LEMMA PassedEvaluated == Passed \subseteq Evaluated /\ Evaluated \subseteq Contracts
BY DEF Passed, Evaluated

LEMMA FrontierIsReady == Frontier(Aggregates) = ReadyAfter(Passed)
<1>1. {id \in DOMAIN Aggregates : Aggregates[id]} = Passed
  BY PassedEvaluated DEF Aggregates
<1>2. QED BY <1>1 DEF Frontier

-----------------------------------------------------------------------------
(* A perfect score.                                                        *)

LEMMA LevelsTyped ==
    /\ Len(Levels) \in Nat /\ DOMAIN Levels = 1..Len(Levels)
    /\ \E i \in DOMAIN Levels : Levels[i] = "boot"
<1>1. Levels \in Seq(STRING)
  BY ScoringAssumption
<1>2. "boot" \in ToSet(Levels)
  BY ScoringAssumption
<1>3. QED BY <1>1, <1>2 DEF ToSet

LEMMA ContractsFinite == ASSUME SearchInv, ScoreInv PROVE IsFiniteSet(Contracts)
<1>1. Known \subseteq Identifier
  <2> SUFFICES ASSUME NEW file \in Loaded PROVE document[file].id \in Identifier
    BY DEF Known
  <2>1. document[file] \in Document
    BY GraphAssumption DEF SearchInv, Loaded
  <2>2. QED BY <2>1 DEF Document
<1>2. IsFiniteSet(Known)
  BY <1>1, GraphAssumption, FS_Subset
<1>3. QED BY <1>2, FS_EmptySet DEF ScoreInv

\* If every level reaches its depth, the depth is the last level.
LEMMA FullDepth ==
    ASSUME NEW observedOnly, \A k \in 1..Len(Levels) : Reaches(k, observedOnly)
    PROVE  Depth(observedOnly) = Len(Levels)
<1> DEFINE n == Len(Levels)
           reached == {k \in 0..n : \A i \in 1..k : Reaches(i, observedOnly)}
<1>1. n \in Nat
  BY LevelsTyped
<1>2. n \in reached
  BY <1>1
<1>3. \A k \in reached : n >= k
  BY <1>1
<1>4. \A k \in reached : k \in Nat /\ k <= n
  BY <1>1
<1>5. Depth(observedOnly) = CHOOSE k \in reached : \A other \in reached : k >= other
  BY DEF Depth, Max
<1> HIDE DEF reached
<1>6. \E k \in reached : \A other \in reached : k >= other
  BY <1>2, <1>3
<1>7. /\ Depth(observedOnly) \in reached
      /\ \A other \in reached : Depth(observedOnly) >= other
  BY <1>5, <1>6
<1> HIDE DEF n
<1>8. Depth(observedOnly) >= n /\ Depth(observedOnly) <= n /\ Depth(observedOnly) \in Nat
  BY <1>2, <1>4, <1>7
<1>9. Depth(observedOnly) = n
  BY <1>1, <1>8
<1>10. QED BY <1>9 DEF n

\* A level is reached if all Contracts up to it passed.
LEMMA AllPassedReaches ==
    ASSUME SearchInv, ScoreInv, Passed = Contracts, NEW observedOnly \in BOOLEAN,
           NEW k \in 1..Len(Levels), Ids(Levels[k], observedOnly) # {}
    PROVE  Reaches(k, observedOnly)
<1> DEFINE cumulative == Upto(k, observedOnly)
           c == Cardinality(cumulative)
<1>1. cumulative \subseteq Contracts
  BY DEF Upto, Ids, ObservedAt, AtLevel
<1>2. cumulative \cap Passed = cumulative
  BY <1>1
<1>3. c \in Nat
  BY <1>1, ContractsFinite, FS_Subset, FS_CardinalityType
<1>4. Threshold.num \in Nat /\ Threshold.den \in Nat /\ Threshold.num <= Threshold.den
  BY ScoringAssumption
<1>5. c * Threshold.den >= Threshold.num * c
  <2> DEFINE num == Threshold.num
             den == Threshold.den
  <2>1. num \in Nat /\ den \in Nat /\ num <= den
    BY <1>4
  <2> HIDE DEF c, num, den
  <2>2. c * den >= num * c
    BY <1>3, <2>1
  <2>3. QED BY <2>2 DEF num, den
<1>6. QED BY <1>2, <1>5 DEF Reaches

LEMMA PerfectIsAll ==
    ASSUME ScoreInv
    PROVE  OSCorrectIsOne <=> Passed = Contracts /\ \A i \in DOMAIN Levels : AtLevel(Levels[i]) # {}
<1>1. Passed \subseteq Contracts
  BY PassedEvaluated
<1>2. ASSUME OSCorrectIsOne
      PROVE  Passed = Contracts /\ \A i \in DOMAIN Levels : AtLevel(Levels[i]) # {}
  <2>1. \A i \in DOMAIN Levels : AtLevel(Levels[i]) # {} /\ AtLevel(Levels[i]) \subseteq Passed
    BY <1>2 DEF OSCorrectIsOne, LevelIsFull
  <2>2. ASSUME NEW id \in Contracts PROVE id \in Passed
    <3>1. PICK i \in DOMAIN Levels : level[id] = Levels[i]
      BY DEF ScoreInv, ToSet
    <3>2. id \in AtLevel(Levels[i])
      BY <3>1 DEF AtLevel
    <3>3. QED BY <2>1, <3>2
  <2>3. QED BY <1>1, <2>1, <2>2
<1>3. ASSUME Passed = Contracts, \A i \in DOMAIN Levels : AtLevel(Levels[i]) # {}
      PROVE  OSCorrectIsOne
  BY <1>3, LevelsTyped DEF OSCorrectIsOne, LevelIsFull, BootGate, AtLevel
<1>4. QED BY <1>2, <1>3

\* Native_p does not shrink as p grows.
LEMMA NativeGrows ==
    ASSUME NEW p \in NativeThresholds, NEW q \in NativeThresholds, q >= p,
           NEW profile \in Official, NativeIsOne(p, profile)
    PROVE  NativeIsOne(q, profile)
<1>1. p \in Nat /\ q \in Nat
  BY ScoringAssumption
<1>2. ASSUME NEW outcome \in Outcome, outcome.ratio # Unmeasured, outcome.ratio <= p
      PROVE  outcome.ratio <= q
  <2>1. outcome.ratio \in Nat
    BY <1>2, ScoringAssumption
  <2>2. QED BY <1>1, <1>2, <2>1
<1>3. Qualifying(p) \subseteq Qualifying(q)
  BY <1>2 DEF Qualifying
<1>4. Qualifying(q) \subseteq MacroWorkloads
  BY DEF Qualifying
<1>5. QED BY <1>3, <1>4 DEF NativeIsOne

\* Whatever slice of the corpus was run (scoring.py: score_results): a perfect score
\* is that of a candidate that passed every Contract there is, at full coverage and
\* depth, and only such a candidate has it.
THEOREM PerfectScoresAreComplete == Spec => []PerfectMeansComplete
<1>1. SearchInv /\ ScoreInv => PerfectMeansComplete
  <2> SUFFICES ASSUME SearchInv, ScoreInv PROVE PerfectMeansComplete
    OBVIOUS
  <2>1. ASSUME OSCorrectIsOne
        PROVE  /\ Passed = Contracts
               /\ ContractCoverageIsOne /\ \A i \in DOMAIN Levels : Covered(Levels[i])
               /\ Depth90 = Len(Levels) /\ ObservedDepth90 = Len(Levels)
               /\ ObservedCorrectIsOne
    <3>1. Passed = Contracts /\ \A i \in DOMAIN Levels : AtLevel(Levels[i]) # {}
      BY <2>1, PerfectIsAll
    <3>2. Evaluated = Contracts
      BY <3>1, PassedEvaluated
    <3>3. \A name : AtLevel(name) \subseteq Contracts /\ ObservedAt(name) = AtLevel(name)
      BY <3>2 DEF AtLevel, ObservedAt
    <3>4. AtLevel("boot") # {}
      BY <2>1 DEF OSCorrectIsOne, BootGate
    <3>5. ContractCoverageIsOne /\ \A i \in DOMAIN Levels : Covered(Levels[i])
      BY <3>1, <3>2, <3>3, <3>4 DEF ContractCoverageIsOne, Covered
    <3>6. ASSUME NEW observedOnly \in BOOLEAN, NEW k \in 1..Len(Levels)
          PROVE  Reaches(k, observedOnly)
      <4>1. Ids(Levels[k], observedOnly) # {}
        BY <3>1, <3>3, LevelsTyped DEF Ids
      <4>2. QED BY <3>1, <4>1, AllPassedReaches
    <3>7. Depth90 = Len(Levels) /\ ObservedDepth90 = Len(Levels)
      BY <3>6, FullDepth DEF Depth90, ObservedDepth90
    <3>8. ObservedCorrectIsOne
      BY <3>1, <3>3, <3>4 DEF ObservedCorrectIsOne, ObservedBootGate
    <3>9. QED BY <3>1, <3>5, <3>7, <3>8
  <2>2. ~OSCorrectIsZero => ObservedBootGate
    BY PassedEvaluated DEF OSCorrectIsZero, BootGate, ObservedBootGate, ObservedAt
  <2>3. ASSUME NEW p \in NativeThresholds, NEW profile \in Official, NativeIsOne(p, profile)
        PROVE  /\ MacroWorkloads \subseteq Passed
               /\ \A q \in NativeThresholds : q >= p => NativeIsOne(q, profile)
    <3>1. MacroWorkloads \subseteq Passed
      BY <2>3 DEF NativeIsOne, Qualifying
    <3>2. QED BY <2>3, <3>1, NativeGrows
  <2>4. QED BY <2>1, <2>2, <2>3, PerfectIsAll DEF PerfectMeansComplete
<1>2. QED BY <1>1, SearchAlways, ScoreAlways, PTL

-----------------------------------------------------------------------------
(* The frontier.                                                           *)

\* In a set with all that its members need, what has not passed is not all waiting
\* for one another.
LEMMA SomeIsReady ==
    ASSUME SoundCorpus, Acyclic, NEW ids \in SUBSET Known,
           \A id \in ids : prerequisites[id] \subseteq ids, ~(ids \subseteq Passed)
    PROVE  ReadyAfter(Passed) \cap ids # {}
<1>1. PICK id \in ids \ Passed : prerequisites[id] \cap (ids \ Passed) = {}
  BY DEF Acyclic
<1>2. prerequisites[id] \subseteq Passed
  BY <1>1
<1> QED BY <1>1, <1>2 DEF ReadyAfter

\* For every accepted corpus, all workloads and all results (graph.py: frontier):
\* the frontier is empty exactly when every Contract passed, is empty for a
\* perfect candidate, and has something to do next for every workload that misses
\* something.
THEOREM FrontierIsNeverDry == Spec => []FrontierNeverDry
<1>1. SearchInv /\ ScoreInv /\ SortInv => FrontierNeverDry
  <2> SUFFICES ASSUME SearchInv, ScoreInv, SortInv, Contracts # {}
               PROVE  /\ ReadyAfter(Passed) = {} <=> Passed = Known
                      /\ OSCorrectIsOne => ReadyAfter(Passed) = {}
                      /\ \A name \in DOMAIN Workload :
                           ~(WorkloadClosure(name) \subseteq Passed) =>
                              ReadyAfter(Passed) \cap WorkloadClosure(name) # {}
    BY FrontierIsReady DEF FrontierNeverDry
  <2>1. Contracts = Known /\ SoundCorpus /\ Acyclic /\ phase = "built"
    BY AcceptedIsSound DEF SearchInv, ScoreInv
  <2>2. Passed \subseteq Known
    BY <2>1, PassedEvaluated
  <2>3. ReadyAfter(Passed) = {} <=> Passed = Known
    <3>1. \A id \in Known : prerequisites[id] \subseteq Known
      BY <2>1 DEF SoundCorpus
    <3>2. ~(Known \subseteq Passed) => ReadyAfter(Passed) \cap Known # {}
      BY <2>1, <3>1, SomeIsReady
    <3> QED BY <2>2, <3>2 DEF ReadyAfter
  <2>4. OSCorrectIsOne => ReadyAfter(Passed) = {}
    BY <2>1, <2>3, PerfectIsAll
  <2>5. ASSUME NEW name \in DOMAIN Workload, ~(WorkloadClosure(name) \subseteq Passed)
        PROVE  ReadyAfter(Passed) \cap WorkloadClosure(name) # {}
    <3>1. Workload[name] \subseteq Known
      BY <2>1 DEF SortInv, WriteInv, WorkloadsKnown
    <3>2. /\ WorkloadClosure(name) \subseteq Known
          /\ \A id \in WorkloadClosure(name) : prerequisites[id] \subseteq WorkloadClosure(name)
      BY <2>1, <3>1, WorkloadFacts
    <3> QED BY <2>1, <2>5, <3>2, SomeIsReady
  <2> QED BY <2>3, <2>4, <2>5
<1> QED BY <1>1, SearchAlways, ScoreAlways, SortAlways, PTL

-----------------------------------------------------------------------------
(* Types.                                                                  *)

StackTyped ==
    /\ path \in Seq([node : Known, left : SUBSET Known])
    /\ visited \subseteq Known
    /\ cycle \in Seq(Known)

LEMMA StackTypedStep == ASSUME SearchInv, StackTyped, [Next]_vars PROVE StackTyped'
<1>1. document' = document
  BY DocumentStays
<1>2. Known' = Known
  BY <1>1, CorpusStays
<1>3. SearchInv'
  BY SearchLoad, SearchRoot, SearchSkip, SearchDown, SearchCloses, SearchReturns, SearchAccepts,
     SearchOver DEF Next, GraphNext
<1>4. CASE phase' = "search"
  <2>1. StackInv' /\ VisitedInv' /\ cycle' = <<>>
    BY <1>3, <1>4 DEF SearchInv
  <2>2. path' \in Seq([node : Known', left : SUBSET Known'])
    BY <2>1 DEF StackInv
  <2>3. visited' \subseteq Known'
    BY <2>1 DEF VisitedInv
  <2> QED BY <2>1, <2>2, <2>3, EmptySeq DEF StackTyped
<1>5. CASE phase' # "search"
  <2>1. CASE CloseCycle
    <3>1. PICK dependency \in Top.left :
            /\ dependency \in Visiting
            /\ LET back == SubSeq(path, Position(dependency), Len(path))
               IN  cycle' = Append([i \in DOMAIN back |-> back[i].node], dependency)
      BY <2>1 DEF CloseCycle
    <3>2. path # <<>> /\ path' = path /\ visited' = visited
      BY <2>1 DEF CloseCycle
    <3> DEFINE first == Position(dependency)
               back == SubSeq(path, first, Len(path))
               nodes == [i \in DOMAIN back |-> back[i].node]
               Entry == [node : Known, left : SUBSET Known]
    <3>3. path \in Seq(Entry) /\ Len(path) \in 1 .. Len(path) /\ DOMAIN path = 1 .. Len(path)
      BY <3>2, EmptySeq DEF StackTyped
    <3>4. Top \in Entry
      BY <3>3, ElementOfSeq DEF Top
    <3>5. dependency \in Known
      BY <3>4
    <3>6. first \in 1 .. Len(path)
      BY <3>1, <3>3 DEF Position, Visiting
    <3> HIDE DEF first, Entry
    <3>7. back \in Seq(Entry)
      BY <3>3, <3>6, SubSeqProperties
    <3> HIDE DEF back
    <3>8. nodes \in Seq(Known)
      <4>1. DOMAIN back = 1 .. Len(back) /\ Len(back) \in Nat
        BY <3>7, LenProperties
      <4>2. \A i \in 1 .. Len(back) : back[i] \in Entry
        BY <3>7, ElementOfSeq
      <4>3. \A i \in 1 .. Len(back) : back[i].node \in Known
        BY <4>2 DEF Entry
      <4> QED BY <4>1, <4>3, IsASeq
    <3>9. cycle' = Append(nodes, dependency)
      BY <3>1 DEF back, first
    <3> HIDE DEF nodes
    <3>10. cycle' \in Seq(Known)
      BY <3>5, <3>8, <3>9, AppendProperties
    <3> QED BY <1>2, <3>2, <3>10 DEF StackTyped
  <2>2. CASE ~CloseCycle
    <3>1. path' = path /\ visited' = visited /\ cycle' = cycle
      BY <1>5, <2>2 DEF Next, GraphNext, Load, VisitRoot, SkipDependency, VisitDependency, Return,
         Accept, BuildGraph, TakeFromQueue, CheckOrder, WriteOutput, ReadLevels, CaseResult, vars,
         graphVars, searchVars
    <3> QED BY <1>2, <3>1 DEF StackTyped
  <2> QED BY <2>1, <2>2
<1> QED BY <1>4, <1>5

LEMMA StackAlwaysTyped == Spec => []StackTyped
<1>1. Init => StackTyped
  BY EmptySeq DEF Init, GraphInit, StackTyped
<1> QED BY <1>1, StackTypedStep, SearchAlways, PTL DEF Spec

\* For every corpus: search, sort and scores work on its Contracts.
THEOREM CorpusIsTyped == Spec => []TypeOK
<1>1. SearchInv /\ StackTyped /\ SortInv /\ ScoreInv => TypeOK
  <2> SUFFICES ASSUME SearchInv, StackTyped, SortInv, ScoreInv PROVE TypeOK
    OBVIOUS
  <2>1. /\ indegree \in [Known -> Nat] \/ DOMAIN indegree = {}
        /\ queue \in Seq(Known) /\ order \in Seq(Known)
    <3>1. CASE phase \in {"load", "search", "rejected", "accepted"}
      BY <3>1, EmptySeq DEF SortInv
    <3>2. CASE phase \in {"sort", "write", "raised", "built"}
      BY <3>2 DEF SortInv, KahnInv
    <3> QED BY <3>1, <3>2 DEF SearchInv
  <2>2. written \subseteq ToSet(Outputs)
    <3>1. written \in {Unwritten, Graph, Graphs, Matrix, ToSet(Outputs)}
      BY DEF SortInv, WriteInv
    <3> QED BY <3>1, OutputFacts DEF Unwritten, Graph, Graphs, Matrix
  <2>3. GraphTypeOK
    BY <2>1, <2>2 DEF SearchInv, StackTyped, GraphTypeOK
  <2>4. level \in [Known -> ToSet(Levels)] \/ Contracts = {}
    BY DEF ScoreInv
  <2>5. cases \in [Contracts -> [Outcome -> Nat]]
    BY DEF ScoreInv
  <2> QED BY <2>3, <2>4, <2>5 DEF TypeOK
<1> QED BY <1>1, SearchAlways, StackAlwaysTyped, SortAlways, ScoreAlways, PTL

-----------------------------------------------------------------------------
(* Depth.                                                                  *)

\* The levels up to which every level is one of those reached.
UpTo(reached) == {k \in 0 .. Len(Levels) : \A i \in 1 .. k : i \in reached}

LEMMA GreatestDepth ==
    ASSUME NEW reached
    PROVE  /\ Max(UpTo(reached)) \in UpTo(reached) /\ Max(UpTo(reached)) \in Nat
           /\ \A k \in UpTo(reached) : k \in Nat /\ k <= Max(UpTo(reached))
<1> DEFINE n == Len(Levels)
           depths == UpTo(reached)
           bounds == {m \in Nat : \A k \in depths : k <= m}
<1>1. n \in Nat /\ 0 \in depths /\ \A k \in depths : k \in Nat /\ k <= n
  BY LevelsTyped DEF UpTo
<1>2. \A k \in depths, i \in Nat : i <= k => i \in depths
  BY <1>1 DEF UpTo
<1>3. n \in bounds
  BY <1>1
<1> HIDE DEF depths, n
<1>4. PICK m \in bounds : \A other \in bounds : m <= other
  BY <1>3, MinFacts
<1>5. m \in depths
  <2> SUFFICES ASSUME m \notin depths PROVE FALSE
    OBVIOUS
  <2>1. m \in Nat /\ m # 0 /\ m - 1 \in Nat
    BY <1>1
  <2>2. \A k \in depths : k <= m - 1
    BY <1>1, <2>1
  <2>3. m - 1 \in bounds
    BY <2>1, <2>2
  <2> QED BY <1>4, <2>1, <2>3
<1>6. \A k \in depths : m >= k
  BY <1>1
<1>7. Max(depths) \in depths /\ \A k \in depths : Max(depths) >= k
  BY <1>5, <1>6 DEF Max
<1> QED BY <1>1, <1>7 DEF depths

LEMMA DeeperWithMore ==
    ASSUME NEW some, NEW more, some \subseteq more
    PROVE  /\ Max(UpTo(some)) \in Nat /\ Max(UpTo(more)) \in Nat
           /\ Max(UpTo(some)) <= Max(UpTo(more))
<1>1. UpTo(some) \subseteq UpTo(more)
  BY DEF UpTo
<1> QED BY <1>1, GreatestDepth

\* Reaches, of the sets it reads.
Enough(ids, upto, passed) ==
    /\ ids # {}
    /\ Cardinality(upto \cap passed) * Threshold.den >= Threshold.num * Cardinality(upto)

LEMMA EnoughWithMore ==
    ASSUME NEW ids, NEW upto, IsFiniteSet(upto), NEW passed, NEW more, passed \subseteq more,
           Enough(ids, upto, passed)
    PROVE  Enough(ids, upto, more)
<1> DEFINE c == Cardinality(upto \cap passed)
           d == Cardinality(upto \cap more)
           den == Threshold.den
           least == Threshold.num * Cardinality(upto)
<1>1. c \in Nat /\ d \in Nat /\ c <= d
  <2>1. upto \cap passed \subseteq upto \cap more /\ upto \cap more \subseteq upto
    OBVIOUS
  <2>2. IsFiniteSet(upto \cap more) /\ IsFiniteSet(upto \cap passed)
    BY <2>1, FS_Subset
  <2> QED BY <2>1, <2>2, FS_Subset, FS_CardinalityType
<1>2. den \in Nat /\ least \in Nat /\ c * den >= least
  <2>1. Cardinality(upto) \in Nat
    BY FS_CardinalityType
  <2>2. Threshold.num \in Nat /\ Threshold.den \in Nat
    BY ScoringAssumption
  <2> QED BY <2>1, <2>2 DEF Enough
<1>3. d * den >= least
  <2> HIDE DEF c, d, den, least
  <2>1. d * den >= c * den
    BY <1>1, <1>2
  <2>2. c * den \in Nat /\ d * den \in Nat
    BY <1>1, <1>2
  <2> QED BY <1>2, <2>1, <2>2
<1> QED BY <1>3 DEF Enough

\* One more that passed, of those that count.
LEMMA EnoughWithOne ==
    ASSUME NEW ids, NEW wider, ids \subseteq wider, NEW upto, IsFiniteSet(upto), NEW passed,
           NEW one, one \notin upto, one \notin passed, Enough(ids, upto, passed)
    PROVE  Enough(wider, upto \cup {one}, passed \cup {one})
<1> DEFINE c == Cardinality(upto \cap passed)
           n == Cardinality(upto)
           den == Threshold.den
           num == Threshold.num
<1>1. den \in Nat /\ num \in Nat /\ num <= den
  BY ScoringAssumption
<1>2. n \in Nat /\ Cardinality(upto \cup {one}) = n + 1
  BY FS_CardinalityType, FS_AddElement
<1>3. c \in Nat /\ Cardinality((upto \cup {one}) \cap (passed \cup {one})) = c + 1
  <2>1. (upto \cup {one}) \cap (passed \cup {one}) = (upto \cap passed) \cup {one}
    OBVIOUS
  <2>2. IsFiniteSet(upto \cap passed) /\ one \notin upto \cap passed
    BY FS_Subset
  <2> QED BY <2>1, <2>2, FS_CardinalityType, FS_AddElement
<1>4. c * den >= num * n
  BY DEF Enough
<1>5. (c + 1) * den >= num * (n + 1)
  <2>1. n \in Nat /\ c \in Nat
    BY <1>2, <1>3
  <2> HIDE DEF c, n, den, num
  <2>2. (c + 1) * den = c * den + den /\ num * (n + 1) = num * n + num
    BY <1>1, <2>1
  <2>3. c * den \in Nat /\ num * n \in Nat
    BY <1>1, <2>1
  <2> QED BY <1>1, <1>4, <2>2, <2>3
<1>6. wider # {}
  BY DEF Enough
<1> QED BY <1>2, <1>3, <1>5, <1>6 DEF Enough

Reached(observedOnly) == {k \in 1 .. Len(Levels) : Reaches(k, observedOnly)}

LEMMA ReachesIsEnough ==
    ASSUME NEW k, NEW observedOnly
    PROVE  Reaches(k, observedOnly) <=>
             Enough(Ids(Levels[k], observedOnly), Upto(k, observedOnly), Passed)
BY DEF Reaches, Enough

LEMMA DepthIsGreatest ==
    ASSUME NEW observedOnly PROVE Depth(observedOnly) = Max(UpTo(Reached(observedOnly)))
<1>1. Len(Levels) \in Nat
  BY LevelsTyped
<1>2. {k \in 0 .. Len(Levels) : \A i \in 1 .. k : Reaches(i, observedOnly)}
        = UpTo(Reached(observedOnly))
  BY <1>1 DEF UpTo, Reached
<1> QED BY <1>2 DEF Depth

LEMMA UptoFinite ==
    ASSUME SearchInv, ScoreInv, NEW k, NEW observedOnly
    PROVE  IsFiniteSet(Upto(k, observedOnly))
<1>1. Upto(k, observedOnly) \subseteq Contracts
  BY DEF Upto, Ids, ObservedAt, AtLevel
<1> QED BY <1>1, ContractsFinite, FS_Subset

\* What one case result makes of the sets that the scores are read from.
LEMMA OneMoreCase ==
    ASSUME ScoreInv, NEW id \in Contracts, NEW outcome \in Outcome, AddCase(id, outcome)
    PROVE  /\ \A other \in Contracts, any \in Outcome :
                cases'[other][any] =
                  IF other = id /\ any = outcome THEN cases[id][outcome] + 1 ELSE cases[other][any]
           /\ level' = level /\ Contracts' = Contracts
           /\ \A name : AtLevel(name)' = AtLevel(name)
           /\ Evaluated' = Evaluated \cup {id}
           /\ outcome.passed =>
                Passed' = IF id \in Evaluated THEN Passed ELSE Passed \cup {id}
           /\ ~outcome.passed => Passed' \subseteq Passed
<1>1. level' = level /\ cases' = [cases EXCEPT ![id][outcome] = @ + 1]
  BY DEF AddCase
<1>2. cases \in [Contracts -> [Outcome -> Nat]]
  BY DEF ScoreInv
<1>3. \A other \in Contracts, any \in Outcome :
        cases'[other][any] =
          IF other = id /\ any = outcome THEN cases[id][outcome] + 1 ELSE cases[other][any]
  BY <1>1, <1>2
<1>4. \A other \in Contracts, any \in Outcome : cases[other][any] \in Nat
  BY <1>2
<1>5. Contracts' = Contracts /\ \A name : AtLevel(name)' = AtLevel(name)
  BY <1>1 DEF Contracts, AtLevel
<1> DEFINE ran(other, any) == cases[other][any] > 0
<1>6. \A other \in Contracts, any \in Outcome :
        cases'[other][any] > 0 <=> (other = id /\ any = outcome) \/ ran(other, any)
  BY <1>3, <1>4
<1>7. Evaluated' = Evaluated \cup {id}
  BY <1>5, <1>6 DEF Evaluated
<1>8. \A other : other \in Evaluated <=> other \in Contracts /\ \E any \in Outcome : ran(other, any)
  BY DEF Evaluated
<1>9. \A other : other \in Passed <=>
        other \in Evaluated /\ \A any \in Outcome : ran(other, any) => any.passed
  BY DEF Passed
<1>10. \A other : other \in Passed' <=>
        /\ other \in Evaluated \cup {id}
        /\ \A any \in Outcome : cases'[other][any] > 0 => any.passed
  BY <1>7 DEF Passed
<1> HIDE DEF ran
<1>11. \A other : other \in Passed' <=>
        /\ other \in Evaluated \cup {id}
        /\ \A any \in Outcome : ((other = id /\ any = outcome) \/ ran(other, any)) => any.passed
  BY <1>6, <1>8, <1>10
<1>12. ASSUME outcome.passed
       PROVE  Passed' = IF id \in Evaluated THEN Passed ELSE Passed \cup {id}
  <2>1. CASE id \in Evaluated
    BY <1>9, <1>11, <1>12, <2>1
  <2>2. CASE id \notin Evaluated
    <3>1. \A any \in Outcome : ~ran(id, any)
      BY <1>8, <2>2
    <3> QED BY <1>9, <1>11, <1>12, <2>2, <3>1
  <2> QED BY <2>1, <2>2
<1>13. ASSUME ~outcome.passed PROVE Passed' \subseteq Passed
  <2>1. id \notin Passed'
    BY <1>11, <1>13
  <2> QED BY <1>9, <1>11, <2>1
<1> QED BY <1>1, <1>3, <1>5, <1>7, <1>12, <1>13

\* On the full corpus, more that passed reaches as much.
LEMMA FullReachGrows ==
    ASSUME SearchInv, ScoreInv, level' = level, Passed \subseteq Passed'
    PROVE  Reached(FALSE) \subseteq Reached(FALSE)'
<1>1. Contracts' = Contracts /\ \A name : Ids(name, FALSE)' = Ids(name, FALSE)
  BY DEF Contracts, Ids, AtLevel
<1>2. \A k : Upto(k, FALSE)' = Upto(k, FALSE)
  BY <1>1 DEF Upto
<1>3. ASSUME NEW k \in 1 .. Len(Levels), Reaches(k, FALSE) PROVE Reaches(k, FALSE)'
  <2>1. Enough(Ids(Levels[k], FALSE), Upto(k, FALSE), Passed)
    BY <1>3, ReachesIsEnough
  <2>2. Enough(Ids(Levels[k], FALSE), Upto(k, FALSE), Passed')
    BY <2>1, UptoFinite, EnoughWithMore
  <2> QED BY <1>1, <1>2, <2>2 DEF Reaches, Enough
<1> QED BY <1>3 DEF Reached

LEMMA FullReachShrinks ==
    ASSUME SearchInv, ScoreInv, level' = level, Passed' \subseteq Passed
    PROVE  Reached(FALSE)' \subseteq Reached(FALSE)
<1>1. Contracts' = Contracts /\ \A name : Ids(name, FALSE)' = Ids(name, FALSE)
  BY DEF Contracts, Ids, AtLevel
<1>2. \A k : Upto(k, FALSE)' = Upto(k, FALSE)
  BY <1>1 DEF Upto
<1>3. ASSUME NEW k \in 1 .. Len(Levels), Reaches(k, FALSE)' PROVE Reaches(k, FALSE)
  <2>1. Enough(Ids(Levels[k], FALSE), Upto(k, FALSE), Passed')
    BY <1>1, <1>2, <1>3 DEF Reaches, Enough
  <2>2. Enough(Ids(Levels[k], FALSE), Upto(k, FALSE), Passed)
    BY <2>1, UptoFinite, EnoughWithMore
  <2> QED BY <2>2, ReachesIsEnough
<1> QED BY <1>3 DEF Reached

\* Of what was observed, a Contract that passes its first case counts on both sides.
LEMMA ObservedReachGrows ==
    ASSUME SearchInv, ScoreInv, NEW id \in Contracts, NEW outcome \in Outcome,
           AddCase(id, outcome), outcome.passed
    PROVE  Reached(TRUE) \subseteq Reached(TRUE)'
<1>1. /\ \A name : AtLevel(name)' = AtLevel(name)
      /\ Evaluated' = Evaluated \cup {id}
      /\ Passed' = IF id \in Evaluated THEN Passed ELSE Passed \cup {id}
  BY OneMoreCase
<1>2. \A name : Ids(name, TRUE)' = AtLevel(name) \cap (Evaluated \cup {id})
                /\ Ids(name, TRUE) = AtLevel(name) \cap Evaluated
  BY <1>1 DEF Ids, ObservedAt
<1>3. \A k : Upto(k, TRUE)' = UNION {AtLevel(Levels[i]) \cap (Evaluated \cup {id}) : i \in 1 .. k}
             /\ Upto(k, TRUE) = UNION {AtLevel(Levels[i]) \cap Evaluated : i \in 1 .. k}
  BY <1>2 DEF Upto
<1>4. ASSUME NEW k \in 1 .. Len(Levels), Reaches(k, TRUE) PROVE Reaches(k, TRUE)'
  <2> DEFINE ids == Ids(Levels[k], TRUE)
             wider == Ids(Levels[k], TRUE)'
             upto == Upto(k, TRUE)
             above == Upto(k, TRUE)'
  <2> SUFFICES Enough(wider, above, Passed')
    BY DEF Reaches, Enough
  <2>1. Enough(ids, upto, Passed) /\ IsFiniteSet(upto) /\ ids \subseteq wider
    BY <1>2, <1>4, ReachesIsEnough, UptoFinite
  <2>2. /\ wider = AtLevel(Levels[k]) \cap (Evaluated \cup {id})
        /\ ids = AtLevel(Levels[k]) \cap Evaluated
        /\ above = UNION {AtLevel(Levels[i]) \cap (Evaluated \cup {id}) : i \in 1 .. k}
        /\ upto = UNION {AtLevel(Levels[i]) \cap Evaluated : i \in 1 .. k}
    BY <1>2, <1>3
  <2> HIDE DEF ids, wider, upto, above
  <2>3. CASE id \in Evaluated
    <3>1. Evaluated \cup {id} = Evaluated
      BY <2>3
    <3>2. wider = ids /\ above = upto /\ Passed' = Passed
      BY <1>1, <2>2, <2>3, <3>1
    <3> QED BY <2>1, <3>2
  <2>4. CASE id \notin Evaluated
    <3>1. id \notin upto /\ id \notin Passed /\ Passed' = Passed \cup {id}
      BY <1>1, <2>2, <2>4, PassedEvaluated
    <3>2. above = upto \/ above = upto \cup {id}
      <4> DEFINE inLevels(one) == \E i \in 1 .. k : one \in AtLevel(Levels[i])
      <4>1. \A one : /\ one \in above <=> inLevels(one) /\ (one \in Evaluated \/ one = id)
                     /\ one \in upto <=> inLevels(one) /\ one \in Evaluated
        BY <2>2
      <4> HIDE DEF inLevels
      <4> QED BY <4>1
    <3>3. CASE above = upto \cup {id}
      BY <2>1, <3>1, <3>3, EnoughWithOne
    <3>4. CASE above = upto
      <4>1. Enough(ids, upto, Passed')
        BY <2>1, <3>1, EnoughWithMore
      <4>2. wider # {}
        BY <2>1 DEF Enough
      <4> QED BY <3>4, <4>1, <4>2 DEF Enough
    <3> QED BY <3>2, <3>3, <3>4
  <2> QED BY <2>3, <2>4
<1> QED BY <1>4 DEF Reached

\* For every corpus and whatever order the cases come in (scoring.py: _depth): a
\* failed case never takes a candidate deeper, a passed one never takes it back, and
\* so for the boot gate.
THEOREM DepthIsMonotone == Spec => DepthFollowsCases
<1>1. ASSUME SearchInv, ScoreInv, [Next]_vars, cases' # cases,
             NEW outcome \in Outcome, NEW id \in Contracts,
             cases'[id][outcome] > cases[id][outcome]
      PROVE  IF outcome.passed
               THEN /\ Depth90' >= Depth90 /\ ObservedDepth90' >= ObservedDepth90
                    /\ BootGate => BootGate'
               ELSE Depth90' <= Depth90 /\ (BootGate' => BootGate)
  <2>1. AddCase(id, outcome)
    <3>1. PICK one \in Contracts, any \in Outcome : AddCase(one, any)
      <4>1. CaseResult
        BY <1>1 DEF Next, ReadLevels, scoreVars, vars
      <4> QED BY <4>1 DEF CaseResult
    <3>2. cases'[id][outcome] = IF id = one /\ outcome = any THEN cases[one][any] + 1
                                                            ELSE cases[id][outcome]
      BY <1>1, <3>1, OneMoreCase
    <3>3. cases[id][outcome] \in Nat
      BY <1>1 DEF ScoreInv
    <3> QED BY <1>1, <3>1, <3>2, <3>3
  <2>2. /\ level' = level /\ AtLevel("boot")' = AtLevel("boot")
        /\ outcome.passed => Passed \subseteq Passed'
        /\ ~outcome.passed => Passed' \subseteq Passed
    BY <1>1, <2>1, OneMoreCase
  <2>3. \A observedOnly \in BOOLEAN :
          /\ Depth(observedOnly) = Max(UpTo(Reached(observedOnly)))
          /\ Depth(observedOnly)' = Max(UpTo(Reached(observedOnly)'))
    <3> SUFFICES ASSUME NEW observedOnly \in BOOLEAN
                 PROVE  Depth(observedOnly)' = Max(UpTo(Reached(observedOnly)'))
      BY DepthIsGreatest
    <3>1. \A i \in 1 .. Len(Levels) : i \in Reached(observedOnly)' <=> Reaches(i, observedOnly)'
      BY DEF Reached
    <3>2. {k \in 0 .. Len(Levels) : \A i \in 1 .. k : Reaches(i, observedOnly)'}
            = UpTo(Reached(observedOnly)')
      BY <3>1, LevelsTyped DEF UpTo
    <3> QED BY <3>2 DEF Depth
  <2>4. CASE outcome.passed
    <3>1. Depth90' >= Depth90
      BY <1>1, <2>2, <2>3, <2>4, FullReachGrows, DeeperWithMore DEF Depth90
    <3>2. ObservedDepth90' >= ObservedDepth90
      BY <1>1, <2>1, <2>3, <2>4, ObservedReachGrows, DeeperWithMore DEF ObservedDepth90
    <3>3. BootGate => BootGate'
      BY <2>2, <2>4 DEF BootGate
    <3> QED BY <2>4, <3>1, <3>2, <3>3
  <2>5. CASE ~outcome.passed
    <3>1. Depth90' <= Depth90
      BY <1>1, <2>2, <2>3, <2>5, FullReachShrinks, DeeperWithMore DEF Depth90
    <3>2. BootGate' => BootGate
      BY <2>2, <2>5 DEF BootGate
    <3> QED BY <2>5, <3>1, <3>2
  <2> QED BY <2>4, <2>5
<1>2. SearchInv /\ ScoreInv /\ [Next]_vars =>
        [\A outcome \in Outcome, id \in Contracts :
           cases' # cases /\ cases'[id][outcome] > cases[id][outcome] =>
              IF outcome.passed
                THEN /\ Depth90' >= Depth90 /\ ObservedDepth90' >= ObservedDepth90
                     /\ BootGate => BootGate'
                ELSE Depth90' <= Depth90 /\ (BootGate' => BootGate)]_scoreVars
  BY <1>1
<1> QED BY <1>2, SearchAlways, ScoreAlways, PTL DEF Spec, DepthFollowsCases
=============================================================================

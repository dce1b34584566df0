--------------------------- MODULE CapabilityGraph ---------------------------
(***************************************************************************)
(* The Contract corpus as a graph: `osbench contracts validate` loads the  *)
(* documents and looks for a cycle, `osbench graph build` orders and       *)
(* exports them, and the graph queries answer what a Contract needs, what  *)
(* it unlocks and what to implement next.  The search for a cycle and the  *)
(* sort are modelled step by step.                                         *)
(*                                                                         *)
(* Identifiers and files are numbers, which gives them the order that      *)
(* sorted() uses.                                                          *)
(***************************************************************************)
EXTENDS Naturals, FiniteSets, Sequences, SequencesExt, SortedSets

CONSTANTS
    Identifier, \* what may be the id of a Contract
    File,       \* the paths of Contract documents
    Corpora,    \* the corpora to load: each gives every file a document
    Malformed,  \* a document that does not parse or does not follow the schema
    Absent,     \* no such file
    Workload,   \* workloads.yaml: the Contracts that each workload names
    KeyError    \* a query raised

\* What normalization may list; the normalizers besides none are alike.
Normalizer == {"none", "pid"}

Document ==
    [id : Identifier, prerequisites : SUBSET Identifier,
     orthogonal_with : SUBSET Identifier, normalization : SUBSET Normalizer]

ASSUME GraphAssumption ==
    /\ Identifier \subseteq Nat /\ File \subseteq Nat
    /\ IsFiniteSet(Identifier) /\ IsFiniteSet(File)
    /\ Corpora \subseteq [File -> Document \cup {Malformed, Absent}]
    /\ \A name \in DOMAIN Workload : Workload[name] \subseteq Identifier

VARIABLES
    document,   \* the corpus
    phase,      \* what is being done
    path,       \* _cycle_nodes: the stack, with what is left to visit of each node
    visited,    \* _cycle_nodes: the nodes that are done
    cycle,      \* the cycle it found
    indegree, queue, order, \* _topology
    written     \* the outputs that describe this corpus

graphVars == <<document, phase, path, visited, cycle, indegree, queue, order, written>>
searchVars == <<path, visited, cycle>>
sortVars == <<indegree, queue, order>>

-----------------------------------------------------------------------------
(* The corpus.  A definition whose name extends the name of the next one   *)
(* is that one with a mistake in it; no specification uses it.             *)

Loaded == {file \in File : document[file] \notin {Malformed, Absent}}

Known == {document[file].id : file \in Loaded}

\* Of two documents with one id, dict keeps the last.
Declaration(id) ==
    CHOOSE file \in Loaded :
        /\ document[file].id = id
        /\ \A other \in Loaded : document[other].id = id => other <= file

prerequisites == [id \in Known |-> document[Declaration(id)].prerequisites]

\* Each file that does not parse, or has an id that one before it has.
Unreadable == {file \in File : document[file] = Malformed}

Duplicate ==
    {file \in Loaded : \E first \in Loaded :
        first < file /\ document[first].id = document[file].id}

\* A Contract names itself, or one that no document declares.
NamesWrongly(file, named) == document[file].id \in named \/ ~(named \subseteq Known)

MixesNone(file) ==
    "none" \in document[file].normalization /\ Cardinality(document[file].normalization) > 1

IssuesExceptUnknown ==
    Unreadable \cup Duplicate
    \cup {file \in Loaded :
             \/ document[file].id \in document[file].prerequisites
             \/ NamesWrongly(file, document[file].orthogonal_with)
             \/ MixesNone(file)}

\* The issues found without following edges.
Issues ==
    Unreadable \cup Duplicate
    \cup {file \in Loaded :
             \/ NamesWrongly(file, document[file].prerequisites)
             \/ NamesWrongly(file, document[file].orthogonal_with)
             \/ MixesNone(file)}

Successors(id) == {other \in Known : id \in prerequisites[other]}

ReachNoFurther(start, next) == start

\* _closure: from start, everything that next leads to.
Reach(start, next) ==
    LET Grow[found \in SUBSET Identifier] ==
            LET wider == found \cup UNION {next[id] : id \in found \cap DOMAIN next}
            IN  IF wider = found THEN found ELSE Grow[wider]
    IN  Grow[start]

Prerequisites(id) == Reach(prerequisites[id], prerequisites)

UnlockedBy(id) ==
    LET unlocks == [other \in Known |-> Successors(other)]
    IN  Reach(unlocks[id], unlocks)

\* contracts_for_workload and the contract_closure of the matrix.
WorkloadClosure(name) ==
    Workload[name] \cup UNION {Prerequisites(id) : id \in Workload[name]}

WorkloadsKnown == \A name \in DOMAIN Workload : Workload[name] \subseteq Known

\* workloads_for asks for the closure of every workload; that of one with an
\* unknown Contract raises, whatever Contract was asked about.
WorkloadsFor(id) ==
    IF WorkloadsKnown THEN {name \in DOMAIN Workload : id \in WorkloadClosure(name)}
                      ELSE KeyError

ReadyAfter(passed) == {id \in Known \ passed : prerequisites[id] \subseteq passed}

FrontierOfEvaluated(results) == ReadyAfter(DOMAIN results)

\* frontier: results tells of the evaluated Contracts whether they passed.
Frontier(results) == ReadyAfter({id \in DOMAIN results : results[id]})

-----------------------------------------------------------------------------
(* validate_contracts.                                                     *)

At(name) == phase = name

Load ==
    /\ At("load")
    /\ phase' = IF Issues = {} THEN "search" ELSE "rejected"
    /\ UNCHANGED <<document, searchVars, sortVars, written>>

\* dependencies.get(node, [])
Dependencies(node) == IF node \in Known THEN prerequisites[node] ELSE {}

\* visit: the next node of the outer loop that is not visited.
VisitRoot ==
    /\ At("search") /\ path = <<>>
    /\ \E node \in Known \ visited :
         /\ \A other \in Known \ visited : node <= other
         /\ path' = <<[node |-> node, left |-> Dependencies(node)]>>
    /\ UNCHANGED <<document, phase, visited, cycle, sortVars, written>>

Top == path[Len(path)]

\* The top of the stack has looked at dependency.
TopWithout(dependency) ==
    [path EXCEPT ![Len(path)].left = @ \ {dependency}]

Visiting == {path[i].node : i \in DOMAIN path}

Position(node) == CHOOSE i \in DOMAIN path : path[i].node = node

DoneWithOnEntry(dependency) == dependency \in visited \cup Visiting

DoneWith(dependency) == dependency \in visited

SkipDependency ==
    /\ At("search") /\ path # <<>>
    /\ \E dependency \in Top.left :
         /\ DoneWith(dependency)
         /\ path' = TopWithout(dependency)
    /\ UNCHANGED <<document, phase, visited, cycle, sortVars, written>>

\* The list of prerequisites may be in any order.
VisitDependency ==
    /\ At("search") /\ path # <<>>
    /\ \E dependency \in Top.left :
         /\ ~DoneWith(dependency) /\ dependency \notin Visiting
         /\ path' = Append(TopWithout(dependency),
                           [node |-> dependency, left |-> Dependencies(dependency)])
    /\ UNCHANGED <<document, phase, visited, cycle, sortVars, written>>

CloseCycle ==
    /\ At("search") /\ path # <<>>
    /\ \E dependency \in Top.left :
         /\ ~DoneWith(dependency) /\ dependency \in Visiting
         /\ LET back == SubSeq(path, Position(dependency), Len(path))
            IN  cycle' = Append([i \in DOMAIN back |-> back[i].node], dependency)
    /\ phase' = "rejected"
    /\ UNCHANGED <<document, path, visited, sortVars, written>>

Return ==
    /\ At("search") /\ path # <<>> /\ Top.left = {}
    /\ visited' = visited \cup {Top.node}
    /\ path' = Front(path)
    /\ UNCHANGED <<document, phase, cycle, sortVars, written>>

Accept ==
    /\ At("search") /\ path = <<>> /\ Known \subseteq visited
    /\ phase' = "accepted"
    /\ UNCHANGED <<document, searchVars, sortVars, written>>

-----------------------------------------------------------------------------
(* write_graph_outputs: it builds the graph, sorts it and writes four      *)
(* files, one after another.                                               *)

BuildGraph ==
    /\ At("accepted")
    /\ indegree' = [id \in Known |-> Cardinality(prerequisites[id])]
    /\ queue' = Ascending({id \in Known : prerequisites[id] = {}})
    /\ order' = <<>>
    /\ phase' = "sort"
    /\ UNCHANGED <<document, searchVars, written>>

FreedAtOnce(children) == {child \in children : indegree[child] >= 1}

\* The children whose last missing prerequisite this was.
Freed(children) == {child \in children : indegree[child] = 1}

TakeFromQueue ==
    /\ At("sort") /\ queue # <<>>
    /\ LET children == Successors(Head(queue))
       IN  /\ indegree' = [id \in Known |-> IF id \in children THEN indegree[id] - 1
                                                              ELSE indegree[id]]
           /\ queue' = Tail(queue) \o Ascending(Freed(children))
    /\ order' = Append(order, Head(queue))
    /\ UNCHANGED <<document, phase, searchVars, written>>

CheckOrder ==
    /\ At("sort") /\ queue = <<>>
    /\ phase' = IF Len(order) = Cardinality(Known) THEN "write" ELSE "raised"
    /\ UNCHANGED <<document, searchVars, sortVars, written>>

Outputs == <<"graph.yaml", "graph.json", "workload_matrix.json", "graph.dot">>

\* The matrix is made when the graph is already written, and raises for a
\* workload with an unknown Contract.
WriteOutput ==
    /\ At("write")
    /\ LET output == Outputs[Cardinality(written) + 1]
       IN  IF output = "workload_matrix.json" /\ ~WorkloadsKnown
             THEN phase' = "raised" /\ UNCHANGED written
             ELSE /\ written' = written \cup {output}
                  /\ phase' = IF output = "graph.dot" THEN "built" ELSE phase
    /\ UNCHANGED <<document, searchVars, sortVars>>

-----------------------------------------------------------------------------
GraphInit ==
    /\ document \in Corpora
    /\ phase = "load"
    /\ path = <<>> /\ visited = {} /\ cycle = <<>>
    /\ indegree = [id \in {} |-> 0] /\ queue = <<>> /\ order = <<>>
    /\ written = {}

GraphNext ==
    \/ Load \/ VisitRoot \/ SkipDependency \/ VisitDependency \/ CloseCycle \/ Return \/ Accept
    \/ BuildGraph \/ TakeFromQueue \/ CheckOrder \/ WriteOutput

-----------------------------------------------------------------------------
(* Properties.                                                             *)

\* What the search and the sort work on are Contracts of the corpus.
GraphTypeOK ==
    /\ document \in Corpora
    /\ phase \in {"load", "search", "rejected", "accepted", "sort", "write", "raised", "built"}
    /\ path \in Seq([node : Known, left : SUBSET Known])
    /\ visited \subseteq Known
    /\ cycle \in Seq(Known)
    /\ indegree \in [Known -> Nat] \/ DOMAIN indegree = {}
    /\ queue \in Seq(Known) /\ order \in Seq(Known)
    /\ written \subseteq ToSet(Outputs)

Acyclic ==
    \A ids \in SUBSET Known : ids # {} => \E id \in ids : prerequisites[id] \cap ids = {}

Decided == phase \notin {"load", "search"}

\* validate_contracts accepts a corpus exactly if every document is well formed,
\* ids are unique, the Contracts it names known, and no Contract needs itself by
\* any way; and what _cycle_nodes reports is a cycle, whatever the order in which
\* documents list their prerequisites.
ValidationDecidesCycles ==
    /\ Decided => (phase # "rejected" <=> Issues = {} /\ Acyclic)
    /\ cycle # <<>> =>
         /\ Len(cycle) > 1 /\ cycle[1] = cycle[Len(cycle)]
         /\ \A i \in 1..(Len(cycle) - 1) : cycle[i + 1] \in prerequisites[cycle[i]]

\* An accepted corpus is always sorted to its end, so that graph build never
\* raises "capability graph contains a cycle": each Contract comes once, after
\* all its prerequisites; and every output is written unless a workload names
\* an unknown Contract, in which case the graph files are new and the others old.
TopologyIsOrdered ==
    /\ \A i \in DOMAIN order :
         /\ prerequisites[order[i]] \subseteq {order[j] : j \in 1..(i - 1)}
         /\ \A j \in 1..(i - 1) : order[j] # order[i]
    /\ phase \in {"write", "raised", "built"} => ToSet(order) = Known
    /\ phase = "raised" => written = {"graph.yaml", "graph.json"}
    /\ phase = "built" => written = ToSet(Outputs)

\* The queries agree with one another on an accepted corpus: prerequisites lists
\* exactly the Contracts that unlocked_by lists this one for, nothing needs itself,
\* the closure of a workload leaves out nothing that a member of it needs, and
\* workloads_for names, unless it raises, the workloads that this Contract or one
\* it unlocks is in.
QueriesAgree ==
    phase = "accepted" =>
        /\ \A id \in Known : id \notin Prerequisites(id)
        /\ \A id \in Known, other \in Known :
             id \in Prerequisites(other) <=> other \in UnlockedBy(id)
        /\ \A name \in DOMAIN Workload : Workload[name] \subseteq Known =>
             \A id \in WorkloadClosure(name) : prerequisites[id] \subseteq WorkloadClosure(name)
        /\ WorkloadsKnown => \A id \in Known :
             WorkloadsFor(id) = {name \in DOMAIN Workload :
                                   Workload[name] \cap (UnlockedBy(id) \cup {id}) # {}}
=============================================================================

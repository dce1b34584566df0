------------------------------- MODULE MCCorpus -------------------------------
(***************************************************************************)
(* Three files and three identifiers, so that files may share an id and    *)
(* prerequisites may be unknown, and all graphs on three Contracts, self-  *)
(* loops included; in a graph without edges one document may name others   *)
(* as orthogonal or mix none with a normalizer.  Three levels, the         *)
(* threshold of which two Contracts of three just reach.                   *)
(***************************************************************************)
EXTENDS Corpus

MCIdentifier == 1..3
MCFile == 1..3
MCLevels == <<"boot", "machine", "real_workloads">>
MCThreshold == [num |-> 2, den |-> 3]
MCWorkload == [server |-> {3}, shell |-> {1, 2}]
MCNativeThresholds == {1, 2}

Plain == [id : MCIdentifier, prerequisites : SUBSET MCIdentifier,
          orthogonal_with : {{}}, normalization : {{"none"}}]

NoEdges == [id : MCIdentifier, prerequisites : {{}},
            orthogonal_with : {{}, {1}, {2, 3}},
            normalization : {{"none"}, Normalizer}]

\* The ids of the readable documents do not decrease along the files, as the
\* paths of the repository's documents follow their ids.
InOrder(corpus) ==
    \A file \in MCFile, later \in MCFile :
        (file < later /\ {corpus[file], corpus[later]} \cap {Malformed, Absent} = {})
            => corpus[file].id <= corpus[later].id

MCCorpora ==
    {corpus \in [MCFile -> Plain \cup {Malformed, Absent}] : InOrder(corpus)}
    \cup {corpus \in [MCFile -> NoEdges] :
             /\ InOrder(corpus)
             /\ Cardinality({file \in MCFile : corpus[file] \in Plain}) >= 2}

MCOutcome ==
    {[passed |-> FALSE, ratio |-> Unmeasured]}
    \cup {[passed |-> TRUE, ratio |-> ratio] : ratio \in {1, Unmeasured}}
=============================================================================

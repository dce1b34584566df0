------------------------- MODULE MCReferencePipeline -------------------------
(***************************************************************************)
(* A host with everything, one on which commands come some way until they  *)
(* meet a missing tool, and one with nothing; two profiles, one of which   *)
(* the commands use.                                                       *)
(***************************************************************************)
EXTENDS ReferencePipeline

CONSTANTS tcg, kvm

MCHosts == {Tools, {"acquisition", "xorriso", "qemu-img"}, {}}
=============================================================================

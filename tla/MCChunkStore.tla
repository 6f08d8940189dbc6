---------------------------- MODULE MCChunkStore ----------------------------
(***************************************************************************)
(* Instances of ChunkStore for TLC.  All identifiers are model values and  *)
(* interchangeable, except that sessions with a file hash to verify differ *)
(* from the others.                                                        *)
(***************************************************************************)
EXTENDS ChunkStore, TLC

Symmetry == Permutations(Digests) \cup Permutations(Copies) \cup Permutations(Files)
            \cup Permutations(Callers) \cup Permutations(Uploads \ Verified)
=============================================================================

--------------------------- MODULE MCStorageLedger ---------------------------
(***************************************************************************)
(* Instances of StorageLedger for TLC.  The identifiers are model values:  *)
(* files, folders other than the root, sessions and names are              *)
(* interchangeable, so the safety runs use symmetry.                       *)
(***************************************************************************)
EXTENDS StorageLedger, TLC

Symmetry == Permutations(Files) \cup Permutations(Folders \ {Root})
            \cup Permutations(Uploads) \cup Permutations(Names)

\* Drift left by races can add up without end; the runs follow it as far as
\* twice the bytes the files can hold.
BoundedDrift == used <= 2 * MaxSize * Cardinality(Files)
=============================================================================

---------------------------- MODULE MCReadCache -----------------------------
(* Instances of ReadCache for TLC.                                         *)
EXTENDS ReadCache, TLC

\* Readers are interchangeable.
Symmetry == Permutations(Readers)
=============================================================================

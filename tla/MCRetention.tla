---------------------------- MODULE MCRetention -----------------------------
(* Instances of Retention for TLC.                                         *)
EXTENDS Retention, TLC

\* Runs of prune, and queries, are interchangeable.
Symmetry == Permutations(Pruners) \cup Permutations(Ids)
=============================================================================

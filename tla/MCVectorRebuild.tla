-------------------------- MODULE MCVectorRebuild --------------------------
(* Model values and symmetry for TLC. *)
EXTENDS VectorRebuild, TLC

Symmetry == Permutations(Workers) \cup Permutations(Rebuilders)
=============================================================================

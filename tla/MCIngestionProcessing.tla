----------------------- MODULE MCIngestionProcessing -----------------------
(* Model values and symmetry for TLC. *)
EXTENDS IngestionProcessing, TLC

Symmetry == Permutations(Workers) \cup Permutations(Jobs)
=============================================================================

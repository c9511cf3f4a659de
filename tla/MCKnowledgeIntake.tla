--------------------------- MODULE MCKnowledgeIntake --------------------------
(* No symmetry: the run checks a liveness property too.                        *)
EXTENDS KnowledgeIntake
=============================================================================

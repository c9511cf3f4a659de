----------------------------- MODULE MCLegacyClaim ----------------------------
(* No symmetry: the run checks a liveness property too.                        *)
EXTENDS LegacyClaim
=============================================================================

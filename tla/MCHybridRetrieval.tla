-------------------------- MODULE MCHybridRetrieval --------------------------
(* Four chunks of two documents of the target and of a foreign document.      *)
EXTENDS HybridRetrieval

Places == [c \in 1..4 |-> IF c \in {1, 3} THEN "d1" ELSE IF c = 2 THEN "d2" ELSE "foreign"]
=============================================================================

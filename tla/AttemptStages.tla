---------------------------- MODULE AttemptStages ----------------------------
(***************************************************************************)
(* The control of one worker as IngestionProcessing uses it, without rows, *)
(* vectors, tasks or leases: the stages of an attempt come in their order  *)
(* and none is left out; a stage that breaks leads to the record of the    *)
(* failure and to nothing else; and an attempt may be given up anywhere.   *)
(***************************************************************************)

VARIABLE at

Free == "free"
Fail == "fail"
Following == [prepare |-> "persist", persist |-> "embed", embed |-> "index", index |-> "finish"]

Init == at = Free

Begin   == at = Free /\ at' = "prepare"
Advance == at \in DOMAIN Following /\ at' = Following[at]
Break   == at \in DOMAIN Following \cup {"finish"} /\ at' = Fail
End     == at # Free /\ at' = Free    \* success, a recorded failure, or giving up

Next == Begin \/ Advance \/ Break \/ End

Spec == Init /\ [][Next]_at
==========================================================================

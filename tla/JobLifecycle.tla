---------------------------- MODULE JobLifecycle ----------------------------
(***************************************************************************)
(* What ingestion promises about each document, with no worker, lease,     *)
(* clock or message in sight: a document is attempted at most MaxAttempts  *)
(* times, one attempt at a time; chunk rows are only ever those of the     *)
(* attempt in progress; a document is completed by the attempt whose       *)
(* chunks are stored, and is never touched again.                          *)
(***************************************************************************)
EXTENDS Naturals

CONSTANTS Jobs, MaxAttempts

VARIABLE life   \* life[j]: state of the document, attempts begun, whose chunks are stored

States == {"pending", "processing", "completed", "failed"}

Init == life = [j \in Jobs |-> [state |-> "pending", tries |-> 0, stored |-> 0]]

Begin(a, b) ==
    /\ a.state = "pending" /\ a.tries < MaxAttempts
    /\ b = [state |-> "processing", tries |-> a.tries + 1, stored |-> a.stored]

Store(a, b) ==
    /\ a.state = "processing"
    /\ b = [a EXCEPT !.stored = a.tries]

Complete(a, b) ==
    /\ a.state = "processing" /\ a.stored = a.tries
    /\ b = [a EXCEPT !.state = "completed"]

GiveBack(a, b) ==
    /\ a.state = "processing" /\ a.tries < MaxAttempts
    /\ b = [a EXCEPT !.state = "pending"]

Fail(a, b) ==
    /\ a.state = "processing"
    /\ b = [a EXCEPT !.state = "failed"]

Resubmit(a, b) ==
    /\ a.state = "failed"
    /\ b = [a EXCEPT !.state = "pending"]

Advance(a, b) ==
    \/ Begin(a, b) \/ Store(a, b) \/ Complete(a, b)
    \/ GiveBack(a, b) \/ Fail(a, b) \/ Resubmit(a, b)

\* One transaction may advance several documents: recovery takes a set of rows.
Next ==
    /\ DOMAIN life' = Jobs
    /\ \A j \in Jobs : life'[j] = life[j] \/ Advance(life[j], life'[j])

Spec == Init /\ [][Next]_life
=============================================================================

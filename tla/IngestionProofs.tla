-------------------------- MODULE IngestionProofs --------------------------
(***************************************************************************)
(* Theorems of IngestionProcessing for every set of documents and workers, *)
(* every number of attempts and batches, any lease and retry delay, any    *)
(* clock lag and any bound on stray requests; then those of VectorRebuild, *)
(* for any rebuild commands beside them.                                   *)
(*                                                                         *)
(* Argument.  An attempt is known by its number.  A claim is the only step *)
(* that increments attempt_count, and it needs a pending row, which has no *)
(* owner; so the numbers of two workers on one document differ, a worker   *)
(* named in claimed_by runs the newest of them, and what is written under  *)
(* the ownership check carries that number.  For the index there is no     *)
(* check: there the history variable wiper tells whose delete came last,   *)
(* and the completing attempt's batches stand as long as it was its own.   *)
(***************************************************************************)
EXTENDS VectorRebuild, TLAPS

-----------------------------------------------------------------------------
(***************************************************************************)
(* What the transactions make of a row: each result is a row again, and    *)
(* these are the fields the invariants speak of.                           *)
(***************************************************************************)

\* NULL instants and the distances a transaction writes are in range.
LEMMA Distances ==
    /\ Floor \in Int /\ Floor \in Floor .. LeaseDuration /\ Floor \in Floor .. RetryDelay
    /\ \A lag \in Lags : /\ lag \in Int
                         /\ LeaseDuration - lag \in Floor .. LeaseDuration
                         /\ RetryDelay - lag \in Floor .. RetryDelay
    BY ConstantsAssumption DEF Floor, Lags

\* claim_next_internal begins the next attempt of a pending row.
LEMMA ClaimedRow ==
    ASSUME NEW r \in JobRow, NEW w \in Workers, NEW lag \in Lags, Claimable(r, lag)
    PROVE  LET c == Claimed(r, w, lag) IN
           /\ c \in JobRow /\ c.attempts = r.attempts + 1 /\ c.owner = w
           /\ c.status = "processing" /\ c.document = "processing" /\ c.progress = 0
    BY Distances, ConstantsAssumption DEF JobRow, Status, Claimable, Claimed

\* _renew_lease touches the lease only.
LEMMA RenewedRow ==
    ASSUME NEW r \in JobRow, NEW lag \in Lags
    PROVE  LET c == Renewed(r, lag) IN
           /\ c \in JobRow /\ c.attempts = r.attempts /\ c.owner = r.owner
           /\ c.status = r.status /\ c.document = r.document /\ c.progress = r.progress
    BY Distances DEF JobRow, Renewed

\* _replace_chunks sets the progress besides.
LEMMA PersistedRow ==
    ASSUME NEW r \in JobRow, NEW lag \in Lags
    PROVE  LET c == [Renewed(r, lag) EXCEPT !.progress = 50] IN
           /\ c \in JobRow /\ c.attempts = r.attempts /\ c.owner = r.owner
           /\ c.status = r.status /\ c.document = r.document /\ c.progress = 50
    <1>1. ASSUME NEW s \in JobRow
          PROVE  LET c == [s EXCEPT !.progress = 50] IN
                 /\ c \in JobRow /\ c.attempts = s.attempts /\ c.owner = s.owner
                 /\ c.status = s.status /\ c.document = s.document /\ c.progress = 50
        BY DEF JobRow
    <1> QED
        BY <1>1, RenewedRow

\* _clear_lease
LEMMA ClearedRow ==
    ASSUME NEW r \in JobRow
    PROVE  LET c == ClearLease(r) IN
           /\ c \in JobRow /\ c.attempts = r.attempts /\ c.owner = NoWorker
           /\ c.lease = Floor /\ c.progress = r.progress
    BY Distances DEF JobRow, ClearLease

\* A failed attempt goes back to the queue while attempts are left, and fails for good
\* otherwise.
LEMMA FailedRow ==
    ASSUME NEW r \in JobRow, NEW retryable \in BOOLEAN, NEW lag \in Lags
    PROVE  LET c == AfterFailure(r, retryable, lag) IN
           /\ c \in JobRow /\ c.attempts = r.attempts /\ c.owner = NoWorker
           /\ c.document = c.status /\ c.lease = Floor
           /\ \/ c.status = "pending" /\ c.progress = 0 /\ r.attempts < MaxAttempts
              \/ c.status = "failed" /\ c.progress = r.progress /\ c.retry = Floor
    <1>1. LET c == Requeued(r, lag) IN
             /\ c \in JobRow /\ c.attempts = r.attempts /\ c.owner = NoWorker
             /\ c.status = "pending" /\ c.document = "pending" /\ c.progress = 0
             /\ c.lease = Floor
        <2>1. ASSUME NEW s \in JobRow
              PROVE  LET c == [s EXCEPT !.status = "pending", !.document = "pending",
                                        !.progress = 0, !.retry = RetryDelay - lag] IN
                     /\ c \in JobRow /\ c.attempts = s.attempts /\ c.owner = s.owner
                     /\ c.status = "pending" /\ c.document = "pending" /\ c.progress = 0
                     /\ c.lease = s.lease
            BY Distances DEF JobRow, Status
        <2> QED
            BY <2>1, ClearedRow DEF Requeued
    <1>2. LET c == Terminated(r) IN
             /\ c \in JobRow /\ c.attempts = r.attempts /\ c.owner = NoWorker
             /\ c.status = "failed" /\ c.document = "failed" /\ c.progress = r.progress
             /\ c.lease = Floor /\ c.retry = Floor
        <2>1. ASSUME NEW s \in JobRow
              PROVE  LET c == [s EXCEPT !.status = "failed", !.document = "failed",
                                        !.retry = Floor] IN
                     /\ c \in JobRow /\ c.attempts = s.attempts /\ c.owner = s.owner
                     /\ c.status = "failed" /\ c.document = "failed"
                     /\ c.progress = s.progress /\ c.lease = s.lease /\ c.retry = Floor
            BY Distances DEF JobRow, Status
        <2> DEFINE s == ClearLease(r)
        <2>2. /\ s \in JobRow /\ s.attempts = r.attempts /\ s.owner = NoWorker
              /\ s.lease = Floor /\ s.progress = r.progress
            BY ClearedRow
        <2>3. Terminated(r) = [s EXCEPT !.status = "failed", !.document = "failed",
                                        !.retry = Floor]
            BY DEF Terminated
        <2> HIDE DEF s
        <2> QED
            BY <2>1, <2>2, <2>3
    <1> QED
        BY <1>1, <1>2 DEF AfterFailure

\* _complete_success
LEMMA SucceededRow ==
    ASSUME NEW r \in JobRow
    PROVE  LET c == AfterSuccess(r) IN
           /\ c \in JobRow /\ c.attempts = r.attempts /\ c.owner = NoWorker
           /\ c.status = "completed" /\ c.document = "completed" /\ c.progress = 100
           /\ c.lease = Floor /\ c.retry = Floor
    <1>1. ASSUME NEW s \in JobRow, NEW c,
                 c = [s EXCEPT !.status = "completed", !.document = "completed",
                               !.progress = 100, !.retry = Floor]
          PROVE  /\ c \in JobRow /\ c.attempts = s.attempts /\ c.owner = s.owner
                 /\ c.status = "completed" /\ c.document = "completed" /\ c.progress = 100
                 /\ c.lease = s.lease /\ c.retry = Floor
        BY <1>1, Distances DEF JobRow, Status
    <1> DEFINE s == ClearLease(r)
    <1>2. /\ s \in JobRow /\ s.attempts = r.attempts /\ s.owner = NoWorker
          /\ s.lease = Floor
        BY ClearedRow
    <1>3. AfterSuccess(r) = [s EXCEPT !.status = "completed", !.document = "completed",
                                      !.progress = 100, !.retry = Floor]
        BY DEF AfterSuccess
    <1> HIDE DEF s
    <1>4. LET c == AfterSuccess(r) IN
             /\ c \in JobRow /\ c.attempts = s.attempts /\ c.owner = s.owner
             /\ c.status = "completed" /\ c.document = "completed" /\ c.progress = 100
             /\ c.lease = s.lease /\ c.retry = Floor
        BY <1>1, <1>2, <1>3
    <1> QED
        BY <1>2, <1>4

\* retry_ingestion_job changes failed rows only, and never their attempt count.
LEMMA RetriedRow ==
    ASSUME NEW r \in JobRow
    PROVE  LET c == AfterRetryRequest(r) IN
           /\ c \in JobRow /\ c.attempts = r.attempts
           /\ \/ c = r
              \/ /\ r.status = "failed" /\ c.status = "pending" /\ c.document = "pending"
                 /\ c.owner = NoWorker /\ c.lease = Floor /\ c.progress = 0
    <1>1. ASSUME NEW s \in JobRow
          PROVE  LET c == [s EXCEPT !.status = "pending", !.document = "pending",
                                    !.progress = 0, !.retry = Floor] IN
                 /\ c \in JobRow /\ c.attempts = s.attempts /\ c.owner = s.owner
                 /\ c.status = "pending" /\ c.document = "pending" /\ c.progress = 0
                 /\ c.lease = s.lease
        BY Distances DEF JobRow, Status
    <1> QED
        BY <1>1, ClearedRow DEF AfterRetryRequest

\* Time moves the instants only.
LEMMA AgedRow ==
    ASSUME NEW r \in JobRow
    PROVE  LET c == Aged(r) IN
           /\ c \in JobRow /\ c.attempts = r.attempts /\ c.owner = r.owner
           /\ c.status = r.status /\ c.document = r.document /\ c.progress = r.progress
           /\ r.lease = Floor => c.lease = Floor
           /\ r.retry = Floor => c.retry = Floor
           /\ r.lease = Floor /\ r.retry = Floor => c = r
    <1>1. Closer(r.lease) \in Floor .. LeaseDuration /\ Closer(r.retry) \in Floor .. RetryDelay
        BY ConstantsAssumption DEF JobRow, Floor, Closer
    <1>2. Closer(Floor) = Floor
        BY Distances DEF Closer
    <1>3. /\ Aged(r) \in JobRow /\ Aged(r).lease = Closer(r.lease)
          /\ Aged(r).retry = Closer(r.retry)
        BY <1>1 DEF JobRow, Aged
    <1>4. r.lease = Floor /\ r.retry = Floor => Aged(r) = r
        BY <1>2 DEF JobRow, Aged
    <1> QED
        BY <1>2, <1>3, <1>4 DEF JobRow, Aged

-----------------------------------------------------------------------------
(* What the helpers of the actions do to the types. *)

\* A worker that changes stage, ends its attempt or fails is a worker state again.
LEMMA WorkerMoves ==
    ASSUME WorkersTyped, NEW w \in Workers
    PROVE  /\ \A stage \in Stages \ {"upsert"} : MoveTo(w, stage) => WorkersTyped'
           /\ EndAttempt(w) => WorkersTyped'
           /\ \A b \in BOOLEAN : worker' = Failing(w, b) => WorkersTyped'
    <1>1. ASSUME NEW v \in WorkerState, v.stage # "upsert", worker' = [worker EXCEPT ![w] = v]
          PROVE  WorkersTyped'
        BY <1>1 DEF WorkersTyped
    <1>2. ASSUME NEW stage \in Stages \ {"upsert"}, MoveTo(w, stage) PROVE WorkersTyped'
        <2>1. LET v == [worker[w] EXCEPT !.stage = stage] IN
                 v \in WorkerState /\ v.stage # "upsert"
            BY DEF WorkersTyped, WorkerState
        <2>2. worker' = [worker EXCEPT ![w] = [worker[w] EXCEPT !.stage = stage]]
            BY <1>2 DEF MoveTo
        <2> QED
            BY <1>1, <2>1, <2>2
    <1>3. ASSUME EndAttempt(w) PROVE WorkersTyped'
        <2>1. IdleWorker \in WorkerState /\ IdleWorker.stage # "upsert"
            BY ProcessingAssumption, ConstantsAssumption DEF IdleWorker, WorkerState, Stages
        <2> QED
            BY <1>1, <1>3, <2>1 DEF EndAttempt
    <1>4. ASSUME NEW b \in BOOLEAN, worker' = Failing(w, b) PROVE WorkersTyped'
        <2>1. "fail" \in Stages /\ 1 \in 1 .. Batches + 1
            BY ProcessingAssumption DEF Stages
        <2>2. LET v == [worker[w] EXCEPT !.stage = "fail", !.batch = 1, !.retryable = b] IN
                 v \in WorkerState /\ v.stage # "upsert"
            BY <2>1 DEF WorkersTyped, WorkerState
        <2>3. worker' = [worker EXCEPT ![w] = [worker[w] EXCEPT !.stage = "fail", !.batch = 1,
                                                                !.retryable = b]]
            BY <1>4 DEF Failing
        <2> QED
            BY <1>1, <2>2, <2>3
    <1> QED
        BY <1>2, <1>3, <1>4

\* A request given up is at most added to the strays.
LEMMA GivingUp ==
    ASSUME TypeOK, NEW w \in Workers, worker[w].job \in Jobs, GiveUpRequest(w)
    PROVE  /\ stray' \in SUBSET Request
           /\ \A r \in stray' : \/ r \in stray
                               \/ /\ worker[w].stage \in {"delete", "upsert"}
                                  /\ r.job = worker[w].job
                                  /\ r.attempt = worker[w].attempt
    <1>1. CASE UNCHANGED stray
        BY <1>1 DEF TypeOK
    <1>2. CASE ~ UNCHANGED stray
        <2> DEFINE op == IF worker[w].stage = "delete" THEN 0 ELSE worker[w].batch
        <2>1. worker[w].stage \in {"delete", "upsert"}
            BY <1>2 DEF GiveUpRequest
        <2>2. op \in 0 .. Batches /\ worker[w].attempt \in 0 .. MaxAttempts
            BY <2>1, ProcessingAssumption DEF TypeOK, WorkersTyped, AllBatches, WorkerState
        <2>3. [job |-> worker[w].job, attempt |-> worker[w].attempt, op |-> op] \in Request
            BY <2>2 DEF Request
        <2>4. stray' = stray \cup
                {[job |-> worker[w].job, attempt |-> worker[w].attempt, op |-> op]}
            BY <1>2 DEF GiveUpRequest
        <2> HIDE DEF op
        <2> QED
            BY <2>1, <2>3, <2>4 DEF TypeOK
    <1> QED
        BY <1>1, <1>2

\* Chroma keeps sets of batches, whoever writes.
LEMMA Applying ==
    ASSUME TypeOK, NEW j \in Jobs, NEW a \in 0 .. MaxAttempts, NEW op \in 0 .. Batches,
           Apply(j, a, op)
    PROVE  /\ index' \in [Jobs -> SUBSET AllBatches]
           /\ wiper' \in [Jobs -> 0 .. MaxAttempts]
    <1>1. (IF op = 0 THEN {} ELSE index[j] \cup {op}) \in SUBSET AllBatches
        BY ProcessingAssumption DEF TypeOK, AllBatches
    <1>2. (IF op = 0 THEN a ELSE wiper[j]) \in 0 .. MaxAttempts
        BY DEF TypeOK
    <1> QED
        BY <1>1, <1>2 DEF Apply, TypeOK

\* Recovery leaves a row alone or fails its attempt as retryable.
LEMMA Recovering ==
    ASSUME TypeOK, NEW w \in Workers, RecoverExpiredLeases(w)
    PROVE  /\ job' \in [Jobs -> JobRow]
           /\ \A j \in Jobs :
                \/ job'[j] = job[j]
                \/ /\ job[j].status = "processing"
                   /\ \E lag \in Lags : job'[j] = AfterFailure(job[j], TRUE, lag)
    <1>1. PICK lag \in Lags : \E S \in SUBSET {j \in Jobs : Expired(job[j], lag)} :
             job' = [j \in Jobs |-> IF j \in S THEN AfterFailure(job[j], TRUE, lag) ELSE job[j]]
        BY DEF RecoverExpiredLeases
    <1> PICK S \in SUBSET {j \in Jobs : Expired(job[j], lag)} :
             job' = [j \in Jobs |-> IF j \in S THEN AfterFailure(job[j], TRUE, lag) ELSE job[j]]
        BY <1>1
    <1>2. \A j \in S : job[j].status = "processing"
        BY DEF Expired
    <1>3. \A j \in Jobs : AfterFailure(job[j], TRUE, lag) \in JobRow
        BY FailedRow DEF TypeOK
    <1> QED
        BY <1>1, <1>2, <1>3 DEF TypeOK

\* The state of an empty queue: every document pending, every worker idle.
LEMMA InitHolds == Init => InductiveInvariant
    <1> SUFFICES ASSUME Init PROVE InductiveInvariant
        OBVIOUS
    <1>1. NewRow \in JobRow /\ IdleWorker \in WorkerState
        BY Distances, ConstantsAssumption, ProcessingAssumption
        DEF NewRow, JobRow, Status, IdleWorker, WorkerState, Stages
    <1>2. TypeOK
        <2>1. \A w \in Workers : worker[w].stage # "upsert"
            BY DEF Init, IdleWorker
        <2> QED
            BY <1>1, <2>1, ConstantsAssumption DEF Init, TypeOK, WorkersTyped
    <1>3. RowsAgree
        <2>1. RowAgrees(NewRow, 0)
            BY DEF RowAgrees, NewRow
        <2> QED
            BY <2>1 DEF Init, RowsAgree
    <1>4. \A w \in Workers : worker[w].stage = "idle"
        BY DEF Init, IdleWorker
    <1>5. /\ AttemptsAreDistinct /\ OwnerRunsCurrentAttempt /\ OwnChunksStand
          /\ OwnUpsertsStand /\ WritersHaveNotCompleted
        BY <1>4 DEF AttemptsAreDistinct, OwnerRunsCurrentAttempt, OwnChunksStand,
                    OwnUpsertsStand, WritersHaveNotCompleted, Active, Writing, Working, Stages
    <1>6. CompletedChunksAreCurrent /\ CompletedIndexIsWhole /\ StraysAreOver
        BY DEF Init, NewRow, CompletedChunksAreCurrent, CompletedIndexIsWhole, StraysAreOver
    <1> QED
        BY <1>2, <1>3, <1>5, <1>6 DEF InductiveInvariant

\* Types, and the bound on attempt_count: a claim is the only increment, and it
\* requires an attempt to be left.
LEMMA TypeStep == InductiveInvariant /\ [Next]_vars => TypeOK'
    <1> SUFFICES ASSUME TypeOK, AttemptsAreDistinct, [Next]_vars PROVE TypeOK'
        BY DEF InductiveInvariant
    <1> USE DEF TypeOK
    <1>1. ASSUME NEW w \in Workers, RecoverExpiredLeases(w) PROVE TypeOK'
        BY <1>1, Recovering, WorkerMoves DEF RecoverExpiredLeases, Stages
    <1>2. ASSUME NEW w \in Workers, NEW j \in Jobs, ClaimNext(w, j) PROVE TypeOK'
        <2>1. PICK lag \in Lags :
                 Claimable(job[j], lag) /\ job' = [job EXCEPT ![j] = Claimed(job[j], w, lag)]
            BY <1>2 DEF ClaimNext
        <2>2. [stage |-> "prepare", job |-> j, attempt |-> job[j].attempts + 1,
               batch |-> 1, retryable |-> FALSE] \in WorkerState
            BY <2>1, ConstantsAssumption, ProcessingAssumption
            DEF WorkerState, Stages, JobRow, Claimable
        <2> QED
            BY <1>2, <2>1, <2>2, ClaimedRow DEF ClaimNext, WorkersTyped
    <1>3. ASSUME NEW w \in Workers, NothingClaimed(w) PROVE TypeOK'
        BY <1>3, WorkerMoves DEF NothingClaimed
    <1>4. ASSUME NEW w \in Workers, Prepare(w) PROVE TypeOK'
        BY <1>4, WorkerMoves DEF Prepare, Stages
    <1>5. ASSUME NEW w \in Workers, ReplaceChunks(w) PROVE TypeOK'
        <2>1. worker[w].job \in Jobs /\ worker[w].attempt \in 0 .. MaxAttempts
            BY <1>5 DEF ReplaceChunks,
                   AttemptsAreDistinct, Active, Stages, WorkerState, WorkersTyped
        <2>2. job' \in [Jobs -> JobRow] /\ chunks' \in [Jobs -> 0 .. MaxAttempts]
            BY <1>5, <2>1, PersistedRow DEF ReplaceChunks
        <2> QED
            BY <1>5, <2>2, WorkerMoves DEF ReplaceChunks, Stages
    <1>6. ASSUME NEW w \in Workers, Embed(w) PROVE TypeOK'
        BY <1>6, WorkerMoves DEF Embed, Stages
    <1>7. ASSUME NEW w \in Workers, DeleteByDocument(w) PROVE TypeOK'
        <2>1. worker[w].job \in Jobs /\ worker[w].attempt \in 0 .. MaxAttempts
            BY <1>7 DEF DeleteByDocument,
                   AttemptsAreDistinct, Active, Stages, WorkerState, WorkersTyped
        <2>2. index' \in [Jobs -> SUBSET AllBatches] /\ wiper' \in [Jobs -> 0 .. MaxAttempts]
            BY <1>7, <2>1, Applying, ProcessingAssumption DEF DeleteByDocument
        <2>3. LET v == [worker[w] EXCEPT !.stage = "upsert", !.batch = 1] IN
                 v \in WorkerState /\ v.batch = 1
            <3>1. "upsert" \in Stages /\ 1 \in 1 .. Batches + 1
                BY ProcessingAssumption DEF Stages
            <3> QED
                BY <3>1 DEF WorkersTyped, WorkerState
        <2>4. worker' = [worker EXCEPT ![w] = [worker[w] EXCEPT !.stage = "upsert", !.batch = 1]]
            BY <1>7 DEF DeleteByDocument
        <2> QED
            BY <1>7, <2>2, <2>3, <2>4, ProcessingAssumption
            DEF DeleteByDocument, AllBatches, WorkersTyped
    <1>8. ASSUME NEW w \in Workers, Upsert(w) PROVE TypeOK'
        <2>1. worker[w].job \in Jobs /\ worker[w].attempt \in 0 .. MaxAttempts
            BY <1>8 DEF Upsert,
                   AttemptsAreDistinct, Active, Stages, WorkerState, WorkersTyped
        <2>2. worker[w].batch \in 1 .. Batches
            BY <1>8 DEF Upsert, AllBatches, WorkersTyped
        <2>3. index' \in [Jobs -> SUBSET AllBatches] /\ wiper' \in [Jobs -> 0 .. MaxAttempts]
            BY <1>8, <2>1, <2>2, Applying, ProcessingAssumption DEF Upsert
        <2> DEFINE s == IF worker[w].batch = Batches THEN "finish" ELSE "upsert"
                   b == worker[w].batch + 1
        <2>4. s \in Stages /\ b \in 1 .. Batches + 1 /\ (s = "upsert" => b \in 1 .. Batches)
            BY <2>2, ProcessingAssumption DEF Stages
        <2>5. worker' = [worker EXCEPT ![w] = [worker[w] EXCEPT !.batch = b, !.stage = s]]
            BY <1>8 DEF Upsert
        <2> HIDE DEF s, b
        <2>6. LET v == [worker[w] EXCEPT !.batch = b, !.stage = s] IN
                 v \in WorkerState /\ v.batch = b /\ v.stage = s
            BY <2>4 DEF WorkerState, WorkersTyped
        <2> QED
            BY <1>8, <2>3, <2>4, <2>5, <2>6 DEF Upsert, AllBatches, WorkersTyped
    <1>9. ASSUME NEW w \in Workers, CompleteSuccess(w) PROVE TypeOK'
        <2>1. worker[w].job \in Jobs
            BY <1>9 DEF CompleteSuccess, AttemptsAreDistinct, Active, Stages
        <2>2. job' \in [Jobs -> JobRow]
            BY <1>9, <2>1, SucceededRow DEF CompleteSuccess
        <2> QED
            BY <1>9, <2>2, WorkerMoves DEF CompleteSuccess
    <1>10. ASSUME NEW w \in Workers, LoseLease(w) PROVE TypeOK'
        <2>1. worker[w].job \in Jobs
            BY <1>10 DEF LoseLease, AttemptsAreDistinct, Active, Working, Stages
        <2> QED
            BY <1>10, <2>1, WorkerMoves, GivingUp DEF LoseLease
    <1>11. ASSUME NEW w \in Workers, StageFails(w) PROVE TypeOK'
        <2>1. worker[w].job \in Jobs
            BY <1>11 DEF StageFails, AttemptsAreDistinct, Active, Working, Stages
        <2> QED
            BY <1>11, <2>1, WorkerMoves, GivingUp DEF StageFails
    <1>12. ASSUME NEW w \in Workers, CompleteFailure(w) PROVE TypeOK'
        <2>1. worker[w].job \in Jobs /\ worker[w].retryable \in BOOLEAN
            BY <1>12 DEF CompleteFailure,
                   AttemptsAreDistinct, Active, Stages, WorkerState, WorkersTyped
        <2>2. job' \in [Jobs -> JobRow]
            BY <1>12, <2>1, FailedRow DEF CompleteFailure
        <2> QED
            BY <1>12, <2>2, WorkerMoves DEF CompleteFailure
    <1>13. ASSUME NEW w \in Workers, RenewLease(w) PROVE TypeOK'
        <2>1. worker[w].job \in Jobs
            BY <1>13 DEF RenewLease, AttemptsAreDistinct, Active, Working, Stages
        <2>2. job' \in [Jobs -> JobRow]
            BY <1>13, <2>1, RenewedRow DEF RenewLease
        <2> QED
            BY <1>13, <2>2 DEF RenewLease, WorkersTyped
    <1>14. ASSUME NEW w \in Workers, Abandon(w) PROVE TypeOK'
        <2>1. worker[w].job \in Jobs
            BY <1>14 DEF Abandon, AttemptsAreDistinct
        <2> QED
            BY <1>14, <2>1, WorkerMoves, GivingUp DEF Abandon
    <1>15. ASSUME NEW r \in stray, ApplyStray(r) PROVE TypeOK'
        <2>1. r.job \in Jobs /\ r.attempt \in 0 .. MaxAttempts /\ r.op \in 0 .. Batches
            BY DEF Request
        <2> QED
            BY <1>15, <2>1, Applying DEF ApplyStray, WorkersTyped
    <1>16. ASSUME NEW r \in stray, DropStray(r) PROVE TypeOK'
        BY <1>16 DEF DropStray, WorkersTyped
    <1>17. ASSUME NEW j \in Jobs, RetryIngestionJob(j) PROVE TypeOK'
        BY <1>17, RetriedRow DEF RetryIngestionJob, WorkersTyped
    <1>18. CASE Tick
        BY <1>18, AgedRow DEF Tick, WorkersTyped
    <1>19. CASE UNCHANGED vars
        BY <1>19 DEF vars, WorkersTyped
    <1> QED
        BY <1>1, <1>2, <1>3, <1>4, <1>5, <1>6, <1>7, <1>8, <1>9, <1>10, <1>11, <1>12, <1>13,
           <1>14, <1>15, <1>16, <1>17, <1>18, <1>19 DEF Next, WorkerStep

\* The two tables move together: each transaction writes a row that agrees with its
\* document, its lease, its progress and the chunk rows.
LEMMA RowsAgreeStep == InductiveInvariant /\ [Next]_vars => RowsAgree'
    <1> SUFFICES ASSUME InductiveInvariant, [Next]_vars PROVE RowsAgree'
        OBVIOUS
    <1> USE DEF InductiveInvariant
    <1>a. ASSUME NEW j \in Jobs
          PROVE  job[j] \in JobRow /\ RowAgrees(job[j], chunks[j])
        BY DEF TypeOK, RowsAgree
    <1>b. ASSUME NEW r \in JobRow, NEW stored, RowAgrees(r, stored), r.status = "processing",
                 NEW retryable \in BOOLEAN, NEW lag \in Lags
          PROVE  RowAgrees(AfterFailure(r, retryable, lag), stored)
        BY <1>b, FailedRow DEF RowAgrees
    <1>c. ASSUME job' = job, chunks' = chunks PROVE RowsAgree'
        BY <1>c DEF RowsAgree
    <1>1. ASSUME NEW w \in Workers, RecoverExpiredLeases(w) PROVE RowsAgree'
        BY <1>1, <1>a, <1>b, Recovering DEF RowsAgree, RecoverExpiredLeases
    <1>2. ASSUME NEW w \in Workers, NEW k \in Jobs, ClaimNext(w, k) PROVE RowsAgree'
        <2>1. PICK lag \in Lags :
                 Claimable(job[k], lag) /\ job' = [job EXCEPT ![k] = Claimed(job[k], w, lag)]
            BY <1>2 DEF ClaimNext
        <2>2. RowAgrees(Claimed(job[k], w, lag), chunks[k])
            BY <1>a, <2>1, ClaimedRow, ConstantsAssumption DEF RowAgrees
        <2>3. chunks' = chunks
            BY <1>2 DEF ClaimNext
        <2> QED
            BY <1>a, <2>1, <2>2, <2>3 DEF RowsAgree, TypeOK
    <1>3. ASSUME NEW w \in Workers, ReplaceChunks(w) PROVE RowsAgree'
        <2> DEFINE k == worker[w].job
        <2>1. PICK lag \in Lags :
                 /\ Holds(w, lag)
                 /\ job' = [job EXCEPT ![k] = [Renewed(job[k], lag) EXCEPT !.progress = 50]]
            BY <1>3 DEF ReplaceChunks
        <2>2. k \in Jobs /\ job[k].status = "processing" /\ worker[w].attempt = job[k].attempts
            BY <1>3, <2>1 DEF ReplaceChunks, AttemptsAreDistinct, OwnerRunsCurrentAttempt,
                              Active, Stages, Holds, Owned, Row
        <2> DEFINE c == [Renewed(job[k], lag) EXCEPT !.progress = 50]
        <2>5. /\ c.status = "processing" /\ c.document = "processing" /\ c.progress = 50
              /\ c.attempts = worker[w].attempt /\ c.owner # NoWorker
            <3>1. job[k] \in JobRow /\ job[k].document = "processing" /\ job[k].owner # NoWorker
                BY <1>a, <2>2 DEF RowAgrees
            <3>2. /\ c.status = job[k].status /\ c.document = job[k].document
                  /\ c.progress = 50 /\ c.attempts = job[k].attempts /\ c.owner = job[k].owner
                BY <3>1, PersistedRow
            <3> QED
                BY <2>2, <3>1, <3>2
        <2>6. job' = [job EXCEPT ![k] = c]
            BY <2>1
        <2> HIDE DEF c
        <2>3. RowAgrees(c, worker[w].attempt)
            BY <2>5 DEF RowAgrees
        <2>4. chunks' = [chunks EXCEPT ![k] = worker[w].attempt]
            BY <1>3 DEF ReplaceChunks
        <2> QED
            BY <1>a, <2>2, <2>3, <2>4, <2>6 DEF RowsAgree, TypeOK
    <1>4. ASSUME NEW w \in Workers, CompleteSuccess(w) PROVE RowsAgree'
        <2> DEFINE k == worker[w].job
        <2>1. k \in Jobs /\ chunks' = chunks /\ job' = [job EXCEPT ![k] = AfterSuccess(job[k])]
            BY <1>4 DEF CompleteSuccess, AttemptsAreDistinct, Active, Stages
        <2>2. RowAgrees(AfterSuccess(job[k]), chunks[k])
            BY <1>a, <2>1, SucceededRow DEF RowAgrees
        <2> QED
            BY <1>a, <2>1, <2>2 DEF RowsAgree, TypeOK
    <1>5. ASSUME NEW w \in Workers, CompleteFailure(w) PROVE RowsAgree'
        <2> DEFINE k == worker[w].job
        <2>1. k \in Jobs /\ worker[w].retryable \in BOOLEAN /\ chunks' = chunks
            BY <1>5 DEF CompleteFailure, AttemptsAreDistinct, Active, Stages, TypeOK,
                        WorkersTyped, WorkerState
        <2>2. PICK lag \in Lags :
                 job' = [job EXCEPT ![k] = IF Holds(w, lag)
                                           THEN AfterFailure(job[k], worker[w].retryable, lag)
                                           ELSE job[k]]
            BY <1>5 DEF CompleteFailure
        <2>3. Holds(w, lag) => job[k].status = "processing"
            BY DEF Holds, Owned, Row
        <2> QED
            BY <1>a, <1>b, <2>1, <2>2, <2>3 DEF RowsAgree, TypeOK
    <1>6. ASSUME NEW w \in Workers, RenewLease(w) PROVE RowsAgree'
        <2> DEFINE k == worker[w].job
        <2>1. k \in Jobs /\ chunks' = chunks /\ job[k].status = "processing"
            BY <1>6 DEF RenewLease, AttemptsAreDistinct, Active, Working, Stages, Holds,
                        Owned, Row
        <2>2. PICK lag \in Lags : job' = [job EXCEPT ![k] = Renewed(job[k], lag)]
            BY <1>6 DEF RenewLease
        <2>3. RowAgrees(Renewed(job[k], lag), chunks[k])
            BY <1>a, <2>1, RenewedRow DEF RowAgrees
        <2> QED
            BY <1>a, <2>1, <2>2, <2>3 DEF RowsAgree, TypeOK
    <1>7. ASSUME NEW k \in Jobs, RetryIngestionJob(k) PROVE RowsAgree'
        <2>1. RowAgrees(AfterRetryRequest(job[k]), chunks[k])
            BY <1>a, RetriedRow DEF RowAgrees
        <2> QED
            BY <1>7, <1>a, <2>1 DEF RetryIngestionJob, RowsAgree, TypeOK
    <1>8. CASE Tick
        <2>1. ASSUME NEW j \in Jobs PROVE RowAgrees(Aged(job[j]), chunks[j])
            BY <1>a, AgedRow DEF RowAgrees
        <2> QED
            BY <1>8, <2>1 DEF Tick, RowsAgree
    <1>9. ASSUME NEW w \in Workers,
                 \/ NothingClaimed(w) \/ Prepare(w) \/ Embed(w) \/ DeleteByDocument(w)
                 \/ Upsert(w) \/ LoseLease(w) \/ StageFails(w) \/ Abandon(w)
          PROVE  RowsAgree'
        BY <1>9, <1>c DEF NothingClaimed, Prepare, Embed, DeleteByDocument, Upsert, LoseLease,
                          StageFails, Abandon
    <1>10. ASSUME NEW r \in stray, ApplyStray(r) \/ DropStray(r) PROVE RowsAgree'
        BY <1>10, <1>c DEF ApplyStray, DropStray
    <1>11. CASE UNCHANGED vars
        BY <1>11, <1>c DEF vars
    <1> QED
        BY <1>1, <1>2, <1>3, <1>4, <1>5, <1>6, <1>7, <1>8, <1>9, <1>10, <1>11
        DEF Next, WorkerStep

-----------------------------------------------------------------------------
(***************************************************************************)
(* The shape of a step.  A claim is the one step that begins an attempt;   *)
(* every other step leaves attempt counts alone, takes leases away at      *)
(* most, and lets a worker at most go on with, or leave, its attempt.      *)
(***************************************************************************)

\* An active worker is at work on a job.
LEMMA ActiveWorker ==
    ASSUME InductiveInvariant, NEW w \in Workers, worker[w].stage \in Active
    PROVE  /\ worker[w].job \in Jobs /\ worker[w].attempt \in 1 .. job[worker[w].job].attempts
           /\ worker[w] \in WorkerState /\ job[worker[w].job] \in JobRow
           /\ job[worker[w].job].owner = w =>
                 worker[w].attempt = job[worker[w].job].attempts
    BY DEF InductiveInvariant, AttemptsAreDistinct, OwnerRunsCurrentAttempt, Row, TypeOK,
           WorkersTyped

\* _claim_next
LEMMA ClaimShape ==
    ASSUME InductiveInvariant, NEW w \in Workers, NEW j \in Jobs, ClaimNext(w, j)
    PROVE  /\ job[j].status = "pending" /\ job[j].owner = NoWorker
           /\ job'[j].status = "processing" /\ job'[j].owner = w
           /\ job'[j].attempts = job[j].attempts + 1
           /\ job[j].attempts \in Nat
           /\ \A k \in Jobs \ {j} : job'[k] = job[k]
           /\ worker'[w].stage = "prepare" /\ worker'[w].job = j
           /\ worker'[w].attempt = job[j].attempts + 1
           /\ \A v \in Workers \ {w} : worker'[v] = worker[v]
           /\ UNCHANGED <<chunks, index, wiper, stray>>
    <1>1. PICK lag \in Lags :
             Claimable(job[j], lag) /\ job' = [job EXCEPT ![j] = Claimed(job[j], w, lag)]
        BY DEF ClaimNext
    <1>2. job \in [Jobs -> JobRow] /\ worker \in [Workers -> WorkerState]
        BY DEF InductiveInvariant, TypeOK, WorkersTyped
    <1>3. job[j].status = "pending" /\ job[j].owner = NoWorker
        BY <1>1 DEF InductiveInvariant, RowsAgree, RowAgrees, Claimable
    <1>4. job[j].attempts \in Nat
        BY <1>2, ConstantsAssumption DEF JobRow
    <1>5. /\ job'[j].status = "processing" /\ job'[j].owner = w
          /\ job'[j].attempts = job[j].attempts + 1
          /\ \A k \in Jobs \ {j} : job'[k] = job[k]
        BY <1>1, <1>2, ClaimedRow
    <1>6. /\ worker'[w].stage = "prepare" /\ worker'[w].job = j
          /\ worker'[w].attempt = job[j].attempts + 1
          /\ \A v \in Workers \ {w} : worker'[v] = worker[v]
        BY <1>2 DEF ClaimNext
    <1> QED
        BY <1>3, <1>4, <1>5, <1>6 DEF ClaimNext

\* What a step other than a claim does to a row.
RowStays(j) ==
    /\ job'[j].attempts = job[j].attempts
    /\ job'[j].owner \in {job[j].owner, NoWorker}
    /\ job[j].status = "completed" => job'[j] = job[j]
    /\ job'[j].status = "completed" =>
          \/ job[j].status = "completed"
          \/ \E w \in Workers : CompleteSuccess(w) /\ worker[w].job = j

\* No attempt begins without a claim, and no lease changes hands.
LEMMA RowsWithoutClaim ==
    ASSUME InductiveInvariant, [Next]_vars, \A w \in Workers, k \in Jobs : ~ClaimNext(w, k),
           NEW j \in Jobs
    PROVE  RowStays(j)
    <1>a. job \in [Jobs -> JobRow]
        BY DEF InductiveInvariant, TypeOK
    <1>b. ASSUME job'[j] = job[j] PROVE RowStays(j)
        BY <1>b DEF RowStays
    <1>c. ASSUME job[j].status = "processing", NEW retryable \in BOOLEAN, NEW lag \in Lags,
                 job'[j] = AfterFailure(job[j], retryable, lag)
          PROVE  RowStays(j)
        BY <1>a, <1>c, FailedRow DEF RowStays
    <1>1. ASSUME NEW w \in Workers, RecoverExpiredLeases(w) PROVE RowStays(j)
        BY <1>1, <1>b, <1>c, Recovering DEF InductiveInvariant
    <1>2. ASSUME NEW w \in Workers, ReplaceChunks(w) PROVE RowStays(j)
        <2> DEFINE k == worker[w].job
        <2>1. PICK lag \in Lags :
                 /\ Holds(w, lag)
                 /\ job' = [job EXCEPT ![k] = [Renewed(job[k], lag) EXCEPT !.progress = 50]]
            BY <1>2 DEF ReplaceChunks
        <2>2. k \in Jobs /\ job[k].status = "processing"
            BY <1>2, <2>1, ActiveWorker DEF ReplaceChunks, Active, Stages, Holds, Owned, Row
        <2> DEFINE c == [Renewed(job[k], lag) EXCEPT !.progress = 50]
        <2>3. c.attempts = job[k].attempts /\ c.owner = job[k].owner /\ c.status = job[k].status
            BY <1>a, <2>2, PersistedRow
        <2>4. job' = [job EXCEPT ![k] = c]
            BY <2>1
        <2> HIDE DEF c
        <2> QED
            BY <1>a, <1>b, <2>2, <2>3, <2>4 DEF RowStays
    <1>3. ASSUME NEW w \in Workers, CompleteSuccess(w) PROVE RowStays(j)
        <2>1. worker[w].job \in Jobs /\ Row(w).status = "processing"
            BY <1>3, ActiveWorker DEF CompleteSuccess, Active, Stages, Holds, Owned
        <2>2. job' = [job EXCEPT ![worker[w].job] = AfterSuccess(job[worker[w].job])]
            BY <1>3 DEF CompleteSuccess
        <2> QED
            BY <1>3, <1>a, <1>b, <2>1, <2>2, SucceededRow DEF RowStays, Row
    <1>4. ASSUME NEW w \in Workers, CompleteFailure(w) PROVE RowStays(j)
        <2> DEFINE k == worker[w].job
        <2>1. k \in Jobs /\ worker[w].retryable \in BOOLEAN
            BY <1>4, ActiveWorker DEF CompleteFailure, Active, Stages, WorkerState
        <2>2. PICK lag \in Lags :
                 job' = [job EXCEPT ![k] = IF Holds(w, lag)
                                           THEN AfterFailure(job[k], worker[w].retryable, lag)
                                           ELSE job[k]]
            BY <1>4 DEF CompleteFailure
        <2>3. Holds(w, lag) => job[k].status = "processing"
            BY DEF Holds, Owned, Row
        <2> QED
            BY <1>a, <1>b, <1>c, <2>1, <2>2, <2>3
    <1>5. ASSUME NEW w \in Workers, RenewLease(w) PROVE RowStays(j)
        <2>1. worker[w].job \in Jobs /\ Row(w).status = "processing"
            BY <1>5, ActiveWorker DEF RenewLease, Active, Working, Stages, Holds, Owned
        <2>2. PICK lag \in Lags :
                 job' = [job EXCEPT ![worker[w].job] = Renewed(job[worker[w].job], lag)]
            BY <1>5 DEF RenewLease
        <2> QED
            BY <1>a, <1>b, <2>1, <2>2, RenewedRow DEF RowStays, Row
    <1>6. ASSUME NEW k \in Jobs, RetryIngestionJob(k) PROVE RowStays(j)
        BY <1>6, <1>a, <1>b, RetriedRow DEF RetryIngestionJob, RowStays
    <1>7. CASE Tick
        <2>1. job[j].status = "completed" => job[j].lease = Floor /\ job[j].retry = Floor
            BY DEF InductiveInvariant, RowsAgree, RowAgrees
        <2> QED
            BY <1>7, <1>a, <2>1, AgedRow DEF Tick, RowStays
    <1>8. ASSUME NEW w \in Workers,
                 \/ NothingClaimed(w) \/ Prepare(w) \/ Embed(w) \/ DeleteByDocument(w)
                 \/ Upsert(w) \/ LoseLease(w) \/ StageFails(w) \/ Abandon(w)
          PROVE  RowStays(j)
        BY <1>8, <1>b DEF NothingClaimed, Prepare, Embed, DeleteByDocument, Upsert, LoseLease,
                          StageFails, Abandon
    <1>9. ASSUME NEW r \in stray, ApplyStray(r) \/ DropStray(r) PROVE RowStays(j)
        BY <1>9, <1>b DEF ApplyStray, DropStray
    <1>10. CASE UNCHANGED vars
        BY <1>10, <1>b DEF vars
    <1> QED
        BY <1>1, <1>2, <1>3, <1>4, <1>5, <1>6, <1>7, <1>8, <1>9, <1>10 DEF Next, WorkerStep

\* What a step other than a claim does to a worker: it goes on with its attempt, or
\* leaves it; only a worker in a writing stage is in one afterwards.
WorkerStays(w) ==
    /\ worker'[w].stage \in Active =>
          /\ worker[w].stage \in Active
          /\ worker'[w].job = worker[w].job /\ worker'[w].attempt = worker[w].attempt
    /\ worker'[w].stage \in Writing => worker[w].stage \in Writing

\* No worker turns to another attempt without a claim.
LEMMA WorkersWithoutClaim ==
    ASSUME InductiveInvariant, [Next]_vars, \A w \in Workers, k \in Jobs : ~ClaimNext(w, k),
           NEW v \in Workers
    PROVE  WorkerStays(v)
    <1>a. worker \in [Workers -> WorkerState]
        BY DEF InductiveInvariant, TypeOK, WorkersTyped
    <1>b. ASSUME worker' = worker PROVE WorkerStays(v)
        BY <1>b DEF WorkerStays
    <1>c. ASSUME NEW w \in Workers, EndAttempt(w) PROVE WorkerStays(v)
        BY <1>a, <1>c DEF EndAttempt, IdleWorker, WorkerStays, Active, Writing, Working, Stages
    <1>d. ASSUME NEW w \in Workers, worker[w].stage \in Writing, NEW s \in Active, MoveTo(w, s)
          PROVE  WorkerStays(v)
        BY <1>a, <1>d DEF MoveTo, WorkerState, WorkerStays, Active, Writing, Working, Stages
    <1>e. ASSUME NEW w \in Workers, worker[w].stage \in Active, NEW b \in BOOLEAN,
                 worker' = Failing(w, b)
          PROVE  WorkerStays(v)
        <2>1. /\ worker'[w].stage = "fail" /\ worker'[w].job = worker[w].job
              /\ worker'[w].attempt = worker[w].attempt
              /\ v # w => worker'[v] = worker[v]
            BY <1>a, <1>e DEF Failing, WorkerState
        <2> QED
            BY <1>e, <2>1 DEF WorkerStays, Writing, Working
    <1>1. ASSUME NEW w \in Workers, RecoverExpiredLeases(w) PROVE WorkerStays(v)
        BY <1>1, <1>a DEF RecoverExpiredLeases, MoveTo, WorkerState, WorkerStays, Active,
                          Writing, Working, Stages
    <1>2. ASSUME NEW w \in Workers, Prepare(w) \/ Embed(w) PROVE WorkerStays(v)
        BY <1>2, <1>d DEF Prepare, Embed, Active, Writing, Working, Stages
    <1>3. ASSUME NEW w \in Workers, ReplaceChunks(w) PROVE WorkerStays(v)
        BY <1>3, <1>d, <1>e DEF ReplaceChunks, Active, Writing, Working, Stages
    <1>4. ASSUME NEW w \in Workers, DeleteByDocument(w) PROVE WorkerStays(v)
        <2>1. /\ worker'[w].stage = "upsert" /\ worker'[w].job = worker[w].job
              /\ worker'[w].attempt = worker[w].attempt
              /\ v # w => worker'[v] = worker[v]
            BY <1>a, <1>4 DEF DeleteByDocument, WorkerState
        <2> QED
            BY <1>4, <2>1 DEF DeleteByDocument, WorkerStays, Active, Writing, Working, Stages
    <1>5. ASSUME NEW w \in Workers, Upsert(w) PROVE WorkerStays(v)
        <2>1. /\ worker'[w].stage \in {"upsert", "finish"} /\ worker'[w].job = worker[w].job
              /\ worker'[w].attempt = worker[w].attempt
              /\ v # w => worker'[v] = worker[v]
            BY <1>a, <1>5 DEF Upsert, WorkerState
        <2> QED
            BY <1>5, <2>1 DEF Upsert, WorkerStays, Active, Writing, Working, Stages
    <1>6. ASSUME NEW w \in Workers, CompleteSuccess(w) PROVE WorkerStays(v)
        BY <1>6, <1>c, <1>e DEF CompleteSuccess, Active, Stages
    <1>7. ASSUME NEW w \in Workers, StageFails(w) PROVE WorkerStays(v)
        BY <1>7, <1>e DEF StageFails, Active, Working, Stages
    <1>8. ASSUME NEW w \in Workers,
                 NothingClaimed(w) \/ LoseLease(w) \/ CompleteFailure(w) \/ Abandon(w)
          PROVE  WorkerStays(v)
        BY <1>8, <1>c DEF NothingClaimed, LoseLease, CompleteFailure, Abandon
    <1>9. ASSUME NEW w \in Workers, RenewLease(w) PROVE WorkerStays(v)
        BY <1>9, <1>b DEF RenewLease
    <1>10. ASSUME NEW r \in stray, ApplyStray(r) \/ DropStray(r) PROVE WorkerStays(v)
        BY <1>10, <1>b DEF ApplyStray, DropStray
    <1>11. ASSUME NEW k \in Jobs, RetryIngestionJob(k) PROVE WorkerStays(v)
        BY <1>11, <1>b DEF RetryIngestionJob
    <1>12. CASE Tick \/ UNCHANGED vars
        BY <1>12, <1>b DEF Tick, vars
    <1> QED
        BY <1>1, <1>2, <1>3, <1>4, <1>5, <1>6, <1>7, <1>8, <1>9, <1>10, <1>11, <1>12
        DEF Next, WorkerStep

-----------------------------------------------------------------------------
(***************************************************************************)
(* The parts of the invariant, one lemma each.                             *)
(***************************************************************************)

\* A claim runs an attempt nobody ran before; any other step begins none.
LEMMA AttemptsStep == InductiveInvariant /\ [Next]_vars => AttemptsAreDistinct'
    <1> SUFFICES ASSUME InductiveInvariant, [Next]_vars PROVE AttemptsAreDistinct'
        OBVIOUS
    <1>a. \A w \in Workers : worker[w].stage \in Active =>
             /\ worker[w].job \in Jobs
             /\ worker[w].attempt \in 1 .. job[worker[w].job].attempts
             /\ job[worker[w].job].attempts \in Nat
        BY ActiveWorker, ConstantsAssumption DEF JobRow
    <1>b. \A v, w \in Workers :
             v # w /\ worker[v].stage \in Active /\ worker[w].stage \in Active
             /\ worker[v].job = worker[w].job => worker[v].attempt # worker[w].attempt
        BY DEF InductiveInvariant, AttemptsAreDistinct
    <1>1. ASSUME NEW w \in Workers, NEW j \in Jobs, ClaimNext(w, j) PROVE AttemptsAreDistinct'
        <2>1. \A v \in Workers : worker'[v].stage \in Active =>
                 /\ worker'[v].job \in Jobs
                 /\ worker'[v].attempt \in 1 .. job'[worker'[v].job].attempts
            BY <1>1, <1>a, ClaimShape
        <2>2. \A v \in Workers \ {w} :
                 worker[v].stage \in Active /\ worker[v].job = j
                     => worker[v].attempt # job[j].attempts + 1
            BY <1>1, <1>a, ClaimShape
        <2>3. \A u, v \in Workers :
                 u # v /\ worker'[u].stage \in Active /\ worker'[v].stage \in Active
                 /\ worker'[u].job = worker'[v].job => worker'[u].attempt # worker'[v].attempt
            BY <1>1, <1>b, <2>2, ClaimShape
        <2> QED
            BY <2>1, <2>3 DEF AttemptsAreDistinct, Row
    <1>2. CASE \A w \in Workers, k \in Jobs : ~ClaimNext(w, k)
        <2>1. \A v \in Workers : WorkerStays(v)
            BY <1>2, WorkersWithoutClaim
        <2>2. \A j \in Jobs : RowStays(j)
            BY <1>2, RowsWithoutClaim
        <2> QED
            BY <1>a, <1>b, <2>1, <2>2 DEF AttemptsAreDistinct, Row, WorkerStays, RowStays
    <1> QED
        BY <1>1, <1>2

\* A worker's name leaves the row with its lease, and comes back with a new attempt of
\* that worker only.
LEMMA OwnerStep == InductiveInvariant /\ [Next]_vars => OwnerRunsCurrentAttempt'
    <1> SUFFICES ASSUME InductiveInvariant, [Next]_vars PROVE OwnerRunsCurrentAttempt'
        OBVIOUS
    <1>a. \A w \in Workers : worker[w].stage \in Active =>
             /\ worker[w].job \in Jobs
             /\ job[worker[w].job].owner = w
                   => worker[w].attempt = job[worker[w].job].attempts
        BY ActiveWorker
    <1>1. ASSUME NEW w \in Workers, NEW j \in Jobs, ClaimNext(w, j)
          PROVE  OwnerRunsCurrentAttempt'
        BY <1>1, <1>a, ClaimShape DEF OwnerRunsCurrentAttempt, Row
    <1>2. CASE \A w \in Workers, k \in Jobs : ~ClaimNext(w, k)
        <2>1. \A v \in Workers : WorkerStays(v)
            BY <1>2, WorkersWithoutClaim
        <2>2. \A j \in Jobs : RowStays(j)
            BY <1>2, RowsWithoutClaim
        <2> QED
            BY <1>a, <2>1, <2>2, ConstantsAssumption
            DEF OwnerRunsCurrentAttempt, Row, WorkerStays, RowStays
    <1> QED
        BY <1>1, <1>2

\* Chunk rows are written by _replace_chunks alone, and only by the row's owner.
LEMMA ChunksStay ==
    ASSUME InductiveInvariant, [Next]_vars, NEW j \in Jobs
    PROVE  \/ chunks'[j] = chunks[j]
           \/ \E w \in Workers :
                 /\ ReplaceChunks(w) /\ worker[w].job = j
                 /\ job[j].owner = w /\ job[j].status = "processing"
                 /\ worker[w].attempt = job[j].attempts
                 /\ chunks'[j] = job[j].attempts
    <1>1. ASSUME NEW w \in Workers, ReplaceChunks(w)
          PROVE  \/ chunks'[j] = chunks[j]
                 \/ /\ worker[w].job = j
                    /\ job[j].owner = w /\ job[j].status = "processing"
                    /\ worker[w].attempt = job[j].attempts
                    /\ chunks'[j] = job[j].attempts
        <2>1. /\ worker[w].job \in Jobs /\ job[worker[w].job].owner = w
              /\ job[worker[w].job].status = "processing"
              /\ worker[w].attempt = job[worker[w].job].attempts
            BY <1>1, ActiveWorker DEF ReplaceChunks, Active, Stages, Holds, Owned, Row
        <2>2. chunks \in [Jobs -> 0 .. MaxAttempts]
            BY DEF InductiveInvariant, TypeOK
        <2> QED
            BY <1>1, <2>1, <2>2 DEF ReplaceChunks
    <1>2. CASE chunks' = chunks
        BY <1>2
    <1> QED
        BY <1>1, <1>2 DEF Next, WorkerStep, vars, RecoverExpiredLeases, ClaimNext,
           NothingClaimed, Prepare, Embed, DeleteByDocument, Upsert, CompleteSuccess,
           LoseLease, StageFails, CompleteFailure, RenewLease, Abandon, ApplyStray,
           DropStray, RetryIngestionJob, Tick

\* A worker comes into the stages past _replace_chunks through it.
LEMMA PastPersist ==
    ASSUME InductiveInvariant, [Next]_vars, NEW v \in Workers,
           worker'[v].stage \in {"embed", "delete", "upsert", "finish"}
    PROVE  worker[v].stage \in {"embed", "delete", "upsert", "finish"} \/ ReplaceChunks(v)
    <1>a. worker \in [Workers -> WorkerState]
        BY DEF InductiveInvariant, TypeOK, WorkersTyped
    <1> DEFINE past == {"embed", "delete", "upsert", "finish"}
    <1>b. ASSUME worker'[v] = worker[v] PROVE worker[v].stage \in past
        BY <1>b
    <1>c. ASSUME NEW w \in Workers, EndAttempt(w) PROVE worker[v].stage \in past
        BY <1>a, <1>c DEF EndAttempt, IdleWorker
    <1>d. ASSUME NEW w \in Workers, NEW b \in BOOLEAN, worker' = Failing(w, b)
          PROVE  worker[v].stage \in past
        <2>1. worker'[w].stage = "fail" /\ (v # w => worker'[v] = worker[v])
            BY <1>a, <1>d DEF Failing, WorkerState
        <2> QED
            BY <2>1
    <1>e. ASSUME NEW w \in Workers, NEW s, MoveTo(w, s)
          PROVE  IF v = w THEN worker'[v].stage = s ELSE worker'[v] = worker[v]
        BY <1>a, <1>e DEF MoveTo, WorkerState
    <1>1. ASSUME NEW w \in Workers, RecoverExpiredLeases(w) \/ Prepare(w)
          PROVE  worker[v].stage \in past
        <2>1. MoveTo(w, "polling") \/ MoveTo(w, "persist")
            BY <1>1 DEF RecoverExpiredLeases, Prepare
        <2> QED
            BY <2>1, <1>e
    <1>2. ASSUME NEW w \in Workers, NEW j \in Jobs, ClaimNext(w, j)
          PROVE  worker[v].stage \in past
        BY <1>2, ClaimShape
    <1>3. ASSUME NEW w \in Workers, ReplaceChunks(w)
          PROVE  worker[v].stage \in past \/ ReplaceChunks(v)
        BY <1>3, <1>d, <1>e DEF ReplaceChunks
    <1>4. ASSUME NEW w \in Workers, Embed(w) PROVE worker[v].stage \in past
        BY <1>4, <1>e DEF Embed
    <1>5. ASSUME NEW w \in Workers, DeleteByDocument(w) \/ Upsert(w)
          PROVE  worker[v].stage \in past
        BY <1>5, <1>a DEF DeleteByDocument, Upsert, WorkerState
    <1>6. ASSUME NEW w \in Workers, CompleteSuccess(w) \/ StageFails(w)
          PROVE  worker[v].stage \in past
        BY <1>6, <1>c, <1>d DEF CompleteSuccess, StageFails
    <1>7. ASSUME NEW w \in Workers,
                 NothingClaimed(w) \/ LoseLease(w) \/ CompleteFailure(w) \/ Abandon(w)
          PROVE  worker[v].stage \in past
        BY <1>7, <1>c DEF NothingClaimed, LoseLease, CompleteFailure, Abandon
    <1>8. CASE worker' = worker
        BY <1>8
    <1> QED
        BY <1>1, <1>2, <1>3, <1>4, <1>5, <1>6, <1>7, <1>8
        DEF Next, WorkerStep, vars, RenewLease, ApplyStray, DropStray, RetryIngestionJob, Tick

\* Past _replace_chunks an attempt that still owns the row finds its own chunk rows.
LEMMA OwnChunksStep == InductiveInvariant /\ [Next]_vars => OwnChunksStand'
    <1> SUFFICES ASSUME InductiveInvariant, [Next]_vars, NEW w \in Workers,
                        worker'[w].stage \in {"embed", "delete", "upsert", "finish"},
                        job'[worker'[w].job].owner = w
                 PROVE  chunks'[worker'[w].job] = worker'[w].attempt
        BY DEF OwnChunksStand, Row
    <1> DEFINE past == {"embed", "delete", "upsert", "finish"}
    <1>1. ASSUME NEW u \in Workers, NEW j \in Jobs, ClaimNext(u, j)
          PROVE  chunks'[worker'[w].job] = worker'[w].attempt
        <2>1. w # u
            BY <1>1, ClaimShape
        <2>2. worker'[w] = worker[w] /\ chunks' = chunks
            BY <1>1, <2>1, ClaimShape
        <2>3. job[worker[w].job].owner = w
            <3>1. worker[w].job \in Jobs
                BY <2>2, ActiveWorker DEF Active, Stages
            <3> QED
                BY <1>1, <2>1, <2>2, <3>1, ClaimShape
        <2> QED
            BY <2>2, <2>3 DEF InductiveInvariant, OwnChunksStand, Row
    <1>2. CASE \A u \in Workers, k \in Jobs : ~ClaimNext(u, k)
        <2> DEFINE j == worker[w].job
        <2>1. worker[w].stage \in Active /\ j \in Jobs /\ worker'[w].job = j
              /\ worker'[w].attempt = worker[w].attempt
            BY <1>2, WorkersWithoutClaim, ActiveWorker DEF WorkerStays, Active, Stages
        <2>2. job[j].owner = w
            BY <1>2, <2>1, RowsWithoutClaim, ConstantsAssumption DEF RowStays
        <2>3. CASE worker[w].stage \in past
            <3>1. chunks[j] = worker[w].attempt
                BY <2>2, <2>3 DEF InductiveInvariant, OwnChunksStand, Row
            <3> QED
                BY <2>1, <2>2, <3>1, ChunksStay, ActiveWorker
        <2>4. CASE ReplaceChunks(w)
            <3>1. chunks \in [Jobs -> 0 .. MaxAttempts]
                BY DEF InductiveInvariant, TypeOK
            <3> QED
                BY <2>1, <2>4, <3>1 DEF ReplaceChunks
        <2> QED
            BY <2>3, <2>4, PastPersist
    <1> QED
        BY <1>1, <1>2

\* A transition to completed is _complete_success of the attempt the row is in.
LEMMA Completing ==
    ASSUME InductiveInvariant, NEW w \in Workers, CompleteSuccess(w)
    PROVE  LET j == worker[w].job IN
           /\ j \in Jobs /\ job[j].owner = w /\ job[j].status = "processing"
           /\ worker[w].attempt = job[j].attempts /\ chunks[j] = job[j].attempts
           /\ UNCHANGED <<chunks, index, wiper, stray>>
           /\ worker'[w].stage \notin Writing
    <1> DEFINE j == worker[w].job
    <1>1. /\ worker[w].stage = "finish" /\ worker[w].stage \in Active
          /\ job[j].owner = w /\ job[j].status = "processing"
        BY DEF CompleteSuccess, Active, Stages, Holds, Owned, Row
    <1>2. j \in Jobs /\ worker[w].attempt = job[j].attempts
        BY <1>1, ActiveWorker
    <1>3. chunks[j] = worker[w].attempt
        BY <1>1 DEF InductiveInvariant, OwnChunksStand, Row
    <1>4. worker \in [Workers -> WorkerState]
        BY DEF InductiveInvariant, TypeOK, WorkersTyped
    <1>5. worker'[w].stage \in {"idle", "fail"}
        BY <1>4 DEF CompleteSuccess, EndAttempt, IdleWorker, Failing, WorkerState
    <1> QED
        BY <1>1, <1>2, <1>3, <1>5 DEF CompleteSuccess, Writing, Working

\* Completion finds the chunk rows of its own attempt, and nobody replaces them later.
LEMMA CompletedChunksStep == InductiveInvariant /\ [Next]_vars => CompletedChunksAreCurrent'
    <1> SUFFICES ASSUME InductiveInvariant, [Next]_vars, NEW j \in Jobs,
                        job'[j].status = "completed"
                 PROVE  chunks'[j] = job'[j].attempts
        BY DEF CompletedChunksAreCurrent
    <1>1. ASSUME NEW u \in Workers, NEW k \in Jobs, ClaimNext(u, k)
          PROVE  chunks'[j] = job'[j].attempts
        BY <1>1, ClaimShape DEF InductiveInvariant, CompletedChunksAreCurrent
    <1>2. CASE \A u \in Workers, k \in Jobs : ~ClaimNext(u, k)
        <2>1. job'[j].attempts = job[j].attempts
            BY <1>2, RowsWithoutClaim DEF RowStays
        <2>2. CASE job[j].status = "completed"
            <3>1. chunks[j] = job[j].attempts
                BY <2>2 DEF InductiveInvariant, CompletedChunksAreCurrent
            <3> QED
                BY <2>1, <2>2, <3>1, ChunksStay
        <2>3. ASSUME NEW w \in Workers, CompleteSuccess(w), worker[w].job = j
              PROVE  chunks'[j] = job'[j].attempts
            BY <2>1, <2>3, Completing
        <2> QED
            BY <1>2, <2>2, <2>3, RowsWithoutClaim DEF RowStays
    <1> QED
        BY <1>1, <1>2

\* Two attempts of one number would be needed for a completed attempt to write again.
LEMMA WritersStep == InductiveInvariant /\ [Next]_vars => WritersHaveNotCompleted'
    <1> SUFFICES ASSUME InductiveInvariant, [Next]_vars, NEW w \in Workers,
                        worker'[w].stage \in Writing,
                        job'[worker'[w].job].status = "completed",
                        job'[worker'[w].job].attempts = worker'[w].attempt
                 PROVE  FALSE
        BY DEF WritersHaveNotCompleted, Row
    <1>a. \A v \in Workers : worker[v].stage \in Writing =>
             /\ worker[v].stage \in Active /\ worker[v].job \in Jobs
             /\ ~ /\ job[worker[v].job].status = "completed"
                  /\ job[worker[v].job].attempts = worker[v].attempt
        BY ActiveWorker
        DEF InductiveInvariant, WritersHaveNotCompleted, Row, Writing, Working, Active, Stages
    <1>1. ASSUME NEW u \in Workers, NEW k \in Jobs, ClaimNext(u, k) PROVE FALSE
        BY <1>1, <1>a, ClaimShape
    <1>2. CASE \A u \in Workers, k \in Jobs : ~ClaimNext(u, k)
        <2> DEFINE j == worker[w].job
        <2>1. /\ worker[w].stage \in Writing /\ worker[w].stage \in Active /\ j \in Jobs
              /\ worker'[w].job = j /\ worker'[w].attempt = worker[w].attempt
            BY <1>2, <1>a, WorkersWithoutClaim DEF WorkerStays, Writing, Working, Active, Stages
        <2>2. job'[j].attempts = job[j].attempts
            BY <1>2, <2>1, RowsWithoutClaim DEF RowStays
        <2>3. PICK v \in Workers : CompleteSuccess(v) /\ worker[v].job = j
            BY <1>2, <1>a, <2>1, <2>2, RowsWithoutClaim DEF RowStays
        <2>4. worker[v].stage \in Active
            BY <2>3 DEF CompleteSuccess, Active, Stages
        <2>5. v = w
            BY <2>1, <2>2, <2>3, <2>4, Completing DEF InductiveInvariant, AttemptsAreDistinct
        <2> QED
            BY <2>3, <2>5, Completing
    <1> QED
        BY <1>1, <1>2

\* A request that joins the strays is its sender's, and the sender stops writing.
LEMMA StraysStay ==
    ASSUME InductiveInvariant, [Next]_vars, NEW r \in stray'
    PROVE  \/ r \in stray
           \/ \E w \in Workers :
                 /\ worker[w].stage \in {"delete", "upsert"}
                 /\ r.job = worker[w].job /\ r.attempt = worker[w].attempt
                 /\ worker'[w].stage \notin Writing
                 /\ job' = job
    <1>a. worker \in [Workers -> WorkerState]
        BY DEF InductiveInvariant, TypeOK, WorkersTyped
    <1>1. ASSUME NEW w \in Workers, LoseLease(w) \/ StageFails(w) \/ Abandon(w)
          PROVE  \/ r \in stray
                 \/ /\ worker[w].stage \in {"delete", "upsert"}
                    /\ r.job = worker[w].job /\ r.attempt = worker[w].attempt
                    /\ worker'[w].stage \notin Writing
                    /\ job' = job
        <2>1. GiveUpRequest(w) /\ worker[w].stage \in Active /\ job' = job
            BY <1>1 DEF LoseLease, StageFails, Abandon, Active, Working, Stages
        <2>2. worker'[w].stage \in {"idle", "fail"}
            <3>1. EndAttempt(w) \/ \E b \in BOOLEAN : worker' = Failing(w, b)
                BY <1>1 DEF LoseLease, StageFails, Abandon
            <3> QED
                BY <1>a, <3>1 DEF EndAttempt, IdleWorker, Failing, WorkerState
        <2>3. worker'[w].stage \notin Writing
            BY <2>2 DEF Writing, Working
        <2> QED
            BY <2>1, <2>3, ActiveWorker, GivingUp DEF InductiveInvariant
    <1>2. CASE stray' \subseteq stray
        BY <1>2
    <1> QED
        BY <1>1, <1>2 DEF Next, WorkerStep, vars, RecoverExpiredLeases, ClaimNext,
           NothingClaimed, Prepare, ReplaceChunks, Embed, DeleteByDocument, Upsert,
           CompleteSuccess, CompleteFailure, RenewLease, ApplyStray, DropStray,
           RetryIngestionJob, Tick

\* A stray request stays one of an attempt that is over: no later attempt reuses its
\* number, and its own attempt neither writes nor completes any more.
LEMMA StraysStep == InductiveInvariant /\ [Next]_vars => StraysAreOver'
    <1> SUFFICES ASSUME InductiveInvariant, [Next]_vars, NEW r \in stray'
                 PROVE  /\ r.attempt <= job'[r.job].attempts
                        /\ ~ /\ job'[r.job].status = "completed"
                             /\ job'[r.job].attempts = r.attempt
                        /\ \A w \in Workers :
                              worker'[w].stage \in Writing /\ worker'[w].job = r.job
                                 => worker'[w].attempt # r.attempt
        BY DEF StraysAreOver
    <1>a. ASSUME NEW w \in Workers, worker[w].stage \in Writing
          PROVE  worker[w].stage \in Active
        BY <1>a DEF Writing, Working, Active, Stages
    <1>b. "prepare" \in Writing
        BY DEF Writing, Working
    <1>1. CASE r \in stray
        <2>1. /\ r.job \in Jobs /\ r.attempt \in Nat /\ job[r.job].attempts \in Nat
              /\ r.attempt <= job[r.job].attempts
              /\ ~(job[r.job].status = "completed" /\ job[r.job].attempts = r.attempt)
              /\ \A w \in Workers : worker[w].stage \in Writing /\ worker[w].job = r.job
                                      => worker[w].attempt # r.attempt
            BY <1>1, ConstantsAssumption
            DEF InductiveInvariant, StraysAreOver, TypeOK, Request, JobRow
        <2>2. ASSUME NEW u \in Workers, NEW k \in Jobs, ClaimNext(u, k)
              PROVE  /\ r.attempt <= job'[r.job].attempts
                     /\ ~ /\ job'[r.job].status = "completed"
                          /\ job'[r.job].attempts = r.attempt
                     /\ \A w \in Workers :
                           worker'[w].stage \in Writing /\ worker'[w].job = r.job
                              => worker'[w].attempt # r.attempt
            BY <2>1, <2>2, ClaimShape
        <2>3. CASE \A u \in Workers, k \in Jobs : ~ClaimNext(u, k)
            <3>1. RowStays(r.job)
                BY <2>1, <2>3, RowsWithoutClaim
            <3>2. ASSUME NEW v \in Workers, CompleteSuccess(v), worker[v].job = r.job
                  PROVE  job[r.job].attempts # r.attempt
                <4>1. worker[v].stage \in Writing
                    BY <3>2 DEF CompleteSuccess, Writing
                <4> QED
                    BY <2>1, <3>2, <4>1, Completing
            <3>3. \A w \in Workers : worker'[w].stage \in Writing =>
                     /\ worker[w].stage \in Writing /\ worker'[w].job = worker[w].job
                     /\ worker'[w].attempt = worker[w].attempt
                <4>1. \A w \in Workers : worker'[w].stage \in Writing
                                            => worker'[w].stage \in Active
                    BY DEF Writing, Working, Active, Stages
                <4> QED
                    BY <2>3, <4>1, WorkersWithoutClaim DEF WorkerStays
            <3> QED
                BY <2>1, <3>1, <3>2, <3>3 DEF RowStays
        <2> QED
            BY <2>2, <2>3
    <1>2. ASSUME NEW v \in Workers, worker[v].stage \in {"delete", "upsert"},
                 r.job = worker[v].job, r.attempt = worker[v].attempt,
                 worker'[v].stage \notin Writing, job' = job
          PROVE  /\ r.attempt <= job'[r.job].attempts
                 /\ ~ /\ job'[r.job].status = "completed"
                      /\ job'[r.job].attempts = r.attempt
                 /\ \A w \in Workers :
                       worker'[w].stage \in Writing /\ worker'[w].job = r.job
                          => worker'[w].attempt # r.attempt
        <2>1. worker[v].stage \in Writing /\ worker[v].stage \in Active
            BY <1>2 DEF Writing, Working, Active, Stages
        <2>2. r.job \in Jobs /\ r.attempt \in 1 .. job[r.job].attempts
              /\ job[r.job].attempts \in Nat
            BY <1>2, <2>1, ActiveWorker, ConstantsAssumption DEF JobRow
        <2>3. ~(job[r.job].status = "completed" /\ job[r.job].attempts = r.attempt)
            BY <1>2, <2>1 DEF InductiveInvariant, WritersHaveNotCompleted, Row
        <2>4. \A u \in Workers, k \in Jobs : ~ClaimNext(u, k)
            BY <1>2, <2>2, ClaimShape
        <2>5. ASSUME NEW w \in Workers, worker'[w].stage \in Writing, worker'[w].job = r.job
              PROVE  worker'[w].attempt # r.attempt
            <3>1. w # v /\ worker'[w].stage \in Active
                BY <1>2, <2>5 DEF Writing, Working, Active, Stages
            <3>2. /\ worker[w].stage \in Active /\ worker'[w].job = worker[w].job
                  /\ worker'[w].attempt = worker[w].attempt
                BY <2>4, <3>1, WorkersWithoutClaim DEF WorkerStays
            <3> QED
                BY <1>2, <2>1, <2>5, <3>1, <3>2 DEF InductiveInvariant, AttemptsAreDistinct
        <2> QED
            BY <1>2, <2>2, <2>3, <2>5
    <1> QED
        BY <1>1, <1>2, StraysStay

\* What a step does to the index of a document: it may grow, and it is emptied by the
\* delete of a worker or of a stray.
LEMMA IndexStays ==
    ASSUME InductiveInvariant, [Next]_vars, NEW j \in Jobs
    PROVE  \/ wiper'[j] = wiper[j] /\ index[j] \subseteq index'[j]
           \/ \E w \in Workers : /\ worker[w].stage = "delete" /\ worker[w].job = j
                                 /\ wiper'[j] = worker[w].attempt
                                 /\ UNCHANGED <<job, stray>> /\ DeleteByDocument(w)
           \/ \E r \in stray : r.job = j /\ wiper'[j] = r.attempt /\ ApplyStray(r)
    <1>a. wiper \in [Jobs -> 0 .. MaxAttempts] /\ index \in [Jobs -> SUBSET AllBatches]
        BY DEF InductiveInvariant, TypeOK
    <1>b. ASSUME NEW k \in Jobs, NEW a, NEW op, Apply(k, a, op)
          PROVE  \/ wiper'[j] = wiper[j] /\ index[j] \subseteq index'[j]
                 \/ k = j /\ op = 0 /\ wiper'[j] = a
        BY <1>a, <1>b DEF Apply
    <1>1. ASSUME NEW w \in Workers, DeleteByDocument(w)
          PROVE  \/ wiper'[j] = wiper[j] /\ index[j] \subseteq index'[j]
                 \/ /\ worker[w].stage = "delete" /\ worker[w].job = j
                    /\ wiper'[j] = worker[w].attempt /\ UNCHANGED <<job, stray>>
        <2>1. worker[w].job \in Jobs /\ Apply(worker[w].job, worker[w].attempt, 0)
            BY <1>1, ActiveWorker DEF DeleteByDocument, Active, Stages
        <2> QED
            BY <1>1, <1>b, <2>1 DEF DeleteByDocument
    <1>2. ASSUME NEW w \in Workers, Upsert(w)
          PROVE  wiper'[j] = wiper[j] /\ index[j] \subseteq index'[j]
        <2>1. worker[w].job \in Jobs /\ Apply(worker[w].job, worker[w].attempt, worker[w].batch)
            BY <1>2, ActiveWorker DEF Upsert, Active, Stages
        <2>2. worker[w].batch # 0
            BY <1>2, ProcessingAssumption
            DEF Upsert, InductiveInvariant, TypeOK, WorkersTyped, AllBatches
        <2> QED
            BY <1>b, <2>1, <2>2
    <1>3. ASSUME NEW r \in stray, ApplyStray(r)
          PROVE  \/ wiper'[j] = wiper[j] /\ index[j] \subseteq index'[j]
                 \/ r.job = j /\ wiper'[j] = r.attempt
        <2>1. r.job \in Jobs
            BY DEF InductiveInvariant, TypeOK, Request
        <2> QED
            BY <1>3, <1>b, <2>1 DEF ApplyStray
    <1>4. CASE UNCHANGED <<index, wiper>>
        BY <1>4
    <1> QED
        BY <1>1, <1>2, <1>3, <1>4 DEF Next, WorkerStep, vars, RecoverExpiredLeases, ClaimNext,
           NothingClaimed, Prepare, ReplaceChunks, Embed, CompleteSuccess, LoseLease,
           StageFails, CompleteFailure, RenewLease, Abandon, DropStray, RetryIngestionJob, Tick

\* A worker comes to its upserts through its delete, and from batch to batch through
\* an upsert.
LEMMA Upserting ==
    ASSUME InductiveInvariant, [Next]_vars, NEW v \in Workers,
           worker'[v].stage \in {"upsert", "finish"}
    PROVE  \/ worker[v].stage \in {"upsert", "finish"} /\ worker'[v] = worker[v]
           \/ DeleteByDocument(v) /\ worker'[v].stage = "upsert" /\ worker'[v].batch = 1
           \/ /\ Upsert(v) /\ worker'[v].batch = worker[v].batch + 1
              /\ worker'[v].stage = "finish" => worker[v].batch = Batches
              /\ worker'[v].job = worker[v].job /\ worker'[v].attempt = worker[v].attempt
    <1>a. worker \in [Workers -> WorkerState]
        BY DEF InductiveInvariant, TypeOK, WorkersTyped
    <1> DEFINE same == worker[v].stage \in {"upsert", "finish"} /\ worker'[v] = worker[v]
    <1>b. ASSUME worker'[v] = worker[v] PROVE same
        BY <1>b
    <1>c. ASSUME NEW w \in Workers, EndAttempt(w) PROVE same
        BY <1>a, <1>c DEF EndAttempt, IdleWorker
    <1>d. ASSUME NEW w \in Workers, NEW b \in BOOLEAN, worker' = Failing(w, b) PROVE same
        <2>1. worker'[w].stage = "fail" /\ (v # w => worker'[v] = worker[v])
            BY <1>a, <1>d DEF Failing, WorkerState
        <2> QED
            BY <2>1
    <1>e. ASSUME NEW w \in Workers, NEW s, MoveTo(w, s), s \notin {"upsert", "finish"}
          PROVE  same
        BY <1>a, <1>e DEF MoveTo, WorkerState
    <1>1. ASSUME NEW w \in Workers,
                 RecoverExpiredLeases(w) \/ Prepare(w) \/ Embed(w) \/ ReplaceChunks(w)
          PROVE  same
        <2>1. \/ MoveTo(w, "polling") \/ MoveTo(w, "persist") \/ MoveTo(w, "delete")
              \/ MoveTo(w, "embed") \/ worker' = Failing(w, TRUE)
            BY <1>1 DEF RecoverExpiredLeases, Prepare, Embed, ReplaceChunks
        <2> QED
            BY <2>1, <1>d, <1>e
    <1>2. ASSUME NEW w \in Workers, NEW j \in Jobs, ClaimNext(w, j) PROVE same
        BY <1>2, ClaimShape
    <1>3. ASSUME NEW w \in Workers, DeleteByDocument(w), w # v PROVE same
        BY <1>3, <1>a DEF DeleteByDocument
    <1>4. ASSUME DeleteByDocument(v)
          PROVE  worker'[v].stage = "upsert" /\ worker'[v].batch = 1
        BY <1>4, <1>a DEF DeleteByDocument, WorkerState
    <1>5. ASSUME NEW w \in Workers, Upsert(w), w # v PROVE same
        BY <1>5, <1>a DEF Upsert
    <1>6. ASSUME Upsert(v)
          PROVE  /\ worker'[v].batch = worker[v].batch + 1
                 /\ worker'[v].stage = "finish" => worker[v].batch = Batches
                 /\ worker'[v].job = worker[v].job /\ worker'[v].attempt = worker[v].attempt
        BY <1>6, <1>a DEF Upsert, WorkerState
    <1>7. ASSUME NEW w \in Workers, CompleteSuccess(w) \/ StageFails(w) PROVE same
        BY <1>7, <1>c, <1>d DEF CompleteSuccess, StageFails
    <1>8. ASSUME NEW w \in Workers,
                 NothingClaimed(w) \/ LoseLease(w) \/ CompleteFailure(w) \/ Abandon(w)
          PROVE  same
        BY <1>8, <1>c DEF NothingClaimed, LoseLease, CompleteFailure, Abandon
    <1>9. CASE worker' = worker
        BY <1>9
    <1> QED
        BY <1>1, <1>2, <1>3, <1>4, <1>5, <1>6, <1>7, <1>8, <1>9
        DEF Next, WorkerStep, vars, RenewLease, ApplyStray, DropStray, RetryIngestionJob, Tick

\* Another attempt's delete has another number, so it takes the history variable along.
LEMMA OwnUpsertsStep == InductiveInvariant /\ [Next]_vars => OwnUpsertsStand'
    <1> SUFFICES ASSUME InductiveInvariant, [Next]_vars, NEW w \in Workers,
                        worker'[w].stage \in {"upsert", "finish"}
                 PROVE  /\ worker'[w].stage = "finish" => worker'[w].batch = Batches + 1
                        /\ wiper'[worker'[w].job] = worker'[w].attempt =>
                              1 .. worker'[w].batch - 1 \subseteq index'[worker'[w].job]
        BY DEF OwnUpsertsStand
    <1> DEFINE j == worker[w].job
               b == worker[w].batch
    <1>1. CASE worker[w].stage \in {"upsert", "finish"} /\ worker'[w] = worker[w]
        <2>1. /\ worker[w].stage = "finish" => b = Batches + 1
              /\ wiper[j] = worker[w].attempt => 1 .. b - 1 \subseteq index[j]
            BY <1>1 DEF InductiveInvariant, OwnUpsertsStand
        <2>2. worker[w].stage \in Active /\ worker[w].stage \in Writing /\ j \in Jobs
            BY <1>1, ActiveWorker DEF Active, Writing, Working, Stages
        <2>3. ASSUME NEW v \in Workers, worker[v].stage = "delete", worker[v].job = j
              PROVE  worker[v].attempt # worker[w].attempt
            BY <1>1, <2>2, <2>3 DEF InductiveInvariant, AttemptsAreDistinct, Active, Stages
        <2>4. ASSUME NEW r \in stray, r.job = j PROVE r.attempt # worker[w].attempt
            BY <2>2, <2>4 DEF InductiveInvariant, StraysAreOver
        <2>5. wiper'[j] = worker[w].attempt => 1 .. b - 1 \subseteq index'[j]
            BY <2>1, <2>2, <2>3, <2>4, IndexStays
        <2> QED
            BY <1>1, <2>1, <2>5
    <1>2. CASE DeleteByDocument(w) /\ worker'[w].stage = "upsert" /\ worker'[w].batch = 1
        BY <1>2
    <1>3. CASE /\ Upsert(w) /\ worker'[w].batch = b + 1
               /\ worker'[w].stage = "finish" => b = Batches
               /\ worker'[w].job = j /\ worker'[w].attempt = worker[w].attempt
        <2>1. j \in Jobs /\ worker[w].stage = "upsert" /\ b \in 1 .. Batches
            BY <1>3, ActiveWorker
            DEF Upsert, Active, Stages, InductiveInvariant, TypeOK, WorkersTyped, AllBatches
        <2>2. wiper[j] = worker[w].attempt => 1 .. b - 1 \subseteq index[j]
            BY <2>1 DEF InductiveInvariant, OwnUpsertsStand
        <2>3. wiper'[j] = wiper[j] /\ index'[j] = index[j] \cup {b}
            BY <1>3, <2>1, ProcessingAssumption
            DEF Upsert, Apply, InductiveInvariant, TypeOK
        <2>4. 1 .. (b + 1) - 1 \subseteq (1 .. b - 1) \cup {b}
            BY <2>1, ProcessingAssumption
        <2> QED
            BY <1>3, <2>2, <2>3, <2>4
    <1> QED
        BY <1>1, <1>2, <1>3, Upserting

\* The batches of the completing attempt stand until another attempt's delete.
LEMMA CompletedIndexStep == InductiveInvariant /\ [Next]_vars => CompletedIndexIsWhole'
    <1> SUFFICES ASSUME InductiveInvariant, [Next]_vars, NEW j \in Jobs,
                        job'[j].status = "completed", wiper'[j] = job'[j].attempts
                 PROVE  index'[j] = AllBatches
        BY DEF CompletedIndexIsWhole
    <1>1. ASSUME NEW u \in Workers, NEW k \in Jobs, ClaimNext(u, k)
          PROVE  index'[j] = AllBatches
        BY <1>1, ClaimShape DEF InductiveInvariant, CompletedIndexIsWhole
    <1>2. CASE \A u \in Workers, k \in Jobs : ~ClaimNext(u, k)
        <2>1. job'[j].attempts = job[j].attempts
            BY <1>2, RowsWithoutClaim DEF RowStays
        <2>2. CASE job[j].status = "completed"
            <3>1. ASSUME NEW w \in Workers, worker[w].stage = "delete", worker[w].job = j
                  PROVE  worker[w].attempt # job[j].attempts
                BY <2>2, <3>1 DEF InductiveInvariant, WritersHaveNotCompleted, Row, Writing, Working
            <3>2. ASSUME NEW r \in stray, r.job = j PROVE r.attempt # job[j].attempts
                BY <2>2, <3>2 DEF InductiveInvariant, StraysAreOver
            <3>3. wiper'[j] = wiper[j] /\ index[j] \subseteq index'[j]
                BY <2>1, <3>1, <3>2, IndexStays
            <3>4. index[j] = AllBatches
                BY <2>1, <2>2, <3>3 DEF InductiveInvariant, CompletedIndexIsWhole
            <3>5. index'[j] \in SUBSET AllBatches
                BY TypeStep DEF TypeOK
            <3> QED
                BY <3>3, <3>4, <3>5
        <2>3. ASSUME NEW w \in Workers, CompleteSuccess(w), worker[w].job = j
              PROVE  index'[j] = AllBatches
            <3>1. /\ worker[w].stage = "finish" /\ worker[w].attempt = job[j].attempts
                  /\ UNCHANGED <<index, wiper>>
                BY <2>3, Completing DEF CompleteSuccess
            <3>2. worker[w].batch = Batches + 1 /\ 1 .. worker[w].batch - 1 \subseteq index[j]
                BY <2>1, <2>3, <3>1 DEF InductiveInvariant, OwnUpsertsStand
            <3>3. index[j] \in SUBSET AllBatches
                BY DEF InductiveInvariant, TypeOK
            <3>4. 1 .. worker[w].batch - 1 = AllBatches
                BY <3>2, ProcessingAssumption DEF AllBatches
            <3>5. index[j] = AllBatches
                BY <3>2, <3>3, <3>4
            <3> QED
                BY <3>1, <3>5
        <2> QED
            BY <1>2, <2>2, <2>3, RowsWithoutClaim DEF RowStays
    <1> QED
        BY <1>1, <1>2

-----------------------------------------------------------------------------
(* The theorems. *)

\* Every step of ingestion, of whichever worker, request or clock, preserves the
\* inductive invariant.
LEMMA NextPreserves == InductiveInvariant /\ [Next]_vars => InductiveInvariant'
    BY TypeStep, RowsAgreeStep, AttemptsStep, OwnerStep, OwnChunksStep,
       CompletedChunksStep, OwnUpsertsStep, WritersStep, StraysStep, CompletedIndexStep
    DEF InductiveInvariant

\* The invariant of IngestionProcessingService, for any number of documents, workers,
\* attempts, batches and requests left behind, and any clock lag.
THEOREM InvariantHolds == Spec => []InductiveInvariant
    <1>1. Init => InductiveInvariant
        BY InitHolds
    <1>2. InductiveInvariant /\ [Next]_vars => InductiveInvariant'
        BY NextPreserves
    <1> QED
        BY <1>1, <1>2, PTL DEF Spec

\* Types, and attempt_count <= max_attempts in every reachable row.
THEOREM TypesHold == Spec => []TypeOK
    <1>1. InductiveInvariant => TypeOK
        BY DEF InductiveInvariant
    <1> QED
        BY <1>1, InvariantHolds, PTL

\* Job and document always agree, and a lease exists while the job is processing.
THEOREM RowsAlwaysAgree == Spec => []RowsAgree
    <1>1. InductiveInvariant => RowsAgree
        BY DEF InductiveInvariant
    <1> QED
        BY <1>1, InvariantHolds, PTL

\* claimed_by alone fences the PostgreSQL writes of ended attempts.
THEOREM LeaseFences == Spec => []OwnerRunsCurrentAttempt
    <1>1. InductiveInvariant => OwnerRunsCurrentAttempt
        BY DEF InductiveInvariant
    <1> QED
        BY <1>1, InvariantHolds, PTL

\* Completion and chunk rows belong to the same attempt.
THEOREM CompletedChunks == Spec => []CompletedChunksAreCurrent
    <1>1. InductiveInvariant => CompletedChunksAreCurrent
        BY DEF InductiveInvariant
    <1> QED
        BY <1>1, InvariantHolds, PTL

\* A completed document whose index was last emptied by its own attempt is indexed whole.
THEOREM CompletedIndex == Spec => []CompletedIndexIsWhole
    <1>1. InductiveInvariant => CompletedIndexIsWhole
        BY DEF InductiveInvariant
    <1> QED
        BY <1>1, InvariantHolds, PTL

\* Chunk rows change only to those of the attempt in progress, whatever older attempts
\* are still running.
THEOREM ChunksFollowTheRow == Spec => ChunksOfCurrentAttemptOnly
    <1>1. InductiveInvariant /\ [Next]_vars =>
             [\A j \in Jobs : chunks'[j] # chunks[j] =>
                 job[j].status = "processing" /\ chunks'[j] = job[j].attempts]_vars
        BY ChunksStay
    <1> QED
        BY <1>1, InvariantHolds, PTL DEF Spec, ChunksOfCurrentAttemptOnly

\* A completed document is final: no claim, recovery, late failure record, retry
\* request, chunk replacement or passing of time changes its row or its chunks.
THEOREM CompletedStays == Spec => CompletedIsFinal
    <1>1. ASSUME InductiveInvariant, [Next]_vars
          PROVE  \A j \in Jobs : job[j].status = "completed" =>
                    job'[j] = job[j] /\ chunks'[j] = chunks[j]
        <2> SUFFICES ASSUME NEW j \in Jobs, job[j].status = "completed"
                     PROVE  job'[j] = job[j] /\ chunks'[j] = chunks[j]
            OBVIOUS
        <2>1. chunks'[j] = chunks[j]
            BY <1>1, ChunksStay
        <2>2. ASSUME NEW w \in Workers, NEW k \in Jobs, ClaimNext(w, k)
              PROVE  job'[j] = job[j]
            BY <1>1, <2>2, ClaimShape
        <2> QED
            BY <1>1, <2>1, <2>2, RowsWithoutClaim DEF RowStays
    <1>2. InductiveInvariant /\ [Next]_vars =>
             [\A j \in Jobs : job[j].status = "completed" =>
                 job'[j] = job[j] /\ chunks'[j] = chunks[j]]_vars
        BY <1>1
    <1> QED
        BY <1>2, InvariantHolds, PTL DEF Spec, CompletedIsFinal

-----------------------------------------------------------------------------
(***************************************************************************)
(* The refinement: IngestionProcessing implements JobLifecycle.            *)
(***************************************************************************)

\* What JobLifecycle sees of a row and of the attempt whose chunks are stored.
Seen(r, stored) == [state |-> r.status, tries |-> r.attempts, stored |-> stored]

\* The step from one view of a document to the next is one of the lifecycle, or none.
Follows(r, a, c, b) ==
    Seen(c, b) = Seen(r, a) \/ Lifecycle!Advance(Seen(r, a), Seen(c, b))

\* The transactions of the code, as steps of the lifecycle.
LEMMA LifecycleMoves ==
    ASSUME NEW r \in JobRow, NEW c \in JobRow, NEW a, NEW b
    PROVE  /\ c.status = r.status /\ c.attempts = r.attempts /\ b = a => Follows(r, a, c, b)
           /\ /\ r.status = "pending" /\ r.attempts < MaxAttempts
              /\ c.status = "processing" /\ c.attempts = r.attempts + 1 /\ b = a
              => Follows(r, a, c, b)
           /\ /\ r.status = "processing" /\ c.status = "processing"
              /\ c.attempts = r.attempts /\ b = r.attempts
              => Follows(r, a, c, b)
           /\ /\ r.status = "processing" /\ c.status = "completed"
              /\ c.attempts = r.attempts /\ a = r.attempts /\ b = a
              => Follows(r, a, c, b)
           /\ /\ r.status = "processing" /\ c.status = "failed"
              /\ c.attempts = r.attempts /\ b = a
              => Follows(r, a, c, b)
           /\ /\ r.status = "processing" /\ c.status = "pending"
              /\ r.attempts < MaxAttempts /\ c.attempts = r.attempts /\ b = a
              => Follows(r, a, c, b)
           /\ /\ r.status = "failed" /\ c.status = "pending"
              /\ c.attempts = r.attempts /\ b = a
              => Follows(r, a, c, b)
    <1> DEFINE x == Seen(r, a)
               y == Seen(c, b)
    <1>1. /\ x.state = r.status /\ x.tries = r.attempts /\ x.stored = a
          /\ x = [state |-> r.status, tries |-> r.attempts, stored |-> a]
          /\ y = [state |-> c.status, tries |-> c.attempts, stored |-> b]
        BY DEF Seen
    <1>2. Follows(r, a, c, b) <=> (y = x \/ Lifecycle!Advance(x, y))
        BY DEF Follows
    <1> HIDE DEF x, y
    <1>3. c.status = r.status /\ c.attempts = r.attempts /\ b = a => y = x
        BY <1>1
    <1>4. /\ r.status = "pending" /\ r.attempts < MaxAttempts
          /\ c.status = "processing" /\ c.attempts = r.attempts + 1 /\ b = a
          => Lifecycle!Begin(x, y)
        BY <1>1 DEF Lifecycle!Begin
    <1>5. /\ r.status = "processing" /\ c.status = "processing"
          /\ c.attempts = r.attempts /\ b = r.attempts
          => Lifecycle!Store(x, y)
        BY <1>1 DEF Lifecycle!Store
    <1>6. /\ r.status = "processing" /\ c.status = "completed"
          /\ c.attempts = r.attempts /\ a = r.attempts /\ b = a
          => Lifecycle!Complete(x, y)
        BY <1>1 DEF Lifecycle!Complete
    <1>7. /\ r.status = "processing" /\ c.status = "failed"
          /\ c.attempts = r.attempts /\ b = a
          => Lifecycle!Fail(x, y)
        BY <1>1 DEF Lifecycle!Fail
    <1>8. /\ r.status = "processing" /\ c.status = "pending"
          /\ r.attempts < MaxAttempts /\ c.attempts = r.attempts /\ b = a
          => Lifecycle!GiveBack(x, y)
        BY <1>1 DEF Lifecycle!GiveBack
    <1>9. /\ r.status = "failed" /\ c.status = "pending"
          /\ c.attempts = r.attempts /\ b = a
          => Lifecycle!Resubmit(x, y)
        BY <1>1 DEF Lifecycle!Resubmit
    <1> QED
        BY <1>2, <1>3, <1>4, <1>5, <1>6, <1>7, <1>8, <1>9 DEF Lifecycle!Advance

\* Every transaction moves each document along its lifecycle, or not at all.
LEMMA LifecycleStep ==
    ASSUME InductiveInvariant, [Next]_vars, NEW j \in Jobs
    PROVE  Follows(job[j], chunks[j], job'[j], chunks'[j])
    <1> DEFINE Ok == Follows(job[j], chunks[j], job'[j], chunks'[j])
    <1>a. job \in [Jobs -> JobRow] /\ job[j] \in JobRow /\ job'[j] \in JobRow
        BY TypeStep DEF InductiveInvariant, TypeOK
    <1>b. ASSUME job'[j].status = job[j].status, job'[j].attempts = job[j].attempts,
                 chunks'[j] = chunks[j]
          PROVE  Ok
        BY <1>a, <1>b, LifecycleMoves
    <1>c. ASSUME job[j].status = "processing", NEW retryable \in BOOLEAN, NEW lag \in Lags,
                 job'[j] = AfterFailure(job[j], retryable, lag), chunks'[j] = chunks[j]
          PROVE  Ok
        <2>1. /\ job'[j].attempts = job[j].attempts
              /\ \/ job'[j].status = "pending" /\ job[j].attempts < MaxAttempts
                 \/ job'[j].status = "failed"
            BY <1>a, <1>c, FailedRow
        <2> QED
            BY <1>a, <1>c, <2>1, LifecycleMoves
    <1> HIDE DEF Ok
    <1>1. ASSUME NEW w \in Workers, RecoverExpiredLeases(w) PROVE Ok
        <2>1. chunks' = chunks
            BY <1>1 DEF RecoverExpiredLeases
        <2> QED
            BY <1>1, <1>b, <1>c, <2>1, Recovering DEF InductiveInvariant
    <1>2. ASSUME NEW w \in Workers, NEW k \in Jobs, ClaimNext(w, k) PROVE Ok
        <2>1. job[k].attempts < MaxAttempts
            BY <1>2 DEF ClaimNext, Claimable
        <2>2. /\ job[k].status = "pending" /\ job'[k].status = "processing"
              /\ job'[k].attempts = job[k].attempts + 1 /\ chunks' = chunks
              /\ \A i \in Jobs \ {k} : job'[i] = job[i]
            BY <1>2, ClaimShape
        <2> QED
            BY <1>a, <1>b, <2>1, <2>2, LifecycleMoves DEF Ok
    <1>3. ASSUME NEW w \in Workers, ReplaceChunks(w) PROVE Ok
        <2> DEFINE k == worker[w].job
        <2>1. PICK lag \in Lags :
                 /\ Holds(w, lag)
                 /\ job' = [job EXCEPT ![k] = [Renewed(job[k], lag) EXCEPT !.progress = 50]]
            BY <1>3 DEF ReplaceChunks
        <2>2. /\ k \in Jobs /\ job[k].status = "processing"
              /\ worker[w].attempt = job[k].attempts
            BY <1>3, <2>1, ActiveWorker DEF ReplaceChunks, Active, Stages, Holds, Owned, Row
        <2> DEFINE c == [Renewed(job[k], lag) EXCEPT !.progress = 50]
        <2>3. c.attempts = job[k].attempts /\ c.status = job[k].status
            BY <1>a, <2>2, PersistedRow
        <2>4. job' = [job EXCEPT ![k] = c]
            BY <2>1
        <2> HIDE DEF c
        <2>5. chunks' = [chunks EXCEPT ![k] = job[k].attempts]
            BY <1>3, <2>2 DEF ReplaceChunks
        <2>6. chunks \in [Jobs -> 0 .. MaxAttempts]
            BY DEF InductiveInvariant, TypeOK
        <2>7. CASE j = k
            <3>1. job'[j].attempts = job[j].attempts /\ job'[j].status = "processing"
                  /\ chunks'[j] = job[j].attempts /\ job[j].status = "processing"
                BY <1>a, <2>2, <2>3, <2>4, <2>5, <2>6, <2>7
            <3> QED
                BY <1>a, <3>1, LifecycleMoves DEF Ok
        <2>8. CASE j # k
            BY <1>a, <1>b, <2>2, <2>4, <2>5, <2>6, <2>8
        <2> QED
            BY <2>7, <2>8
    <1>4. ASSUME NEW w \in Workers, CompleteSuccess(w) PROVE Ok
        <2> DEFINE k == worker[w].job
        <2>1. /\ k \in Jobs /\ job[k].status = "processing" /\ chunks[k] = job[k].attempts
              /\ chunks' = chunks
            BY <1>4, Completing
        <2>2. job' = [job EXCEPT ![k] = AfterSuccess(job[k])]
            BY <1>4 DEF CompleteSuccess
        <2>3. AfterSuccess(job[k]).status = "completed"
              /\ AfterSuccess(job[k]).attempts = job[k].attempts
            BY <1>a, <2>1, SucceededRow
        <2>4. CASE j = k
            <3>1. job'[j].status = "completed" /\ job'[j].attempts = job[j].attempts
                BY <1>a, <2>2, <2>3, <2>4
            <3> QED
                BY <1>a, <2>1, <2>4, <3>1, LifecycleMoves DEF Ok
        <2>5. CASE j # k
            BY <1>a, <1>b, <2>1, <2>2, <2>5
        <2> QED
            BY <2>4, <2>5
    <1>5. ASSUME NEW w \in Workers, CompleteFailure(w) PROVE Ok
        <2> DEFINE k == worker[w].job
        <2>1. k \in Jobs /\ worker[w].retryable \in BOOLEAN /\ chunks' = chunks
            BY <1>5, ActiveWorker DEF CompleteFailure, Active, Stages, WorkerState
        <2>2. PICK lag \in Lags :
                 job' = [job EXCEPT ![k] = IF Holds(w, lag)
                                           THEN AfterFailure(job[k], worker[w].retryable, lag)
                                           ELSE job[k]]
            BY <1>5 DEF CompleteFailure
        <2>3. Holds(w, lag) => job[k].status = "processing"
            BY DEF Holds, Owned, Row
        <2> QED
            BY <1>a, <1>b, <1>c, <2>1, <2>2, <2>3
    <1>6. ASSUME NEW w \in Workers, RenewLease(w) PROVE Ok
        <2>1. worker[w].job \in Jobs /\ chunks' = chunks
            BY <1>6, ActiveWorker DEF RenewLease, Active, Working, Stages
        <2>2. PICK lag \in Lags :
                 job' = [job EXCEPT ![worker[w].job] = Renewed(job[worker[w].job], lag)]
            BY <1>6 DEF RenewLease
        <2> QED
            BY <1>a, <1>b, <2>1, <2>2, RenewedRow
    <1>7. ASSUME NEW k \in Jobs, RetryIngestionJob(k) PROVE Ok
        <2>1. /\ job'[j].attempts = job[j].attempts /\ chunks' = chunks
              /\ \/ job'[j] = job[j]
                 \/ job[j].status = "failed" /\ job'[j].status = "pending"
            BY <1>7, <1>a, RetriedRow DEF RetryIngestionJob
        <2> QED
            BY <1>a, <1>b, <2>1, LifecycleMoves DEF Ok
    <1>8. ASSUME Tick PROVE Ok
        BY <1>8, <1>a, <1>b, AgedRow DEF Tick
    <1>9. ASSUME job' = job, chunks' = chunks PROVE Ok
        BY <1>9, <1>b
    <1> QED
        BY <1>1, <1>2, <1>3, <1>4, <1>5, <1>6, <1>7, <1>8, <1>9
        DEF Ok, Next, WorkerStep, vars, NothingClaimed, Prepare, Embed, DeleteByDocument,
            Upsert, LoseLease, StageFails, Abandon, ApplyStray, DropStray

\* Workers, leases, crashes and late writes reduce to the life of each document: at
\* most MaxAttempts attempts, one at a time, completed with the chunks of the attempt
\* that completes it, and final then.
THEOREM Refinement == Spec => ImplementsLifecycle
    <1> DEFINE seen == [j \in Jobs |-> [state  |-> job[j].status,
                                        tries  |-> job[j].attempts,
                                        stored |-> chunks[j]]]
    <1>1. Init => Lifecycle!Init
        BY DEF Init, NewRow, Lifecycle!Init
    <1>2. ASSUME InductiveInvariant, [Next]_vars
          PROVE  Lifecycle!Next
        <2>1. \A j \in Jobs : Follows(job[j], chunks[j], job'[j], chunks'[j])
            BY <1>2, LifecycleStep
        <2> QED
            BY <2>1 DEF Lifecycle!Next, Follows, Seen
    <1>3. InductiveInvariant /\ [Next]_vars => [Lifecycle!Next]_seen
        BY <1>2
    <1> QED
        BY <1>1, <1>3, InvariantHolds, PTL DEF Spec, ImplementsLifecycle, Lifecycle!Spec

-----------------------------------------------------------------------------
(***************************************************************************)
(* The control of a worker: every worker implements AttemptStages.         *)
(***************************************************************************)

\* What AttemptStages sees of a stage.
Control(stage) ==
    CASE stage \in {"idle", "polling"}  -> "free"
      [] stage \in {"delete", "upsert"} -> "index"
      [] OTHER                          -> stage

\* The step from one view of a worker to the next: on to the following stage, to the
\* record of a failure, to the end of the attempt, to a new one, or nowhere.
Steps(from, to) ==
    \/ to = from
    \/ from = "free" /\ to = "prepare"
    \/ <<from, to>> \in {<<"prepare", "persist">>, <<"persist", "embed">>,
                         <<"embed", "index">>, <<"index", "finish">>}
    \/ from \in {"prepare", "persist", "embed", "index", "finish"} /\ to = "fail"
    \/ to = "free"

\* The steps are those of AttemptStages.
LEMMA ControlSteps ==
    ASSUME NEW w \in Workers, Steps(Control(worker[w].stage), Control(worker'[w].stage))
    PROVE  [Attempt(w)!Next]_(ControlOf(w))
    <1>1. ControlOf(w) = Control(worker[w].stage) /\ ControlOf(w)' = Control(worker'[w].stage)
        BY DEF ControlOf, Control
    <1>2. Steps(ControlOf(w), ControlOf(w)')
        BY <1>1
    <1> QED
        BY <1>2 DEF Steps, Attempt!Next, Attempt!Begin, Attempt!Advance, Attempt!Break,
                    Attempt!End, Attempt!Free, Attempt!Fail, Attempt!Following

\* A worker's step is a step of its own control, and leaves the other workers alone.
WorkerStepsAlong(v) ==
    /\ Steps(Control(worker[v].stage), Control(worker'[v].stage))
    /\ \A w \in Workers \ {v} : worker'[w] = worker[w]

\* Every step of the service moves each worker along these, or not at all.
LEMMA WorkerControl ==
    ASSUME TypeOK, [Next]_vars, NEW w \in Workers
    PROVE  Steps(Control(worker[w].stage), Control(worker'[w].stage))
    <1>1. worker \in [Workers -> WorkerState]
        BY DEF TypeOK, WorkersTyped
    <1>2. ASSUME NEW v \in Workers, WorkerStepsAlong(v)
          PROVE  Steps(Control(worker[w].stage), Control(worker'[w].stage))
        BY <1>2 DEF WorkerStepsAlong, Steps
    <1>3. ASSUME NEW v \in Workers, NEW j \in Jobs, ClaimNext(v, j) PROVE WorkerStepsAlong(v)
        BY <1>1, <1>3 DEF ClaimNext, WorkerStepsAlong, Steps, Control
    <1>4. ASSUME NEW v \in Workers, RecoverExpiredLeases(v) PROVE WorkerStepsAlong(v)
        BY <1>1, <1>4 DEF RecoverExpiredLeases, MoveTo, WorkerStepsAlong, Steps, Control
    <1>5. ASSUME NEW v \in Workers, NothingClaimed(v) PROVE WorkerStepsAlong(v)
        BY <1>1, <1>5 DEF NothingClaimed, EndAttempt, IdleWorker, WorkerStepsAlong, Steps, Control
    <1>6. ASSUME NEW v \in Workers, Prepare(v) PROVE WorkerStepsAlong(v)
        BY <1>1, <1>6 DEF Prepare, MoveTo, WorkerStepsAlong, Steps, Control
    <1>7. ASSUME NEW v \in Workers, ReplaceChunks(v) PROVE WorkerStepsAlong(v)
        <2>1. CASE MoveTo(v, "embed")
            BY <1>1, <1>7, <2>1 DEF ReplaceChunks, MoveTo, WorkerStepsAlong, Steps, Control
        <2>2. CASE worker' = Failing(v, TRUE)
            BY <1>1, <1>7, <2>2 DEF ReplaceChunks, Failing, WorkerStepsAlong, Steps, Control
        <2> QED
            BY <1>7, <2>1, <2>2 DEF ReplaceChunks
    <1>8. ASSUME NEW v \in Workers, Embed(v) PROVE WorkerStepsAlong(v)
        BY <1>1, <1>8 DEF Embed, MoveTo, WorkerStepsAlong, Steps, Control
    <1>9. ASSUME NEW v \in Workers, DeleteByDocument(v) PROVE WorkerStepsAlong(v)
        BY <1>1, <1>9 DEF DeleteByDocument, WorkerStepsAlong, Steps, Control
    <1>10. ASSUME NEW v \in Workers, Upsert(v) PROVE WorkerStepsAlong(v)
        BY <1>1, <1>10 DEF Upsert, WorkerStepsAlong, Steps, Control
    <1>11. ASSUME NEW v \in Workers, CompleteSuccess(v) PROVE WorkerStepsAlong(v)
        <2>1. CASE EndAttempt(v)
            BY <1>1, <1>11, <2>1 DEF CompleteSuccess, EndAttempt, IdleWorker, WorkerStepsAlong, Steps, Control
        <2>2. CASE worker' = Failing(v, TRUE)
            BY <1>1, <1>11, <2>2 DEF CompleteSuccess, Failing, WorkerStepsAlong, Steps, Control
        <2> QED
            BY <1>11, <2>1, <2>2 DEF CompleteSuccess
    <1>12. ASSUME NEW v \in Workers, LoseLease(v) PROVE WorkerStepsAlong(v)
        BY <1>1, <1>12 DEF LoseLease, EndAttempt, IdleWorker, WorkerStepsAlong, Steps, Control
    <1>13. ASSUME NEW v \in Workers, StageFails(v) PROVE WorkerStepsAlong(v)
        BY <1>1, <1>13 DEF StageFails, Failing, Working, WorkerStepsAlong, Steps, Control
    <1>14. ASSUME NEW v \in Workers, CompleteFailure(v) PROVE WorkerStepsAlong(v)
        BY <1>1, <1>14 DEF CompleteFailure, EndAttempt, IdleWorker, WorkerStepsAlong, Steps, Control
    <1>15. ASSUME NEW v \in Workers, Abandon(v) PROVE WorkerStepsAlong(v)
        BY <1>1, <1>15 DEF Abandon, EndAttempt, IdleWorker, WorkerStepsAlong, Steps, Control
    <1>16. CASE UNCHANGED worker
        BY <1>16 DEF Steps
    <1> QED
        BY <1>2, <1>3, <1>4, <1>5, <1>6, <1>7, <1>8, <1>9, <1>10, <1>11, <1>12, <1>13, <1>14, <1>15, <1>16
        DEF Next, WorkerStep, RenewLease, ApplyStray, DropStray, RetryIngestionJob, Tick, vars

\* A worker of the service is a worker of AttemptStages: the stages of process_next come
\* in their order and none is left out, and a failure is recorded after a stage only.
THEOREM StagesInOrder == Spec => WorkersFollowStages
    <1>1. Init => \A w \in Workers : Attempt(w)!Init
        BY DEF Init, IdleWorker, ControlOf, Attempt!Init, Attempt!Free
    <1>2. ASSUME TypeOK, [Next]_vars
          PROVE  \A w \in Workers : [Attempt(w)!Next]_(ControlOf(w))
        BY <1>2, WorkerControl, ControlSteps
    <1>3. TypeOK /\ [Next]_vars =>
             [\A w \in Workers : [Attempt(w)!Next]_(ControlOf(w))]_vars
        BY <1>2
    <1> QED
        BY <1>1, <1>3, TypesHold, PTL DEF Spec, WorkersFollowStages

-----------------------------------------------------------------------------
(***************************************************************************)
(* What holds when any number of rebuild commands run beside any number of *)
(* workers.  A rebuild holds no lease and no lock; it is kept apart by the *)
(* status completed, which nothing leaves (CompletedStays), and it spoils  *)
(* no attempt's index unnoticed, since its delete is no attempt's.  So the *)
(* invariant of ingestion survives it, and a running rebuild whose delete  *)
(* was the last one either still writes, or has restored the index, or has *)
(* the document on its list of failures: hence a result that does not name *)
(* the document is given only when the index is whole.                     *)
(***************************************************************************)

Rewriting == {"embed", "delete", "upsert"}

RebuildState == [stage : {"idle", "asked", "next"} \cup Rewriting, todo : SUBSET Jobs,
                 job : Jobs \cup {NoJob}, batch : AllBatches, failures : SUBSET Jobs]

RebuildTypes ==
    /\ rebuild \in [Rebuilders -> RebuildState]
    /\ rebuildWiper \in [Jobs -> Rebuilders \cup {NoRebuilder}]
    /\ vouched \in SUBSET Jobs

\* A rebuild rewrites a document that is completed, and hence stays so.
RewritesCompleted ==
    \A r \in Rebuilders : rebuild[r].stage \in Rewriting =>
        rebuild[r].job \in Jobs /\ job[rebuild[r].job].status = "completed"

\* No document is completed without an attempt: attempt 0, under whose number the
\* requests of rebuilds run, is nobody's.
CompletedByAnAttempt ==
    \A j \in Jobs : job[j].status = "completed" => job[j].attempts # 0

\* What a running rebuild r that has deleted vectors of j last knows of them.
Accounted(r, j) ==
    /\ rebuild[r].stage # "idle"
    /\ \/ index[j] = AllBatches
       \/ /\ rebuild[r].stage = "upsert" /\ rebuild[r].job = j
          /\ 1 .. rebuild[r].batch - 1 \subseteq index[j]
       \/ j \in rebuild[r].failures

AllAccounted == \A j \in Jobs, r \in Rebuilders : rebuildWiper[j] = r => Accounted(r, j)

\* What the result of an ended rebuild does not name is there, until the next delete.
VouchedAreWhole == \A j \in vouched : index[j] = AllBatches

RebuildInvariant ==
    /\ InductiveInvariant
    /\ RebuildTypes
    /\ RewritesCompleted
    /\ CompletedByAnAttempt
    /\ AllAccounted
    /\ VouchedAreWhole

-----------------------------------------------------------------------------
\* The invariant holds initially.
LEMMA RebuildInit == RInit => RebuildInvariant
    <1> SUFFICES ASSUME RInit PROVE RebuildInvariant
        OBVIOUS
    <1>1. IdleRebuild \in RebuildState /\ IdleRebuild.stage = "idle"
        BY ProcessingAssumption DEF IdleRebuild, RebuildState, AllBatches
    <1>2. RebuildTypes /\ RewritesCompleted
        BY <1>1 DEF RInit, RebuildTypes, RewritesCompleted, Rewriting
    <1>3. AllAccounted /\ VouchedAreWhole
        BY RebuildersAssumption DEF RInit, AllAccounted, VouchedAreWhole
    <1>4. CompletedByAnAttempt
        BY DEF RInit, Init, NewRow, CompletedByAnAttempt
    <1> QED
        BY <1>2, <1>3, <1>4, InitHolds DEF RInit, RebuildInvariant

-----------------------------------------------------------------------------
(* The steps of ingestion. *)

\* Completion is the end of an attempt, and attempts are numbered from 1.
LEMMA CompletionStep ==
    ASSUME InductiveInvariant, CompletedByAnAttempt, [Next]_vars
    PROVE  CompletedByAnAttempt'
    <1> SUFFICES ASSUME NEW j \in Jobs, job'[j].status = "completed"
                 PROVE  job'[j].attempts # 0
        BY DEF CompletedByAnAttempt
    <1>1. ASSUME NEW w \in Workers, NEW k \in Jobs, ClaimNext(w, k)
          PROVE  job'[j].attempts # 0
        BY <1>1, ClaimShape DEF CompletedByAnAttempt
    <1>2. ASSUME \A w \in Workers, k \in Jobs : ~ClaimNext(w, k)
          PROVE  job'[j].attempts # 0
        <2>1. RowStays(j)
            BY <1>2, RowsWithoutClaim
        <2>2. CASE job[j].status = "completed"
            BY <2>1, <2>2 DEF RowStays, CompletedByAnAttempt
        <2>3. ASSUME NEW w \in Workers, CompleteSuccess(w), worker[w].job = j
              PROVE  job'[j].attempts # 0
            <3>1. worker[w].stage \in Active
                BY <2>3 DEF CompleteSuccess, Active, Stages
            <3>2. worker[w].attempt \in 1 .. job[j].attempts /\ worker[w].attempt = job[j].attempts
                BY <2>3, <3>1, Completing DEF InductiveInvariant, AttemptsAreDistinct, Row
            <3> QED
                BY <2>1, <3>2 DEF RowStays
        <2> QED
            BY <2>1, <2>2, <2>3 DEF RowStays
    <1> QED
        BY <1>1, <1>2

\* What is completed stays completed, with the same chunk rows.
LEMMA CompletedStay ==
    ASSUME InductiveInvariant, [Next]_vars, NEW j \in Jobs, job[j].status = "completed"
    PROVE  job'[j] = job[j] /\ chunks'[j] = chunks[j]
    <1>1. ASSUME NEW w \in Workers, NEW k \in Jobs, ClaimNext(w, k) PROVE job'[j] = job[j]
        BY <1>1, ClaimShape
    <1> QED
        BY <1>1, RowsWithoutClaim, ChunksStay DEF RowStays

\* A delete shows in wiper, or by emptying the index.
LEMMA IndexOf ==
    ASSUME InductiveInvariant, [Next]_vars, NEW j \in Jobs, wiper'[j] = wiper[j],
           index'[j] = {} => index[j] = {}
    PROVE  index[j] \subseteq index'[j]
    <1>a. index \in [Jobs -> SUBSET AllBatches]
        BY DEF InductiveInvariant, TypeOK
    <1>b. ASSUME NEW k \in Jobs, NEW a, NEW op, Apply(k, a, op)
          PROVE  index[j] \subseteq index'[j]
        BY <1>a, <1>b DEF Apply
    <1>1. ASSUME NEW w \in Workers, DeleteByDocument(w) PROVE index[j] \subseteq index'[j]
        BY <1>1, <1>b, ActiveWorker DEF DeleteByDocument, Active, Stages
    <1>2. ASSUME NEW r \in stray, ApplyStray(r) PROVE index[j] \subseteq index'[j]
        <2>1. r.job \in Jobs
            BY DEF InductiveInvariant, TypeOK, Request
        <2> QED
            BY <1>2, <1>b, <2>1 DEF ApplyStray
    <1> QED
        BY <1>1, <1>2, IndexStays

\* Ingestion leaves the index of a document that a rebuild has deleted last as it is,
\* or adds to it, or takes it from the rebuild.
LEMMA IngestionKeeps ==
    ASSUME RebuildInvariant, IngestionStep
    PROVE  RebuildInvariant'
    <1>1. InductiveInvariant /\ [Next]_vars /\ InductiveInvariant'
        BY NextPreserves DEF RebuildInvariant, IngestionStep
    <1>2. /\ rebuild' = rebuild
          /\ rebuildWiper' = [j \in Jobs |-> IF j \in Deleted THEN NoRebuilder ELSE rebuildWiper[j]]
          /\ vouched' = vouched \ Deleted
        BY DEF IngestionStep
    <1>3. RebuildTypes'
        BY <1>2 DEF RebuildInvariant, RebuildTypes
    <1>k. ASSUME NEW j \in Jobs, j \notin Deleted
          PROVE  index[j] \subseteq index'[j] /\ index'[j] \subseteq AllBatches
        <2>1. wiper'[j] = wiper[j] /\ (index'[j] = {} => index[j] = {})
            BY <1>k DEF Deleted
        <2>2. index[j] \subseteq index'[j]
            BY <1>1, <2>1, IndexOf
        <2> QED
            BY <1>1, <2>2 DEF InductiveInvariant, TypeOK
    <1>4. RewritesCompleted'
        BY <1>1, <1>2, CompletedStay DEF RebuildInvariant, RewritesCompleted
    <1>5. CompletedByAnAttempt'
        BY <1>1, CompletionStep DEF RebuildInvariant
    <1>6. ASSUME NEW j \in Jobs, NEW r \in Rebuilders, rebuildWiper'[j] = r
          PROVE  Accounted(r, j)'
        <2>1. j \notin Deleted /\ rebuildWiper[j] = r
            BY <1>2, <1>6, RebuildersAssumption
        <2>2. Accounted(r, j)
            BY <2>1 DEF RebuildInvariant, AllAccounted
        <2> QED
            BY <1>2, <1>k, <2>1, <2>2 DEF Accounted
    <1>7. VouchedAreWhole'
        <2>1. ASSUME NEW j \in vouched' PROVE index'[j] = AllBatches
            <3>1. j \in Jobs /\ j \notin Deleted /\ index[j] = AllBatches
                BY <1>2 DEF RebuildInvariant, RebuildTypes, VouchedAreWhole
            <3> QED
                BY <1>k, <3>1
        <2> QED
            BY <2>1 DEF VouchedAreWhole
    <1> QED
        BY <1>1, <1>3, <1>4, <1>5, <1>6, <1>7 DEF RebuildInvariant, AllAccounted

-----------------------------------------------------------------------------
(* The steps of a rebuild. *)

\* A request of a rebuild reaches Chroma, or stays behind: no attempt's it is, so
\* ingestion's invariant is not disturbed.
LEMMA NobodysRequest ==
    ASSUME InductiveInvariant, CompletedByAnAttempt, UNCHANGED <<job, chunks, worker>>,
           \/ UNCHANGED <<index, wiper>>
           \/ \E k \in Jobs, op \in 0 .. Batches : Apply(k, 0, op),
           \A r \in stray' : r \in stray \/ (r \in Request /\ r.attempt = 0)
    PROVE  InductiveInvariant'
    <1>1. /\ TypeOK /\ index \in [Jobs -> SUBSET AllBatches] /\ wiper \in [Jobs -> 0 .. MaxAttempts]
          /\ job \in [Jobs -> JobRow] /\ MaxAttempts \in Nat /\ Batches \in Nat
        BY ConstantsAssumption, ProcessingAssumption DEF InductiveInvariant, TypeOK
    <1>2. /\ index' \in [Jobs -> SUBSET AllBatches] /\ wiper' \in [Jobs -> 0 .. MaxAttempts]
          /\ \A j \in Jobs : wiper'[j] # 0 => wiper'[j] = wiper[j] /\ index[j] \subseteq index'[j]
        <2>1. CASE UNCHANGED <<index, wiper>>
            BY <1>1, <2>1
        <2>2. ASSUME NEW k \in Jobs, NEW op \in 0 .. Batches, Apply(k, 0, op)
              PROVE  /\ index' \in [Jobs -> SUBSET AllBatches]
                     /\ wiper' \in [Jobs -> 0 .. MaxAttempts]
                     /\ \A j \in Jobs : wiper'[j] # 0 =>
                            wiper'[j] = wiper[j] /\ index[j] \subseteq index'[j]
            BY <1>1, <2>2 DEF Apply, AllBatches
        <2> QED
            BY <2>1, <2>2
    <1>3. TypeOK'
        BY <1>1, <1>2 DEF TypeOK, WorkersTyped
    <1>4. \A w \in Workers : worker[w].stage \in Active =>
             worker[w].job \in Jobs /\ worker[w].attempt # 0
        BY <1>1 DEF InductiveInvariant, AttemptsAreDistinct, JobRow, Row
    <1>5. OwnUpsertsStand'
        BY <1>1, <1>2, <1>4 DEF InductiveInvariant, OwnUpsertsStand, Active, Stages
    <1>6. CompletedIndexIsWhole'
        <2> SUFFICES ASSUME NEW j \in Jobs, job[j].status = "completed", wiper'[j] = job[j].attempts
                     PROVE  index'[j] = AllBatches
            BY DEF CompletedIndexIsWhole
        <2>1. wiper'[j] # 0
            BY DEF CompletedByAnAttempt
        <2>2. wiper'[j] = wiper[j] /\ index[j] \subseteq index'[j]
            BY <1>2, <2>1
        <2>3. index[j] = AllBatches
            BY <2>2 DEF InductiveInvariant, CompletedIndexIsWhole
        <2> QED
            BY <1>2, <2>2, <2>3
    <1>7. StraysAreOver'
        <2> SUFFICES ASSUME NEW r \in stray'
                     PROVE  /\ r.attempt <= job[r.job].attempts
                            /\ ~(job[r.job].status = "completed" /\ job[r.job].attempts = r.attempt)
                            /\ \A w \in Workers : worker[w].stage \in Writing /\ worker[w].job = r.job
                                    => worker[w].attempt # r.attempt
            BY DEF StraysAreOver
        <2>1. CASE r \in stray
            BY <2>1 DEF InductiveInvariant, StraysAreOver
        <2>2. CASE r \in Request /\ r.attempt = 0
            <3>1. r.job \in Jobs /\ job[r.job] \in JobRow
                BY <1>1, <2>2 DEF Request
            <3>2. job[r.job].attempts \in 0 .. MaxAttempts
                BY <3>1 DEF JobRow
            <3> QED
                BY <1>1, <1>4, <2>2, <3>1, <3>2
                DEF CompletedByAnAttempt, Writing, Working, Active, Stages
        <2> QED
            BY <2>1, <2>2
    <1> QED
        BY <1>3, <1>5, <1>6, <1>7
        DEF InductiveInvariant, RowsAgree, AttemptsAreDistinct, OwnerRunsCurrentAttempt, Row,
            OwnChunksStand, CompletedChunksAreCurrent, WritersHaveNotCompleted

\* A command moves on, whatever it has done to the index.
LEMMA CommandMoves ==
    ASSUME RebuildInvariant, InductiveInvariant', job' = job, NEW r \in Rebuilders,
           NEW row \in RebuildState, rebuild' = [rebuild EXCEPT ![r] = row],
           row.stage \in Rewriting => row.job \in Jobs /\ job[row.job].status = "completed",
           rebuildWiper' \in [Jobs -> Rebuilders \cup {NoRebuilder}],
           vouched' \in SUBSET Jobs, AllAccounted', VouchedAreWhole'
    PROVE  RebuildInvariant'
BY DEF RebuildInvariant, RebuildTypes, RewritesCompleted, CompletedByAnAttempt

\* A step that leaves the index alone: a command starts afresh, or keeps its list; and
\* one that leaves its upserts lists the document.
LEMMA IndexUntouched ==
    ASSUME RebuildInvariant, UNCHANGED <<job, index, rebuildWiper, vouched>>,
           InductiveInvariant', NEW r \in Rebuilders, NEW row \in RebuildState,
           rebuild' = [rebuild EXCEPT ![r] = row],
           row.stage \in Rewriting => row.job \in Jobs /\ job[row.job].status = "completed",
           row.stage # "idle",
           rebuild[r].stage # "idle" => rebuild[r].failures \subseteq row.failures,
           rebuild[r].stage = "upsert" => rebuild[r].job \in row.failures
    PROVE  RebuildInvariant'
    <1>1. RebuildTypes
        BY DEF RebuildInvariant
    <1>2. rebuild'[r] = row /\ \A q \in Rebuilders \ {r} : rebuild'[q] = rebuild[q]
        BY <1>1 DEF RebuildTypes
    <1>3. ASSUME NEW j \in Jobs, NEW q \in Rebuilders, rebuildWiper'[j] = q
          PROVE  Accounted(q, j)'
        <2>1. Accounted(q, j)
            BY <1>3 DEF RebuildInvariant, AllAccounted
        <2>2. CASE q = r
            BY <1>2, <2>1, <2>2 DEF Accounted
        <2>3. CASE q # r
            BY <1>2, <2>1, <2>3 DEF Accounted
        <2> QED
            BY <2>2, <2>3
    <1>4. VouchedAreWhole' /\ vouched' \in SUBSET Jobs
        BY <1>1 DEF RebuildInvariant, RebuildTypes, VouchedAreWhole
    <1>5. rebuildWiper' \in [Jobs -> Rebuilders \cup {NoRebuilder}]
        BY <1>1 DEF RebuildTypes
    <1>6. AllAccounted'
        BY <1>3 DEF AllAccounted
    <1> QED
        BY <1>4, <1>5, <1>6, CommandMoves

\* From one document to the next: reading the status, the row and the chunks.
LEMMA ReadingStep ==
    ASSUME RebuildInvariant, NEW r \in Rebuilders,
           \/ \E S \in SUBSET Jobs : StartKnowledgeBaseRebuild(r, S)
           \/ \E j \in Jobs :
                StartDocumentRebuild(r, j) \/ LoadDocument(r, j) \/ RefuseDocument(r, j)
           \/ EmbedRecords(r)
    PROVE  RebuildInvariant'
    <1>1. RebuildTypes /\ rebuild[r] \in RebuildState /\ InductiveInvariant
        BY DEF RebuildInvariant, RebuildTypes
    <1>2. UNCHANGED <<vars, rebuildWiper, vouched>> /\ rebuild[r].stage # "upsert"
        BY DEF StartKnowledgeBaseRebuild, StartDocumentRebuild, LoadDocument, RefuseDocument, EmbedRecords
    <1>3. InductiveInvariant' /\ UNCHANGED <<job, index, rebuildWiper, vouched>>
        BY <1>1, <1>2, NextPreserves DEF vars
    <1>i. IdleRebuild \in RebuildState
        BY ProcessingAssumption DEF IdleRebuild, RebuildState, AllBatches
    <1> DEFINE Good(row) ==
            /\ row \in RebuildState /\ rebuild' = [rebuild EXCEPT ![r] = row]
            /\ row.stage \in Rewriting => row.job \in Jobs /\ job[row.job].status = "completed"
            /\ row.stage # "idle"
            /\ rebuild[r].stage # "idle" => rebuild[r].failures \subseteq row.failures
    <1>4. ASSUME NEW row, Good(row) PROVE RebuildInvariant'
        BY <1>2, <1>3, <1>4, IndexUntouched
    <1>5. ASSUME NEW S \in SUBSET Jobs, StartKnowledgeBaseRebuild(r, S) PROVE RebuildInvariant'
        <2> DEFINE row == [IdleRebuild EXCEPT !.stage = "next", !.todo = S \ NotCompleted(S),
                                              !.failures = NotCompleted(S)]
        <2>1. row \in RebuildState /\ row.stage = "next"
            BY <1>i DEF RebuildState, NotCompleted
        <2>2. rebuild' = [rebuild EXCEPT ![r] = row] /\ rebuild[r].stage = "idle"
            BY <1>5 DEF StartKnowledgeBaseRebuild
        <2> QED
            BY <1>4, <2>1, <2>2 DEF Rewriting
    <1>6. ASSUME NEW j \in Jobs, StartDocumentRebuild(r, j) PROVE RebuildInvariant'
        <2> DEFINE row == [IdleRebuild EXCEPT !.stage = "asked", !.job = j]
        <2>1. row \in RebuildState /\ row.stage = "asked"
            BY <1>i DEF RebuildState
        <2>2. rebuild' = [rebuild EXCEPT ![r] = row] /\ rebuild[r].stage = "idle"
            BY <1>6 DEF StartDocumentRebuild
        <2> QED
            BY <1>4, <2>1, <2>2 DEF Rewriting
    <1>7. ASSUME NEW j \in Jobs, LoadDocument(r, j) PROVE RebuildInvariant'
        <2> DEFINE row == [rebuild[r] EXCEPT !.todo = @ \ {j}, !.stage = "embed", !.job = j]
        <2>1. /\ row \in RebuildState /\ row.stage = "embed" /\ row.job = j
              /\ row.failures = rebuild[r].failures
            BY <1>1 DEF RebuildState, Rewriting
        <2>2. rebuild' = [rebuild EXCEPT ![r] = row] /\ job[j].status = "completed"
            BY <1>1, <1>7 DEF LoadDocument, RebuildReady, RebuildTypes
        <2> QED
            BY <1>4, <2>1, <2>2
    <1>8. ASSUME NEW j \in Jobs, RefuseDocument(r, j) PROVE RebuildInvariant'
        <2> DEFINE row == [rebuild[r] EXCEPT !.todo = @ \ {j}, !.failures = @ \cup {j}]
        <2>1. row \in RebuildState /\ row.stage = "next" /\ rebuild[r].failures \subseteq row.failures
            BY <1>1, <1>8 DEF RebuildState, RefuseDocument
        <2>2. rebuild' = [rebuild EXCEPT ![r] = row]
            BY <1>1, <1>8 DEF RefuseDocument, RebuildTypes
        <2> QED
            BY <1>4, <2>1, <2>2 DEF Rewriting
    <1>9. CASE EmbedRecords(r)
        <2> DEFINE row == [rebuild[r] EXCEPT !.stage = "delete"]
        <2>1. /\ row \in RebuildState /\ row.stage = "delete" /\ row.job = rebuild[r].job
              /\ row.failures = rebuild[r].failures
            BY <1>1 DEF RebuildState, Rewriting
        <2>2. rebuild' = [rebuild EXCEPT ![r] = row]
            BY <1>1, <1>9 DEF EmbedRecords, RebuildTypes
        <2>3. rebuild[r].job \in Jobs /\ job[rebuild[r].job].status = "completed"
            BY <1>9 DEF EmbedRecords, RebuildInvariant, RewritesCompleted, Rewriting
        <2> QED
            BY <1>4, <2>1, <2>2, <2>3
    <1> QED
        BY <1>5, <1>6, <1>7, <1>8, <1>9

\* The delete makes the document this command's; each upsert adds a batch.
LEMMA WritingStep ==
    ASSUME RebuildInvariant, NEW r \in Rebuilders, RebuildDelete(r) \/ RebuildUpsert(r)
    PROVE  RebuildInvariant'
    <1> DEFINE j == rebuild[r].job
               b == rebuild[r].batch
    <1>1. RebuildTypes /\ rebuild[r] \in RebuildState /\ InductiveInvariant /\ Batches \in Nat \ {0}
        BY ProcessingAssumption DEF RebuildInvariant, RebuildTypes
    <1>2. j \in Jobs /\ job[j].status = "completed" /\ b \in 1 .. Batches
        BY <1>1
        DEF RebuildDelete, RebuildUpsert, RebuildInvariant, RewritesCompleted, Rewriting, RebuildState, AllBatches
    <1>3. /\ index \in [Jobs -> SUBSET AllBatches]
          /\ UNCHANGED <<job, chunks, worker, stray>>
        BY <1>1 DEF InductiveInvariant, TypeOK, RebuildDelete, RebuildUpsert
    <1>4. InductiveInvariant'
        <2>1. \E k \in Jobs, op \in 0 .. Batches : Apply(k, 0, op)
            BY <1>1, <1>2 DEF RebuildDelete, RebuildUpsert
        <2> QED
            BY <1>3, <2>1, NobodysRequest DEF RebuildInvariant
    <1>a. 1 \in AllBatches /\ b \in AllBatches /\ b # 0 /\ (b # Batches => b + 1 \in AllBatches)
        BY <1>1, <1>2 DEF AllBatches
    <1>5. CASE RebuildDelete(r)
        <2> DEFINE row == [rebuild[r] EXCEPT !.stage = "upsert", !.batch = 1]
        <2>1. row \in RebuildState /\ row.job = j /\ row.stage = "upsert" /\ row.batch = 1
            BY <1>1, <1>a DEF RebuildState, Rewriting
        <2>2. /\ rebuild' = [rebuild EXCEPT ![r] = row] /\ rebuild[r].stage = "delete"
              /\ rebuildWiper' = [rebuildWiper EXCEPT ![j] = r]
              /\ index' = [index EXCEPT ![j] = {}]
              /\ vouched' = vouched \ {j}
            BY <1>1, <1>5 DEF RebuildDelete, Apply, RebuildTypes
        <2>f. row.failures = rebuild[r].failures
            BY <1>1 DEF RebuildState
        <2> HIDE DEF row
        <2>3. ASSUME NEW k \in Jobs, NEW q \in Rebuilders, rebuildWiper'[k] = q
              PROVE  Accounted(q, k)'
            <3>1. CASE k = j
                BY <1>1, <1>2, <1>3, <2>1, <2>2, <2>3, <3>1 DEF RebuildTypes, Accounted
            <3>2. CASE k # j
                <4>1. Accounted(q, k) /\ index'[k] = index[k]
                    BY <1>1, <1>3, <2>2, <2>3, <3>2 DEF RebuildTypes, RebuildInvariant, AllAccounted
                <4>2. (q = r /\ rebuild'[q] = row) \/ rebuild'[q] = rebuild[q]
                    BY <1>1, <2>2 DEF RebuildTypes
                <4> QED
                    BY <2>1, <2>2, <2>f, <4>1, <4>2 DEF Accounted
            <3> QED
                BY <3>1, <3>2
        <2>4. /\ rebuildWiper' \in [Jobs -> Rebuilders \cup {NoRebuilder}]
              /\ vouched' \in SUBSET Jobs
            BY <1>1, <2>2 DEF RebuildTypes
        <2>5. VouchedAreWhole'
            BY <1>1, <1>3, <2>2 DEF RebuildInvariant, RebuildTypes, VouchedAreWhole
        <2>6. AllAccounted'
            BY <2>3 DEF AllAccounted
        <2> QED
            BY <1>2, <1>3, <1>4, <2>1, <2>2, <2>4, <2>5, <2>6, CommandMoves
    <1>6. CASE RebuildUpsert(r)
        <2> DEFINE row == IF b = Batches
                          THEN [rebuild[r] EXCEPT !.stage = "next", !.job = NoJob, !.batch = 1]
                          ELSE [rebuild[r] EXCEPT !.batch = b + 1]
        <2>1. /\ row \in RebuildState /\ rebuild[r].stage = "upsert"
              /\ b = Batches => row.stage = "next"
              /\ b # Batches => row.stage = "upsert" /\ row.job = j /\ row.batch = b + 1
              /\ row.stage # "idle"
              /\ row.failures = rebuild[r].failures
            BY <1>1, <1>a, <1>6 DEF RebuildUpsert, RebuildState, Rewriting
        <2>2. rebuild' = [rebuild EXCEPT ![r] = row]
            BY <1>1, <1>6 DEF RebuildUpsert, RebuildTypes
        <2>3. UNCHANGED <<rebuildWiper, vouched>> /\ index' = [index EXCEPT ![j] = @ \cup {b}]
            BY <1>a, <1>6 DEF RebuildUpsert, Apply
        <2> HIDE DEF row
        <2>4. \A k \in Jobs : index[k] \subseteq index'[k] /\ index'[k] \subseteq AllBatches
            BY <1>2, <1>3, <2>3 DEF AllBatches
        <2>5. ASSUME NEW k \in Jobs, NEW q \in Rebuilders, rebuildWiper'[k] = q
              PROVE  Accounted(q, k)'
            <3>1. Accounted(q, k)
                BY <2>3, <2>5 DEF RebuildInvariant, AllAccounted
            <3>2. CASE q # r
                <4>1. rebuild'[q] = rebuild[q]
                    BY <1>1, <2>2, <3>2 DEF RebuildTypes
                <4> QED
                    BY <2>4, <3>1, <4>1 DEF Accounted
            <3>3. CASE q = r
                <4>1. rebuild'[q] = row
                    BY <1>1, <2>2, <3>3 DEF RebuildTypes
                <4>2. CASE index[k] = AllBatches \/ k \in rebuild[q].failures
                    BY <2>1, <2>4, <3>3, <4>1, <4>2 DEF Accounted
                <4>3. CASE k = j /\ 1 .. b - 1 \subseteq index[k]
                    <5>1. 1 .. b \subseteq index'[k]
                        BY <1>2, <1>3, <2>3, <4>3
                    <5>2. CASE b = Batches
                        BY <2>1, <2>4, <4>1, <5>1, <5>2 DEF AllBatches, Accounted
                    <5>3. CASE b # Batches
                        <6>1. row.batch - 1 = b
                            BY <1>2, <2>1, <5>3
                        <6> QED
                            BY <2>1, <4>1, <4>3, <5>1, <5>3, <6>1 DEF Accounted
                    <5> QED
                        BY <5>2, <5>3
                <4> QED
                    BY <3>1, <3>3, <4>2, <4>3 DEF Accounted
            <3> QED
                BY <3>2, <3>3
        <2>6. /\ row.stage \in Rewriting => row.job = j
              /\ rebuildWiper' \in [Jobs -> Rebuilders \cup {NoRebuilder}]
              /\ vouched' \in SUBSET Jobs
            BY <1>1, <2>1, <2>3 DEF Rewriting, RebuildTypes
        <2>7. VouchedAreWhole'
            BY <1>1, <2>3, <2>4 DEF RebuildInvariant, RebuildTypes, VouchedAreWhole
        <2>8. AllAccounted'
            BY <2>5 DEF AllAccounted
        <2> QED
            BY <1>2, <1>3, <1>4, <2>1, <2>2, <2>6, <2>7, <2>8, CommandMoves
    <1> QED
        BY <1>5, <1>6

\* The request a command leaves behind is no attempt's.
LEMMA RequestLeft ==
    ASSUME RebuildInvariant, NEW r \in Rebuilders, LeaveRequest(r),
           UNCHANGED <<job, chunks, index, wiper, worker>>
    PROVE  InductiveInvariant'
    <1>1. rebuild[r] \in RebuildState
        BY DEF RebuildInvariant, RebuildTypes
    <1>2. ASSUME rebuild[r].stage \in {"delete", "upsert"}, NEW s, s \in stray',
                 stray' = stray \cup {[job |-> rebuild[r].job, attempt |-> 0,
                    op |-> IF rebuild[r].stage = "delete" THEN 0 ELSE rebuild[r].batch]}
          PROVE  s \in stray \/ (s \in Request /\ s.attempt = 0)
        <2> DEFINE op == IF rebuild[r].stage = "delete" THEN 0 ELSE rebuild[r].batch
        <2>1. op \in 0 .. Batches /\ 0 \in 0 .. MaxAttempts
            BY <1>1, ConstantsAssumption, ProcessingAssumption DEF RebuildState, AllBatches
        <2>2. rebuild[r].job \in Jobs
            BY <1>2 DEF RebuildInvariant, RewritesCompleted, Rewriting
        <2>3. /\ [job |-> rebuild[r].job, attempt |-> 0, op |-> op] \in Request
              /\ [job |-> rebuild[r].job, attempt |-> 0, op |-> op].attempt = 0
            BY <2>1, <2>2 DEF Request
        <2>4. s \in stray \/ s = [job |-> rebuild[r].job, attempt |-> 0, op |-> op]
            BY <1>2
        <2> HIDE DEF op
        <2> QED
            BY <2>3, <2>4
    <1>3. \A s \in stray' : s \in stray \/ (s \in Request /\ s.attempt = 0)
        BY <1>2 DEF LeaveRequest
    <1> QED
        BY <1>3, NobodysRequest DEF RebuildInvariant

\* A document that fails is listed; its last request may stay behind.
LEMMA FailingStep ==
    ASSUME RebuildInvariant, NEW r \in Rebuilders, RebuildFails(r)
    PROVE  RebuildInvariant'
    <1>1. RebuildTypes /\ rebuild[r] \in RebuildState
        BY DEF RebuildInvariant, RebuildTypes
    <1>2. rebuild[r].job \in Jobs
        BY DEF RebuildFails, RebuildInvariant, RewritesCompleted, Rewriting
    <1> DEFINE row == [rebuild[r] EXCEPT !.stage = "next", !.job = NoJob, !.batch = 1,
                                         !.failures = @ \cup {rebuild[r].job}]
    <1>a. 1 \in AllBatches
        BY ProcessingAssumption DEF AllBatches
    <1>b. rebuild[r].failures \cup {rebuild[r].job} \in SUBSET Jobs
        BY <1>1, <1>2 DEF RebuildState
    <1>3. /\ row \in RebuildState /\ row.stage = "next"
          /\ rebuild[r].failures \subseteq row.failures /\ rebuild[r].job \in row.failures
        BY <1>1, <1>a, <1>b DEF RebuildState
    <1>4. rebuild' = [rebuild EXCEPT ![r] = row]
        BY <1>1 DEF RebuildFails, RebuildTypes
    <1>5. InductiveInvariant' /\ UNCHANGED <<job, index, rebuildWiper, vouched>>
        BY RequestLeft DEF RebuildFails
    <1> HIDE DEF row
    <1> QED
        BY <1>3, <1>4, <1>5, IndexUntouched DEF Rewriting

\* An ended command has no claim left; what its result does not name is whole.
LEMMA EndingStep ==
    ASSUME RebuildInvariant, NEW r \in Rebuilders, FinishRebuild(r) \/ InterruptRebuild(r)
    PROVE  RebuildInvariant'
    <1>1. RebuildTypes /\ InductiveInvariant
        BY DEF RebuildInvariant
    <1>2. /\ rebuild' = [rebuild EXCEPT ![r] = IdleRebuild]
          /\ rebuildWiper' = [j \in Jobs |-> IF rebuildWiper[j] = r THEN NoRebuilder
                                                                  ELSE rebuildWiper[j]]
          /\ UNCHANGED <<job, index>>
        BY DEF FinishRebuild, InterruptRebuild, EndRebuild, vars
    <1>3. InductiveInvariant'
        <2>1. CASE FinishRebuild(r)
            BY <1>1, <2>1, NextPreserves DEF FinishRebuild
        <2>2. CASE InterruptRebuild(r)
            BY <2>2, RequestLeft DEF InterruptRebuild
        <2> QED
            BY <2>1, <2>2
    <1>4. IdleRebuild \in RebuildState /\ IdleRebuild.stage \notin Rewriting
        BY ProcessingAssumption DEF IdleRebuild, RebuildState, AllBatches, Rewriting
    <1>5. ASSUME NEW j \in Jobs, NEW q \in Rebuilders, rebuildWiper'[j] = q
          PROVE  Accounted(q, j)'
        <2>1. q # r /\ rebuildWiper[j] = q
            BY <1>2, <1>5, RebuildersAssumption
        <2>2. rebuild'[q] = rebuild[q]
            BY <1>1, <1>2, <2>1 DEF RebuildTypes
        <2> QED
            BY <1>2, <2>1, <2>2 DEF RebuildInvariant, AllAccounted, Accounted
    <1>6. VouchedAreWhole' /\ vouched' \in SUBSET Jobs
        <2>1. CASE FinishRebuild(r)
            <3>1. ASSUME NEW j \in Jobs, rebuildWiper[j] = r, j \notin rebuild[r].failures
                  PROVE  index[j] = AllBatches
                BY <2>1, <3>1 DEF FinishRebuild, RebuildInvariant, AllAccounted, Accounted
            <3> QED
                BY <1>1, <1>2, <2>1, <3>1
                DEF FinishRebuild, RebuildInvariant, RebuildTypes, VouchedAreWhole
        <2>2. CASE InterruptRebuild(r)
            BY <1>1, <1>2, <2>2 DEF InterruptRebuild, RebuildInvariant, RebuildTypes, VouchedAreWhole
        <2> QED
            BY <2>1, <2>2
    <1>7. AllAccounted'
        BY <1>5 DEF AllAccounted
    <1>8. rebuildWiper' \in [Jobs -> Rebuilders \cup {NoRebuilder}]
        BY <1>1, <1>2 DEF RebuildTypes
    <1> QED
        BY <1>2, <1>3, <1>4, <1>6, <1>7, <1>8, CommandMoves

\* Every step of workers and rebuilds preserves the invariant.
LEMMA RebuildNext == RebuildInvariant /\ [RNext]_allVars => RebuildInvariant'
    <1> SUFFICES ASSUME RebuildInvariant, [RNext]_allVars PROVE RebuildInvariant'
        OBVIOUS
    <1>1. CASE UNCHANGED allVars
        <2>1. UNCHANGED <<vars, rebuild, rebuildWiper, vouched>>
            BY <1>1 DEF allVars, rebuildVars
        <2>2. InductiveInvariant'
            BY <2>1, NextPreserves DEF RebuildInvariant
        <2> QED
            BY <2>1, <2>2
            DEF RebuildInvariant, RebuildTypes, RewritesCompleted, CompletedByAnAttempt,
                AllAccounted, Accounted, VouchedAreWhole, vars
    <1> QED
        BY <1>1, IngestionKeeps, ReadingStep, WritingStep, FailingStep, EndingStep DEF RNext

\* Ingestion's own steps, and rebuilds', seen by the rows and chunks.
LEMMA RowsSeenBeside ==
    ASSUME RebuildInvariant, [RNext]_allVars
    PROVE  [Next]_vars \/ UNCHANGED <<job, chunks>>
BY DEF RNext, IngestionStep, allVars, rebuildVars, vars, StartKnowledgeBaseRebuild,
       StartDocumentRebuild, LoadDocument, RefuseDocument, EmbedRecords, RebuildDelete,
       RebuildUpsert, RebuildFails, FinishRebuild, InterruptRebuild

\* The invariant of workers and rebuilds together, for any number of each.
THEOREM RebuildInvariantHolds == RSpec => []RebuildInvariant
    BY RebuildInit, RebuildNext, PTL DEF RSpec

\* A completed document whose index was last emptied by its own attempt is whole,
\* whatever rebuilds do.
THEOREM CompletedIndexBesideRebuilds == RSpec => []CompletedIndexIsWhole
    <1>1. RebuildInvariant => CompletedIndexIsWhole
        BY DEF RebuildInvariant, InductiveInvariant
    <1> QED
        BY <1>1, RebuildInvariantHolds, PTL

\* From the second read of a document to the last upsert, no attempt owns it.
THEOREM RebuildsAvoidIngestion == RSpec => []RebuildOnlyWhereIngestionIsOver
    <1>1. RebuildInvariant => RebuildOnlyWhereIngestionIsOver
        BY DEF RebuildInvariant, RewritesCompleted, Rewriting, InductiveInvariant, RowsAgree,
               RowAgrees, RebuildOnlyWhereIngestionIsOver
    <1> QED
        BY <1>1, RebuildInvariantHolds, PTL

\* A rebuild that returns a result names in it every document whose vectors it deleted
\* and did not restore; while it runs, such a document is being written or is listed.
THEOREM RebuildLossesAreNamed == RSpec => []RebuildResultNamesLosses
    <1>1. RebuildInvariant => RebuildResultNamesLosses
        BY DEF RebuildInvariant, AllAccounted, Accounted, VouchedAreWhole, RebuildResultNamesLosses
    <1> QED
        BY <1>1, RebuildInvariantHolds, PTL

\* A completed document is final with rebuilds running as well.
THEOREM CompletedStaysBesideRebuilds == RSpec => CompletedIsFinal
    <1>1. RebuildInvariant /\ [RNext]_allVars =>
             [\A j \in Jobs : job[j].status = "completed" =>
                 job'[j] = job[j] /\ chunks'[j] = chunks[j]]_vars
        BY RowsSeenBeside, CompletedStay DEF RebuildInvariant
    <1> QED
        BY <1>1, RebuildInvariantHolds, PTL DEF RSpec, CompletedIsFinal

\* Workers and rebuilds together implement the life of each document.
THEOREM RefinementBesideRebuilds == RSpec => ImplementsLifecycle
    <1> DEFINE seen == [j \in Jobs |-> [state  |-> job[j].status,
                                        tries  |-> job[j].attempts,
                                        stored |-> chunks[j]]]
    <1>1. RInit => Lifecycle!Init
        BY DEF RInit, Init, NewRow, Lifecycle!Init
    <1>2. ASSUME RebuildInvariant, [RNext]_allVars
          PROVE  [Lifecycle!Next]_seen
        <2>1. CASE [Next]_vars
            <3>1. \A j \in Jobs : Follows(job[j], chunks[j], job'[j], chunks'[j])
                BY <1>2, <2>1, LifecycleStep DEF RebuildInvariant
            <3> QED
                BY <3>1 DEF Lifecycle!Next, Follows, Seen
        <2>2. CASE UNCHANGED <<job, chunks>>
            BY <2>2
        <2> QED
            BY <1>2, <2>1, <2>2, RowsSeenBeside
    <1>3. RebuildInvariant /\ [RNext]_allVars => [Lifecycle!Next]_seen
        BY <1>2
    <1> QED
        BY <1>1, <1>3, RebuildInvariantHolds, PTL DEF RSpec, ImplementsLifecycle, Lifecycle!Spec
=============================================================================

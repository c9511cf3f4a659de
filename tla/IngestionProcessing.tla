------------------------ MODULE IngestionProcessing ------------------------
(***************************************************************************)
(* IngestionProcessingService: workers that claim jobs under a lease and   *)
(* take each document through source read, parsing, durable chunks,        *)
(* embedding and the Chroma index, while any of them may stall, crash, be  *)
(* stopped, or lose its lease to another worker at any point between two   *)
(* transactions.                                                           *)
(*                                                                         *)
(* Three stores are shared.  job[j] is the PostgreSQL row.  chunks[j] is   *)
(* the attempt whose document_chunks rows are durable (0: none): rows are  *)
(* replaced all together in one transaction.  index[j] is the set of       *)
(* upsert batches present in Chroma: vector ids derive from chunk ids,     *)
(* chunk ids from the content, so two attempts upsert the same records.    *)
(* Chroma is reached by HTTP and knows nothing of leases: a request given  *)
(* up by its sender (timeout, cancellation, crash) stays in `stray` and    *)
(* may still be applied later, or never.                                   *)
(***************************************************************************)
EXTENDS IngestionJobs, FiniteSets

CONSTANTS
    NoJob,          \* the job of a worker between two claims
    Batches,        \* number of upsert batches of a document
    MaxStray        \* bound on the requests given up and not yet applied

ASSUME ProcessingAssumption == NoJob \notin Jobs /\ Batches \in Nat \ {0}

VARIABLES
    job,        \* job[j]: the ingestion_jobs row and the document status
    chunks,     \* chunks[j]: the attempt whose chunks are durable
    index,      \* index[j]: the vector batches Chroma holds for the document
    wiper,      \* history: the attempt whose delete_by_document was applied last
    worker,     \* worker[w]: where process_next stands in worker w
    stray       \* vector requests nobody waits for any more

vars == <<job, chunks, index, wiper, worker, stray>>

AllBatches == 1 .. Batches

\* The stages of process_next.  "fail" is the except branch about to record the
\* failure, retryable or not.
Stages == {"idle", "polling", "prepare", "persist", "embed", "delete", "upsert",
           "finish", "fail"}

\* The stages run under the heartbeat, and all the stages of a claimed job.
Working == {"prepare", "persist", "embed", "delete", "upsert"}
Active  == Stages \ {"idle", "polling"}

WorkerState == [stage : Stages, job : Jobs \cup {NoJob}, attempt : 0 .. MaxAttempts,
                batch : 1 .. Batches + 1, retryable : BOOLEAN]

IdleWorker == [stage |-> "idle", job |-> NoJob, attempt |-> 0, batch |-> 1,
               retryable |-> FALSE]

\* op = 0 is delete_by_document, op = b the upsert of batch b
Request == [job : Jobs, attempt : 0 .. MaxAttempts, op : 0 .. Batches]

Row(w) == job[worker[w].job]

\* worker w holds, by this reading of its clock, the lease of the job it works on
Holds(w, lag) == Owned(Row(w), w, lag)

Init ==
    /\ job = [j \in Jobs |-> NewRow]
    /\ chunks = [j \in Jobs |-> 0]
    /\ index = [j \in Jobs |-> {}]
    /\ wiper = [j \in Jobs |-> 0]
    /\ worker = [w \in Workers |-> IdleWorker]
    /\ stray = {}

MoveTo(w, stage) == worker' = [worker EXCEPT ![w].stage = stage]
EndAttempt(w) == worker' = [worker EXCEPT ![w] = IdleWorker]

\* worker w in an except branch that will record the failure
Failing(w, retryable) ==
    [worker EXCEPT ![w].stage = "fail", ![w].batch = 1, ![w].retryable = retryable]

-----------------------------------------------------------------------------
(* One poll: recovery of expired leases, then a claim. *)

\* recover_expired_leases: one transaction over the expired rows it could lock.
\* LIMIT and SKIP LOCKED decide which subset that is.
RecoverExpiredLeases(w) ==
    /\ worker[w].stage = "idle"
    /\ \E lag \in Lags : \E S \in SUBSET {j \in Jobs : Expired(job[j], lag)} :
         job' = [j \in Jobs |-> IF j \in S THEN AfterFailure(job[j], TRUE, lag) ELSE job[j]]
    /\ MoveTo(w, "polling")
    /\ UNCHANGED <<chunks, index, wiper, stray>>

\* _claim_next with a due row
ClaimNext(w, j) ==
    /\ worker[w].stage = "polling"
    /\ \E lag \in Lags :
         /\ Claimable(job[j], lag)
         /\ job' = [job EXCEPT ![j] = Claimed(@, w, lag)]
    /\ worker' = [worker EXCEPT ![w] =
                    [stage |-> "prepare", job |-> j, attempt |-> job[j].attempts + 1,
                     batch |-> 1, retryable |-> FALSE]]
    /\ UNCHANGED <<chunks, index, wiper, stray>>

\* _claim_next found no due row, or only locked ones: wait for the next poll
NothingClaimed(w) ==
    /\ worker[w].stage = "polling"
    /\ EndAttempt(w)
    /\ UNCHANGED <<job, chunks, index, wiper, stray>>

-----------------------------------------------------------------------------
(* The stages of one attempt. *)

\* The worker's wait for its own request ends without a reply: the request is
\* lost, or stays behind.
GiveUpRequest(w) ==
    \/ UNCHANGED stray
    \/ /\ worker[w].stage \in {"delete", "upsert"}
       /\ Cardinality(stray) < MaxStray
       /\ stray' = stray \cup
            {[job |-> worker[w].job, attempt |-> worker[w].attempt,
              op |-> IF worker[w].stage = "delete" THEN 0 ELSE worker[w].batch]}

\* _read_and_verify_source and _parse_and_chunk: no shared state is written
Prepare(w) ==
    /\ worker[w].stage = "prepare"
    /\ MoveTo(w, "persist")
    /\ UNCHANGED <<job, chunks, index, wiper, stray>>

\* Mutant: the chunk rows are replaced without the ownership check.
ReplaceChunksUnfenced(w) ==
    /\ worker[w].stage = "persist"
    /\ \E lag \in Lags :
         job' = [job EXCEPT ![worker[w].job] = [Renewed(@, lag) EXCEPT !.progress = 50]]
    /\ chunks' = [chunks EXCEPT ![worker[w].job] = worker[w].attempt]
    /\ MoveTo(w, "embed") \/ worker' = Failing(w, TRUE)
    /\ UNCHANGED <<index, wiper, stray>>

\* _replace_chunks: ownership, chunk rows, progress and lease in one transaction.
\* The reply to the COMMIT may be lost, and the worker then sees a database error.
ReplaceChunks(w) ==
    /\ worker[w].stage = "persist"
    /\ \E lag \in Lags :
         /\ Holds(w, lag)
         /\ job' = [job EXCEPT ![worker[w].job] = [Renewed(@, lag) EXCEPT !.progress = 50]]
    /\ chunks' = [chunks EXCEPT ![worker[w].job] = worker[w].attempt]
    /\ MoveTo(w, "embed") \/ worker' = Failing(w, TRUE)
    /\ UNCHANGED <<index, wiper, stray>>

\* _embed_chunks
Embed(w) ==
    /\ worker[w].stage = "embed"
    /\ MoveTo(w, "delete")
    /\ UNCHANGED <<job, chunks, index, wiper, stray>>

\* What Chroma does with a request, whoever sent it and whenever it arrives.
Apply(j, attempt, op) ==
    /\ index' = [index EXCEPT ![j] = IF op = 0 THEN {} ELSE @ \cup {op}]
    /\ wiper' = [wiper EXCEPT ![j] = IF op = 0 THEN attempt ELSE @]

\* _replace_vectors: delete_by_document, then one upsert per batch.  The lease is
\* not consulted: _with_lease reacts to the heartbeat, never to the database.
DeleteByDocument(w) ==
    /\ worker[w].stage = "delete"
    /\ Apply(worker[w].job, worker[w].attempt, 0)
    /\ worker' = [worker EXCEPT ![w].stage = "upsert", ![w].batch = 1]
    /\ UNCHANGED <<job, chunks, stray>>

\* Mutant: the last batch is left out.
UpsertAllButLast(w) ==
    /\ worker[w].stage = "upsert"
    /\ Apply(worker[w].job, worker[w].attempt, worker[w].batch)
    /\ worker' = [worker EXCEPT ![w].batch = Batches + 1,
                                ![w].stage = IF worker[w].batch + 1 >= Batches
                                             THEN "finish" ELSE "upsert"]
    /\ UNCHANGED <<job, chunks, stray>>

Upsert(w) ==
    /\ worker[w].stage = "upsert"
    /\ Apply(worker[w].job, worker[w].attempt, worker[w].batch)
    /\ worker' = [worker EXCEPT ![w].batch = @ + 1,
                                ![w].stage = IF worker[w].batch = Batches
                                             THEN "finish" ELSE "upsert"]
    /\ UNCHANGED <<job, chunks, stray>>

\* _complete_success; the reply to the COMMIT may be lost here too
CompleteSuccess(w) ==
    /\ worker[w].stage = "finish"
    /\ \E lag \in Lags : Holds(w, lag)
    /\ job' = [job EXCEPT ![worker[w].job] = AfterSuccess(@)]
    /\ EndAttempt(w) \/ worker' = Failing(w, TRUE)
    /\ UNCHANGED <<chunks, index, wiper, stray>>

\* The lease check of _replace_chunks or _complete_success fails, or the heartbeat
\* finds the lease gone: LeaseLostError, and the worker turns to the next job.
LoseLease(w) ==
    /\ worker[w].stage \in Working \cup {"finish"}
    /\ \E lag \in Lags : ~Holds(w, lag)
    /\ GiveUpRequest(w)
    /\ EndAttempt(w)
    /\ UNCHANGED <<job, chunks, index, wiper>>

\* A stage raises, or process_next is cancelled by a stop request.
\* _classify_failure calls database and dependency failures retryable (cancellation
\* too); source integrity, parsing and configuration failures are not.
StageFails(w) ==
    /\ worker[w].stage \in Working \cup {"finish"}
    /\ \E retryable \in BOOLEAN :
         /\ worker[w].stage \in {"persist", "finish"} => retryable
         /\ worker' = Failing(w, retryable)
    /\ GiveUpRequest(w)
    /\ UNCHANGED <<job, chunks, index, wiper>>

\* _complete_failure: records the failure if the lease is still held
CompleteFailure(w) ==
    /\ worker[w].stage = "fail"
    /\ \E lag \in Lags :
         job' = [job EXCEPT ![worker[w].job] =
                    IF Holds(w, lag) THEN AfterFailure(@, worker[w].retryable, lag) ELSE @]
    /\ EndAttempt(w)
    /\ UNCHANGED <<chunks, index, wiper, stray>>

-----------------------------------------------------------------------------
(* What happens around the stages. *)

\* _renew_lease, called by the heartbeat of the claimed job
RenewLease(w) ==
    /\ worker[w].stage \in Working
    /\ \E lag \in Lags :
         /\ Holds(w, lag)
         /\ job' = [job EXCEPT ![worker[w].job] = Renewed(@, lag)]
    /\ UNCHANGED <<chunks, index, wiper, worker, stray>>

\* The attempt ends with nothing recorded: the process dies, the heartbeat meets a
\* database error (LeaseLostError while the lease is held), or the failure
\* transition itself fails.  Lease expiry is what remains.
Abandon(w) ==
    /\ worker[w].stage \in Active
    /\ GiveUpRequest(w)
    /\ EndAttempt(w)
    /\ UNCHANGED <<job, chunks, index, wiper>>

\* Chroma applies a request its sender has given up
ApplyStray(r) ==
    /\ r \in stray
    /\ Apply(r.job, r.attempt, r.op)
    /\ stray' = stray \ {r}
    /\ UNCHANGED <<job, chunks, worker>>

\* ... or it never arrives
DropStray(r) ==
    /\ r \in stray
    /\ stray' = stray \ {r}
    /\ UNCHANGED <<job, chunks, index, wiper, worker>>

\* POST /ingestion-jobs/{id}/retry by a user who may retry
RetryIngestionJob(j) ==
    /\ job' = [job EXCEPT ![j] = AfterRetryRequest(@)]
    /\ UNCHANGED <<chunks, index, wiper, worker, stray>>

Tick ==
    /\ job' = [j \in Jobs |-> Aged(job[j])]
    /\ UNCHANGED <<chunks, index, wiper, worker, stray>>

WorkerStep(w) ==
    \/ Prepare(w) \/ ReplaceChunks(w) \/ Embed(w) \/ DeleteByDocument(w) \/ Upsert(w)
    \/ CompleteSuccess(w) \/ LoseLease(w) \/ StageFails(w) \/ CompleteFailure(w)

Next ==
    \/ \E w \in Workers :
         \/ RecoverExpiredLeases(w)
         \/ \E j \in Jobs : ClaimNext(w, j)
         \/ NothingClaimed(w)
         \/ WorkerStep(w)
         \/ RenewLease(w)
         \/ Abandon(w)
    \/ \E r \in stray : ApplyStray(r) \/ DropStray(r)
    \/ \E j \in Jobs : RetryIngestionJob(j)
    \/ Tick

Spec == Init /\ [][Next]_vars

(***************************************************************************)
(* Fairness.  Time passes; a worker that holds a job keeps running until   *)
(* it ends the attempt one way or another.  A poll repeats forever, and    *)
(* row locks last one short transaction, so a row that is due again and    *)
(* again is not skipped at every poll: strong fairness per row.  Crashes,  *)
(* heartbeats, strays and retry requests are owed nothing.                 *)
(***************************************************************************)
RecoverOne(j) ==
    /\ \E w \in Workers : RecoverExpiredLeases(w)
    /\ job[j].status = "processing" /\ job'[j].status # "processing"

Fairness ==
    /\ WF_vars(Tick)
    /\ \A w \in Workers :
         /\ WF_vars(WorkerStep(w))
         /\ WF_vars(NothingClaimed(w) \/ \E j \in Jobs : ClaimNext(w, j))
         /\ WF_vars(RecoverExpiredLeases(w))
    /\ \A j \in Jobs :
         /\ SF_vars(RecoverOne(j))
         /\ SF_vars(\E w \in Workers : ClaimNext(w, j))

FairSpec == Spec /\ Fairness

-----------------------------------------------------------------------------
(* Correctness. *)

WorkersTyped ==
    /\ worker \in [Workers -> WorkerState]
    /\ \A w \in Workers : worker[w].stage = "upsert" => worker[w].batch \in AllBatches

\* Every variable keeps its type; in particular attempt_count never passes
\* max_attempts, which the database would refuse.
TypeOK ==
    /\ job \in [Jobs -> JobRow]
    /\ chunks \in [Jobs -> 0 .. MaxAttempts]
    /\ index \in [Jobs -> SUBSET AllBatches]
    /\ wiper \in [Jobs -> 0 .. MaxAttempts]
    /\ WorkersTyped
    /\ stray \in SUBSET Request

\* The two tables agree whatever transaction wrote last: the document has the
\* status of its job, the row has an owner exactly while the job is processing and a
\* lease only then, no retry is due after a final state, and progress 100 means
\* completed while progress 50 means that the chunk rows are those of the attempt.
RowAgrees(r, stored) ==
    /\ r.document = r.status
    /\ (r.owner = NoWorker) <=> (r.status # "processing")
    /\ r.status # "processing" => r.lease = Floor
    /\ r.status \in {"completed", "failed"} => r.retry = Floor
    /\ (r.progress = 100) <=> (r.status = "completed")
    /\ r.progress = 50 => stored = r.attempts
    /\ r.status = "pending" => r.progress = 0

RowsAgree == \A j \in Jobs : RowAgrees(job[j], chunks[j])

\* claimed_by fences without a token: a worker that still finds its name on the row
\* it works on is running the row's current attempt, so nothing it then writes
\* belongs to an attempt that was already given up.
OwnerRunsCurrentAttempt ==
    \A w \in Workers :
        worker[w].stage \in Active /\ Row(w).owner = w
            => worker[w].attempt = Row(w).attempts

\* A completed document carries the chunk rows of the attempt that completed it,
\* though earlier attempts may still be running when it does.
CompletedChunksAreCurrent ==
    \A j \in Jobs : job[j].status = "completed" => chunks[j] = job[j].attempts

\* The index of a completed document is whole as long as the last delete applied to
\* it was the completing attempt's own: upserts never arrive before that delete,
\* none is skipped, and a late upsert of an older attempt does no harm.
CompletedIndexIsWhole ==
    \A j \in Jobs :
        job[j].status = "completed" /\ wiper[j] = job[j].attempts => index[j] = AllBatches

\* A completed job is never touched again: no retry, recovery, late failure record or
\* chunk replacement of another attempt changes its row or its chunks.
CompletedIsFinal ==
    [][\A j \in Jobs : job[j].status = "completed" =>
          job'[j] = job[j] /\ chunks'[j] = chunks[j]]_vars

\* An attempt that was recovered or failed writes no PostgreSQL state any more: the
\* chunk rows change only to those of the attempt the row is in.
ChunksOfCurrentAttemptOnly ==
    [][\A j \in Jobs : chunks'[j] # chunks[j] =>
          job[j].status = "processing" /\ chunks'[j] = job[j].attempts]_vars

\* Seen per document, workers, leases and late writes reduce to the life of one
\* document: every step of the service is a step of JobLifecycle or none.
Lifecycle == INSTANCE JobLifecycle WITH
    life <- [j \in Jobs |-> [state  |-> job[j].status,
                             tries  |-> job[j].attempts,
                             stored |-> chunks[j]]]

ImplementsLifecycle == Lifecycle!Spec

\* Every worker goes through the stages of process_next in their order, leaves none
\* out, and comes to the record of a failure from a stage only, whatever the others
\* and the database do: the control LeasedAttempt is shown to implement as well.
ControlOf(w) ==
    CASE worker[w].stage \in {"idle", "polling"}   -> "free"
      [] worker[w].stage \in {"delete", "upsert"}  -> "index"
      [] OTHER                                     -> worker[w].stage

Attempt(w) == INSTANCE AttemptStages WITH at <- ControlOf(w)

WorkersFollowStages ==
    /\ \A w \in Workers : Attempt(w)!Init
    /\ [][\A w \in Workers : [Attempt(w)!Next]_(ControlOf(w))]_vars

\* Every job is decided: one that is claimed, whatever becomes of its worker, and one
\* that waits with an attempt left completes or fails in the end; none stays claimed
\* for ever.
JobsAreDecided ==
    \A j \in Jobs :
        job[j].status = "processing" \/ (job[j].status = "pending" /\ job[j].attempts < MaxAttempts)
            ~> job[j].status \in {"completed", "failed"}

\* "Idempotently requeue an authorized failed job" (docs/api.md:29): a job that was
\* requeued is attempted again.
RequeuedIsAttempted ==
    \A j \in Jobs : job[j].status = "pending" ~> job[j].status = "processing"
-----------------------------------------------------------------------------
(***************************************************************************)
(* The inductive invariant behind the safety properties above.             *)
(***************************************************************************)

\* Writing stages: the attempt may still send vector requests or complete.
Writing == Working \cup {"finish"}

\* An active worker runs an attempt its row has begun, and no two workers run the
\* same attempt of the same job.
AttemptsAreDistinct ==
    /\ \A w \in Workers : worker[w].stage \in Active =>
          /\ worker[w].job \in Jobs
          /\ worker[w].attempt \in 1 .. Row(w).attempts
    /\ \A v, w \in Workers :
          v # w /\ worker[v].stage \in Active /\ worker[w].stage \in Active
          /\ worker[v].job = worker[w].job => worker[v].attempt # worker[w].attempt

\* While it still owns the row, an attempt past _replace_chunks finds its own chunks.
OwnChunksStand ==
    \A w \in Workers :
        worker[w].stage \in {"embed", "delete", "upsert", "finish"} /\ Row(w).owner = w
            => chunks[worker[w].job] = worker[w].attempt

\* Since its delete was applied, and unless another delete was, every batch an attempt
\* has upserted is in the index.
OwnUpsertsStand ==
    \A w \in Workers :
        worker[w].stage \in {"upsert", "finish"} =>
            /\ worker[w].stage = "finish" => worker[w].batch = Batches + 1
            /\ wiper[worker[w].job] = worker[w].attempt =>
                  1 .. worker[w].batch - 1 \subseteq index[worker[w].job]

\* An attempt that may still write has not completed its job already.
WritersHaveNotCompleted ==
    \A w \in Workers : worker[w].stage \in Writing =>
        ~(Row(w).status = "completed" /\ Row(w).attempts = worker[w].attempt)

\* A stray request belongs to an attempt that will not write or complete any more.
StraysAreOver ==
    \A r \in stray :
        /\ r.attempt <= job[r.job].attempts
        /\ ~(job[r.job].status = "completed" /\ job[r.job].attempts = r.attempt)
        /\ \A w \in Workers : worker[w].stage \in Writing /\ worker[w].job = r.job
                                => worker[w].attempt # r.attempt

\* All of it together is preserved by every step (proved in IngestionProofs).
InductiveInvariant ==
    /\ TypeOK
    /\ RowsAgree
    /\ AttemptsAreDistinct
    /\ OwnerRunsCurrentAttempt
    /\ OwnChunksStand
    /\ CompletedChunksAreCurrent
    /\ OwnUpsertsStand
    /\ WritersHaveNotCompleted
    /\ StraysAreOver
    /\ CompletedIndexIsWhole
=============================================================================

--------------------------- MODULE IngestionJobs ---------------------------
(***************************************************************************)
(* The PostgreSQL rows of ingestion: one ingestion_jobs row per document,  *)
(* the status of that document, and what one short transaction may do to   *)
(* them (IngestionJobRepository and the *_internal callers).  A document   *)
(* and its job are one element of Jobs: the code keeps exactly one job per *)
(* document (unique document_id).                                          *)
(*                                                                         *)
(* Time.  lease_expires_at and next_retry_at are instants; the module      *)
(* keeps the DISTANCE from the present to that instant, which Tick         *)
(* shortens.  Every transaction of the code reads `now = self._clock()`    *)
(* first and locks the row later, possibly on a host whose clock is        *)
(* behind, so the `now` it uses is `lag` units old, 0 <= lag <= MaxLag.  A *)
(* distance is kept down to Floor == -MaxLag: below it every reading says  *)
(* the same, and a NULL instant is Floor too (due, or expired, for all).   *)
(***************************************************************************)
EXTENDS Integers

CONSTANTS
    Jobs,           \* the ingestion_jobs rows, one per document
    Workers,        \* worker identities, as written to claimed_by
    NoWorker,       \* claimed_by IS NULL
    MaxAttempts,    \* max_attempts of a row
    LeaseDuration,  \* INGESTION_LEASE_SECONDS
    RetryDelay,     \* INGESTION_RETRY_DELAY_SECONDS
    MaxLag          \* how old the `now` of a transaction may be

ASSUME ConstantsAssumption ==
    /\ NoWorker \notin Workers
    /\ MaxAttempts \in Nat \ {0}
    /\ LeaseDuration \in Nat \ {0}
    /\ RetryDelay \in Nat
    /\ MaxLag \in Nat

Floor == -MaxLag
Lags  == 0 .. MaxLag

Status == {"pending", "processing", "completed", "failed"}

JobRow == [
    status   : Status,              \* ingestion_jobs.status
    document : Status,              \* documents.status
    attempts : 0 .. MaxAttempts,    \* attempt_count <= max_attempts
    progress : {0, 50, 100},        \* progress_percent
    owner    : Workers \cup {NoWorker},     \* claimed_by
    lease    : Floor .. LeaseDuration,      \* lease_expires_at
    retry    : Floor .. RetryDelay]         \* next_retry_at

\* The row an accepted upload inserts: pending, never attempted, due at once.
NewRow == [status |-> "pending", document |-> "pending", attempts |-> 0, progress |-> 0,
           owner |-> NoWorker, lease |-> Floor, retry |-> Floor]

-----------------------------------------------------------------------------
(* The WHERE clauses, for a transaction whose `now` is lag units old. *)

\* claim_next_internal.  Its ORDER BY is a preference only: SKIP LOCKED passes
\* over any row another claim, recovery or retry holds at that moment.
Claimable(r, lag) ==
    /\ r.status = "pending"
    /\ r.attempts < MaxAttempts
    /\ r.retry <= -lag

\* Mutant: recovery passes over rows without an attempt left.
ExpiredWithAttempts(r, lag) ==
    r.status = "processing" /\ r.lease <= -lag /\ r.attempts < MaxAttempts

\* lock_expired_leases_internal
Expired(r, lag) == r.status = "processing" /\ r.lease <= -lag

\* Mutant: any unexpired lease will do.
OwnedByAnyone(r, w, lag) == r.status = "processing" /\ r.lease > -lag

\* get_owned_processing_internal
Owned(r, w, lag) == r.status = "processing" /\ r.owner = w /\ r.lease > -lag

-----------------------------------------------------------------------------
(* What the transactions write. *)

ClearLease(r) == [r EXCEPT !.owner = NoWorker, !.lease = Floor]

\* Mutant: the claim does not count the attempt.
ClaimedUncounted(r, w, lag) ==
    [status |-> "processing", document |-> "processing", attempts |-> r.attempts,
     progress |-> 0, owner |-> w, lease |-> LeaseDuration - lag, retry |-> Floor]

\* claim_next_internal
Claimed(r, w, lag) ==
    [status |-> "processing", document |-> "processing", attempts |-> r.attempts + 1,
     progress |-> 0, owner |-> w, lease |-> LeaseDuration - lag, retry |-> Floor]

\* _renew_lease, and the same assignment at the end of _replace_chunks
Renewed(r, lag) == [r EXCEPT !.lease = LeaseDuration - lag]

\* Another attempt, after the retry delay.
Requeued(r, lag) ==
    [ClearLease(r) EXCEPT !.status = "pending", !.document = "pending",
                          !.progress = 0, !.retry = RetryDelay - lag]

\* No further attempt; progress_percent keeps the value the attempt reached.
Terminated(r) ==
    [ClearLease(r) EXCEPT !.status = "failed", !.document = "failed", !.retry = Floor]

\* Mutant: retryable failures are requeued whatever attempt_count says.
AfterFailureUncounted(r, retryable, lag) ==
    IF retryable THEN Requeued(r, lag) ELSE Terminated(r)

\* _complete_failure; recover_expired_leases treats expiry as a retryable failure
AfterFailure(r, retryable, lag) ==
    IF retryable /\ r.attempts < MaxAttempts THEN Requeued(r, lag) ELSE Terminated(r)

\* Mutant: the document is forgotten.
AfterSuccessJobOnly(r) ==
    [ClearLease(r) EXCEPT !.status = "completed", !.progress = 100, !.retry = Floor]

\* _complete_success
AfterSuccess(r) ==
    [ClearLease(r) EXCEPT !.status = "completed", !.document = "completed",
                          !.progress = 100, !.retry = Floor]

\* Mutant: every job that is not pending already is reset.
AfterRetryOfAny(r) ==
    IF r.status = "pending" THEN r
    ELSE [ClearLease(r) EXCEPT !.status = "pending", !.document = "pending",
                               !.progress = 0, !.retry = Floor]

\* retry_ingestion_job.  A pending job is returned as it is and any other job
\* that has not failed is a conflict; attempt_count is not among the fields reset.
AfterRetryRequest(r) ==
    IF r.status = "failed"
    THEN [ClearLease(r) EXCEPT !.status = "pending", !.document = "pending",
                               !.progress = 0, !.retry = Floor]
    ELSE r

\* One unit of time brings both instants closer.
Closer(d) == IF d > Floor THEN d - 1 ELSE d
Aged(r) == [r EXCEPT !.lease = Closer(@), !.retry = Closer(@)]
=============================================================================

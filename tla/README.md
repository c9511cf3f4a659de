# A verification project for the Agentic RAG platform

TLA+ models of the platform's back end (`apps/api/app`), the TLC runs that check
them on small instances, and theorems that TLAPS proves for every instance. Paths
below are relative to the repository; `services/`, `db/`, `ingestion/`,
`retrieval/`, `security/`, `cli/` and `workers/` are directories of
`apps/api/app`.

- [1. Inventory](#1-inventory)
- [2. The modules and the code](#2-the-modules-and-the-code)
- [3. What the runs check](#3-what-the-runs-check)
- [4. Fairness](#4-fairness)
- [5. What is proved](#5-what-is-proved)
- [6. Findings and observations](#6-findings-and-observations)
- [7. Not modelled](#7-not-modelled)
- [8. Plan](#8-plan)
- [9. Running it](#9-running-it)

## 1. Inventory

Users upload documents into knowledge bases. An upload leaves a file in local
storage and two PostgreSQL rows, a document and an ingestion job. Worker processes
claim jobs, parse and chunk the file, store the chunks in PostgreSQL, embed them
and write the vectors to Chroma, which is a derived index that can be rebuilt. A
retrieval combines PostgreSQL full-text search with a Chroma query and answers only
with chunks PostgreSQL still vouches for.

| Component | State | Operations |
|---|---|---|
| job rows (`db/models/knowledge.py`, `db/repositories/knowledge.py`) | `ingestion_jobs` row (status, attempt count, owner, lease, next retry) and the document's status | claim, renew, recover, complete, fail, retry |
| ingestion processing (`services/ingestion_processing.py`) | position in `process_next`, the claimed attempt; tasks for the heartbeat, the running operation and the watch for a lost lease | recovery, claim, the stages of one attempt, success, failure |
| vector rebuild (same file, and `workers/ingestion_worker.py`) | list of documents still to do, position in one of them | rebuild one document or a knowledge base |
| worker process (`workers/ingestion_worker.py`) | stop event, the main task and the task of its operation, adapters to close | start, poll loop, `--once`, rebuild commands, stop, shutdown |
| vector store (`ingestion/vector_store.py`) | the Chroma collection | `delete_by_document`, `upsert` |
| knowledge intake (`services/knowledge_intake.py`) | transactions of one request, the file it owns | upload, retry, create, list |
| file storage (`ingestion/storage.py`) | files under temporary and final names | `store`, `delete`, `read` |
| access policy (`security/authorization.py`) | none; `knowledge_base_memberships` rows | `require_capability` |
| operator commands (`cli/security.py`) | an advisory lock while a claim runs | bootstrap a user, claim legacy knowledge bases |
| accounts and sessions (`security/authentication.py`, `security/passwords.py`) | `users`, `user_sessions`, the threads of the Argon2 executor | login, authenticate, CSRF check, logout |
| hybrid retrieval (`retrieval/hybrid.py`, `service.py`, `postgres.py`) | candidates of one request, a read-only snapshot | four phases, rank fusion |
| dense client (`retrieval/chroma.py`) | a shared compatibility probe; for each response the bytes counted, the inflater and the depth scanner | query, probe, close, `_bounded_json_body` |
| embeddings (`ingestion/embeddings.py`) | the response it is reading | `embed`, with the same bounded reader |
| parsers (`ingestion/document_parsing.py`) | none | text files, PDF pages |
| normaliser (`ingestion/text_normalization.py`) | the fragments and their spans | `normalize` |
| chunker (`ingestion/chunking.py`) | loop variables | `chunk`, page numbers of a chunk |
| evidence projection, configuration, logging, HTTP surface, web front end, scripts | none that outlives a call | see section 7 |

How they interact, and what is hard about it:

- **Workers and workers.** They share job rows, chunk rows and the index. Each
  transaction is short and takes row locks (`FOR UPDATE SKIP LOCKED`), but an attempt
  is a sequence of many, with slow calls between them. Leases expire under running
  workers; clocks differ between hosts; a process may die anywhere; a COMMIT may take
  place without its reply arriving.
- **Workers and Chroma.** Chroma knows no leases. A request whose sender gave it up
  (timeout, cancellation, crash) may be applied later.
- **Rebuilds and workers.** A rebuild holds no lease and no lock; only the status
  `completed`, which nothing leaves, keeps it apart from ingestion. It may fail for one
  document and go on, or end without a result: stopped, by another exception, or by death.
- **Tasks of one attempt.** The processing task, the operation it waits for, the task
  that watches the lease and the heartbeat cancel and join each other, while a stop
  request may cancel the first of them at any await.
- **The main task and its operation.** The worker waits for an operation and for a stop
  at once; it must join what it cancels before it closes what the operation uses, while an
  interrupt may cancel the main task as well.
- **Uploads and uploads.** Two requests with the same content look for a duplicate
  before either commits. File and rows have no common commit.
- **Requests and cancellation.** asyncio cancels a coroutine, never the thread or the
  server it waits for.
- **Queries and queries.** The first queries of one adapter share a probe. Any of them
  may be cancelled while it waits, the probe may be, and `close()` may come at any await.
- **Readers and the network.** A response arrives in pieces that cut strings, escapes and
  compressed data anywhere; the limits must hold before the whole is known.
- **Logins and password changes.** A hash is verified outside of any transaction.
- **Claims and claims.** `INSERT ... SELECT ... WHERE NOT EXISTS` reads what is
  committed, so two of them can see the same knowledge bases without owner.
- **Retrieval and everything else.** Session, membership, document status and chunks
  may all change while the providers work.

What makes each component correct:

- *Ingestion:* job and document agree after every transaction; an attempt that lost
  its job writes no PostgreSQL state; a completed document has the chunks and vectors
  of the attempt that completed it and is final; a job with attempts left is decided.
- *Rebuild:* touches no document ingestion may still be processing; its result names every
  document it has left without its vectors.
- *Worker process:* tasks are joined before anything is recorded or closed; every adapter
  that was constructed is closed exactly once on every path, and so is the engine if any was;
  a stop ends the process.
- *Intake:* one document per content and knowledge base; files follow documents; only
  members record documents; no request waits for ever.
- *Claims:* only what nobody owns is given away; no deadlock.
- *Sessions:* a session is issued on the current password only; a rehash never
  restores an old password; a logout is final; the executor's threads come free again.
- *Retrieval:* the answer is that of one instant after the providers' work; the order
  respects both sources.
- *Dense client:* one probe at a time; a cancellation takes nobody else with it; nothing is
  sent after `close()`; every query ends; the verdict on a body does not depend on how it
  was cut, and a small compressed body does not fill the memory.
- *Text:* parsing, normalising and chunking lose nothing, refuse only what has no text,
  cite the right pages, stay within size and overlap, and end.

`PROJECT.json` lists every component, the hazards at their lines, and, for every
definition, the lines it translates.

## 2. The modules and the code

```
IngestionJobs      rows, WHERE clauses, assignments      (no variables)
   |
IngestionProcessing  workers, chunks, index    ---implements--->  JobLifecycle
   |                 every worker      ---implements--->  AttemptStages
VectorRebuild  <---  IngestionProofs

LeasedAttempt      asyncio tasks of one attempt ---implements---> AttemptStages
   |
WorkerProcess  <---  WorkerProofs

AccessControl      roles and capabilities                (no variables)
   |                  \
KnowledgeIntake        LegacyClaim  <---  AccountProofs  --->  AccountSessions
   |
IntakeProofs

RankFusion         exact scores and the sort key         (no variables)
   |
HybridRetrieval  <---  RetrievalProofs

CompatibilityProbe  <---  DenseClientProofs  --->  BoundedBody

Chunking           the chunk loop
   |
DocumentText       parser and normaliser in front of it
   |
TextProofs
   |
DataLemmas         numbers, finite sets, sequences: also under RetrievalProofs, DenseClientProofs
```

An arrow points from a module of proofs to what it is about; a line leads down to a module
that extends the one above (`TextProofs` extends both `DocumentText` and `DataLemmas`).

**IngestionJobs.** A job and its document are one record, since `document_id` is
unique. The WHERE clauses are operators on a row (`Claimable`, `Expired`, `Owned`)
and the groups of assignments are functions from row to row (`Claimed`, `Renewed`,
`AfterFailure`, `AfterSuccess`, `AfterRetryRequest`). Instants are kept as distances
from the present, which `Tick` shortens; a transaction's `now` may be up to `MaxLag`
old, because it is read before the row is locked and possibly on another host. A
distance is not counted below `-MaxLag`: every reading then says "over", as it does
for NULL.

**IngestionProcessing.** `worker[w].stage` is where `process_next` stands.

| Action | Code |
|---|---|
| `RecoverExpiredLeases`, `ClaimNext`, `NothingClaimed` | one poll: `recover_expired_leases` on whatever expired rows it could lock, `_claim_next` |
| `Prepare` | `_read_and_verify_source`, `_parse_and_chunk` |
| `ReplaceChunks` | `_replace_chunks`: ownership, rows, progress 50, renewed lease, one transaction |
| `Embed` | `_embed_chunks` |
| `DeleteByDocument`, `Upsert` | `_replace_vectors` |
| `CompleteSuccess`, `CompleteFailure` | `_complete_success`, `_complete_failure` |
| `StageFails` | an exception or a stop request, classified by `_classify_failure` |
| `LoseLease` | `LeaseLostError`, from an ownership check or the heartbeat |
| `RenewLease` | the heartbeat's `_renew_lease` |
| `Abandon` | crash, database error of the heartbeat, or a failure transition that itself fails |
| `ApplyStray`, `DropStray` | Chroma applies, or never receives, a request given up |
| `RetryIngestionJob` | `POST /ingestion-jobs/{id}/retry` |

`chunks[j]` is the attempt whose chunk rows are stored. `index[j]` is the set of
upsert batches Chroma holds: vector ids derive from chunk ids, which derive from the
content, so that two attempts write the same records and only deletes do harm.
`wiper[j]` is a history variable: whose delete was applied last. In two transactions
the reply to COMMIT may be lost, and the worker then records a failure of what has
happened.

**JobLifecycle** is the abstract specification: one document, attempted at most
`MaxAttempts` times, one attempt at a time, completed by the attempt whose chunks are
stored, then final. It mentions no worker, lease, clock or index. `IngestionProcessing`
implements it under the mapping that forgets everything but status, attempt count and
stored chunks.

**LeasedAttempt** is what `process_next` does after a claim, one level down. `at` is the
await where the processing task stands, and an action of `Processing` is its run from
there to the next await.

| Action | Code |
|---|---|
| `Start`, `Guard` | the heartbeat's start; `_with_lease` up to `asyncio.wait` |
| `StageReturns`, `StageInterrupted` | `asyncio.wait` returns, or is cancelled |
| `WorkJoined`, `WatchJoined` | the two joins under `suppress(CancelledError)` |
| `Unwound` | the `gather` of the `finally`; then the next stage or an `except` branch |
| `ChunksReplaced` | `_replace_chunks`, which runs outside of `_with_lease` |
| `StopHeartbeat`, `HeartbeatStopped`, `Handle` | `heartbeat.stop()` and what follows it, in the body and in each branch |
| `SuccessCompleted`, `FailureCompleted` | the two final transactions |
| `BeginWork`, `EndWork`, `EndWatch`, `Beat`, `Renew`, `EndHeartbeat` | the other tasks |
| `Cancel` | `processing.cancel()` of `_await_until_stopped` |

`Task.cancel()` of a task that awaits another task cancels the other one; otherwise the
CancelledError is thrown at the await (`pending`). That rule is the heart of the model:
`Forwarded` says where a cancellation is passed on, and finding F2 is what comes of it.
What rows, vectors and other workers do meanwhile is left to `IngestionProcessing`, where
the same attempt is one worker; **AttemptStages** is the control of such a worker.
The four tasks together are proved to implement it, and so is every worker of
`IngestionProcessing`.

**WorkerProcess** extends `LeasedAttempt` with the process around it. `driver` is where the
main task stands in `production_runtime`, `run_worker` and `_await_until_stopped`; `proc`
is the task of the operation it waits for.

| Action | Code |
|---|---|
| `Build`, `Initialize` | adapters one by one (a failure leaves the later ones unbuilt; one of the first comes before the `try` and leaves the process with no close at all), `service.initialize()` |
| `OperationEnds`, `PollAgain` | `asyncio.wait` returns with the operation's end; the idle wait |
| `RequestStop`, `StopSeen`, `OperationJoined` | a signal; the operation is cancelled and joined |
| `CancelMain` | a cancellation of the main task, at each of its awaits |
| `CloseModel`, `CloseStore`, `DisposeEngine` | the nested `finally` clauses, each of which may raise |
| `BeginProc`, `Recover`, `ClaimNothing`, `ClaimJob`, `Rebuild` | the operation outside of an attempt |

`ClaimJob` starts the variables of `LeasedAttempt` anew: a process runs any number of
attempts, one after the other. `Paused` says that from the claim's reply to the attempt's
first await nothing else runs.

**VectorRebuild** extends `IngestionProcessing` with rebuild commands. `rebuild[r].failures`
is the command's own list, which becomes its `RebuildResult`.

| Action | Code |
|---|---|
| `StartKnowledgeBaseRebuild`, `StartDocumentRebuild` | the snapshot of the knowledge base; the command for one document, which has none |
| `LoadDocument`, `RefuseDocument` | the second read of a document (`_load_rebuild_document`), and its refusal of a listed one |
| `EmbedRecords`, `RebuildDelete`, `RebuildUpsert` | `_records_for_chunks`, `delete_by_document`, one upsert per batch |
| `RebuildFails` | an expected failure: the document is listed, the next one is taken |
| `FinishRebuild` | the result is returned |
| `InterruptRebuild` | a stop request (exit code 130), any other exception, death of the process: no result |

Two history variables follow the deletes. `rebuildWiper[j]` is the running command whose delete
was applied last; `vouched` holds the documents whose last deleting command has ended with a result
that does not name them.

**AccessControl** is the table of roles and capabilities, with the refusals (404 for
what the caller may not know of, 403 for a role that does not suffice).

**KnowledgeIntake** is `upload_document`: `Authorize` (first transaction), `Publish`
or `StoreFails` or `StoreCancelled` (`LocalFileStorage.store`), `RejectContent`,
`LockTarget` to `Commit` (second transaction, which holds the knowledge base's and the
membership's row locks), `ResolveConflict` (the `IntegrityError` handler), `CleanUp`
(the `finally`). `RollBack`, `CommitUnanswered`, `CleanUpFails` and `Die` are what may
go wrong at each place. A deletion may itself raise: of the published file in the `finally`
(`CleanUpFails`), of the temporary one in `store` (`StoreFails`, answered as unavailable).
`undeleted` is a history variable: the uploads whose file the code tried to delete and could not.

**LegacyClaim** is the operator's claim beside knowledge bases that users create:
row lock on the new owner, advisory lock, one `INSERT ... SELECT` whose reading
(`SelectEligible`) and whose visibility (`CommitClaim`) are two steps. Users are
`Principals` there, because its proofs stand in one module with those of the sessions.

**AccountSessions** is login in its two transactions around the Argon2 work
(`ObserveUser`, `StartWork`, `FinishWork`, `CommitLogin`), and a request's life with a
session (`ReadSession`, `Touch`, `ValidateCsrf`, `ReadToRevoke`, `Revoke`). Each of its three
checks selects the session row anew; the user may be the one the request already holds, so
that a deactivation in between is seen by the next request at the latest (`CheckedAgain`). A thread of
the executor stays occupied when its login is given up. A hash is modelled by its
password, whether its parameters are outdated, and its salt: two hashes of the same
password differ as strings, and the comparison in the second transaction is one of
strings.

**RankFusion** and **HybridRetrieval.** Scores are fractions, as in the code, with the
sort key compared component by component. `QueryDense` may return any chunks
at any positions, stale or of another knowledge base, repeated, or entries that are dropped
one by one and leave a gap in the ranks (`DenseRanks`); `FindKeyword` any match within its
scope. `BeginFinal` fixes the snapshot of the REPEATABLE READ transaction.
`current` is a history variable: the database states since the providers answered.

**CompatibilityProbe** is `_ensure_compatible`, `_probe`, `query` and `close` of the dense
client. A probe is a task of its own and has its own states; a query waits for it behind
`asyncio.shield`. The bodies of `_probe_lock` await nothing, so an action is what a task does
from one await to the next: the end of a probe (`ProbeEnds`), the resumption of each waiter
(`Resume`, `Interrupt`) and a `close()` in between are separate steps. `CancelProbe` is a
cancellation from outside, as at the end of the event loop, once. A probe may also end with an
exception that is no `DenseProviderError` ("crashed"), which nobody clears.

**BoundedBody** is `_bounded_json_body` with `_JsonDepthScanner`, and the same reader of
`embeddings.py`, which has no scan (`body.scanned`). `Receive` takes a piece of any size;
`Inflate` is one turn of the loop around `decompress(part, limit)`, modelled by what zlib
promises: at most `limit` characters, the input it did not look at, and output it still owes;
`EndOfBody` is the flush and the final tests. The reference (`Acceptable`) knows nothing of
pieces: sizes of the whole, quotes paired by counting backslashes, brackets paired by depth.

**Chunking.** One step is one turn of the `while` loop of `DeterministicChunker.chunk`.
Offsets are the code's. A character is its class: letter, stop, the two blanks, newline, the
byte order mark, and white space that is none of the boundaries. `_skip_whitespace` and
`_trim_trailing_whitespace` are relations, `_select_end` picks the last boundary of the
first kind that has one.

**DocumentText** puts parser and normaliser in front of that loop. `Parse` gives sections or
refuses; `Normalize` is `TextNormalizer.normalize`. Its line-by-line loop is stated by what
stays of each section (`Stays`), in its order (`InOrder`): no white space at either end, no blanks at the end of a
line, at most one blank line in a row; fragments are joined by two newlines, whose spans
`Offsets` computes. `PageNumbers` looks the pages of a chunk up in these spans.

Definitions marked *Mutant* in the modules are variations of the operator that follows
them, as a plausible mistake would make it. They take no part in the specifications;
`PROJECT.json` says which property notices which mutant.

## 3. What the runs check

| Run | Instance | Properties |
|---|---|---|
| `ingestion_safety` | 1 document, 2 workers, 2 rebuilds, 3 attempts, 2 batches, 1 stray | `RowsAgree`, `OwnerRunsCurrentAttempt`, `CompletedChunksAreCurrent`, `CompletedIndexIsWhole`, `RebuildOnlyWhereIngestionIsOver`, `RebuildResultNamesLosses`, `CompletedIsFinal`, `ChunksOfCurrentAttemptOnly`, `ImplementsLifecycle` |
| `ingestion_progress` | 1 document, 2 workers, 2 attempts, fair | `JobsAreDecided` |
| `retry_after_last_attempt` | as `ingestion_progress` | violation, finding F1 |
| `worker_process` | any number of attempts, 2 cancellations, 1 of the main task, fair | `JoinedBeforeRecorded`, `LostLeaseNeverCompletes`, `ClosedOnceAfterUse`, `CancelledStageIsTheLast`, `ImplementsStages`, `ProcessEnds` |
| `swallowed_cancellation` | 1 attempt, 1 cancellation | violation, finding F2 |
| `uploads` | 2 uploads, 1 caller, 2 knowledge bases, 2 contents, fair | `LookUpStands`, `AnsweredWithItsContent`, `FilesFollowDocuments`, `RecordedByMembers`, `UploadsEnd` |
| `legacy_claims` | 3 operators, 2 users, 3 knowledge bases of which 2 are old, fair | `ClaimsOnlyUnowned`, `ClaimsEnd` |
| `sessions` | 2 logins, 2 requests, 2 passwords, 1 thread, 1 tick, fair logins | `LogoutIsFinal`, `IssuedOnCurrentPassword`, `RehashKeepsThePassword`, `LoginsEnd` |
| `retrieval_one_instant` | 4 chunks in 3 documents, replies of up to 3 entries, 2 changes | `AnswersOneInstant`, `FusionRespectsBothSources` |
| `compatibility_probe` | 4 queries, 1 probe cancelled from outside, fair | `SingleProbe`, `CancellationStaysLocal`, `NothingAfterClose`, `QueriesEnd` |
| `bounded_body` | plain bodies up to 6 characters, gzip up to 4 bytes that inflate to up to 3 each, limits of 5, depth 2 | `VerdictIgnoresCuts`, `MemoryBounded` |
| `document_text` | text files up to 4 characters, PDFs up to 3 pages, normalised texts up to 6, sizes up to 4, every overlap, fair | `NothingLost`, `ChunksFit`, `DocumentKept`, `PagesAreTheirs`, `ChunkingEnds` |

What each run shows is the `about` of `PROJECT.json`; what each property means stands above
it in its module.

Why these bounds are enough to see what the properties are about:

- *Ingestion.* Two workers and three attempts: one worker can be left over from an attempt
  that was recovered while the other runs the next, and recovery both requeues and fails.
  Two batches separate a begun index from a whole one. One stray is a late delete or upsert of
  an old attempt, of a rebuild or of a failed stage. A lease of 2 with a lag of 1 has a time
  at which one worker sees it over and another does not. Two rebuilds of the document are
  the smallest conflict between rebuilds. Documents share only workers, and the theorems
  cover any number of documents, workers and strays (section 5): recovery of several rows,
  and a worker that leaves one document for another.
- *Worker process.* Two cancellations of an attempt are a stop request and an interrupt
  during the stop; the second can meet every place the first one leads to. One of them may
  have come through the main task. The heartbeat may beat any number of times and the
  process may claim any number of jobs.
- *Uploads.* Every property, every lock and the unique index relate two requests; the
  second knowledge base and the second content give pairs that must *not* be treated as
  duplicates.
- *Claims.* Three operators with two users give two claims for one user beside one for
  the other, so the row lock and the advisory lock are both contended. Two old knowledge
  bases and one created meanwhile.
- *Sessions.* Two logins meet in the rehash; one of them meets a reset. Two requests are
  a touch and a logout of one session. One thread makes the other login wait; one tick
  expires a session with `TTL = 1`. `MaxSalt` bounds how often an operator sets a hash:
  once after the hash that a login has observed.
- *Retrieval.* Chunks of two documents of the target and of a foreign one; a batch size
  of one, so that a load always takes several statements; two changes, one before and one
  during the load. A reply of three has a repeated or dropped entry before, between and
  after others. `RrfK = 60` is the code's constant.
- *Probe.* Each query makes at most one probe. Four of them are a first caller, a waiter
  behind it that is resumed late, a second probe, and a waiter behind that one.
- *Bodies.* A limit of five is met by the wire, by the text and by inflated output that zlib
  still owes; six characters hold a string with an escaped quote inside of a bracket; two
  levels of nesting are exceeded by three. Every way of cutting a body is a behaviour.
- *Text.* Four raw characters hold a newline, blank lines and a mark between two others; a
  page of one character or none between two pages is dropped with its span. Normalised texts
  of six characters with windows of up to four contain up to six chunks, boundaries of every
  kind in the second part of a window, and white space on both sides of a cut. The proofs
  need neither these nor the bounds.

Bounds of the models themselves are constants: `MaxStray`, `MaxLag`, `MaxTime`,
`MaxSalt`, `MaxChanges`, `MaxCancels`; those of the instances `MaxRaw`, `MaxPages`,
`MaxLength`, `MaxSize`, `MaxPlain`, `MaxCompressed`. `mainCancelled` and `torn` allow one
cancellation each.

Deadlock checking is on for ingestion and rebuilds, whose processes never stop, and for the
worker process and the probe, whose only rest is `Exited` and `Finished`. It is off where the
system may stop: every upload answered, every operator done with nothing left to change, the
clock at its bound, the retrieval answered, the body judged, the loop left.

## 4. Fairness

- *Ingestion* (`FairSpec` of `IngestionProcessing`). Time passes. A worker that polls or
  holds a job keeps being scheduled until the attempt ends one way or another (weak
  fairness). Row locks are held for one short transaction, so a row that is due again
  and again is not skipped at every poll (strong fairness per row). Crashes, heartbeats,
  late requests and retries are owed nothing, and failing or losing the lease is always
  among the ways a worker step may go.
- *Worker process* (`WorkerSpec`). The event loop runs what can run: the main task, the
  operation, the processing task, the tasks it started. The calls of a stage end, since
  their clients have timeouts; adapters close; the database is assumed to answer the
  processing task and a rollback. A renewal may hang for ever and a beat may never come, and
  nobody owes the process a stop request. `ProcessEnds` therefore asks for the end of a
  process only once it was asked to stop or runs a single command.
- *Uploads.* FastAPI has received and spooled the body before the handler runs, so the
  rest of a request is the server's own work: weak fairness on it, none on failure,
  cancellation, crash or revocation. That `UploadsEnd` holds under weak fairness means
  that no step waits for a lock that may stay taken: with two requests a lock once free
  stays free until the waiting one takes it or ends.
- *Claims.* PostgreSQL queues lock requests, so an advisory lock that becomes free
  again and again is granted (strong fairness); a granted claim runs on (weak fairness).
  Nobody owes the command a start.
- *Sessions.* A thread that runs a job is done with it some day, also when its login was
  given up; the executor's queue is first in, first out, so that a queued job gets a thread
  when one stays free; a verified login reaches its second transaction. Requests are owed
  nothing.
- *Probe.* The event loop resumes waiters and `close()`; a request ends at its deadline. Calls,
  cancellations and `close()` itself are owed nothing.
- *Text.* The chunk loop runs.

## 5. What is proved

Eight modules of proofs are checked by TLAPS to the last leaf. The assumptions are those on
the constants, and TLC evaluates each of them in the runs:

| Assumption | Says |
|---|---|
| `ConstantsAssumption` | `NoWorker` is no worker; attempts and lease are positive; retry delay and lag are natural numbers |
| `ProcessingAssumption` | `NoJob` is no job; there is at least one batch |
| `RebuildersAssumption` | `NoRebuilder` is no rebuild command |
| `CancelAssumption` | the number of cancellations of an attempt is a natural number |
| `IntakeAssumption` | `None` is no upload |
| `LegacyAssumption` | old knowledge bases are knowledge bases; `Nobody` is no operator |
| `SessionsAssumption`, `NoneAssumption` | bounds of the constants; `None` is no session row |
| `FusionAssumption` | `RRF_K` and the largest rank of a source are positive |
| `RetrievalAssumption` | chunk ids are finitely many positive numbers, in the order of the UUIDs; each belongs to a document; bounds are positive; the keyword bound is no larger than the largest rank |
| `ProbeAssumption` | `None` is no query |
| `BodyAssumption` | without compression a byte is one character; limits are positive, and the wire limit is at most the decoded limit (1 and 2 MiB for Chroma, 2 MiB each for embeddings) |
| `ChunkingAssumption` | texts are sequences of characters |
| `SourcesAssumption` | a source is a text file, which the parser gives one section, or a PDF with any number of pages of any characters; `NoPage` is no page number |

**Ingestion**, for any documents, workers, attempts, batches, durations and lag:

| Theorem | Says |
|---|---|
| `InvariantHolds` | `InductiveInvariant` holds in every reachable state |
| `TypesHold` | every variable keeps its type, and `attempt_count` its bound |
| `RowsAlwaysAgree`, `LeaseFences`, `CompletedChunks`, `CompletedIndex` | the parts of it that `ingestion_safety` checks |
| `ChunksFollowTheRow`, `CompletedStays` | the two action properties |
| `Refinement` | `Spec => ImplementsLifecycle` |
| `StagesInOrder` | every worker implements `AttemptStages` |

The argument: an attempt is known by its number. Only a claim increments
`attempt_count`, and it needs a pending row, which has no owner; so two workers on one
document run different attempts (`AttemptsAreDistinct`), and the worker named in
`claimed_by` runs the newest one (`OwnerRunsCurrentAttempt`), although the row carries
no fencing token. Neither is inductive alone: that a claim finds no running attempt of
the new number needs the bound on all running attempts, and that nothing but the owner
may write chunks needs `RowsAgree` to know that a pending row has no owner. For the
index there is no ownership check, and the invariant speaks of `wiper` instead:
the batches an attempt has upserted stand as long as no other delete came after its own
(`OwnUpsertsStand`), which needs to know that strays belong to attempts that are over
(`StraysAreOver`) and that an attempt which still writes has not completed the job
(`WritersHaveNotCompleted`).

**Rebuilds**, for any number of commands beside any number of workers (`RSpec`):
`CompletedIndexBesideRebuilds`, `RebuildsAvoidIngestion`, `RebuildLossesAreNamed`,
`CompletedStaysBesideRebuilds`, `RefinementBesideRebuilds`. The invariant of ingestion
survives the commands because their requests run under attempt number 0, which is nobody's
(a completed document was attempted, `CompletedByAnAttempt`). A command touches only completed
documents, which stay completed (`RewritesCompleted`). A running one whose delete was the last has
restored the index, is about to, with the batches up to its own in place, or has the document
on its list of failures (`Accounted`); so a result that does not name the document is given only
when the index is whole, and it stays whole until the next delete (`VouchedAreWhole`). Nothing is
said of a command that is interrupted, nor of a late delete, which takes the index from whoever
wrote it.

**The tasks of an attempt, and the worker process**, for any number of cancellations and of
attempts (`WorkerSpec`):

| Theorem | Says |
|---|---|
| `ProcessInvariantHolds` | `ProcessInvariant` holds in every reachable state |
| `ResourcesAreClosed` | every adapter that was built, and the engine if any was, is closed once, after everything that uses it |
| `TasksAreJoinedInProcess`, `NoSuccessWithoutLeaseInProcess` | nothing is recorded beside a running operation or heartbeat, and no attempt completes that saw its lease lost |
| `InterruptionsEndAttempts` | a cancellation that meets a stage ends the attempt |
| `ProcessImplementsStages` | the four tasks together are one sequential worker, attempt after attempt |

Each place of the processing task says which other tasks may still run (`Places`,
`JoinedBeforeRecorded`); the heartbeat is over before the lease is judged, so that a commit
cannot be followed by a loss (`Decided`); and a cancellation that met a stage travels from
place to place in `raising`, which nothing on the way replaces (`Interruption`). These are
proved of one attempt by itself first (`Spec` of `LeasedAttempt`; `AttemptInvariantHolds` and
the theorems after it). For the process, `Resting` says that an attempt is under way only while
the main task waits for the operation or joins it, and `Ledger` which of the
constructed adapters have been closed at which place of the main task (none at an exit before
the first of them, section 6); neither follows from the other, since what closes an adapter is
the main task and what uses it the attempt.

**Uploads**, for any requests, callers, knowledge bases and contents: `LookUpAlwaysStands`,
`AnswersCarryTheContent`, `FilesAlwaysFollow`, `OnlyMembersRecord`. From its second look-up to
its commit a request holds the row locks of the knowledge base and of the membership; whoever
commits a document holds the same lock, so that what a look-up has found still stands at the
commit. For the files, the place where a request stands says whether its file is unpublished,
its own to delete, or a document's, and a file that outlives a request without a document has a
failed deletion or a cancelled `store` to its name.

**Claims**, for any operators, users and knowledge bases: `ClaimsFailClosed`. What a claim has
selected stays without owner until it commits: another claim would need the advisory lock, and
a user's own creation makes a knowledge base that did not exist before.

**Accounts and sessions**, for any logins, requests and users: `LogoutsAreFinal`,
`SessionsOnCurrentPasswords`, `RehashesKeepPasswords`. A login carries the row it observed,
and its second transaction compares the hash with it; a session row, once it has `revoked_at`,
keeps it, though a touch that read the row earlier may still be on its way.

**The compatibility probe**, for any set of queries: `AtMostOneProbe`,
`NothingSentAfterClose`, `CancellationIsLocal`. The inductive invariant (`ProbeInvariant`)
names the only probe that can be live: the one in flight while the adapter is open, and the one
`close()` joins afterwards (`Known`). It is kept because whoever forgets a probe has seen that
very probe end (`Clear`, which compares before it clears), and because a caller creates a
probe only when none is in flight. That a query is cancelled by its own caller, by `close()`
or with a probe cancelled from outside needs one fact more (`CancelledByFew`): nobody else
asks for the cancellation of a probe, which is what the shield is for.

**The bounded reader**, for any bodies, limits and cuts (`BodySpec`): `BodyInvariantHolds`,
`MemoryStaysBounded`, `CutsMakeNoDifference`. The invariant says that the text decoded, with
what zlib still owes, is that of the bytes so far, scanned as if in one piece, and that a body
is refused only for a beginning of it that has to be (`ReadWhole`). The rest is about the
scanner by itself: it refuses exactly what the reference `Acceptable` refuses, which speaks of
quotes after an even number of backslashes and of pairs of brackets. A quote delimits a string
iff the scanner is not in an escape there (`DelimitersAre`), and the scanner's containers
are the brackets still open, one on each level (`Levels`, `AfterFollows`).

**Retrieval**, for any chunks, documents, bounds and changes beside the request:
`RetrievalInvariantHolds`, `EveryAnswerIsOneInstant`, `FusionKeepsBothOrders`. The snapshot is
one of the states since the providers answered (`SnapshotIsCurrent`), and what has been loaded
is, with the eligible part of the batches still to come, all that is wanted
(`LoadedFromSnapshot`): that is what makes the answer one of a single instant, whatever is
committed between two batches. For the order, the sort key is a strict total order
(`PrecedesOrders`: exact fractions, then the ranks, then the chunk), so that the place of a record is
the number of those before it and no place is taken twice (`Ranking`); and a record both
sources rank at least as high comes first because neither of its terms is less
(`BothSourcesPrecede`).

**Chunking**, for any set of texts (normalised or not) and any admitted size and overlap:
`ChunkTypes`, `NoTextLost`, `AllChunksFit`. They are about the loop by itself (`Spec` of
`Chunking`). The inductive invariant (`IInv`) adds to the properties that every character before
`next_start` which is not white space is already in a chunk, and how `next_start` lies to the
last chunk: after its start and at most `overlap` before its end. `ChunkFound` shows on the way
that a turn which finds text always appends a chunk: `_select_end` never returns a position
at or before the start, and the first character is not white space.

**Documents**, for any sources, with any number of pages of any length (`DocumentSpec`):

| Theorem | Says |
|---|---|
| `DocumentInvariantHolds` | the inductive invariant `DocumentIInv` |
| `DocumentsAreKept` | normalisation keeps every sign of every section, in order, and adds none; what is refused as empty has none; what is accepted has a chunk |
| `PagesAreRight` | the page numbers of a chunk are those of the pages its signs come from |
| `NothingOfDocumentsLost`, `ChunksOfDocumentsFit` | the properties of the chunk loop, with parser and normaliser in front of it |

The invariant says that the loop is not entered before the text is normalised; that from then on
the invariant of the loop holds, the text is the fragments laid end to end with two newlines
between them, the spans are their offsets, lengths and pages, and there is a fragment
(`Normalized`); and that a document refused as empty has no sign. Three lines of argument
meet in it:

- *What a step of the normaliser keeps.* The places of the signs of a text are listed in
  increasing order, and there is one such list for a set of numbers (`EnumerationIsUnique`).
  Hence a selection that leaves out no sign leaves the signs what they were
  (`SelectionKeepsSigns`): the byte order mark, the carriage returns, and what `Stays` drops.
- *What joining keeps.* The signs of a flattened sequence are the flattened signs of its
  pieces (`PickedFlattened`), newlines are none, and leaving out the sections without a fragment
  leaves out nothing (`FlattenSkips`). The lemma is stated for any tags the characters carry, so that
  it also says which section each sign comes from (`NormalizedSigns`).
- *Where joining puts it.* `LaidOut` places every fragment at its offset, with newlines only
  between. A chunk that meets a span holds a character of that page that is no white space:
  its own first or last character, if one of them lies in the span, or else the whole fragment,
  which was kept because it has one. And a sign of a chunk lies in the span of its page
  (`PagesBringSigns`, `SignsBringPages`).

`DocumentIInv` was checked by TLC on the instance of `document_text` before it was proved.

**Numbers, sets and sequences** (`DataLemmas`). The induction theorems of the library take an
operator, which the provers cannot instantiate. The lemmas here speak of sets and functions
instead, and rest on the least number of a set (`Least`, `Induction`): the place of a member
in a strict order (`Ranking`), lists in increasing order (`AscendingEnumerates`), folds as
recursions (`FoldGrows`, `FoldExists`), and `FlattenSeq` piece by piece (`FlattenGrows`). What a
recursive definition computes is proved where such a lemma exists, and nowhere else.

Only model-checked: all liveness, since TLAPS does not do fairness.

## 6. Findings and observations

Disagreements between the repository's own words and its code, each with a run:

- **F1, a retry that is never attempted** (`retry_after_last_attempt`).
  `docs/api.md:29` describes the retry endpoint as "Idempotently requeue an authorized
  failed job". A job that failed because its attempts ran out is set to `pending` with
  `attempt_count` unchanged, and `claim_next_internal` takes only rows with
  `attempt_count < max_attempts`. The job stays pending for ever, and a further retry
  returns it as it is.
- **F2, a stop request that is swallowed** (`swallowed_cancellation`).
  `docs/architecture.md:221` says "Cancellation is propagated after the worker releases its
  claim through a short state transition". `_with_lease` joins the watching task, which it
  has just cancelled, under `suppress(CancelledError)`. asyncio passes a cancellation of
  the processing task that arrives at this await on to the watching task, where it comes
  back as the very error that is suppressed. `process_next` then runs all remaining stages
  and completes the document; the worker stops afterwards only (`ProcessEnds` holds all the
  same). The joins of a lost lease's operation and of the heartbeat swallow a cancellation
  in the same way.
Met while modelling, and stated in the properties or in comments:

- The docstring of `production_runtime` says "Create external adapters and close every
  resource on all exit paths" (`workers/ingestion_worker.py:184`). `OllamaEmbeddingModel` is
  constructed before the `try`, and its constructor refuses what `Settings` lets pass, a model
  id of blanks for one (`ingestion/embeddings.py:258`): no `finally` clause runs and
  `dispose_engine` is not called (the first disjunct of `Build`). The pool holds no connection
  yet and the process ends, so nothing is lost; `ClosedOnceAfterUse` says of the engine only
  that it is disposed of where an adapter was constructed.
- A unit test is named
  `test_lost_lease_prevents_persistence_and_external_index_writes`
  (`apps/api/tests/unit/test_ingestion_processing.py:877`). Persistence is fenced (proved).
  The index is fenced as far as the heartbeat has noticed: `_replace_vectors` does not look
  at the row, so a worker whose lease ran out between two beats still deletes and upserts.
  `CompletedIndexIsWhole` names a later delete, of another attempt or of a rebuild, as the
  only way a completed document loses vectors; the next rebuild restores them.
- A rebuild that is stopped, meets an exception outside of `_EXPECTED_REBUILD_FAILURES` or dies
  after a delete leaves a completed document without its vectors, and nothing names that
  document: there is no `RebuildResult`, and no row says which rebuild was under way
  (`InterruptRebuild`). The same holds for a delete that was given up, reported, and is applied
  after a later rebuild has returned. Only the next rebuild finds out.
- `docs/retrieval-security-acceptance.md:1560` says that failure or cancellation of a probe
  clears the in-flight state. If every waiter was cancelled before the probe failed, the
  ended probe stays in `_probe_task` until the next query finds it, fails with it and clears
  it (`CallJoining`). A probe that ended with any exception but `DenseProviderError` is not
  cleared at all (`Learn`): every later query of that adapter meets the same exception. The
  application makes an adapter for each request, so neither has a consequence there.
- A unit test is named `test_upload_cancellation_after_publish_removes_all_files`; it
  cancels inside `_persist_upload`. While `os.replace` runs in its thread
  (`ingestion/storage.py:127`) a cancellation ends the coroutine, the thread finishes the
  rename, and nobody owns the published file: the third case of `StoreCancelled`, which
  `FilesFollowDocuments` names as an exception.
- A cancellation during the COMMIT of `_complete_success` may find the job completed, and
  one during an `except` branch replaces the failure that was being recorded; in both
  cases the row is decided by its own transaction or by the expiry of its lease.
- Two uploads of one content never meet in the unique index: `get_upload_target_for_user`
  locks the knowledge base's row, so the second look-up already sees the first document
  (`LookUpStands`). The `IntegrityError` handler serves other constraints only.
- When a COMMIT takes place and its reply is lost, the `finally` of `upload_document`
  deletes the file of a committed document. `FilesFollowDocuments` names this as the only
  way a document loses its file.
- Two logins that both find an outdated hash: the second to commit is refused although
  its password is right, since the first one changed the string it compares.
- Keyword and dense candidates together may exceed the final bound, and the request then
  fails as unavailable: 128 keyword candidates and four times a requested count of 17 or
  more, if the sources do not overlap.
- The branch of the chunk loop for an empty window (`end_offset <= start_offset`) is never
  taken, and "Chunking produced no durable text" is never raised for a text the normaliser
  accepted (`DocumentKept`). With white space longer than the overlap after a cut, a chunk may lie wholly
  within the one before it.

## 7. Not modelled

- *Listing endpoints, evidence projection, schemas, error envelopes, configuration,
  logging:* no state that a property could be about.
- *Migrations and sessions of the database:* constraints appear in the models of the
  rows they protect.
- *Web front end, scripts, container files:* clients and start-up.
- *Within modelled parts:* checks of a single value that keep no state and either pass or
  raise: path confinement and bounded reads of the storage, validation of vectors and of
  Chroma's metadata, records and payload fields, the grammar of JSON beyond its nesting (the
  standard library's), the media type and suffix a parser is looked up by. The PDF library is
  any text per page or an error. Token counts, hashes, timing of the password check, signal
  handlers and exit codes are left out. These are the parts that keep vector store, storage,
  embeddings and the HTTP surface at "partly".

A session revoked between the CSRF check and the transaction of the service does not
stop that operation; the design authorises an operation when its request is.

## 8. Plan

Every part of the back end that keeps state over an await, a transaction or a loop has its
module, and every invariant and every action property the runs check is a theorem; liveness is
model-checked. What could be added, most useful first:

1. **Refusals of single values.** The checks of embeddings, vector records and request schemas
   as operators with a reference definition: they keep no state, so only their boundaries are
   of interest.

Modules with theorems, and those they use, have no RECURSIVE operator; `RankFusion` and
`Chunking` are written with sets and quantifiers for that reason.

## 9. Running it

```
tlc -config MCIngestionSafety.cfg MCVectorRebuild
tlc -config MCWorkerProcess.cfg WorkerProcess
tlapm IngestionProofs.tla
tlapm WorkerProofs.tla
tlapm IntakeProofs.tla
tlapm AccountProofs.tla
tlapm DenseClientProofs.tla
tlapm RetrievalProofs.tla
tlapm DataLemmas.tla
tlapm TextProofs.tla
```

`PROJECT.json` names module and configuration of every run. Each takes at most two or three
minutes on two cores.

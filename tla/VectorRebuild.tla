--------------------------- MODULE VectorRebuild ---------------------------
(***************************************************************************)
(* The rebuild commands beside running ingestion: rebuild_knowledge_base   *)
(* lists the documents once, skips the ones not completed, and for each of *)
(* the others rebuild_document reads its chunks, deletes its vectors and   *)
(* upserts them again.  Rebuilders write the same Chroma index as workers, *)
(* hold no lease, and do not know of each other.                           *)
(***************************************************************************)
EXTENDS IngestionProcessing

CONSTANTS
    Rebuilders,     \* rebuild commands that may run at the same time
    NoRebuilder     \* the last delete was not a rebuild's

ASSUME RebuildersAssumption == NoRebuilder \notin Rebuilders

VARIABLES
    rebuild,        \* rebuild[r]: where command r stands, and the failures it has listed
    rebuildWiper,   \* history: the running command whose delete was applied last, if any
    vouched         \* history: documents whose last delete was a command's that has ended
                    \* with a result, and that this result does not name

rebuildVars == <<rebuild, rebuildWiper, vouched>>
allVars == <<vars, rebuildVars>>

\* todo: listed and not yet looked at.  failures: the documents RebuildResult will name.
IdleRebuild == [stage |-> "idle", todo |-> {}, job |-> NoJob, batch |-> 1, failures |-> {}]

RInit ==
    /\ Init
    /\ rebuild = [r \in Rebuilders |-> IdleRebuild]
    /\ rebuildWiper = [j \in Jobs |-> NoRebuilder]
    /\ vouched = {}

NotCompleted(S) == {j \in S : job[j].status # "completed"}

\* rebuild_knowledge_base: the status snapshot.  Documents that are not completed are
\* listed as failures and skipped.
StartKnowledgeBaseRebuild(r, S) ==
    /\ rebuild[r].stage = "idle"
    /\ rebuild' = [rebuild EXCEPT ![r] =
          [IdleRebuild EXCEPT !.stage = "next", !.todo = S \ NotCompleted(S),
                              !.failures = NotCompleted(S)]]
    /\ UNCHANGED <<vars, rebuildWiper, vouched>>

\* rebuild_document asked for by the command line: no snapshot comes before its own read.
StartDocumentRebuild(r, j) ==
    /\ rebuild[r].stage = "idle"
    /\ rebuild' = [rebuild EXCEPT ![r] = [IdleRebuild EXCEPT !.stage = "asked", !.job = j]]
    /\ UNCHANGED <<vars, rebuildWiper, vouched>>

\* Mutant: the second read checks the chunks only.
RebuildReadyByChunks(j) == chunks[j] # 0

\* What _load_rebuild_document requires of the status and of the chunks.
RebuildReady(j) == job[j].status = "completed" /\ chunks[j] # 0

\* _load_rebuild_document: reads the document again, and its chunks.
LoadDocument(r, j) ==
    /\ \/ rebuild[r].stage = "asked" /\ rebuild[r].job = j
       \/ rebuild[r].stage = "next" /\ j \in rebuild[r].todo
    /\ RebuildReady(j)
    /\ rebuild' = [rebuild EXCEPT ![r].todo = @ \ {j}, ![r].stage = "embed", ![r].job = j]
    /\ UNCHANGED <<vars, rebuildWiper, vouched>>

\* RebuildNotReadyError or RebuildLimitError for a listed document, which max_chunks and
\* legacy chunks raise for a ready one too.  (Raised for the document of a command of its
\* own, they are a way of InterruptRebuild.)
RefuseDocument(r, j) ==
    /\ rebuild[r].stage = "next" /\ j \in rebuild[r].todo
    /\ rebuild' = [rebuild EXCEPT ![r].todo = @ \ {j}, ![r].failures = @ \cup {j}]
    /\ UNCHANGED <<vars, rebuildWiper, vouched>>

\* _records_for_chunks
EmbedRecords(r) ==
    /\ rebuild[r].stage = "embed"
    /\ rebuild' = [rebuild EXCEPT ![r].stage = "delete"]
    /\ UNCHANGED <<vars, rebuildWiper, vouched>>

\* wiper 0: the delete belongs to no attempt
RebuildDelete(r) ==
    /\ rebuild[r].stage = "delete"
    /\ Apply(rebuild[r].job, 0, 0)
    /\ rebuildWiper' = [rebuildWiper EXCEPT ![rebuild[r].job] = r]
    /\ vouched' = vouched \ {rebuild[r].job}
    /\ rebuild' = [rebuild EXCEPT ![r].stage = "upsert", ![r].batch = 1]
    /\ UNCHANGED <<job, chunks, worker, stray>>

RebuildUpsert(r) ==
    /\ rebuild[r].stage = "upsert"
    /\ Apply(rebuild[r].job, 0, rebuild[r].batch)
    /\ rebuild' = IF rebuild[r].batch = Batches
                  THEN [rebuild EXCEPT ![r].stage = "next", ![r].job = NoJob, ![r].batch = 1]
                  ELSE [rebuild EXCEPT ![r].batch = @ + 1]
    /\ UNCHANGED <<job, chunks, worker, stray, rebuildWiper, vouched>>

\* The command stops waiting for its request: lost, or left behind.
LeaveRequest(r) ==
    \/ UNCHANGED stray
    \/ /\ rebuild[r].stage \in {"delete", "upsert"}
       /\ Cardinality(stray) < MaxStray
       /\ stray' = stray \cup
            {[job |-> rebuild[r].job, attempt |-> 0,
              op |-> IF rebuild[r].stage = "delete" THEN 0 ELSE rebuild[r].batch]}

\* Mutant: the failure of a document that is still completed is not listed.
RebuildFailsSilently(r) ==
    /\ rebuild[r].stage \in {"embed", "delete", "upsert"}
    /\ rebuild' = [rebuild EXCEPT ![r].stage = "next", ![r].job = NoJob, ![r].batch = 1]
    /\ LeaveRequest(r)
    /\ UNCHANGED <<job, chunks, index, wiper, worker, rebuildWiper, vouched>>

\* An embedding or vector failure (_EXPECTED_REBUILD_FAILURES) is listed for the document,
\* and the command goes on with the next one.
RebuildFails(r) ==
    /\ rebuild[r].stage \in {"embed", "delete", "upsert"}
    /\ rebuild' = [rebuild EXCEPT ![r].stage = "next", ![r].job = NoJob, ![r].batch = 1,
                                  ![r].failures = @ \cup {rebuild[r].job}]
    /\ LeaveRequest(r)
    /\ UNCHANGED <<job, chunks, index, wiper, worker, rebuildWiper, vouched>>

\* The run is over, and so is its claim on the documents it deleted last.
EndRebuild(r) ==
    /\ rebuild' = [rebuild EXCEPT ![r] = IdleRebuild]
    /\ rebuildWiper' = [j \in Jobs |-> IF rebuildWiper[j] = r THEN NoRebuilder
                                                              ELSE rebuildWiper[j]]

\* The RebuildResult is returned and logged; it decides the exit code.
FinishRebuild(r) ==
    /\ rebuild[r].stage = "next" /\ rebuild[r].todo = {}
    /\ EndRebuild(r)
    /\ vouched' = vouched \cup {j \in Jobs : rebuildWiper[j] = r /\ j \notin rebuild[r].failures}
    /\ UNCHANGED vars

\* A command that is stopped (exit code 130), meets any other exception, or whose process
\* dies gives no result: what it has listed is gone, and nobody is told.
InterruptRebuild(r) ==
    /\ rebuild[r].stage # "idle"
    /\ EndRebuild(r)
    /\ LeaveRequest(r)
    /\ UNCHANGED <<job, chunks, index, wiper, worker, vouched>>

\* The documents whose vectors the step of ingestion deletes.
Deleted == {j \in Jobs : wiper'[j] # wiper[j] \/ (index'[j] = {} /\ index[j] # {})}

\* Ingestion goes on, and a delete applied by it (or left behind by a rebuild that
\* gave it up) takes the index from the rebuild that wrote it.
IngestionStep ==
    /\ Next
    /\ rebuildWiper' = [j \in Jobs |-> IF j \in Deleted THEN NoRebuilder ELSE rebuildWiper[j]]
    /\ vouched' = vouched \ Deleted
    /\ UNCHANGED rebuild

RNext ==
    \/ IngestionStep
    \/ \E r \in Rebuilders :
         \/ \E S \in SUBSET Jobs : StartKnowledgeBaseRebuild(r, S)
         \/ \E j \in Jobs :
              StartDocumentRebuild(r, j) \/ LoadDocument(r, j) \/ RefuseDocument(r, j)
         \/ EmbedRecords(r) \/ RebuildDelete(r) \/ RebuildUpsert(r)
         \/ RebuildFails(r) \/ FinishRebuild(r) \/ InterruptRebuild(r)

RSpec == RInit /\ [][RNext]_allVars

-----------------------------------------------------------------------------
(* Correctness. *)

\* "Rebuild completed documents without racing active ingestion work": from the second
\* read of the document to the last upsert, however long that takes, no worker's attempt
\* owns the document that a rebuild deletes and rewrites.
RebuildOnlyWhereIngestionIsOver ==
    \A r \in Rebuilders :
        rebuild[r].stage \in {"embed", "delete", "upsert"} =>
            /\ job[rebuild[r].job].status = "completed"
            /\ job[rebuild[r].job].owner = NoWorker

\* "Partial external failures are reported": a rebuild that ends with a result names every
\* document it has left without its vectors, even with other rebuilds, late upserts and
\* failed batches in between.  While the delete applied last is a running command's, an
\* incomplete index is being written by that command or the document is on its list of
\* failures; once the command has returned its result, a document it does not name is
\* whole until the next delete.  A command that is interrupted promises nothing.
RebuildResultNamesLosses ==
    \A j \in Jobs : index[j] # AllBatches =>
        /\ j \notin vouched
        /\ \A r \in Rebuilders : rebuildWiper[j] = r =>
              \/ rebuild[r].stage = "upsert" /\ rebuild[r].job = j
              \/ j \in rebuild[r].failures
=============================================================================

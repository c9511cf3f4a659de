--------------------------- MODULE KnowledgeIntake ---------------------------
(***************************************************************************)
(* KnowledgeIntakeService.upload_document: an upload is checked in one     *)
(* transaction, streamed to local storage outside of any transaction, and  *)
(* recorded in a second transaction that checks the caller again.  The two *)
(* stores have no common commit, so the code keeps them together by hand:  *)
(* the file of an upload that records no document is deleted.              *)
(*                                                                         *)
(* Any step may fail or be cancelled, the process may die, the reply to a  *)
(* COMMIT may be lost, and a membership may be withdrawn while the file is *)
(* being stored.  An upload stands for its request and for the document id *)
(* and the storage key the request draws, which are its alone.             *)
(***************************************************************************)
EXTENDS AccessControl, FiniteSets

CONSTANTS
  Uploads,          \* upload requests
  Principals,       \* authenticated callers
  KnowledgeBases,
  Digests,          \* SHA-256 digests of the contents
  None              \* no document, no lock holder

ASSUME IntakeAssumption == None \notin Uploads

VARIABLES
  role,       \* role[p][k]: the membership row of principal p, or NoRole
  lock,       \* lock[k]: the upload holding k and its caller's membership FOR UPDATE
  documents,  \* uploads whose Document and IngestionJob rows are committed
  inserted,   \* uploads whose rows are flushed but not committed
  temporary,  \* uploads with a file under its temporary name
  files,      \* uploads with a file under its storage key
  undeleted,  \* history: uploads whose file the code tried to delete, and could not
  upload      \* upload[u]: the request, its place in the code, and its answer

vars == <<role, lock, documents, inserted, temporary, files, undeleted, upload>>

NoUpload == [at |-> "idle", who |-> None, kb |-> None, digest |-> None,
             answer |-> "none", document |-> None]

Init ==
  /\ role \in [Principals -> [KnowledgeBases -> Roles]]
  /\ lock = [k \in KnowledgeBases |-> None]
  /\ documents = {}
  /\ inserted = {}
  /\ temporary = {}
  /\ files = {}
  /\ undeleted = {}
  /\ upload = [u \in Uploads |-> NoUpload]

--------------------------------------------------------------------------
\* The current membership of an upload's caller.
RoleOf(u) == role[upload[u].who][upload[u].kb]

\* get_upload_target_for_user and require_capability in u's transaction.
MayUpload(u) == MayDo(RoleOf(u), "document_upload")

SameContent(u, v) == upload[u].kb = upload[v].kb /\ upload[u].digest = upload[v].digest

\* Mutant: the look-up forgets the knowledge base.
DuplicatesAnywhere(u) == {v \in documents : upload[u].digest = upload[v].digest}

\* get_by_digest_for_user: the committed document of this content, if any.
Duplicates(u) == {v \in documents : SameContent(u, v)}

\* What a unique index on (knowledge_base_id, sha256) is checked against: an
\* insertion waits for the end of another one of the same key.
Contending(u) == {v \in inserted : SameContent(u, v)}

Unlocked(k) == [lock EXCEPT ![k] = None]
Released(u) == IF lock[upload[u].kb] = u THEN Unlocked(upload[u].kb) ELSE lock

Moves(u, place) == upload' = [upload EXCEPT ![u].at = place]

Unwinds(u, answer) ==
  upload' = [upload EXCEPT ![u].at = "unwinding", ![u].answer = answer]

Answers(u, answer, document) ==
  upload' = [upload EXCEPT ![u].at = "answered", ![u].answer = answer,
                           ![u].document = document]

--------------------------------------------------------------------------
\* The first transaction: it locks the target, checks the caller and ends.  A
\* refused request has written no file.
Authorize(u, p, k, d) ==
  /\ upload[u].at = "idle"
  /\ lock[k] = None
  /\ LET allowed == MayDo(role[p][k], "document_upload") IN
       /\ upload' = [upload EXCEPT ![u] =
            [at       |-> IF allowed THEN "storing" ELSE "answered",
             who      |-> p, kb |-> k, digest |-> d,
             answer   |-> IF allowed THEN "none" ELSE Refusal(role[p][k]),
             document |-> None]]
       /\ temporary' = IF allowed THEN temporary \cup {u} ELSE temporary
  /\ UNCHANGED <<role, lock, documents, inserted, files, undeleted>>

\* store: the file is complete and synced before it gets its own name.
Publish(u) ==
  /\ upload[u].at = "storing"
  /\ temporary' = temporary \ {u}
  /\ files' = files \cup {u}
  /\ Moves(u, "published")
  /\ UNCHANGED <<role, lock, documents, inserted, undeleted>>

\* The stream is empty, too large, or the disk fails: the temporary file is
\* unlinked.  The unlink may raise as well, and its OSError replaces whatever was
\* under way.  This happens before upload_document owns a file.
StoreFails(u) ==
  /\ upload[u].at = "storing"
  /\ \/ /\ temporary' = temporary \ {u}
        /\ \E answer \in {"invalid", "unavailable", "failed"} : Answers(u, answer, None)
        /\ undeleted' = undeleted
     \/ /\ temporary' = temporary
        /\ Answers(u, "unavailable", None)
        /\ undeleted' = undeleted \cup {u}
  /\ UNCHANGED <<role, lock, documents, inserted, files>>

\* The request is cancelled while it waits for a file operation, which its thread
\* completes all the same: the unlink may come before the open, or after the
\* replace, and upload_document never learns that the file has got its name.
StoreCancelled(u) ==
  /\ upload[u].at = "storing"
  /\ \/ temporary' = temporary \ {u} /\ files' = files
     \/ temporary' = temporary /\ files' = files
     \/ temporary' = temporary \ {u} /\ files' = files \cup {u}
  /\ Answers(u, "cancelled", None)
  /\ UNCHANGED <<role, lock, documents, inserted, undeleted>>

\* _validate_content: the stored prefix does not fit the media type.
RejectContent(u) ==
  /\ upload[u].at = "published"
  /\ Unwinds(u, "invalid")
  /\ UNCHANGED <<role, lock, documents, inserted, temporary, files, undeleted>>

\* Mutant: without FOR UPDATE.
LockTargetReadOnly(u) ==
  /\ upload[u].at = "published"
  /\ IF MayUpload(u) THEN Moves(u, "locked") ELSE Unwinds(u, Refusal(RoleOf(u)))
  /\ UNCHANGED <<role, lock, documents, inserted, temporary, files, undeleted>>

\* Mutant: the second transaction trusts the first one's check.
LockTargetTrusting(u) ==
  /\ upload[u].at = "published"
  /\ lock[upload[u].kb] = None
  /\ lock' = [lock EXCEPT ![upload[u].kb] = u]
  /\ Moves(u, "locked")
  /\ UNCHANGED <<role, documents, inserted, temporary, files, undeleted>>

\* The second transaction takes the row locks.  A caller who lost the
\* membership or the capability meanwhile is refused.
LockTarget(u) ==
  /\ upload[u].at = "published"
  /\ lock[upload[u].kb] = None
  /\ IF MayUpload(u)
       THEN /\ lock' = [lock EXCEPT ![upload[u].kb] = u]
            /\ Moves(u, "locked")
       ELSE /\ lock' = lock
            /\ Unwinds(u, Refusal(RoleOf(u)))
  /\ UNCHANGED <<role, documents, inserted, temporary, files, undeleted>>

\* Mutant: deletes the storage key of the existing document.
AnswerDuplicateDeletesExisting(u) ==
  /\ upload[u].at = "locked"
  /\ \E v \in Duplicates(u) :
       /\ files' = files \ {v}
       /\ lock' = Released(u)
       /\ Answers(u, "duplicate", v)
  /\ UNCHANGED <<role, documents, inserted, temporary, undeleted>>

\* The content is known: the new file goes, the existing document is returned.
AnswerDuplicate(u) ==
  /\ upload[u].at = "locked"
  /\ \E v \in Duplicates(u) :
       /\ files' = files \ {u}
       /\ lock' = Released(u)
       /\ Answers(u, "duplicate", v)
  /\ UNCHANGED <<role, documents, inserted, temporary, undeleted>>

\* The look-up found nothing.
FindNoDuplicate(u) ==
  /\ upload[u].at = "locked"
  /\ Duplicates(u) = {}
  /\ Moves(u, "absent")
  /\ UNCHANGED <<role, lock, documents, inserted, temporary, files, undeleted>>

\* Document and job are flushed.  An INSERT waits for a contending one.
Insert(u) ==
  /\ upload[u].at = "absent"
  /\ Contending(u) = {}
  /\ Duplicates(u) = {}
  /\ inserted' = inserted \cup {u}
  /\ Moves(u, "flushed")
  /\ UNCHANGED <<role, lock, documents, temporary, files, undeleted>>

\* IntegrityError: the transaction is rolled back and its locks are gone.  The
\* content's unique index raises it for a duplicate, but any other constraint
\* on the two rows raises it just as well.
InsertViolates(u) ==
  /\ upload[u].at = "absent"
  /\ Contending(u) = {}
  /\ lock' = Released(u)
  /\ Moves(u, "conflicted")
  /\ UNCHANGED <<role, documents, inserted, temporary, files, undeleted>>

\* COMMIT, with the reply that says so.
Commit(u) ==
  /\ upload[u].at = "flushed"
  /\ documents' = documents \cup {u}
  /\ inserted' = inserted \ {u}
  /\ lock' = Released(u)
  /\ Answers(u, "created", u)
  /\ UNCHANGED <<role, temporary, files, undeleted>>

\* COMMIT is done but the caller never learns of it: the connection is lost, or
\* the request is cancelled while it waits for the reply.
CommitUnanswered(u) ==
  /\ upload[u].at = "flushed"
  /\ documents' = documents \cup {u}
  /\ inserted' = inserted \ {u}
  /\ lock' = Released(u)
  /\ Unwinds(u, "unavailable")
  /\ UNCHANGED <<role, temporary, files, undeleted>>

\* Mutant: the session keeps its transaction open.
RollBackLater(u) ==
  /\ upload[u].at \in {"published", "locked", "absent", "flushed", "conflicted"}
  /\ inserted' = inserted \ {u}
  /\ Unwinds(u, "unavailable")
  /\ UNCHANGED <<role, lock, documents, temporary, files, undeleted>>

\* A statement fails, or the request is cancelled: the transaction rolls back.
RollBack(u) ==
  /\ upload[u].at \in {"published", "locked", "absent", "flushed", "conflicted"}
  /\ inserted' = inserted \ {u}
  /\ lock' = Released(u)
  /\ Unwinds(u, "unavailable")
  /\ UNCHANGED <<role, documents, temporary, files, undeleted>>

\* The IntegrityError handler: delete the file, then look for the document that
\* won, once more as the caller's current membership allows.
ResolveConflict(u) ==
  /\ upload[u].at = "conflicted"
  /\ lock[upload[u].kb] = None
  /\ files' = files \ {u}
  /\ \/ /\ MayUpload(u)
        /\ \E v \in Duplicates(u) : Answers(u, "duplicate", v)
     \/ /\ MayUpload(u)
        /\ Duplicates(u) = {}
        /\ Unwinds(u, "conflict")
     \/ /\ ~MayUpload(u)
        /\ Unwinds(u, Refusal(RoleOf(u)))
  /\ UNCHANGED <<role, lock, documents, inserted, temporary, undeleted>>

\* upload_document's finally: no result was returned, so the file is deleted.
CleanUp(u) ==
  /\ upload[u].at = "unwinding"
  /\ files' = files \ {u}
  /\ Moves(u, "answered")
  /\ UNCHANGED <<role, lock, documents, inserted, temporary, undeleted>>

\* The deletion itself raises, or the request is cancelled while its thread deletes
\* the file: that error replaces the one under way.
CleanUpFails(u) ==
  /\ upload[u].at = "unwinding"
  /\ Answers(u, "failed", None)
  /\ \/ files' = files \ {u} /\ undeleted' = undeleted
     \/ files' = files /\ undeleted' = undeleted \cup {u}
  /\ UNCHANGED <<role, lock, documents, inserted, temporary>>

\* The process dies: nothing is cleaned up, and the server ends the transaction
\* as it found it, which may have been a COMMIT it had already received.
Die(u) ==
  /\ upload[u].at \notin {"idle", "answered", "dead"}
  /\ \/ documents' = documents
     \/ u \in inserted /\ documents' = documents \cup {u}
  /\ inserted' = inserted \ {u}
  /\ lock' = Released(u)
  /\ Moves(u, "dead")
  /\ UNCHANGED <<role, temporary, files, undeleted>>

\* An operator withdraws or lowers a membership directly in the database, and
\* waits for the locks of a running upload of that principal.
Demote(p, k) ==
  /\ role[p][k] # NoRole
  /\ lock[k] # None => upload[lock[k]].who # p
  /\ \E r \in {Viewer, NoRole} \ {role[p][k]} : role' = [role EXCEPT ![p][k] = r]
  /\ UNCHANGED <<lock, documents, inserted, temporary, files, upload, undeleted>>

--------------------------------------------------------------------------
UploadStep(u) ==
  \/ Publish(u) \/ StoreFails(u) \/ StoreCancelled(u) \/ RejectContent(u) \/ LockTarget(u)
  \/ AnswerDuplicate(u) \/ FindNoDuplicate(u) \/ Insert(u) \/ InsertViolates(u)
  \/ Commit(u) \/ CommitUnanswered(u) \/ RollBack(u)
  \/ ResolveConflict(u) \/ CleanUp(u) \/ CleanUpFails(u)

Next ==
  \/ \E u \in Uploads :
       \/ \E p \in Principals, k \in KnowledgeBases, d \in Digests : Authorize(u, p, k, d)
       \/ UploadStep(u)
       \/ Die(u)
  \/ \E p \in Principals, k \in KnowledgeBases : Demote(p, k)

Spec == Init /\ [][Next]_vars

\* The body has been received before the handler runs, so every step of a request
\* is the server's own: the event loop, its threads and the database get to it.
\* Failure, cancellation, crash and revocation are owed nothing.
Answering(u) ==
  \/ Publish(u) \/ RejectContent(u) \/ LockTarget(u) \/ AnswerDuplicate(u) \/ FindNoDuplicate(u) \/ Insert(u)
  \/ InsertViolates(u) \/ Commit(u) \/ ResolveConflict(u) \/ CleanUp(u) \/ CleanUpFails(u)

FairSpec == Spec /\ \A u \in Uploads : WF_vars(Answering(u))

--------------------------------------------------------------------------
\* What the look-up said stands until the transaction ends: while an upload
\* inserts and commits, no document of its content exists or is about to.  It is
\* the row lock of get_upload_target_for_user that makes it so; the handler of
\* IntegrityError is never needed for two uploads of one content.
LookUpStands ==
  \A u \in Uploads :
    upload[u].at \in {"absent", "flushed"} => Duplicates(u) = {} /\ Contending(u) \subseteq {u}

\* A request answered with a document, new or existing, is answered with the one
\* document that has its content in its knowledge base.
AnsweredWithItsContent ==
  \A u \in Uploads :
    upload[u].answer \in {"created", "duplicate"} => Duplicates(u) = {upload[u].document}

\* Files follow documents.  A document has its file, unless its own request ended
\* without learning that its COMMIT took place: then upload_document's finally
\* deletes the file of a committed document.  And a request that ended without
\* creating a document leaves no file behind, under either name, unless a deletion
\* of that file failed or the request was cancelled inside store.
FilesFollowDocuments ==
  /\ \A u \in documents : u \in files \/ upload[u].answer \in {"unavailable", "failed"}
  /\ \A u \in files \cup temporary : upload[u].at = "answered" =>
       \/ u \in files \ temporary /\ upload[u].answer = "created"
       \/ u \in undeleted
       \/ upload[u].answer = "cancelled"

\* A document is recorded only while the membership of its uploader allows it,
\* however long the file took to store: the second transaction checks again and
\* keeps the membership row locked.
RecordedByMembers ==
  [][\A u \in documents' \ documents : MayUpload(u)]_vars

\* A request admitted to store its file ends: no upload waits for ever for the
\* lock of another one, whatever fails.
UploadsEnd ==
  \A u \in Uploads :
    upload[u].at = "storing" ~> upload[u].at \in {"answered", "dead"}
==========================================================================

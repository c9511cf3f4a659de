----------------------------- MODULE IntakeProofs -----------------------------
(***************************************************************************)
(* What holds of KnowledgeIntake for any uploads, callers, knowledge bases *)
(* and contents.  Two things carry it: from the second look-up to the      *)
(* commit an upload holds the row lock of its knowledge base, so that two  *)
(* of them never record at once; and where a request stands tells whether  *)
(* its file exists.                                                        *)
(***************************************************************************)
EXTENDS KnowledgeIntake, TLAPS

Places == {"idle", "storing", "published", "locked", "absent", "flushed", "conflicted",
           "unwinding", "answered", "dead"}
Outcomes == {"none", "created", "duplicate", "invalid", "unavailable", "failed", "cancelled",
             "conflict", "not_found", "forbidden"}

UploadRow == [at : Places, who : Principals \cup {None}, kb : KnowledgeBases \cup {None},
              digest : Digests \cup {None}, answer : Outcomes, document : Uploads \cup {None}]

IntakeTypes ==
  /\ role \in [Principals -> [KnowledgeBases -> Roles]]
  /\ lock \in [KnowledgeBases -> Uploads \cup {None}]
  /\ documents \subseteq Uploads /\ inserted \subseteq Uploads
  /\ temporary \subseteq Uploads /\ files \subseteq Uploads /\ undeleted \subseteq Uploads
  /\ upload \in [Uploads -> UploadRow]

\* What an upload's own place says of its files and rows.
Local(u) ==
  /\ upload[u].at = "idle" =>
       u \notin files \cup temporary \cup documents \cup inserted /\ upload[u].answer = "none"
  /\ upload[u].at # "idle" => upload[u].who \in Principals /\ upload[u].kb \in KnowledgeBases
  /\ u \in inserted => upload[u].at = "flushed"
  /\ u \in temporary =>
       upload[u].at \in {"storing", "dead"} \/ u \in undeleted \/ upload[u].answer = "cancelled"
  /\ upload[u].at = "storing" => u \notin files
  /\ upload[u].at \in {"published", "locked", "absent", "flushed"} => u \in files
  /\ upload[u].at \in {"storing", "published", "locked", "absent", "flushed", "conflicted"} =>
       u \notin documents /\ upload[u].answer = "none"
  /\ u \in documents => u \in files \/ upload[u].answer \in {"unavailable", "failed"}
  /\ u \in documents /\ upload[u].at = "unwinding" => upload[u].answer = "unavailable"
  /\ u \in files \cup temporary /\ upload[u].at = "answered" =>
       \/ u \in files \ temporary /\ upload[u].answer = "created"
       \/ u \in undeleted
       \/ upload[u].answer = "cancelled"
  /\ u \in undeleted => upload[u].at = "answered"
  /\ upload[u].answer \in {"created", "duplicate", "cancelled"} => upload[u].at = "answered"

\* What it says of the others: the row lock, the membership and the content.
Holding(u) == upload[u].at \in {"locked", "absent", "flushed"}

Shared(u) ==
  /\ Holding(u) => lock[upload[u].kb] = u /\ MayUpload(u)
  /\ upload[u].at \in {"absent", "flushed"} => Duplicates(u) = {}
  /\ upload[u].answer \in {"created", "duplicate"} => Duplicates(u) = {upload[u].document}

OnePerContent == \A u, v \in documents : SameContent(u, v) => u = v

IntakeInvariant ==
  /\ IntakeTypes
  /\ \A u \in Uploads : Local(u) /\ Shared(u)
  /\ OnePerContent

--------------------------------------------------------------------------
\* The invariant holds initially.
LEMMA IntakeInit == ASSUME Init PROVE IntakeInvariant
<1>1. NoUpload \in UploadRow /\ NoUpload.at = "idle" /\ NoUpload.answer = "none"
  BY DEF NoUpload, UploadRow, Places, Outcomes
<1>2. IntakeTypes
  BY <1>1 DEF Init, IntakeTypes
<1>3. \A u \in Uploads : Local(u) /\ Shared(u)
  BY <1>1 DEF Init, Local, Shared, Holding
<1> QED BY <1>2, <1>3 DEF Init, IntakeInvariant, OnePerContent

\* A request goes to its next place.
Becomes(u, place, answer, document) ==
  /\ upload' \in [Uploads -> UploadRow]
  /\ \A v \in Uploads \ {u} : upload'[v] = upload[v]
  /\ upload'[u].at = place /\ upload'[u].answer = answer /\ upload'[u].document = document
  /\ upload'[u].who = upload[u].who /\ upload'[u].kb = upload[u].kb
  /\ upload'[u].digest = upload[u].digest

\* The three ways in which KnowledgeIntake writes the row of a request.
LEMMA Moving ==
  ASSUME IntakeTypes, NEW u \in Uploads
  PROVE  /\ \A place \in Places :
              Moves(u, place) => Becomes(u, place, upload[u].answer, upload[u].document)
         /\ \A answer \in Outcomes :
              Unwinds(u, answer) => Becomes(u, "unwinding", answer, upload[u].document)
         /\ \A answer \in Outcomes, document \in Uploads \cup {None} :
              Answers(u, answer, document) => Becomes(u, "answered", answer, document)
<1>1. upload[u] \in UploadRow /\ upload \in [Uploads -> UploadRow]
  BY DEF IntakeTypes
<1>2. ASSUME NEW place \in Places, NEW answer \in Outcomes, NEW document \in Uploads \cup {None},
             upload' = [upload EXCEPT ![u] = [upload[u] EXCEPT !.at = place, !.answer = answer,
                                                               !.document = document]]
      PROVE  Becomes(u, place, answer, document)
  <2> DEFINE row == [upload[u] EXCEPT !.at = place, !.answer = answer, !.document = document]
  <2>1. /\ row \in UploadRow
        /\ row.at = place /\ row.answer = answer /\ row.document = document
        /\ row.who = upload[u].who /\ row.kb = upload[u].kb /\ row.digest = upload[u].digest
    BY <1>1 DEF UploadRow
  <2> HIDE DEF row
  <2>2. upload' = [upload EXCEPT ![u] = row]
    BY <1>2 DEF row
  <2> QED BY <1>1, <2>1, <2>2 DEF Becomes
<1>3. ASSUME NEW place \in Places, Moves(u, place)
      PROVE  Becomes(u, place, upload[u].answer, upload[u].document)
  <2>1. [upload[u] EXCEPT !.at = place] =
          [upload[u] EXCEPT !.at = place, !.answer = upload[u].answer, !.document = upload[u].document]
    BY <1>1 DEF UploadRow
  <2>2. upload' = [upload EXCEPT ![u] = [upload[u] EXCEPT !.at = place]]
    BY <1>1, <1>3 DEF Moves
  <2>3. upload[u].answer \in Outcomes /\ upload[u].document \in Uploads \cup {None}
    BY <1>1 DEF UploadRow
  <2> QED BY <1>2, <2>1, <2>2, <2>3
<1>4. ASSUME NEW answer \in Outcomes, Unwinds(u, answer)
      PROVE  Becomes(u, "unwinding", answer, upload[u].document)
  <2>1. [upload[u] EXCEPT !.at = "unwinding", !.answer = answer] =
          [upload[u] EXCEPT !.at = "unwinding", !.answer = answer, !.document = upload[u].document]
    BY <1>1 DEF UploadRow
  <2>2. upload' = [upload EXCEPT ![u] = [upload[u] EXCEPT !.at = "unwinding", !.answer = answer]]
    BY <1>1, <1>4 DEF Unwinds
  <2>3. upload[u].document \in Uploads \cup {None} /\ "unwinding" \in Places
    BY <1>1 DEF UploadRow, Places
  <2> QED BY <1>2, <2>1, <2>2, <2>3
<1>5. ASSUME NEW answer \in Outcomes, NEW document \in Uploads \cup {None}, Answers(u, answer, document)
      PROVE  Becomes(u, "answered", answer, document)
  <2>1. upload' = [upload EXCEPT ![u] = [upload[u] EXCEPT !.at = "answered", !.answer = answer,
                                                          !.document = document]]
    BY <1>1, <1>5 DEF Answers
  <2>2. "answered" \in Places BY DEF Places
  <2> QED BY <1>2, <2>1, <2>2
<1> QED BY <1>3, <1>4, <1>5

\* Contents and memberships are those of the same requests afterwards.
LEMMA ContentStays ==
  ASSUME NEW u \in Uploads, NEW place, NEW answer, NEW document, Becomes(u, place, answer, document)
  PROVE  /\ \A v, w \in Uploads : SameContent(v, w)' <=> SameContent(v, w)
         /\ role' = role => \A v \in Uploads : MayUpload(v)' <=> MayUpload(v)
<1>1. \A v \in Uploads : /\ upload'[v].kb = upload[v].kb /\ upload'[v].digest = upload[v].digest
                         /\ upload'[v].who = upload[v].who
  BY DEF Becomes
<1> QED BY <1>1 DEF SameContent, MayUpload, RoleOf

\* A step touches files and rows of its own request only.
Alone(u) ==
  /\ role' = role
  /\ temporary' \subseteq Uploads /\ files' \subseteq Uploads
  /\ documents' \subseteq Uploads /\ inserted' \subseteq Uploads /\ undeleted' \subseteq Uploads
  /\ \A v \in Uploads \ {u} :
       /\ v \in documents' <=> v \in documents
       /\ v \in inserted' <=> v \in inserted
       /\ v \in temporary' <=> v \in temporary
       /\ v \in files' <=> v \in files
       /\ v \in undeleted' <=> v \in undeleted
  /\ lock' \in [KnowledgeBases -> Uploads \cup {None}]
  /\ \A k \in KnowledgeBases : lock'[k] = lock[k] \/ lock[k] \in {u, None}

\* A step that records nothing keeps the invariant if its own request keeps it.
LEMMA OwnStep ==
  ASSUME IntakeInvariant, NEW u \in Uploads, NEW place, NEW answer, NEW document,
         Becomes(u, place, answer, document), Alone(u), documents' = documents,
         Local(u)',
         place \in {"locked", "absent", "flushed"} => lock'[upload[u].kb] = u /\ MayUpload(u),
         place \in {"absent", "flushed"} => Duplicates(u) = {},
         answer \in {"created", "duplicate"} => Duplicates(u) = {document}
  PROVE  IntakeInvariant'
<1>1. IntakeTypes /\ OnePerContent BY DEF IntakeInvariant
<1>2. /\ \A v, w \in Uploads : SameContent(v, w)' <=> SameContent(v, w)
      /\ \A v \in Uploads : MayUpload(v)' <=> MayUpload(v)
  BY ContentStays DEF Alone
<1>3. \A v \in Uploads : Duplicates(v)' = Duplicates(v)
  BY <1>1, <1>2 DEF Duplicates, IntakeTypes
<1>4. IntakeTypes'
  BY <1>1 DEF IntakeTypes, Becomes, Alone
<1>5. OnePerContent'
  BY <1>1, <1>2 DEF OnePerContent, IntakeTypes
<1>6. Shared(u)'
  BY <1>2, <1>3 DEF Shared, Holding, Becomes
<1>7. ASSUME NEW v \in Uploads \ {u} PROVE Local(v)' /\ Shared(v)'
  <2>1. upload'[v] = upload[v] /\ Local(v) /\ Shared(v)
    BY DEF Becomes, IntakeInvariant
  <2>2. Local(v)'
    BY <2>1 DEF Local, Alone
  <2>3. Holding(v)' => lock'[upload[v].kb] = v
    BY <2>1, IntakeAssumption DEF Shared, Holding, Local, Alone
  <2>4. Shared(v)'
    BY <1>2, <1>3, <2>1, <2>3 DEF Shared, Holding
  <2> QED BY <2>2, <2>4
<1> QED BY <1>4, <1>5, <1>6, <1>7 DEF IntakeInvariant

\* A step that records u, which is about to commit, keeps the invariant: whoever else
\* has the same content is not between look-up and commit, and has no document.
LEMMA RecordStep ==
  ASSUME IntakeInvariant, NEW u \in Uploads, NEW place, NEW answer, NEW document,
         Becomes(u, place, answer, document), Alone(u), documents' = documents \cup {u},
         upload[u].at = "flushed", Local(u)',
         place \notin {"locked", "absent", "flushed"},
         answer = "created" => document = u, answer # "duplicate"
  PROVE  IntakeInvariant'
<1>1. IntakeTypes /\ OnePerContent /\ Local(u) /\ Shared(u) BY DEF IntakeInvariant
<1>2. /\ \A v, w \in Uploads : SameContent(v, w)' <=> SameContent(v, w)
      /\ \A v \in Uploads : MayUpload(v)' <=> MayUpload(v)
  BY ContentStays DEF Alone
<1>3. lock[upload[u].kb] = u /\ Duplicates(u) = {}
  BY <1>1 DEF Shared, Holding
<1>4. \A v \in documents : ~SameContent(u, v) /\ ~SameContent(v, u)
  BY <1>3 DEF Duplicates, SameContent
<1>5. IntakeTypes'
  BY <1>1 DEF IntakeTypes, Becomes, Alone
<1>6. OnePerContent'
  BY <1>1, <1>2, <1>4 DEF OnePerContent, IntakeTypes
<1>7. Shared(u)'
  <2>1. SameContent(u, u)' BY DEF SameContent
  <2>2. Duplicates(u)' = {u}
    BY <1>1, <1>2, <1>4, <2>1 DEF Duplicates, IntakeTypes
  <2> QED BY <2>2 DEF Shared, Holding, Becomes
<1>8. ASSUME NEW v \in Uploads \ {u} PROVE Local(v)' /\ Shared(v)'
  <2>1. upload'[v] = upload[v] /\ Local(v) /\ Shared(v)
    BY DEF Becomes, IntakeInvariant
  <2>2. Local(v)'
    BY <2>1 DEF Local, Alone
  <2>3. Holding(v) => lock[upload[v].kb] = v /\ lock'[upload[v].kb] = v
    BY <2>1, IntakeAssumption DEF Shared, Holding, Local, Alone
  <2>4. SameContent(v, u) => ~Holding(v)
    BY <1>3, <2>3 DEF SameContent
  <2>5. upload[v].answer \in {"created", "duplicate"} => ~SameContent(v, u)
    <3>1. SUFFICES ASSUME Duplicates(v) = {upload[v].document}, SameContent(v, u) PROVE FALSE
      BY <2>1 DEF Shared
    <3>2. PICK w \in documents : SameContent(v, w)
      BY <3>1 DEF Duplicates
    <3> QED BY <1>4, <3>1, <3>2 DEF SameContent
  <2>6. ~SameContent(v, u) => Duplicates(v)' = Duplicates(v)
    BY <1>1, <1>2 DEF Duplicates, IntakeTypes
  <2>7. Shared(v)'
    BY <1>2, <2>1, <2>3, <2>4, <2>5, <2>6 DEF Shared, Holding
  <2> QED BY <2>2, <2>7
<1> QED BY <1>5, <1>6, <1>7, <1>8 DEF IntakeInvariant

--------------------------------------------------------------------------
(* The steps of an upload, from the first transaction to the answer. *)

\* A step keeps to its own request if it adds and removes nothing but u.
LEMMA KeepsToItself ==
  ASSUME IntakeTypes, NEW u \in Uploads, role' = role,
         documents' \in {documents, documents \cup {u}},
         inserted' \in {inserted, inserted \cup {u}, inserted \ {u}},
         temporary' \in {temporary, temporary \cup {u}, temporary \ {u}},
         files' \in {files, files \cup {u}, files \ {u}},
         undeleted' \in {undeleted, undeleted \cup {u}},
         \/ lock' = lock
         \/ lock' = Released(u)
         \/ \E k \in KnowledgeBases : lock[k] = None /\ lock' = [lock EXCEPT ![k] = u]
  PROVE  Alone(u)
<1>1. /\ lock' \in [KnowledgeBases -> Uploads \cup {None}]
      /\ \A k \in KnowledgeBases : lock'[k] = lock[k] \/ lock[k] \in {u, None}
  BY DEF IntakeTypes, Released, Unlocked
<1> QED BY <1>1 DEF IntakeTypes, Alone

\* The first transaction gives an idle request its content; nobody has recorded it.
LEMMA AuthorizeStep ==
  ASSUME IntakeInvariant, NEW u \in Uploads, NEW p \in Principals, NEW k \in KnowledgeBases,
         NEW d \in Digests, Authorize(u, p, k, d)
  PROVE  IntakeInvariant'
<1> DEFINE allowed == MayDo(role[p][k], "document_upload")
           row == [at       |-> IF allowed THEN "storing" ELSE "answered",
                   who      |-> p, kb |-> k, digest |-> d,
                   answer   |-> IF allowed THEN "none" ELSE Refusal(role[p][k]),
                   document |-> None]
<1>1. /\ upload[u].at = "idle" /\ upload' = [upload EXCEPT ![u] = row]
      /\ temporary' = IF allowed THEN temporary \cup {u} ELSE temporary
      /\ UNCHANGED <<role, lock, documents, inserted, files, undeleted>>
  BY DEF Authorize
<1>2. IntakeTypes /\ OnePerContent /\ Local(u) /\ Shared(u) BY DEF IntakeInvariant
<1>3. row \in UploadRow /\ row.answer \in {"none", "not_found", "forbidden"}
  BY DEF UploadRow, Places, Outcomes, Refusal
<1>4. /\ allowed => row.at = "storing" /\ row.answer = "none"
      /\ ~allowed => row.at = "answered" /\ row.answer \in {"not_found", "forbidden"}
      /\ row.who = p /\ row.kb = k
  BY DEF Refusal
<1> HIDE DEF row, allowed
<1>5. upload'[u] = row /\ \A v \in Uploads \ {u} : upload'[v] = upload[v]
  BY <1>1, <1>2 DEF IntakeTypes
<1>6. u \notin files \cup temporary \cup documents \cup inserted \cup undeleted
  BY <1>1, <1>2 DEF Local
<1>7. IntakeTypes'
  BY <1>1, <1>2, <1>3 DEF IntakeTypes
<1>8. Local(u)' /\ Shared(u)'
  BY <1>1, <1>4, <1>5, <1>6 DEF Local, Shared, Holding
<1>9. ASSUME NEW v \in Uploads \ {u} PROVE Local(v)' /\ Shared(v)'
  <2>1. upload'[v] = upload[v] /\ Local(v) /\ Shared(v)
    BY <1>5 DEF IntakeInvariant
  <2>2. Local(v)'
    BY <1>1, <2>1 DEF Local
  <2>3. \A w \in documents : w \in Uploads \ {u}
    BY <1>2, <1>6 DEF IntakeTypes
  <2>4. \A w \in documents : SameContent(v, w)' <=> SameContent(v, w)
    BY <1>5, <2>3 DEF SameContent
  <2>5. Duplicates(v)' = Duplicates(v)
    BY <1>1, <2>4 DEF Duplicates
  <2>6. MayUpload(v)' <=> MayUpload(v)
    BY <1>1, <2>1 DEF MayUpload, RoleOf
  <2>7. Shared(v)'
    BY <1>1, <2>1, <2>5, <2>6 DEF Shared, Holding
  <2> QED BY <2>2, <2>7
<1>10. OnePerContent'
  <2>1. \A v \in documents : v \in Uploads \ {u}
    BY <1>2, <1>6 DEF IntakeTypes
  <2> QED BY <1>1, <1>2, <1>5, <2>1 DEF OnePerContent, SameContent
<1> QED BY <1>7, <1>8, <1>9, <1>10 DEF IntakeInvariant

\* Storing the file, up to the second transaction.
LEMMA StoreStep ==
  ASSUME IntakeInvariant, NEW u \in Uploads,
         Publish(u) \/ StoreFails(u) \/ StoreCancelled(u) \/ RejectContent(u)
  PROVE  IntakeInvariant'
<1>1. IntakeTypes /\ Local(u) BY DEF IntakeInvariant
<1>2. Alone(u) /\ documents' = documents
  <2>1. /\ UNCHANGED <<role, lock, documents, inserted>>
        /\ temporary' \in {temporary, temporary \ {u}} /\ files' \in {files, files \cup {u}}
        /\ undeleted' \in {undeleted, undeleted \cup {u}}
    BY DEF Publish, StoreFails, StoreCancelled, RejectContent
  <2> QED BY <1>1, <2>1, KeepsToItself
<1>3. CASE Publish(u)
  <2>1. Becomes(u, "published", upload[u].answer, upload[u].document)
    BY <1>1, <1>3, Moving DEF Publish, Places
  <2>2. Local(u)' /\ upload[u].answer = "none"
    BY <1>1, <1>3, <2>1 DEF Publish, Becomes, Local
  <2> QED BY <1>2, <2>1, <2>2, OwnStep
<1>4. CASE StoreFails(u)
  <2>1. PICK answer \in {"invalid", "unavailable", "failed"} : Becomes(u, "answered", answer, None)
    <3>1. PICK answer \in {"invalid", "unavailable", "failed"} : Answers(u, answer, None)
      BY <1>4 DEF StoreFails
    <3>2. answer \in Outcomes BY DEF Outcomes
    <3> QED BY <1>1, <3>1, <3>2, Moving
  <2>2. Local(u)'
    BY <1>1, <1>4, <2>1 DEF StoreFails, Becomes, Local
  <2> QED BY <1>2, <2>1, <2>2, OwnStep
<1>5. CASE StoreCancelled(u)
  <2>1. Becomes(u, "answered", "cancelled", None)
    BY <1>1, <1>5, Moving DEF StoreCancelled, Outcomes
  <2>2. Local(u)'
    BY <1>1, <1>5, <2>1 DEF StoreCancelled, Becomes, Local
  <2> QED BY <1>2, <2>1, <2>2, OwnStep
<1>6. CASE RejectContent(u)
  <2>1. Becomes(u, "unwinding", "invalid", upload[u].document)
    BY <1>1, <1>6, Moving DEF RejectContent, Outcomes
  <2>2. Local(u)'
    BY <1>1, <1>6, <2>1 DEF RejectContent, Becomes, Local
  <2> QED BY <1>2, <2>1, <2>2, OwnStep
<1> QED BY <1>3, <1>4, <1>5, <1>6

\* The committed document of a content is the only one.
LEMMA OneDuplicate ==
  ASSUME OnePerContent, NEW u, NEW v \in Duplicates(u)
  PROVE  Duplicates(u) = {v}
BY DEF OnePerContent, Duplicates, SameContent

\* The second transaction locks and looks; every answer of it gives the lock back.
LEMMA LookStep ==
  ASSUME IntakeInvariant, NEW u \in Uploads,
         LockTarget(u) \/ FindNoDuplicate(u) \/ AnswerDuplicate(u)
  PROVE  IntakeInvariant'
<1>1. IntakeTypes /\ OnePerContent /\ Local(u) /\ Shared(u) BY DEF IntakeInvariant
<1>2. CASE LockTarget(u)
  <2>1. upload[u].kb \in KnowledgeBases /\ lock[upload[u].kb] = None
    BY <1>1, <1>2 DEF LockTarget, Local
  <2>2. Alone(u) /\ documents' = documents
    BY <1>1, <1>2, <2>1, KeepsToItself DEF LockTarget
  <2>3. CASE MayUpload(u)
    <3>1. Becomes(u, "locked", upload[u].answer, upload[u].document)
      BY <1>1, <1>2, <2>3, Moving DEF LockTarget, Places
    <3>2. lock'[upload[u].kb] = u
      BY <1>1, <1>2, <2>1, <2>3 DEF LockTarget, IntakeTypes
    <3>3. Local(u)' /\ upload[u].answer = "none"
      BY <1>1, <1>2, <3>1 DEF LockTarget, Becomes, Local
    <3> QED BY <2>2, <2>3, <3>1, <3>2, <3>3, OwnStep
  <2>4. CASE ~MayUpload(u)
    <3>1. Refusal(RoleOf(u)) \in {"not_found", "forbidden"} BY DEF Refusal
    <3>2. Becomes(u, "unwinding", Refusal(RoleOf(u)), upload[u].document)
      BY <1>1, <1>2, <2>4, <3>1, Moving DEF LockTarget, Outcomes
    <3>3. Local(u)'
      BY <1>1, <1>2, <3>1, <3>2 DEF LockTarget, Becomes, Local
    <3> QED BY <2>2, <3>1, <3>2, <3>3, OwnStep
  <2> QED BY <2>3, <2>4
<1>3. CASE FindNoDuplicate(u)
  <2>1. Alone(u) /\ documents' = documents
    BY <1>1, <1>3, KeepsToItself DEF FindNoDuplicate
  <2>2. Becomes(u, "absent", upload[u].answer, upload[u].document)
    BY <1>1, <1>3, Moving DEF FindNoDuplicate, Places
  <2>3. Local(u)' /\ upload[u].answer = "none"
    BY <1>1, <1>3, <2>2 DEF FindNoDuplicate, Becomes, Local
  <2>4. lock'[upload[u].kb] = u /\ MayUpload(u) /\ Duplicates(u) = {}
    BY <1>1, <1>3 DEF FindNoDuplicate, Shared, Holding
  <2> QED BY <2>1, <2>2, <2>3, <2>4, OwnStep
<1>4. CASE AnswerDuplicate(u)
  <2>1. Alone(u) /\ documents' = documents
    BY <1>1, <1>4, KeepsToItself DEF AnswerDuplicate
  <2>2. PICK v \in Duplicates(u) : Answers(u, "duplicate", v)
    BY <1>4 DEF AnswerDuplicate
  <2>3. Becomes(u, "answered", "duplicate", v) /\ Duplicates(u) = {v}
    BY <1>1, <2>2, Moving, OneDuplicate DEF Outcomes, Duplicates, IntakeTypes
  <2>4. Local(u)'
    BY <1>1, <1>4, <2>3 DEF AnswerDuplicate, Becomes, Local
  <2> QED BY <2>1, <2>3, <2>4, OwnStep
<1> QED BY <1>2, <1>3, <1>4

\* Inserting the rows, or failing to.
LEMMA InsertStep ==
  ASSUME IntakeInvariant, NEW u \in Uploads,
         Insert(u) \/ InsertViolates(u) \/ RollBack(u)
  PROVE  IntakeInvariant'
<1>1. IntakeTypes /\ Local(u) /\ Shared(u) BY DEF IntakeInvariant
<1>2. Alone(u) /\ documents' = documents
  <2>1. /\ UNCHANGED <<role, documents, temporary, files, undeleted>>
        /\ inserted' \in {inserted, inserted \cup {u}, inserted \ {u}}
        /\ lock' = lock \/ lock' = Released(u)
    BY DEF Insert, InsertViolates, RollBack
  <2> QED BY <1>1, <2>1, KeepsToItself
<1>3. CASE Insert(u)
  <2>1. Becomes(u, "flushed", upload[u].answer, upload[u].document)
    BY <1>1, <1>3, Moving DEF Insert, Places
  <2>2. Local(u)' /\ upload[u].answer = "none"
    BY <1>1, <1>3, <2>1 DEF Insert, Becomes, Local
  <2>3. lock'[upload[u].kb] = u /\ MayUpload(u) /\ Duplicates(u) = {}
    BY <1>1, <1>3 DEF Insert, Shared, Holding
  <2> QED BY <1>2, <2>1, <2>2, <2>3, OwnStep
<1>4. CASE InsertViolates(u)
  <2>1. Becomes(u, "conflicted", upload[u].answer, upload[u].document)
    BY <1>1, <1>4, Moving DEF InsertViolates, Places
  <2>2. Local(u)' /\ upload[u].answer = "none"
    BY <1>1, <1>4, <2>1 DEF InsertViolates, Becomes, Local
  <2> QED BY <1>2, <2>1, <2>2, OwnStep
<1>5. CASE RollBack(u)
  <2>1. Becomes(u, "unwinding", "unavailable", upload[u].document)
    BY <1>1, <1>5, Moving DEF RollBack, Outcomes
  <2>2. Local(u)'
    BY <1>1, <1>5, <2>1 DEF RollBack, Becomes, Local
  <2> QED BY <1>2, <2>1, <2>2, OwnStep
<1> QED BY <1>3, <1>4, <1>5

\* The commit, with or without its reply.
LEMMA CommitStep ==
  ASSUME IntakeInvariant, NEW u \in Uploads, Commit(u) \/ CommitUnanswered(u)
  PROVE  IntakeInvariant'
<1>1. IntakeTypes /\ Local(u) BY DEF IntakeInvariant
<1>2. Alone(u) /\ documents' = documents \cup {u} /\ upload[u].at = "flushed"
  BY <1>1, KeepsToItself DEF Commit, CommitUnanswered
<1>3. CASE Commit(u)
  <2>1. Becomes(u, "answered", "created", u)
    BY <1>1, <1>3, Moving DEF Commit, Outcomes
  <2>2. Local(u)'
    BY <1>1, <1>3, <2>1 DEF Commit, Becomes, Local
  <2> QED BY <1>2, <2>1, <2>2, RecordStep
<1>4. CASE CommitUnanswered(u)
  <2>1. Becomes(u, "unwinding", "unavailable", upload[u].document)
    BY <1>1, <1>4, Moving DEF CommitUnanswered, Outcomes
  <2>2. Local(u)'
    BY <1>1, <1>4, <2>1 DEF CommitUnanswered, Becomes, Local
  <2> QED BY <1>2, <2>1, <2>2, RecordStep
<1> QED BY <1>3, <1>4

\* The handler of IntegrityError, and the finally of upload_document.
LEMMA UnwindStep ==
  ASSUME IntakeInvariant, NEW u \in Uploads,
         ResolveConflict(u) \/ CleanUp(u) \/ CleanUpFails(u)
  PROVE  IntakeInvariant'
<1>1. IntakeTypes /\ OnePerContent /\ Local(u) BY DEF IntakeInvariant
<1>2. Alone(u) /\ documents' = documents
  <2>1. /\ UNCHANGED <<role, lock, documents, inserted, temporary>>
        /\ files' \in {files, files \ {u}} /\ undeleted' \in {undeleted, undeleted \cup {u}}
    BY DEF ResolveConflict, CleanUp, CleanUpFails
  <2> QED BY <1>1, <2>1, KeepsToItself
<1>3. CASE ResolveConflict(u)
  <2>1. CASE \E v \in Duplicates(u) : Answers(u, "duplicate", v)
    <3>1. PICK v \in Duplicates(u) : Answers(u, "duplicate", v)
      BY <2>1
    <3>2. Becomes(u, "answered", "duplicate", v) /\ Duplicates(u) = {v}
      BY <1>1, <3>1, Moving, OneDuplicate DEF Outcomes, Duplicates, IntakeTypes
    <3>3. Local(u)'
      BY <1>1, <1>3, <3>2 DEF ResolveConflict, Becomes, Local
    <3> QED BY <1>2, <3>2, <3>3, OwnStep
  <2>2. CASE \E answer \in {"conflict", "not_found", "forbidden"} : Unwinds(u, answer)
    <3>1. PICK answer \in {"conflict", "not_found", "forbidden"} : Unwinds(u, answer)
      BY <2>2
    <3>2. Becomes(u, "unwinding", answer, upload[u].document)
      BY <1>1, <3>1, Moving DEF Outcomes
    <3>3. Local(u)'
      BY <1>1, <1>3, <3>2 DEF ResolveConflict, Becomes, Local
    <3> QED BY <1>2, <3>2, <3>3, OwnStep
  <2>3. Refusal(RoleOf(u)) \in {"not_found", "forbidden"} BY DEF Refusal
  <2> QED BY <1>3, <2>1, <2>2, <2>3 DEF ResolveConflict
<1>4. CASE CleanUp(u)
  <2>1. Becomes(u, "answered", upload[u].answer, upload[u].document)
    BY <1>1, <1>4, Moving DEF CleanUp, Places
  <2>2. Local(u)' /\ upload[u].answer \notin {"created", "duplicate"}
    BY <1>1, <1>4, <2>1 DEF CleanUp, Becomes, Local
  <2> QED BY <1>2, <2>1, <2>2, OwnStep
<1>5. CASE CleanUpFails(u)
  <2>1. Becomes(u, "answered", "failed", None)
    BY <1>1, <1>5, Moving DEF CleanUpFails, Outcomes
  <2>2. Local(u)'
    BY <1>1, <1>5, <2>1 DEF CleanUpFails, Becomes, Local
  <2> QED BY <1>2, <2>1, <2>2, OwnStep
<1> QED BY <1>3, <1>4, <1>5

\* The process dies, with its COMMIT done or not.
LEMMA DieStep ==
  ASSUME IntakeInvariant, NEW u \in Uploads, Die(u)
  PROVE  IntakeInvariant'
<1>1. IntakeTypes /\ Local(u) BY DEF IntakeInvariant
<1>2. Becomes(u, "dead", upload[u].answer, upload[u].document)
  BY <1>1, Moving DEF Die, Places
<1>3. Alone(u)
  BY <1>1, KeepsToItself DEF Die
<1>4. Local(u)' /\ upload[u].answer \notin {"created", "duplicate"}
  BY <1>1, <1>2 DEF Die, Becomes, Local
<1>5. CASE documents' = documents
  BY <1>2, <1>3, <1>4, <1>5, OwnStep
<1>6. CASE u \in inserted /\ documents' = documents \cup {u}
  <2>1. upload[u].at = "flushed" BY <1>1, <1>6 DEF Local
  <2> QED BY <1>2, <1>3, <1>4, <1>6, <2>1, RecordStep
<1> QED BY <1>5, <1>6 DEF Die

\* A membership is lowered only when no upload of its holder is between look-up and
\* commit: that upload holds the row.
LEMMA DemoteStep ==
  ASSUME IntakeInvariant, NEW p \in Principals, NEW k \in KnowledgeBases, Demote(p, k)
  PROVE  IntakeInvariant'
<1>1. IntakeTypes /\ OnePerContent BY DEF IntakeInvariant
<1>2. /\ UNCHANGED <<lock, documents, inserted, temporary, files, undeleted, upload>>
      /\ lock[k] # None => upload[lock[k]].who # p
  BY DEF Demote
<1>3. PICK r \in Roles : role' = [role EXCEPT ![p][k] = r]
  BY DEF Demote, Roles, Memberships, Viewer, NoRole
<1>4. IntakeTypes'
  BY <1>1, <1>2, <1>3 DEF IntakeTypes
<1>5. ASSUME NEW v \in Uploads PROVE Local(v)' /\ Shared(v)'
  <2>1. Local(v) /\ Shared(v) BY DEF IntakeInvariant
  <2>2. Local(v)' BY <1>2, <2>1 DEF Local
  <2>3. Holding(v) => upload[v].who \in Principals /\ upload[v].kb \in KnowledgeBases
    BY <2>1 DEF Local, Holding
  <2>4. Holding(v) => ~(upload[v].who = p /\ upload[v].kb = k)
    BY <1>2, <2>1, IntakeAssumption DEF Shared
  <2>5. Holding(v) => RoleOf(v)' = RoleOf(v)
    BY <1>1, <1>2, <1>3, <2>3, <2>4 DEF RoleOf, IntakeTypes
  <2>6. Duplicates(v)' = Duplicates(v)
    BY <1>2 DEF Duplicates, SameContent
  <2>7. Shared(v)'
    BY <1>2, <2>1, <2>5, <2>6 DEF Shared, Holding, MayUpload
  <2> QED BY <2>2, <2>7
<1>6. OnePerContent' BY <1>1, <1>2 DEF OnePerContent, SameContent
<1> QED BY <1>4, <1>5, <1>6 DEF IntakeInvariant

\* The invariant is inductive.
LEMMA IntakeNext == IntakeInvariant /\ [Next]_vars => IntakeInvariant'
<1> SUFFICES ASSUME IntakeInvariant, [Next]_vars PROVE IntakeInvariant'
  OBVIOUS
<1>1. ASSUME NEW u \in Uploads, UploadStep(u) PROVE IntakeInvariant'
  BY <1>1, StoreStep, LookStep, InsertStep, CommitStep, UnwindStep DEF UploadStep
<1>2. CASE UNCHANGED vars
  <2>1. /\ UNCHANGED <<role, lock, documents, inserted, temporary, files, undeleted, upload>>
    BY <1>2 DEF vars
  <2> QED BY <2>1 DEF IntakeInvariant, IntakeTypes, Local, Shared, Holding, MayUpload, RoleOf,
                      Duplicates, SameContent, OnePerContent
<1> QED BY <1>1, <1>2, AuthorizeStep, DieStep, DemoteStep DEF Next

\* The inductive invariant holds of every behaviour.
THEOREM IntakeInvariantHolds == Spec => []IntakeInvariant
  BY IntakeInit, IntakeNext, PTL DEF Spec

--------------------------------------------------------------------------
\* What the second look-up of an upload said stands until its transaction ends,
\* because it holds the row lock of get_upload_target_for_user.
THEOREM LookUpAlwaysStands == Spec => []LookUpStands
<1>1. IntakeInvariant => LookUpStands
  <2> SUFFICES ASSUME IntakeInvariant, NEW u \in Uploads, upload[u].at \in {"absent", "flushed"}
               PROVE  Duplicates(u) = {} /\ Contending(u) \subseteq {u}
    BY DEF LookUpStands
  <2>1. Duplicates(u) = {} /\ lock[upload[u].kb] = u
    BY DEF IntakeInvariant, Shared, Holding
  <2>2. ASSUME NEW v \in Contending(u) PROVE v = u
    <3>1. v \in Uploads /\ v \in inserted /\ upload[v].kb = upload[u].kb
      BY <2>2 DEF Contending, SameContent, IntakeInvariant, IntakeTypes
    <3>2. lock[upload[v].kb] = v
      BY <3>1 DEF IntakeInvariant, Local, Shared, Holding
    <3> QED BY <2>1, <3>1, <3>2
  <2> QED BY <2>1, <2>2
<1> QED BY <1>1, IntakeInvariantHolds, PTL

\* A request answered with a document is answered with the only one of its content.
THEOREM AnswersCarryTheContent == Spec => []AnsweredWithItsContent
<1>1. IntakeInvariant => AnsweredWithItsContent
  BY DEF IntakeInvariant, Shared, AnsweredWithItsContent
<1> QED BY <1>1, IntakeInvariantHolds, PTL

\* A committed document keeps its file unless its request lost the reply to its
\* COMMIT, and a request without a document leaves no file but by a failed deletion
\* or a cancellation inside store.
THEOREM FilesAlwaysFollow == Spec => []FilesFollowDocuments
<1>1. IntakeInvariant => FilesFollowDocuments
  BY DEF IntakeInvariant, IntakeTypes, Local, FilesFollowDocuments
<1> QED BY <1>1, IntakeInvariantHolds, PTL

\* Rows are committed only while the uploader's membership allows it: the second
\* transaction checks it again and keeps the membership row locked.
THEOREM OnlyMembersRecord == Spec => RecordedByMembers
<1>1. IntakeInvariant /\ [Next]_vars => [\A u \in documents' \ documents : MayUpload(u)]_vars
  <2> SUFFICES ASSUME IntakeInvariant, [Next]_vars, NEW u \in documents' \ documents
               PROVE  MayUpload(u)
    OBVIOUS
  <2>1. ASSUME NEW v \in Uploads, UploadStep(v) \/ Die(v)
        PROVE  documents' = documents \/ (v \in Uploads /\ upload[v].at = "flushed"
                                           /\ documents' = documents \cup {v})
    <3>1. v \in inserted => upload[v].at = "flushed"
      BY DEF IntakeInvariant, Local
    <3>2. CASE UploadStep(v)
      BY <3>2 DEF UploadStep, Publish, StoreFails, StoreCancelled, RejectContent, LockTarget,
         AnswerDuplicate, FindNoDuplicate, Insert, InsertViolates, Commit, CommitUnanswered,
         RollBack, ResolveConflict, CleanUp, CleanUpFails
    <3>3. CASE Die(v) BY <3>1, <3>3 DEF Die
    <3> QED BY <2>1, <3>2, <3>3
  <2>2. u \in Uploads /\ upload[u].at = "flushed"
    BY <2>1 DEF Next, Authorize, Demote, vars
  <2> QED BY <2>2 DEF IntakeInvariant, Shared, Holding
<1> QED BY <1>1, IntakeInvariantHolds, PTL DEF Spec, RecordedByMembers
===============================================================================

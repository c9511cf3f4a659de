--------------------------- MODULE HybridRetrieval ---------------------------
(***************************************************************************)
(* HybridRetrievalService.retrieve: one request for evidence from one      *)
(* knowledge base.  Two short transactions check the caller and find       *)
(* keyword candidates, the slow providers run outside of any transaction,  *)
(* and one REPEATABLE READ, READ ONLY transaction authorises again and     *)
(* loads the authoritative records batch by batch.  Meanwhile sessions are *)
(* revoked, memberships removed, documents processed and their chunks      *)
(* replaced.  Chroma is not trusted: it may name any chunk, stale or of    *)
(* another knowledge base, in any order.                                   *)
(***************************************************************************)
EXTENDS RankFusion, FiniteSetsExt

CONSTANTS
  Chunks,          \* chunk ids, numbers in the order of the UUIDs
  Documents,
  Target,          \* the documents of the knowledge base that is asked
  DocumentOf,      \* DocumentOf[c]: uuid5 ties a chunk id to its document
  Requested,       \* requested_count
  Overfetch,       \* DENSE_OVERFETCH_FACTOR
  MaxKeyword,      \* MAX_KEYWORD_CANDIDATES
  MaxUnique,       \* MAX_UNIQUE_CANDIDATES = MAX_FINAL_CANDIDATES
  BatchSize,       \* FINAL_VALIDATION_BATCH_SIZE
  MaxChanges       \* bound: changes of the database beside the request

ASSUME RetrievalAssumption ==
  /\ Chunks \subseteq Nat \ {0} /\ IsFiniteSet(Chunks)
  /\ Target \subseteq Documents
  /\ DocumentOf \in [Chunks -> Documents]
  /\ {Requested, Overfetch, MaxKeyword, MaxUnique, BatchSize} \subseteq Nat \ {0}
  /\ MaxKeyword <= MaxProvider

VARIABLES
  db,       \* what is committed in PostgreSQL
  changes,  \* how often db changed
  request,  \* the request and where it is
  current   \* the states of db since the providers answered, until the load ends

vars == <<db, changes, request, current>>

Database ==
  [session   : BOOLEAN,             \* the proof's session and user are active
   member    : BOOLEAN,             \* the caller has a reading role
   completed : SUBSET Documents,    \* documents with status completed
   rows      : SUBSET Chunks]       \* document_chunks with a valid content_sha256

NoRanks == [c \in {} |-> 0]

NewRequest == [at |-> "started", keyword |-> NoRanks, dense |-> NoRanks,
               snapshot |-> [session |-> FALSE, member |-> FALSE, completed |-> {}, rows |-> {}],
               batches |-> <<>>, loaded |-> {}, answer |-> <<>>]

Init ==
  /\ db \in {d \in Database : d.session /\ d.member /\ d.rows = Chunks}
  /\ changes = 0
  /\ request = NewRequest
  /\ current = {}

\* The scope of every candidate statement: chunks of completed documents of the
\* target that have a persisted hash.
Eligible(d) == {c \in d.rows : DocumentOf[c] \in d.completed \cap Target}

Candidates(r) == DOMAIN r.keyword \cup DOMAIN r.dense

\* configured_provider_count
ProviderCount ==
  IF Overfetch * Requested < MaxProvider THEN Overfetch * Requested ELSE MaxProvider

Fails(outcome) ==
  /\ request' = [request EXCEPT !.at = outcome, !.loaded = {}]
  /\ current' = {}

\* Rankings of at most bound of these chunks, without a gap.
Injective(f) == \A b, c \in DOMAIN f : f[b] = f[c] => b = c
Rankings(chunks, bound) ==
  {f \in UNION {[s -> 1..Cardinality(s)] : s \in SUBSET chunks} :
     Injective(f) /\ Cardinality(DOMAIN f) <= bound}

--------------------------------------------------------------------------
\* verify_initial_access, after the route's own authentication.
InitialAccess ==
  /\ request.at = "started"
  /\ IF db.session /\ db.member
       THEN request' = [request EXCEPT !.at = "admitted"] /\ current' = {}
       ELSE Fails(IF db.session THEN "not_found" ELSE "unauthorized")
  /\ UNCHANGED <<db, changes>>

\* scoped_keyword_candidates: one statement that joins session, membership and
\* completed documents; row_number leaves no gap, the query picks the matches.
FindKeyword ==
  /\ request.at = "admitted"
  /\ \E ranks \in Rankings(IF db.session /\ db.member THEN Eligible(db) ELSE {}, MaxKeyword) :
       request' = [request EXCEPT !.at = "keyword", !.keyword = ranks]
  /\ UNCHANGED <<db, changes, current>>

\* Chroma's reply to a query: a chunk id at each position, or something that is
\* dropped by itself, an identifier of no chunk or a distance that is no finite number.
\* (A reply whose form or size is wrong is a failure of the provider.)
Dropped == 0
Replies == UNION {[1..n -> Chunks \cup {Dropped}] : n \in 0..ProviderCount}

\* _DenseProviderResult and dense_rank_map: a rank is the first position in the reply
\* as it came, so that what is dropped leaves a gap.
DenseRanks(reply) ==
  [c \in Range(reply) \ {Dropped} |-> Min({i \in DOMAIN reply : reply[i] = c})]

\* Embedding of the question, and Chroma's query.
QueryDense ==
  /\ request.at = "keyword"
  /\ \E reply \in Replies : LET ranks == DenseRanks(reply) IN
       IF Cardinality(DOMAIN request.keyword \cup DOMAIN ranks) > MaxUnique
         THEN Fails("unavailable")
         ELSE /\ request' = [request EXCEPT !.at = "joined", !.dense = ranks]
              /\ current' = {db}
  /\ UNCHANGED <<db, changes>>

\* _canonical_candidate_batches: the union in UUID order, cut into batches.
Sorted(chunks) ==
  [i \in 1..Cardinality(chunks) |->
     CHOOSE c \in chunks : Cardinality({b \in chunks : b < c}) = i - 1]

Batches(chunks) ==
  LET order == Sorted(chunks)
      count == (Len(order) + BatchSize - 1) \div BatchSize
  IN [n \in 1..count |->
        {order[i] : i \in ((n - 1) * BatchSize + 1)..
                          (IF n * BatchSize < Len(order) THEN n * BatchSize ELSE Len(order))}]

\* The final transaction's first statement fixes its snapshot and authorises.
BeginFinal ==
  /\ request.at = "joined"
  /\ IF db.session /\ db.member
       THEN /\ request' = [request EXCEPT !.at = "loading", !.snapshot = db,
                                          !.batches = Batches(Candidates(request))]
            /\ current' = current
       ELSE Fails(IF db.session THEN "not_found" ELSE "unauthorized")
  /\ UNCHANGED <<db, changes>>

\* Mutant: READ COMMITTED, where every statement reads what is committed by then.
LoadBatchReadCommitted ==
  /\ request.at = "loading"
  /\ request.batches # <<>>
  /\ request' = [request EXCEPT !.batches = Tail(@),
                   !.loaded = @ \cup (Head(request.batches) \cap Eligible(db))]
  /\ UNCHANGED <<db, changes, current>>

\* _final_candidate_statement on one batch.
LoadBatch ==
  /\ request.at = "loading"
  /\ request.batches # <<>>
  /\ request' = [request EXCEPT !.batches = Tail(@),
                   !.loaded = @ \cup (Head(request.batches) \cap Eligible(request.snapshot))]
  /\ UNCHANGED <<db, changes, current>>

\* The transaction commits; the records loaded are fused and answered.
Answer ==
  /\ request.at = "loading"
  /\ request.batches = <<>>
  /\ request' = [request EXCEPT !.at = "answered",
       !.answer = Fused(request.loaded, request.keyword, request.dense, Requested)]
  /\ UNCHANGED <<db, changes, current>>

\* A provider or a statement fails, COMMIT included: all records are discarded.
BecomeUnavailable ==
  /\ request.at \in {"started", "admitted", "keyword", "joined", "loading"}
  /\ Fails("unavailable")
  /\ UNCHANGED <<db, changes>>

--------------------------------------------------------------------------
\* What others commit beside the request: a logout, expiry or deactivation; a
\* membership removed; a document's status; the chunk rows of one document.
Commits(d) ==
  /\ changes < MaxChanges
  /\ d # db
  /\ db' = d
  /\ changes' = changes + 1
  /\ current' = IF request.at \in {"joined", "loading"} THEN current \cup {d} ELSE current
  /\ request' = request

EndSession == Commits([db EXCEPT !.session = FALSE])
RemoveMembership == Commits([db EXCEPT !.member = FALSE])

ChangeStatus ==
  \E document \in Documents :
    \/ Commits([db EXCEPT !.completed = @ \cup {document}])
    \/ Commits([db EXCEPT !.completed = @ \ {document}])

ReplaceChunks ==
  \E document \in Documents :
    LET own == {c \in Chunks : DocumentOf[c] = document} IN
    \E new \in SUBSET own : Commits([db EXCEPT !.rows = (@ \ own) \cup new])

RequestStep ==
  \/ InitialAccess \/ FindKeyword \/ QueryDense \/ BeginFinal \/ LoadBatch \/ Answer
  \/ BecomeUnavailable

Next == RequestStep \/ EndSession \/ RemoveMembership \/ ChangeStatus \/ ReplaceChunks

Spec == Init /\ [][Next]_vars

--------------------------------------------------------------------------
Answered == {request.answer[i] : i \in DOMAIN request.answer}

\* There was one instant after the providers' work at which the caller was
\* authorised and exactly the candidates that were eligible then were answered,
\* as far as the requested number goes: a request never mixes two states of the
\* database and never answers on an authorisation older than its candidates.
AnswersOneInstant ==
  request.at = "answered" =>
    \E d \in current :
      /\ d.session /\ d.member
      /\ Answered \subseteq Candidates(request) \cap Eligible(d)
      /\ \/ Len(request.answer) = Requested
         \/ Answered = Candidates(request) \cap Eligible(d)

\* b is found at least as high as c by both sources.
Dominates(b, c) ==
  /\ RankIn(request.keyword, b) <= RankIn(request.keyword, c)
  /\ RankIn(request.dense, b) <= RankIn(request.dense, c)

\* No chunk is answered twice, and none is answered before, or instead of, a
\* loaded one that both sources rank at least as high.
FusionRespectsBothSources ==
  request.at = "answered" =>
    /\ Cardinality(Answered) = Len(request.answer)
    /\ \A b \in request.loaded : \A j \in DOMAIN request.answer :
         b # request.answer[j] /\ Dominates(b, request.answer[j]) =>
           \E i \in 1..(j - 1) : request.answer[i] = b
==========================================================================

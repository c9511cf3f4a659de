----------------------------- MODULE RankFusion ------------------------------
(***************************************************************************)
(* Reciprocal rank fusion as retrieval/hybrid.py computes it: exact        *)
(* fractions, and a complete tie order that ends with the chunk's UUID.    *)
(* Chunks are numbers, in the order of their UUIDs.  A rank map is a       *)
(* function from the chunks a source found to their one-based ranks.       *)
(***************************************************************************)
EXTENDS FiniteSets, Integers, Sequences

CONSTANTS
  RrfK,         \* RRF_K
  MaxProvider   \* MAX_PROVIDER_CANDIDATES, no smaller than any rank

ASSUME FusionAssumption ==
  /\ RrfK \in Nat \ {0}
  /\ MaxProvider \in Nat \ {0}

\* The rank of a chunk in one source; absent chunks come after every rank.
AbsentRank == MaxProvider + 1
RankIn(ranks, c) == IF c \in DOMAIN ranks THEN ranks[c] ELSE AbsentRank

\* A fraction; _rrf_score adds 1 / (RrfK + rank) for every source that found c.
Reciprocal(rank) == [num |-> 1, den |-> RrfK + rank]

Plus(x, y) == [num |-> x.num * y.den + y.num * x.den, den |-> x.den * y.den]

Score(keyword, dense, c) ==
  CASE c \in DOMAIN keyword /\ c \in DOMAIN dense ->
         Plus(Reciprocal(keyword[c]), Reciprocal(dense[c]))
    [] c \in DOMAIN keyword /\ c \notin DOMAIN dense -> Reciprocal(keyword[c])
    [] c \notin DOMAIN keyword /\ c \in DOMAIN dense -> Reciprocal(dense[c])

Exceeds(x, y) == x.num * y.den > y.num * x.den

BestRank(keyword, dense, c) ==
  IF RankIn(keyword, c) < RankIn(dense, c) THEN RankIn(keyword, c) ELSE RankIn(dense, c)

\* The sort key of fuse_authoritative_records, compared component by component.
Tie(keyword, dense, c) ==
  <<BestRank(keyword, dense, c), RankIn(keyword, c), RankIn(dense, c), c>>

Lexicographic(x, y) ==
  \E i \in DOMAIN x : x[i] < y[i] /\ \A j \in 1..(i - 1) : x[j] = y[j]

\* Mutant: sorted by the score instead of its negation.
PrecedesAscending(keyword, dense, b, c) ==
  \/ Exceeds(Score(keyword, dense, c), Score(keyword, dense, b))
  \/ /\ ~Exceeds(Score(keyword, dense, b), Score(keyword, dense, c))
     /\ Lexicographic(Tie(keyword, dense, b), Tie(keyword, dense, c))

\* The key's order: higher scores first, then the tie order.
Precedes(keyword, dense, b, c) ==
  \/ Exceeds(Score(keyword, dense, b), Score(keyword, dense, c))
  \/ /\ ~Exceeds(Score(keyword, dense, c), Score(keyword, dense, b))
     /\ Lexicographic(Tie(keyword, dense, b), Tie(keyword, dense, c))

\* The requested number of chunks, best first.
Fused(chunks, keyword, dense, requested) ==
  LET size == IF Cardinality(chunks) < requested THEN Cardinality(chunks) ELSE requested
      Place(c) == 1 + Cardinality({b \in chunks : Precedes(keyword, dense, b, c)})
  IN [i \in 1..size |-> CHOOSE c \in chunks : Place(c) = i]
==========================================================================

------------------------------ MODULE TextProofs -------------------------------
(***************************************************************************)
(* Parser, normaliser and chunk loop for every source, every chunk_size    *)
(* and every overlap.                                                      *)
(***************************************************************************)
EXTENDS DocumentText, DataLemmas

\* Everything before next_start is white space or in a chunk.
Covered ==
  \A i \in 0..(next_start - 1) : At(i) \notin Spaces => InChunk(i)

\* The next chunk starts inside or after the last one, not before its start.
Anchored ==
  ~done /\ chunks # <<>> =>
    /\ chunks[Len(chunks)].start < next_start
    /\ chunks[Len(chunks)].end - next_start <= overlap

IInv ==
  /\ TypeOK
  /\ NothingLost
  /\ EachFits
  /\ OverlapBounded
  /\ Covered
  /\ Anchored

\* What a turn of the loop does with the chunk it has found.
Turn(start, selected, end) ==
  /\ Selects(start, Smaller(start + chunk_size, Len(text)), selected)
  /\ Trims(start, selected, end)
  /\ IF end <= start
       THEN /\ next_start' = Larger(selected, start + 1)
            /\ UNCHANGED <<chunks, done>>
       ELSE /\ chunks' = Append(chunks, [start |-> start, end |-> end])
            /\ done' = (end = Len(text))
            /\ next_start' = IF end = Len(text) THEN next_start ELSE NextStart(start, end)

\* The boundary search returns an offset inside the window, after its start.
LEMMA SelectedInWindow ==
  ASSUME TypeOK,
         NEW start \in Int, NEW high \in Int, NEW selected \in Int,
         start < high, Selects(start, high, selected)
  PROVE  start < selected /\ selected <= high
<1> DEFINE low == MinimumBoundary(start)
<1>1. low \in Int /\ start < low
  BY DEF MinimumBoundary, Larger, TypeOK
<1>2. CASE high = Len(text) \/ low >= high
  BY <1>2 DEF Selects
<1>3. CASE ~(high = Len(text) \/ low >= high)
  <2>1. \/ selected \in Paragraphs(low, high)
        \/ selected \in Lines(low, high)
        \/ selected - 1 \in Sentences(low, high)
        \/ selected \in Words(low, high)
        \/ selected = high
    BY <1>3 DEF Selects, Greatest
  <2>2. ASSUME NEW i \in Paragraphs(low, high) \cup Lines(low, high) \cup Words(low, high)
        PROVE  i \in Int /\ low <= i /\ i < high
    BY <1>1 DEF Paragraphs, Lines, Words
  <2>3. ASSUME NEW i \in Sentences(low, high)
        PROVE  i \in Int /\ low <= i /\ i + 1 < high
    BY <1>1 DEF Sentences
  <2> QED BY <1>1, <2>1, <2>2, <2>3
<1> QED BY <1>2, <1>3

\* A turn of the loop appends a chunk that is not empty, within the window, and
\* neither begins nor ends with white space; before it there is white space only.
LEMMA ChunkFound ==
  ASSUME TypeOK,
         NEW start \in next_start..(Len(text) - 1), Skips(next_start, start),
         NEW selected \in start..Len(text), NEW end \in start..Len(text),
         Selects(start, Smaller(start + chunk_size, Len(text)), selected),
         Trims(start, selected, end)
  PROVE  /\ start \in Nat /\ end \in Nat
         /\ start < end /\ end <= Len(text)
         /\ end - start <= chunk_size
         /\ At(start) \notin Spaces
         /\ At(end - 1) \notin Spaces
         /\ \A i \in next_start..(start - 1) : At(i) \in Spaces
<1> DEFINE high == Smaller(start + chunk_size, Len(text))
<1>1. Len(text) \in Nat /\ next_start \in Nat
  BY DEF TypeOK
<1>2. start \in Nat /\ selected \in Nat /\ end \in Nat /\ start < Len(text)
  BY <1>1
<1>3. high \in Int /\ start < high /\ high <= start + chunk_size
  BY <1>1, <1>2 DEF Smaller, TypeOK
<1>4. start < selected /\ selected <= high
  BY <1>2, <1>3, SelectedInWindow
<1>5. At(start) \notin Spaces
  BY <1>2 DEF Skips
<1>6. end \in start..selected /\ \A l \in end..(selected - 1) : At(l) \in Spaces
  BY DEF Trims
<1>7. end # start
  <2> SUFFICES ASSUME end = start PROVE FALSE
    OBVIOUS
  <2>1. start \in end..(selected - 1)
    BY <1>2, <1>4
  <2> QED BY <2>1, <1>5, <1>6
<1>8. At(end - 1) \notin Spaces
  BY <1>2, <1>6, <1>7 DEF Trims
<1>9. \A i \in next_start..(start - 1) : At(i) \in Spaces
  BY DEF Skips
<1> QED BY <1>2, <1>3, <1>4, <1>5, <1>6, <1>7, <1>8, <1>9, <1>1 DEF TypeOK

\* The loop is about to begin.
Begun ==
  /\ text \in Seq(Characters)
  /\ chunk_size \in 1..MaxSize
  /\ overlap \in 0..(chunk_size - 1)
  /\ next_start = 0 /\ chunks = <<>> /\ done = FALSE

LEMMA BegunHolds == Begun => IInv
<1> SUFFICES ASSUME Begun PROVE IInv
  OBVIOUS
<1>1. Len(text) \in Nat
  BY DEF Begun
<1>2. TypeOK
  <2>1. chunks \in Seq(Chunk) /\ next_start \in 0..Len(text)
    BY <1>1 DEF Begun
  <2>2. done \in BOOLEAN
    BY DEF Begun
  <2> QED BY <1>1, <2>1, <2>2 DEF Begun, TypeOK
<1>3. chunks = <<>> /\ Len(chunks) = 0 /\ next_start = 0 /\ ~done
  BY DEF Begun
<1>4. NothingLost /\ Covered /\ Anchored
  BY <1>3 DEF NothingLost, Covered, Anchored
<1>5. EachFits /\ OverlapBounded
  BY <1>3 DEF EachFits, OverlapBounded
<1> QED BY <1>2, <1>4, <1>5 DEF IInv

LEMMA InitHolds == Init => IInv
BY BegunHolds, ChunkingAssumption DEF Init, Begun

\* The last turn, which finds only white space.
LEMMA LeavingHolds == IInv /\ LeaveLoop => IInv'
<1> SUFFICES ASSUME IInv, LeaveLoop PROVE IInv'
  OBVIOUS
<1> USE DEF LeaveLoop, config
<1>1. TypeOK'
  BY DEF IInv, TypeOK
<1>2. EachFits' /\ OverlapBounded' /\ Anchored'
  BY DEF IInv, EachFits, OverlapBounded, Anchored, At
<1>3. Covered'
  BY DEF IInv, Covered, At, InChunk
<1>4. NothingLost'
  <2> SUFFICES ASSUME NEW i \in 0..(Len(text) - 1), At(i) \notin Spaces
               PROVE  InChunk(i)
    BY DEF NothingLost, At, InChunk
  <2>1. next_start \in Nat /\ Len(text) \in Nat
    BY DEF IInv, TypeOK
  <2>2. i \notin next_start..(Len(text) - 1)
    BY DEF Skips
  <2>3. i \in 0..(next_start - 1)
    BY <2>1, <2>2
  <2> QED BY <2>3 DEF IInv, Covered
<1> QED BY <1>1, <1>2, <1>3, <1>4 DEF IInv

LEMMA AppendingHolds == IInv /\ AppendChunk => IInv'
<1> SUFFICES ASSUME IInv, AppendChunk PROVE IInv'
  OBVIOUS
<1>1. PICK start \in next_start..(Len(text) - 1) :
        /\ Skips(next_start, start)
        /\ \E selected \in start..Len(text), end \in start..Len(text) :
             Turn(start, selected, end)
  BY DEF AppendChunk, Turn
<1>0. PICK selected \in start..Len(text), end \in start..Len(text) : Turn(start, selected, end)
  BY <1>1
<1>2. TypeOK /\ Len(text) \in Nat /\ next_start \in Nat /\ overlap \in Nat
      /\ chunk_size \in Nat
  BY DEF IInv, TypeOK
<1>3. UNCHANGED <<text, chunk_size, overlap>> /\ ~done
  BY DEF AppendChunk, config
<1>4. /\ start \in Nat /\ end \in Nat
      /\ start < end /\ end <= Len(text)
      /\ end - start <= chunk_size
      /\ At(start) \notin Spaces
      /\ At(end - 1) \notin Spaces
      /\ \A i \in next_start..(start - 1) : At(i) \in Spaces
  BY <1>0, <1>1, <1>2, ChunkFound DEF Turn
<1> DEFINE new == [start |-> start, end |-> end]
<1>5. /\ chunks' = Append(chunks, new)
      /\ done' <=> end = Len(text)
      /\ next_start' = IF end = Len(text) THEN next_start ELSE NextStart(start, end)
  <2>1. ~(end <= start)
    BY <1>4
  <2> QED BY <1>0, <2>1, Zenon DEF Turn
<1>6. new \in Chunk /\ chunks \in Seq(Chunk)
  BY <1>2, <1>4 DEF Chunk, TypeOK
<1>7. /\ Len(chunks) \in Nat
      /\ Len(chunks') = Len(chunks) + 1
      /\ \A n \in 1..Len(chunks) : chunks'[n] = chunks[n]
      /\ chunks'[Len(chunks')] = new
      /\ chunks' \in Seq(Chunk)
  BY <1>5, <1>6
<1>8. ASSUME end # Len(text)
      PROVE  /\ next_start' \in Nat /\ start < next_start' /\ next_start' <= end
             /\ end - next_start' <= overlap
  BY <1>2, <1>4, <1>5, <1>8 DEF NextStart, Larger
<1>9. TypeOK'
  <2>1. next_start' \in 0..Len(text)
    BY <1>2, <1>4, <1>5, <1>8 DEF TypeOK
  <2>2. done' \in BOOLEAN
    BY <1>5
  <2> QED BY <1>2, <1>3, <1>7, <2>1, <2>2 DEF TypeOK
<1>10. EachFits'
  <2> SUFFICES ASSUME NEW n \in 1..Len(chunks')
               PROVE  /\ chunks'[n].start < chunks'[n].end
                      /\ chunks'[n].end <= Len(text)
                      /\ chunks'[n].end - chunks'[n].start <= chunk_size
                      /\ At(chunks'[n].start) \notin Spaces
                      /\ At(chunks'[n].end - 1) \notin Spaces
    BY <1>3 DEF EachFits, At
  <2>1. CASE n = Len(chunks')
    BY <2>1, <1>4, <1>7
  <2>2. CASE n # Len(chunks')
    <3>1. n \in 1..Len(chunks) /\ chunks'[n] = chunks[n]
      BY <2>2, <1>7
    <3> QED BY <3>1 DEF IInv, EachFits
  <2> QED BY <2>1, <2>2
<1>11. OverlapBounded'
  <2> SUFFICES ASSUME NEW n \in 1..(Len(chunks') - 1)
               PROVE  /\ chunks'[n].start < chunks'[n + 1].start
                      /\ chunks'[n].end - chunks'[n + 1].start <= overlap
    BY <1>3 DEF OverlapBounded
  <2>1. n \in 1..Len(chunks) /\ chunks'[n] = chunks[n]
    BY <1>7
  <2>2. CASE n = Len(chunks)
    <3>1. chunks'[n + 1] = new
      BY <2>2, <1>7
    <3>2. chunks[n].start < next_start /\ chunks[n].end - next_start <= overlap
      BY <2>1, <2>2, <1>3, <1>6, <1>7 DEF IInv, Anchored
    <3>3. chunks[n] \in Chunk
      BY <2>1, <1>6
    <3> QED BY <2>1, <3>1, <3>2, <3>3, <1>2, <1>4 DEF Chunk
  <2>3. CASE n # Len(chunks)
    <3>1. n \in 1..(Len(chunks) - 1) /\ n + 1 \in 1..Len(chunks)
      BY <2>1, <2>3, <1>7
    <3>2. chunks'[n + 1] = chunks[n + 1]
      BY <3>1, <1>7
    <3> QED BY <2>1, <3>1, <3>2 DEF IInv, OverlapBounded
  <2> QED BY <2>2, <2>3
<1>12. ASSUME NEW i \in Nat, At(i) \notin Spaces,
              i < next_start \/ (i < end)
       PROVE  InChunk(i)'
  <2>1. CASE i < next_start
    <3>1. i \in 0..(next_start - 1)
      BY <2>1, <1>2
    <3>2. PICK n \in 1..Len(chunks) : chunks[n].start <= i /\ i < chunks[n].end
      BY <3>1, <1>12 DEF IInv, Covered, InChunk
    <3>3. n \in 1..Len(chunks') /\ chunks'[n] = chunks[n]
      BY <1>7
    <3> QED BY <3>2, <3>3 DEF InChunk
  <2>2. CASE next_start <= i /\ i < end
    <3>1. i \notin next_start..(start - 1)
      BY <1>4, <1>12
    <3>2. start <= i
      BY <3>1, <2>2, <1>2, <1>4
    <3>3. Len(chunks') \in 1..Len(chunks')
      BY <1>7
    <3> QED BY <3>2, <3>3, <2>2, <1>7 DEF InChunk
  <2> QED BY <1>12, <2>1, <2>2, <1>2
<1>13. Covered'
  <2> SUFFICES ASSUME NEW i \in 0..(next_start' - 1), At(i) \notin Spaces
               PROVE  InChunk(i)'
    BY <1>3 DEF Covered, At
  <2>1. i \in Nat /\ (i < next_start \/ i < end)
    BY <1>2, <1>4, <1>5, <1>8
  <2> QED BY <2>1, <1>12
<1>14. NothingLost'
  <2> SUFFICES ASSUME done', NEW i \in 0..(Len(text) - 1), At(i) \notin Spaces
               PROVE  InChunk(i)'
    BY <1>3 DEF NothingLost, At
  <2>1. i \in Nat /\ i < end
    BY <1>2, <1>5
  <2> QED BY <2>1, <1>12
<1>15. Anchored'
  <2> SUFFICES ASSUME ~done'
               PROVE  /\ chunks'[Len(chunks')].start < next_start'
                      /\ chunks'[Len(chunks')].end - next_start' <= overlap
    BY <1>3 DEF Anchored
  <2> QED BY <1>5, <1>7, <1>8
<1> QED BY <1>9, <1>10, <1>11, <1>13, <1>14, <1>15 DEF IInv

LEMMA StutteringHolds == IInv /\ UNCHANGED vars => IInv'
<1> SUFFICES ASSUME IInv, UNCHANGED vars PROVE IInv'
  OBVIOUS
<1>1. UNCHANGED <<text, chunk_size, overlap, next_start, chunks, done>>
  BY DEF vars
<1> QED
  BY <1>1 DEF IInv, TypeOK, NothingLost, EachFits, OverlapBounded, Covered, Anchored, At, InChunk

\* The strengthened invariant holds in every reachable state of the loop.
THEOREM ChunkingInvariant == Spec => []IInv
<1>1. IInv /\ [Next]_vars => IInv'
  BY LeavingHolds, AppendingHolds, StutteringHolds DEF Next
<1> QED BY InitHolds, <1>1, PTL DEF Spec

\* The types of the loop, and the offsets TextChunk accepts.
THEOREM ChunkTypes == Spec => []TypeOK
<1>1. IInv => TypeOK
  BY DEF IInv
<1> QED BY ChunkingInvariant, <1>1, PTL

\* chunk loses no text, for every text, size and overlap.
THEOREM NoTextLost == Spec => []NothingLost
<1>1. IInv => NothingLost
  BY DEF IInv
<1> QED BY ChunkingInvariant, <1>1, PTL

\* Every chunk that chunk returns is non-empty, trimmed and no longer than chunk_size;
\* each advances on the one before and shares at most overlap characters with it.
THEOREM AllChunksFit == Spec => []ChunksFit
<1>1. IInv => ChunksFit
  BY DEF IInv, ChunksFit
<1> QED BY ChunkingInvariant, <1>1, PTL

--------------------------------------------------------------------------
(* Selections of signs. *)

SignsAt(t) == {i \in DOMAIN t : t[i] \in Signs}

\* What v has where t has its signs.
Picked(t, v) == [n \in DOMAIN SignPlaces(t) |-> v[SignPlaces(t)[n]]]

LEMMA InOrderEnumerates ==
  ASSUME NEW n \in Nat, NEW s \in SUBSET (1..n)
  PROVE  /\ Len(InOrder(s)) \in Nat /\ InOrder(s) \in Seq(s)
         /\ DOMAIN InOrder(s) = 1..Len(InOrder(s))
         /\ Enumerates(InOrder(s), Len(InOrder(s)), s)
<1>0. IsFiniteSet(1..n)
  BY FS_Interval
<1>1. s \in SUBSET Int /\ IsFiniteSet(s)
  <2>1. s \subseteq 1..n OBVIOUS
  <2>2. IsFiniteSet(s) BY <1>0, <2>1, FS_Subset
  <2> QED BY <2>2
<1>2. InOrder(s) = Ascending(s)
  BY DEF InOrder, Ascending
<1>3. /\ Cardinality(s) \in Nat /\ DOMAIN InOrder(s) = 1..Cardinality(s)
      /\ Enumerates(InOrder(s), Cardinality(s), s)
  BY <1>1, <1>2, AscendingEnumerates
<1>4. InOrder(s) \in [1..Cardinality(s) -> s]
  BY <1>3 DEF Enumerates
<1>5. InOrder(s) \in Seq(s) /\ Len(InOrder(s)) = Cardinality(s)
  BY <1>3, <1>4
<1> QED BY <1>3, <1>5

LEMMA SignPlacesAre ==
  ASSUME NEW C, NEW t \in Seq(C)
  PROVE  /\ Len(SignPlaces(t)) \in Nat /\ DOMAIN SignPlaces(t) = 1..Len(SignPlaces(t))
         /\ SignPlaces(t) \in Seq(1..Len(t))
         /\ Enumerates(SignPlaces(t), Len(SignPlaces(t)), SignsAt(t))
         /\ SignsAt(t) \in SUBSET (1..Len(t))
<1>1. SignsAt(t) \in SUBSET (1..Len(t)) /\ Len(t) \in Nat
  BY DEF SignsAt
<1>2. SignPlaces(t) = InOrder(SignsAt(t))
  BY DEF SignPlaces, SignsAt
<1>3. /\ Len(SignPlaces(t)) \in Nat /\ SignPlaces(t) \in Seq(SignsAt(t))
      /\ DOMAIN SignPlaces(t) = 1..Len(SignPlaces(t))
      /\ Enumerates(SignPlaces(t), Len(SignPlaces(t)), SignsAt(t))
  BY <1>1, <1>2, InOrderEnumerates
<1>4. SignPlaces(t) \in Seq(1..Len(t))
  BY <1>1, <1>3
<1> QED BY <1>1, <1>3, <1>4

LEMMA PickedType ==
  ASSUME NEW C, NEW t \in Seq(C), NEW V, NEW v \in Seq(V), Len(v) = Len(t)
  PROVE  Picked(t, v) \in Seq(V) /\ Len(Picked(t, v)) = Len(SignPlaces(t))
<1>0. SignPlaces(t) \in Seq(1..Len(t))
  BY SignPlacesAre
<1>1. \A n \in 1..Len(SignPlaces(t)) : SignPlaces(t)[n] \in 1..Len(t)
  BY <1>0
<1>2. Len(SignPlaces(t)) \in Nat /\ DOMAIN SignPlaces(t) = 1..Len(SignPlaces(t))
  BY SignPlacesAre
<1>3. Picked(t, v) \in [1..Len(SignPlaces(t)) -> V]
  BY <1>1, <1>2 DEF Picked
<1> QED BY <1>2, <1>3

\* g leads from the places of u to places of t in the same order, to signs from signs
\* only, and to all of them; v follows w along it where u has its signs.
Leads(g, u, t) ==
  /\ \A n \in 1..Len(u) : g[n] \in 1..Len(t)
  /\ \A m, n \in 1..Len(u) : m < n => g[m] < g[n]
  /\ \A n \in 1..Len(u) : u[n] \in Signs <=> t[g[n]] \in Signs
  /\ \A i \in SignsAt(t) : \E n \in 1..Len(u) : g[n] = i

Follows(v, w, g, u) == \A n \in 1..Len(u) : u[n] \in Signs => v[n] = w[g[n]]

\* What leads to all the signs picks the same.
LEMMA PickedThrough ==
  ASSUME NEW C, NEW t \in Seq(C), NEW u \in Seq(C), NEW v, NEW w, NEW g,
         Leads(g, u, t), Follows(v, w, g, u)
  PROVE  Picked(u, v) = Picked(t, w)
<1> DEFINE f == SignPlaces(u)
           n == Len(f)
           h == [k \in 1..n |-> g[f[k]]]
<1>1. /\ n \in Nat /\ DOMAIN f = 1..n /\ Enumerates(f, n, SignsAt(u))
      /\ SignsAt(u) \in SUBSET (1..Len(u))
  BY SignPlacesAre
<1>2. /\ Len(SignPlaces(t)) \in Nat /\ DOMAIN SignPlaces(t) = 1..Len(SignPlaces(t))
      /\ Enumerates(SignPlaces(t), Len(SignPlaces(t)), SignsAt(t))
      /\ SignsAt(t) \in SUBSET (1..Len(t))
  BY SignPlacesAre
<1> HIDE DEF f, n
<1>0. /\ \A i \in 1..Len(u) : g[i] \in 1..Len(t)
      /\ \A i, j \in 1..Len(u) : i < j => g[i] < g[j]
      /\ \A i \in 1..Len(u) : u[i] \in Signs <=> t[g[i]] \in Signs
      /\ \A i \in SignsAt(t) : \E j \in 1..Len(u) : g[j] = i
      /\ \A i \in 1..Len(u) : u[i] \in Signs => v[i] = w[g[i]]
  BY DEF Leads, Follows
<1>3. ASSUME NEW k \in 1..n PROVE f[k] \in 1..Len(u) /\ u[f[k]] \in Signs
  <2>1. f[k] \in SignsAt(u) BY <1>1 DEF Enumerates
  <2> QED BY <1>1, <2>1 DEF SignsAt
<1>4. ASSUME NEW k \in 1..n PROVE h[k] \in SignsAt(t) /\ h[k] = g[f[k]]
  <2>1. g[f[k]] \in 1..Len(t) /\ t[g[f[k]]] \in Signs
    BY <1>0, <1>3
  <2> QED BY <2>1 DEF SignsAt
<1>5. h \in [1..n -> SignsAt(t)]
  BY <1>4
<1>6. ASSUME NEW j \in 1..n, NEW k \in 1..n, j < k PROVE h[j] < h[k]
  <2>1. f[j] < f[k] BY <1>1, <1>6 DEF Enumerates
  <2>2. g[f[j]] < g[f[k]] BY <1>0, <1>3, <2>1
  <2> QED BY <1>4, <2>2
<1>7. ASSUME NEW i \in SignsAt(t) PROVE \E k \in 1..n : h[k] = i
  <2>1. PICK m \in 1..Len(u) : g[m] = i
    BY <1>0
  <2>2. t[i] \in Signs BY DEF SignsAt
  <2>3. u[m] \in Signs BY <1>0, <2>1, <2>2
  <2>4. m \in SignsAt(u) BY <2>3 DEF SignsAt
  <2>5. PICK k \in 1..n : f[k] = m
    BY <1>1, <2>4 DEF Enumerates
  <2> QED BY <2>1, <2>5
<1> HIDE DEF h
<1>8. Enumerates(h, n, SignsAt(t))
  BY <1>5, <1>6, <1>7 DEF Enumerates
<1>9. n = Len(SignPlaces(t)) /\ h = SignPlaces(t)
  <2>1. SignsAt(t) \in SUBSET Int BY <1>2
  <2>2. n \in Nat BY <1>1
  <2>3. Len(SignPlaces(t)) \in Nat BY <1>2
  <2>4. Enumerates(SignPlaces(t), Len(SignPlaces(t)), SignsAt(t)) BY <1>2
  <2> QED BY <1>8, <2>1, <2>2, <2>3, <2>4, EnumerationIsUnique
<1>10. ASSUME NEW k \in 1..n PROVE v[f[k]] = w[h[k]]
  BY <1>0, <1>3, <1>4
<1>11. Picked(u, v) = [k \in 1..n |-> v[f[k]]]
  BY <1>1 DEF Picked, f
<1>12. Picked(t, w) = [k \in 1..n |-> w[h[k]]]
  BY <1>2, <1>9 DEF Picked
<1> QED BY <1>10, <1>11, <1>12

\* Signs of a concatenation.
LEMMA PickedConcatenated ==
  ASSUME NEW C, NEW s \in Seq(C), NEW t \in Seq(C), NEW V, NEW v \in Seq(V), NEW w \in Seq(V),
         Len(v) = Len(s), Len(w) = Len(t)
  PROVE  Picked(s \o t, v \o w) = Picked(s, v) \o Picked(t, w)
<1> DEFINE f == SignPlaces(s)  m == Len(f)
           g == SignPlaces(t)  n == Len(g)
           both == s \o t
           h == [k \in 1..(m + n) |-> IF k <= m THEN f[k] ELSE Len(s) + g[k - m]]
<1>1. /\ m \in Nat /\ DOMAIN f = 1..m /\ Enumerates(f, m, SignsAt(s))
      /\ SignsAt(s) \in SUBSET (1..Len(s))
  BY SignPlacesAre
<1>2. /\ n \in Nat /\ DOMAIN g = 1..n /\ Enumerates(g, n, SignsAt(t))
      /\ SignsAt(t) \in SUBSET (1..Len(t))
  BY SignPlacesAre
<1>3. /\ both \in Seq(C) /\ Len(both) = Len(s) + Len(t) /\ Len(s) \in Nat /\ Len(t) \in Nat
      /\ DOMAIN both = 1..(Len(s) + Len(t))
      /\ \A i \in 1..Len(s) : both[i] = s[i]
      /\ \A i \in 1..Len(t) : both[Len(s) + i] = t[i]
  OBVIOUS
<1>4. /\ Len(SignPlaces(both)) \in Nat /\ DOMAIN SignPlaces(both) = 1..Len(SignPlaces(both))
      /\ Enumerates(SignPlaces(both), Len(SignPlaces(both)), SignsAt(both))
      /\ SignsAt(both) \in SUBSET (1..Len(both))
  BY <1>3, SignPlacesAre
<1> HIDE DEF f, g, m, n, both
<1>5. ASSUME NEW k \in 1..(m + n), k <= m
      PROVE  k \in 1..m /\ f[k] \in SignsAt(s) /\ f[k] \in 1..Len(s) /\ h[k] = f[k] /\ h[k] \in SignsAt(both)
  <2>1. k \in 1..m BY <1>1, <1>2, <1>5
  <2>2. f[k] \in SignsAt(s) /\ f[k] \in 1..Len(s) BY <1>1, <2>1 DEF Enumerates
  <2>3. f[k] \in SignsAt(both) BY <1>3, <2>2 DEF SignsAt
  <2> QED BY <1>5, <2>1, <2>2, <2>3
<1>6. ASSUME NEW k \in 1..(m + n), ~(k <= m)
      PROVE  /\ k - m \in 1..n /\ g[k - m] \in SignsAt(t) /\ g[k - m] \in 1..Len(t)
             /\ h[k] = Len(s) + g[k - m] /\ h[k] \in SignsAt(both)
  <2>1. k - m \in 1..n BY <1>1, <1>2, <1>6
  <2>2. g[k - m] \in SignsAt(t) /\ g[k - m] \in 1..Len(t) BY <1>2, <2>1 DEF Enumerates
  <2>3. t[g[k - m]] \in Signs BY <2>2 DEF SignsAt
  <2>4. Len(s) + g[k - m] \in 1..(Len(s) + Len(t)) BY <1>3, <2>2
  <2>5. Len(s) + g[k - m] \in SignsAt(both) BY <1>3, <2>2, <2>3, <2>4 DEF SignsAt
  <2> QED BY <1>6, <2>1, <2>2, <2>5
<1>7. ASSUME NEW i \in SignsAt(both) PROVE \E k \in 1..(m + n) : h[k] = i
  <2>1. i \in 1..(Len(s) + Len(t)) /\ both[i] \in Signs
    BY <1>3 DEF SignsAt
  <2>2. CASE i <= Len(s)
    <3>1. i \in 1..Len(s) BY <1>3, <2>1, <2>2
    <3>2. i \in SignsAt(s) BY <1>3, <2>1, <3>1 DEF SignsAt
    <3>3. PICK k \in 1..m : f[k] = i BY <1>1, <3>2 DEF Enumerates
    <3>4. k \in 1..(m + n) /\ k <= m BY <1>1, <1>2
    <3> QED BY <3>3, <3>4
  <2>3. CASE ~(i <= Len(s))
    <3>1. PICK d : d = i - Len(s) OBVIOUS
    <3>2. d \in 1..Len(t) /\ Len(s) + d = i BY <1>3, <2>1, <2>3, <3>1
    <3>3. d \in SignsAt(t)
      <4>1. both[i] = t[d] BY <1>3, <3>2
      <4> QED BY <2>1, <3>2, <4>1 DEF SignsAt
    <3>4. PICK k \in 1..n : g[k] = d BY <1>2, <3>3 DEF Enumerates
    <3>5. m + k \in 1..(m + n) /\ ~(m + k <= m) /\ (m + k) - m = k BY <1>1, <1>2
    <3>6. h[m + k] = Len(s) + g[k] BY <3>5
    <3> HIDE DEF h
    <3> QED BY <3>2, <3>4, <3>5, <3>6
  <2> QED BY <2>2, <2>3
<1>8. ASSUME NEW j \in 1..(m + n), NEW k \in 1..(m + n), j < k PROVE h[j] < h[k]
  <2>1. CASE k <= m
    <3>1. j <= m BY <1>1, <1>2, <1>8, <2>1
    <3>2. f[j] < f[k] BY <1>1, <1>5, <1>8, <2>1, <3>1 DEF Enumerates
    <3> HIDE DEF h
    <3> QED BY <1>5, <2>1, <3>1, <3>2
  <2>2. CASE ~(k <= m) /\ j <= m
    <3> HIDE DEF h
    <3>1. h[j] \in 1..Len(s) BY <1>5, <2>2
    <3>2. h[k] = Len(s) + g[k - m] /\ g[k - m] \in 1..Len(t) BY <1>6, <2>2
    <3> QED BY <1>3, <3>1, <3>2
  <2>3. CASE ~(k <= m) /\ ~(j <= m)
    <3> HIDE DEF h
    <3>1. /\ k - m \in 1..n /\ h[k] = Len(s) + g[k - m] /\ g[k - m] \in 1..Len(t)
          /\ j - m \in 1..n /\ h[j] = Len(s) + g[j - m] /\ g[j - m] \in 1..Len(t)
      BY <1>6, <2>3
    <3>2. j - m < k - m BY <1>1, <1>2, <1>8
    <3>3. g[j - m] < g[k - m] BY <1>2, <3>1, <3>2 DEF Enumerates
    <3> QED BY <1>3, <3>1, <3>3
  <2> QED BY <2>1, <2>2, <2>3
<1>9. h \in [1..(m + n) -> SignsAt(both)]
  <2>1. \A k \in 1..(m + n) : h[k] \in SignsAt(both) BY <1>5, <1>6
  <2> QED BY <2>1
<1>10. m + n = Len(SignPlaces(both)) /\ h = SignPlaces(both)
  <2> HIDE DEF h
  <2>1. Enumerates(h, m + n, SignsAt(both)) BY <1>7, <1>8, <1>9 DEF Enumerates
  <2>2. m + n \in Nat /\ SignsAt(both) \in SUBSET Int BY <1>1, <1>2, <1>4
  <2> QED BY <1>4, <2>1, <2>2, EnumerationIsUnique
<1> DEFINE x == Picked(s, v)  y == Picked(t, w)  z == Picked(both, v \o w)
<1>11. x \in Seq(V) /\ Len(x) = m /\ y \in Seq(V) /\ Len(y) = n
  BY PickedType DEF f, g, m, n
<1>12. /\ \A i \in 1..Len(s) : (v \o w)[i] = v[i]
       /\ \A i \in 1..Len(t) : (v \o w)[Len(s) + i] = w[i]
  BY <1>3
<1>13. /\ x = [k \in 1..m |-> v[f[k]]] /\ y = [k \in 1..n |-> w[g[k]]]
       /\ z = [k \in 1..(m + n) |-> (v \o w)[h[k]]]
  <2> HIDE DEF h
  <2>1. DOMAIN SignPlaces(both) = 1..(m + n) BY <1>4, <1>10
  <2> QED BY <1>1, <1>2, <1>10, <2>1 DEF Picked, f, g
<1> HIDE DEF h, x, y, z
<1>18. /\ x \o y \in Seq(V) /\ Len(x \o y) = m + n
       /\ \A k \in 1..m : (x \o y)[k] = x[k]
       /\ \A k \in 1..n : (x \o y)[m + k] = y[k]
  <2>1. PICK a, b : a = x /\ b = y OBVIOUS
  <2>2. a \in Seq(V) /\ b \in Seq(V) /\ Len(a) = m /\ Len(b) = n BY <1>11, <2>1
  <2>3. /\ a \o b \in Seq(V) /\ Len(a \o b) = m + n
        /\ \A k \in 1..m : (a \o b)[k] = a[k]
        /\ \A k \in 1..n : (a \o b)[m + k] = b[k]
    <3>1. a \in Seq(V) /\ b \in Seq(V) BY <2>2
    <3>2. /\ a \o b \in Seq(V) /\ Len(a \o b) = Len(a) + Len(b)
          /\ \A k \in 1..Len(a) : (a \o b)[k] = a[k]
          /\ \A k \in 1..Len(b) : (a \o b)[Len(a) + k] = b[k]
      BY <3>1, Concatenation
    <3> QED BY <2>2, <3>2
  <2> QED BY <2>1, <2>3
<1>14. ASSUME NEW k \in 1..(m + n) PROVE z[k] = (x \o y)[k]
  <2>1. CASE k <= m
    <3>1. z[k] = v[f[k]] BY <1>5, <1>12, <1>13, <2>1
    <3>2. (x \o y)[k] = x[k] BY <1>5, <1>18, <2>1
    <3>3. x[k] = v[f[k]] BY <1>5, <1>13, <2>1
    <3> QED BY <3>1, <3>2, <3>3
  <2>2. CASE ~(k <= m)
    <3>1. z[k] = w[g[k - m]] BY <1>6, <1>12, <1>13, <2>2
    <3>2. (x \o y)[k] = y[k - m]
      <4>1. k - m \in 1..n /\ m + (k - m) = k BY <1>1, <1>2, <1>6, <2>2
      <4>2. (x \o y)[m + (k - m)] = y[k - m] BY <1>18, <4>1
      <4> QED BY <4>1, <4>2
    <3>3. y[k - m] = w[g[k - m]] BY <1>6, <1>13, <2>2
    <3> QED BY <3>1, <3>2, <3>3
  <2> QED BY <2>1, <2>2
<1>15. z \in Seq(V) /\ Len(z) = m + n
  <2>1. PICK r : r = v \o w OBVIOUS
  <2>2. r \in Seq(V) /\ Len(r) = Len(both)
    <3>1. r \in Seq(V) /\ Len(r) = Len(v) + Len(w) BY <2>1, Concatenation
    <3> QED BY <1>3, <3>1
  <2>3. Picked(both, r) \in Seq(V) /\ Len(Picked(both, r)) = Len(SignPlaces(both))
    BY <1>3, <2>2, PickedType
  <2>4. z = Picked(both, r) BY <2>1 DEF z
  <2> QED BY <1>10, <2>3, <2>4
<1>17. z = x \o y
  BY <1>14, <1>15, <1>18, SeqEqual
<1> QED BY <1>17 DEF x, y, z, both

LEMMA PickedNothing ==
  ASSUME NEW C, NEW t \in Seq(C), SignsAt(t) = {}, NEW v
  PROVE  Picked(t, v) = <<>> /\ Len(SignPlaces(t)) = 0
<1>1. /\ Len(SignPlaces(t)) \in Nat /\ DOMAIN SignPlaces(t) = 1..Len(SignPlaces(t))
      /\ Enumerates(SignPlaces(t), Len(SignPlaces(t)), SignsAt(t))
  BY SignPlacesAre
<1>2. Len(SignPlaces(t)) = 0
  <2> SUFFICES ASSUME Len(SignPlaces(t)) # 0 PROVE FALSE
    OBVIOUS
  <2>1. 1 \in 1..Len(SignPlaces(t)) BY <1>1
  <2>2. SignPlaces(t)[1] \in SignsAt(t) BY <1>1, <2>1 DEF Enumerates
  <2> QED BY <2>2
<1>3. DOMAIN Picked(t, v) = {}
  <2>1. DOMAIN SignPlaces(t) = {} BY <1>1, <1>2
  <2> QED BY <2>1 DEF Picked
<1>4. Picked(t, v) = <<>>
  <2>1. Picked(t, v) = [n \in {} |-> v[SignPlaces(t)[n]]]
    BY <1>3 DEF Picked
  <2>2. \A f : f \in [1..0 -> {}] => f = <<>>
    OBVIOUS
  <2>3. Picked(t, v) \in [1..0 -> {}]
    BY <2>1
  <2> QED BY <2>2, <2>3
<1> QED BY <1>2, <1>4

EachPicked(picked, pieces, tags) ==
  /\ Len(tags) = Len(pieces) /\ Len(picked) = Len(pieces)
  /\ \A i \in 1..Len(pieces) : Len(tags[i]) = Len(pieces[i])
                                /\ picked[i] = Picked(pieces[i], tags[i])

\* Signs of what is flattened.
LEMMA PickedFlattened ==
  ASSUME NEW C, NEW pieces \in Seq(Seq(C)), NEW V, NEW tags \in Seq(Seq(V)),
         NEW picked \in Seq(Seq(V)), EachPicked(picked, pieces, tags)
  PROVE  Picked(FlattenSeq(pieces), FlattenSeq(tags)) = FlattenSeq(picked)
<1> DEFINE N == Len(pieces)
           FP(n) == FlattenSeq(SubSeq(pieces, 1, n))
           FT(n) == FlattenSeq(SubSeq(tags, 1, n))
           FK(n) == FlattenSeq(SubSeq(picked, 1, n))
           P == {n \in Nat : n <= N => Len(FT(n)) = Len(FP(n)) /\ Picked(FP(n), FT(n)) = FK(n)}
<1>0. /\ Len(tags) = N /\ Len(picked) = N
      /\ \A i \in 1..N : Len(tags[i]) = Len(pieces[i]) /\ picked[i] = Picked(pieces[i], tags[i])
  BY DEF EachPicked
<1>1. N \in Nat /\ \A i \in 1..N : pieces[i] \in Seq(C) /\ tags[i] \in Seq(V) /\ picked[i] \in Seq(V)
  BY <1>0
<1>2. ASSUME NEW n \in 0..N
      PROVE  /\ FP(n) \in Seq(C) /\ FT(n) \in Seq(V) /\ FK(n) \in Seq(V)
             /\ n = 0 => FP(n) = <<>> /\ FT(n) = <<>> /\ FK(n) = <<>>
             /\ n # 0 => /\ FP(n) = FP(n - 1) \o pieces[n]
                         /\ FT(n) = FT(n - 1) \o tags[n]
                         /\ FK(n) = FK(n - 1) \o picked[n]
  <2>1. n \in 0..Len(pieces) /\ n \in 0..Len(tags) /\ n \in 0..Len(picked)
    BY <1>0
  <2>2. FP(n) \in Seq(C) /\ (n = 0 => FP(n) = <<>>) /\ (n # 0 => FP(n) = FP(n - 1) \o pieces[n])
    BY <2>1, FlattenGrows
  <2>3. FT(n) \in Seq(V) /\ (n = 0 => FT(n) = <<>>) /\ (n # 0 => FT(n) = FT(n - 1) \o tags[n])
    BY <2>1, FlattenGrows
  <2>4. FK(n) \in Seq(V) /\ (n = 0 => FK(n) = <<>>) /\ (n # 0 => FK(n) = FK(n - 1) \o picked[n])
    BY <2>1, FlattenGrows
  <2> HIDE DEF FP, FT, FK
  <2> QED BY <2>2, <2>3, <2>4
<1> HIDE DEF FP, FT, FK
<1>3. 0 \in P
  <2>1. 0 \in 0..N BY <1>1
  <2>2. FP(0) = <<>> /\ FT(0) = <<>> /\ FK(0) = <<>> BY <1>2, <2>1
  <2>3. SignsAt(<<>>) = {} /\ <<>> \in Seq(C) BY DEF SignsAt
  <2>4. Picked(<<>>, <<>>) = <<>> BY <2>3, PickedNothing
  <2> QED BY <2>2, <2>4
<1>4. ASSUME NEW n \in Nat, n \in P PROVE n + 1 \in P
  <2> SUFFICES ASSUME n + 1 <= N
               PROVE  Len(FT(n + 1)) = Len(FP(n + 1)) /\ Picked(FP(n + 1), FT(n + 1)) = FK(n + 1)
    OBVIOUS
  <2>1. PICK k : k = n + 1 OBVIOUS
  <2>2. k \in 0..N /\ k # 0 /\ k - 1 = n /\ k \in 1..N /\ n \in 0..N BY <1>1, <2>1
  <2>3. Len(FT(n)) = Len(FP(n)) /\ Picked(FP(n), FT(n)) = FK(n) BY <1>4, <2>2
  <2> HIDE DEF P, N
  <2>4. FP(k) = FP(n) \o pieces[k] /\ FT(k) = FT(n) \o tags[k] /\ FK(k) = FK(n) \o picked[k]
    BY <1>2, <2>2
  <2>5. PICK a, b, c, d : a = FP(n) /\ b = pieces[k] /\ c = FT(n) /\ d = tags[k]
    OBVIOUS
  <2>6. /\ a \in Seq(C) /\ b \in Seq(C) /\ c \in Seq(V) /\ d \in Seq(V)
        /\ Len(c) = Len(a) /\ Len(d) = Len(b) /\ picked[k] = Picked(b, d)
    BY <1>0, <1>1, <1>2, <2>2, <2>3, <2>5 DEF N
  <2>7. Picked(a \o b, c \o d) = Picked(a, c) \o Picked(b, d)
    <3>1. a \in Seq(C) /\ b \in Seq(C) BY <2>6
    <3>2. c \in Seq(V) /\ d \in Seq(V) BY <2>6
    <3>3. Len(c) = Len(a) /\ Len(d) = Len(b) BY <2>6
    <3>4. a \in Seq(C) BY <3>1
    <3>5. b \in Seq(C) BY <3>1
    <3>6. c \in Seq(V) BY <3>2
    <3>7. d \in Seq(V) BY <3>2
    <3>8. Len(c) = Len(a) BY <3>3
    <3>9. Len(d) = Len(b) BY <3>3
    <3> QED BY ONLY <3>4, <3>5, <3>6, <3>7, <3>8, <3>9, PickedConcatenated, SMTT(30)
  <2>8. Len(a \o b) = Len(a) + Len(b) /\ Len(c \o d) = Len(c) + Len(d)
    BY <2>6, Concatenation
  <2>9. Picked(FP(k), FT(k)) = FK(k)
    BY <2>3, <2>4, <2>5, <2>6, <2>7
  <2>10. Len(FT(k)) = Len(FP(k))
    BY <2>4, <2>5, <2>6, <2>8
  <2> QED BY <2>1, <2>9, <2>10
<1>5. N \in P
  <2> HIDE DEF P, N
  <2> QED BY <1>1, <1>3, <1>4, Induction
<1>6. Picked(FP(N), FT(N)) = FK(N)
  BY <1>1, <1>5
<1>7. SubSeq(pieces, 1, N) = pieces /\ SubSeq(tags, 1, N) = tags /\ SubSeq(picked, 1, N) = picked
  BY <1>0, SubSeqFull
<1> QED BY <1>6, <1>7 DEF FP, FT, FK

--------------------------------------------------------------------------------
(* Fragments. *)

LEMMA SignsArePicked == \A t : SignsOf(t) = Picked(t, t)
BY DEF SignsOf, Picked

\* A selection of places that keeps the signs where they are.
LEMMA SelectionKeepsSigns ==
  ASSUME NEW C, NEW t \in Seq(C), NEW kept \in SUBSET (1..Len(t)), SignsAt(t) \subseteq kept,
         NEW u \in Seq(C), Len(u) = Len(InOrder(kept)),
         \A n \in 1..Len(u) : u[n] \in Signs <=> t[InOrder(kept)[n]] \in Signs,
         \A n \in 1..Len(u) : u[n] \in Signs => u[n] = t[InOrder(kept)[n]]
  PROVE  SignsOf(u) = SignsOf(t)
<1> DEFINE g == InOrder(kept)
<1>1. Len(t) \in Nat OBVIOUS
<1>2. /\ Len(g) \in Nat /\ Enumerates(g, Len(g), kept)
  BY <1>1, InOrderEnumerates
<1> HIDE DEF g
<1>3. \A n \in 1..Len(u) : g[n] \in kept /\ g[n] \in 1..Len(t)
  BY <1>2 DEF Enumerates, g
<1>4. \A m, n \in 1..Len(u) : m < n => g[m] < g[n]
  BY <1>2 DEF Enumerates, g
<1>5. \A i \in SignsAt(t) : \E n \in 1..Len(u) : g[n] = i
  BY <1>2 DEF Enumerates, g
<1>6. \A n \in 1..Len(u) : u[n] \in Signs <=> t[g[n]] \in Signs
  BY DEF g
<1>7. \A n \in 1..Len(u) : u[n] \in Signs => u[n] = t[g[n]]
  BY DEF g
<1>8. Picked(u, u) = Picked(t, t)
  <2>1. Leads(g, u, t) BY <1>3, <1>4, <1>5, <1>6 DEF Leads
  <2>2. Follows(u, t, g, u) BY <1>7 DEF Follows
  <2> QED BY <2>1, <2>2, PickedThrough
<1> QED BY <1>8, SignsArePicked

\* A byte order mark is no sign.
LEMMA MarkIsNoSign ==
  ASSUME NEW C, NEW s \in Seq(C)
  PROVE  /\ WithoutMark(s) \in Seq(C)
         /\ SignsOf(WithoutMark(s)) = SignsOf(s)
         /\ \A n \in 1..Len(WithoutMark(s)) : \E m \in 1..Len(s) : WithoutMark(s)[n] = s[m]
<1>1. CASE ~(s # <<>> /\ Head(s) = "bom")
  BY <1>1 DEF WithoutMark
<1>2. CASE s # <<>> /\ Head(s) = "bom"
  <2>1. PICK u : u = Tail(s) OBVIOUS
  <2>2. WithoutMark(s) = u BY <1>2, <2>1 DEF WithoutMark
  <2>3. /\ u \in Seq(C) /\ Len(s) \in Nat /\ Len(s) >= 1 /\ Len(u) = Len(s) - 1 /\ s[1] = "bom"
        /\ \A n \in 1..Len(u) : u[n] = s[n + 1]
    BY <1>2, <2>1
  <2> DEFINE g == [n \in 1..Len(u) |-> n + 1]
  <2>4. \A n \in 1..Len(u) : n + 1 \in 1..Len(s) /\ g[n] = n + 1 /\ u[n] = s[g[n]] BY <2>3
  <2>5. \A n \in 1..Len(u) : g[n] \in 1..Len(s) BY <2>4
  <2>6. \A m, n \in 1..Len(u) : m < n => g[m] < g[n] BY <2>4
  <2>7. ASSUME NEW i \in SignsAt(s) PROVE \E n \in 1..Len(u) : g[n] = i
    <3>1. i \in 1..Len(s) /\ s[i] \in Signs BY DEF SignsAt
    <3>2. i # 1 BY <2>3, <3>1 DEF Signs
    <3>3. PICK n : n = i - 1 OBVIOUS
    <3>4. n \in 1..Len(u) /\ n + 1 = i BY <2>3, <3>1, <3>2, <3>3
    <3> QED BY <3>4
  <2> HIDE DEF g
  <2>8. \A n \in 1..Len(u) : u[n] \in Signs <=> s[g[n]] \in Signs
    BY <2>4
  <2>11. \A n \in 1..Len(u) : u[n] \in Signs => u[n] = s[g[n]]
    BY <2>4
  <2>12. u \in Seq(C) BY <2>3
  <2>9. Picked(u, u) = Picked(s, s)
    <3>1. Leads(g, u, s) BY <2>5, <2>6, <2>7, <2>8 DEF Leads
    <3>2. Follows(u, s, g, u) BY <2>11 DEF Follows
    <3> QED BY <2>12, <3>1, <3>2, PickedThrough
  <2>10. \A n \in 1..Len(u) : \E m \in 1..Len(s) : u[n] = s[m]
    BY <2>4
  <2> QED BY <2>2, <2>3, <2>9, <2>10, SignsArePicked
<1> QED BY <1>1, <1>2

LEMMA SanitizedIs ==
  ASSUME NEW c \in RawCharacters
  PROVE  /\ Sanitized(c) \in Characters
         /\ Sanitized(c) \in Signs <=> c \in Signs
         /\ Sanitized(c) \in Signs => Sanitized(c) = c
         /\ Sanitized(c) = "bom" => c = "bom"
BY DEF Sanitized, RawCharacters, Characters, Signs, Spaces, Blanks

\* Sanitising a text keeps its signs, and makes no byte order marks.
LEMMA CleanedKeepsSigns ==
  ASSUME NEW s \in Seq(RawCharacters)
  PROVE  /\ Cleaned(s) \in Seq(Characters)
         /\ SignsOf(Cleaned(s)) = SignsOf(s)
         /\ \A n \in 1..Len(Cleaned(s)) : Cleaned(s)[n] = "bom" => \E m \in 1..Len(s) : s[m] = "bom"
<1> DEFINE kept == {i \in DOMAIN s : ~(s[i] = "newline" /\ i > 1 /\ s[i - 1] = "cr")}
<1>1. Len(s) \in Nat /\ DOMAIN s = 1..Len(s) /\ \A i \in 1..Len(s) : s[i] \in RawCharacters
  OBVIOUS
<1>2. kept \in SUBSET (1..Len(s)) /\ SignsAt(s) \subseteq kept
  BY DEF SignsAt, Signs
<1>3. Cleaned(s) = [n \in DOMAIN InOrder(kept) |-> Sanitized(s[InOrder(kept)[n]])]
  BY DEF Cleaned
<1> HIDE DEF kept
<1>4. PICK g : g = InOrder(kept) OBVIOUS
<1>5. Len(g) \in Nat /\ DOMAIN g = 1..Len(g) /\ Enumerates(g, Len(g), kept)
  BY <1>1, <1>2, <1>4, InOrderEnumerates
<1>6. \A n \in 1..Len(g) : g[n] \in 1..Len(s) /\ s[g[n]] \in RawCharacters
  BY <1>1, <1>2, <1>5 DEF Enumerates
<1>7. PICK u : u = Cleaned(s) OBVIOUS
<1>8. /\ u \in [1..Len(g) -> Characters]
      /\ \A n \in 1..Len(g) : u[n] = Sanitized(s[g[n]])
  BY <1>3, <1>4, <1>5, <1>6, <1>7, SanitizedIs
<1>9. u \in Seq(Characters) /\ Len(u) = Len(g)
  BY <1>5, <1>8
<1>10. u \in Seq(RawCharacters)
  BY <1>9 DEF RawCharacters
<1>11. \A n \in 1..Len(u) : /\ u[n] \in Signs <=> s[g[n]] \in Signs
                            /\ u[n] \in Signs => u[n] = s[g[n]]
                            /\ u[n] = "bom" => s[g[n]] = "bom"
  BY <1>6, <1>8, <1>9, SanitizedIs
<1>12. SignsOf(u) = SignsOf(s)
  BY <1>2, <1>4, <1>9, <1>10, <1>11, SelectionKeepsSigns
<1>13. ASSUME NEW n \in 1..Len(u), u[n] = "bom" PROVE \E m \in 1..Len(s) : s[m] = "bom"
  BY <1>6, <1>9, <1>11, <1>13
<1> QED BY <1>7, <1>9, <1>12, <1>13

\* Normalising a section keeps its signs, and makes no byte order marks.
LEMMA FragmentKeepsSigns ==
  ASSUME NEW s \in Seq(RawCharacters)
  PROVE  /\ Fragment(s) \in Seq(Characters)
         /\ SignsOf(Fragment(s)) = SignsOf(s)
         /\ \A n \in 1..Len(Fragment(s)) : Fragment(s)[n] = "bom" => \E m \in 1..Len(s) : s[m] = "bom"
<1>1. PICK r, t, u : r = WithoutMark(s) /\ t = Cleaned(r) /\ u = Fragment(s)
  OBVIOUS
<1>2. /\ r \in Seq(RawCharacters) /\ SignsOf(r) = SignsOf(s)
      /\ \A n \in 1..Len(r) : \E m \in 1..Len(s) : r[n] = s[m]
  BY <1>1, MarkIsNoSign
<1>3. /\ t \in Seq(Characters) /\ SignsOf(t) = SignsOf(r)
      /\ \A n \in 1..Len(t) : t[n] = "bom" => \E m \in 1..Len(r) : r[m] = "bom"
  BY <1>1, <1>2, CleanedKeepsSigns
<1> DEFINE staying == {i \in DOMAIN t : Stays(t, i)}
<1>4. Len(t) \in Nat /\ DOMAIN t = 1..Len(t) /\ \A i \in 1..Len(t) : t[i] \in Characters
  BY <1>3
<1>5. staying \in SUBSET (1..Len(t))
  BY <1>4
<1>6. ASSUME NEW i \in SignsAt(t) PROVE i \in staying
  <2>1. i \in 1..Len(t) /\ t[i] \in Signs BY <1>4 DEF SignsAt
  <2>2. i \in Solid(t) /\ t[i] # "newline" BY <1>4, <2>1 DEF Solid, Signs, Blanks
  <2>3. i \in {j \in Solid(t) : j <= i} /\ i \in {j \in Solid(t) : j >= i}
    BY <2>1, <2>2
  <2>4. Newlines(t, i, i) = {} BY <2>1, <2>2 DEF Newlines
  <2>5. Stays(t, i) BY <2>2, <2>3, <2>4 DEF Stays
  <2> QED BY <1>4, <2>1, <2>5
<1>7. u = [n \in DOMAIN InOrder(staying) |-> t[InOrder(staying)[n]]]
  BY <1>1 DEF Fragment
<1> HIDE DEF staying
<1>8. PICK g : g = InOrder(staying) OBVIOUS
<1>9. Len(g) \in Nat /\ DOMAIN g = 1..Len(g) /\ Enumerates(g, Len(g), staying)
  BY <1>4, <1>5, <1>8, InOrderEnumerates
<1>10. \A n \in 1..Len(g) : g[n] \in 1..Len(t) /\ t[g[n]] \in Characters
  BY <1>4, <1>5, <1>9 DEF Enumerates
<1>11. u \in [1..Len(g) -> Characters] /\ \A n \in 1..Len(g) : u[n] = t[g[n]]
  BY <1>7, <1>8, <1>9, <1>10
<1>12. u \in Seq(Characters) /\ Len(u) = Len(g)
  BY <1>9, <1>11
<1>13. \A n \in 1..Len(u) : u[n] = t[g[n]]
  BY <1>11, <1>12
<1>14. SignsAt(t) \subseteq staying BY <1>6
<1>15. SignsOf(u) = SignsOf(t)
  BY <1>3, <1>5, <1>8, <1>12, <1>13, <1>14, SelectionKeepsSigns
<1>16. ASSUME NEW n \in 1..Len(u), u[n] = "bom" PROVE \E m \in 1..Len(s) : s[m] = "bom"
  <2>1. g[n] \in 1..Len(t) /\ t[g[n]] = "bom" BY <1>10, <1>12, <1>13, <1>16
  <2>2. PICK m \in 1..Len(r) : r[m] = "bom" BY <1>3, <2>1
  <2> QED BY <1>2, <2>2
<1> QED BY <1>1, <1>2, <1>3, <1>12, <1>15, <1>16

--------------------------------------------------------------------------------
(* Where the fragments are. *)

LEMMA OffsetsAre ==
  ASSUME NEW lengths \in Seq(Nat)
  PROVE  /\ Offsets(lengths) \in Seq(Nat) /\ Len(Offsets(lengths)) = Len(lengths)
         /\ \A n \in 1..Len(lengths) :
              Offsets(lengths)[n] = IF n = 1 THEN 0 ELSE Offsets(lengths)[n - 1] + lengths[n - 1] + 2
<1> DEFINE N == Len(lengths)
           Unfolds(offset) == offset = [n \in 1..N |-> IF n = 1 THEN 0 ELSE offset[n - 1] + lengths[n - 1] + 2]
           chosen == CHOOSE offset : Unfolds(offset)
           step == [i \in 1..N |-> [v \in Nat |-> v + lengths[i] + 2]]
<1>1. N \in Nat /\ \A i \in 1..N : lengths[i] \in Nat
  OBVIOUS
<1>2. step \in [1..N -> [Nat -> Nat]]
  <2>1. ASSUME NEW i \in 1..N, NEW v \in Nat PROVE v + lengths[i] + 2 \in Nat
    BY <1>1
  <2> QED BY <2>1
<1>3. PICK f : IsRecursion(f, N, Nat, 0, step)
  <2> HIDE DEF step, N
  <2> QED BY <1>1, <1>2, RecursionExists
<1>4. f \in [0..N -> Nat] /\ f[0] = 0
  BY <1>3 DEF IsRecursion
<1>5. ASSUME NEW i \in 1..N PROVE f[i] = f[i - 1] + lengths[i] + 2
  <2>1. f[i] = step[i][f[i - 1]] /\ f[i - 1] \in Nat
    <3>1. i - 1 \in 0..N
      OBVIOUS
    <3> QED BY <1>3, <1>4, <3>1 DEF IsRecursion
  <2> QED BY <2>1
<1> HIDE DEF step
<1> DEFINE g == [n \in 1..N |-> f[n - 1]]
<1>6. ASSUME NEW n \in 1..N
      PROVE  g[n] \in Nat /\ g[n] = IF n = 1 THEN 0 ELSE g[n - 1] + lengths[n - 1] + 2
  <2>1. n - 1 \in 0..N BY <1>1
  <2>2. CASE n = 1 BY <1>4, <2>2
  <2>3. CASE n # 1
    <3>1. n - 1 \in 1..N BY <1>1, <2>3
    <3>2. f[n - 1] = f[(n - 1) - 1] + lengths[n - 1] + 2 BY <1>5, <3>1
    <3> QED BY <1>4, <2>1, <2>3, <3>1, <3>2
  <2> QED BY <2>2, <2>3
<1>7. g = [n \in 1..N |-> g[n]]
  OBVIOUS
<1> HIDE DEF g
<1>8. Unfolds(g)
  BY <1>6, <1>7
<1>9. Unfolds(chosen)
  <2> HIDE DEF Unfolds
  <2> QED BY <1>8
<1>10. Offsets(lengths) = [n \in 1..N |-> chosen[n]]
  BY DEF Offsets
<1> HIDE DEF chosen
<1>11. \A n \in 1..N : chosen[n] = IF n = 1 THEN 0 ELSE chosen[n - 1] + lengths[n - 1] + 2
  BY <1>9
<1> DEFINE P == {k \in Nat : k + 1 <= N => chosen[k + 1] = g[k + 1]}
<1>12. 0 \in P
  <2> SUFFICES ASSUME 0 + 1 <= N PROVE chosen[0 + 1] = g[0 + 1]
    OBVIOUS
  <2>1. 1 \in 1..N BY <1>1
  <2>2. chosen[1] = 0 /\ g[1] = 0 BY <1>6, <1>11, <2>1
  <2> QED BY <2>2
<1>13. ASSUME NEW k \in Nat, k \in P PROVE k + 1 \in P
  <2> SUFFICES ASSUME (k + 1) + 1 <= N PROVE chosen[(k + 1) + 1] = g[(k + 1) + 1]
    OBVIOUS
  <2>1. PICK m : m = (k + 1) + 1
    OBVIOUS
  <2>2. m \in 1..N /\ m # 1 /\ m - 1 = k + 1 /\ k + 1 <= N
    BY <1>1, <2>1
  <2>3. chosen[k + 1] = g[k + 1]
    BY <1>13, <2>2
  <2> HIDE DEF P
  <2>4. chosen[m] = chosen[m - 1] + lengths[m - 1] + 2 /\ g[m] = g[m - 1] + lengths[m - 1] + 2
    BY <1>6, <1>11, <2>2
  <2> QED BY <2>1, <2>2, <2>3, <2>4
<1>14. ASSUME NEW n \in 1..N PROVE chosen[n] = g[n]
  <2>1. PICK k : k = n - 1 OBVIOUS
  <2>2. k \in Nat /\ k + 1 <= N /\ k + 1 = n BY <1>1, <2>1
  <2>3. k \in P
    <3> HIDE DEF P
    <3> QED BY <1>12, <1>13, <2>2, Induction
  <2> QED BY <2>2, <2>3
<1>15. /\ \A n \in 1..N : chosen[n] \in Nat
       /\ \A n \in 1..N : chosen[n] = IF n = 1 THEN 0 ELSE chosen[n - 1] + lengths[n - 1] + 2
  BY <1>6, <1>11, <1>14
<1>16. PICK o : o = Offsets(lengths) OBVIOUS
<1>17. o \in [1..N -> Nat] /\ \A n \in 1..N : o[n] = chosen[n]
  BY <1>10, <1>15, <1>16
<1>18. o \in Seq(Nat) /\ Len(o) = N
  BY <1>1, <1>17
<1>19. ASSUME NEW n \in 1..N PROVE o[n] = IF n = 1 THEN 0 ELSE o[n - 1] + lengths[n - 1] + 2
  <2>1. n # 1 => n - 1 \in 1..N BY <1>1
  <2> QED BY <1>15, <1>17, <2>1
<1> QED BY <1>16, <1>18, <1>19

\* The n-th part is in t at its offset, and v names it there.
Stands(t, v, parts, offsets, names, n) ==
  \A i \in 1..Len(parts[n]) :
    /\ offsets[n] + i \in 1..Len(t)
    /\ t[offsets[n] + i] = parts[n][i]
    /\ v[offsets[n] + i] = names[n]

\* Nothing but newlines is outside the first n parts.
Between(t, parts, offsets, n) ==
  \A p \in 1..Len(t) :
    t[p] = "newline" \/ \E m \in 1..n : offsets[m] < p /\ p <= offsets[m] + Len(parts[m])

\* Each piece is a part with newlines before it.
LeadIn(piece, part, lead) ==
  /\ Len(piece) = lead + Len(part)
  /\ \A i \in 1..lead : piece[i] = "newline"
  /\ \A i \in 1..Len(part) : piece[lead + i] = part[i]

\* The first n parts, and nothing else.
Laid(t, v, parts, offsets, names, n) ==
  /\ Len(v) = Len(t)
  /\ \A m \in 1..n : Stands(t, v, parts, offsets, names, m)
  /\ Between(t, parts, offsets, n)

Names(mark, name, length) == \A i \in 1..length : mark[i] = name

\* One piece more.
LEMMA LayingOn ==
  ASSUME NEW C, NEW V, NEW t \in Seq(C), NEW v \in Seq(V),
         NEW parts \in Seq(Seq(C)), NEW offsets \in Seq(Nat), NEW names,
         NEW n \in Nat, n + 1 <= Len(parts), Len(offsets) = Len(parts),
         Laid(t, v, parts, offsets, names, n),
         NEW piece \in Seq(C), NEW mark \in Seq(V), NEW lead \in Nat,
         LeadIn(piece, parts[n + 1], lead), Len(mark) = Len(piece),
         Names(mark, names[n + 1], Len(piece)),
         offsets[n + 1] = Len(t) + lead
  PROVE  /\ Len(t \o piece) = offsets[n + 1] + Len(parts[n + 1])
         /\ Laid(t \o piece, v \o mark, parts, offsets, names, n + 1)
<1>0. /\ Len(v) = Len(t)
      /\ \A m \in 1..n : Stands(t, v, parts, offsets, names, m)
      /\ Between(t, parts, offsets, n)
      /\ \A i \in 1..Len(mark) : mark[i] = names[n + 1]
  BY DEF Laid, Names
<1>1. PICK x, y, k, part : x = t \o piece /\ y = v \o mark /\ k = n + 1 /\ part = parts[k]
  OBVIOUS
<1>2. /\ Len(t) \in Nat /\ Len(piece) \in Nat /\ Len(x) = Len(t) + Len(piece)
      /\ \A i \in 1..Len(t) : x[i] = t[i]
      /\ \A i \in 1..Len(piece) : x[Len(t) + i] = piece[i]
  BY <1>1, Concatenation
<1>3. /\ Len(y) = Len(v) + Len(mark)
      /\ \A i \in 1..Len(v) : y[i] = v[i]
      /\ \A i \in 1..Len(mark) : y[Len(v) + i] = mark[i]
  <2>1. v \in Seq(V) /\ mark \in Seq(V) OBVIOUS
  <2> QED BY ONLY <1>1, <2>1, Concatenation
<1>4. /\ k \in 1..Len(parts) /\ part \in Seq(C) /\ Len(part) \in Nat /\ offsets[k] = Len(t) + lead
      /\ LeadIn(piece, part, lead)
      /\ \A i \in 1..Len(mark) : mark[i] = names[k]
  BY <1>0, <1>1
<1>5. /\ Len(piece) = lead + Len(part)
      /\ \A i \in 1..lead : piece[i] = "newline"
      /\ \A i \in 1..Len(part) : piece[lead + i] = part[i]
  BY <1>4 DEF LeadIn
<1>6. Len(x) = offsets[k] + Len(part) /\ Len(y) = Len(x)
  BY <1>0, <1>2, <1>3, <1>4, <1>5
<1>7. Stands(x, y, parts, offsets, names, k)
  <2> SUFFICES ASSUME NEW i \in 1..Len(part)
               PROVE  /\ offsets[k] + i \in 1..Len(x)
                      /\ x[offsets[k] + i] = part[i]
                      /\ y[offsets[k] + i] = names[k]
    BY <1>1 DEF Stands
  <2>1. PICK j : j = lead + i OBVIOUS
  <2>2. j \in 1..Len(piece) /\ offsets[k] + i = Len(t) + j /\ i \in Nat
    BY <1>2, <1>4, <1>5, <2>1
  <2>3. x[Len(t) + j] = piece[j] /\ piece[j] = part[i]
    BY <1>2, <1>5, <2>1, <2>2
  <2>4. y[Len(t) + j] = mark[j] /\ mark[j] = names[k]
    BY <1>0, <1>3, <1>4, <2>2
  <2>5. offsets[k] + i \in 1..Len(x)
    <3>1. Len(t) \in Nat /\ Len(piece) \in Nat /\ Len(x) = Len(t) + Len(piece) BY <1>2
    <3>2. Len(t) + j \in 1..(Len(t) + Len(piece)) BY <2>2, <3>1
    <3> QED BY <2>2, <3>1, <3>2
  <2> QED BY <2>2, <2>3, <2>4, <2>5
<1>8. ASSUME NEW m \in 1..n PROVE Stands(x, y, parts, offsets, names, m)
  <2> SUFFICES ASSUME NEW i \in 1..Len(parts[m])
               PROVE  /\ offsets[m] + i \in 1..Len(x)
                      /\ x[offsets[m] + i] = parts[m][i]
                      /\ y[offsets[m] + i] = names[m]
    BY DEF Stands
  <2>1. offsets[m] + i \in 1..Len(t) /\ t[offsets[m] + i] = parts[m][i] /\ v[offsets[m] + i] = names[m]
    BY <1>0 DEF Stands
  <2>2. offsets[m] + i \in 1..Len(x)
    <3>1. Len(t) \in Nat /\ Len(piece) \in Nat /\ Len(x) = Len(t) + Len(piece) BY <1>2
    <3>2. \A j \in 1..Len(t) : j \in 1..(Len(t) + Len(piece)) BY <3>1
    <3> QED BY <2>1, <3>1, <3>2
  <2>3. x[offsets[m] + i] = t[offsets[m] + i] BY <1>2, <2>1
  <2>4. y[offsets[m] + i] = v[offsets[m] + i] BY <1>0, <1>3, <2>1
  <2> QED BY <2>1, <2>2, <2>3, <2>4
<1>9. ASSUME NEW m \in 1..k PROVE Stands(x, y, parts, offsets, names, m)
  <2>1. m = k \/ m \in 1..n BY <1>1
  <2> QED BY <1>7, <1>8, <2>1
<1>10. Between(x, parts, offsets, k)
  <2> SUFFICES ASSUME NEW p \in 1..Len(x), x[p] # "newline"
               PROVE  \E m \in 1..k : offsets[m] < p /\ p <= offsets[m] + Len(parts[m])
    BY DEF Between
  <2>1. CASE p <= Len(t)
    <3>1. p \in 1..Len(t) /\ t[p] # "newline" BY <1>2, <2>1
    <3>2. PICK m \in 1..n : offsets[m] < p /\ p <= offsets[m] + Len(parts[m])
      BY <1>0, <3>1 DEF Between
    <3>3. m \in 1..k BY <1>1
    <3> QED BY <3>2, <3>3
  <2>2. CASE ~(p <= Len(t))
    <3>1. PICK i : i = p - Len(t) OBVIOUS
    <3>2. i \in 1..Len(piece) /\ p = Len(t) + i BY <1>2, <2>2, <3>1
    <3>3. piece[i] # "newline" BY <1>2, <3>2
    <3>4. i \notin 1..lead BY <1>5, <3>3
    <3>5. lead < i BY <3>2, <3>4
    <3>6. offsets[k] < p /\ p <= offsets[k] + Len(part)
      <4>1. offsets[k] = Len(t) + lead /\ Len(x) = offsets[k] + Len(part) BY <1>4, <1>6
      <4>2. Len(t) \in Nat /\ Len(x) \in Nat /\ p \in Int /\ p <= Len(x) /\ i \in Int BY <1>2, <1>6, <3>2
      <4> QED BY <3>2, <3>5, <4>1, <4>2
    <3>7. k \in 1..k BY <1>1
    <3> QED BY <1>1, <3>6, <3>7
  <2> QED BY <2>1, <2>2
<1>11. Laid(x, y, parts, offsets, names, k)
  BY <1>6, <1>9, <1>10 DEF Laid
<1> QED BY <1>1, <1>6, <1>11

\* The signs of a piece are those of its part.
LEMMA LeadInKeepsSigns ==
  ASSUME NEW C, NEW piece \in Seq(C), NEW part \in Seq(C), NEW lead \in Nat,
         LeadIn(piece, part, lead),
         NEW name, NEW mark, Names(mark, name, Len(piece))
  PROVE  /\ Picked(piece, piece) = SignsOf(part)
         /\ Picked(piece, mark) = [n \in DOMAIN SignsOf(part) |-> name]
<1> DEFINE g == [i \in 1..Len(part) |-> lead + i]
           v == [i \in 1..Len(part) |-> name]
<1>1. /\ Len(part) \in Nat /\ Len(piece) = lead + Len(part)
      /\ \A i \in 1..lead : piece[i] = "newline"
      /\ \A i \in 1..Len(part) : piece[lead + i] = part[i]
  BY DEF LeadIn
<1>2. \A i \in 1..Len(part) : g[i] = lead + i /\ g[i] \in 1..Len(piece) /\ piece[g[i]] = part[i]
  <2>1. Len(part) \in Nat /\ Len(piece) = lead + Len(part) BY <1>1
  <2>2. \A i \in 1..Len(part) : lead + i \in 1..Len(piece) BY <2>1
  <2> QED BY <1>1, <2>2
<1>3. \A i \in 1..Len(part) : v[i] = name /\ mark[g[i]] = name
  BY <1>2 DEF Names
<1>4. ASSUME NEW i \in SignsAt(piece) PROVE \E n \in 1..Len(part) : g[n] = i
  <2>1. i \in 1..Len(piece) /\ piece[i] \in Signs BY DEF SignsAt
  <2>2. i \notin 1..lead
    <3> SUFFICES ASSUME i \in 1..lead PROVE FALSE
      OBVIOUS
    <3>1. piece[i] = "newline" BY <1>1
    <3> QED BY <2>1, <3>1 DEF Signs
  <2>3. PICK n : n = i - lead OBVIOUS
  <2>4. Len(part) \in Nat /\ Len(piece) = lead + Len(part) BY <1>1
  <2>5. n \in 1..Len(part) /\ lead + n = i BY <2>1, <2>2, <2>3, <2>4
  <2> QED BY <2>5
<1>5. \A m, n \in 1..Len(part) : m < n => g[m] < g[n]
  OBVIOUS
<1> HIDE DEF g, v
<1>6. Leads(g, part, piece)
  BY <1>2, <1>4, <1>5 DEF Leads
<1>7. Follows(part, piece, g, part) /\ Follows(v, mark, g, part)
  BY <1>2, <1>3 DEF Follows
<1>8. Picked(part, part) = Picked(piece, piece) /\ Picked(part, v) = Picked(piece, mark)
  <2>1. piece \in Seq(C) /\ part \in Seq(C) OBVIOUS
  <2>2. Picked(part, part) = Picked(piece, piece) BY ONLY <2>1, <1>6, <1>7, PickedThrough
  <2>3. Picked(part, v) = Picked(piece, mark) BY ONLY <2>1, <1>6, <1>7, PickedThrough
  <2> QED BY <2>2, <2>3
<1>9. Picked(part, v) = [n \in DOMAIN SignsOf(part) |-> name]
  <2>1. DOMAIN SignsOf(part) = DOMAIN SignPlaces(part) BY DEF SignsOf
  <2>2. DOMAIN SignPlaces(part) = 1..Len(SignPlaces(part)) /\ SignPlaces(part) \in Seq(1..Len(part))
    BY SignPlacesAre
  <2>3. \A n \in DOMAIN SignPlaces(part) : SignPlaces(part)[n] \in 1..Len(part)
    BY <2>2
  <2>4. \A n \in DOMAIN SignPlaces(part) : v[SignPlaces(part)[n]] = name
    BY <1>3, <2>3
  <2> QED BY <2>1, <2>4 DEF Picked
<1> QED BY <1>8, <1>9, SignsArePicked

--------------------------------------------------------------------------------
(* The normalised text. *)

KeptSections == {i \in DOMAIN sections : ~Blank(Fragment(sections[i]))}

Fragments == [n \in DOMAIN Kept |-> Fragment(sections[Kept[n]])]
Lengths == [n \in DOMAIN Fragments |-> Len(Fragments[n])]
Pieces == [n \in DOMAIN Fragments |->
             IF n = 1 THEN Fragments[n] ELSE <<"newline", "newline">> \o Fragments[n]]

\* The section each character of a piece is counted to.
Marks == [n \in DOMAIN Pieces |-> [i \in 1..Len(Pieces[n]) |-> Kept[n]]]
LeadOf(n) == IF n = 1 THEN 0 ELSE 2

LEMMA KeptAre ==
  ASSUME sections \in Seq(Seq(RawCharacters))
  PROVE  /\ Len(Kept) \in Nat /\ DOMAIN Kept = 1..Len(Kept) /\ Len(sections) \in Nat
         /\ Kept \in Seq(1..Len(sections))
         /\ KeptSections \in SUBSET (1..Len(sections))
         /\ Enumerates(Kept, Len(Kept), KeptSections)
         /\ \A n \in 1..Len(Kept) : Kept[n] \in KeptSections /\ Kept[n] \in 1..Len(sections)
<1>1. Len(sections) \in Nat /\ KeptSections \in SUBSET (1..Len(sections))
  BY DEF KeptSections
<1>2. Kept = InOrder(KeptSections)
  BY DEF Kept, KeptSections
<1>3. /\ Len(Kept) \in Nat /\ DOMAIN Kept = 1..Len(Kept) /\ Kept \in Seq(KeptSections)
      /\ Enumerates(Kept, Len(Kept), KeptSections)
  BY <1>1, <1>2, InOrderEnumerates
<1>4. Kept \in Seq(1..Len(sections)) /\ \A n \in 1..Len(Kept) : Kept[n] \in KeptSections
  BY <1>1, <1>3, SequenceInLarger
<1> QED BY <1>1, <1>3, <1>4

LEMMA FragmentsAre ==
  ASSUME sections \in Seq(Seq(RawCharacters))
  PROVE  /\ Fragments \in Seq(Seq(Characters)) /\ Len(Fragments) = Len(Kept)
         /\ DOMAIN Fragments = 1..Len(Kept)
         /\ \A n \in 1..Len(Kept) :
              /\ Fragments[n] = Fragment(sections[Kept[n]]) /\ Fragments[n] \in Seq(Characters)
              /\ SignsOf(Fragments[n]) = SignsOf(sections[Kept[n]])
              /\ ~Blank(Fragments[n])
<1>1. /\ Len(Kept) \in Nat /\ DOMAIN Kept = 1..Len(Kept)
      /\ \A n \in 1..Len(Kept) : Kept[n] \in KeptSections /\ Kept[n] \in 1..Len(sections)
  BY KeptAre
<1>2. ASSUME NEW n \in 1..Len(Kept)
      PROVE  /\ Fragments[n] = Fragment(sections[Kept[n]]) /\ Fragments[n] \in Seq(Characters)
             /\ SignsOf(Fragments[n]) = SignsOf(sections[Kept[n]])
             /\ ~Blank(Fragments[n])
  <2>1. PICK s : s = sections[Kept[n]] OBVIOUS
  <2>2. s \in Seq(RawCharacters) BY <1>1, <2>1
  <2>3. Fragments[n] = Fragment(s) BY <1>1, <2>1 DEF Fragments
  <2>4. Fragment(s) \in Seq(Characters) /\ SignsOf(Fragment(s)) = SignsOf(s)
    BY <2>2, FragmentKeepsSigns
  <2>5. ~Blank(Fragment(s)) BY <1>1, <2>1 DEF KeptSections
  <2> QED BY <2>1, <2>3, <2>4, <2>5
<1>3. Fragments \in [1..Len(Kept) -> Seq(Characters)]
  <2>1. DOMAIN Fragments = 1..Len(Kept) BY <1>1 DEF Fragments
  <2>2. Fragments = [n \in 1..Len(Kept) |-> Fragments[n]] BY <1>1 DEF Fragments
  <2> QED BY <1>2, <2>2
<1>4. Fragments \in Seq(Seq(Characters)) /\ Len(Fragments) = Len(Kept) /\ DOMAIN Fragments = 1..Len(Kept)
  BY <1>1, <1>3, FunctionIsSequence
<1> QED BY <1>2, <1>4

LEMMA PiecesAre ==
  ASSUME sections \in Seq(Seq(RawCharacters))
  PROVE  /\ Pieces \in Seq(Seq(Characters)) /\ Len(Pieces) = Len(Kept)
         /\ Marks \in Seq(Seq(Nat)) /\ Len(Marks) = Len(Kept)
         /\ \A n \in 1..Len(Kept) :
              /\ Pieces[n] \in Seq(Characters) /\ Marks[n] \in Seq(Nat)
              /\ LeadIn(Pieces[n], Fragments[n], LeadOf(n)) /\ LeadOf(n) \in Nat
              /\ Len(Marks[n]) = Len(Pieces[n])
              /\ Names(Marks[n], Kept[n], Len(Pieces[n]))
<1>1. /\ Len(Kept) \in Nat /\ \A n \in 1..Len(Kept) : Kept[n] \in Nat
  <2>1. /\ Len(Kept) \in Nat /\ Len(sections) \in Nat
        /\ \A n \in 1..Len(Kept) : Kept[n] \in 1..Len(sections)
    BY KeptAre
  <2> QED BY <2>1
<1>2. /\ DOMAIN Fragments = 1..Len(Kept)
      /\ \A n \in 1..Len(Kept) : Fragments[n] \in Seq(Characters)
  BY FragmentsAre
<1>3. DOMAIN Pieces = 1..Len(Kept) /\ Pieces = [n \in 1..Len(Kept) |-> Pieces[n]]
  BY <1>2 DEF Pieces
<1>4. ASSUME NEW n \in 1..Len(Kept)
      PROVE  /\ Pieces[n] \in Seq(Characters)
             /\ LeadIn(Pieces[n], Fragments[n], LeadOf(n)) /\ LeadOf(n) \in Nat
  <2>1. PICK f, p : f = Fragments[n] /\ p = Pieces[n] OBVIOUS
  <2>2. f \in Seq(Characters) BY <1>2, <2>1
  <2>3. p = IF n = 1 THEN f ELSE <<"newline", "newline">> \o f BY <1>2, <2>1 DEF Pieces
  <2>4. CASE n = 1
    <3>1. p = f /\ LeadOf(n) = 0 BY <2>3, <2>4 DEF LeadOf
    <3>2. LeadIn(f, f, 0) BY <2>2 DEF LeadIn
    <3> QED BY <2>1, <2>2, <3>1, <3>2
  <2>5. CASE n # 1
    <3>1. p = <<"newline", "newline">> \o f /\ LeadOf(n) = 2 BY <2>3, <2>5 DEF LeadOf
    <3>2. PICK w : w = <<"newline", "newline">> OBVIOUS
    <3>3. w \in Seq(Characters) /\ Len(w) = 2 /\ w[1] = "newline" /\ w[2] = "newline"
      BY <3>2 DEF Characters, Spaces
    <3>4. /\ p \in Seq(Characters) /\ Len(p) = Len(w) + Len(f)
          /\ \A i \in 1..Len(w) : p[i] = w[i]
          /\ \A i \in 1..Len(f) : p[Len(w) + i] = f[i]
      BY <2>2, <3>1, <3>2, <3>3, Concatenation
    <3>5. \A i \in 1..2 : w[i] = "newline" BY <3>3
    <3>6. LeadIn(p, f, 2) BY <3>3, <3>4, <3>5 DEF LeadIn
    <3> QED BY <2>1, <3>1, <3>4, <3>6
  <2> QED BY <2>4, <2>5
<1>5. DOMAIN Marks = 1..Len(Kept) /\ Marks = [n \in 1..Len(Kept) |-> Marks[n]]
  BY <1>3 DEF Marks
<1>6. ASSUME NEW n \in 1..Len(Kept)
      PROVE  /\ Names(Marks[n], Kept[n], Len(Pieces[n]))
             /\ Marks[n] \in Seq(Nat) /\ Len(Marks[n]) = Len(Pieces[n])
  <2>1. Marks[n] = [i \in 1..Len(Pieces[n]) |-> Kept[n]] BY <1>3 DEF Marks
  <2>2. Len(Pieces[n]) \in Nat BY <1>4
  <2>3. Marks[n] \in [1..Len(Pieces[n]) -> Nat] BY <1>1, <2>1
  <2>4. Names(Marks[n], Kept[n], Len(Pieces[n])) BY <2>1 DEF Names
  <2>5. Marks[n] \in Seq(Nat) /\ Len(Marks[n]) = Len(Pieces[n])
    BY <2>2, <2>3, FunctionIsSequence
  <2> QED BY <2>4, <2>5
<1>7. Pieces \in [1..Len(Kept) -> Seq(Characters)] /\ Marks \in [1..Len(Kept) -> Seq(Nat)]
  BY <1>3, <1>4, <1>5, <1>6
<1>8. /\ Pieces \in Seq(Seq(Characters)) /\ Len(Pieces) = Len(Kept)
      /\ Marks \in Seq(Seq(Nat)) /\ Len(Marks) = Len(Kept)
  BY <1>1, <1>7, FunctionIsSequence
<1> QED BY <1>4, <1>6, <1>8

NormalizedText == FlattenSeq(Pieces)
TextMarks == FlattenSeq(Marks)
FragmentOffsets == Offsets(Lengths)

LEMMA FragmentOffsetsAre ==
  ASSUME sections \in Seq(Seq(RawCharacters))
  PROVE  /\ FragmentOffsets \in Seq(Nat) /\ Len(FragmentOffsets) = Len(Kept)
         /\ \A n \in 1..Len(Kept) :
              FragmentOffsets[n] = IF n = 1 THEN 0
                                   ELSE FragmentOffsets[n - 1] + Len(Fragments[n - 1]) + 2
<1>1. /\ Len(Kept) \in Nat /\ DOMAIN Fragments = 1..Len(Kept)
      /\ \A n \in 1..Len(Kept) : Len(Fragments[n]) \in Nat
  <2>1. Len(Kept) \in Nat /\ DOMAIN Fragments = 1..Len(Kept) BY KeptAre, FragmentsAre
  <2>2. \A n \in 1..Len(Kept) : Fragments[n] \in Seq(Characters) BY FragmentsAre
  <2> QED BY <2>1, <2>2
<1>2. /\ Lengths \in [1..Len(Kept) -> Nat]
      /\ \A n \in 1..Len(Kept) : Lengths[n] = Len(Fragments[n])
  BY <1>1 DEF Lengths
<1>3. Lengths \in Seq(Nat) /\ Len(Lengths) = Len(Kept)
  BY <1>1, <1>2, FunctionIsSequence
<1>4. /\ FragmentOffsets \in Seq(Nat) /\ Len(FragmentOffsets) = Len(Kept)
      /\ \A n \in 1..Len(Kept) :
           FragmentOffsets[n] = IF n = 1 THEN 0 ELSE FragmentOffsets[n - 1] + Lengths[n - 1] + 2
  BY <1>3, OffsetsAre DEF FragmentOffsets
<1>5. \A n \in 1..Len(Kept) : n # 1 => n - 1 \in 1..Len(Kept)
  BY <1>1
<1>6. \A n \in 1..Len(Kept) : n # 1 => Lengths[n - 1] = Len(Fragments[n - 1])
  BY <1>2, <1>5
<1> QED BY <1>4, <1>6

\* The normalised text has every fragment at its offset, and newlines elsewhere.
LEMMA LaidOut ==
  ASSUME sections \in Seq(Seq(RawCharacters))
  PROVE  /\ NormalizedText \in Seq(Characters)
         /\ TextMarks \in Seq(Nat)
         /\ Laid(NormalizedText, TextMarks, Fragments, FragmentOffsets, Kept, Len(Kept))
<1> DEFINE N == Len(Kept)
           T(k) == FlattenSeq(SubSeq(Pieces, 1, k))
           M(k) == FlattenSeq(SubSeq(Marks, 1, k))
           O == FragmentOffsets
           F == Fragments
           Good(k) == /\ Len(T(k)) = IF k = 0 THEN 0 ELSE O[k] + Len(F[k])
                      /\ Laid(T(k), M(k), F, O, Kept, k)
           P == {k \in Nat : k <= N => Good(k)}
<1>1. /\ Pieces \in Seq(Seq(Characters)) /\ Len(Pieces) = N
      /\ Marks \in Seq(Seq(Nat)) /\ Len(Marks) = N
      /\ \A n \in 1..N :
           /\ Pieces[n] \in Seq(Characters) /\ Marks[n] \in Seq(Nat)
           /\ LeadIn(Pieces[n], F[n], LeadOf(n)) /\ LeadOf(n) \in Nat
           /\ Len(Marks[n]) = Len(Pieces[n])
           /\ Names(Marks[n], Kept[n], Len(Pieces[n]))
  BY PiecesAre
<1>2. N \in Nat /\ F \in Seq(Seq(Characters)) /\ Len(F) = N /\ O \in Seq(Nat) /\ Len(O) = N
  BY KeptAre, FragmentsAre, FragmentOffsetsAre
<1>3. \A n \in 1..N : O[n] = IF n = 1 THEN 0 ELSE O[n - 1] + Len(F[n - 1]) + 2
  BY FragmentOffsetsAre
<1>4. ASSUME NEW k \in 0..N
      PROVE  /\ T(k) \in Seq(Characters) /\ M(k) \in Seq(Nat)
             /\ k = 0 => T(k) = <<>> /\ M(k) = <<>>
             /\ k # 0 => T(k) = T(k - 1) \o Pieces[k] /\ M(k) = M(k - 1) \o Marks[k]
  <2>1. k \in 0..Len(Pieces) /\ k \in 0..Len(Marks) BY <1>1
  <2>2. T(k) \in Seq(Characters) /\ (k = 0 => T(k) = <<>>) /\ (k # 0 => T(k) = T(k - 1) \o Pieces[k])
    BY <1>1, <2>1, FlattenGrows
  <2>3. M(k) \in Seq(Nat) /\ (k = 0 => M(k) = <<>>) /\ (k # 0 => M(k) = M(k - 1) \o Marks[k])
    BY <1>1, <2>1, FlattenGrows
  <2> HIDE DEF T, M
  <2> QED BY <2>2, <2>3
<1> HIDE DEF T, M, O, F, N
<1>5. Good(0)
  <2>1. 0 \in 0..N BY <1>2
  <2>2. T(0) = <<>> /\ M(0) = <<>> BY <1>4, <2>1
  <2>3. Len(T(0)) = 0 /\ Len(M(0)) = 0 BY <2>2
  <2>4. Between(T(0), F, O, 0) BY <2>3 DEF Between
  <2>5. Laid(T(0), M(0), F, O, Kept, 0) BY <2>3, <2>4 DEF Laid
  <2> QED BY <2>3, <2>5
<1>6. 0 \in P
  <2> HIDE DEF Good
  <2> QED BY <1>5
<1>7. ASSUME NEW k \in Nat, k \in P PROVE k + 1 \in P
  <2> SUFFICES ASSUME k + 1 <= N PROVE Good(k + 1)
    <3> HIDE DEF Good
    <3> QED OBVIOUS
  <2>1. Good(k) /\ k <= N
    <3> HIDE DEF Good
    <3> QED BY <1>2, <1>7
  <2>2. PICK j : j = k + 1 OBVIOUS
  <2>3. j \in 0..N /\ j # 0 /\ j - 1 = k /\ j \in 1..N /\ k \in 0..N BY <1>2, <2>2
  <2>4. PICK t, v, piece, mark :
          t = T(k) /\ v = M(k) /\ piece = Pieces[j] /\ mark = Marks[j]
    OBVIOUS
  <2>5. T(j) = t \o piece /\ M(j) = v \o mark BY <1>4, <2>3, <2>4
  <2>6. /\ t \in Seq(Characters) /\ v \in Seq(Nat)
        /\ piece \in Seq(Characters) /\ mark \in Seq(Nat)
    BY <1>1, <1>4, <2>3, <2>4
  <2>7. /\ LeadIn(piece, F[j], LeadOf(j)) /\ LeadOf(j) \in Nat
        /\ Len(mark) = Len(piece) /\ Names(mark, Kept[j], Len(piece))
    BY <1>1, <2>3, <2>4
  <2>9. /\ Laid(t, v, F, O, Kept, k)
        /\ Len(t) = IF k = 0 THEN 0 ELSE O[k] + Len(F[k])
    BY <2>1, <2>4
  <2> HIDE DEF P
  <2>10. O[j] = Len(t) + LeadOf(j)
    <3>1. CASE k = 0
      <4>1. j = 1 BY <2>2, <3>1
      <4>2. O[j] = 0 BY <1>3, <2>3, <4>1
      <4> QED BY <2>9, <3>1, <4>1, <4>2 DEF LeadOf
    <3>2. CASE k # 0
      <4>1. j # 1 /\ k \in 1..N BY <2>3, <3>2
      <4>2. O[j] = O[k] + Len(F[k]) + 2 BY <1>3, <2>3, <4>1
      <4>3. Len(t) = O[k] + Len(F[k]) BY <2>9, <3>2
      <4>4. Len(t) \in Nat BY <2>6
      <4> QED BY <4>1, <4>2, <4>3, <4>4 DEF LeadOf
    <3> QED BY <3>1, <3>2
  <2>11. k + 1 <= Len(F) /\ Len(O) = Len(F) /\ F \in Seq(Seq(Characters)) /\ O \in Seq(Nat)
    BY <1>2
  <2>12. /\ LeadIn(piece, F[k + 1], LeadOf(j)) /\ O[k + 1] = Len(t) + LeadOf(j)
         /\ Names(mark, Kept[k + 1], Len(piece))
    BY <2>2, <2>7, <2>10
  <2>13. /\ Len(t \o piece) = O[k + 1] + Len(F[k + 1])
         /\ Laid(t \o piece, v \o mark, F, O, Kept, k + 1)
    BY <2>6, <2>7, <2>9, <2>11, <2>12, LayingOn
  <2>14. Len(T(j)) = O[j] + Len(F[j]) /\ Laid(T(j), M(j), F, O, Kept, j)
    BY <2>2, <2>5, <2>13
  <2> QED BY <2>2, <2>3, <2>14
<1>8. Good(N)
  <2>1. N \in P
    <3> HIDE DEF P
    <3> QED BY <1>2, <1>6, <1>7, Induction
  <2> HIDE DEF Good
  <2> QED BY <1>2, <2>1
<1>9. SubSeq(Pieces, 1, N) = Pieces /\ SubSeq(Marks, 1, N) = Marks
  BY <1>1, SubSeqFull
<1>10. T(N) = NormalizedText /\ M(N) = TextMarks
  BY <1>9 DEF T, M, NormalizedText, TextMarks
<1>11. N \in 0..N BY <1>2
<1>12. NormalizedText \in Seq(Characters) /\ TextMarks \in Seq(Nat)
  BY <1>4, <1>10, <1>11
<1> QED BY <1>8, <1>10, <1>12 DEF O, F, N

\* The signs of the text are those of the sections, and each is counted to its section.
LEMMA NormalizedSigns ==
  ASSUME sections \in Seq(Seq(RawCharacters))
  PROVE  /\ SignsOf(NormalizedText) = FlattenSeq([i \in DOMAIN sections |-> SignsOf(sections[i])])
         /\ Picked(NormalizedText, TextMarks) = SignSections
<1> DEFINE N == Len(Kept)
           signs == [i \in DOMAIN sections |-> SignsOf(sections[i])]
           numbers == [i \in DOMAIN sections |-> [n \in DOMAIN SignsOf(sections[i]) |-> i]]
           keptSigns == [n \in 1..N |-> SignsOf(sections[Kept[n]])]
           keptNumbers == [n \in 1..N |-> [k \in DOMAIN SignsOf(sections[Kept[n]]) |-> Kept[n]]]
<1>1. /\ N \in Nat /\ Len(sections) \in Nat /\ DOMAIN sections = 1..Len(sections)
      /\ KeptSections \in SUBSET (1..Len(sections))
      /\ Enumerates(Kept, N, KeptSections)
      /\ \A n \in 1..N : Kept[n] \in KeptSections /\ Kept[n] \in 1..Len(sections)
  <2>1. DOMAIN sections = 1..Len(sections) OBVIOUS
  <2> QED BY <2>1, KeptAre
<1>2. ASSUME NEW i \in 1..Len(sections)
      PROVE  /\ SignsOf(sections[i]) \in Seq(RawCharacters)
             /\ [n \in DOMAIN SignsOf(sections[i]) |-> i] \in Seq(Nat)
             /\ i \notin KeptSections => /\ SignsOf(sections[i]) = <<>>
                                         /\ [n \in DOMAIN SignsOf(sections[i]) |-> i] = <<>>
  <2>1. PICK s : s = sections[i] OBVIOUS
  <2>2. s \in Seq(RawCharacters) BY <2>1
  <2>3. Picked(s, s) \in Seq(RawCharacters) BY <2>2, PickedType
  <2>4. PICK p : p = SignsOf(s) OBVIOUS
  <2>5. p \in Seq(RawCharacters) BY <2>3, <2>4, SignsArePicked
  <2>6. [n \in DOMAIN p |-> i] \in Seq(Nat)
    <3>1. Len(p) \in Nat /\ DOMAIN p = 1..Len(p) BY <2>5
    <3>2. i \in Nat BY <1>1
    <3>3. [n \in DOMAIN p |-> i] \in [1..Len(p) -> Nat] BY <3>1, <3>2
    <3> QED BY <3>1, <3>3, FunctionIsSequence
  <2>7. ASSUME i \notin KeptSections PROVE p = <<>> /\ [n \in DOMAIN p |-> i] = <<>>
    <3>1. PICK f : f = Fragment(s) OBVIOUS
    <3>2. f \in Seq(Characters) /\ SignsOf(f) = p BY <2>2, <2>4, <3>1, FragmentKeepsSigns
    <3>3. Blank(f) BY <1>1, <2>1, <2>7, <3>1 DEF KeptSections
    <3>4. SignsAt(f) = {} BY <3>3 DEF SignsAt, Blank, Signs, Spaces, Blanks
    <3>5. Picked(f, f) = <<>> BY <3>2, <3>4, PickedNothing
    <3>6. p = <<>> BY <3>2, <3>5, SignsArePicked
    <3>7. DOMAIN p = {} BY <3>6
    <3>8. [n \in DOMAIN p |-> i] \in [1..0 -> {}] BY <3>7
    <3>9. \A e : e \in [1..0 -> {}] => e = <<>> OBVIOUS
    <3> QED BY <3>6, <3>8, <3>9
  <2> QED BY <2>1, <2>4, <2>5, <2>6, <2>7
<1> HIDE DEF N
<1>3. /\ signs \in Seq(Seq(RawCharacters)) /\ numbers \in Seq(Seq(Nat))
      /\ Len(signs) = Len(sections) /\ Len(numbers) = Len(sections)
      /\ \A i \in 1..Len(sections) : /\ signs[i] = SignsOf(sections[i])
                                     /\ numbers[i] = [n \in DOMAIN SignsOf(sections[i]) |-> i]
  <2>1. signs \in [1..Len(sections) -> Seq(RawCharacters)] BY <1>1, <1>2
  <2>2. numbers \in [1..Len(sections) -> Seq(Nat)] BY <1>1, <1>2
  <2>3. \A i \in 1..Len(sections) : /\ signs[i] = SignsOf(sections[i])
                                    /\ numbers[i] = [n \in DOMAIN SignsOf(sections[i]) |-> i]
    BY <1>1
  <2> HIDE DEF signs, numbers
  <2>4. signs \in Seq(Seq(RawCharacters)) /\ Len(signs) = Len(sections)
    BY <1>1, <2>1, FunctionIsSequence
  <2>5. numbers \in Seq(Seq(Nat)) /\ Len(numbers) = Len(sections)
    BY <1>1, <2>2, FunctionIsSequence
  <2> QED BY <2>3, <2>4, <2>5
<1>4. ASSUME NEW n \in 1..N
      PROVE  /\ keptSigns[n] = Picked(Pieces[n], Pieces[n])
             /\ keptNumbers[n] = Picked(Pieces[n], Marks[n])
             /\ keptSigns[n] = signs[Kept[n]] /\ keptNumbers[n] = numbers[Kept[n]]
             /\ keptSigns[n] \in Seq(Characters) /\ keptNumbers[n] \in Seq(Nat)
  <2>1. PICK piece, part, mark : piece = Pieces[n] /\ part = Fragments[n] /\ mark = Marks[n]
    OBVIOUS
  <2>2. /\ piece \in Seq(Characters) /\ Names(mark, Kept[n], Len(piece))
        /\ LeadIn(piece, part, LeadOf(n)) /\ LeadOf(n) \in Nat
    BY <2>1, PiecesAre DEF N
  <2>3. part \in Seq(Characters) /\ SignsOf(part) = SignsOf(sections[Kept[n]])
    BY <2>1, FragmentsAre DEF N
  <2>4. /\ Picked(piece, piece) = SignsOf(part)
        /\ Picked(piece, mark) = [k \in DOMAIN SignsOf(part) |-> Kept[n]]
    BY <2>2, <2>3, LeadInKeepsSigns
  <2>5. /\ keptSigns[n] = SignsOf(sections[Kept[n]])
        /\ keptNumbers[n] = [k \in DOMAIN SignsOf(sections[Kept[n]]) |-> Kept[n]]
    OBVIOUS
  <2>6. Kept[n] \in 1..Len(sections) BY <1>1
  <2>7. Picked(piece, piece) \in Seq(Characters) BY <2>2, PickedType
  <2> HIDE DEF keptSigns, keptNumbers, signs, numbers
  <2>8. keptSigns[n] = signs[Kept[n]] /\ keptNumbers[n] = numbers[Kept[n]]
    BY <1>3, <2>5, <2>6
  <2>9. numbers[Kept[n]] \in Seq(Nat) BY <1>3, <2>6
  <2> QED BY <2>1, <2>3, <2>4, <2>5, <2>7, <2>8, <2>9
<1>5. /\ keptSigns \in Seq(Seq(Characters)) /\ keptSigns \in Seq(Seq(RawCharacters))
      /\ keptNumbers \in Seq(Seq(Nat)) /\ Len(keptSigns) = N /\ Len(keptNumbers) = N
  <2>1. keptSigns = [n \in 1..N |-> keptSigns[n]] /\ keptNumbers = [n \in 1..N |-> keptNumbers[n]]
    OBVIOUS
  <2> HIDE DEF keptSigns, keptNumbers, signs, numbers
  <2>2. /\ keptSigns \in [1..N -> Seq(Characters)] /\ keptNumbers \in [1..N -> Seq(Nat)]
    BY <1>4, <2>1
  <2>3. \A x : x \in Seq(Characters) => x \in Seq(RawCharacters)
    BY SequenceInLarger DEF RawCharacters
  <2>4. keptSigns \in [1..N -> Seq(RawCharacters)]
    BY <2>2, <2>3
  <2> QED BY <1>1, <2>2, <2>4, FunctionIsSequence
<1> HIDE DEF keptSigns, keptNumbers, signs, numbers
<1>6. FlattenSeq(keptSigns) = FlattenSeq(signs)
  <2>1. \A i \in 1..Len(signs) : i \notin KeptSections => signs[i] = <<>>
    BY <1>2, <1>3
  <2>2. LeavesOut(keptSigns, signs, Kept, N, KeptSections) BY <1>4, <1>5, <2>1 DEF LeavesOut
  <2>3. KeptSections \in SUBSET (1..Len(signs)) /\ N \in Nat BY <1>1, <1>3
  <2>4. signs \in Seq(Seq(RawCharacters)) /\ keptSigns \in Seq(Seq(RawCharacters)) /\ Len(keptSigns) = N
    BY <1>3, <1>5
  <2>5. Enumerates(Kept, N, KeptSections) BY <1>1
  <2> QED BY <2>2, <2>3, <2>4, <2>5, FlattenSkips
<1>7. FlattenSeq(keptNumbers) = FlattenSeq(numbers)
  <2>1. \A i \in 1..Len(numbers) : i \notin KeptSections => numbers[i] = <<>>
    BY <1>2, <1>3
  <2>2. LeavesOut(keptNumbers, numbers, Kept, N, KeptSections) BY <1>4, <1>5, <2>1 DEF LeavesOut
  <2>3. KeptSections \in SUBSET (1..Len(numbers)) /\ N \in Nat BY <1>1, <1>3
  <2>4. numbers \in Seq(Seq(Nat)) /\ keptNumbers \in Seq(Seq(Nat)) /\ Len(keptNumbers) = N
    BY <1>3, <1>5
  <2>5. Enumerates(Kept, N, KeptSections) BY <1>1
  <2> QED BY <2>2, <2>3, <2>4, <2>5, FlattenSkips
<1>8. /\ Pieces \in Seq(Seq(Characters)) /\ Len(Pieces) = N
      /\ Marks \in Seq(Seq(Nat)) /\ Len(Marks) = N
      /\ \A n \in 1..N : Len(Marks[n]) = Len(Pieces[n])
  BY PiecesAre DEF N
<1>9. Picked(FlattenSeq(Pieces), FlattenSeq(Pieces)) = FlattenSeq(keptSigns)
  <2>1. EachPicked(keptSigns, Pieces, Pieces) BY <1>4, <1>5, <1>8 DEF EachPicked
  <2> QED BY <1>5, <1>8, <2>1, PickedFlattened
<1>10. Picked(FlattenSeq(Pieces), FlattenSeq(Marks)) = FlattenSeq(keptNumbers)
  <2>1. EachPicked(keptNumbers, Pieces, Marks) BY <1>4, <1>5, <1>8 DEF EachPicked
  <2> QED BY <1>5, <1>8, <2>1, PickedFlattened
<1>11. SignsOf(NormalizedText) = FlattenSeq(signs)
  BY <1>6, <1>9, SignsArePicked DEF NormalizedText
<1>12. Picked(NormalizedText, TextMarks) = FlattenSeq(numbers)
  BY <1>7, <1>10 DEF NormalizedText, TextMarks
<1> QED BY <1>11, <1>12 DEF signs, numbers, SignSections

--------------------------------------------------------------------------------
(* Documents. *)

DocumentTypes ==
  /\ kind \in {"text", "pdf"}
  /\ sections \in Seq(Seq(RawCharacters))
  /\ kind = "text" => Len(sections) = 1
  /\ at \in {"read", "unreadable", "empty", "parsed", "normalized"}

\* The loop has not been entered.
Unentered == next_start = 0 /\ chunks = <<>> /\ done = FALSE

\* The spans are those of the fragments.
SpansAreLaid ==
  spans = [n \in 1..Len(Kept) |->
             [start |-> FragmentOffsets[n], end |-> FragmentOffsets[n] + Len(Fragments[n]),
              page |-> PageOf(Kept[n])]]

\* The text is normalised: it is laid out as the spans say, and not empty; the loop has
\* begun on it.
Normalized ==
  /\ IInv
  /\ Len(Kept) # 0
  /\ text = NormalizedText
  /\ SpansAreLaid

DocumentIInv ==
  /\ DocumentTypes
  /\ at # "normalized" => Unentered
  /\ at = "normalized" => Normalized
  /\ at = "empty" => \A i \in DOMAIN sections : SignsOf(sections[i]) = <<>>

LEMMA DocumentInitHolds == DocumentInit => DocumentIInv
<1> SUFFICES ASSUME DocumentInit PROVE DocumentIInv
  OBVIOUS
<1>1. PICK d \in Sources : kind = d.kind /\ sections = d.pages
  BY DEF DocumentInit
<1>2. DocumentTypes
  BY <1>1, SourcesAssumption DEF DocumentInit, DocumentTypes
<1>3. Unentered /\ at = "read"
  BY DEF DocumentInit, Unentered
<1> QED BY <1>2, <1>3 DEF DocumentIInv

\* Blank texts have no signs.
LEMMA BlankHasNoSigns ==
  ASSUME NEW C, NEW t \in Seq(C), Blank(t)
  PROVE  SignsOf(t) = <<>>
<1>1. SignsAt(t) = {}
  BY DEF SignsAt, Blank, Signs, Spaces, Blanks
<1>2. Picked(t, t) = <<>>
  BY <1>1, PickedNothing
<1> QED BY <1>2, SignsArePicked

LEMMA ParsingHolds == DocumentIInv /\ Parse => DocumentIInv'
<1> SUFFICES ASSUME DocumentIInv, Parse PROVE DocumentIInv'
  OBVIOUS
<1>1. /\ DocumentTypes /\ at = "read" /\ Unentered
  BY DEF DocumentIInv, Parse
<1>2. UNCHANGED <<kind, next_start, chunks, done>>
  BY DEF Parse, vars
<1>3. Unentered'
  BY <1>1, <1>2 DEF Unentered
<1>4. PICK texts : texts = IF kind = "text" THEN <<WithoutMark(sections[1])>> ELSE sections
  OBVIOUS
<1>5. \/ at' = "unreadable" /\ UNCHANGED sections
      \/ /\ \A i \in DOMAIN texts : Blank(texts[i])
         /\ at' = "empty" /\ UNCHANGED sections
      \/ at' = "parsed" /\ sections' = texts
  BY <1>4 DEF Parse
<1>6. /\ texts \in Seq(Seq(RawCharacters)) /\ Len(texts) = Len(sections)
      /\ \A i \in 1..Len(sections) : SignsOf(texts[i]) = SignsOf(sections[i])
  <2>1. CASE kind = "text"
    <3>1. Len(sections) = 1 /\ sections \in Seq(Seq(RawCharacters)) BY <1>1, <2>1 DEF DocumentTypes
    <3>2. PICK s, u : s = sections[1] /\ u = WithoutMark(s) OBVIOUS
    <3>3. s \in Seq(RawCharacters) BY <3>1, <3>2
    <3>4. u \in Seq(RawCharacters) /\ SignsOf(u) = SignsOf(s) BY <3>2, <3>3, MarkIsNoSign
    <3>5. texts = <<u>> BY <1>4, <2>1, <3>2
    <3>6. texts \in Seq(Seq(RawCharacters)) /\ Len(texts) = 1 /\ texts[1] = u BY <3>4, <3>5
    <3>7. \A i \in 1..Len(sections) : i = 1 BY <3>1
    <3> QED BY <3>1, <3>2, <3>4, <3>6, <3>7
  <2>2. CASE kind # "text"
    BY <1>1, <1>4, <2>2 DEF DocumentTypes
  <2> QED BY <2>1, <2>2
<1>7. CASE at' = "unreadable" /\ UNCHANGED sections
  BY <1>1, <1>2, <1>3, <1>7 DEF DocumentIInv, DocumentTypes
<1>8. CASE /\ \A i \in DOMAIN texts : Blank(texts[i])
           /\ at' = "empty" /\ UNCHANGED sections
  <2>1. DocumentTypes'
    BY <1>1, <1>2, <1>8 DEF DocumentTypes
  <2>2. ASSUME NEW i \in 1..Len(sections) PROVE SignsOf(sections[i]) = <<>>
    <3>1. PICK t : t = texts[i] OBVIOUS
    <3>2. i \in DOMAIN texts /\ t \in Seq(RawCharacters) BY <1>6, <3>1
    <3>3. SignsOf(t) = <<>> BY <1>8, <3>1, <3>2, BlankHasNoSigns
    <3> QED BY <1>6, <3>1, <3>3
  <2>3. DOMAIN sections = 1..Len(sections)
    BY <1>1 DEF DocumentTypes
  <2>4. \A i \in DOMAIN sections' : SignsOf(sections'[i]) = <<>>
    BY <1>8, <2>2, <2>3
  <2>5. (\A i \in DOMAIN sections : SignsOf(sections[i]) = <<>>)'
    BY <2>4 DEF SignsOf, SignPlaces, InOrder
  <2> QED BY <1>3, <1>8, <2>1, <2>5 DEF DocumentIInv
<1>9. CASE at' = "parsed" /\ sections' = texts
  <2>1. DocumentTypes'
    BY <1>1, <1>2, <1>6, <1>9 DEF DocumentTypes
  <2> QED BY <1>3, <1>9, <2>1 DEF DocumentIInv
<1> QED BY <1>5, <1>7, <1>8, <1>9

LEMMA NormalizingHolds == DocumentIInv /\ Normalize => DocumentIInv'
<1> SUFFICES ASSUME DocumentIInv, Normalize PROVE DocumentIInv'
  OBVIOUS
<1>1. /\ DocumentTypes /\ at = "parsed" /\ Unentered /\ sections \in Seq(Seq(RawCharacters))
  BY DEF DocumentIInv, Normalize, DocumentTypes
<1>2. UNCHANGED <<kind, sections, next_start, chunks, done>>
  BY DEF Normalize
<1>3. Unentered'
  BY <1>1, <1>2 DEF Unentered
<1>4. DOMAIN Kept = 1..Len(Kept) /\ Len(Kept) \in Nat /\ DOMAIN Fragments = 1..Len(Kept)
  BY <1>1, KeptAre, FragmentsAre
<1>5. /\ text' = NormalizedText
      /\ spans' = [n \in DOMAIN Fragments |->
                     [start |-> FragmentOffsets[n], end |-> FragmentOffsets[n] + Len(Fragments[n]),
                      page |-> PageOf(Kept[n])]]
      /\ IF Fragments = <<>>
           THEN at' = "empty" /\ UNCHANGED <<chunk_size, overlap>>
           ELSE /\ at' = "normalized"
                /\ chunk_size' \in 1..MaxSize
                /\ overlap' \in 0..(chunk_size' - 1)
  BY DEF Normalize, NormalizedText, Pieces, Fragments, FragmentOffsets, Lengths
<1>6. NormalizedText' = NormalizedText /\ Kept' = Kept /\ Fragments' = Fragments
      /\ FragmentOffsets' = FragmentOffsets
  BY <1>2 DEF NormalizedText, Pieces, Fragments, FragmentOffsets, Lengths, Kept
<1>7. DocumentTypes'
  BY <1>1, <1>2, <1>5 DEF DocumentTypes
<1>8. CASE Fragments = <<>>
  <2>1. at' = "empty" BY <1>5, <1>8
  <2>2. Len(Kept) = 0 BY <1>4, <1>8
  <2>3. ASSUME NEW i \in 1..Len(sections) PROVE SignsOf(sections[i]) = <<>>
    <3>1. KeptSections = {}
      <4>1. Enumerates(Kept, 0, KeptSections) BY <1>1, <2>2, KeptAre
      <4>2. \A j \in KeptSections : \E n \in 1..0 : Kept[n] = j BY <4>1 DEF Enumerates
      <4> QED BY <4>2
    <3>2. PICK s, f : s = sections[i] /\ f = Fragment(s) OBVIOUS
    <3>3. i \in DOMAIN sections /\ s \in Seq(RawCharacters) BY <1>1, <3>2
    <3>4. f \in Seq(Characters) /\ SignsOf(f) = SignsOf(s) BY <3>2, <3>3, FragmentKeepsSigns
    <3>5. Blank(f) BY <3>1, <3>2, <3>3 DEF KeptSections
    <3>6. SignsOf(f) = <<>> BY <3>4, <3>5, BlankHasNoSigns
    <3> QED BY <3>2, <3>4, <3>6
  <2>4. DOMAIN sections = 1..Len(sections) BY <1>1
  <2>5. (\A i \in DOMAIN sections : SignsOf(sections[i]) = <<>>)'
    BY <1>2, <2>3, <2>4 DEF SignsOf, SignPlaces, InOrder
  <2> QED BY <1>3, <1>7, <2>1, <2>5 DEF DocumentIInv
<1>9. CASE Fragments # <<>>
  <2>1. /\ at' = "normalized"
        /\ chunk_size' \in 1..MaxSize
        /\ overlap' \in 0..(chunk_size' - 1)
    BY <1>5, <1>9
  <2>2. Len(Kept) # 0
    <3> SUFFICES ASSUME Len(Kept) = 0 PROVE FALSE
      OBVIOUS
    <3>1. Fragments \in Seq(Seq(Characters)) /\ Len(Fragments) = 0 BY <1>1, FragmentsAre
    <3>2. \A C : \A f \in Seq(C) : Len(f) = 0 => f = <<>> OBVIOUS
    <3> QED BY <1>9, <3>1, <3>2
  <2>3. text' \in Seq(Characters)
    BY <1>1, <1>5, LaidOut
  <2>4. Begun'
    BY <1>3, <2>1, <2>3 DEF Begun, Unentered
  <2>5. IInv'
    BY <2>4, BegunHolds, PTL
  <2>6. SpansAreLaid'
    <3> QED BY <1>2, <1>4, <1>5, <1>6 DEF SpansAreLaid, PageOf
  <2>7. Normalized'
    BY <1>5, <1>6, <2>2, <2>5, <2>6 DEF Normalized
  <2> QED BY <1>7, <2>1, <2>7 DEF DocumentIInv
<1> QED BY <1>8, <1>9

LEMMA ChunkingHolds == DocumentIInv /\ ChunkText => DocumentIInv'
<1> SUFFICES ASSUME DocumentIInv, ChunkText PROVE DocumentIInv'
  OBVIOUS
<1>1. at = "normalized" /\ Next /\ UNCHANGED <<kind, sections, spans, at>>
  BY DEF ChunkText, documentVars
<1>2. DocumentTypes /\ Normalized
  BY <1>1 DEF DocumentIInv
<1>3. IInv'
  BY <1>1, <1>2, LeavingHolds, AppendingHolds DEF Next, Normalized
<1>4. text' = text
  BY <1>1 DEF Next, AppendChunk, LeaveLoop, config
<1>5. Normalized'
  BY <1>1, <1>2, <1>3, <1>4
     DEF Normalized, SpansAreLaid, NormalizedText, Pieces, Fragments, FragmentOffsets, Lengths, Kept, PageOf
<1>6. DocumentTypes'
  BY <1>1, <1>2 DEF DocumentTypes
<1> QED BY <1>1, <1>5, <1>6 DEF DocumentIInv

\* The invariant of a document, whatever its source.
THEOREM DocumentInvariantHolds == DocumentSpec => []DocumentIInv
<1>1. DocumentIInv /\ UNCHANGED allVars => DocumentIInv'
  <2> SUFFICES ASSUME DocumentIInv, UNCHANGED allVars PROVE DocumentIInv'
    OBVIOUS
  <2>1. UNCHANGED vars /\ UNCHANGED <<kind, sections, spans, at>>
    BY DEF allVars, documentVars
  <2>2. UNCHANGED <<text, chunk_size, overlap, next_start, chunks, done>>
    BY <2>1 DEF vars
  <2>3. DocumentTypes' BY <2>1 DEF DocumentIInv, DocumentTypes
  <2>4. at # "normalized" => Unentered' BY <2>2 DEF DocumentIInv, Unentered
  <2>5. ASSUME at = "normalized" PROVE Normalized'
    <3>1. Normalized BY <2>5 DEF DocumentIInv
    <3>2. IInv' BY <2>1, <3>1, StutteringHolds DEF Normalized
    <3> QED BY <2>1, <2>2, <3>1, <3>2
         DEF Normalized, SpansAreLaid, NormalizedText, Pieces, Fragments, FragmentOffsets, Lengths, Kept, PageOf
  <2>6. at = "empty" => (\A i \in DOMAIN sections : SignsOf(sections[i]) = <<>>)'
    BY <2>1 DEF DocumentIInv, SignsOf, SignPlaces, InOrder
  <2> QED BY <2>1, <2>3, <2>4, <2>5, <2>6 DEF DocumentIInv
<1>2. DocumentIInv /\ [DocumentNext]_allVars => DocumentIInv'
  BY <1>1, ParsingHolds, NormalizingHolds, ChunkingHolds DEF DocumentNext
<1> QED BY DocumentInitHolds, <1>2, PTL DEF DocumentSpec

--------------------------------------------------------------------------------
(* What holds of every document. *)

\* A fragment that is kept has a character that is no white space, and where the text
\* has it.
LEMMA FragmentStands ==
  ASSUME DocumentTypes, Normalized, NEW n \in 1..Len(Kept)
  PROVE  /\ FragmentOffsets[n] \in Nat /\ Len(Fragments[n]) \in Nat
         /\ \A i \in 1..Len(Fragments[n]) :
              /\ FragmentOffsets[n] + i \in 1..Len(text)
              /\ text[FragmentOffsets[n] + i] = Fragments[n][i]
              /\ TextMarks[FragmentOffsets[n] + i] = Kept[n]
         /\ \E i \in 1..Len(Fragments[n]) : Fragments[n][i] \notin Spaces
<1>1. sections \in Seq(Seq(RawCharacters)) /\ text = NormalizedText
  BY DEF DocumentTypes, Normalized
<1>2. FragmentOffsets \in Seq(Nat) /\ Len(FragmentOffsets) = Len(Kept)
  BY <1>1, FragmentOffsetsAre
<1>3. Stands(text, TextMarks, Fragments, FragmentOffsets, Kept, n)
  BY <1>1, LaidOut DEF Laid
<1>4. PICK f : f = Fragments[n] OBVIOUS
<1>5. f \in Seq(Characters) /\ ~Blank(f)
  BY <1>1, <1>4, FragmentsAre
<1>6. PICK i \in 1..Len(f) : f[i] \notin Spaces
  BY <1>5 DEF Blank
<1> QED BY <1>2, <1>3, <1>4, <1>5, <1>6 DEF Stands

\* Every document that is accepted has a chunk.
LEMMA SomethingIsCut == DocumentIInv => (done => chunks # <<>>)
<1> SUFFICES ASSUME DocumentIInv, done PROVE chunks # <<>>
  OBVIOUS
<1>1. DocumentTypes /\ Normalized
  BY DEF DocumentIInv, Unentered
<1>2. Len(Kept) # 0 /\ Len(Kept) \in Nat
  BY <1>1, KeptAre DEF Normalized, DocumentTypes
<1>3. 1 \in 1..Len(Kept)
  BY <1>2
<1>4. PICK k : k = 1 OBVIOUS
<1>5. k \in 1..Len(Kept) BY <1>3, <1>4
<1>6. PICK i \in 1..Len(Fragments[k]) : Fragments[k][i] \notin Spaces
  BY <1>1, <1>5, FragmentStands
<1>7. PICK p : p = FragmentOffsets[k] + i OBVIOUS
<1>8. p \in 1..Len(text) /\ text[p] \notin Spaces
  BY <1>1, <1>5, <1>6, <1>7, FragmentStands
<1>9. Len(text) \in Nat
  BY <1>1 DEF Normalized, IInv, TypeOK
<1>10. PICK o : o = p - 1 OBVIOUS
<1>11. o \in 0..(Len(text) - 1) /\ o + 1 = p BY <1>8, <1>9, <1>10
<1>12. At(o) \notin Spaces BY <1>8, <1>11 DEF At
<1>13. InChunk(o)
  BY <1>1, <1>11, <1>12 DEF Normalized, IInv, NothingLost
<1>14. PICK n \in 1..Len(chunks) : chunks[n].start <= o
  BY <1>13 DEF InChunk
<1>15. Len(<<>>) = 0 OBVIOUS
<1> QED BY <1>14, <1>15

\* Normalisation keeps every sign, in order, and adds none; what is refused as empty has
\* none, and what is accepted has a chunk.
THEOREM DocumentsAreKept == DocumentSpec => []DocumentKept
<1>1. ASSUME DocumentIInv PROVE DocumentKept
  <2>1. at = "normalized" => SignsOf(text) = FlattenSeq([i \in DOMAIN sections |-> SignsOf(sections[i])])
    BY <1>1, NormalizedSigns DEF DocumentIInv, DocumentTypes, Normalized
  <2>2. at = "empty" => \A i \in DOMAIN sections : SignsOf(sections[i]) = <<>>
    BY <1>1 DEF DocumentIInv
  <2>3. done => chunks # <<>>
    BY <1>1, SomethingIsCut
  <2> QED BY <2>1, <2>2, <2>3 DEF DocumentKept
<1> QED BY DocumentInvariantHolds, <1>1, PTL

\* The chunk loop loses no text of any document.
THEOREM NothingOfDocumentsLost == DocumentSpec => []NothingLost
<1>1. ASSUME DocumentIInv PROVE NothingLost
  <2>1. CASE at = "normalized"
    BY <1>1, <2>1 DEF DocumentIInv, Normalized, IInv
  <2>2. CASE at # "normalized"
    BY <1>1, <2>2 DEF DocumentIInv, Unentered, NothingLost
  <2> QED BY <2>1, <2>2
<1> QED BY DocumentInvariantHolds, <1>1, PTL

\* The chunks of every document fit.
THEOREM ChunksOfDocumentsFit == DocumentSpec => []ChunksFit
<1>1. ASSUME DocumentIInv PROVE ChunksFit
  <2>1. CASE at = "normalized"
    BY <1>1, <2>1 DEF DocumentIInv, Normalized, IInv, ChunksFit
  <2>2. CASE at # "normalized"
    <3>1. chunks = <<>> /\ Len(chunks) = 0
      BY <1>1, <2>2 DEF DocumentIInv, Unentered
    <3> QED BY <3>1 DEF ChunksFit, EachFits, OverlapBounded
  <2> QED BY <2>1, <2>2
<1> QED BY DocumentInvariantHolds, <1>1, PTL

--------------------------------------------------------------------------------
(* Pages. *)

\* The sign at a place of the text is counted to the section it is marked with.
LEMMA SignSectionsAre ==
  ASSUME DocumentTypes, Normalized
  PROVE  /\ DOMAIN SignOffsets = DOMAIN SignPlaces(text)
         /\ \A k \in DOMAIN SignPlaces(text) :
              /\ SignPlaces(text)[k] \in 1..Len(text) /\ text[SignPlaces(text)[k]] \in Signs
              /\ SignOffsets[k] = SignPlaces(text)[k] - 1
              /\ SignSections[k] = TextMarks[SignPlaces(text)[k]]
         /\ \A p \in 1..Len(text) : text[p] \in Signs => \E k \in DOMAIN SignPlaces(text) : SignPlaces(text)[k] = p
<1>1. sections \in Seq(Seq(RawCharacters)) /\ text = NormalizedText /\ text \in Seq(Characters)
  BY DEF DocumentTypes, Normalized, IInv, TypeOK
<1>2. /\ DOMAIN SignPlaces(text) = 1..Len(SignPlaces(text))
      /\ Enumerates(SignPlaces(text), Len(SignPlaces(text)), SignsAt(text))
  BY <1>1, SignPlacesAre
<1>3. SignSections = [k \in DOMAIN SignPlaces(text) |-> TextMarks[SignPlaces(text)[k]]]
  BY <1>1, NormalizedSigns DEF Picked
<1>4. ASSUME NEW k \in DOMAIN SignPlaces(text)
      PROVE  SignPlaces(text)[k] \in 1..Len(text) /\ text[SignPlaces(text)[k]] \in Signs
  <2>1. SignPlaces(text)[k] \in SignsAt(text) BY <1>2 DEF Enumerates
  <2> QED BY <1>1, <2>1 DEF SignsAt
<1>5. ASSUME NEW p \in 1..Len(text), text[p] \in Signs
      PROVE  \E k \in DOMAIN SignPlaces(text) : SignPlaces(text)[k] = p
  <2>1. p \in SignsAt(text) BY <1>1, <1>5 DEF SignsAt
  <2> QED BY <1>2, <2>1 DEF Enumerates
<1> QED BY <1>3, <1>4, <1>5 DEF SignOffsets

\* The span of a fragment, and whose page it has.
LEMMA SpansAre ==
  ASSUME DocumentTypes, Normalized, kind = "pdf"
  PROVE  /\ DOMAIN spans = 1..Len(Kept)
         /\ \A n \in 1..Len(Kept) :
              /\ spans[n].start = FragmentOffsets[n]
              /\ spans[n].end = FragmentOffsets[n] + Len(Fragments[n])
              /\ spans[n].page = Kept[n] /\ Kept[n] # NoPage /\ Kept[n] \in 1..Len(sections)
<1>1. /\ Len(sections) \in Nat
      /\ \A n \in 1..Len(Kept) : Kept[n] \in 1..Len(sections)
  BY KeptAre DEF DocumentTypes
<1>2. \A n \in 1..Len(Kept) : Kept[n] # NoPage
  <2>1. \A n \in 1..Len(Kept) : Kept[n] \in Nat BY <1>1
  <2> QED BY <2>1, SourcesAssumption
<1>3. SpansAreLaid BY DEF Normalized
<1>4. /\ DOMAIN spans = 1..Len(Kept)
      /\ \A n \in 1..Len(Kept) :
           /\ spans[n].start = FragmentOffsets[n]
           /\ spans[n].end = FragmentOffsets[n] + Len(Fragments[n])
           /\ spans[n].page = PageOf(Kept[n])
  BY <1>3 DEF SpansAreLaid
<1> QED BY <1>1, <1>2, <1>4 DEF PageOf

\* A sign in a chunk brings its page.
LEMMA SignsBringPages ==
  ASSUME DocumentTypes, Normalized, kind = "pdf", NEW c \in Chunk,
         NEW k \in DOMAIN SignOffsets, c.start <= SignOffsets[k], SignOffsets[k] < c.end
  PROVE  SignSections[k] \in PageNumbers(c)
<1>1. PICK p : p = SignPlaces(text)[k] OBVIOUS
<1>2. /\ p \in 1..Len(text) /\ text[p] \in Signs /\ SignOffsets[k] = p - 1
      /\ SignSections[k] = TextMarks[p]
  BY <1>1, SignSectionsAre
<1>3. Len(text) \in Nat /\ p \in Nat
  <2>1. text \in Seq(Characters) BY DEF Normalized, IInv, TypeOK
  <2> QED BY <1>2, <2>1
<1>4. Between(text, Fragments, FragmentOffsets, Len(Kept))
  BY LaidOut DEF DocumentTypes, Normalized, Laid
<1>5. PICK m \in 1..Len(Kept) : FragmentOffsets[m] < p /\ p <= FragmentOffsets[m] + Len(Fragments[m])
  <2>1. text[p] # "newline" BY <1>2 DEF Signs
  <2> QED BY <1>2, <1>4, <2>1 DEF Between
<1>6. /\ FragmentOffsets[m] \in Nat /\ Len(Fragments[m]) \in Nat
      /\ \A i \in 1..Len(Fragments[m]) : TextMarks[FragmentOffsets[m] + i] = Kept[m]
  BY FragmentStands
<1>7. PICK i : i = p - FragmentOffsets[m] OBVIOUS
<1>8. i \in 1..Len(Fragments[m]) /\ FragmentOffsets[m] + i = p
  BY <1>3, <1>5, <1>6, <1>7
<1>9. SignSections[k] = Kept[m]
  BY <1>2, <1>6, <1>8
<1>10. /\ m \in DOMAIN spans /\ spans[m].start = FragmentOffsets[m]
       /\ spans[m].end = FragmentOffsets[m] + Len(Fragments[m])
       /\ spans[m].page = Kept[m] /\ Kept[m] # NoPage
  BY SpansAre
<1>11. c.start \in Nat /\ c.end \in Nat BY DEF Chunk
<1>12. ~(spans[m].start >= c.end \/ spans[m].end <= c.start)
  BY <1>2, <1>3, <1>5, <1>6, <1>10, <1>11
<1> QED BY <1>9, <1>10, <1>12 DEF PageNumbers

\* A span that meets a chunk has a character in it that is no white space.
LEMMA SpansMeetInText ==
  ASSUME DocumentTypes, Normalized, kind = "pdf", NEW n \in 1..Len(chunks),
         NEW m \in 1..Len(Kept),
         ~(spans[m].start >= chunks[n].end \/ spans[m].end <= chunks[n].start)
  PROVE  \E p \in 1..Len(text) :
           /\ chunks[n].start <= p - 1 /\ p - 1 < chunks[n].end
           /\ FragmentOffsets[m] < p /\ p <= FragmentOffsets[m] + Len(Fragments[m])
           /\ text[p] \notin Spaces
<1>1. PICK s, e, o, l, size :
        /\ s = chunks[n].start /\ e = chunks[n].end
        /\ o = FragmentOffsets[m] /\ l = Len(Fragments[m]) /\ size = Len(text)
  OBVIOUS
<1>2. chunks[n] \in Chunk
  <2>1. chunks \in Seq(Chunk) BY DEF Normalized, IInv, TypeOK
  <2> QED BY <2>1
<1>3. /\ s < e /\ e <= size /\ s \in Nat /\ e \in Nat /\ size \in Nat
      /\ At(s) \notin Spaces /\ At(e - 1) \notin Spaces
  <2>1. s \in Nat /\ e \in Nat BY <1>1, <1>2 DEF Chunk
  <2>2. s < e /\ e <= size /\ At(s) \notin Spaces /\ At(e - 1) \notin Spaces
    BY <1>1 DEF Normalized, IInv, EachFits
  <2>3. text \in Seq(Characters) BY DEF Normalized, IInv, TypeOK
  <2>4. size \in Nat BY <1>1, <2>3
  <2> QED BY <2>1, <2>2, <2>4
<1>4. spans[m].start = o /\ spans[m].end = o + l
  BY <1>1, SpansAre
<1>5. /\ o \in Nat /\ l \in Nat
      /\ \A i \in 1..l : o + i \in 1..size /\ text[o + i] = Fragments[m][i]
      /\ \E i \in 1..l : Fragments[m][i] \notin Spaces
  <2>1. /\ FragmentOffsets[m] \in Nat /\ Len(Fragments[m]) \in Nat
        /\ \A i \in 1..Len(Fragments[m]) :
             /\ FragmentOffsets[m] + i \in 1..Len(text)
             /\ text[FragmentOffsets[m] + i] = Fragments[m][i]
        /\ \E i \in 1..Len(Fragments[m]) : Fragments[m][i] \notin Spaces
    BY FragmentStands
  <2> QED BY <1>1, <2>1
<1>6. o < e /\ s < o + l
  <2>1. ~(o >= e \/ o + l <= s) BY <1>1, <1>4
  <2>2. o \in Nat /\ l \in Nat /\ e \in Nat /\ s \in Nat BY <1>3, <1>5
  <2> QED BY <2>1, <2>2
<1>7. text[s + 1] \notin Spaces /\ text[e] \notin Spaces
  <2>1. (e - 1) + 1 = e BY <1>3
  <2> QED BY <1>3, <2>1 DEF At
<1>8. \E p \in 1..size : s <= p - 1 /\ p - 1 < e /\ o < p /\ p <= o + l /\ text[p] \notin Spaces
  <2>1. CASE o <= s
    <3>1. PICK p : p = s + 1 OBVIOUS
    <3>2. p \in 1..size /\ s <= p - 1 /\ p - 1 < e /\ o < p /\ p <= o + l
      <4>1. o \in Nat /\ l \in Nat /\ e \in Nat /\ s \in Nat /\ size \in Nat BY <1>3, <1>5
      <4>2. s < e /\ e <= size /\ o < e /\ s < o + l BY <1>3, <1>6
      <4> QED BY <2>1, <3>1, <4>1, <4>2
    <3> QED BY <1>7, <3>1, <3>2
  <2>2. CASE s < o /\ e <= o + l
    <3>1. e \in 1..size /\ s <= e - 1 /\ e - 1 < e /\ o < e
      BY <1>3, <1>5, <1>6
    <3> QED BY <1>7, <2>2, <3>1
  <2>3. CASE s < o /\ o + l < e
    <3>1. PICK i \in 1..l : Fragments[m][i] \notin Spaces BY <1>5
    <3>2. PICK p : p = o + i OBVIOUS
    <3>3. p \in 1..size /\ text[p] \notin Spaces BY <1>5, <3>1, <3>2
    <3>4. s <= p - 1 /\ p - 1 < e /\ o < p /\ p <= o + l
      BY <1>3, <1>5, <2>3, <3>2
    <3> QED BY <3>3, <3>4
  <2> QED BY <1>3, <1>5, <2>1, <2>2, <2>3
<1> QED BY <1>1, <1>8

\* A page a chunk names has a sign in it, or holds a byte order mark.
LEMMA PagesBringSigns ==
  ASSUME DocumentTypes, Normalized, kind = "pdf", NEW n \in 1..Len(chunks),
         NEW page \in PageNumbers(chunks[n])
  PROVE  \/ \E k \in DOMAIN SignOffsets :
              /\ chunks[n].start <= SignOffsets[k] /\ SignOffsets[k] < chunks[n].end
              /\ SignSections[k] = page
         \/ "bom" \in {sections[page][k] : k \in DOMAIN sections[page]}
<1>1. PICK m \in DOMAIN spans :
        /\ ~(spans[m].start >= chunks[n].end \/ spans[m].end <= chunks[n].start)
        /\ page = spans[m].page
  BY DEF PageNumbers
<1>2. m \in 1..Len(Kept) /\ page = Kept[m] /\ Kept[m] \in 1..Len(sections)
  BY <1>1, SpansAre
<1>3. PICK p \in 1..Len(text) :
        /\ chunks[n].start <= p - 1 /\ p - 1 < chunks[n].end
        /\ FragmentOffsets[m] < p /\ p <= FragmentOffsets[m] + Len(Fragments[m])
        /\ text[p] \notin Spaces
  BY <1>1, <1>2, SpansMeetInText
<1>4. text \in Seq(Characters) /\ sections \in Seq(Seq(RawCharacters))
  BY DEF Normalized, IInv, TypeOK, DocumentTypes
<1>5. /\ FragmentOffsets[m] \in Nat /\ Len(Fragments[m]) \in Nat
      /\ \A i \in 1..Len(Fragments[m]) : /\ text[FragmentOffsets[m] + i] = Fragments[m][i]
                                         /\ TextMarks[FragmentOffsets[m] + i] = Kept[m]
  BY <1>2, FragmentStands
<1>6. PICK i : i = p - FragmentOffsets[m] OBVIOUS
<1>7. Len(text) \in Nat /\ p \in Nat
  BY <1>4
<1>8. i \in 1..Len(Fragments[m]) /\ FragmentOffsets[m] + i = p
  <2>1. FragmentOffsets[m] < p /\ p <= FragmentOffsets[m] + Len(Fragments[m]) BY <1>3
  <2>2. FragmentOffsets[m] \in Nat /\ Len(Fragments[m]) \in Nat /\ p \in Nat BY <1>5, <1>7
  <2> QED BY <1>6, <2>1, <2>2
<1>9. text[p] = Fragments[m][i] /\ TextMarks[p] = page
  BY <1>2, <1>5, <1>8
<1>10. CASE text[p] \in Signs
  <2>1. PICK k \in DOMAIN SignPlaces(text) : SignPlaces(text)[k] = p
    BY <1>10, SignSectionsAre
  <2>2. k \in DOMAIN SignOffsets /\ SignOffsets[k] = p - 1 /\ SignSections[k] = page
    BY <1>9, <2>1, SignSectionsAre
  <2> QED BY <1>3, <2>2
<1>11. CASE text[p] \notin Signs
  <2>1. text[p] \in Characters BY <1>4
  <2>2. text[p] = "bom" BY <1>3, <1>11, <2>1 DEF Characters, Signs
  <2>3. PICK s : s = sections[page] OBVIOUS
  <2>4. s \in Seq(RawCharacters) BY <1>2, <1>4, <2>3
  <2>5. Fragments[m] = Fragment(s) BY <1>2, <1>4, <2>3, FragmentsAre
  <2>6. PICK k \in 1..Len(s) : s[k] = "bom"
    BY <1>8, <1>9, <2>2, <2>4, <2>5, FragmentKeepsSigns
  <2>7. k \in DOMAIN s BY <2>4
  <2> QED BY <2>3, <2>6, <2>7
<1> QED BY <1>10, <1>11

\* The page numbers of a chunk are those of the pages its characters come from.
THEOREM PagesAreRight == DocumentSpec => []PagesAreTheirs
<1>1. ASSUME DocumentIInv PROVE PagesAreTheirs
  <2> SUFFICES ASSUME kind = "pdf", NEW n \in DOMAIN chunks
               PROVE  LET pages == {SignSections[k] : k \in {k \in DOMAIN SignOffsets :
                            chunks[n].start <= SignOffsets[k] /\ SignOffsets[k] < chunks[n].end}}
                      IN  /\ pages \subseteq PageNumbers(chunks[n])
                          /\ \A p \in PageNumbers(chunks[n]) \ pages :
                               "bom" \in {sections[p][k] : k \in DOMAIN sections[p]}
    BY DEF PagesAreTheirs
  <2>1. at = "normalized"
    BY <1>1 DEF DocumentIInv, Unentered
  <2>2. DocumentTypes /\ Normalized
    BY <1>1, <2>1 DEF DocumentIInv
  <2>3. chunks \in Seq(Chunk) BY <2>2 DEF Normalized, IInv, TypeOK
  <2>4. n \in 1..Len(chunks) /\ chunks[n] \in Chunk BY <2>3
  <2>5. \A k \in DOMAIN SignOffsets :
          chunks[n].start <= SignOffsets[k] /\ SignOffsets[k] < chunks[n].end
          => SignSections[k] \in PageNumbers(chunks[n])
    BY <2>2, <2>4, SignsBringPages
  <2>6. \A p \in PageNumbers(chunks[n]) :
          \/ \E k \in DOMAIN SignOffsets :
               /\ chunks[n].start <= SignOffsets[k] /\ SignOffsets[k] < chunks[n].end
               /\ SignSections[k] = p
          \/ "bom" \in {sections[p][k] : k \in DOMAIN sections[p]}
    BY <2>2, <2>4, PagesBringSigns
  <2> QED BY <2>5, <2>6
<1> QED BY DocumentInvariantHolds, <1>1, PTL

================================================================================

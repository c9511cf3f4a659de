------------------------------ MODULE Chunking -------------------------------
(***************************************************************************)
(* DeterministicChunker.chunk: windows of at most chunk_size characters,   *)
(* cut at the last paragraph, line, sentence or word boundary of their     *)
(* second part, trimmed, and overlapping by at most overlap characters.    *)
(*                                                                         *)
(* Offsets are the code's: zero-based, and a range excludes its end.  One  *)
(* step is one turn of the while loop.  A character is its class; what the *)
(* classes tell apart is what the code asks of a character.                *)
(***************************************************************************)
EXTENDS Integers, Sequences

CONSTANTS
  Texts,     \* normalised texts
  MaxSize    \* bound: the largest chunk_size

\* Everything but letters, stops and byte order marks satisfies str.isspace; a stop is
\* one of .!?, and other_space is white space that is none of the boundaries.
Blanks == {"space", "tab"}
Spaces == Blanks \cup {"newline", "other_space"}
Characters == Spaces \cup {"letter", "stop", "bom"}

ASSUME ChunkingAssumption ==
  /\ Texts \subseteq Seq(Characters)
  /\ MaxSize \in Nat

VARIABLES
  text,        \* the normalised text
  chunk_size,
  overlap,
  next_start,  \* the local variable of the loop
  chunks,      \* the chunks appended: their start and end offsets
  done         \* the loop has been left

vars == <<text, chunk_size, overlap, next_start, chunks, done>>
config == <<text, chunk_size, overlap>>

\* ChunkingConfig.__post_init__ admits these sizes.
Init ==
  /\ text \in Texts
  /\ chunk_size \in 1..MaxSize
  /\ overlap \in 0..(chunk_size - 1)
  /\ next_start = 0
  /\ chunks = <<>>
  /\ done = FALSE

--------------------------------------------------------------------------
At(i) == text[i + 1]
Larger(i, j) == IF i < j THEN j ELSE i
Smaller(i, j) == IF i < j THEN i ELSE j

\* _skip_whitespace(text, i) = j
Skips(i, j) ==
  /\ j \in i..Len(text)
  /\ \A k \in i..(j - 1) : At(k) \in Spaces
  /\ j < Len(text) => At(j) \notin Spaces

\* _trim_trailing_whitespace(text, i, j) = k
Trims(i, j, k) ==
  /\ k \in i..j
  /\ \A l \in k..(j - 1) : At(l) \in Spaces
  /\ k > i => At(k - 1) \notin Spaces

Greatest(S, i) == i \in S /\ \A j \in S : j <= i

\* The boundaries between low and high that text.rfind looks for.
Paragraphs(low, high) == {i \in low..(high - 2) : At(i) = "newline" /\ At(i + 1) = "newline"}
Lines(low, high) == {i \in low..(high - 1) : At(i) = "newline"}
Sentences(low, high) == {i \in low..(high - 2) : At(i) = "stop" /\ At(i + 1) = "space"}
Words(low, high) == {i \in low..(high - 1) : At(i) \in Blanks}

MinimumBoundary(start) == start + Larger(overlap + 1, chunk_size \div 2)

\* _select_end(text, start, high) = end
Selects(start, high, end) ==
  LET low == MinimumBoundary(start) IN
  IF high = Len(text) \/ low >= high THEN end = high
  ELSE \/ Greatest(Paragraphs(low, high), end)
       \/ Paragraphs(low, high) = {} /\ Greatest(Lines(low, high), end)
       \/ Lines(low, high) = {} /\ Greatest(Sentences(low, high), end - 1)
       \/ /\ Lines(low, high) = {}
          /\ Sentences(low, high) = {}
          /\ Greatest(Words(low, high), end)
       \/ /\ Lines(low, high) = {}
          /\ Sentences(low, high) = {}
          /\ Words(low, high) = {}
          /\ end = high

\* Mutants: the next chunk is counted from the window; it goes one character too
\* far back.
NextStartFromWindow(start, end) == start + chunk_size - overlap
NextStartFarBack(start, end) == Larger(end - overlap - 1, start + 1)

NextStart(start, end) == Larger(end - overlap, start + 1)

\* One turn of the loop that finds text: a chunk is appended, and the loop is
\* left when the chunk reaches the end of the text.
AppendChunk ==
  /\ ~done
  /\ \E start \in next_start..(Len(text) - 1) :
       /\ Skips(next_start, start)
       /\ \E selected \in start..Len(text), end \in start..Len(text) :
            /\ Selects(start, Smaller(start + chunk_size, Len(text)), selected)
            /\ Trims(start, selected, end)
            /\ IF end <= start
                 THEN /\ next_start' = Larger(selected, start + 1)
                      /\ UNCHANGED <<chunks, done>>
                 ELSE /\ chunks' = Append(chunks, [start |-> start, end |-> end])
                      /\ done' = (end = Len(text))
                      /\ next_start' = IF end = Len(text) THEN next_start
                                       ELSE NextStart(start, end)
  /\ UNCHANGED config

\* Mutant: white space at the end is not skipped.
LeaveLoopAtEnd ==
  /\ ~done
  /\ next_start >= Len(text)
  /\ done' = TRUE
  /\ UNCHANGED <<config, next_start, chunks>>

\* Only white space is left, or nothing.
LeaveLoop ==
  /\ ~done
  /\ Skips(next_start, Len(text))
  /\ done' = TRUE
  /\ UNCHANGED <<config, next_start, chunks>>

Next == AppendChunk \/ LeaveLoop

Spec == Init /\ [][Next]_vars

--------------------------------------------------------------------------
Chunk == [start : Nat, end : Nat]

\* The state of the loop, and what TextChunk.__post_init__ demands of offsets.
TypeOK ==
  /\ text \in Seq(Characters)
  /\ chunk_size \in 1..MaxSize
  /\ overlap \in 0..(chunk_size - 1)
  /\ next_start \in 0..Len(text)
  /\ chunks \in Seq(Chunk)
  /\ done \in BOOLEAN

InChunk(i) ==
  \E n \in 1..Len(chunks) : chunks[n].start <= i /\ i < chunks[n].end

\* No text is lost: when the loop ends every character that is not white space
\* is in a chunk, wherever boundaries, trimming and overlap have put the cuts.
NothingLost ==
  done => \A i \in 0..(Len(text) - 1) : At(i) \notin Spaces => InChunk(i)

\* A chunk is no longer than the configured size, and neither begins nor ends with
\* white space, so that its offsets are those of the text that is hashed and embedded.
EachFits ==
  \A n \in 1..Len(chunks) :
    /\ chunks[n].start < chunks[n].end
    /\ chunks[n].end <= Len(text)
    /\ chunks[n].end - chunks[n].start <= chunk_size
    /\ At(chunks[n].start) \notin Spaces
    /\ At(chunks[n].end - 1) \notin Spaces

\* Chunks begin one after the other, and share at most overlap characters with
\* the chunk before.
OverlapBounded ==
  \A n \in 1..(Len(chunks) - 1) :
    /\ chunks[n].start < chunks[n + 1].start
    /\ chunks[n].end - chunks[n + 1].start <= overlap

\* Every chunk fits the configured size, trimmed at both ends, and goes on from the
\* chunk before with no more than the configured overlap: TextChunk.__post_init__
\* checks a chunk by itself, nothing in the code the sequence.
ChunksFit == EachFits /\ OverlapBounded
==========================================================================

----------------------------- MODULE DocumentText -----------------------------
(***************************************************************************)
(* From the bytes of a source to its chunks: the parser gives sections of  *)
(* text (one for a text file, one per page of a PDF), TextNormalizer joins *)
(* what remains of them with two newlines and records the span of each,    *)
(* and the chunker cuts the result, looking up pages in the spans.         *)
(***************************************************************************)
EXTENDS Chunking, FiniteSets, SequencesExt

CONSTANTS
  Sources,    \* documents: [kind |-> "text" or "pdf", pages |-> texts]
  NoPage      \* page_number is None

VARIABLES
  kind,
  sections,   \* the decoded text, by section
  spans,      \* source_spans
  at          \* how far the document is, or how it was refused

documentVars == <<kind, sections, spans, at>>
allVars == <<vars, documentVars>>

\* Texts before normalisation hold carriage returns and control characters, too;
\* control stands for those that are no white space, like NUL.
RawCharacters == Characters \cup {"cr", "control"}

ASSUME SourcesAssumption ==
  /\ \A d \in Sources : /\ d.kind \in {"text", "pdf"}
                        /\ d.pages \in Seq(Seq(RawCharacters))
                        /\ d.kind = "text" => Len(d.pages) = 1
  /\ NoPage \notin Nat

DocumentInit ==
  /\ \E d \in Sources : kind = d.kind /\ sections = d.pages
  /\ spans = <<>> /\ at = "read"
  /\ text = <<>> /\ chunk_size = 0 /\ overlap = 0
  /\ next_start = 0 /\ chunks = <<>> /\ done = FALSE

--------------------------------------------------------------------------
\* The numbers of a finite set, the least first.
InOrder(S) ==
  [n \in 1..Cardinality(S) |-> CHOOSE i \in S : Cardinality({j \in S : j < i}) = n - 1]

--------------------------------------------------------------------------
(* Parsing. *)

\* not text.strip()
Blank(t) == \A i \in DOMAIN t : t[i] \in Spaces \cup {"cr"}

\* Mutant: the first character is taken for the mark.
WithoutFirst(t) == IF t # <<>> THEN Tail(t) ELSE t

WithoutMark(t) == IF t # <<>> /\ Head(t) = "bom" THEN Tail(t) ELSE t

\* Utf8TextDocumentParser decodes utf-8-sig, PdfDocumentParser takes each page's
\* text; a document without text is refused, and so is one that cannot be read:
\* not UTF-8, encrypted, or broken.
Parse ==
  /\ at = "read"
  /\ LET texts == IF kind = "text" THEN <<WithoutMark(sections[1])>> ELSE sections IN
       \/ at' = "unreadable" /\ UNCHANGED sections
       \/ /\ \A i \in DOMAIN texts : Blank(texts[i])
          /\ at' = "empty" /\ UNCHANGED sections
       \/ /\ \E i \in DOMAIN texts : ~Blank(texts[i])
          /\ at' = "parsed" /\ sections' = texts
  /\ UNCHANGED <<vars, kind, spans>>

PageOf(i) == IF kind = "pdf" THEN i ELSE NoPage

--------------------------------------------------------------------------
(* TextNormalizer. *)

\* CRLF and CR become newlines, and _sanitize_character makes a space of every
\* control character but newline and tab.
Sanitized(c) ==
  CASE c = "cr" -> "newline" [] c = "control" -> "space" [] OTHER -> c

Cleaned(t) ==
  LET kept == InOrder({i \in DOMAIN t : ~(t[i] = "newline" /\ i > 1 /\ t[i - 1] = "cr")})
  IN  [n \in DOMAIN kept |-> Sanitized(t[kept[n]])]

\* Characters that make a line one of text, and line ends.
Solid(t) == {i \in DOMAIN t : t[i] \notin Blanks \cup {"newline"}}
Newlines(t, low, high) == {i \in low..high : t[i] = "newline"}

\* What the loop over the lines and the final strip leave of t: nothing before the
\* first or after the last character that is no blank, no blanks at the end of a
\* line, and of several newlines two, for one blank line.
Stays(t, i) ==
  LET before == {j \in Solid(t) : j <= i}
      after  == {j \in Solid(t) : j >= i}
  IN  /\ before # {} /\ after # {}
      /\ IF t[i] = "newline"
           THEN \E j \in before : Cardinality(Newlines(t, j, i)) <= 2
           ELSE \E j \in after : Newlines(t, i, j) = {}

\* _normalize_fragment
Fragment(section) ==
  LET t == Cleaned(WithoutMark(section))
      staying == InOrder({i \in DOMAIN t : Stays(t, i)})
  IN  [n \in DOMAIN staying |-> t[staying[n]]]

\* The sections that leave a fragment.
Kept == InOrder({i \in DOMAIN sections : ~Blank(Fragment(sections[i]))})

\* Mutant: the separator between two fragments is not counted.
OffsetsAdjoining(lengths) ==
  LET offset[n \in 1..Len(lengths)] ==
        IF n = 1 THEN 0 ELSE offset[n - 1] + lengths[n - 1]
  IN  [n \in DOMAIN lengths |-> offset[n]]

\* current_offset at the start of each fragment; two newlines separate fragments.
Offsets(lengths) ==
  LET offset[n \in 1..Len(lengths)] ==
        IF n = 1 THEN 0 ELSE offset[n - 1] + lengths[n - 1] + 2
  IN  [n \in DOMAIN lengths |-> offset[n]]

\* TextNormalizer.normalize, and the chunker's configuration, fixed for the process, at
\* its first use.
Normalize ==
  /\ at = "parsed"
  /\ LET fragments == [n \in DOMAIN Kept |-> Fragment(sections[Kept[n]])]
         offsets == Offsets([n \in DOMAIN fragments |-> Len(fragments[n])])
     IN  /\ text' = FlattenSeq([n \in DOMAIN fragments |->
                       IF n = 1 THEN fragments[n] ELSE <<"newline", "newline">> \o fragments[n]])
         /\ spans' = [n \in DOMAIN fragments |->
                       [start |-> offsets[n], end |-> offsets[n] + Len(fragments[n]),
                        page |-> PageOf(Kept[n])]]
         /\ IF fragments = <<>>
              THEN at' = "empty" /\ UNCHANGED <<chunk_size, overlap>>
              ELSE /\ at' = "normalized"
                   /\ chunk_size' \in 1..MaxSize
                   /\ overlap' \in 0..(chunk_size' - 1)
  /\ UNCHANGED <<next_start, chunks, done, kind, sections>>

--------------------------------------------------------------------------
\* A turn of the chunk loop.
ChunkText == at = "normalized" /\ Next /\ UNCHANGED documentVars

\* _page_numbers of a chunk.
PageNumbers(chunk) ==
  {spans[n].page : n \in {n \in DOMAIN spans :
     ~(spans[n].start >= chunk.end \/ spans[n].end <= chunk.start)}} \ {NoPage}

DocumentNext == Parse \/ Normalize \/ ChunkText

\* The thread that runs the loop goes on.
DocumentSpec == DocumentInit /\ [][DocumentNext]_allVars /\ WF_allVars(ChunkText)

--------------------------------------------------------------------------
Signs == {"letter", "stop"}
SignPlaces(t) == InOrder({i \in DOMAIN t : t[i] \in Signs})
SignsOf(t) == [n \in DOMAIN SignPlaces(t) |-> t[SignPlaces(t)[n]]]

\* Normalisation keeps every sign of every section, in order and adds none, and a
\* document is refused as empty only if there is none: stripping, collapsing and
\* joining touch nothing but white space, control characters and byte order marks.
\* What is accepted has a chunk ("Chunking produced no durable text" never happens).
DocumentKept ==
  /\ at = "normalized" => SignsOf(text) = FlattenSeq([i \in DOMAIN sections |-> SignsOf(sections[i])])
  /\ at = "empty" => \A i \in DOMAIN sections : SignsOf(sections[i]) = <<>>
  /\ done => chunks # <<>>

\* The offset of the n-th sign of the text, and the section it comes from.
SignOffsets == [n \in DOMAIN SignPlaces(text) |-> SignPlaces(text)[n] - 1]
SignSections ==
  FlattenSeq([i \in DOMAIN sections |-> [n \in DOMAIN SignsOf(sections[i]) |-> i]])

\* A citation names the right pages: the page numbers of a chunk are those of the
\* pages its characters come from, although they are looked up by offsets in a text
\* from which lines, blanks and whole pages have been dropped.  (A page that holds byte
\* order marks is left out of the second part: a chunk may hold nothing else of it.)
PagesAreTheirs ==
  kind = "pdf" =>
    \A n \in DOMAIN chunks :
      LET pages == {SignSections[k] : k \in {k \in DOMAIN SignOffsets :
                      chunks[n].start <= SignOffsets[k] /\ SignOffsets[k] < chunks[n].end}}
      IN  /\ pages \subseteq PageNumbers(chunks[n])
          /\ \A p \in PageNumbers(chunks[n]) \ pages : "bom" \in {sections[p][k] : k \in DOMAIN sections[p]}

\* The chunk loop ends for every text it can be given and every admitted configuration.
ChunkingEnds == at = "normalized" ~> done
==========================================================================

----------------------------- MODULE BoundedBody -----------------------------
(***************************************************************************)
(* _bounded_json_body: a provider's response is read in the pieces the     *)
(* network makes of it, each counted, inflated under a limit, and scanned  *)
(* for its nesting before the next is awaited.  embeddings.py reads its    *)
(* responses with the same loop and without the scan; a body says which of *)
(* the two readers it meets.                                               *)
(*                                                                         *)
(* A byte on the wire stands for the characters it inflates to: exactly    *)
(* one without compression, any number with gzip.  A character is what the *)
(* scanner asks of it.                                                     *)
(***************************************************************************)
EXTENDS Integers, SequencesExt

CONSTANTS
  Bodies,       \* response bodies
  MaxWire,      \* MAX_PROVIDER_WIRE_BYTES
  MaxDecoded,   \* MAX_PROVIDER_DECODED_BYTES
  MaxDepth      \* MAX_JSON_DEPTH

Openers == {"[", "{"}
Closers == {"]", "}"}
Characters == Openers \cup Closers \cup {"quote", "backslash", "other"}

\* gzip streams end with byte number end; bytes after it are unused data.
Body == [scanned : BOOLEAN, gzip : BOOLEAN, bytes : Seq(Seq(Characters)), end : Nat]

ASSUME BodyAssumption ==
  /\ Bodies \subseteq Body
  /\ \A b \in Bodies : ~b.gzip => \A i \in DOMAIN b.bytes : Len(b.bytes[i]) = 1
  /\ {MaxWire, MaxDecoded, MaxDepth} \subseteq Nat \ {0}
  /\ MaxWire <= MaxDecoded

VARIABLES
  body,
  reading,   \* the statement the reader is at
  got,       \* wire_count
  part,      \* compressed_part
  pending,   \* output zlib owes for input it has consumed
  fed,       \* how many bytes zlib has consumed
  decoded,   \* decoded_parts, joined
  held,      \* the most decoded characters held at any time
  scan       \* the _JsonDepthScanner

bodyVars == <<body, reading, got, part, pending, fed, decoded, held, scan>>
zlib == <<part, pending, fed>>

NewScan == [containers |-> <<>>, in_string |-> FALSE, escaped |-> FALSE, failed |-> FALSE]

BodyInit ==
  /\ body \in Bodies
  /\ reading = "headers"
  /\ got = 0 /\ fed = 0 /\ held = 0
  /\ part = <<>> /\ pending = <<>> /\ decoded = <<>>
  /\ scan = NewScan

--------------------------------------------------------------------------
Opener(c) == IF c = "]" THEN "[" ELSE "{"

InString(s, c) ==
  [s EXCEPT !.escaped = ~s.escaped /\ c = "backslash",
            !.in_string = s.escaped \/ c # "quote"]

Outside(s, c) ==
  CASE c = "quote" -> [s EXCEPT !.in_string = TRUE]
    [] c \in Openers -> [s EXCEPT !.containers = Append(@, c), !.failed = Len(s.containers) >= MaxDepth]
    [] c \in Closers ->
         IF s.containers = <<>> \/ Last(s.containers) # Opener(c) THEN [s EXCEPT !.failed = TRUE]
         ELSE [s EXCEPT !.containers = Front(@)]
    [] OTHER -> s

\* One character of feed(), which raises at the first that does not fit.
Scan(s, c) == IF s.failed THEN s ELSE IF s.in_string THEN InString(s, c) ELSE Outside(s, c)

\* Mutant: every piece is scanned as if it began outside of an escape.
FeedForgetful(s, piece) == FoldLeft(Scan, [s EXCEPT !.escaped = FALSE], piece)

\* _JsonDepthScanner.feed
Feed(s, piece) == FoldLeft(Scan, s, piece)

\* _JsonDepthScanner.finish
ScanFinished(s) == ~s.failed /\ s.containers = <<>> /\ ~s.in_string

\* What decompress(bytes, limit) returns, leaves as unconsumed_tail and still
\* owes; a limit of 0 is none.  Input after the end of the stream is not inflated.
Inflated(bytes, limit) ==
  LET own == SubSeq(bytes, 1, Min({Len(bytes), body.end - fed}))
      all == pending \o FlattenSeq(own)
      upTo(k) == pending \o FlattenSeq(SubSeq(own, 1, k))
  IN IF limit = 0 \/ Len(all) < limit
       THEN [out |-> all, used |-> Len(bytes), owed |-> <<>>]
       ELSE LET k == CHOOSE k \in 0..Len(own) :
                       /\ Len(upTo(k)) >= limit
                       /\ \A j \in 0..(k - 1) : Len(upTo(j)) < limit
            IN [out |-> SubSeq(all, 1, limit), used |-> k,
                owed |-> SubSeq(upTo(k), limit + 1, Len(upTo(k)))]

Ends(verdict) == reading' = verdict

\* accept_decoded_part, and the reader goes on at next unless the scan raises.
Accept(piece, next) ==
  /\ scan' = IF body.scanned THEN Feed(scan, piece) ELSE scan
  /\ IF scan'.failed THEN Ends("rejected") /\ decoded' = decoded
                     ELSE reading' = next /\ decoded' = decoded \o piece

Hold(piece) == held' = IF held < Len(decoded) + Len(piece) THEN Len(decoded) + Len(piece) ELSE held

Reject == Ends("rejected") /\ UNCHANGED <<decoded, scan>>

Remaining == MaxDecoded - Len(decoded)

--------------------------------------------------------------------------
\* _validate_content_length: a declared length is that of the body; media type
\* and encoding are the supported ones.
ReadHeaders ==
  /\ reading = "headers"
  /\ \/ Len(body.bytes) > MaxWire /\ Ends("rejected")
     \/ Ends("receive")
  /\ UNCHANGED <<body, got, zlib, decoded, held, scan>>

Piece(n) == SubSeq(body.bytes, got + 1, got + n)

\* The next raw part, of any size.
Receive ==
  /\ reading = "receive"
  /\ \E n \in 1..(Len(body.bytes) - got) :
       /\ got' = got + n
       /\ \/ /\ got' > MaxWire
             /\ Reject
             /\ UNCHANGED <<part, held>>
          \/ /\ got' <= MaxWire /\ body.gzip
             /\ part' = Piece(n)
             /\ Ends("inflate")
             /\ UNCHANGED <<decoded, held, scan>>
          \/ /\ got' <= MaxWire /\ ~body.gzip
             /\ Hold(FlattenSeq(Piece(n)))
             /\ IF n > Remaining THEN Reject ELSE Accept(FlattenSeq(Piece(n)), "receive")
             /\ UNCHANGED part
  /\ UNCHANGED <<body, pending, fed>>

\* One turn of "while compressed_part"; limit is decompress's max_length.
InflateWith(limit) ==
  LET r == Inflated(part, limit) IN
  /\ reading = "inflate"
  /\ Hold(r.out)
  /\ pending' = r.owed
  /\ fed' = fed + r.used
  /\ part' = SubSeq(part, r.used + 1, Len(part))
  /\ \/ Len(r.out) > Remaining /\ Reject
     \/ /\ Len(r.out) <= Remaining
        /\ IF r.used = 0 /\ r.out = <<>>
             THEN Reject
             ELSE Accept(r.out, IF part' = <<>> THEN "receive" ELSE "inflate")
  /\ UNCHANGED <<body, got>>

\* Mutant: the limit is what remains, which is no limit when nothing remains.
InflateToTheBrim == InflateWith(Remaining)

Inflate == InflateWith(Remaining + 1)

\* The scan that _strict_json repeats on the whole; the grammar is json.loads's.
Whole(text) == body.scanned => ScanFinished(Feed(NewScan, text))

\* decompressor.eof and no unused_data
Complete == body.gzip => fed = body.end

\* The response has ended: zlib is flushed, without a limit, and the stream must
\* have ended with it; the scanner must be outside of everything.
EndOfBody ==
  /\ reading = "receive" /\ got = Len(body.bytes)
  /\ Hold(pending)
  /\ \/ (Len(pending) > Remaining \/ ~Complete) /\ Reject
     \/ /\ Len(pending) <= Remaining /\ Complete
        /\ Accept(pending, IF (body.scanned => ScanFinished(Feed(scan, pending))) /\ Whole(decoded \o pending)
                             THEN "accepted" ELSE "rejected")
  /\ pending' = <<>>
  /\ UNCHANGED <<body, got, part, fed>>

\* The connection breaks, the deadline passes at an await, or zlib finds an error.
BreakOff ==
  /\ reading \in {"receive", "inflate"}
  /\ Ends("broken")
  /\ UNCHANGED <<body, got, zlib, decoded, held, scan>>

BodyNext == ReadHeaders \/ Receive \/ Inflate \/ EndOfBody \/ BreakOff

BodySpec == BodyInit /\ [][BodyNext]_bodyVars

--------------------------------------------------------------------------
\* The reference: the whole body at once.
Text(b) == FlattenSeq(SubSeq(b.bytes, 1, IF b.gzip THEN Min({Len(b.bytes), b.end}) ELSE Len(b.bytes)))

\* How many backslashes stand right before i, back to low.
Backslashes(t, low, i) ==
  Cardinality({j \in low..(i - 1) : \A k \in j..(i - 1) : t[k] = "backslash"})

\* Quotes that open or close a string: inside of one, those behind an even number
\* of backslashes.
Delimiters(t) ==
  CHOOSE D \in SUBSET {i \in DOMAIN t : t[i] = "quote"} :
    \A i \in DOMAIN t : t[i] = "quote" =>
      LET before == {d \in D : d < i} IN
      i \in D <=> \/ Cardinality(before) % 2 = 0
                  \/ Backslashes(t, Max(before) + 1, i) % 2 = 0

\* Every bracket outside of strings has its partner, none deeper than MaxDepth.
WellNested(t) ==
  LET D == Delimiters(t)
      brackets == {i \in DOMAIN t : /\ t[i] \in Openers \cup Closers
                                    /\ Cardinality({d \in D : d < i}) % 2 = 0}
      depth(i) == Cardinality({j \in brackets : j <= i /\ t[j] \in Openers})
                    - Cardinality({j \in brackets : j < i /\ t[j] \in Closers})
  IN /\ Cardinality(D) % 2 = 0
     /\ \A i \in brackets : depth(i) \in 1..MaxDepth
     /\ \A i \in brackets : t[i] \in Openers =>
          \E j \in brackets : /\ i < j /\ t[j] \in Closers /\ Opener(t[j]) = t[i]
                              /\ depth(j) = depth(i)
                              /\ \A k \in brackets : i < k /\ k < j => depth(k) > depth(i)
     /\ Cardinality({i \in brackets : t[i] \in Openers})
          = Cardinality({i \in brackets : t[i] \in Closers})

Acceptable(b) ==
  /\ Len(b.bytes) <= MaxWire
  /\ Len(Text(b)) <= MaxDecoded
  /\ b.gzip => Len(b.bytes) = b.end
  /\ b.scanned => WellNested(Text(b))

\* However the network cuts the body, and wherever the cuts fall in strings,
\* escapes or compressed data, it is accepted exactly if the whole of it is
\* acceptable, and then all of its text has been read.
VerdictIgnoresCuts ==
  /\ reading = "accepted" => Acceptable(body) /\ decoded = Text(body)
  /\ reading = "rejected" => ~Acceptable(body)

\* A small compressed body never makes the reader hold more than one character
\* beyond the limit.
MemoryBounded == held <= MaxDecoded + 1
==========================================================================

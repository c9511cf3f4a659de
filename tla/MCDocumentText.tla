---------------------------- MODULE MCDocumentText ----------------------------
(* All short documents of up to three pages over the characters the normaliser *)
(* tells apart, and all longer texts that are normalised already over the      *)
(* characters the chunker tells apart (the longest only over those that matter *)
(* most): no blank before a newline or at either end, no three newlines in a   *)
(* row, and some text.                                                         *)
EXTENDS DocumentText

CONSTANTS MaxRaw, MaxPages, MaxLength

Raw == {"letter", "space", "newline", "cr", "bom", "control", "other_space"}

TextsUpTo(S, n) == UNION {[1..k -> S] : k \in 0..n}

TextFiles == {[kind |-> "text", pages |-> <<t>>] : t \in TextsUpTo(Raw, MaxRaw)}

\* Two pages of any text, and three around a page of one character or none.
Pdfs ==
  {[kind |-> "pdf", pages |-> p] : p \in {<<a, b>> : a \in TextsUpTo(Raw, MaxPages),
                                                   b \in TextsUpTo(Raw, MaxPages)}}
  \cup
  {[kind |-> "pdf", pages |-> p] : p \in {<<a, b, c>> : a, c \in TextsUpTo({"letter", "newline"}, MaxPages),
                                                      b \in TextsUpTo(Raw, 1)}}

Normalised(t) ==
  /\ \E i \in DOMAIN t : t[i] \notin Spaces
  /\ t[1] \notin Blanks \cup {"newline"}
  /\ t[Len(t)] \notin Blanks \cup {"newline"}
  /\ \A i \in 1..(Len(t) - 1) : t[i] \in Blanks => t[i + 1] # "newline"
  /\ \A i \in 1..(Len(t) - 2) : \E j \in i..(i + 2) : t[j] # "newline"

NormalisedTexts ==
  {t \in TextsUpTo(Characters \ {"bom"}, MaxLength)
           \cup [1..(MaxLength + 1) -> {"letter", "stop", "space", "newline"}] :
     t # <<>> /\ Normalised(t)}

NormalisedFiles == {[kind |-> "text", pages |-> <<t>>] : t \in NormalisedTexts}

AllSources == TextFiles \cup Pdfs \cup NormalisedFiles
===============================================================================

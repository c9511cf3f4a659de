---- MODULE MCBoundedBody ----
(* All short plain bodies, and short gzip streams of bytes that inflate to       *)
(* nothing, to one character or to many, cut short or followed by other data.    *)
EXTENDS BoundedBody

CONSTANTS MaxPlain, MaxCompressed

Plain == {[scanned |-> TRUE, gzip |-> FALSE, bytes |-> [i \in DOMAIN t |-> <<t[i]>>], end |-> 0] :
            t \in UNION {[1..n -> Characters \ {"{", "}"}] : n \in 1..MaxPlain}}

Expansions == {<<>>, <<"other", "other", "other">>, <<"backslash">>, <<"quote", "[", "quote">>,
               <<"quote">>, <<"[">>, <<"]", "{">>, <<"}">>}

Streams(expansions, scanned) ==
  {[scanned |-> scanned, gzip |-> TRUE, bytes |-> e, end |-> n] :
     e \in UNION {[1..m -> expansions] : m \in 1..MaxCompressed}, n \in 1..(MaxCompressed + 1)}

\* Without a scan, what the characters are makes no difference.
Unscanned ==
  {[scanned |-> FALSE, gzip |-> FALSE, bytes |-> [i \in 1..n |-> <<"other">>], end |-> 0] : n \in 1..MaxPlain}
    \cup Streams({<<>>, <<"other">>, <<"other", "other", "other">>}, FALSE)

AllBodies == Plain \cup Streams(Expansions, TRUE) \cup Unscanned
====

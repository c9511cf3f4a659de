--------------------------- MODULE DenseClientProofs ---------------------------
(***************************************************************************)
(* What holds of the dense retrieval client for every value of its         *)
(* constants: of CompatibilityProbe for any set of queries, and of         *)
(* BoundedBody for any bodies and limits.                                  *)
(*                                                                         *)
(* At most one probe runs because whoever forgets a probe has seen its     *)
(* end: the invariant names the only probe that may be live, the one in    *)
(* flight while the adapter is open and the one close() joins afterwards.  *)
(*                                                                         *)
(* The reader of a body holds, after each part, the text of the bytes so   *)
(* far, scanned as if in one piece; a cut that is refused is therefore the *)
(* beginning of a body that has to be.  That the scanner refuses what the  *)
(* reference, a statement about pairs of brackets, refuses is shown with   *)
(* the depth of each bracket: the scanner's containers are the brackets    *)
(* still open, one on each level.  The folds in which the scanner and the  *)
(* text are written become recursions by way of the least number of a set. *)
(***************************************************************************)
EXTENDS CompatibilityProbe, BoundedBody, DataLemmas

\* A probe is forgotten, if at all, only by a task that has seen it end.
LEMMA ForgettingIsSafe ==
  ASSUME ProbeInvariant, NEW t \in Queries, ~Live(t), Clear(t) \/ inflight' = inflight
  PROVE  /\ inflight' \in Queries \cup {None}
         /\ \A u \in Queries : Live(u) /\ ~closed => u = inflight'
         /\ inflight = None => inflight' = None
BY DEF ProbeInvariant, ProbeTypeOK, Known, Clear

\* Learning from a probe that has ended keeps the invariant's parts about the adapter.
LEMMA LearningKeeps ==
  ASSUME ProbeInvariant, NEW q \in Queries, NEW t \in Queries, ~Live(t), Learn(q, t)
  PROVE  /\ closed' = closed /\ compatible' \in BOOLEAN
         /\ inflight' \in Queries \cup {None}
         /\ at' \in [Queries -> Places] /\ at'[q] # "waiting"
         /\ \A r \in Queries : r # q => at'[r] = at[r]
         /\ \A u \in Queries : Live(u) /\ ~closed => u = inflight'
         /\ closed => ~compatible' /\ inflight' = None
         /\ closed => at'[q] # "asking"
<1>1. ProbeTypeOK BY DEF ProbeInvariant
<1>2. /\ closed => ~compatible /\ inflight = None
      /\ None \notin Queries
  BY ProbeAssumption DEF ProbeInvariant
<1>3. Clear(t) \/ inflight' = inflight BY DEF Learn
<1>4. /\ inflight' \in Queries \cup {None}
      /\ \A u \in Queries : Live(u) /\ ~closed => u = inflight'
      /\ inflight = None => inflight' = None
  BY <1>3, ForgettingIsSafe
<1>5. closed' = closed BY DEF Learn
<1>6. CASE probe[t] = "ok"
  <2>1. /\ compatible' = (compatible \/ inflight = t)
        /\ at' = [at EXCEPT ![q] = IF closed THEN "failed" ELSE "asking"]
    BY <1>6 DEF Learn, Ask, Moves
  <2> QED BY <1>1, <1>2, <1>4, <1>5, <2>1 DEF ProbeTypeOK, Places
<1>7. CASE probe[t] \in {"failed", "cancelled"}
  <2>1. /\ compatible' = compatible
        /\ at' = [at EXCEPT ![q] = probe[t]]
    BY <1>7 DEF Learn, Moves
  <2> QED BY <1>1, <1>2, <1>4, <1>5, <1>7, <2>1 DEF ProbeTypeOK, Places
<1>8. CASE probe[t] = "crashed"
  <2>1. compatible' = compatible /\ at' = [at EXCEPT ![q] = "failed"]
    BY <1>8 DEF Learn, Moves
  <2> QED BY <1>1, <1>2, <1>4, <1>5, <2>1 DEF ProbeTypeOK, Places
<1> QED BY <1>6, <1>7, <1>8 DEF Learn

\* The invariant holds initially.
LEMMA ProbeInit == ASSUME Init PROVE ProbeInvariant
BY ProbeAssumption DEF Init, ProbeInvariant, ProbeTypeOK, Known, Live, Places, States

\* Every step of every task keeps the invariant.
LEMMA ProbeNext == ASSUME ProbeInvariant, [Next]_vars PROVE ProbeInvariant'
<1> USE ProbeAssumption DEF ProbeInvariant, ProbeTypeOK, Known, Live, adapter, Moves
<1>1. ASSUME NEW q \in Queries, CallDecided(q) PROVE ProbeInvariant'
  BY <1>1 DEF CallDecided, Ask, Places
<1>2. ASSUME NEW q \in Queries, CallFirst(q) PROVE ProbeInvariant'
  BY <1>2 DEF CallFirst, Places, States
<1>3. ASSUME NEW q \in Queries, CallJoining(q) PROVE ProbeInvariant'
  <2>1. CASE Live(inflight) BY <1>3, <2>1 DEF CallJoining, Learn, Places
  <2>2. CASE ~Live(inflight)
    <3>1. inflight \in Queries /\ Learn(q, inflight) /\ on' = on
      BY <1>3, <2>2 DEF CallJoining
    <3>2. UNCHANGED <<probe, cancelling, cancelled, torn, closer, joins>>
      BY <1>3 DEF CallJoining
    <3> HIDE DEF ProbeInvariant, ProbeTypeOK, Known, Live, adapter, Moves
    <3>3. /\ closed' = closed /\ compatible' \in BOOLEAN
          /\ inflight' \in Queries \cup {None}
          /\ at' \in [Queries -> Places] /\ at'[q] # "waiting"
          /\ \A r \in Queries : r # q => at'[r] = at[r]
          /\ \A u \in Queries : Live(u) /\ ~closed => u = inflight'
          /\ closed => ~compatible' /\ inflight' = None
      BY <2>2, <3>1, LearningKeeps
    <3> QED BY <3>1, <3>2, <3>3 DEF ProbeInvariant, ProbeTypeOK, Known, Live
  <2> QED BY <2>1, <2>2
<1>4. ASSUME NEW q \in Queries, Resume(q) PROVE ProbeInvariant'
  <2>1. on[q] \in Queries /\ ~Live(on[q]) /\ Learn(q, on[q]) /\ on' = [on EXCEPT ![q] = None]
    BY <1>4 DEF Resume
  <2>2. UNCHANGED <<probe, cancelling, cancelled, torn, closer, joins>>
    BY <1>4 DEF Resume
  <2> HIDE DEF ProbeInvariant, ProbeTypeOK, Known, Live, adapter, Moves
  <2>3. /\ closed' = closed /\ compatible' \in BOOLEAN
        /\ inflight' \in Queries \cup {None}
        /\ at' \in [Queries -> Places] /\ at'[q] # "waiting"
        /\ \A r \in Queries : r # q => at'[r] = at[r]
        /\ \A u \in Queries : Live(u) /\ ~closed => u = inflight'
        /\ closed => ~compatible' /\ inflight' = None
    BY <2>1, LearningKeeps
  <2> QED BY <2>1, <2>2, <2>3 DEF ProbeInvariant, ProbeTypeOK, Known, Live
<1>5. ASSUME NEW q \in Queries, Interrupt(q) PROVE ProbeInvariant'
  BY <1>5 DEF Interrupt, Clear, Places
<1>6. ASSUME NEW q \in Queries, Reply(q) PROVE ProbeInvariant'
  BY <1>6 DEF Reply, Places
<1>7. ASSUME NEW q \in Queries, CancelQuery(q) PROVE ProbeInvariant'
  BY <1>7 DEF CancelQuery
<1>8. ASSUME NEW t \in Queries, ProbeStarts(t) PROVE ProbeInvariant'
  BY <1>8 DEF ProbeStarts, Probe, States
<1>9. ASSUME NEW t \in Queries, ProbeEnds(t) PROVE ProbeInvariant'
  BY <1>9 DEF ProbeEnds, Probe, States
<1>10. ASSUME NEW t \in Queries, ProbeUnwinds(t) PROVE ProbeInvariant'
  BY <1>10 DEF ProbeUnwinds, Probe, States
<1>11. ASSUME NEW t \in Queries, CancelProbe(t) PROVE ProbeInvariant'
  BY <1>11 DEF CancelProbe
<1>12. CASE Close BY <1>12 DEF Close
<1>13. CASE CloseJoined BY <1>13 DEF CloseJoined
<1>14. CASE UNCHANGED vars BY <1>14 DEF vars
<1> QED
  BY <1>1, <1>2, <1>3, <1>4, <1>5, <1>6, <1>7, <1>8, <1>9, <1>10, <1>11, <1>12, <1>13, <1>14
  DEF Next, Call, QueryStep, ProbeStep, Finished

\* Single flight: however calls, cancellations and close() interleave, at most
\* one probe is under way, and none is left when close() has returned.
THEOREM AtMostOneProbe == Spec => []SingleProbe
<1>1. ProbeInvariant => SingleProbe
  BY DEF ProbeInvariant, SingleProbe
<1> QED BY <1>1, ProbeInit, ProbeNext, PTL DEF Spec

\* On a closed adapter no probe starts running, no query starts asking and
\* nothing is remembered.
LEMMA ClosedStep ==
  ASSUME ProbeInvariant, [Next]_vars, closed
  PROVE  /\ \A t \in Queries : probe'[t] = "running" => probe[t] = "running"
         /\ \A q \in Queries : at'[q] = "asking" => at[q] = "asking"
         /\ ~compatible'
<1> DEFINE Quiet == /\ \A t \in Queries : probe'[t] = "running" => probe[t] = "running"
                    /\ \A q \in Queries : at'[q] = "asking" => at[q] = "asking"
                    /\ ~compatible'
<1>1. /\ ProbeTypeOK /\ ~compatible /\ inflight = None
  BY DEF ProbeInvariant
<1>2. ASSUME NEW q \in Queries, Call(q) PROVE Quiet
  <2>1. /\ at' = [at EXCEPT ![q] = "failed"]
        /\ probe' = probe /\ compatible' = compatible
    BY <1>2 DEF Call, CallDecided, CallFirst, CallJoining, Ask, Moves, adapter
  <2> QED BY <1>1, <2>1 DEF ProbeTypeOK
<1>3. ASSUME NEW q \in Queries, Resume(q) PROVE Quiet
  <2>1. on[q] \in Queries /\ ~Live(on[q]) /\ Learn(q, on[q]) /\ probe' = probe
    BY <1>3 DEF Resume, ProbeInvariant
  <2>2. /\ at'[q] # "asking" /\ ~compatible'
        /\ \A r \in Queries : r # q => at'[r] = at[r]
    BY <2>1, LearningKeeps
  <2> QED BY <2>1, <2>2
<1>4. ASSUME NEW q \in Queries, Interrupt(q) \/ Reply(q) PROVE Quiet
  <2>1. \E end \in {"answered", "failed", "cancelled"} : at' = [at EXCEPT ![q] = end]
    BY <1>4 DEF Interrupt, Reply, Moves
  <2>2. probe' = probe /\ compatible' = compatible
    BY <1>4 DEF Interrupt, Reply, adapter
  <2> QED BY <1>1, <2>1, <2>2 DEF ProbeTypeOK
<1>5. ASSUME NEW t \in Queries, ProbeStep(t) PROVE Quiet
  <2>1. \E end \in {"failed", "ok", "crashed", "cancelled"} : probe' = [probe EXCEPT ![t] = end]
    BY <1>5 DEF ProbeStep, ProbeStarts, ProbeEnds, ProbeUnwinds, Probe
  <2>2. at' = at /\ compatible' = compatible
    BY <1>5 DEF ProbeStep, ProbeStarts, ProbeEnds, ProbeUnwinds, Probe, adapter
  <2> QED BY <1>1, <2>1, <2>2 DEF ProbeTypeOK
<1>6. CASE UNCHANGED <<compatible, probe, at>>
  BY <1>1, <1>6
<1>7. ASSUME NEW t \in Queries, CancelProbe(t) PROVE Quiet
  BY <1>6, <1>7 DEF CancelProbe, adapter
<1>8. ASSUME NEW q \in Queries, CancelQuery(q) PROVE Quiet
  BY <1>6, <1>8 DEF CancelQuery, adapter
<1>9. CASE CloseJoined \/ UNCHANGED vars
  BY <1>6, <1>9 DEF CloseJoined, adapter, vars
<1> QED BY <1>2, <1>3, <1>4, <1>5, <1>7, <1>8, <1>9 DEF Next, QueryStep, Finished, Close

\* After close() nothing is sent to the provider, whoever is resumed then.
THEOREM NothingSentAfterClose == Spec => NothingAfterClose
<1>1. ProbeInvariant /\ [Next]_vars => [closed => Requests' \subseteq Requests /\ ~compatible']_vars
  BY ClosedStep DEF Requests
<1> QED BY <1>1, ProbeInit, ProbeNext, PTL DEF Spec, NothingAfterClose

\* Only close() and the outside ever cancel a probe.
LEMMA FewCancel ==
  ASSUME ProbeInvariant, CancelledByFew, [Next]_vars PROVE CancelledByFew'
<1> USE DEF CancelledByFew, adapter
<1>1. ProbeTypeOK BY DEF ProbeInvariant
<1>2. ASSUME NEW q \in Queries, Call(q) PROVE CancelledByFew'
  <2>1. cancelling' = cancelling /\ torn' = torn /\ closed' = closed
    BY <1>2 DEF Call, CallDecided, CallFirst, CallJoining, Learn
  <2>2. probe' = probe \/ probe' = [probe EXCEPT ![q] = "created"]
    BY <1>2 DEF Call, CallDecided, CallFirst, CallJoining
  <2> QED BY <1>1, <2>1, <2>2 DEF ProbeTypeOK
<1>3. ASSUME NEW q \in Queries, QueryStep(q) \/ CancelQuery(q) PROVE CancelledByFew'
  BY <1>3 DEF QueryStep, CancelQuery, Resume, Interrupt, Reply, Learn
<1>4. ASSUME NEW t \in Queries, ProbeStep(t) PROVE CancelledByFew'
  <2>1. cancelling' = cancelling /\ torn' = torn /\ closed' = closed
    BY <1>4 DEF ProbeStep, ProbeStarts, ProbeEnds, ProbeUnwinds, Probe
  <2>2. \E end \in States : /\ probe' = [probe EXCEPT ![t] = end]
                            /\ end = "cancelled" => t \in cancelling
    BY <1>4 DEF ProbeStep, ProbeStarts, ProbeEnds, ProbeUnwinds, Probe, States
  <2> QED BY <1>1, <2>1, <2>2 DEF ProbeTypeOK
<1>5. ASSUME NEW t \in Queries, CancelProbe(t) PROVE CancelledByFew'
  <2>1. torn = None /\ torn' = t /\ cancelling' = cancelling \cup {t}
    BY <1>5 DEF CancelProbe
  <2>2. \A u \in cancelling : u # None
    BY <1>1, ProbeAssumption DEF ProbeTypeOK
  <2> QED BY <1>5, <2>1, <2>2 DEF CancelProbe
<1>6. CASE Close BY <1>6 DEF Close
<1>7. CASE CloseJoined \/ UNCHANGED vars BY <1>7 DEF CloseJoined, vars
<1> QED BY <1>2, <1>3, <1>4, <1>5, <1>6, <1>7 DEF Next, Finished

\* The shield: a query is cancelled by its caller, by close() or from outside,
\* never by another query's cancellation.
THEOREM CancellationIsLocal == Spec => CancellationStaysLocal
<1> DEFINE Both == ProbeInvariant /\ CancelledByFew
           Local == \A q \in Queries : at[q] # "cancelled" /\ at'[q] = "cancelled" =>
                      \/ q \in cancelled \/ closed
                      \/ torn # None /\ torn \in {on[q], inflight}
<1>1. Init => Both
  BY ProbeInit DEF Init, CancelledByFew
<1>2. Both /\ [Next]_vars => Both'
  BY ProbeNext, FewCancel
<1>3. ASSUME Both, Next PROVE Local
  <2>1. ProbeTypeOK /\ CancelledByFew /\ None \notin Queries
    BY <1>3, ProbeAssumption DEF ProbeInvariant
  <2>2. ASSUME NEW r \in Queries, NEW t \in Queries, Learn(r, t), t \in {on[r], inflight} PROVE Local
    <3>1. \/ at' = [at EXCEPT ![r] = "failed"] \/ at' = [at EXCEPT ![r] = "asking"]
          \/ at' = [at EXCEPT ![r] = "cancelled"] /\ probe[t] = "cancelled"
      BY <2>2 DEF Learn, Ask, Moves
    <3> QED BY <2>1, <2>2, <3>1 DEF ProbeTypeOK, CancelledByFew
  <2>3. ASSUME NEW r \in Queries, Call(r) PROVE Local
    <3>1. CASE CallJoining(r) /\ ~Live(inflight)
      <4>1. inflight \in Queries /\ Learn(r, inflight) BY <2>1, <3>1 DEF CallJoining, ProbeTypeOK
      <4> QED BY <2>2, <4>1
    <3>2. CASE ~(CallJoining(r) /\ ~Live(inflight))
      <4>1. \E end \in {"failed", "asking", "waiting"} : at' = [at EXCEPT ![r] = end]
        BY <2>3, <3>2 DEF Call, CallDecided, CallFirst, CallJoining, Ask, Moves
      <4> QED BY <2>1, <4>1 DEF ProbeTypeOK
    <3> QED BY <3>1, <3>2
  <2>4. ASSUME NEW r \in Queries, Resume(r) PROVE Local
    <3>1. on[r] \in Queries /\ Learn(r, on[r]) BY <1>3, <2>4 DEF Resume, ProbeInvariant
    <3> QED BY <2>2, <3>1
  <2>5. ASSUME NEW r \in Queries, Interrupt(r) \/ Reply(r) PROVE Local
    <3>1. \E end \in {"answered", "failed", "cancelled"} :
            at' = [at EXCEPT ![r] = end] /\ (end = "cancelled" => r \in cancelled)
      BY <2>5 DEF Interrupt, Reply, Moves
    <3> QED BY <2>1, <3>1 DEF ProbeTypeOK
  <2>6. CASE UNCHANGED at BY <2>6
  <2>7. ASSUME NEW r \in Queries, CancelQuery(r) \/ ProbeStep(r) \/ CancelProbe(r) PROVE Local
    BY <2>6, <2>7 DEF CancelQuery, ProbeStep, ProbeStarts, ProbeEnds, ProbeUnwinds, Probe, CancelProbe
  <2>8. CASE Close \/ CloseJoined \/ Finished
    BY <2>6, <2>8 DEF Close, CloseJoined, Finished, vars
  <2> QED BY <1>3, <2>3, <2>4, <2>5, <2>7, <2>8 DEF Next, QueryStep
<1>4. Both /\ [Next]_vars => [Local]_vars
  BY <1>3
<1> QED BY <1>1, <1>2, <1>4, PTL DEF Spec, CancellationStaysLocal

--------------------------------------------------------------------------------
\* The states of the scanner.
ScanStates ==
  [containers : Seq(Openers), in_string : BOOLEAN, escaped : BOOLEAN, failed : BOOLEAN]

\* One character keeps the scanner a scanner.
LEMMA ScanType ==
  ASSUME NEW s \in ScanStates, NEW c \in Characters
  PROVE  Scan(s, c) \in ScanStates
<1>1. CASE s.failed
  BY <1>1 DEF Scan
<1>2. CASE ~s.failed /\ s.in_string
  BY <1>2 DEF Scan, InString, ScanStates
<1>3. CASE ~s.failed /\ ~s.in_string
  <2>1. Scan(s, c) = Outside(s, c)
    BY <1>3 DEF Scan
  <2>2. CASE c = "quote"
    <3>1. Outside(s, c) = [s EXCEPT !.in_string = TRUE]
      BY <2>2 DEF Outside, Openers, Closers
    <3> QED BY <2>1, <3>1 DEF ScanStates
  <2>3. CASE c \in Openers
    <3>1. Outside(s, c) = [s EXCEPT !.containers = Append(s.containers, c),
                                    !.failed = Len(s.containers) >= MaxDepth]
      BY <2>3 DEF Outside, Openers, Closers
    <3>2. Append(s.containers, c) \in Seq(Openers) /\ (Len(s.containers) >= MaxDepth) \in BOOLEAN
      BY <2>3 DEF ScanStates
    <3> QED BY <2>1, <3>1, <3>2 DEF ScanStates
  <2>4. CASE c \in Closers
    <3>1. Outside(s, c) =
            IF s.containers = <<>> \/ Last(s.containers) # Opener(c) THEN [s EXCEPT !.failed = TRUE]
            ELSE [s EXCEPT !.containers = Front(s.containers)]
      BY <2>4 DEF Outside, Openers, Closers
    <3>2. s.containers # <<>> => Front(s.containers) \in Seq(Openers)
      BY DEF ScanStates, Front
    <3> QED BY <2>1, <3>1, <3>2 DEF ScanStates
  <2>5. CASE c \notin {"quote"} \cup Openers \cup Closers
    <3>1. Outside(s, c) = s
      BY <2>5 DEF Outside, Openers, Closers
    <3> QED BY <2>1, <3>1
  <2> QED BY <2>2, <2>3, <2>4, <2>5
<1> QED BY <1>1, <1>2, <1>3 DEF ScanStates

\* The fold feed stands for.
LEMMA FeedUnfold ==
  ASSUME NEW s, NEW piece
  PROVE  Feed(s, piece) =
           (CHOOSE iter : iter = [x \in SUBSET DOMAIN piece |->
               IF x = {} THEN s ELSE Scan(iter[x \ {Max(x)}], piece[Max(x)])])[DOMAIN piece]
  BY DEF Feed, FoldLeft, MapThenFoldSet

\* feed scans the characters one after the other, from the first on.
LEMMA FeedIs ==
  ASSUME NEW s \in ScanStates, NEW piece \in Seq(Characters),
         NEW f \in [0..Len(piece) -> ScanStates], f[0] = s,
         \A n \in 1..Len(piece) : f[n] = Scan(f[n - 1], piece[n])
  PROVE  Feed(s, piece) = f[Len(piece)]
<1> DEFINE N == Len(piece)
           Unfolds(iter) == iter = [x \in SUBSET (1..N) |->
               IF x = {} THEN s ELSE Scan(iter[x \ {Max(x)}], piece[Max(x)])]
           step == [n \in 1..N |-> [v \in ScanStates |-> Scan(v, piece[n])]]
           chosen == CHOOSE iter : Unfolds(iter)
<1>1. N \in Nat /\ DOMAIN piece = 1..N /\ \A n \in 1..N : piece[n] \in Characters
  OBVIOUS
<1>2. step \in [1..N -> [ScanStates -> ScanStates]]
  <2>1. ASSUME NEW n \in 1..N, NEW v \in ScanStates PROVE Scan(v, piece[n]) \in ScanStates
    BY <1>1, ScanType
  <2> QED BY <2>1
<1>3. PICK g : IsFold(g, N, ScanStates, s, step)
  <2> HIDE DEF step, N
  <2> QED BY <1>1, <1>2, FoldExists
<1>4. ASSUME NEW x \in SUBSET (1..N), x # {}
      PROVE  /\ Max(x) \in 1..N /\ x \ {Max(x)} \in SUBSET (1..N)
             /\ g[x] = Scan(g[x \ {Max(x)}], piece[Max(x)])
  <2>1. Max(x) \in x
    <3>1. \A n \in x : N - n \in Nat
      BY <1>1
    <3>2. PICK m \in {N - n : n \in x} : \A k \in {N - n : n \in x} : m <= k
      <4>1. {N - n : n \in x} \subseteq Nat /\ {N - n : n \in x} # {}
        BY <1>4, <3>1
      <4> QED BY <4>1, Least
    <3>3. PICK n \in x : m = N - n
      BY <3>2
    <3>4. \A k \in x : N - n <= N - k
      BY <3>2, <3>3
    <3>5. \A k \in x : n >= k
      BY <1>1, <3>4
    <3> QED BY <3>5 DEF Max
  <2>2. Max(x) \in 1..N /\ x \ {Max(x)} \in SUBSET (1..N)
    BY <2>1
  <2>3. g[x \ {Max(x)}] \in ScanStates
    BY <1>3, <2>2 DEF IsFold
  <2>4. g[x] = step[Max(x)][g[x \ {Max(x)}]]
    BY <1>3, <1>4 DEF IsFold
  <2>5. step[Max(x)][g[x \ {Max(x)}]] = Scan(g[x \ {Max(x)}], piece[Max(x)])
    BY <2>2, <2>3
  <2> HIDE DEF step
  <2> QED BY <2>2, <2>4, <2>5
<1>5. g \in [SUBSET (1..N) -> ScanStates] /\ g[{}] = s
  <2>1. {} \in SUBSET (1..N)
    OBVIOUS
  <2> QED BY <1>3, <2>1 DEF IsFold
<1> HIDE DEF step
<1>6. Unfolds(g)
  <2>1. \A x \in SUBSET (1..N) : g[x] = IF x = {} THEN s ELSE Scan(g[x \ {Max(x)}], piece[Max(x)])
    BY <1>4, <1>5
  <2> QED BY <1>5, <2>1
<1>7. Unfolds(chosen)
  <2> HIDE DEF Unfolds
  <2> QED BY <1>6
<1>8. Feed(s, piece) = chosen[1..N]
  BY <1>1, FeedUnfold
<1> HIDE DEF chosen
<1>9. ASSUME NEW x \in SUBSET (1..N)
      PROVE  chosen[x] = IF x = {} THEN s ELSE Scan(chosen[x \ {Max(x)}], piece[Max(x)])
  BY <1>7
<1> DEFINE P == {n \in Nat : n <= N => chosen[1..n] = f[n]}
<1>10. 0 \in P
  <2>1. 1..0 = {} /\ 1..0 \in SUBSET (1..N)
    OBVIOUS
  <2>2. chosen[1..0] = s
    BY <1>9, <2>1
  <2> QED BY <2>2
<1>11. ASSUME NEW n \in Nat, n \in P PROVE n + 1 \in P
  <2> SUFFICES ASSUME n + 1 <= N PROVE chosen[1..(n + 1)] = f[n + 1]
    OBVIOUS
  <2>1. Max(1..(n + 1)) = n + 1
    <3>1. 1..(n + 1) \in SUBSET (1..(n + 1)) /\ n + 1 \in 1..(n + 1) /\ n + 1 \in Nat
      OBVIOUS
    <3> QED BY <3>1, MaxOfBounded
  <2>2. (1..(n + 1)) \ {n + 1} = 1..n /\ 1..(n + 1) # {} /\ 1..(n + 1) \in SUBSET (1..N)
    <3>1. (1..(n + 1)) \ {n + 1} = 1..n
      OBVIOUS
    <3>2. n + 1 \in 1..(n + 1)
      OBVIOUS
    <3>3. \A i \in 1..(n + 1) : i \in 1..N
      BY <1>1
    <3> QED BY <3>1, <3>2, <3>3
  <2>3. chosen[1..(n + 1)] = Scan(chosen[1..n], piece[n + 1])
    BY <1>9, <2>1, <2>2
  <2>4. n + 1 \in 1..N /\ (n + 1) - 1 = n
    BY <1>1
  <2>5. f[n + 1] = Scan(f[(n + 1) - 1], piece[n + 1])
    BY <2>4
  <2>6. chosen[1..n] = f[n]
    BY <1>11
  <2> QED BY <2>3, <2>4, <2>5, <2>6
<1>12. N \in P
  <2> HIDE DEF P
  <2> QED BY <1>1, <1>10, <1>11, Induction
<1> QED BY <1>1, <1>8, <1>12

\* Feeding one character more scans it.
LEMMA FeedGrows ==
  ASSUME NEW s \in ScanStates, NEW text \in Seq(Characters), NEW n \in 0..Len(text)
  PROVE  /\ Feed(s, SubSeq(text, 1, n)) \in ScanStates
         /\ n = 0 => Feed(s, SubSeq(text, 1, n)) = s
         /\ n # 0 => Feed(s, SubSeq(text, 1, n)) = Scan(Feed(s, SubSeq(text, 1, n - 1)), text[n])
<1> DEFINE N == Len(text)
           step == [i \in 1..N |-> [v \in ScanStates |-> Scan(v, text[i])]]
<1>1. N \in Nat /\ \A i \in 1..N : text[i] \in Characters
  OBVIOUS
<1>2. step \in [1..N -> [ScanStates -> ScanStates]]
  <2>1. ASSUME NEW i \in 1..N, NEW v \in ScanStates PROVE Scan(v, text[i]) \in ScanStates
    BY <1>1, ScanType
  <2> QED BY <2>1
<1>3. PICK f : IsRecursion(f, N, ScanStates, s, step)
  <2> HIDE DEF step, N
  <2> QED BY <1>1, <1>2, RecursionExists
<1>4. f \in [0..N -> ScanStates] /\ f[0] = s
  BY <1>3 DEF IsRecursion
<1>5. ASSUME NEW i \in 1..N PROVE f[i] = Scan(f[i - 1], text[i])
  <2>1. f[i] = step[i][f[i - 1]] /\ f[i - 1] \in ScanStates
    <3>1. i - 1 \in 0..N
      OBVIOUS
    <3> QED BY <1>3, <1>4, <3>1 DEF IsRecursion
  <2> QED BY <2>1
<1> HIDE DEF step
<1>6. ASSUME NEW k \in 0..N PROVE Feed(s, SubSeq(text, 1, k)) = f[k]
  <2> DEFINE t == SubSeq(text, 1, k)
             g == [i \in 0..k |-> f[i]]
  <2>1. /\ t \in Seq(Characters) /\ Len(t) = k /\ \A i \in 1..k : t[i] = text[i]
    BY <1>1
  <2>2. g \in [0..k -> ScanStates] /\ g[0] = s /\ g[k] = f[k]
    BY <1>4
  <2>3. ASSUME NEW i \in 1..k PROVE g[i] = Scan(g[i - 1], t[i])
    <3>1. i \in 1..N /\ i - 1 \in 0..k /\ i \in 0..k
      BY <1>1
    <3>2. t[i] = text[i]
      BY <2>1
    <3>3. g[i] = f[i] /\ g[i - 1] = f[i - 1]
      BY <3>1
    <3> HIDE DEF g, t, N
    <3> QED BY <1>5, <3>1, <3>2, <3>3
  <2> HIDE DEF t, g
  <2>4. Feed(s, t) = g[Len(t)]
    BY <2>1, <2>2, <2>3, FeedIs
  <2> QED BY <2>1, <2>2, <2>4 DEF t
<1>7. f[n] \in ScanStates /\ (n = 0 => f[n] = s)
  BY <1>4
<1>8. n # 0 => n - 1 \in 0..N /\ n \in 1..N
  BY <1>1
<1> QED BY <1>5, <1>6, <1>7, <1>8

\* It makes no difference in how many pieces a text is fed.
LEMMA FeedInPieces ==
  ASSUME NEW s \in ScanStates, NEW a \in Seq(Characters), NEW b \in Seq(Characters)
  PROVE  /\ Feed(s, a) \in ScanStates
         /\ Feed(s, <<>>) = s
         /\ Feed(s, a \o b) = Feed(Feed(s, a), b)
<1>0. PICK la, lb : la = Len(a) /\ lb = Len(b)
  OBVIOUS
<1> DEFINE t == a \o b  r == Feed(s, a)
<1>1. /\ la \in Nat /\ lb \in Nat /\ t \in Seq(Characters) /\ Len(t) = la + lb
      /\ \A i \in 1..la : t[i] = a[i]
      /\ \A i \in 1..lb : t[la + i] = b[i]
  BY <1>0
<1>2. SubSeq(t, 1, la) = a
  <2>1. SubSeq(t, 1, la) \in Seq(Characters) /\ Len(SubSeq(t, 1, la)) = la
        /\ \A i \in 1..la : SubSeq(t, 1, la)[i] = t[i]
    BY <1>1
  <2> HIDE DEF t
  <2> QED BY <1>0, <1>1, <2>1, SeqEqual
<1>3. SubSeq(t, 1, la + lb) = t /\ SubSeq(b, 1, lb) = b /\ SubSeq(a, 1, la) = a
  BY <1>0, <1>1, SubSeqFull
<1>4. r \in ScanStates
  <2>1. la \in 0..Len(a)
    BY <1>0, <1>1
  <2> QED BY <1>3, <2>1, FeedGrows
<1> HIDE DEF t, r
<1> DEFINE P == {k \in Nat : k <= lb => Feed(s, SubSeq(t, 1, la + k)) = Feed(r, SubSeq(b, 1, k))}
<1>5. 0 \in P
  <2>1. 0 \in 0..Len(b) /\ la + 0 = la
    BY <1>0, <1>1
  <2>2. Feed(r, SubSeq(b, 1, 0)) = r
    BY <1>4, <2>1, FeedGrows
  <2>3. Feed(s, SubSeq(t, 1, la + 0)) = r
    BY <1>2, <2>1 DEF r
  <2> QED BY <2>2, <2>3
<1>6. ASSUME NEW k \in Nat, k \in P PROVE k + 1 \in P
  <2> SUFFICES ASSUME k + 1 <= lb
               PROVE  Feed(s, SubSeq(t, 1, la + (k + 1))) = Feed(r, SubSeq(b, 1, k + 1))
    OBVIOUS
  <2>1. /\ la + k + 1 \in 0..Len(t) /\ la + k + 1 # 0 /\ (la + k + 1) - 1 = la + k
        /\ la + (k + 1) = la + k + 1
        /\ k + 1 \in 0..Len(b) /\ k + 1 # 0 /\ (k + 1) - 1 = k /\ k + 1 \in 1..lb
    <3>1. la \in Nat /\ lb \in Nat /\ Len(t) = la + lb /\ Len(b) = lb /\ k \in Nat /\ k + 1 <= lb
      BY <1>0, <1>1
    <3> HIDE DEF P
    <3>2. ASSUME NEW lt, lt = la + lb PROVE la + k + 1 \in 0..lt /\ k + 1 \in 0..lb /\ k + 1 \in 1..lb
      BY <3>1, <3>2
    <3> QED BY <3>1, <3>2
  <2>2. Feed(s, SubSeq(t, 1, la + k + 1)) = Scan(Feed(s, SubSeq(t, 1, la + k)), t[la + k + 1])
    BY <1>1, <2>1, FeedGrows
  <2>3. Feed(r, SubSeq(b, 1, k + 1)) = Scan(Feed(r, SubSeq(b, 1, k)), b[k + 1])
    <3>1. PICK m : m = k + 1
      OBVIOUS
    <3>2. m \in 0..Len(b) /\ m # 0 /\ m - 1 = k
      BY <2>1, <3>1
    <3>3. Feed(r, SubSeq(b, 1, m)) = Scan(Feed(r, SubSeq(b, 1, m - 1)), b[m])
      <4> HIDE DEF P
      <4> QED BY <1>4, <3>2, FeedGrows
    <3> QED BY <3>1, <3>2, <3>3
  <2>4. t[la + k + 1] = b[k + 1]
    BY <1>1, <2>1
  <2>5. Feed(s, SubSeq(t, 1, la + k)) = Feed(r, SubSeq(b, 1, k))
    BY <1>1, <1>6
  <2> QED BY <2>1, <2>2, <2>3, <2>4, <2>5
<1>7. lb \in P
  <2> HIDE DEF P
  <2> QED BY <1>1, <1>5, <1>6, Induction
<1>8. Feed(s, t) = Feed(r, b)
  <2>1. Feed(s, SubSeq(t, 1, la + lb)) = Feed(r, SubSeq(b, 1, lb))
    BY <1>1, <1>7
  <2> QED BY <1>3, <2>1
<1> HIDE DEF P
<1>9. Feed(s, <<>>) = s
  <2>1. 0 \in 0..Len(a) /\ 0 \in Int /\ 1 \in Int /\ 0 < 1
    BY <1>0, <1>1
  <2>2. SubSeq(a, 1, 0) = <<>>
    BY <2>1, SubSeqEmpty
  <2>3. PICK m : m = 0
    OBVIOUS
  <2>4. m \in 0..Len(a)
    BY <2>1, <2>3
  <2>5. Feed(s, SubSeq(a, 1, m)) = s
    BY <2>3, <2>4, FeedGrows
  <2> QED BY <2>2, <2>3, <2>5
<1> QED BY <1>4, <1>8, <1>9 DEF t, r

\* How many of the first k bytes carry text: those of the stream.
Reached(b, k) == IF b.gzip THEN IF k < b.end THEN k ELSE b.end ELSE k

\* The text of the first k bytes, and that of the bytes from k to n.
Cut(b, k) == FlattenSeq(SubSeq(b.bytes, 1, Reached(b, k)))
Between(b, k, n) == FlattenSeq(SubSeq(b.bytes, Reached(b, k) + 1, Reached(b, n)))

\* What the whole of a body must be for the reader to accept it.
ReadWhole(b) ==
  /\ Len(b.bytes) <= MaxWire
  /\ Len(Text(b)) <= MaxDecoded
  /\ b.gzip => Len(b.bytes) = b.end
  /\ b.scanned => ScanFinished(Feed(NewScan, Text(b)))

\* A body is made of bytes, which stand for characters.
LEMMA BodyType ==
  ASSUME NEW b \in Bodies
  PROVE  /\ b.bytes \in Seq(Seq(Characters)) /\ b.end \in Nat
         /\ b.scanned \in BOOLEAN /\ b.gzip \in BOOLEAN
         /\ Len(b.bytes) \in Nat
         /\ ~b.gzip => \A i \in 1..Len(b.bytes) : Len(b.bytes[i]) = 1
<1>1. b \in Body
  BY BodyAssumption
<1>2. b.bytes \in Seq(Seq(Characters)) /\ b.end \in Nat /\ b.scanned \in BOOLEAN /\ b.gzip \in BOOLEAN
  BY <1>1 DEF Body
<1>3. Len(b.bytes) \in Nat /\ DOMAIN b.bytes = 1..Len(b.bytes)
  BY <1>2
<1> QED BY <1>2, <1>3, BodyAssumption

\* The bounds are positive.
LEMMA Bounds ==
  /\ MaxWire \in Nat /\ MaxDecoded \in Nat /\ MaxDepth \in Nat
  /\ 0 < MaxWire /\ 0 < MaxDecoded /\ 0 < MaxDepth /\ MaxWire <= MaxDecoded
BY BodyAssumption

\* A later position is not before an earlier one.
LEMMA ReachedBounds ==
  ASSUME NEW b \in Bodies, NEW k \in 0..Len(b.bytes), NEW n \in k..Len(b.bytes)
  PROVE  /\ Reached(b, k) \in 0..k /\ Reached(b, n) \in Reached(b, k)..n
         /\ Reached(b, k) \in 0..Len(b.bytes) /\ Reached(b, n) \in Reached(b, k)..Len(b.bytes)
         /\ Reached(b, 0) = 0
BY BodyType DEF Reached

\* A longer cut holds the shorter one.
LEMMA CutGrows ==
  ASSUME NEW b \in Bodies, NEW k \in 0..Len(b.bytes), NEW n \in k..Len(b.bytes)
  PROVE  /\ Cut(b, k) \in Seq(Characters) /\ Cut(b, n) \in Seq(Characters)
         /\ Between(b, k, n) \in Seq(Characters)
         /\ Cut(b, n) = Cut(b, k) \o Between(b, k, n)
         /\ Len(Cut(b, n)) = Len(Cut(b, k)) + Len(Between(b, k, n))
         /\ Len(Cut(b, k)) \in Nat /\ Len(Between(b, k, n)) \in Nat
         /\ Cut(b, 0) = <<>>
<1>1. PICK m, o : m = Reached(b, k) /\ o = Reached(b, n)
  OBVIOUS
<1>2. m \in 0..Len(b.bytes) /\ o \in m..Len(b.bytes) /\ o \in 0..Len(b.bytes) /\ 0 \in 0..Len(b.bytes)
  BY <1>1, ReachedBounds
<1>3. b.bytes \in Seq(Seq(Characters))
  BY BodyType
<1>4. /\ FlattenSeq(SubSeq(b.bytes, m + 1, o)) \in Seq(Characters)
      /\ FlattenSeq(SubSeq(b.bytes, 1, o))
           = FlattenSeq(SubSeq(b.bytes, 1, m)) \o FlattenSeq(SubSeq(b.bytes, m + 1, o))
  BY <1>2, <1>3, FlattenAdjacent
<1>5. /\ FlattenSeq(SubSeq(b.bytes, 1, o)) \in Seq(Characters)
      /\ FlattenSeq(SubSeq(b.bytes, 1, m)) \in Seq(Characters)
      /\ FlattenSeq(SubSeq(b.bytes, 1, 0)) = <<>>
  BY <1>2, <1>3, FlattenGrows
<1>6. Reached(b, 0) = 0
  BY ReachedBounds
<1>7. /\ Cut(b, k) = FlattenSeq(SubSeq(b.bytes, 1, m)) /\ Cut(b, n) = FlattenSeq(SubSeq(b.bytes, 1, o))
      /\ Between(b, k, n) = FlattenSeq(SubSeq(b.bytes, m + 1, o))
      /\ Cut(b, 0) = FlattenSeq(SubSeq(b.bytes, 1, 0))
  BY <1>1, <1>6 DEF Cut, Between
<1>8. \A x, y \in Seq(Characters) : Len(x \o y) = Len(x) + Len(y) /\ Len(x) \in Nat /\ Len(y) \in Nat
  OBVIOUS
<1> QED BY <1>4, <1>5, <1>7, <1>8

\* Without compression a byte is a character.
LEMMA PlainLength ==
  ASSUME NEW b \in Bodies, ~b.gzip, NEW k \in 0..Len(b.bytes)
  PROVE  Len(Cut(b, k)) = k
<1>1. PICK N : N = Len(b.bytes)
  OBVIOUS
<1>2. /\ b.bytes \in Seq(Seq(Characters)) /\ N \in Nat
      /\ \A i \in 1..N : Len(b.bytes[i]) = 1 /\ b.bytes[i] \in Seq(Characters)
  BY <1>1, BodyType
<1> DEFINE Flat(i) == FlattenSeq(SubSeq(b.bytes, 1, i))
           P == {i \in Nat : i <= N => Len(Flat(i)) = i}
<1>3. 0 \in P
  <2>1. 0 \in 0..N
    BY <1>2
  <2>2. Flat(0) = <<>>
    BY <1>1, <1>2, <2>1, FlattenGrows
  <2> QED BY <2>2
<1>4. ASSUME NEW i \in Nat, i \in P PROVE i + 1 \in P
  <2> SUFFICES ASSUME i + 1 <= N PROVE Len(Flat(i + 1)) = i + 1
    OBVIOUS
  <2>1. PICK m : m = i + 1
    OBVIOUS
  <2>2. m \in 0..N /\ m # 0 /\ m - 1 = i /\ i \in 0..N /\ m \in 1..N
    BY <1>2, <2>1
  <2>3. Flat(m) = Flat(m - 1) \o b.bytes[m] /\ Flat(i) \in Seq(Characters)
    BY <1>1, <1>2, <2>2, FlattenGrows
  <2>4. Len(Flat(i)) = i /\ Len(b.bytes[m]) = 1 /\ b.bytes[m] \in Seq(Characters)
    BY <1>2, <1>4, <2>2
  <2>5. \A x, y \in Seq(Characters) : Len(x \o y) = Len(x) + Len(y)
    OBVIOUS
  <2> HIDE DEF Flat, P
  <2> QED BY <2>1, <2>2, <2>3, <2>4, <2>5
<1>5. k \in P
  <2> HIDE DEF P
  <2> QED BY <1>3, <1>4, Induction
<1>6. Reached(b, k) = k
  BY DEF Reached
<1> QED BY <1>1, <1>2, <1>5, <1>6 DEF Cut

\* The smaller of two numbers.
LEMMA MinOfTwo ==
  ASSUME NEW x \in Int, NEW y \in Int
  PROVE  Min({x, y}) = IF x <= y THEN x ELSE y
BY DEF Min

\* The reference reads the last cut.
LEMMA TextIsCut ==
  ASSUME NEW b \in Bodies
  PROVE  Text(b) = Cut(b, Len(b.bytes))
<1>1. Len(b.bytes) \in Int /\ b.end \in Int
  BY BodyType
<1>2. Min({Len(b.bytes), b.end}) = IF Len(b.bytes) <= b.end THEN Len(b.bytes) ELSE b.end
  BY <1>1, MinOfTwo
<1>3. (IF b.gzip THEN Min({Len(b.bytes), b.end}) ELSE Len(b.bytes)) = Reached(b, Len(b.bytes))
  BY <1>1, <1>2 DEF Reached
<1> QED BY <1>3 DEF Text, Cut

\* Of the bytes on hand the stream's own are inflated.
LEMMA OwnIsBetween ==
  ASSUME NEW b \in Bodies, b.gzip, NEW k \in 0..Len(b.bytes), NEW n \in k..Len(b.bytes),
         NEW p, p = SubSeq(b.bytes, k + 1, n)
  PROVE  FlattenSeq(SubSeq(p, 1, Min({Len(p), b.end - k}))) = Between(b, k, n)
<1>1. PICK N, e, q : N = Len(b.bytes) /\ e = b.end /\ q = b.bytes
  OBVIOUS
<1>2. q \in Seq(Seq(Characters)) /\ N = Len(q) /\ N \in Nat /\ e \in Nat /\ k \in 0..N /\ n \in k..N
  BY <1>1, BodyType
<1>3. Len(p) = n - k /\ p \in Seq(Seq(Characters)) /\ \A i \in 1..(n - k) : p[i] = q[k + i]
  BY <1>1, <1>2
<1>4. PICK m : m = Min({Len(p), b.end - k})
  OBVIOUS
<1>5. m = IF n - k <= e - k THEN n - k ELSE e - k
  <2>1. n - k \in Int /\ e - k \in Int
    BY <1>2
  <2>2. Min({n - k, e - k}) = IF n - k <= e - k THEN n - k ELSE e - k
    BY <2>1, MinOfTwo
  <2> QED BY <1>1, <1>3, <1>4, <2>2
<1>6. PICK s, r : s = Reached(b, k) /\ r = Reached(b, n)
  OBVIOUS
<1>7. s = (IF k < e THEN k ELSE e) /\ r = (IF n < e THEN n ELSE e)
  BY <1>1, <1>6 DEF Reached
<1>8. SubSeq(p, 1, m) = SubSeq(q, s + 1, r)
  <2>1. CASE k < e
    <3>1. s = k /\ r = k + m /\ m \in 0..(n - k) /\ r \in k..N
      BY <1>2, <1>5, <1>7, <2>1
    <3>2. /\ SubSeq(p, 1, m) \in Seq(Seq(Characters)) /\ Len(SubSeq(p, 1, m)) = m
          /\ \A i \in 1..m : SubSeq(p, 1, m)[i] = p[i]
      BY <1>3, <3>1
    <3>3. /\ SubSeq(q, k + 1, k + m) \in Seq(Seq(Characters)) /\ Len(SubSeq(q, k + 1, k + m)) = m
          /\ \A i \in 1..m : SubSeq(q, k + 1, k + m)[i] = q[k + i]
      BY <1>2, <3>1
    <3>4. \A i \in 1..m : SubSeq(p, 1, m)[i] = SubSeq(q, k + 1, k + m)[i]
      BY <1>2, <1>3, <3>1, <3>2, <3>3
    <3>5. SubSeq(p, 1, m) = SubSeq(q, k + 1, k + m)
      BY <3>2, <3>3, <3>4, SeqEqual
    <3> QED BY <3>1, <3>5
  <2>2. CASE ~(k < e)
    <3>1. s = e /\ r = e /\ m \in Int /\ m < 1 /\ r < s + 1 /\ s + 1 \in Int /\ r \in Int /\ 1 \in Int
      BY <1>2, <1>5, <1>7, <2>2
    <3>2. SubSeq(p, 1, m) = <<>> /\ SubSeq(q, s + 1, r) = <<>>
      BY <3>1, SubSeqEmpty
    <3> QED BY <3>2
  <2> QED BY <2>1, <2>2
<1> QED BY <1>1, <1>4, <1>6, <1>8 DEF Between

\* A scan that has failed stays as it is.
LEMMA FailureStays ==
  ASSUME NEW s \in ScanStates, s.failed, NEW t \in Seq(Characters)
  PROVE  Feed(s, t) = s
<1>1. PICK N : N = Len(t)
  OBVIOUS
<1>2. N \in Nat
  BY <1>1
<1> DEFINE P == {k \in Nat : k <= N => Feed(s, SubSeq(t, 1, k)) = s}
<1>3. 0 \in P
  <2>1. PICK m : m = 0
    OBVIOUS
  <2>2. m \in 0..Len(t)
    BY <1>1, <1>2, <2>1
  <2>3. Feed(s, SubSeq(t, 1, m)) = s
    BY <2>1, <2>2, FeedGrows
  <2> QED BY <2>1, <2>3
<1>4. ASSUME NEW k \in Nat, k \in P PROVE k + 1 \in P
  <2> SUFFICES ASSUME k + 1 <= N PROVE Feed(s, SubSeq(t, 1, k + 1)) = s
    OBVIOUS
  <2>1. PICK m : m = k + 1
    OBVIOUS
  <2>2. m \in 0..Len(t) /\ m # 0 /\ m - 1 = k /\ k <= N
    BY <1>1, <1>2, <2>1
  <2>3. Feed(s, SubSeq(t, 1, m)) = Scan(Feed(s, SubSeq(t, 1, m - 1)), t[m])
    <3> HIDE DEF P
    <3> QED BY <2>2, FeedGrows
  <2>4. Feed(s, SubSeq(t, 1, m - 1)) = s
    BY <1>4, <2>2
  <2>5. Scan(s, t[m]) = s
    BY DEF Scan
  <2> QED BY <2>1, <2>3, <2>4, <2>5
<1>5. N \in P
  <2> HIDE DEF P
  <2> QED BY <1>2, <1>3, <1>4, Induction
<1>6. SubSeq(t, 1, N) = t
  BY <1>1, SubSeqFull
<1>7. Feed(s, SubSeq(t, 1, N)) = s
  BY <1>2, <1>5
<1> QED BY <1>6, <1>7

\* The new scanner is one.
LEMMA NewScanType == NewScan \in ScanStates /\ ~NewScan.failed
BY DEF NewScan, ScanStates

\* A cut that cannot be accepted is the cut of a body that cannot.
LEMMA CutsDecide ==
  ASSUME NEW b \in Bodies, NEW k \in 0..Len(b.bytes), ReadWhole(b)
  PROVE  /\ Len(Cut(b, k)) <= MaxDecoded
         /\ b.scanned => ~Feed(NewScan, Cut(b, k)).failed
<1>1. PICK N, rest : N = Len(b.bytes) /\ rest = Between(b, k, Len(b.bytes))
  OBVIOUS
<1>2. N \in k..Len(b.bytes) /\ N \in Nat
  BY <1>1, BodyType
<1>3. /\ Cut(b, k) \in Seq(Characters) /\ rest \in Seq(Characters)
      /\ Cut(b, N) = Cut(b, k) \o rest
      /\ Len(Cut(b, N)) = Len(Cut(b, k)) + Len(rest) /\ Len(Cut(b, k)) \in Nat /\ Len(rest) \in Nat
  BY <1>1, <1>2, CutGrows
<1>4. Text(b) = Cut(b, N)
  BY <1>1, TextIsCut
<1>5. Len(Cut(b, N)) <= MaxDecoded
  BY <1>4 DEF ReadWhole
<1>6. Len(Cut(b, k)) <= MaxDecoded
  BY <1>3, <1>5, Bounds
<1>7. ASSUME b.scanned, Feed(NewScan, Cut(b, k)).failed PROVE FALSE
  <2>1. /\ Feed(NewScan, Cut(b, k)) \in ScanStates
        /\ Feed(NewScan, Cut(b, k) \o rest) = Feed(Feed(NewScan, Cut(b, k)), rest)
    BY <1>3, NewScanType, FeedInPieces
  <2>2. Feed(Feed(NewScan, Cut(b, k)), rest) = Feed(NewScan, Cut(b, k))
    BY <1>3, <1>7, <2>1, FailureStays
  <2>3. Feed(NewScan, Text(b)).failed
    BY <1>3, <1>4, <1>7, <2>1, <2>2
  <2>4. ScanFinished(Feed(NewScan, Text(b)))
    BY <1>7 DEF ReadWhole
  <2> QED BY <2>3, <2>4 DEF ScanFinished
<1> QED BY <1>6, <1>7

\* How many bytes have been turned into text.
Read == IF body.gzip THEN fed ELSE got

\* The reader is at work: what it holds is the text of what it has read, which
\* zlib returned to the last character and the scanner has not refused.
AtWork == reading \in {"headers", "receive", "inflate"}

WorkSoFar ==
  /\ got <= MaxWire
  /\ pending = <<>>
  /\ fed \in 0..got
  /\ body.gzip => part = SubSeq(body.bytes, fed + 1, got)
  /\ body.gzip => (reading = "inflate" <=> fed < got)
  /\ ~body.gzip => reading # "inflate"
  /\ decoded = Cut(body, Read)
  /\ Len(decoded) <= MaxDecoded
  /\ scan = IF body.scanned THEN Feed(NewScan, decoded) ELSE NewScan
  /\ ~scan.failed

\* The inductive invariant: the verdict is that on the whole body.
BodyInvariant ==
  /\ body \in Bodies
  /\ reading \in {"headers", "receive", "inflate", "accepted", "rejected", "broken"}
  /\ got \in 0..Len(body.bytes)
  /\ held \in 0..(MaxDecoded + 1)
  /\ AtWork => WorkSoFar
  /\ reading = "accepted" => ReadWhole(body) /\ decoded = Text(body)
  /\ reading = "rejected" => ~ReadWhole(body)

\* The reader starts with nothing read, which is the text of no bytes.
LEMMA BodyInitHolds == BodyInit => BodyInvariant
<1> SUFFICES ASSUME BodyInit PROVE BodyInvariant
  OBVIOUS
<1>1. body \in Bodies /\ reading = "headers" /\ got = 0 /\ fed = 0 /\ held = 0
  BY DEF BodyInit
<1>2. got \in 0..Len(body.bytes) /\ got \in got..Len(body.bytes)
  BY <1>1, BodyType
<1>3. held \in 0..(MaxDecoded + 1) /\ got <= MaxWire /\ fed \in 0..got
  BY <1>1, Bounds
<1>4. Read = 0 /\ Cut(body, 0) = <<>>
  BY <1>1, <1>2, CutGrows DEF Read
<1>5. decoded = Cut(body, Read) /\ Len(decoded) <= MaxDecoded
  <2>1. decoded = <<>> /\ Len(<<>>) = 0
    BY DEF BodyInit
  <2> QED BY <1>4, <2>1, Bounds
<1>6. part = SubSeq(body.bytes, fed + 1, got) /\ pending = <<>>
  <2>1. part = <<>> /\ pending = <<>>
    BY DEF BodyInit
  <2>2. fed + 1 \in Int /\ got \in Int /\ got < fed + 1
    BY <1>1
  <2> QED BY <2>1, <2>2, SubSeqEmpty
<1>7. scan = (IF body.scanned THEN Feed(NewScan, decoded) ELSE NewScan) /\ ~scan.failed
  <2>1. scan = NewScan /\ decoded = <<>> /\ <<>> \in Seq(Characters)
    BY DEF BodyInit
  <2>2. Feed(NewScan, <<>>) = NewScan /\ ~NewScan.failed
    BY <2>1, NewScanType, FeedInPieces
  <2> QED BY <2>1, <2>2
<1> QED BY <1>1, <1>2, <1>3, <1>5, <1>6, <1>7 DEF BodyInvariant, AtWork, WorkSoFar

\* Accepting the next stretch of text: it is taken, or the scanner refuses the
\* text as far as it.
LEMMA Accepting ==
  ASSUME BodyInvariant, AtWork, NEW n \in Read..Len(body.bytes), NEW next, next # "rejected",
         Len(Between(body, Read, n)) <= Remaining,
         Accept(Between(body, Read, n), next)
  PROVE  \/ /\ reading' = next
            /\ decoded' = Cut(body, n) /\ Len(decoded') <= MaxDecoded
            /\ scan' = IF body.scanned THEN Feed(NewScan, decoded') ELSE NewScan
            /\ ~scan'.failed
         \/ reading' = "rejected" /\ ~ReadWhole(body)
<1>1. PICK piece : piece = Between(body, Read, n)
  OBVIOUS
<1>2. body \in Bodies /\ Read \in 0..Len(body.bytes) /\ n \in 0..Len(body.bytes)
  <2>1. body \in Bodies /\ got \in 0..Len(body.bytes) /\ fed \in 0..got
    BY DEF BodyInvariant, WorkSoFar
  <2>2. Len(body.bytes) \in Nat
    BY <2>1, BodyType
  <2> QED BY <2>1, <2>2 DEF Read
<1>3. decoded = Cut(body, Read) /\ scan = (IF body.scanned THEN Feed(NewScan, decoded) ELSE NewScan)
  BY DEF BodyInvariant, WorkSoFar
<1>4. /\ decoded \in Seq(Characters) /\ piece \in Seq(Characters)
      /\ Cut(body, n) = decoded \o piece
      /\ Len(Cut(body, n)) = Len(decoded) + Len(piece) /\ Len(decoded) \in Nat /\ Len(piece) \in Nat
  BY <1>1, <1>2, <1>3, CutGrows
<1>5. Len(decoded \o piece) <= MaxDecoded
  BY <1>1, <1>4, Bounds DEF Remaining
<1>6. scan' = IF body.scanned THEN Feed(NewScan, decoded \o piece) ELSE NewScan
  <2>1. scan' = IF body.scanned THEN Feed(scan, piece) ELSE scan
    BY <1>1 DEF Accept
  <2>2. Feed(NewScan, decoded \o piece) = Feed(Feed(NewScan, decoded), piece)
    BY <1>4, NewScanType, FeedInPieces
  <2> QED BY <1>3, <2>1, <2>2
<1>7. CASE scan'.failed
  <2>1. reading' = "rejected"
    BY <1>7 DEF Accept, Ends
  <2>2. body.scanned /\ Feed(NewScan, Cut(body, n)).failed
    BY <1>4, <1>6, <1>7, NewScanType
  <2> QED BY <1>2, <2>1, <2>2, CutsDecide
<1>8. CASE ~scan'.failed
  <2>1. reading' = next /\ decoded' = decoded \o piece
    BY <1>1, <1>8 DEF Accept
  <2> QED BY <1>4, <1>5, <1>6, <1>8, <2>1
<1> QED BY <1>7, <1>8

\* More text than the limit admits is more than the body may have.
LEMMA TooMuch ==
  ASSUME BodyInvariant, AtWork, NEW n \in Read..Len(body.bytes),
         Len(Between(body, Read, n)) > Remaining
  PROVE  ~ReadWhole(body)
<1>1. body \in Bodies /\ Read \in 0..Len(body.bytes) /\ n \in 0..Len(body.bytes)
  <2>1. body \in Bodies /\ got \in 0..Len(body.bytes) /\ fed \in 0..got
    BY DEF BodyInvariant, WorkSoFar
  <2>2. Len(body.bytes) \in Nat
    BY <2>1, BodyType
  <2> QED BY <2>1, <2>2 DEF Read
<1>2. decoded = Cut(body, Read)
  BY DEF BodyInvariant, WorkSoFar
<1>3. Len(Cut(body, n)) = Len(decoded) + Len(Between(body, Read, n))
      /\ Len(decoded) \in Nat /\ Len(Between(body, Read, n)) \in Nat
  BY <1>1, <1>2, CutGrows
<1>4. ~(Len(Cut(body, n)) <= MaxDecoded)
  BY <1>3, Bounds DEF Remaining
<1> QED BY <1>1, <1>4, CutsDecide

\* What BodyInvariant says of the reader at work.
LEMMA Working ==
  ASSUME BodyInvariant, AtWork
  PROVE  /\ body \in Bodies /\ got \in 0..Len(body.bytes) /\ Len(body.bytes) \in Nat
         /\ got \in Nat /\ fed \in 0..got /\ fed \in Nat /\ got <= MaxWire
         /\ Read \in 0..got /\ Read \in 0..Len(body.bytes)
         /\ body.gzip => Read = fed
         /\ ~body.gzip => Read = got
         /\ decoded = Cut(body, Read)
         /\ decoded \in Seq(Characters) /\ Len(decoded) \in Nat /\ Len(decoded) <= MaxDecoded
         /\ Remaining \in Nat
         /\ held \in 0..(MaxDecoded + 1)
<1>1. body \in Bodies /\ got \in 0..Len(body.bytes) /\ fed \in 0..got /\ got <= MaxWire
      /\ decoded = Cut(body, Read) /\ Len(decoded) <= MaxDecoded /\ held \in 0..(MaxDecoded + 1)
  BY DEF BodyInvariant, WorkSoFar
<1>2. Len(body.bytes) \in Nat
  BY <1>1, BodyType
<1>3. Read \in 0..got /\ Read \in 0..Len(body.bytes)
      /\ (body.gzip => Read = fed) /\ (~body.gzip => Read = got)
  BY <1>1, <1>2 DEF Read
<1>4. Read \in Read..Len(body.bytes)
  BY <1>2, <1>3
<1>5. decoded \in Seq(Characters) /\ Len(decoded) \in Nat
  BY <1>1, <1>3, <1>4, CutGrows
<1>6. Remaining \in Nat
  BY <1>1, <1>5, Bounds DEF Remaining
<1> QED BY <1>1, <1>2, <1>3, <1>5, <1>6

\* What is held stays within one character of the limit.
LEMMA Holding ==
  ASSUME BodyInvariant, AtWork, NEW piece, Len(piece) \in Nat, Len(piece) <= Remaining + 1, Hold(piece)
  PROVE  held' \in 0..(MaxDecoded + 1)
BY Working, Bounds DEF Hold, Remaining

\* A declared length beyond the limit is the length of the body.
LEMMA ReadHeadersKeeps ==
  ASSUME BodyInvariant, ReadHeaders
  PROVE  BodyInvariant'
<1>1. /\ reading = "headers" /\ AtWork /\ WorkSoFar
      /\ UNCHANGED <<body, got, part, pending, fed, decoded, held, scan>>
  BY DEF ReadHeaders, zlib, AtWork, BodyInvariant
<1>2. CASE Len(body.bytes) > MaxWire /\ Ends("rejected")
  <2>1. ~ReadWhole(body)
    BY <1>1, <1>2, Working, Bounds DEF ReadWhole
  <2> QED BY <1>1, <1>2, <2>1 DEF BodyInvariant, AtWork, Ends, ReadWhole, Text
<1>3. CASE Ends("receive")
  <2>1. WorkSoFar'
    BY <1>1, <1>3 DEF WorkSoFar, Ends, Read, Cut, Reached
  <2> QED BY <1>1, <1>3, <2>1 DEF BodyInvariant, AtWork, Ends
<1> QED BY <1>2, <1>3 DEF ReadHeaders

\* A broken connection is no verdict.
LEMMA BreakOffKeeps ==
  ASSUME BodyInvariant, BreakOff
  PROVE  BodyInvariant'
BY DEF BreakOff, zlib, AtWork, BodyInvariant, Ends

\* Steps of others leave the reader as it is.
LEMMA BodyStutterKeeps ==
  ASSUME BodyInvariant, UNCHANGED bodyVars
  PROVE  BodyInvariant'
<1>1. UNCHANGED <<body, reading, got, part, pending, fed, decoded, held, scan>>
  BY DEF bodyVars
<1>2. WorkSoFar => WorkSoFar'
  BY <1>1 DEF WorkSoFar, Read
<1> QED BY <1>1, <1>2 DEF BodyInvariant, AtWork

\* The next part: counted, kept for zlib, or accepted as text.
LEMMA ReceiveKeeps ==
  ASSUME BodyInvariant, Receive
  PROVE  BodyInvariant'
<1>1. reading = "receive" /\ AtWork /\ WorkSoFar /\ UNCHANGED <<body, pending, fed>>
  BY DEF Receive, AtWork, BodyInvariant
<1>2. PICK n \in 1..(Len(body.bytes) - got) :
       /\ got' = got + n
       /\ \/ got' > MaxWire /\ Reject /\ UNCHANGED <<part, held>>
          \/ /\ got' <= MaxWire /\ body.gzip /\ part' = Piece(n) /\ Ends("inflate")
             /\ UNCHANGED <<decoded, held, scan>>
          \/ /\ got' <= MaxWire /\ ~body.gzip
             /\ Hold(FlattenSeq(Piece(n)))
             /\ IF n > Remaining THEN Reject ELSE Accept(FlattenSeq(Piece(n)), "receive")
             /\ UNCHANGED part
  BY DEF Receive
<1>3. /\ got' \in 0..Len(body.bytes) /\ got' \in got..Len(body.bytes) /\ got \in 0..Len(body.bytes)
      /\ n \in Nat /\ n > 0 /\ body \in Bodies /\ Len(body.bytes) \in Nat /\ got \in Nat
      /\ held \in 0..(MaxDecoded + 1)
  BY <1>1, <1>2, Working
<1>4. CASE got' > MaxWire /\ Reject /\ UNCHANGED <<part, held>>
  <2>1. ~ReadWhole(body)
    BY <1>3, <1>4, Bounds DEF ReadWhole
  <2> QED BY <1>1, <1>3, <1>4, <2>1 DEF BodyInvariant, AtWork, Reject, Ends, ReadWhole, Text
<1>5. CASE /\ got' <= MaxWire /\ body.gzip /\ part' = Piece(n) /\ Ends("inflate")
           /\ UNCHANGED <<decoded, held, scan>>
  <2>1. fed = got
    BY <1>1, <1>3, <1>5 DEF WorkSoFar
  <2>2. part' = SubSeq(body.bytes, fed + 1, got')
    BY <1>2, <1>5, <2>1 DEF Piece
  <2>3. fed \in 0..got' /\ fed < got'
    BY <1>2, <1>3, <2>1
  <2>4. Read' = Read /\ Cut(body, Read)' = Cut(body, Read)
    BY <1>1, <1>5 DEF Read, Cut, Reached
  <2>5. WorkSoFar'
    BY <1>1, <1>5, <2>2, <2>3, <2>4 DEF WorkSoFar, Ends
  <2> QED BY <1>1, <1>3, <1>5, <2>5 DEF BodyInvariant, AtWork, Ends
<1>6. CASE /\ got' <= MaxWire /\ ~body.gzip
           /\ Hold(FlattenSeq(Piece(n)))
           /\ IF n > Remaining THEN Reject ELSE Accept(FlattenSeq(Piece(n)), "receive")
           /\ UNCHANGED part
  <2> DEFINE piece == Between(body, got, got')
  <2>1. Read = got /\ FlattenSeq(Piece(n)) = piece
    <3>1. Read = got /\ Reached(body, got) = got /\ Reached(body, got') = got + n
      BY <1>2, <1>6 DEF Read, Reached
    <3> QED BY <3>1 DEF Piece, Between
  <2>2. decoded = Cut(body, got) /\ Len(decoded) = got /\ Len(piece) = n
    <3>1. decoded = Cut(body, got)
      BY <1>1, <2>1, Working
    <3>2. Len(Cut(body, got)) = got /\ Len(Cut(body, got')) = got'
      BY <1>3, <1>6, PlainLength
    <3>3. Len(Cut(body, got')) = Len(Cut(body, got)) + Len(piece) /\ Len(piece) \in Nat
      BY <1>3, CutGrows
    <3> QED BY <1>2, <1>3, <3>1, <3>2, <3>3
  <2> HIDE DEF piece
  <2>3. n <= Remaining
    BY <1>2, <1>3, <1>6, <2>2, Bounds DEF Remaining
  <2>4. held' \in 0..(MaxDecoded + 1)
    <3>1. Remaining \in Nat
      BY <1>1, Working
    <3>2. Len(piece) \in Nat /\ Len(piece) <= Remaining + 1
      BY <1>3, <2>2, <2>3, <3>1
    <3> QED BY <1>1, <1>6, <2>1, <3>2, Holding
  <2>5. Accept(piece, "receive")
    <3>1. ~(n > Remaining)
      BY <1>1, <1>3, <2>3, Working
    <3> QED BY <1>6, <2>1, <3>1
  <2>6. \/ /\ reading' = "receive"
           /\ decoded' = Cut(body, got') /\ Len(decoded') <= MaxDecoded
           /\ scan' = IF body.scanned THEN Feed(NewScan, decoded') ELSE NewScan
           /\ ~scan'.failed
        \/ reading' = "rejected" /\ ~ReadWhole(body)
    <3>1. PICK m : m = got'
      OBVIOUS
    <3>2. m \in Read..Len(body.bytes) /\ "receive" # "rejected"
      BY <1>3, <2>1, <3>1
    <3>3. Len(Between(body, Read, m)) <= Remaining /\ Accept(Between(body, Read, m), "receive")
      BY <2>1, <2>2, <2>3, <2>5, <3>1 DEF piece
    <3>4. \/ /\ reading' = "receive"
             /\ decoded' = Cut(body, m) /\ Len(decoded') <= MaxDecoded
             /\ scan' = IF body.scanned THEN Feed(NewScan, decoded') ELSE NewScan
             /\ ~scan'.failed
          \/ reading' = "rejected" /\ ~ReadWhole(body)
      BY <1>1, <3>2, <3>3, Accepting
    <3> QED BY <3>1, <3>4
  <2>7. CASE reading' = "rejected" /\ ~ReadWhole(body)
    BY <1>1, <1>3, <2>4, <2>7 DEF BodyInvariant, AtWork, ReadWhole, Text
  <2>8. CASE /\ reading' = "receive"
             /\ decoded' = Cut(body, got') /\ Len(decoded') <= MaxDecoded
             /\ scan' = IF body.scanned THEN Feed(NewScan, decoded') ELSE NewScan
             /\ ~scan'.failed
    <3>1. Read' = got'
      BY <1>1, <1>6 DEF Read
    <3>2. Cut(body, Read)' = Cut(body, got')
      BY <1>1, <3>1 DEF Cut, Reached
    <3>3. fed \in 0..got'
      BY <1>1, <1>3, Working
    <3>4. WorkSoFar'
      BY <1>1, <1>6, <2>8, <3>2, <3>3 DEF WorkSoFar
    <3> QED BY <1>1, <1>3, <2>4, <2>8, <3>4 DEF BodyInvariant, AtWork
  <2> QED BY <2>6, <2>7, <2>8
<1> QED BY <1>2, <1>4, <1>5, <1>6

\* decompress with a limit: all of the text of the bytes on hand, or one
\* character more than may follow.
LEMMA InflatedIs ==
  ASSUME BodyInvariant, reading = "inflate", NEW r, r = Inflated(part, Remaining + 1),
         NEW text, text = Between(body, fed, got)
  PROVE  /\ Len(text) <= Remaining => r = [out |-> text, used |-> Len(part), owed |-> <<>>]
         /\ Len(text) > Remaining => Len(r.out) = Remaining + 1
<1>1. /\ AtWork /\ WorkSoFar
  BY DEF AtWork, BodyInvariant
<1>2. /\ body \in Bodies /\ fed \in 0..Len(body.bytes) /\ got \in fed..Len(body.bytes)
      /\ Remaining \in Nat
  BY <1>1, Working
<1>3. body.gzip /\ pending = <<>> /\ part = SubSeq(body.bytes, fed + 1, got)
  BY <1>1 DEF WorkSoFar
<1>4. text \in Seq(Characters) /\ Len(text) \in Nat
  BY <1>2, CutGrows
<1> DEFINE own == SubSeq(part, 1, Min({Len(part), body.end - fed}))
<1>5. pending \o FlattenSeq(own) = text
  <2>1. FlattenSeq(own) = text
    BY <1>2, <1>3, OwnIsBetween
  <2>2. <<>> \o text = text
    BY <1>4
  <2> QED BY <1>3, <2>1, <2>2
<1>6. CASE Len(text) <= Remaining
  <2>1. Len(text) < Remaining + 1
    BY <1>2, <1>4, <1>6
  <2>2. Inflated(part, Remaining + 1) = [out |-> text, used |-> Len(part), owed |-> <<>>]
    BY <1>5, <2>1 DEF Inflated
  <2> QED BY <1>2, <1>4, <1>6, <2>2
<1>7. CASE Len(text) > Remaining
  <2>1. ~(Remaining + 1 = 0 \/ Len(text) < Remaining + 1)
    BY <1>2, <1>4, <1>7
  <2>2. r.out = SubSeq(text, 1, Remaining + 1)
    BY <1>5, <2>1 DEF Inflated
  <2>3. Len(SubSeq(text, 1, Remaining + 1)) = Remaining + 1
    BY <1>2, <1>4, <1>7
  <2> QED BY <1>2, <1>4, <1>7, <2>2, <2>3
<1> QED BY <1>2, <1>4, <1>6, <1>7

\* A turn of the loop inflates all that is on hand or exceeds the limit.
LEMMA InflateKeeps ==
  ASSUME BodyInvariant, Inflate
  PROVE  BodyInvariant'
<1>1. PICK r : r = Inflated(part, Remaining + 1)
  OBVIOUS
<1>2. /\ reading = "inflate" /\ AtWork /\ WorkSoFar
      /\ Hold(r.out) /\ pending' = r.owed /\ fed' = fed + r.used
      /\ part' = SubSeq(part, r.used + 1, Len(part))
      /\ \/ Len(r.out) > Remaining /\ Reject
         \/ /\ Len(r.out) <= Remaining
            /\ IF r.used = 0 /\ r.out = <<>>
                 THEN Reject
                 ELSE Accept(r.out, IF part' = <<>> THEN "receive" ELSE "inflate")
      /\ UNCHANGED <<body, got>>
  BY <1>1 DEF Inflate, InflateWith, AtWork, BodyInvariant
<1>3. /\ body \in Bodies /\ fed \in Nat /\ got \in Nat /\ fed \in 0..Len(body.bytes)
      /\ got \in fed..Len(body.bytes) /\ got \in 0..Len(body.bytes) /\ Remaining \in Nat
      /\ got \in Read..Len(body.bytes)
  BY <1>2, Working
<1>4. body.gzip /\ Read = fed /\ part = SubSeq(body.bytes, fed + 1, got) /\ fed < got /\ got <= MaxWire
  BY <1>2 DEF WorkSoFar, Read
<1>5. Len(part) = got - fed
  <2>1. body.bytes \in Seq(Seq(Characters))
    BY <1>3, BodyType
  <2> QED BY <1>3, <1>4, <2>1
<1>6. PICK text : text = Between(body, fed, got)
  OBVIOUS
<1>7. text \in Seq(Characters) /\ Len(text) \in Nat
  BY <1>3, <1>6, CutGrows
<1>8. /\ Len(text) <= Remaining => r = [out |-> text, used |-> Len(part), owed |-> <<>>]
      /\ Len(text) > Remaining => Len(r.out) = Remaining + 1
  BY <1>1, <1>2, <1>6, InflatedIs
<1>9. CASE Len(text) > Remaining
  <2>1. Len(r.out) = Remaining + 1 /\ Len(r.out) > Remaining /\ ~(Len(r.out) <= Remaining)
    BY <1>3, <1>8, <1>9
  <2>2. Reject
    BY <1>2, <2>1
  <2>3. held' \in 0..(MaxDecoded + 1)
    <3>1. Len(r.out) \in Nat /\ Len(r.out) <= Remaining + 1
      BY <1>3, <2>1
    <3> QED BY <1>2, <3>1, Holding
  <2>4. ~ReadWhole(body)
    BY <1>2, <1>3, <1>4, <1>6, <1>9, TooMuch
  <2> QED BY <1>2, <1>3, <2>2, <2>3, <2>4 DEF BodyInvariant, AtWork, Reject, Ends, ReadWhole, Text
<1>10. CASE Len(text) <= Remaining
  <2>1. r.out = text /\ r.used = got - fed /\ r.owed = <<>>
    BY <1>5, <1>8, <1>10
  <2>2. held' \in 0..(MaxDecoded + 1)
    <3>1. Len(text) \in Nat /\ Len(text) <= Remaining + 1
      BY <1>3, <1>7, <1>10
    <3> QED BY <1>2, <2>1, <3>1, Holding
  <2>3. fed' = got /\ part' = <<>> /\ pending' = <<>>
    <3>1. fed' = got
      BY <1>2, <1>3, <2>1
    <3>2. part' = SubSeq(part, r.used + 1, Len(part)) /\ r.used + 1 \in Int /\ Len(part) \in Int
          /\ Len(part) < r.used + 1
      BY <1>2, <1>3, <1>5, <2>1
    <3>3. part' = <<>>
      BY <3>2, SubSeqEmpty
    <3> QED BY <1>2, <2>1, <3>1, <3>3
  <2>4. Accept(text, "receive")
    <3>1. ~(r.used = 0) /\ ~(Len(r.out) > Remaining)
      BY <1>3, <1>4, <1>7, <1>10, <2>1
    <3> QED BY <1>2, <2>1, <2>3, <3>1
  <2>5. \/ /\ reading' = "receive"
           /\ decoded' = Cut(body, got) /\ Len(decoded') <= MaxDecoded
           /\ scan' = IF body.scanned THEN Feed(NewScan, decoded') ELSE NewScan
           /\ ~scan'.failed
        \/ reading' = "rejected" /\ ~ReadWhole(body)
    <3>1. "receive" # "rejected" /\ Between(body, Read, got) = text
      BY <1>4, <1>6
    <3>2. Len(Between(body, Read, got)) <= Remaining /\ Accept(Between(body, Read, got), "receive")
      BY <1>10, <2>4, <3>1
    <3> QED BY <1>2, <1>3, <3>1, <3>2, Accepting
  <2>6. CASE reading' = "rejected" /\ ~ReadWhole(body)
    BY <1>2, <1>3, <2>2, <2>6 DEF BodyInvariant, AtWork, ReadWhole, Text
  <2>7. CASE /\ reading' = "receive"
             /\ decoded' = Cut(body, got) /\ Len(decoded') <= MaxDecoded
             /\ scan' = IF body.scanned THEN Feed(NewScan, decoded') ELSE NewScan
             /\ ~scan'.failed
    <3>1. Read' = got
      BY <1>2, <1>4, <2>3 DEF Read
    <3>2. Cut(body, Read)' = Cut(body, got)
      BY <1>2, <3>1 DEF Cut, Reached
    <3>3. part' = SubSeq(body.bytes, fed' + 1, got)
      <4>1. fed' + 1 \in Int /\ got \in Int /\ got < fed' + 1
        BY <1>3, <2>3
      <4>2. SubSeq(body.bytes, fed' + 1, got) = <<>>
        BY <4>1, SubSeqEmpty
      <4> QED BY <2>3, <4>2
    <3>4. fed' \in 0..got /\ ~(fed' < got)
      BY <1>3, <2>3
    <3>5. WorkSoFar'
      BY <1>2, <1>4, <2>3, <2>7, <3>2, <3>3, <3>4 DEF WorkSoFar
    <3> QED BY <1>2, <1>3, <2>2, <2>7, <3>5 DEF BodyInvariant, AtWork
  <2> QED BY <2>5, <2>6, <2>7
<1> QED BY <1>3, <1>7, <1>9, <1>10

\* Nothing more comes.
LEMMA NothingMore ==
  ASSUME NEW b \in Bodies, NEW k \in 0..Len(b.bytes)
  PROVE  Between(b, k, k) = <<>>
<1>1. Reached(b, k) \in 0..k
  <2>1. k \in k..Len(b.bytes)
    BY BodyType
  <2> QED BY <2>1, ReachedBounds
<1>2. Reached(b, k) + 1 \in Int /\ Reached(b, k) \in Int /\ Reached(b, k) < Reached(b, k) + 1
  BY <1>1
<1>3. SubSeq(b.bytes, Reached(b, k) + 1, Reached(b, k)) = <<>>
  BY <1>2, SubSeqEmpty
<1>4. FlattenSeq(SubSeq(b.bytes, 1, 0)) = <<>> /\ SubSeq(b.bytes, 1, 0) = <<>>
  <2>1. 0 \in 0..Len(b.bytes) /\ b.bytes \in Seq(Seq(Characters)) /\ 0 < 1 /\ 0 \in Int /\ 1 \in Int
    BY BodyType
  <2> QED BY <2>1, FlattenGrows, SubSeqEmpty
<1> QED BY <1>3, <1>4 DEF Between

\* At the end the verdict is that on the text read.
LEMMA EndOfBodyKeeps ==
  ASSUME BodyInvariant, EndOfBody
  PROVE  BodyInvariant'
<1>1. /\ reading = "receive" /\ got = Len(body.bytes) /\ AtWork /\ WorkSoFar
      /\ Hold(pending) /\ UNCHANGED <<body, got, part, fed>>
  BY DEF EndOfBody, AtWork, BodyInvariant
<1>2. /\ body \in Bodies /\ got \in 0..Len(body.bytes) /\ fed \in Nat /\ got \in Nat
      /\ Read \in 0..Len(body.bytes) /\ Remaining \in Nat /\ got <= MaxWire
      /\ decoded = Cut(body, Read) /\ Len(decoded) <= MaxDecoded
  BY <1>1, Working
<1>3. pending = <<>> /\ (body.gzip => fed = got) /\ Read = got
  BY <1>1, <1>2 DEF WorkSoFar, Read
<1>4. Between(body, Read, Read) = <<>>
  BY <1>2, NothingMore
<1>5. decoded = Text(body)
  BY <1>1, <1>2, <1>3, TextIsCut
<1>6. held' \in 0..(MaxDecoded + 1)
  <2>1. Len(pending) = 0
    BY <1>3
  <2>2. Len(pending) \in Nat /\ Len(pending) <= Remaining + 1
    BY <1>2, <2>1
  <2> QED BY <1>1, <2>2, Holding
<1> DEFINE fits == (body.scanned => ScanFinished(Feed(scan, pending))) /\ Whole(decoded \o pending)
<1>7. CASE (Len(pending) > Remaining \/ ~Complete) /\ Reject
  <2>1. ~Complete
    <3>1. Len(pending) = 0
      BY <1>3
    <3> QED BY <1>2, <1>7, <3>1
  <2>2. ~ReadWhole(body)
    BY <1>1, <1>3, <2>1 DEF Complete, ReadWhole
  <2> QED BY <1>1, <1>2, <1>6, <1>7, <2>2 DEF BodyInvariant, AtWork, Reject, Ends, ReadWhole, Text
<1>8. CASE Complete /\ Accept(pending, IF fits THEN "accepted" ELSE "rejected")
  <2>1. decoded \in Seq(Characters) /\ decoded \o pending = decoded
    <3>1. decoded \in Seq(Characters)
      BY <1>1, Working
    <3> QED BY <1>3, <3>1
  <2>2. scan' = scan
    <3>1. CASE body.scanned
      <4>1. scan' = Feed(scan, pending) /\ scan = Feed(NewScan, decoded)
        BY <1>1, <1>8, <3>1 DEF Accept, WorkSoFar
      <4>2. scan \in ScanStates
        BY <2>1, <4>1, NewScanType, FeedInPieces
      <4> QED BY <1>3, <2>1, <4>1, <4>2, FeedInPieces
    <3>2. CASE ~body.scanned
      BY <1>8, <3>2 DEF Accept
    <3> QED BY <3>1, <3>2
  <2>3. body.scanned => scan = Feed(NewScan, decoded) /\ Feed(scan, pending) = scan
    <3> SUFFICES ASSUME body.scanned PROVE scan = Feed(NewScan, decoded) /\ Feed(scan, pending) = scan
      OBVIOUS
    <3>1. scan' = Feed(scan, pending) /\ scan = Feed(NewScan, decoded)
      BY <1>1, <1>8 DEF Accept, WorkSoFar
    <3> QED BY <2>2, <3>1
  <2>4. ~scan'.failed
    BY <1>1, <2>2 DEF WorkSoFar
  <2>5. reading' = (IF fits THEN "accepted" ELSE "rejected") /\ decoded' = decoded
    BY <1>8, <2>1, <2>4 DEF Accept
  <2>6. fits <=> (body.scanned => ScanFinished(Feed(NewScan, Text(body))))
    BY <1>5, <2>1, <2>3 DEF Whole
  <2>7. fits <=> ReadWhole(body)
    BY <1>1, <1>2, <1>3, <1>5, <1>8, <2>6 DEF ReadWhole, Complete
  <2> HIDE DEF fits
  <2> QED BY <1>1, <1>2, <1>5, <1>6, <2>5, <2>7 DEF BodyInvariant, AtWork, ReadWhole, Text
<1> QED BY <1>7, <1>8 DEF EndOfBody

\* Every step keeps the invariant.
LEMMA BodyNextHolds == BodyInvariant /\ [BodyNext]_bodyVars => BodyInvariant'
<1> SUFFICES ASSUME BodyInvariant, [BodyNext]_bodyVars PROVE BodyInvariant'
  OBVIOUS
<1>1. CASE ReadHeaders
  BY <1>1, ReadHeadersKeeps
<1>2. CASE Receive
  BY <1>2, ReceiveKeeps
<1>3. CASE Inflate
  BY <1>3, InflateKeeps
<1>4. CASE EndOfBody
  BY <1>4, EndOfBodyKeeps
<1>5. CASE BreakOff
  BY <1>5, BreakOffKeeps
<1>6. CASE UNCHANGED bodyVars
  BY <1>6, BodyStutterKeeps
<1> QED BY <1>1, <1>2, <1>3, <1>4, <1>5, <1>6 DEF BodyNext

\* Whatever the parts a body comes in, the reader holds the text of what it has
\* read, scanned as if in one piece, and its verdict is that on the whole.
THEOREM BodyInvariantHolds == BodySpec => []BodyInvariant
<1>1. BodyInit => BodyInvariant
  BY BodyInitHolds
<1>2. BodyInvariant /\ [BodyNext]_bodyVars => BodyInvariant'
  BY BodyNextHolds
<1> QED BY <1>1, <1>2, PTL DEF BodySpec

\* However much a compressed part inflates to, _bounded_json_body holds at most
\* one character beyond MAX_PROVIDER_DECODED_BYTES.
THEOREM MemoryStaysBounded == BodySpec => []MemoryBounded
<1>1. BodyInvariant => MemoryBounded
  <2> SUFFICES ASSUME BodyInvariant PROVE MemoryBounded
    OBVIOUS
  <2>1. held \in 0..(MaxDecoded + 1)
    BY DEF BodyInvariant
  <2> QED BY <2>1, Bounds DEF MemoryBounded
<1> QED BY <1>1, BodyInvariantHolds, PTL

--------------------------------------------------------------------------------
\* How many numbers of S are at most n.
UpTo(S, n) == {i \in S : i <= n}
Count(S, n) == Cardinality(UpTo(S, n))

\* A number more counts if it is in the set.
LEMMA CountGrows ==
  ASSUME NEW N \in Nat, NEW S \in SUBSET (1..N), NEW n \in Nat
  PROVE  /\ Count(S, n) \in Nat /\ IsFiniteSet(UpTo(S, n))
         /\ Count(S, 0) = 0
         /\ n + 1 \in S => Count(S, n + 1) = Count(S, n) + 1
         /\ n + 1 \notin S => Count(S, n + 1) = Count(S, n) /\ UpTo(S, n + 1) = UpTo(S, n)
<1>0. \A i \in S : i \in Nat /\ 1 <= i
  OBVIOUS
<1>1. IsFiniteSet(1..N)
  BY FS_Interval
<1>2. IsFiniteSet(UpTo(S, n))
  <2>1. UpTo(S, n) \subseteq 1..N
    BY DEF UpTo
  <2> QED BY <1>1, <2>1, FS_Subset
<1>3. Count(S, n) \in Nat
  BY <1>2, FS_CardinalityType DEF Count
<1>4. Count(S, 0) = 0
  <2>1. \A i \in S : ~(i <= 0)
    BY <1>0
  <2>2. UpTo(S, 0) = {}
    BY <2>1 DEF UpTo
  <2> QED BY <2>2, FS_EmptySet DEF Count
<1>5. ASSUME n + 1 \in S PROVE Count(S, n + 1) = Count(S, n) + 1
  <2>1. \A i \in S : i <= n + 1 <=> i <= n \/ i = n + 1
    BY <1>0
  <2>2. UpTo(S, n + 1) = UpTo(S, n) \cup {n + 1}
    BY <1>5, <2>1 DEF UpTo
  <2>3. n + 1 \notin UpTo(S, n)
    BY DEF UpTo
  <2> QED BY <1>2, <2>2, <2>3, FS_AddElement DEF Count
<1>6. ASSUME n + 1 \notin S PROVE UpTo(S, n + 1) = UpTo(S, n)
  <2>1. \A i \in S : i <= n + 1 <=> i <= n
    BY <1>0, <1>6
  <2> QED BY <2>1 DEF UpTo
<1> QED BY <1>2, <1>3, <1>4, <1>5, <1>6 DEF Count

\* Every other number is odd.
LEMMA Parity ==
  ASSUME NEW n \in Nat
  PROVE  /\ n % 2 \in {0, 1}
         /\ (n + 1) % 2 = 0 <=> n % 2 = 1
         /\ (n + 1) % 2 = 1 <=> n % 2 = 0
         /\ 0 % 2 = 0
OBVIOUS

\* The positions Backslashes counts.
Run(t, low, i) == {j \in low..(i - 1) : \A k \in j..(i - 1) : t[k] = "backslash"}

\* A backslash more makes the run longer, any other character ends it.
LEMMA BackslashesGrow ==
  ASSUME NEW t, NEW low \in Nat, NEW i \in Nat, low <= i
  PROVE  /\ Backslashes(t, low, i) \in Nat
         /\ Backslashes(t, low, low) = 0
         /\ t[i] = "backslash" => Backslashes(t, low, i + 1) = Backslashes(t, low, i) + 1
         /\ t[i] # "backslash" => Backslashes(t, low, i + 1) = 0
<1>1. \A l, m : Backslashes(t, l, m) = Cardinality(Run(t, l, m))
  BY DEF Backslashes, Run
<1>2. IsFiniteSet(Run(t, low, i))
  <2>1. IsFiniteSet(low..(i - 1)) /\ Run(t, low, i) \subseteq low..(i - 1)
    BY FS_Interval DEF Run
  <2> QED BY <2>1, FS_Subset
<1>3. Cardinality(Run(t, low, i)) \in Nat
  BY <1>2, FS_CardinalityType
<1>4. Run(t, low, low) = {}
  BY DEF Run
<1>5. ASSUME t[i] = "backslash"
      PROVE  Cardinality(Run(t, low, i + 1)) = Cardinality(Run(t, low, i)) + 1
  <2>1. (i + 1) - 1 = i
    OBVIOUS
  <2>2. ASSUME NEW j \in low..i
        PROVE  (\A k \in j..i : t[k] = "backslash") <=> (j = i \/ \A k \in j..(i - 1) : t[k] = "backslash")
    BY <1>5
  <2>3. Run(t, low, i + 1) = Run(t, low, i) \cup {i} /\ i \notin Run(t, low, i)
    BY <2>1, <2>2 DEF Run
  <2> QED BY <1>2, <2>3, FS_AddElement
<1>6. ASSUME t[i] # "backslash" PROVE Run(t, low, i + 1) = {}
  <2>1. (i + 1) - 1 = i
    OBVIOUS
  <2>2. \A j \in low..i : i \in j..i
    OBVIOUS
  <2> QED BY <1>6, <2>1, <2>2 DEF Run
<1> QED BY <1>1, <1>3, <1>4, <1>5, <1>6, FS_EmptySet

\* The strings of a text: after a character the reader is outside of them (0),
\* inside (1), or inside and behind an escaping backslash (2).
Lex(v, c) ==
  IF v = 0 THEN IF c = "quote" THEN 1 ELSE 0
  ELSE IF v = 2 THEN 1
  ELSE IF c = "backslash" THEN 2 ELSE IF c = "quote" THEN 0 ELSE 1

IsLexing(f, t) ==
  /\ f \in [0..Len(t) -> {0, 1, 2}]
  /\ f[0] = 0
  /\ \A n \in 1..Len(t) : f[n] = Lex(f[n - 1], t[n])

Delims(f, t) == {i \in 1..Len(t) : t[i] = "quote" /\ f[i - 1] # 2}

\* Every text can be lexed.
LEMMA LexingExists ==
  ASSUME NEW t \in Seq(Characters)
  PROVE  \E f : IsLexing(f, t)
<1>1. PICK N : N = Len(t)
  OBVIOUS
<1>2. N \in Nat
  BY <1>1
<1> DEFINE V == {0, 1, 2}
           step == [n \in 1..N |-> [v \in V |-> Lex(v, t[n])]]
<1>3. \A v \in V : \A c : Lex(v, c) \in V
  BY DEF Lex
<1>4. step \in [1..N -> [V -> V]] /\ 0 \in V
  BY <1>3
<1>5. PICK f : IsRecursion(f, N, V, 0, step)
  <2> HIDE DEF V, step
  <2> QED BY <1>2, <1>4, RecursionExists
<1>6. f \in [0..N -> V] /\ f[0] = 0
  BY <1>5 DEF IsRecursion
<1>7. ASSUME NEW n \in 1..N PROVE f[n] = Lex(f[n - 1], t[n])
  <2>1. n - 1 \in 0..N
    BY <1>2
  <2>2. f[n] = step[n][f[n - 1]] /\ f[n - 1] \in V
    BY <1>5, <1>6, <2>1 DEF IsRecursion
  <2> QED BY <2>2
<1> QED BY <1>1, <1>6, <1>7 DEF IsLexing

\* One character more.
LEMMA LexGrows ==
  ASSUME NEW t \in Seq(Characters), NEW f, IsLexing(f, t), NEW n \in Nat, n + 1 <= Len(t)
  PROVE  /\ n \in 0..Len(t) /\ n + 1 \in 1..Len(t)
         /\ f[n] \in {0, 1, 2} /\ f[n + 1] \in {0, 1, 2} /\ t[n + 1] \in Characters
         /\ f[n + 1] = Lex(f[n], t[n + 1])
         /\ n + 1 \in Delims(f, t) <=> t[n + 1] = "quote" /\ f[n] # 2
<1>1. PICK m : m = n + 1
  OBVIOUS
<1>2. m \in 1..Len(t) /\ m - 1 = n /\ n \in 0..Len(t) /\ m \in 0..Len(t)
  BY <1>1
<1>3. f[m] = Lex(f[n], t[m])
  BY <1>2 DEF IsLexing
<1>4. f[n] \in {0, 1, 2} /\ f[m] \in {0, 1, 2}
  BY <1>2 DEF IsLexing
<1>5. m \in Delims(f, t) <=> t[m] = "quote" /\ f[n] # 2
  BY <1>2 DEF Delims
<1>6. t[m] \in Characters
  BY <1>2
<1> QED BY <1>1, <1>2, <1>3, <1>4, <1>5, <1>6

\* Outside of strings the delimiters are even in number.
LEMMA DelimsParity ==
  ASSUME NEW t \in Seq(Characters), NEW f, IsLexing(f, t), NEW k \in 0..Len(t)
  PROVE  Count(Delims(f, t), k) % 2 = 0 <=> f[k] = 0
<1>1. PICK N, D : N = Len(t) /\ D = Delims(f, t)
  OBVIOUS
<1>2. N \in Nat /\ D \in SUBSET (1..N)
  BY <1>1 DEF Delims
<1> DEFINE P == {n \in Nat : n <= N => (Count(D, n) % 2 = 0 <=> f[n] = 0)}
<1>3. 0 \in P
  <2>1. Count(D, 0) = 0 /\ 0 \in Nat
    BY <1>2, CountGrows
  <2>2. f[0] = 0
    BY DEF IsLexing
  <2> QED BY <2>1, <2>2, Parity
<1>4. ASSUME NEW n \in Nat, n \in P PROVE n + 1 \in P
  <2> SUFFICES ASSUME n + 1 <= N PROVE Count(D, n + 1) % 2 = 0 <=> f[n + 1] = 0
    OBVIOUS
  <2>1. Count(D, n) % 2 = 0 <=> f[n] = 0
    BY <1>2, <1>4
  <2>2. /\ f[n] \in {0, 1, 2} /\ f[n + 1] = Lex(f[n], t[n + 1])
        /\ n + 1 \in D <=> t[n + 1] = "quote" /\ f[n] # 2
    <3> HIDE DEF P
    <3> QED BY <1>1, LexGrows
  <2>3. /\ Count(D, n) \in Nat
        /\ n + 1 \in D => Count(D, n + 1) = Count(D, n) + 1
        /\ n + 1 \notin D => Count(D, n + 1) = Count(D, n)
    BY <1>2, CountGrows
  <2>4. PICK c : c = Count(D, n)
    OBVIOUS
  <2>5. c % 2 \in {0, 1} /\ ((c + 1) % 2 = 0 <=> c % 2 = 1)
    BY <2>3, <2>4, Parity
  <2> HIDE DEF P
  <2>6. CASE n + 1 \in D
    <3>1. f[n + 1] = 0 <=> f[n] # 0
      BY <2>2, <2>6 DEF Lex
    <3> QED BY <2>1, <2>3, <2>4, <2>5, <2>6, <3>1
  <2>7. CASE n + 1 \notin D
    <3>1. f[n + 1] = 0 <=> f[n] = 0
      BY <2>2, <2>7 DEF Lex
    <3> QED BY <2>1, <2>3, <2>7, <3>1
  <2> QED BY <2>6, <2>7
<1>5. k \in P
  <2> HIDE DEF P
  <2> QED BY <1>3, <1>4, Induction
<1> QED BY <1>1, <1>5

\* m is the last number of S that is at most n.
LastOf(S, n, m) == m \in S /\ m <= n /\ \A d \in S : d <= n => d <= m

\* Inside of a string, a character is escaped behind an odd number of backslashes,
\* counted back to the quote that opened the string.
LEMMA EscapesCount ==
  ASSUME NEW t \in Seq(Characters), NEW f, IsLexing(f, t), NEW k \in 0..Len(t), f[k] # 0
  PROVE  \E m : /\ LastOf(Delims(f, t), k, m)
                /\ f[k] = 2 <=> Backslashes(t, m + 1, k + 1) % 2 = 1
<1>1. PICK N, D : N = Len(t) /\ D = Delims(f, t)
  OBVIOUS
<1>2. N \in Nat /\ D \in SUBSET (1..N)
  BY <1>1 DEF Delims
<1> DEFINE Q(n, m) == LastOf(D, n, m) /\ (f[n] = 2 <=> Backslashes(t, m + 1, n + 1) % 2 = 1)
           P == {n \in Nat : n <= N /\ f[n] # 0 => \E m : Q(n, m)}
<1>3. 0 \in P
  BY DEF IsLexing
<1>4. ASSUME NEW n \in Nat, n \in P PROVE n + 1 \in P
  <2> SUFFICES ASSUME n + 1 <= N, f[n + 1] # 0 PROVE \E m : Q(n + 1, m)
    OBVIOUS
  <2>1. f[n] # 0 => \E m : Q(n, m)
    BY <1>2, <1>4
  <2> HIDE DEF P
  <2>2. /\ f[n] \in {0, 1, 2} /\ f[n + 1] = Lex(f[n], t[n + 1])
        /\ n + 1 \in D <=> t[n + 1] = "quote" /\ f[n] # 2
    BY <1>1, LexGrows
  <2>3. CASE n + 1 \in D
    <3>1. f[n + 1] # 2
      BY <2>2, <2>3 DEF Lex
    <3>2. Backslashes(t, (n + 1) + 1, (n + 1) + 1) = 0
      <4>1. (n + 1) + 1 \in Nat /\ (n + 1) + 1 <= (n + 1) + 1
        OBVIOUS
      <4> QED BY <4>1, BackslashesGrow
    <3>3. LastOf(D, n + 1, n + 1)
      BY <2>3 DEF LastOf
    <3>4. Q(n + 1, n + 1)
      BY <3>1, <3>2, <3>3, Parity
    <3> QED BY <3>4
  <2>4. CASE n + 1 \notin D
    <3>1. f[n] # 0
      BY <2>2, <2>4 DEF Lex
    <3>2. PICK m : Q(n, m)
      BY <2>1, <3>1
    <3>3. m \in Nat /\ m <= n /\ m \in D
      BY <1>2, <3>2 DEF LastOf
    <3>4. LastOf(D, n + 1, m)
      <4>1. \A d \in D : d <= n + 1 => d <= n
        BY <1>2, <2>4
      <4> QED BY <3>2, <3>3, <4>1 DEF LastOf
    <3>5. /\ Backslashes(t, m + 1, n + 1) \in Nat
          /\ t[n + 1] = "backslash" => Backslashes(t, m + 1, (n + 1) + 1) = Backslashes(t, m + 1, n + 1) + 1
          /\ t[n + 1] # "backslash" => Backslashes(t, m + 1, (n + 1) + 1) = 0
      <4>1. m + 1 \in Nat /\ n + 1 \in Nat /\ m + 1 <= n + 1
        BY <3>3
      <4> QED BY <4>1, BackslashesGrow
    <3>6. PICK b : b = Backslashes(t, m + 1, n + 1)
      OBVIOUS
    <3>7. b % 2 \in {0, 1} /\ ((b + 1) % 2 = 1 <=> b % 2 = 0) /\ 0 % 2 = 0
      BY <3>5, <3>6, Parity
    <3>8. f[n] = 2 <=> b % 2 = 1
      BY <3>2, <3>6
    <3>9. f[n + 1] = 2 <=> t[n + 1] = "backslash" /\ f[n] = 1
      BY <2>2, <3>1 DEF Lex
    <3>10. f[n + 1] = 2 <=> Backslashes(t, m + 1, (n + 1) + 1) % 2 = 1
      BY <2>2, <3>1, <3>5, <3>6, <3>7, <3>8, <3>9
    <3> QED BY <3>4, <3>10
  <2> QED BY <2>3, <2>4
<1>5. k \in P
  <2> HIDE DEF P
  <2> QED BY <1>3, <1>4, Induction
<1>6. \E m : Q(k, m)
  BY <1>1, <1>5
<1> QED BY <1>1, <1>6

\* What Delimiters asks of the quote at i.
Below(D, i) == {d \in D : d < i}
Delimited(D, t, i) ==
  i \in D <=> \/ Cardinality(Below(D, i)) % 2 = 0
              \/ Backslashes(t, Max(Below(D, i)) + 1, i) % 2 = 0

IsDelimiters(D, t) ==
  /\ D \in SUBSET {i \in DOMAIN t : t[i] = "quote"}
  /\ \A i \in DOMAIN t : t[i] = "quote" => Delimited(D, t, i)

\* Below the next number is up to this one.
LEMMA BelowIs ==
  ASSUME NEW S, \A d \in S : d \in Nat, NEW n \in Nat
  PROVE  Below(S, n + 1) = UpTo(S, n)
<1>1. \A d \in S : d < n + 1 <=> d <= n
  OBVIOUS
<1> QED BY <1>1 DEF UpTo, Below

\* The last number is the largest.
LEMMA LastIsMax ==
  ASSUME NEW S, \A d \in S : d \in Nat, NEW n, NEW m, LastOf(S, n, m)
  PROVE  Max(UpTo(S, n)) = m
<1>1. m \in UpTo(S, n) /\ \A d \in UpTo(S, n) : d <= m /\ d \in Nat
  BY DEF LastOf, UpTo
<1>2. \A x \in UpTo(S, n) : (\A d \in UpTo(S, n) : x >= d) => x = m
  BY <1>1
<1>3. \A d \in UpTo(S, n) : m >= d
  BY <1>1
<1> QED BY <1>1, <1>2, <1>3 DEF Max

\* The quotes at which the lexer enters and leaves strings are delimiters.
LEMMA DelimsAreDelimiters ==
  ASSUME NEW t \in Seq(Characters), NEW f, IsLexing(f, t)
  PROVE  IsDelimiters(Delims(f, t), t)
<1>1. PICK N, D : N = Len(t) /\ D = Delims(f, t)
  OBVIOUS
<1>2. N \in Nat /\ D \in SUBSET (1..N) /\ DOMAIN t = 1..N /\ \A d \in D : d \in Nat
  BY <1>1 DEF Delims
<1>3. ASSUME NEW i \in 1..N, t[i] = "quote" PROVE Delimited(D, t, i)
  <2>1. PICK n : n = i - 1
    OBVIOUS
  <2>2. n \in 0..N /\ n \in Nat /\ i = n + 1
    BY <1>2, <2>1
  <2>3. Below(D, i) = UpTo(D, n)
    BY <1>2, <2>2, BelowIs
  <2>4. f[n] \in {0, 1, 2}
    BY <1>1, <2>2 DEF IsLexing
  <2>5. i \in D <=> f[n] # 2
    BY <1>1, <1>3, <2>1 DEF Delims
  <2>6. Cardinality(UpTo(D, n)) % 2 = 0 <=> f[n] = 0
    BY <1>1, <2>2, DelimsParity DEF Count
  <2>7. CASE f[n] = 0
    BY <2>3, <2>5, <2>6, <2>7 DEF Delimited
  <2>8. CASE f[n] # 0
    <3>1. PICK m : /\ LastOf(D, n, m)
                   /\ f[n] = 2 <=> Backslashes(t, m + 1, n + 1) % 2 = 1
      BY <1>1, <2>2, <2>8, EscapesCount
    <3>2. Max(UpTo(D, n)) = m
      BY <1>2, <3>1, LastIsMax
    <3>3. Backslashes(t, m + 1, n + 1) % 2 \in {0, 1}
      <4>1. m + 1 \in Nat /\ n + 1 \in Nat /\ m + 1 <= n + 1
        BY <1>2, <2>2, <3>1 DEF LastOf
      <4>2. Backslashes(t, m + 1, n + 1) \in Nat
        BY <4>1, BackslashesGrow
      <4> QED BY <4>2, Parity
    <3>4. i \in D <=> Backslashes(t, Max(Below(D, i)) + 1, i) % 2 = 0
      <4>1. PICK e : e = Backslashes(t, m + 1, n + 1)
        OBVIOUS
      <4>2. Backslashes(t, Max(Below(D, i)) + 1, i) = e
        BY <2>2, <2>3, <3>2, <4>1
      <4>3. i \in D <=> e % 2 = 0
        BY <2>5, <3>1, <3>3, <4>1
      <4> QED BY <4>2, <4>3
    <3>5. ~(Cardinality(Below(D, i)) % 2 = 0)
      BY <2>3, <2>6, <2>8
    <3> QED BY <3>4, <3>5 DEF Delimited
  <2> QED BY <2>7, <2>8
<1>4. D \in SUBSET {i \in DOMAIN t : t[i] = "quote"}
  BY <1>1, <1>2 DEF Delims
<1> QED BY <1>1, <1>2, <1>3, <1>4 DEF IsDelimiters

\* There is only one choice of delimiters: a quote is one or not because of those before it.
LEMMA DelimitersAreUnique ==
  ASSUME NEW t \in Seq(Characters), NEW D, IsDelimiters(D, t), NEW E, IsDelimiters(E, t)
  PROVE  D = E
<1>1. PICK N : N = Len(t)
  OBVIOUS
<1>2. N \in Nat /\ DOMAIN t = 1..N
  BY <1>1
<1>3. /\ \A d \in D : d \in Nat /\ d \in 1..N /\ t[d] = "quote"
      /\ \A d \in E : d \in Nat /\ d \in 1..N /\ t[d] = "quote"
  BY <1>2 DEF IsDelimiters
<1> DEFINE S == {i \in 1..N : ~(i \in D <=> i \in E)}
<1>4. S = {}
  <2> SUFFICES ASSUME S # {} PROVE FALSE
    OBVIOUS
  <2>1. S \subseteq Nat
    OBVIOUS
  <2>2. PICK i \in S : \A k \in S : i <= k
    <3> HIDE DEF S
    <3> QED BY <2>1, Least
  <2>3. i \in 1..N /\ ~(i \in D <=> i \in E) /\ t[i] = "quote"
    BY <1>3
  <2>4. \A k \in 1..N : k < i => (k \in D <=> k \in E)
    BY <2>2
  <2>5. Below(D, i) = Below(E, i)
    BY <1>3, <2>4 DEF Below
  <2>6. Delimited(D, t, i) /\ Delimited(E, t, i)
    BY <1>2, <2>3 DEF IsDelimiters
  <2> HIDE DEF S
  <2> QED BY <2>3, <2>5, <2>6 DEF Delimited
<1> HIDE DEF S
<1>5. \A i \in 1..N : i \in D <=> i \in E
  BY <1>4 DEF S
<1> QED BY <1>3, <1>5

\* The reference's delimiters are the lexer's.
LEMMA DelimitersAre ==
  ASSUME NEW t \in Seq(Characters), NEW f, IsLexing(f, t)
  PROVE  Delimiters(t) = Delims(f, t)
<1>1. Delimiters(t) = CHOOSE D \in SUBSET {i \in DOMAIN t : t[i] = "quote"} :
                        \A i \in DOMAIN t : t[i] = "quote" => Delimited(D, t, i)
  BY DEF Delimiters, Delimited, Below
<1>2. IsDelimiters(Delims(f, t), t)
  BY DelimsAreDelimiters
<1>3. IsDelimiters(Delimiters(t), t)
  <2>1. \E D \in SUBSET {i \in DOMAIN t : t[i] = "quote"} :
          \A i \in DOMAIN t : t[i] = "quote" => Delimited(D, t, i)
    BY <1>2 DEF IsDelimiters
  <2> HIDE DEF Delimited
  <2> QED BY <1>1, <2>1 DEF IsDelimiters
<1> QED BY <1>2, <1>3, DelimitersAreUnique

\* The brackets outside of strings, those that open and those that close.
Outer(f, t) == {i \in 1..Len(t) : t[i] \in Openers \cup Closers /\ f[i - 1] = 0}
Opening(f, t) == {i \in Outer(f, t) : t[i] \in Openers}
Closing(f, t) == {i \in Outer(f, t) : t[i] \in Closers}

Height(f, t, n) == Count(Opening(f, t), n) - Count(Closing(f, t), n)
Depth(f, t, i) == Count(Opening(f, t), i) - Count(Closing(f, t), i - 1)

Nested(f, t) ==
  /\ f[Len(t)] = 0
  /\ \A i \in Outer(f, t) : Depth(f, t, i) \in 1..MaxDepth
  /\ \A i \in Outer(f, t) : t[i] \in Openers =>
       \E j \in Outer(f, t) : /\ i < j /\ t[j] \in Closers /\ Opener(t[j]) = t[i]
                              /\ Depth(f, t, j) = Depth(f, t, i)
                              /\ \A k \in Outer(f, t) : i < k /\ k < j => Depth(f, t, k) > Depth(f, t, i)
  /\ Height(f, t, Len(t)) = 0

\* WellNested with its local definitions as parameters.
Brackets(t, D) == {i \in DOMAIN t : /\ t[i] \in Openers \cup Closers
                                    /\ Cardinality({d \in D : d < i}) % 2 = 0}
BracketDepth(t, B, i) == Cardinality({j \in B : j <= i /\ t[j] \in Openers})
                           - Cardinality({j \in B : j < i /\ t[j] \in Closers})
NestedIn(t, D, B) ==
  /\ Cardinality(D) % 2 = 0
  /\ \A i \in B : BracketDepth(t, B, i) \in 1..MaxDepth
  /\ \A i \in B : t[i] \in Openers =>
       \E j \in B : /\ i < j /\ t[j] \in Closers /\ Opener(t[j]) = t[i]
                    /\ BracketDepth(t, B, j) = BracketDepth(t, B, i)
                    /\ \A k \in B : i < k /\ k < j => BracketDepth(t, B, k) > BracketDepth(t, B, i)
  /\ Cardinality({i \in B : t[i] \in Openers}) = Cardinality({i \in B : t[i] \in Closers})

\* Behind an even number of delimiters is outside of strings.
LEMMA BracketsAre ==
  ASSUME NEW t \in Seq(Characters), NEW f, IsLexing(f, t)
  PROVE  Brackets(t, Delims(f, t)) = Outer(f, t)
<1>1. PICK N, D : N = Len(t) /\ D = Delims(f, t)
  OBVIOUS
<1>2. N \in Nat /\ DOMAIN t = 1..N /\ \A d \in D : d \in Nat
  BY <1>1 DEF Delims
<1>3. ASSUME NEW i \in 1..N PROVE Cardinality(Below(D, i)) % 2 = 0 <=> f[i - 1] = 0
  <2>1. PICK n : n = i - 1
    OBVIOUS
  <2>2. n \in Nat /\ n \in 0..N /\ i = n + 1
    BY <1>2, <2>1
  <2>3. Below(D, i) = UpTo(D, n)
    BY <1>2, <2>2, BelowIs
  <2>4. Count(D, n) % 2 = 0 <=> f[n] = 0
    BY <1>1, <2>2, DelimsParity
  <2>5. Cardinality(Below(D, i)) = Count(D, n)
    BY <2>3 DEF Count
  <2> QED BY <2>1, <2>4, <2>5
<1>4. Brackets(t, D) = {i \in 1..N : t[i] \in Openers \cup Closers /\ Cardinality(Below(D, i)) % 2 = 0}
  BY <1>2 DEF Brackets, Below
<1>5. Outer(f, t) = {i \in 1..N : t[i] \in Openers \cup Closers /\ f[i - 1] = 0}
  BY <1>1 DEF Outer
<1>6. \A i \in 1..N : (t[i] \in Openers \cup Closers /\ Cardinality(Below(D, i)) % 2 = 0)
                        <=> (t[i] \in Openers \cup Closers /\ f[i - 1] = 0)
  BY <1>3
<1>7. Brackets(t, D) = Outer(f, t)
  BY <1>4, <1>5, <1>6
<1> QED BY <1>1, <1>7

\* The reference's depth of a bracket.
LEMMA DepthIs ==
  ASSUME NEW t \in Seq(Characters), NEW f, NEW i \in Outer(f, t)
  PROVE  BracketDepth(t, Outer(f, t), i) = Depth(f, t, i)
<1>1. PICK B, O, C : B = Outer(f, t) /\ O = Opening(f, t) /\ C = Closing(f, t)
  OBVIOUS
<1>2. (\A j \in B : j \in Int) /\ i \in Int
  BY <1>1 DEF Outer
<1>3. O = {j \in B : t[j] \in Openers} /\ C = {j \in B : t[j] \in Closers}
  BY <1>1 DEF Opening, Closing
<1>4. {j \in B : j <= i /\ t[j] \in Openers} = UpTo(O, i)
  BY <1>3 DEF UpTo
<1>5. {j \in B : j < i /\ t[j] \in Closers} = UpTo(C, i - 1)
  <2>1. \A j \in B : j < i <=> j <= i - 1
    BY <1>2
  <2> QED BY <1>3, <2>1 DEF UpTo
<1>6. BracketDepth(t, B, i) = Cardinality(UpTo(O, i)) - Cardinality(UpTo(C, i - 1))
  BY <1>4, <1>5 DEF BracketDepth
<1> QED BY <1>1, <1>6 DEF Depth, Count

\* All of a set of positions is counted at the end.
LEMMA CountAll ==
  ASSUME NEW N \in Nat, NEW S \in SUBSET (1..N)
  PROVE  Count(S, N) = Cardinality(S)
<1>1. UpTo(S, N) = S
  <2>1. \A i \in S : i <= N
    OBVIOUS
  <2> QED BY <2>1 DEF UpTo
<1> QED BY <1>1 DEF Count

\* The reference, read with the lexer.
LEMMA WellNestedIs ==
  ASSUME NEW t \in Seq(Characters), NEW f, IsLexing(f, t)
  PROVE  WellNested(t) <=> Nested(f, t)
<1>1. PICK N, D, B : N = Len(t) /\ D = Delims(f, t) /\ B = Outer(f, t)
  OBVIOUS
<1>2. N \in Nat /\ D \in SUBSET (1..N) /\ B \in SUBSET (1..N)
  BY <1>1 DEF Delims, Outer
<1>3. WellNested(t) <=> NestedIn(t, Delimiters(t), Brackets(t, Delimiters(t)))
  BY DEF WellNested, NestedIn, Brackets, BracketDepth
<1>4. Delimiters(t) = D /\ Brackets(t, D) = B
  BY <1>1, DelimitersAre, BracketsAre
<1>5. Cardinality(D) % 2 = 0 <=> f[N] = 0
  <2>1. Count(D, N) = Cardinality(D) /\ N \in 0..N
    BY <1>2, CountAll
  <2> QED BY <1>1, <2>1, DelimsParity
<1>6. \A i \in B : BracketDepth(t, B, i) = Depth(f, t, i)
  BY <1>1, DepthIs
<1>7. Cardinality({i \in B : t[i] \in Openers}) = Cardinality({i \in B : t[i] \in Closers})
        <=> Height(f, t, N) = 0
  <2>1. PICK O, C : O = {i \in B : t[i] \in Openers} /\ C = {i \in B : t[i] \in Closers}
    OBVIOUS
  <2>2. O \in SUBSET (1..N) /\ C \in SUBSET (1..N) /\ O = Opening(f, t) /\ C = Closing(f, t)
    BY <1>1, <1>2, <2>1 DEF Opening, Closing
  <2>3. Count(O, N) = Cardinality(O) /\ Count(C, N) = Cardinality(C)
    BY <1>2, <2>2, CountAll
  <2>4. Count(O, N) \in Nat /\ Count(C, N) \in Nat
    BY <1>2, <2>2, CountGrows
  <2>5. Height(f, t, N) = Count(O, N) - Count(C, N)
    BY <2>2 DEF Height
  <2>6. Count(O, N) = Count(C, N) <=> Height(f, t, N) = 0
    BY <2>4, <2>5
  <2> QED BY <2>1, <2>3, <2>6
<1>8. NestedIn(t, D, B) <=>
        /\ f[N] = 0
        /\ \A i \in B : Depth(f, t, i) \in 1..MaxDepth
        /\ \A i \in B : t[i] \in Openers =>
             \E j \in B : /\ i < j /\ t[j] \in Closers /\ Opener(t[j]) = t[i]
                          /\ Depth(f, t, j) = Depth(f, t, i)
                          /\ \A k \in B : i < k /\ k < j => Depth(f, t, k) > Depth(f, t, i)
        /\ Height(f, t, N) = 0
  BY <1>5, <1>6, <1>7 DEF NestedIn
<1> QED BY <1>1, <1>3, <1>4, <1>8 DEF Nested

\* One character more: what it does to height and depth.
LEMMA HeightGrows ==
  ASSUME NEW t \in Seq(Characters), NEW f, IsLexing(f, t), NEW n \in Nat, n + 1 <= Len(t)
  PROVE  /\ Height(f, t, n) \in Int /\ Height(f, t, 0) = 0
         /\ n + 1 \in Outer(f, t) <=> t[n + 1] \in Openers \cup Closers /\ f[n] = 0
         /\ n + 1 \notin Outer(f, t) => Height(f, t, n + 1) = Height(f, t, n)
         /\ n + 1 \in Outer(f, t) /\ t[n + 1] \in Openers =>
              /\ n + 1 \in Opening(f, t)
              /\ Height(f, t, n + 1) = Height(f, t, n) + 1
              /\ Depth(f, t, n + 1) = Height(f, t, n) + 1
         /\ n + 1 \in Outer(f, t) /\ t[n + 1] \in Closers =>
              /\ Height(f, t, n + 1) = Height(f, t, n) - 1
              /\ Depth(f, t, n + 1) = Height(f, t, n)
<1>1. PICK N, B, O, C, m : /\ N = Len(t) /\ B = Outer(f, t) /\ m = n + 1
                           /\ O = Opening(f, t) /\ C = Closing(f, t)
  OBVIOUS
<1>2. N \in Nat /\ B \in SUBSET (1..N) /\ O \in SUBSET (1..N) /\ C \in SUBSET (1..N) /\ m \in 1..N /\ m - 1 = n
  BY <1>1 DEF Outer, Opening, Closing
<1>3. /\ m \in B <=> t[m] \in Openers \cup Closers /\ f[n] = 0
      /\ m \in O <=> m \in B /\ t[m] \in Openers
      /\ m \in C <=> m \in B /\ t[m] \in Closers
  BY <1>1, <1>2 DEF Outer, Opening, Closing
<1>4. /\ Count(O, n) \in Nat /\ Count(O, 0) = 0
      /\ m \in O => Count(O, m) = Count(O, n) + 1
      /\ m \notin O => Count(O, m) = Count(O, n)
  BY <1>1, <1>2, CountGrows
<1>5. /\ Count(C, n) \in Nat /\ Count(C, 0) = 0
      /\ m \in C => Count(C, m) = Count(C, n) + 1
      /\ m \notin C => Count(C, m) = Count(C, n)
  BY <1>1, <1>2, CountGrows
<1>6. ~(t[m] \in Openers /\ t[m] \in Closers)
  BY DEF Openers, Closers
<1>7. /\ Height(f, t, n) = Count(O, n) - Count(C, n)
      /\ Height(f, t, m) = Count(O, m) - Count(C, m)
      /\ Height(f, t, 0) = Count(O, 0) - Count(C, 0)
      /\ Depth(f, t, m) = Count(O, m) - Count(C, n)
  BY <1>1, <1>2 DEF Height, Depth
<1>8. Height(f, t, n) \in Int /\ Height(f, t, 0) = 0
  BY <1>4, <1>5, <1>7
<1>9. m \notin B => Height(f, t, m) = Height(f, t, n)
  BY <1>3, <1>4, <1>5, <1>7
<1>10. m \in B /\ t[m] \in Openers => m \in O /\ Height(f, t, m) = Height(f, t, n) + 1
                                     /\ Depth(f, t, m) = Height(f, t, n) + 1
  BY <1>3, <1>4, <1>5, <1>6, <1>7
<1>11. m \in B /\ t[m] \in Closers => Height(f, t, m) = Height(f, t, n) - 1
                                     /\ Depth(f, t, m) = Height(f, t, n)
  BY <1>3, <1>4, <1>5, <1>6, <1>7
<1> QED BY <1>1, <1>3, <1>8, <1>9, <1>10, <1>11

\* The scanner after n characters.
After(t, n) == Feed(NewScan, SubSeq(t, 1, n))

\* The next character is scanned from there.
LEMMA AfterGrows ==
  ASSUME NEW t \in Seq(Characters)
  PROVE  /\ After(t, 0) = NewScan
         /\ \A n \in 0..Len(t) : After(t, n) \in ScanStates
         /\ \A n \in Nat : n + 1 <= Len(t) => After(t, n + 1) = Scan(After(t, n), t[n + 1])
         /\ Feed(NewScan, t) = After(t, Len(t))
<1>1. ASSUME NEW n \in 0..Len(t) PROVE After(t, n) \in ScanStates
  BY NewScanType, FeedGrows DEF After
<1>2. After(t, 0) = NewScan
  <2>1. PICK m : m = 0
    OBVIOUS
  <2>2. m \in 0..Len(t)
    BY <2>1
  <2>3. Feed(NewScan, SubSeq(t, 1, m)) = NewScan
    BY <2>1, <2>2, NewScanType, FeedGrows
  <2> QED BY <2>1, <2>3 DEF After
<1>3. ASSUME NEW n \in Nat, n + 1 <= Len(t) PROVE After(t, n + 1) = Scan(After(t, n), t[n + 1])
  <2>1. PICK m : m = n + 1
    OBVIOUS
  <2>2. m \in 0..Len(t) /\ m # 0 /\ m - 1 = n
    BY <1>3, <2>1
  <2>3. Feed(NewScan, SubSeq(t, 1, m)) = Scan(Feed(NewScan, SubSeq(t, 1, m - 1)), t[m])
    BY <2>2, NewScanType, FeedGrows
  <2> QED BY <2>1, <2>2, <2>3 DEF After
<1>4. Feed(NewScan, t) = After(t, Len(t))
  BY SubSeqFull DEF After
<1> QED BY <1>1, <1>2, <1>3, <1>4

\* p opened level l and nothing since has closed it.
OnLevel(f, t, n, p, l) ==
  /\ p \in Opening(f, t) /\ p <= n /\ Depth(f, t, p) = l
  /\ \A k \in Outer(f, t) : p < k /\ k <= n => Depth(f, t, k) > l

\* The scanner's containers are the brackets still open.
Levels(f, t, n, containers) ==
  /\ Len(containers) = Height(f, t, n)
  /\ \A l \in 1..Len(containers) : \E p : OnLevel(f, t, n, p, l) /\ t[p] = containers[l]

Follows(f, t, n, s) ==
  /\ s.in_string <=> f[n] # 0
  /\ s.escaped <=> f[n] = 2
  /\ Levels(f, t, n, s.containers)
  /\ Len(s.containers) <= MaxDepth

\* A level that the next bracket does not reach stays.
LEMMA LevelStays ==
  ASSUME NEW t \in Seq(Characters), NEW f, NEW n \in Nat, NEW p, NEW l, OnLevel(f, t, n, p, l),
         n + 1 \in Outer(f, t) => Depth(f, t, n + 1) > l
  PROVE  OnLevel(f, t, n + 1, p, l)
<1>1. p \in Opening(f, t) /\ p \in Nat /\ p <= n + 1 /\ Depth(f, t, p) = l
  BY DEF OnLevel, Opening, Outer
<1>2. ASSUME NEW k \in Outer(f, t), p < k, k <= n + 1 PROVE Depth(f, t, k) > l
  <2>1. k \in Int /\ (k <= n \/ k = n + 1)
    BY <1>2 DEF Outer
  <2> QED BY <1>2, <2>1 DEF OnLevel
<1> QED BY <1>1, <1>2 DEF OnLevel

\* A character that is no bracket changes no level.
LEMMA LevelsStay ==
  ASSUME NEW t \in Seq(Characters), NEW f, IsLexing(f, t), NEW n \in Nat, n + 1 <= Len(t),
         NEW c, Levels(f, t, n, c), n + 1 \notin Outer(f, t)
  PROVE  Levels(f, t, n + 1, c)
<1>1. Height(f, t, n + 1) = Height(f, t, n)
  BY HeightGrows
<1>2. ASSUME NEW l \in 1..Len(c) PROVE \E p : OnLevel(f, t, n + 1, p, l) /\ t[p] = c[l]
  <2>1. PICK p : OnLevel(f, t, n, p, l) /\ t[p] = c[l]
    BY DEF Levels
  <2>2. OnLevel(f, t, n + 1, p, l)
    BY <2>1, LevelStays
  <2> QED BY <2>1, <2>2
<1> QED BY <1>1, <1>2 DEF Levels

\* A bracket that opens adds a level.
LEMMA LevelsOpen ==
  ASSUME NEW t \in Seq(Characters), NEW f, IsLexing(f, t), NEW n \in Nat, n + 1 <= Len(t),
         NEW c \in Seq(Openers), Levels(f, t, n, c), n + 1 \in Outer(f, t), t[n + 1] \in Openers
  PROVE  Levels(f, t, n + 1, Append(c, t[n + 1]))
<1>1. PICK m, L, d : m = n + 1 /\ L = Len(c) /\ d = Append(c, t[n + 1])
  OBVIOUS
<1>2. /\ L \in Nat /\ Len(d) = L + 1 /\ d[L + 1] = t[m] /\ \A l \in 1..L : d[l] = c[l]
  BY <1>1
<1>3. /\ m \in Opening(f, t) /\ Height(f, t, m) = Height(f, t, n) + 1
      /\ Depth(f, t, m) = Height(f, t, n) + 1
  BY <1>1, HeightGrows
<1>4. Height(f, t, n) = L
  BY <1>1 DEF Levels
<1>5. ASSUME NEW l \in 1..L PROVE \E p : OnLevel(f, t, m, p, l) /\ t[p] = d[l]
  <2>1. PICK p : OnLevel(f, t, n, p, l) /\ t[p] = c[l]
    BY <1>1 DEF Levels
  <2>2. Depth(f, t, n + 1) > l
    BY <1>1, <1>2, <1>3, <1>4
  <2>3. OnLevel(f, t, n + 1, p, l)
    BY <2>1, <2>2, LevelStays
  <2> QED BY <1>1, <1>2, <2>1, <2>3
<1>6. OnLevel(f, t, m, m, L + 1)
  <2>1. m \in Int /\ m <= m
    BY <1>1
  <2>2. \A k \in Outer(f, t) : ~(m < k /\ k <= m)
    BY <2>1 DEF Outer
  <2> QED BY <1>3, <1>4, <2>1, <2>2 DEF OnLevel
<1>7. \A l \in 1..Len(d) : \E p : OnLevel(f, t, m, p, l) /\ t[p] = d[l]
  <2>1. \A l \in 1..Len(d) : l \in 1..L \/ l = L + 1
    BY <1>2
  <2> QED BY <1>2, <1>5, <1>6, <2>1
<1> QED BY <1>1, <1>2, <1>3, <1>4, <1>7 DEF Levels

\* A bracket that closes takes the last level away.
LEMMA LevelsClose ==
  ASSUME NEW t \in Seq(Characters), NEW f, IsLexing(f, t), NEW n \in Nat, n + 1 <= Len(t),
         NEW c \in Seq(Openers), c # <<>>, Levels(f, t, n, c), n + 1 \in Outer(f, t), t[n + 1] \in Closers
  PROVE  Levels(f, t, n + 1, Front(c)) /\ Front(c) \in Seq(Openers) /\ Len(Front(c)) <= Len(c)
<1>1. PICK m, L, d : m = n + 1 /\ L = Len(c) /\ d = Front(c)
  OBVIOUS
<1>2. /\ L \in Nat /\ L # 0 /\ Len(d) = L - 1 /\ d \in Seq(Openers) /\ \A l \in 1..(L - 1) : d[l] = c[l]
  BY <1>1 DEF Front
<1>3. /\ Height(f, t, m) = Height(f, t, n) - 1
      /\ Depth(f, t, m) = Height(f, t, n)
  BY <1>1, HeightGrows
<1>4. Height(f, t, n) = L
  BY <1>1 DEF Levels
<1>5. ASSUME NEW l \in 1..Len(d) PROVE \E p : OnLevel(f, t, m, p, l) /\ t[p] = d[l]
  <2>1. l \in 1..L /\ l < L /\ d[l] = c[l]
    BY <1>2
  <2>2. PICK p : OnLevel(f, t, n, p, l) /\ t[p] = c[l]
    BY <1>1, <2>1 DEF Levels
  <2>3. Depth(f, t, n + 1) > l
    BY <1>1, <1>2, <1>3, <1>4, <2>1
  <2>4. OnLevel(f, t, n + 1, p, l)
    BY <2>2, <2>3, LevelStays
  <2> QED BY <1>1, <2>1, <2>2, <2>4
<1> QED BY <1>1, <1>2, <1>3, <1>4, <1>5 DEF Levels

\* What a character does in a string to a scanner that has not failed.
LEMMA ScanInString ==
  ASSUME NEW s \in ScanStates, NEW c \in Characters, ~s.failed, s.in_string, NEW r, r = Scan(s, c)
  PROVE  /\ r.containers = s.containers /\ ~r.failed
         /\ r.in_string <=> s.escaped \/ c # "quote"
         /\ r.escaped <=> ~s.escaped /\ c = "backslash"
<1>1. r = [s EXCEPT !.escaped = ~s.escaped /\ c = "backslash",
                    !.in_string = s.escaped \/ c # "quote"]
  BY DEF Scan, InString
<1> QED BY <1>1 DEF ScanStates

\* What it does outside of strings.
LEMMA ScanOutside ==
  ASSUME NEW s \in ScanStates, NEW c \in Characters, ~s.failed, ~s.in_string, NEW r, r = Scan(s, c)
  PROVE  /\ c \notin Openers \cup Closers =>
              /\ r.containers = s.containers /\ ~r.failed
              /\ r.in_string <=> c = "quote"
              /\ r.escaped <=> s.escaped
         /\ c \in Openers =>
              /\ r.containers = Append(s.containers, c)
              /\ r.failed <=> Len(s.containers) >= MaxDepth
              /\ ~r.in_string
              /\ r.escaped <=> s.escaped
         /\ c \in Closers =>
              /\ r.failed <=> (s.containers = <<>> \/ Last(s.containers) # Opener(c))
              /\ ~r.failed => /\ r.containers = Front(s.containers)
                              /\ ~r.in_string
                              /\ r.escaped <=> s.escaped
<1>0. r = Outside(s, c)
  BY DEF Scan
<1>1. CASE c = "quote"
  <2>1. r = [s EXCEPT !.in_string = TRUE]
    BY <1>0, <1>1 DEF Outside, Openers, Closers
  <2> QED BY <1>1, <2>1 DEF ScanStates, Openers, Closers
<1>2. CASE c \in Openers
  <2>1. r = [s EXCEPT !.containers = Append(s.containers, c), !.failed = Len(s.containers) >= MaxDepth]
    BY <1>0, <1>2 DEF Outside, Openers, Closers
  <2>2. c \notin Closers /\ c \in Openers \cup Closers
    BY <1>2 DEF Openers, Closers
  <2> QED BY <1>2, <2>1, <2>2 DEF ScanStates
<1>3. CASE c \in Closers
  <2>1. r = IF s.containers = <<>> \/ Last(s.containers) # Opener(c) THEN [s EXCEPT !.failed = TRUE]
            ELSE [s EXCEPT !.containers = Front(s.containers)]
    BY <1>0, <1>3 DEF Outside, Openers, Closers
  <2>2. c \notin Openers /\ c \in Openers \cup Closers
    BY <1>3 DEF Openers, Closers
  <2>3. CASE s.containers = <<>> \/ Last(s.containers) # Opener(c)
    <3>1. r = [s EXCEPT !.failed = TRUE]
      BY <2>1, <2>3
    <3>2. r.failed
      BY <3>1 DEF ScanStates
    <3> QED BY <2>2, <2>3, <3>2
  <2>4. CASE ~(s.containers = <<>> \/ Last(s.containers) # Opener(c))
    <3>1. r = [s EXCEPT !.containers = Front(s.containers)]
      BY <2>1, <2>4
    <3>2. ~r.failed /\ r.containers = Front(s.containers) /\ ~r.in_string /\ (r.escaped <=> s.escaped)
      BY <3>1 DEF ScanStates
    <3> QED BY <2>2, <2>4, <3>2
  <2> QED BY <2>3, <2>4
<1>4. CASE c \notin {"quote"} \cup Openers \cup Closers
  <2>1. r = s
    BY <1>0, <1>4 DEF Outside, Openers, Closers
  <2> QED BY <1>4, <2>1
<1> QED BY <1>1, <1>2, <1>3, <1>4

\* As long as it does not fail, the scanner follows the brackets of the text.
LEMMA FollowsNext ==
  ASSUME NEW t \in Seq(Characters), NEW f, IsLexing(f, t), NEW n \in Nat, n + 1 <= Len(t),
         NEW s \in ScanStates, Follows(f, t, n, s), ~s.failed,
         NEW r, r = Scan(s, t[n + 1]), ~r.failed
  PROVE  Follows(f, t, n + 1, r)
<1>1. PICK c : c = t[n + 1]
  OBVIOUS
<1>2. f[n] \in {0, 1, 2} /\ f[n + 1] = Lex(f[n], c) /\ c \in Characters
  BY <1>1, LexGrows
<1>3. n + 1 \in Outer(f, t) <=> c \in Openers \cup Closers /\ f[n] = 0
  BY <1>1, HeightGrows
<1>4. /\ s.in_string <=> f[n] # 0
      /\ s.escaped <=> f[n] = 2
      /\ Levels(f, t, n, s.containers) /\ Len(s.containers) <= MaxDepth
      /\ s.containers \in Seq(Openers)
  BY DEF Follows, ScanStates
<1>5. CASE f[n] # 0
  <2>1. /\ r.containers = s.containers
        /\ r.in_string <=> s.escaped \/ c # "quote"
        /\ r.escaped <=> ~s.escaped /\ c = "backslash"
    BY <1>1, <1>2, <1>4, <1>5, ScanInString
  <2>2. f[n + 1] # 0 <=> f[n] = 2 \/ c # "quote"
    BY <1>2, <1>5 DEF Lex
  <2>3. f[n + 1] = 2 <=> f[n] # 2 /\ c = "backslash"
    BY <1>2, <1>5 DEF Lex
  <2>4. Levels(f, t, n + 1, s.containers)
    BY <1>3, <1>4, <1>5, LevelsStay
  <2> QED BY <1>4, <2>1, <2>2, <2>3, <2>4 DEF Follows
<1>6. CASE f[n] = 0
  <2>1. ~s.in_string /\ ~s.escaped
    BY <1>4, <1>6
  <2>2. f[n + 1] # 0 <=> c = "quote"
    BY <1>2, <1>6 DEF Lex
  <2>3. f[n + 1] # 2
    BY <1>2, <1>6 DEF Lex
  <2>4. CASE c \notin Openers \cup Closers
    <3>1. r.containers = s.containers /\ (r.in_string <=> c = "quote") /\ ~r.escaped
      BY <1>1, <1>2, <2>1, <2>4, ScanOutside
    <3>2. Levels(f, t, n + 1, s.containers)
      BY <1>3, <1>4, <2>4, LevelsStay
    <3> QED BY <1>4, <2>2, <2>3, <3>1, <3>2 DEF Follows
  <2>5. CASE c \in Openers
    <3>1. /\ r.containers = Append(s.containers, c) /\ ~r.in_string /\ ~r.escaped
          /\ ~(Len(s.containers) >= MaxDepth)
      BY <1>1, <1>2, <2>1, <2>5, ScanOutside
    <3>2. Levels(f, t, n + 1, r.containers)
      BY <1>1, <1>3, <1>4, <1>6, <2>5, <3>1, LevelsOpen
    <3>3. Len(r.containers) <= MaxDepth
      <4>1. Len(r.containers) = Len(s.containers) + 1 /\ Len(s.containers) \in Nat
        BY <1>4, <2>5, <3>1
      <4> QED BY <3>1, <4>1, Bounds
    <3>4. c # "quote"
      BY <2>5 DEF Openers
    <3> QED BY <2>2, <2>3, <3>1, <3>2, <3>3, <3>4 DEF Follows
  <2>6. CASE c \in Closers
    <3>1. /\ r.containers = Front(s.containers) /\ ~r.in_string /\ ~r.escaped
          /\ s.containers # <<>>
      BY <1>1, <1>2, <2>1, <2>6, ScanOutside
    <3>2. Levels(f, t, n + 1, r.containers) /\ Len(r.containers) <= Len(s.containers)
          /\ r.containers \in Seq(Openers)
      BY <1>1, <1>3, <1>4, <1>6, <2>6, <3>1, LevelsClose
    <3>3. Len(r.containers) <= MaxDepth
      <4>1. Len(r.containers) \in Nat /\ Len(s.containers) \in Nat
        BY <1>4, <3>2
      <4> QED BY <1>4, <3>2, <4>1, Bounds
    <3>4. c # "quote"
      BY <2>6 DEF Closers
    <3> QED BY <2>2, <2>3, <3>1, <3>2, <3>3, <3>4 DEF Follows
  <2> QED BY <2>4, <2>5, <2>6
<1> QED BY <1>5, <1>6

\* So it does after any number of characters.
LEMMA AfterFollows ==
  ASSUME NEW t \in Seq(Characters), NEW f, IsLexing(f, t), NEW k \in 0..Len(t), ~After(t, k).failed
  PROVE  Follows(f, t, k, After(t, k))
<1>1. PICK N : N = Len(t)
  OBVIOUS
<1>2. N \in Nat
  BY <1>1
<1> DEFINE P == {n \in Nat : n <= N /\ ~After(t, n).failed => Follows(f, t, n, After(t, n))}
<1>3. 0 \in P
  <2>1. After(t, 0) = NewScan
    BY AfterGrows
  <2>2. Opening(f, t) \in SUBSET (1..N) /\ Closing(f, t) \in SUBSET (1..N)
    BY <1>1 DEF Opening, Closing, Outer
  <2>3. Count(Opening(f, t), 0) = 0 /\ Count(Closing(f, t), 0) = 0
    BY <1>2, <2>2, CountGrows
  <2>4. Height(f, t, 0) = 0
    BY <2>3 DEF Height
  <2>5. Levels(f, t, 0, <<>>)
    BY <2>4 DEF Levels
  <2>6. f[0] = 0
    BY DEF IsLexing
  <2>7. Follows(f, t, 0, NewScan)
    BY <2>5, <2>6, Bounds DEF Follows, NewScan
  <2> QED BY <2>1, <2>7
<1>4. ASSUME NEW n \in Nat, n \in P PROVE n + 1 \in P
  <2> SUFFICES ASSUME n + 1 <= N, ~After(t, n + 1).failed PROVE Follows(f, t, n + 1, After(t, n + 1))
    OBVIOUS
  <2>1. n <= N /\ n \in 0..Len(t) /\ n + 1 <= Len(t)
    BY <1>1, <1>2
  <2>2. After(t, n) \in ScanStates /\ After(t, n + 1) = Scan(After(t, n), t[n + 1])
    <3> HIDE DEF P
    <3> QED BY <2>1, AfterGrows
  <2>3. ~After(t, n).failed
    BY <2>2 DEF Scan
  <2>4. Follows(f, t, n, After(t, n))
    BY <1>4, <2>1, <2>3
  <2> HIDE DEF P
  <2> QED BY <2>1, <2>2, <2>3, <2>4, FollowsNext
<1>5. k \in P
  <2> HIDE DEF P
  <2> QED BY <1>3, <1>4, Induction
<1> QED BY <1>1, <1>5

\* A scan that has not failed at the end has not failed before.
LEMMA NeverFailed ==
  ASSUME NEW t \in Seq(Characters), ~After(t, Len(t)).failed, NEW k \in 0..Len(t)
  PROVE  ~After(t, k).failed
<1> SUFFICES ASSUME After(t, k).failed PROVE FALSE
  OBVIOUS
<1>1. PICK N, s : N = Len(t) /\ s = After(t, k)
  OBVIOUS
<1>2. N \in Nat /\ k \in 0..N
  BY <1>1
<1> DEFINE P == {n \in Nat : k + n <= N => After(t, k + n) = s}
<1>3. 0 \in P
  <2>1. k + 0 = k
    BY <1>2
  <2> QED BY <1>1, <2>1
<1>4. ASSUME NEW n \in Nat, n \in P PROVE n + 1 \in P
  <2> SUFFICES ASSUME k + (n + 1) <= N PROVE After(t, k + (n + 1)) = s
    OBVIOUS
  <2>1. PICK m : m = k + n
    OBVIOUS
  <2>2. m \in Nat /\ m + 1 <= Len(t) /\ m + 1 = k + (n + 1) /\ m <= N
    BY <1>1, <1>2, <2>1
  <2>3. After(t, m) = s
    BY <1>4, <2>1, <2>2
  <2> HIDE DEF P
  <2>4. After(t, m + 1) = Scan(s, t[m + 1])
    BY <2>2, <2>3, AfterGrows
  <2> QED BY <1>1, <2>2, <2>4 DEF Scan
<1>5. N - k \in P
  <2>1. N - k \in Nat
    BY <1>2
  <2> HIDE DEF P
  <2> QED BY <2>1, <1>3, <1>4, Induction
<1>6. After(t, N) = s
  <2>1. k + (N - k) = N
    BY <1>2
  <2> QED BY <1>2, <1>5, <2>1
<1> QED BY <1>1, <1>6

\* A text the scanner is finished with is well nested.
LEMMA FinishedIsNested ==
  ASSUME NEW t \in Seq(Characters), NEW f, IsLexing(f, t), ScanFinished(After(t, Len(t)))
  PROVE  Nested(f, t)
<1>1. PICK N : N = Len(t)
  OBVIOUS
<1>2. N \in Nat /\ N \in 0..Len(t)
  BY <1>1
<1> DEFINE h(n) == Height(f, t, n)
           B == Outer(f, t)
           D(i) == Depth(f, t, i)
<1>3. ASSUME NEW n \in 0..N
      PROVE  /\ ~After(t, n).failed /\ Follows(f, t, n, After(t, n))
             /\ After(t, n) \in ScanStates /\ After(t, n).containers \in Seq(Openers)
             /\ Len(After(t, n).containers) = h(n) /\ h(n) \in Nat /\ h(n) <= MaxDepth
  <2>1. ~After(t, n).failed
    BY <1>1, NeverFailed DEF ScanFinished
  <2>2. Follows(f, t, n, After(t, n))
    BY <1>1, <2>1, AfterFollows
  <2>3. After(t, n) \in ScanStates
    BY <1>1, AfterGrows
  <2>4. After(t, n).containers \in Seq(Openers)
    BY <2>3 DEF ScanStates
  <2>5. Len(After(t, n).containers) = h(n) /\ h(n) <= MaxDepth
    BY <2>2 DEF Follows, Levels
  <2>6. h(n) \in Nat
    <3>1. Len(After(t, n).containers) \in Nat
      BY <2>4
    <3> QED BY <2>5, <3>1
  <2> QED BY <2>1, <2>2, <2>3, <2>4, <2>5, <2>6
<1>4. ASSUME NEW n \in Nat, n + 1 <= N
      PROVE  /\ n \in 0..N /\ n + 1 \in 0..N
             /\ n + 1 \in B <=> t[n + 1] \in Openers \cup Closers /\ f[n] = 0
             /\ n + 1 \notin B => h(n + 1) = h(n)
             /\ n + 1 \in B /\ t[n + 1] \in Openers => h(n + 1) = h(n) + 1 /\ D(n + 1) = h(n) + 1
             /\ n + 1 \in B /\ t[n + 1] \in Closers => h(n + 1) = h(n) - 1 /\ D(n + 1) = h(n)
  <2>1. n \in 0..N /\ n + 1 \in 0..N
    BY <1>2, <1>4
  <2> QED BY <1>1, <1>4, <2>1, HeightGrows
<1>5. ASSUME NEW i \in B
      PROVE  /\ i \in 1..N /\ i - 1 \in Nat /\ (i - 1) + 1 = i /\ i \in 0..N /\ i - 1 \in 0..N
             /\ t[i] \in Openers \/ t[i] \in Closers
  BY <1>1, <1>2 DEF Outer
<1> HIDE DEF h, D
<1>6. f[N] = 0 /\ h(N) = 0
  <2>1. Follows(f, t, N, After(t, N)) /\ Len(After(t, N).containers) = h(N)
    BY <1>1, <1>2, <1>3
  <2>2. ~After(t, N).in_string /\ After(t, N).containers = <<>>
    BY <1>1 DEF ScanFinished
  <2>3. Len(<<>>) = 0
    OBVIOUS
  <2> QED BY <2>1, <2>2, <2>3 DEF Follows
<1>7. ASSUME NEW i \in B PROVE D(i) \in 1..MaxDepth
  <2>1. PICK n : n = i - 1
    OBVIOUS
  <2>2. n \in Nat /\ n + 1 = i /\ n + 1 <= N /\ i \in 0..N /\ n \in 0..N
    BY <1>2, <1>5, <2>1
  <2>3. h(n) \in Nat /\ h(i) \in Nat /\ h(n) <= MaxDepth /\ h(i) <= MaxDepth
    BY <1>3, <2>2
  <2>4. CASE t[i] \in Openers
    <3>1. h(i) = h(n) + 1 /\ D(i) = h(n) + 1
      BY <1>4, <2>2, <2>4
    <3> QED BY <2>3, <3>1, Bounds
  <2>5. CASE t[i] \in Closers
    <3>1. h(i) = h(n) - 1 /\ D(i) = h(n)
      BY <1>4, <2>2, <2>5
    <3> QED BY <2>3, <3>1, Bounds
  <2> QED BY <1>5, <2>4, <2>5
<1>8. ASSUME NEW i \in B, t[i] \in Openers
      PROVE  \E j \in B : /\ i < j /\ t[j] \in Closers /\ Opener(t[j]) = t[i]
                          /\ D(j) = D(i)
                          /\ \A k \in B : i < k /\ k < j => D(k) > D(i)
  <2>1. PICK e : e = D(i)
    OBVIOUS
  <2>2. e \in Nat /\ 1 <= e /\ h(i) = e
    <3>1. PICK n : n = i - 1
      OBVIOUS
    <3>2. n \in Nat /\ n + 1 = i /\ n + 1 <= N /\ n \in 0..N
      BY <1>2, <1>5, <3>1
    <3>3. h(i) = h(n) + 1 /\ D(i) = h(n) + 1 /\ h(n) \in Nat
      BY <1>3, <1>4, <1>8, <3>2
    <3> QED BY <2>1, <3>3
  <2> DEFINE S == {n \in Nat : i < n /\ n <= N /\ h(n) < e}
  <2>3. N \in S
    <3>1. i \in Nat /\ i <= N /\ i # N
      BY <1>2, <1>5, <1>6, <2>2
    <3> QED BY <1>2, <1>6, <2>2, <3>1
  <2>4. PICK j \in S : \A k \in S : j <= k
    <3>1. S \subseteq Nat /\ S # {}
      BY <2>3
    <3> HIDE DEF S
    <3> QED BY <3>1, Least
  <2>5. j \in Nat /\ i < j /\ j <= N /\ h(j) < e /\ i \in Nat
    BY <1>2, <1>5, <2>4
  <2>6. ASSUME NEW n \in Nat, i <= n, n < j PROVE h(n) >= e /\ h(n) \in Nat /\ n \in 0..N
    <3>1. n <= N /\ n \in 0..N
      BY <1>2, <2>5, <2>6
    <3>2. h(n) \in Nat
      BY <1>3, <3>1
    <3>3. CASE n = i
      BY <2>2, <3>1, <3>2, <3>3
    <3>4. CASE n # i
      <4>1. n \notin S
        BY <2>4, <2>5, <2>6
      <4>2. ~(h(n) < e)
        BY <2>5, <2>6, <3>1, <3>4, <4>1
      <4> QED BY <2>2, <3>1, <3>2, <4>2
    <3> QED BY <3>3, <3>4
  <2> HIDE DEF S
  <2>7. PICK m : m = j - 1
    OBVIOUS
  <2>8. m \in Nat /\ m + 1 = j /\ m + 1 <= N /\ i <= m /\ m < j /\ m \in 0..N /\ j \in 0..N
    BY <1>2, <2>5, <2>7
  <2>9. h(m) >= e /\ h(m) \in Nat /\ h(j) \in Nat
    BY <1>3, <2>6, <2>8
  <2>10. j \in B /\ t[j] \in Closers /\ h(m) = e /\ D(j) = e
    <3>1. j \in B
      <4>1. j \notin B => h(j) = h(m)
        BY <1>4, <2>8
      <4>2. h(j) # h(m)
        BY <2>2, <2>5, <2>9
      <4> QED BY <4>1, <4>2
    <3>2. t[j] \in Closers
      <4>1. t[j] \in Openers => h(j) = h(m) + 1
        BY <1>4, <2>8, <3>1
      <4> QED BY <1>5, <2>2, <2>5, <2>9, <3>1, <4>1
    <3>3. h(j) = h(m) - 1 /\ D(j) = h(m)
      BY <1>4, <2>8, <3>1, <3>2
    <3> QED BY <2>2, <2>5, <2>9, <3>1, <3>2, <3>3
  <2>11. ASSUME NEW k \in B, i < k, k < j PROVE D(k) > e
    <3>1. PICK n : n = k - 1
      OBVIOUS
    <3>2. n \in Nat /\ n + 1 = k /\ n + 1 <= N /\ i <= n /\ n < j /\ k \in Nat /\ i <= k
      BY <1>2, <1>5, <2>5, <2>11, <3>1
    <3>3. h(n) >= e /\ h(k) >= e /\ h(n) \in Nat /\ h(k) \in Nat
      BY <2>6, <2>11, <3>2
    <3>4. CASE t[k] \in Openers
      <4>1. D(k) = h(n) + 1
        BY <1>4, <3>2, <3>4
      <4> QED BY <2>2, <3>3, <4>1
    <3>5. CASE t[k] \in Closers
      <4>1. D(k) = h(n) /\ h(k) = h(n) - 1
        BY <1>4, <3>2, <3>5
      <4> QED BY <2>2, <3>3, <4>1
    <3> QED BY <1>5, <3>4, <3>5
  <2>12. Opener(t[j]) = t[i]
    <3>1. PICK s : s = After(t, m)
      OBVIOUS
    <3>2. /\ Follows(f, t, m, s) /\ ~s.failed /\ s \in ScanStates /\ Len(s.containers) = e
          /\ s.containers \in Seq(Openers)
      BY <1>3, <2>8, <2>10, <3>1
    <3>3. e \in 1..Len(s.containers)
      BY <2>2, <3>2
    <3>4. PICK p : OnLevel(f, t, m, p, e) /\ t[p] = s.containers[e]
      BY <3>2, <3>3 DEF Follows, Levels
    <3>5. p \in B /\ p <= m /\ D(p) = e /\ \A k \in B : p < k /\ k <= m => D(k) > e
      BY <3>4 DEF OnLevel, Opening, D
    <3>6. p \in Nat
      BY <1>5, <3>5
    <3>7. ~(p < i)
      <4>1. ~(D(i) > e)
        BY <2>1, <2>2
      <4> QED BY <2>8, <3>5, <4>1
    <3>8. ~(i < p)
      <4>1. ~(D(p) > e) /\ p < j
        BY <2>2, <2>8, <3>5, <3>6
      <4> QED BY <2>11, <3>5, <4>1
    <3>9. p = i
      BY <2>5, <3>6, <3>7, <3>8
    <3>10. After(t, j) = Scan(s, t[j]) /\ t[j] \in Characters /\ ~After(t, j).failed
      <4>1. m + 1 <= Len(t)
        BY <1>1, <2>8
      <4>2. After(t, m + 1) = Scan(After(t, m), t[m + 1])
        BY <2>8, <4>1, AfterGrows
      <4>3. t[j] \in Characters
        BY <2>10 DEF Characters
      <4> QED BY <1>3, <2>8, <3>1, <4>2, <4>3
    <3>11. ~s.in_string
      <4>1. f[m] = 0
        BY <1>4, <2>8, <2>10
      <4> QED BY <3>2, <4>1 DEF Follows
    <3>12. s.containers # <<>> /\ Last(s.containers) = Opener(t[j])
      BY <2>10, <3>2, <3>10, <3>11, ScanOutside
    <3>13. Last(s.containers) = s.containers[e]
      BY <3>2, <3>12 DEF Last
    <3> QED BY <3>4, <3>9, <3>12, <3>13
  <2> QED BY <2>1, <2>5, <2>10, <2>11, <2>12
<1> QED BY <1>1, <1>6, <1>7, <1>8 DEF Nested, h, D

\* The scanner gets to the end of a well nested text.
LEMMA NestedIsFinished ==
  ASSUME NEW t \in Seq(Characters), NEW f, IsLexing(f, t), Nested(f, t)
  PROVE  ScanFinished(After(t, Len(t)))
<1>1. PICK N : N = Len(t)
  OBVIOUS
<1>2. N \in Nat /\ N \in 0..Len(t)
  BY <1>1
<1> DEFINE P == {n \in Nat : n <= N => ~After(t, n).failed}
<1>3. 0 \in P
  BY AfterGrows, NewScanType
<1>4. ASSUME NEW n \in Nat, n \in P PROVE n + 1 \in P
  <2> SUFFICES ASSUME n + 1 <= N PROVE ~After(t, n + 1).failed
    OBVIOUS
  <2>1. n <= N /\ n \in 0..Len(t) /\ n + 1 <= Len(t)
    BY <1>1, <1>2
  <2>2. ~After(t, n).failed
    BY <1>4, <2>1
  <2> HIDE DEF P
  <2>3. PICK s, c, m : s = After(t, n) /\ c = t[n + 1] /\ m = n + 1
    OBVIOUS
  <2>4. s \in ScanStates /\ After(t, m) = Scan(s, c) /\ ~s.failed /\ Follows(f, t, n, s)
    BY <2>1, <2>2, <2>3, AfterGrows, AfterFollows
  <2>5. c \in Characters /\ f[n] \in {0, 1, 2}
    BY <2>1, <2>3, LexGrows
  <2>6. s.containers \in Seq(Openers) /\ Len(s.containers) = Height(f, t, n) /\ (s.in_string <=> f[n] # 0)
    BY <2>4 DEF ScanStates, Follows, Levels
  <2>7. CASE s.in_string
    BY <2>3, <2>4, <2>5, <2>7, ScanInString
  <2>8. CASE ~s.in_string /\ c \notin Openers \cup Closers
    BY <2>3, <2>4, <2>5, <2>8, ScanOutside
  <2>9. CASE ~s.in_string /\ c \in Openers \cup Closers
    <3>1. m \in Outer(f, t)
      BY <2>1, <2>3, <2>6, <2>9, HeightGrows
    <3>2. Depth(f, t, m) \in 1..MaxDepth
      BY <3>1 DEF Nested
    <3>3. CASE c \in Openers
      <4>1. Depth(f, t, m) = Len(s.containers) + 1
        BY <2>1, <2>3, <2>6, <3>1, <3>3, HeightGrows
      <4>2. ~(Len(s.containers) >= MaxDepth)
        BY <2>6, <3>2, <4>1, Bounds
      <4> QED BY <2>3, <2>4, <2>5, <2>9, <3>3, <4>2, ScanOutside
    <3>4. CASE c \in Closers
      <4>1. Depth(f, t, m) = Len(s.containers)
        BY <2>1, <2>3, <2>6, <3>1, <3>4, HeightGrows
      <4>2. PICK e : e = Len(s.containers)
        OBVIOUS
      <4>3. e \in 1..Len(s.containers) /\ e \in Nat /\ 1 <= e /\ s.containers # <<>>
        BY <2>6, <3>2, <4>1, <4>2, Bounds
      <4>4. PICK p : OnLevel(f, t, n, p, e) /\ t[p] = s.containers[e]
        BY <2>4, <4>3 DEF Follows, Levels
      <4>5. /\ p \in Outer(f, t) /\ t[p] \in Openers /\ p <= n /\ Depth(f, t, p) = e /\ p \in Nat
            /\ \A k \in Outer(f, t) : p < k /\ k <= n => Depth(f, t, k) > e
        BY <4>4 DEF OnLevel, Opening, Outer
      <4>6. PICK j \in Outer(f, t) :
              /\ p < j /\ t[j] \in Closers /\ Opener(t[j]) = t[p]
              /\ Depth(f, t, j) = Depth(f, t, p)
              /\ \A k \in Outer(f, t) : p < k /\ k < j => Depth(f, t, k) > Depth(f, t, p)
        BY <4>5 DEF Nested
      <4>7. j \in Nat
        BY DEF Outer
      <4>8. ~(j <= n)
        <5>1. ~(Depth(f, t, j) > e)
          BY <4>3, <4>5, <4>6
        <5> QED BY <4>5, <4>6, <5>1
      <4>9. ~(m < j)
        <5>1. ~(Depth(f, t, m) > e) /\ p < m
          BY <2>3, <4>1, <4>2, <4>3, <4>5
        <5> QED BY <3>1, <4>5, <4>6, <5>1
      <4>10. j = m
        BY <2>3, <4>7, <4>8, <4>9
      <4>11. Last(s.containers) = Opener(c)
        <5>1. Last(s.containers) = s.containers[e]
          BY <4>2 DEF Last
        <5> QED BY <2>3, <4>4, <4>6, <4>10, <5>1
      <4> QED BY <2>3, <2>4, <2>5, <2>9, <3>4, <4>3, <4>11, ScanOutside
    <3> QED BY <2>3, <2>9, <3>3, <3>4
  <2> QED BY <2>3, <2>7, <2>8, <2>9
<1>5. ~After(t, N).failed
  <2>1. N \in P
    <3> HIDE DEF P
    <3> QED BY <1>2, <1>3, <1>4, Induction
  <2> QED BY <1>2, <2>1
<1>6. PICK s : s = After(t, N)
  OBVIOUS
<1>7. s \in ScanStates /\ Follows(f, t, N, s)
  BY <1>1, <1>2, <1>5, <1>6, AfterGrows, AfterFollows
<1>8. ~s.in_string
  BY <1>1, <1>7 DEF Follows, Nested
<1>9. s.containers = <<>>
  <2>1. s.containers \in Seq(Openers) /\ Len(s.containers) = 0
    BY <1>1, <1>7 DEF ScanStates, Follows, Levels, Nested
  <2> QED BY <2>1
<1> QED BY <1>1, <1>5, <1>6, <1>8, <1>9 DEF ScanFinished

\* The scanner is finished with a text exactly if it is well nested.
LEMMA ScannerDecides ==
  ASSUME NEW t \in Seq(Characters)
  PROVE  ScanFinished(Feed(NewScan, t)) <=> WellNested(t)
<1>1. PICK f : IsLexing(f, t)
  BY LexingExists
<1>2. Feed(NewScan, t) = After(t, Len(t))
  BY AfterGrows
<1>3. WellNested(t) <=> Nested(f, t)
  BY <1>1, WellNestedIs
<1> QED BY <1>1, <1>2, <1>3, FinishedIsNested, NestedIsFinished

\* However the network cuts the body, _bounded_json_body accepts it exactly if
\* the whole of it is acceptable, and then all of its text has been read.
THEOREM CutsMakeNoDifference == BodySpec => []VerdictIgnoresCuts
<1>1. BodyInvariant => VerdictIgnoresCuts
  <2> SUFFICES ASSUME BodyInvariant PROVE VerdictIgnoresCuts
    OBVIOUS
  <2>1. body \in Bodies
    BY DEF BodyInvariant
  <2>2. Text(body) \in Seq(Characters)
    <3>1. Len(body.bytes) \in 0..Len(body.bytes) /\ Len(body.bytes) \in Len(body.bytes)..Len(body.bytes)
      BY <2>1, BodyType
    <3> QED BY <2>1, <3>1, TextIsCut, CutGrows
  <2>3. ReadWhole(body) <=> Acceptable(body)
    BY <2>2, ScannerDecides DEF ReadWhole, Acceptable
  <2> QED BY <2>3 DEF BodyInvariant, VerdictIgnoresCuts
<1> QED BY <1>1, BodyInvariantHolds, PTL
================================================================================

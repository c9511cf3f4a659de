-------------------------- MODULE CompatibilityProbe --------------------------
(***************************************************************************)
(* ChromaDenseRetrievalAdapter: queries that share one probe of Chroma's   *)
(* version, and close().  The bodies of _probe_lock await nothing, so that *)
(* a task runs alone from one await to the next and every action below is  *)
(* such a stretch.  A probe is a task of its own: its end and the          *)
(* resumption of each query waiting behind asyncio.shield are separate     *)
(* steps, with anything in between.  Each query makes at most one probe,   *)
(* which carries its name.                                                 *)
(***************************************************************************)
EXTENDS FiniteSets

CONSTANTS
  Queries,   \* calls of query(), one attempt each
  None       \* Python's None as value of _probe_task

ASSUME ProbeAssumption == None \notin Queries

VARIABLES
  closed,      \* _closed
  compatible,  \* _compatible
  inflight,    \* _probe_task
  probe,       \* the state of the task each query may have created
  cancelling,  \* probes whose cancellation is requested
  at,          \* where each query is
  on,          \* the probe a query awaits behind its shield
  cancelled,   \* queries whose caller has cancelled them, until they end
  torn,        \* the probe cancelled from outside the adapter, at most one
  closer,      \* where close() is
  joins        \* the probe close() has cancelled

adapter == <<closed, compatible, inflight>>
vars == <<closed, compatible, inflight, probe, cancelling, at, on, cancelled, torn, closer, joins>>

Init ==
  /\ closed = FALSE /\ compatible = FALSE /\ inflight = None
  /\ probe = [q \in Queries |-> "none"]
  /\ at = [q \in Queries |-> "idle"]
  /\ on = [q \in Queries |-> None]
  /\ cancelling = {} /\ cancelled = {} /\ torn = None
  /\ closer = "open" /\ joins = None

Live(t) == t \in Queries /\ probe[t] \in {"created", "running"}

Moves(q, place) == at' = [at EXCEPT ![q] = place]

\* Mutant: without the identity check a late waiter forgets a newer probe.
ClearWhatever(t) == inflight' = None

\* if self._probe_task is task: self._probe_task = None
Clear(t) == inflight' = IF inflight = t THEN None ELSE inflight

--------------------------------------------------------------------------
\* Mutant: only _ensure_compatible looks at _closed.
AskUnchecked(q) == Moves(q, "asking")

\* _request_json up to its first await; a closed adapter sends nothing.
Ask(q) == Moves(q, IF closed THEN "failed" ELSE "asking")

\* _ensure_compatible from the await of a finished probe to its end, and on.  A probe
\* that crashed is not forgotten: every later caller meets its exception.
Learn(q, t) ==
  /\ UNCHANGED closed
  /\ \/ /\ probe[t] = "ok" /\ Clear(t)
        /\ compatible' = (compatible \/ inflight = t)
        /\ Ask(q)
     \/ /\ probe[t] \in {"failed", "cancelled"} /\ Clear(t)
        /\ UNCHANGED compatible
        /\ Moves(q, probe[t])
     \/ /\ probe[t] = "crashed"
        /\ UNCHANGED <<compatible, inflight>>
        /\ Moves(q, "failed")

\* query(): a closed or compatible adapter needs no probe.
CallDecided(q) ==
  /\ at[q] = "idle"
  /\ closed \/ compatible
  /\ Ask(q)
  /\ UNCHANGED <<adapter, probe, cancelling, on, cancelled, torn, closer, joins>>

\* The first caller creates the probe, everyone awaits it behind a shield.
CallFirst(q) ==
  /\ at[q] = "idle"
  /\ ~closed /\ ~compatible /\ inflight = None
  /\ inflight' = q
  /\ probe' = [probe EXCEPT ![q] = "created"]
  /\ on' = [on EXCEPT ![q] = q]
  /\ Moves(q, "waiting")
  /\ UNCHANGED <<closed, compatible, cancelling, cancelled, torn, closer, joins>>

\* A later caller joins the probe in flight; one that has ended and was not
\* cleared is awaited without a pause.
CallJoining(q) ==
  /\ at[q] = "idle"
  /\ ~closed /\ ~compatible /\ inflight # None
  /\ \/ /\ Live(inflight)
        /\ on' = [on EXCEPT ![q] = inflight]
        /\ Moves(q, "waiting")
        /\ UNCHANGED adapter
     \/ ~Live(inflight) /\ Learn(q, inflight) /\ UNCHANGED on
  /\ UNCHANGED <<probe, cancelling, cancelled, torn, closer, joins>>

\* Mutant: the outcome is handed to one waiter, as through a queue.
ResumeFirst(q) ==
  /\ at[q] = "waiting" /\ q \notin cancelled
  /\ inflight = on[q] /\ ~Live(on[q])
  /\ Learn(q, on[q])
  /\ on' = [on EXCEPT ![q] = None]
  /\ UNCHANGED <<probe, cancelling, cancelled, torn, closer, joins>>

\* A waiting query is resumed with the outcome of its probe.
Resume(q) ==
  /\ at[q] = "waiting" /\ q \notin cancelled
  /\ ~Live(on[q])
  /\ Learn(q, on[q])
  /\ on' = [on EXCEPT ![q] = None]
  /\ UNCHANGED <<probe, cancelling, cancelled, torn, closer, joins>>

\* Mutant: await task instead of await asyncio.shield(task).
CancelQueryUnshielded(q) ==
  /\ at[q] \in {"waiting", "asking"} /\ q \notin cancelled
  /\ cancelled' = cancelled \cup {q}
  /\ cancelling' = IF at[q] = "waiting" THEN cancelling \cup {on[q]} ELSE cancelling
  /\ UNCHANGED <<adapter, probe, at, on, torn, closer, joins>>

\* The caller cancels; the shield keeps the probe out of it.
CancelQuery(q) ==
  /\ at[q] \in {"waiting", "asking"} /\ q \notin cancelled
  /\ cancelled' = cancelled \cup {q}
  /\ UNCHANGED <<adapter, probe, cancelling, at, on, torn, closer, joins>>

\* A cancelled waiter raises; it clears the probe only if that was cancelled too.
Interrupt(q) ==
  /\ at[q] = "waiting" /\ q \in cancelled
  /\ \/ probe[on[q]] = "cancelled" /\ Clear(on[q])
     \/ probe[on[q]] # "cancelled" /\ UNCHANGED inflight
  /\ Moves(q, "cancelled")
  /\ on' = [on EXCEPT ![q] = None]
  /\ cancelled' = cancelled \ {q}
  /\ UNCHANGED <<closed, compatible, probe, cancelling, torn, closer, joins>>

\* The request ends with a valid reply, with any error or the deadline, or is
\* cancelled.
Reply(q) ==
  /\ at[q] = "asking"
  /\ \E end \in (IF q \in cancelled THEN {"cancelled"} ELSE {"answered"}) \cup {"failed"} : Moves(q, end)
  /\ cancelled' = cancelled \ {q}
  /\ UNCHANGED <<adapter, probe, cancelling, on, torn, closer, joins>>

--------------------------------------------------------------------------
Probe(t, state) ==
  /\ probe' = [probe EXCEPT ![t] = state]
  /\ UNCHANGED <<adapter, cancelling, at, on, cancelled, torn, closer, joins>>

\* _probe() up to its first await.
ProbeStarts(t) ==
  /\ probe[t] = "created" /\ t \notin cancelling
  /\ Probe(t, IF closed THEN "failed" ELSE "running")

\* The version matches, or anything else happened before the deadline or at it: a
\* DenseProviderError, or ("crashed") an exception _request_json does not convert.
ProbeEnds(t) ==
  /\ probe[t] = "running" /\ t \notin cancelling
  /\ \E end \in {"ok", "failed", "crashed"} : Probe(t, end)

\* A cancelled task that never started does not run at all.
ProbeUnwinds(t) ==
  /\ Live(t) /\ t \in cancelling
  /\ \E end \in {"cancelled", "failed", "crashed"} :
       (end # "cancelled" => probe[t] = "running") /\ Probe(t, end)

\* Somebody else cancels the probe: the event loop at its end.
CancelProbe(t) ==
  /\ torn = None
  /\ Live(t) /\ t \notin cancelling
  /\ cancelling' = cancelling \cup {t}
  /\ torn' = t
  /\ UNCHANGED <<adapter, probe, at, on, cancelled, closer, joins>>

--------------------------------------------------------------------------
\* close() up to the await of the probe it cancels; a second call returns at once.
Close ==
  /\ ~closed
  /\ closed' = TRUE /\ compatible' = FALSE /\ inflight' = None
  /\ \/ /\ Live(inflight)
        /\ cancelling' = cancelling \cup {inflight}
        /\ joins' = inflight
        /\ closer' = "joining"
     \/ /\ ~Live(inflight)
        /\ closer' = "done"
        /\ UNCHANGED <<cancelling, joins>>
  /\ UNCHANGED <<probe, at, on, cancelled, torn>>

\* The cancelled probe is joined, whatever it raised: a cancellation of close()
\* itself is forwarded to the probe and suppressed with the probe's own; what a
\* crashed probe raised, close() raises in turn.
CloseJoined ==
  /\ closer = "joining" /\ ~Live(joins)
  /\ closer' = "done"
  /\ UNCHANGED <<adapter, probe, cancelling, at, on, cancelled, torn, joins>>

--------------------------------------------------------------------------
Call(q) == CallDecided(q) \/ CallFirst(q) \/ CallJoining(q)
QueryStep(q) == Resume(q) \/ Interrupt(q) \/ Reply(q)
ProbeStep(t) == ProbeStarts(t) \/ ProbeEnds(t) \/ ProbeUnwinds(t)

\* Everything has ended and nobody calls any more.
Finished ==
  /\ closer = "done"
  /\ \A q \in Queries : ~Live(q) /\ at[q] \in {"answered", "failed", "cancelled"}
  /\ UNCHANGED vars

Next ==
  \/ \E q \in Queries : Call(q) \/ QueryStep(q) \/ CancelQuery(q)
  \/ \E t \in Queries : ProbeStep(t) \/ CancelProbe(t)
  \/ Close \/ CloseJoined \/ Finished

\* The event loop resumes every task that can run; a request ends at its deadline.
Fairness ==
  /\ \A q \in Queries : WF_vars(QueryStep(q)) /\ WF_vars(ProbeStep(q))
  /\ WF_vars(CloseJoined)

Spec == Init /\ [][Next]_vars /\ Fairness

--------------------------------------------------------------------------
Places == {"idle", "waiting", "asking", "answered", "failed", "cancelled"}
States == {"none", "created", "running", "ok", "failed", "crashed", "cancelled"}

\* Types; a query that is past its call awaited a probe that exists.
ProbeTypeOK ==
  /\ closed \in BOOLEAN /\ compatible \in BOOLEAN
  /\ inflight \in Queries \cup {None} /\ joins \in Queries \cup {None}
  /\ probe \in [Queries -> States]
  /\ at \in [Queries -> Places]
  /\ on \in [Queries -> Queries \cup {None}]
  /\ cancelling \subseteq Queries /\ cancelled \subseteq Queries /\ torn \in Queries \cup {None}
  /\ closer \in {"open", "joining", "done"}

\* The one probe that may run: the one in flight, or the one close() joins.
Known == IF closed THEN joins ELSE inflight

\* The inductive invariant behind the two invariants below.
ProbeInvariant ==
  /\ ProbeTypeOK
  /\ closed => ~compatible /\ inflight = None
  /\ closed <=> closer # "open"
  /\ \A t \in Queries : Live(t) => t = Known
  /\ \A q \in Queries : at[q] = "waiting" => on[q] \in Queries
  /\ closer = "joining" => joins \in Queries
  /\ closer = "done" => \A t \in Queries : ~Live(t)

\* Only close() and the outside cancel probes.
CancelledByFew ==
  /\ \A t \in cancelling : closed \/ t = torn
  /\ \A t \in Queries : probe[t] = "cancelled" => t \in cancelling

\* Whoever calls, gives up or closes in between, at most one probe is under way,
\* and none once close() has returned.
SingleProbe ==
  /\ \A s, t \in Queries : Live(s) /\ Live(t) => s = t
  /\ closer = "done" => \A t \in Queries : ~Live(t)

\* What this adapter has under way at the provider.
Requests == {<<"probe", t>> : t \in {t \in Queries : probe[t] = "running"}}
              \cup {<<"query", q>> : q \in {q \in Queries : at[q] = "asking"}}

\* From close() on, no further request is sent, by a waiter that is resumed late
\* or by anyone else, and compatibility is not remembered again.
NothingAfterClose == [][closed => Requests' \subseteq Requests /\ ~compatible']_vars

\* A query is cancelled only if its own caller, close() or the outside cancelled
\* it: a waiter that gives up takes no other waiter with it.
CancellationStaysLocal ==
  [][\A q \in Queries : at[q] # "cancelled" /\ at'[q] = "cancelled" =>
       \/ q \in cancelled \/ closed
       \/ torn # None /\ torn \in {on[q], inflight}]_vars

\* Every query that is called comes to an end, cancelled and closed ones too.
QueriesEnd == \A q \in Queries : at[q] \in {"waiting", "asking"} ~> at[q] \notin {"waiting", "asking"}
==========================================================================

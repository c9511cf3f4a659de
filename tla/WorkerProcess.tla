---------------------------- MODULE WorkerProcess -----------------------------
(***************************************************************************)
(* The ingestion worker as a process: run_command inside of                *)
(* production_runtime, whose main task runs one operation at a time as a   *)
(* task of its own (_await_until_stopped), until a signal sets stop_event, *)
(* the command is done or something raises; then every adapter is closed.  *)
(* An operation that has claimed a job is an attempt of LeasedAttempt,     *)
(* whose variables begin anew with every claim.                            *)
(***************************************************************************)
EXTENDS LeasedAttempt

VARIABLES
  driver,       \* where the main task is
  command,      \* "once", "loop" or "rebuild"
  stop,         \* stop_event is set
  proc,         \* the task of the operation
  hit,          \* a CancelledError waits for it, outside of an attempt
  built,        \* what production_runtime has constructed
  closings,     \* how often each resource was closed
  error,        \* an exception is on its way out of the main task
  mainCancelled \* bound: the main task is cancelled at most once

worker == <<driver, command, stop, built, closings, error, mainCancelled>>
allVars == <<vars, worker, proc, hit>>

Resources == {"model", "store", "engine"}

WorkerInit ==
  /\ Init
  /\ driver = "building" /\ command \in {"once", "loop", "rebuild"}
  /\ stop = FALSE /\ error = FALSE /\ mainCancelled = FALSE
  /\ proc = "none" /\ hit = FALSE
  /\ built = {} /\ closings = [r \in Resources |-> 0]

--------------------------------------------------------------------------
\* The claim is followed by the attempt's first await without a pause.
Paused == ~(proc = "attempt" /\ at = "claimed")

ProcDone == proc \in {"nothing", "rebuilt", "raised", "cancelled"} \/ (proc = "attempt" /\ at = "ended")
Raises == proc = "raised" \/ (proc = "attempt" /\ outcome = "raised")

\* processing.cancel(); a task that has not begun never will.
CancelProc ==
  \/ /\ proc = "created" /\ proc' = "cancelled"
     /\ UNCHANGED <<vars, hit>>
  \/ /\ proc \in {"recovering", "claiming", "rebuilding"} /\ hit' = TRUE
     /\ UNCHANGED <<vars, proc>>
  \/ proc = "attempt" /\ Cancel /\ UNCHANGED <<proc, hit>>
  \/ ProcDone /\ UNCHANGED <<vars, proc, hit>>

Leave(raises) ==
  /\ driver' = "closing_model"
  /\ error' = (error \/ raises)
  /\ UNCHANGED <<vars, proc, hit>>

\* The head of run_worker's loop, and the one operation of a rebuild.
NextRound ==
  \/ stop /\ Leave(FALSE)
  \/ /\ ~stop
     /\ driver' = "waiting" /\ proc' = "created" /\ hit' = FALSE
     /\ UNCHANGED <<vars, error>>

\* The adapters are constructed one after the other.  The first, of the embedding
\* model, comes before the try: when its constructor raises, no finally clause runs.
Build ==
  /\ driver = "building"
  /\ \/ /\ built' = {} /\ driver' = "exited" /\ error' = TRUE
        /\ UNCHANGED <<vars, proc, hit>>
     \/ built' \in {{"model"}, {"model", "store"}} /\ Leave(TRUE)
     \/ /\ built' = {"model", "store"} /\ driver' = "initializing"
        /\ UNCHANGED <<vars, proc, hit, error>>
  /\ UNCHANGED <<command, stop, closings, mainCancelled>>

\* service.initialize(): the collection fits the embedding configuration, or the
\* reply does not, or the request fails.
Initialize ==
  /\ driver = "initializing"
  /\ NextRound \/ Leave(TRUE)
  /\ UNCHANGED <<command, stop, built, closings, mainCancelled>>

\* asyncio.wait returns with the operation's end, also if the stop came with it.
OperationEnds ==
  /\ driver = "waiting" /\ ProcDone
  /\ \/ Raises /\ Leave(TRUE)
     \/ ~Raises /\ command \in {"once", "rebuild"} /\ Leave(FALSE)
     \/ /\ ~Raises /\ command = "loop" /\ proc = "nothing"
        /\ driver' = "idle"
        /\ UNCHANGED <<vars, proc, hit, error>>
     \/ ~Raises /\ command = "loop" /\ proc = "attempt" /\ NextRound
  /\ UNCHANGED <<command, stop, built, closings, mainCancelled>>

\* Mutant: the cancelled operation is left to itself.
StopSeenUnjoined ==
  /\ driver = "waiting" /\ stop /\ ~ProcDone /\ Paused
  /\ CancelProc
  /\ driver' = "closing_model"
  /\ UNCHANGED <<command, stop, built, closings, error, mainCancelled>>

\* ... or with the stop alone: the operation is cancelled, to be joined.
StopSeen ==
  /\ driver = "waiting" /\ stop /\ ~ProcDone /\ Paused
  /\ CancelProc
  /\ driver' = "joining"
  /\ UNCHANGED <<command, stop, built, closings, error, mainCancelled>>

\* Only the operation's CancelledError is suppressed; what it returns is dropped.
OperationJoined ==
  /\ driver \in {"joining", "joining_cancelled"} /\ ProcDone
  /\ Leave(Raises \/ driver = "joining_cancelled")
  /\ UNCHANGED <<command, stop, built, closings, mainCancelled>>

\* _wait_for_next_poll: the event, or the interval.
PollAgain ==
  /\ driver = "idle"
  /\ NextRound
  /\ UNCHANGED <<command, stop, built, closings, mainCancelled>>

\* A signal while the handlers are installed.
RequestStop ==
  /\ driver \in {"waiting", "joining", "joining_cancelled", "idle"} /\ Paused
  /\ ~stop
  /\ stop' = TRUE
  /\ UNCHANGED <<vars, proc, hit, driver, command, built, closings, error, mainCancelled>>

\* The main task is cancelled (asyncio.run's answer to SIGINT without handlers): at
\* the wait it cancels and joins the operation; while it joins one, the
\* cancellation goes to that and is suppressed with it.
CancelMain ==
  /\ ~mainCancelled /\ Paused
  /\ mainCancelled' = TRUE
  /\ \/ driver \in {"initializing", "idle"} /\ Leave(TRUE)
     \/ driver = "waiting" /\ CancelProc /\ driver' = "joining_cancelled" /\ UNCHANGED error
     \/ driver \in {"joining", "joining_cancelled"} /\ CancelProc /\ UNCHANGED <<driver, error>>
  /\ UNCHANGED <<command, stop, built, closings>>

--------------------------------------------------------------------------
Closes(r, next) ==
  /\ closings' = IF r \in built \cup {"engine"} THEN [closings EXCEPT ![r] = @ + 1] ELSE closings
  /\ driver' = next
  /\ UNCHANGED <<vars, proc, hit, command, stop, built, mainCancelled>>

\* Each close() may raise or be cancelled; the finally clauses go on.
CloseModel ==
  /\ driver = "closing_model"
  /\ Closes("model", "closing_store")
  /\ error' \in {error, TRUE}

CloseStore ==
  /\ driver = "closing_store"
  /\ Closes("store", "disposing")
  /\ error' \in {error, TRUE}

DisposeEngine ==
  /\ driver = "disposing"
  /\ Closes("engine", "exited")
  /\ error' \in {error, TRUE}

--------------------------------------------------------------------------
(* The operation's task outside of an attempt. *)

Proc(next) ==
  /\ proc' = next
  /\ UNCHANGED <<worker, hit>>

BeginProc ==
  /\ proc = "created"
  /\ Proc(IF command = "rebuild" THEN "rebuilding" ELSE "recovering")
  /\ UNCHANGED vars

\* recover_expired_leases commits, fails or is interrupted.
Recover ==
  /\ proc = "recovering"
  /\ \E next \in (IF hit THEN {"cancelled"} ELSE {"claiming"}) \cup {"raised"} : Proc(next)
  /\ UNCHANGED vars

\* _claim_next finds nothing, or fails; interrupted, it may have committed.
ClaimNothing ==
  /\ proc = "claiming"
  /\ \E next \in (IF hit THEN {"cancelled"} ELSE {"nothing"}) \cup {"raised"} : Proc(next)
  /\ UNCHANGED vars

\* A job is claimed: an attempt begins.
ClaimJob ==
  /\ proc = "claiming" /\ ~hit
  /\ Proc("attempt")
  /\ at' = "claimed" /\ stage' = 1 /\ raising' = "none" /\ pending' = FALSE
  /\ outcome' = "none" /\ completed' = FALSE
  /\ work' = "none" /\ watch' = "none" /\ heart' = "none" /\ lost' = "no"
  /\ asked' = 0 /\ interrupted' = FALSE

\* rebuild_document and rebuild_knowledge_base, whose steps are VectorRebuild's.
Rebuild ==
  /\ proc = "rebuilding"
  /\ \E next \in (IF hit THEN {"cancelled"} ELSE {"rebuilt"}) \cup {"raised"} : Proc(next)
  /\ UNCHANGED vars

ProcStep == BeginProc \/ Recover \/ ClaimNothing \/ ClaimJob \/ Rebuild

\* Everything of LeasedAttempt except that only the main task cancels.
InAttempt(step) == proc = "attempt" /\ step /\ UNCHANGED <<worker, proc, hit>>

AttemptStep ==
  \/ InAttempt(Processing) \/ InAttempt(BeginWork) \/ InAttempt(EndWork) \/ InAttempt(EndWatch)
  \/ InAttempt(Beat) \/ InAttempt(Renew) \/ InAttempt(EndHeartbeat)

MainStep ==
  \/ Build \/ Initialize \/ OperationEnds \/ StopSeen \/ OperationJoined \/ PollAgain
  \/ CloseModel \/ CloseStore \/ DisposeEngine

Exited == driver = "exited" /\ UNCHANGED allVars

WorkerNext == MainStep \/ RequestStop \/ CancelMain \/ ProcStep \/ AttemptStep \/ Exited

\* The event loop runs every task that can go on.  The calls of a stage end (their
\* clients have timeouts, parsing is finite), adapters close, and the database is
\* assumed to answer the processing task and a rollback.  A renewal may hang, and
\* nobody owes the process a stop request.
WorkerSpec ==
  /\ WorkerInit /\ [][WorkerNext]_allVars
  /\ WF_allVars(MainStep) /\ WF_allVars(ProcStep)
  /\ WF_allVars(InAttempt(Processing)) /\ WF_allVars(InAttempt(BeginWork))
  /\ WF_allVars(InAttempt(EndWork)) /\ WF_allVars(InAttempt(EndWatch))
  /\ WF_allVars(InAttempt(EndHeartbeat))

--------------------------------------------------------------------------
Closing == driver \in {"closing_model", "closing_store", "disposing", "exited"}

\* Whatever raised or was cancelled, every adapter that was constructed is closed exactly
\* once, and none while a task of the service may still use it; the engine is disposed of
\* once if any adapter was constructed (the try of production_runtime was entered).  Its
\* docstring promises as much of "all exit paths"; with nothing constructed it is not so.
ClosedOnceAfterUse ==
  /\ Closing => /\ proc = "none" \/ ProcDone
                /\ WorkDone /\ WatchDone /\ heart \in {"none", "done"}
  /\ \A r \in Resources : closings[r] <= 1
  /\ driver = "exited" /\ built # {} => \A r \in built \cup {"engine"} : closings[r] = 1

\* A stop ends the process, also when the attempt swallows its cancellation and when
\* a renewal hangs; --once and rebuild end without one.
ProcessEnds == stop \/ command # "loop" ~> driver = "exited"
==========================================================================

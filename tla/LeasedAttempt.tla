---------------------------- MODULE LeasedAttempt ----------------------------
(***************************************************************************)
(* One attempt of process_next as asyncio runs it: the processing task,    *)
(* the task of the current stage's operation, the task that watches for    *)
(* the loss of the lease (both made by _with_lease), and the heartbeat's   *)
(* task, under cancellation by a stop request at any await.                *)
(*                                                                         *)
(* Task.cancel() on a task that waits for another task cancels that task   *)
(* instead, and the waiting one learns of it only by what it then finds    *)
(* there.  When what it waits for is done already, or is no task, the      *)
(* CancelledError is thrown at the await: this is `pending`.  Between two  *)
(* awaits the processing task runs alone; one action is one such run.      *)
(***************************************************************************)
EXTENDS Naturals

CONSTANT MaxCancels   \* bound: a stop request, and an interrupt during the stop

ASSUME CancelAssumption == MaxCancels \in Nat

VARIABLES
  at,          \* where the processing task waits
  stage,       \* 1 read, 2 parse, 3 replace chunks, 4 embed, 5 replace vectors, 6 finish
  raising,     \* the exception on its way: "lost", "failure", "crash", "cancelled" or "none"
  pending,     \* a CancelledError will be thrown at the current await
  outcome,     \* how process_next ended: "returned", "cancelled", "raised", or "none"
  work,        \* the task of the stage's operation: "created", "running", cancelled
               \* before ("discarded") or after it began ("cancelling"), or how it ended
  watch,       \* the task that waits for heartbeat.lost
  heart,       \* the heartbeat's task
  lost,        \* heartbeat.lost is set, "refused", by an error of the "database" or an
               \* "unexpected" one, or "no"
  completed,   \* _complete_success has been committed
  asked,       \* cancellations asked of the processing task
  interrupted  \* history: one of them met _with_lease waiting for a stage

main == <<at, stage, raising, pending, outcome, completed>>
cancels == <<asked, interrupted>>
vars == <<main, work, watch, heart, lost, cancels>>

Init ==
  /\ at = "claimed" /\ stage = 1 /\ raising = "none" /\ pending = FALSE
  /\ outcome = "none" /\ completed = FALSE
  /\ work = "none" /\ watch = "none" /\ heart = "none" /\ lost = "no"
  /\ asked = 0 /\ interrupted = FALSE

--------------------------------------------------------------------------
(* What the processing task does between two awaits. *)

WorkDone == work \notin {"created", "running", "discarded", "cancelling"}
WatchDone == watch \notin {"waiting", "cancelling"}

\* What heartbeat.ensure_owned raises once lost is set; HeartbeatFailureError is
\* none of the failures process_next expects.
LeaseException == IF lost = "unexpected" THEN "crash" ELSE "lost"

\* What awaiting the finished operation raises, or else.
Raised(else) ==
  CASE work = "failed" -> "failure" [] work = "crashed" -> "crash" [] OTHER -> else

\* work.cancel() and lease_lost.cancel(); a task that has not begun never will.
CancelWork == work' = IF WorkDone THEN work ELSE IF work = "created" THEN "discarded" ELSE "cancelling"
CancelWatch == watch' = IF WatchDone THEN watch ELSE "cancelling"

\* The finally of _with_lease, up to its gather.
Unwind(exception) ==
  /\ at' = "unwinding"
  /\ raising' = exception
  /\ CancelWork
  /\ CancelWatch
  /\ UNCHANGED <<stage, heart, outcome>>

\* _with_lease up to its first await: the tasks are made before ensure_owned.
Guard(n) ==
  /\ stage' = n
  /\ outcome' = outcome
  /\ IF lost = "no"
       THEN /\ at' = "guarded" /\ raising' = "none"
            /\ work' = "created" /\ watch' = "waiting"
       ELSE /\ at' = "unwinding" /\ raising' = LeaseException
            /\ work' = "discarded" /\ watch' = "cancelling"

\* Mutant: the lease is not looked at again after the heartbeat has stopped.
HandleUnchecked(exception) ==
  /\ raising' = exception
  /\ at' = CASE exception = "none" -> "completing" [] exception = "lost" -> "ended" [] OTHER -> "recording"
  /\ outcome' = IF exception = "lost" THEN "returned" ELSE outcome

\* What follows heartbeat.stop() in the body and in each except branch.
Handle(exception) ==
  LET e == IF exception = "none" /\ lost # "no" THEN LeaseException ELSE exception IN
  /\ raising' = e
  /\ at' = CASE e = "none" -> "completing" [] e = "lost" -> "ended" [] OTHER -> "recording"
  /\ outcome' = IF e = "lost" THEN "returned" ELSE outcome

\* Mutant: stop waits for the heartbeat without cancelling it.
StopHeartbeatPatiently(n, exception) ==
  /\ stage' = n
  /\ heart' = heart
  /\ IF heart = "done" THEN Handle(exception)
     ELSE at' = "stopping" /\ raising' = exception /\ outcome' = outcome
  /\ UNCHANGED <<work, watch>>

\* heartbeat.stop(): a heartbeat that is done is not awaited.
StopHeartbeat(n, exception) ==
  /\ stage' = n
  /\ IF heart = "done" THEN heart' = heart /\ Handle(exception)
     ELSE /\ heart' = IF heart = "renewing" THEN "rolling_back" ELSE "cancelling"
          /\ at' = "stopping" /\ raising' = exception /\ outcome' = outcome
  /\ UNCHANGED <<work, watch>>

\* Mutant: the chunk rows are not stored.
FollowingWithoutChunks(n) == IF n = 2 THEN 4 ELSE n + 1

Following(n) == n + 1

\* process_next goes on with stage n.
Proceed(n) ==
  \/ n \in {1, 2, 4, 5} /\ Guard(n) /\ heart' = heart
  \/ n = 3 /\ stage' = 3 /\ at' = "persisting" /\ UNCHANGED <<raising, outcome, work, watch, heart>>
  \/ n = 6 /\ StopHeartbeat(6, "none")

--------------------------------------------------------------------------
(* The runs of the processing task. *)

Awake(place) == at = place /\ pending' = FALSE /\ UNCHANGED <<lost, cancels>>

\* The job is claimed: the heartbeat starts, and the first stage.
Start ==
  /\ Awake("claimed")
  /\ Guard(1)
  /\ heart' = "sleeping"
  /\ UNCHANGED completed

\* asyncio.wait returns.
StageReturns ==
  /\ Awake("guarded")
  /\ ~pending
  /\ WorkDone \/ WatchDone
  /\ \/ /\ lost = "no"
        /\ at' = "joining_watch"
        /\ CancelWatch
        /\ UNCHANGED <<stage, raising, outcome, work, heart>>
     \/ /\ lost # "no" /\ ~WorkDone
        /\ at' = "joining_work"
        /\ CancelWork
        /\ UNCHANGED <<stage, raising, outcome, watch, heart>>
     \/ /\ lost # "no" /\ WorkDone
        /\ Unwind(Raised(LeaseException))
  /\ UNCHANGED completed

\* Mutant: the wait is suppressed like the other two awaits.
StageInterruptedSuppressed ==
  /\ Awake("guarded")
  /\ pending
  /\ Unwind("none")
  /\ UNCHANGED completed

\* ... or is cancelled.
StageInterrupted ==
  /\ Awake("guarded")
  /\ pending
  /\ Unwind("cancelled")
  /\ UNCHANGED completed

\* The operation of a lost lease has ended.  Its CancelledError is suppressed, and
\* so is the processing task's own.
WorkJoined ==
  /\ Awake("joining_work")
  /\ WorkDone
  /\ Unwind(IF pending THEN LeaseException ELSE Raised(LeaseException))
  /\ UNCHANGED completed

\* The watching task has ended, with the same suppression; the result is awaited,
\* which is there, and the lease looked at once more.
WatchJoined ==
  /\ Awake("joining_watch")
  /\ WatchDone
  /\ Unwind(Raised(IF lost = "no" THEN "none" ELSE LeaseException))
  /\ UNCHANGED completed

\* Mutant: the tasks are cancelled but not joined.
UnwoundAtOnce ==
  /\ Awake("unwinding")
  /\ LET e == IF pending THEN "cancelled" ELSE raising IN
       IF e = "none" THEN Proceed(Following(stage)) ELSE StopHeartbeat(stage, e)
  /\ UNCHANGED completed

\* The gather of _with_lease returns once both tasks are done.
Unwound ==
  /\ Awake("unwinding")
  /\ WorkDone /\ WatchDone
  /\ LET e == IF pending THEN "cancelled" ELSE raising IN
       IF e = "none" THEN Proceed(Following(stage)) ELSE StopHeartbeat(stage, e)
  /\ UNCHANGED completed

\* _replace_chunks commits, finds the lease gone, or fails.
ChunksReplaced ==
  /\ Awake("persisting")
  /\ \/ ~pending /\ Proceed(Following(stage))
     \/ ~pending /\ \E e \in {"lost", "failure", "crash"} : StopHeartbeat(stage, e)
     \/ pending /\ StopHeartbeat(stage, "cancelled")
  /\ UNCHANGED completed

\* The heartbeat's task has ended.  A CancelledError thrown here is handled by
\* process_next unless it is in one of its except branches already.
HeartbeatStopped ==
  /\ Awake("stopping")
  /\ heart = "done"
  /\ \/ ~pending /\ Handle(raising)
     \/ pending /\ raising = "none" /\ Handle("cancelled")
     \/ /\ pending /\ raising # "none"
        /\ at' = "ended" /\ outcome' = "cancelled" /\ raising' = "cancelled"
  /\ UNCHANGED <<stage, work, watch, heart, completed>>

\* _complete_success; the reply to the COMMIT may be lost.
SuccessCompleted ==
  /\ Awake("completing")
  /\ \/ /\ ~pending
        /\ at' = "ended" /\ outcome' = "returned" /\ raising' = raising
        /\ completed' = TRUE
     \/ ~pending /\ \E e \in {"lost", "crash"} : Handle(e) /\ UNCHANGED completed
     \/ ~pending /\ Handle("failure") /\ completed' \in BOOLEAN
     \/ pending /\ Handle("cancelled") /\ completed' \in BOOLEAN
  /\ UNCHANGED <<stage, work, watch, heart>>

\* _complete_failure has recorded the failure, or left alone a job it no longer
\* owns, or failed itself; only a database error is noted on a cancellation.
FailureCompleted ==
  /\ Awake("recording")
  /\ at' = "ended"
  /\ \/ pending /\ outcome' = "cancelled"
     \/ /\ ~pending
        /\ \/ raising = "failure" /\ outcome' = "returned"
           \/ raising = "cancelled" /\ outcome' = "cancelled"
           \/ outcome' = "raised"
  /\ UNCHANGED <<stage, raising, completed, work, watch, heart>>

--------------------------------------------------------------------------
(* The other tasks. *)

BeginWork ==
  /\ work = "created"
  /\ work' = "running"
  /\ UNCHANGED <<main, watch, heart, lost, cancels>>

\* The operation returns or raises.  A cancelled one may raise something else while
\* it leaves its transactions and clients.
EndWork ==
  /\ \/ work = "running" /\ work' \in {"ok", "failed", "crashed"}
     \/ work = "cancelling" /\ work' \in {"cancelled", "failed"}
     \/ work = "discarded" /\ work' = "cancelled"
  /\ UNCHANGED <<main, watch, heart, lost, cancels>>

EndWatch ==
  /\ watch = "cancelling" \/ (watch = "waiting" /\ lost # "no")
  /\ watch' = "done"
  /\ UNCHANGED <<main, work, heart, lost, cancels>>

\* The interval is over.
Beat ==
  /\ heart = "sleeping"
  /\ heart' = "renewing"
  /\ UNCHANGED <<main, work, watch, lost, cancels>>

\* _renew_lease: renewed, no longer owned, or an error.
Renew ==
  /\ heart = "renewing"
  /\ \/ heart' = "sleeping" /\ lost' = lost
     \/ heart' = "done" /\ lost' \in {"refused", "database", "unexpected"}
  /\ UNCHANGED <<main, work, watch, cancels>>

\* The cancelled heartbeat ends quietly, unless leaving its transaction raises.
EndHeartbeat ==
  /\ \/ heart \in {"cancelling", "rolling_back"} /\ lost' = lost
     \/ heart = "rolling_back" /\ lost' \in {"database", "unexpected"}
  /\ heart' = "done"
  /\ UNCHANGED <<main, work, watch, cancels>>

\* The task the processing task waits for, and which it has cancelled before, takes
\* the cancellation; what comes of it is that task's end.
Forwarded ==
  \/ at = "joining_work" /\ ~WorkDone
  \/ at = "joining_watch" /\ ~WatchDone
  \/ at = "stopping" /\ heart # "done"

\* _await_until_stopped cancels process_next.
Cancel ==
  /\ at \notin {"claimed", "ended"}
  /\ asked < MaxCancels
  /\ asked' = asked + 1
  /\ pending' = (pending \/ ~Forwarded)
  /\ interrupted' = (interrupted \/ at = "guarded")
  /\ UNCHANGED <<at, stage, raising, outcome, completed, work, watch, heart, lost>>

Processing ==
  \/ Start \/ StageReturns \/ StageInterrupted \/ WorkJoined \/ WatchJoined \/ Unwound
  \/ ChunksReplaced \/ HeartbeatStopped \/ SuccessCompleted \/ FailureCompleted

Next ==
  \/ Processing \/ BeginWork \/ EndWork \/ EndWatch \/ Beat \/ Renew \/ EndHeartbeat \/ Cancel

Spec == Init /\ [][Next]_vars

--------------------------------------------------------------------------
\* process_next leaves no task behind and writes no state beside one: the stage's
\* operation is over before chunk rows, success or failure are written, the
\* heartbeat before success or failure is, wherever cancellations strike.
JoinedBeforeRecorded ==
  /\ at \in {"persisting", "stopping", "completing", "recording", "ended"} => WorkDone /\ WatchDone
  /\ at \in {"completing", "recording", "ended"} => heart = "done"

\* A lease that is known to be lost never ends in success, also when the loss is
\* noticed in the heartbeat's last renewal.
LostLeaseNeverCompletes == completed => lost = "no"

\* A cancellation that meets a running stage makes it the last one: process_next
\* records the interruption and raises, whatever else fails on the way.
CancelledStageIsTheLast ==
  /\ [][interrupted /\ interrupted' => stage' = stage /\ completed' = completed]_vars
  /\ [](at = "ended" /\ interrupted => outcome \in {"cancelled", "raised"})

\* "Cancellation is propagated after the worker releases its claim through a short
\* state transition" (docs/architecture.md:221): an attempt that was asked to stop does
\* not go on to an ordinary return, as if nothing had been asked.
CancellationIsPropagated ==
  at = "ended" /\ asked > 0 => ~(outcome = "returned" /\ raising = "none")

StageName(n) == <<"prepare", "prepare", "persist", "embed", "index", "finish">>[n]

\* Seen from outside, the four tasks are one worker that goes through the stages of
\* IngestionProcessing: no interleaving skips, repeats or resumes one.
Control == INSTANCE AttemptStages WITH
  at <- CASE at \in {"claimed", "ended"} -> "free"
          [] at = "recording" -> "fail"
          [] at = "stopping" /\ raising \notin {"none", "lost"} -> "fail"
          [] OTHER -> StageName(stage)

ImplementsStages == Control!Spec
==========================================================================

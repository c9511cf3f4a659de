---------------------------- MODULE WorkerProofs -----------------------------
(***************************************************************************)
(* What holds of the four tasks of an attempt, and of the process around   *)
(* them, for any number of cancellations.  Each place where the processing *)
(* task waits says which of the others may still run; a cancellation that  *)
(* meets a stage is carried from place to place by `raising`, which        *)
(* nothing replaces.  The process adds where the main task is, and between *)
(* which of its steps an attempt can be under way.                         *)
(***************************************************************************)
EXTENDS WorkerProcess, TLAPS

Guarding == {"guarded", "joining_work", "joining_watch", "unwinding"}
Exceptions == {"lost", "failure", "crash", "cancelled"}

AttemptTypes ==
  /\ at \in {"claimed", "persisting", "stopping", "completing", "recording", "ended"} \cup Guarding
  /\ stage \in 1..6
  /\ raising \in {"none"} \cup Exceptions
  /\ pending \in BOOLEAN /\ completed \in BOOLEAN /\ interrupted \in BOOLEAN
  /\ lost \in {"no", "refused", "database", "unexpected"}

\* Where the processing task waits in which stage, and what is over by then.
Places ==
  /\ at = "claimed" => /\ stage = 1 /\ lost = "no" /\ ~interrupted
                       /\ work = "none" /\ watch = "none" /\ heart = "none"
  /\ at \in Guarding => stage \in {1, 2, 4, 5}
  /\ at = "persisting" => stage = 3
  /\ at = "stopping" /\ raising = "none" => stage = 6
  /\ at = "completing" => stage = 6 /\ raising = "none" /\ lost = "no"
  /\ at = "recording" => raising \in {"failure", "crash", "cancelled"}

\* An attempt that has committed its success can only fail to hear of it.
Decided == completed => at \in {"recording", "ended"} /\ lost = "no"

\* A cancellation that met a stage, on its way.
Interruption ==
  interrupted =>
    \/ at = "guarded" /\ pending
    \/ at \in {"unwinding", "stopping", "recording"} /\ raising = "cancelled"
    \/ at = "ended" /\ outcome \in {"cancelled", "raised"}

AttemptInvariant ==
  /\ AttemptTypes
  /\ JoinedBeforeRecorded
  /\ Places
  /\ Decided
  /\ Interruption

--------------------------------------------------------------------------
\* The invariant holds initially.
LEMMA AttemptInit == Init => AttemptInvariant
<1> SUFFICES ASSUME Init PROVE AttemptInvariant
  OBVIOUS
<1>1. /\ at = "claimed" /\ stage = 1 /\ raising = "none" /\ lost = "no"
      /\ work = "none" /\ watch = "none" /\ heart = "none"
  BY DEF Init
<1>2. pending = FALSE /\ completed = FALSE /\ interrupted = FALSE
  BY DEF Init
<1>3. AttemptTypes
  <2>1. pending \in BOOLEAN /\ completed \in BOOLEAN /\ interrupted \in BOOLEAN
    BY <1>2
  <2> QED BY <1>1, <2>1 DEF AttemptTypes
<1>4. JoinedBeforeRecorded /\ Places
  BY <1>1, <1>2 DEF JoinedBeforeRecorded, Places, Guarding
<1> QED BY <1>2, <1>3, <1>4 DEF AttemptInvariant, Decided, Interruption

\* What every run of the processing task does.
Runs ==
  /\ pending' = FALSE /\ UNCHANGED <<lost, cancels>>
  /\ completed => completed'

\* The invariant where a run ends inside of _with_lease, uninterrupted.
LEMMA Inside ==
  ASSUME AttemptInvariant, Runs, completed' = completed, ~completed, ~interrupted,
         at' \in Guarding, stage' \in {1, 2, 4, 5}, raising' \in {"none"} \cup Exceptions
  PROVE  AttemptInvariant'
<1>1. AttemptTypes'
  <2>1. pending' \in BOOLEAN /\ completed' \in BOOLEAN /\ interrupted' \in BOOLEAN
    BY DEF AttemptInvariant, AttemptTypes, Runs, cancels
  <2>2. stage' \in 1..6 /\ lost' \in {"no", "refused", "database", "unexpected"}
    BY DEF AttemptInvariant, AttemptTypes, Runs
  <2> QED BY <2>1, <2>2 DEF AttemptTypes
<1>2. JoinedBeforeRecorded' /\ Places'
  BY DEF JoinedBeforeRecorded, Places, Guarding
<1>3. Decided' /\ Interruption'
  BY DEF Decided, Interruption, Runs, cancels
<1> QED BY <1>1, <1>2, <1>3 DEF AttemptInvariant

\* Handling an exception, or none, once the heartbeat is over.
LEMMA Handling ==
  ASSUME AttemptInvariant, NEW e \in {"none"} \cup Exceptions, Handle(e), Runs,
         UNCHANGED <<work, watch>>, WorkDone, WatchDone, heart' = "done",
         e = "none" => stage' = 6 /\ ~completed', stage' \in 1..6, completed' \in BOOLEAN,
         completed' => lost = "no" /\ e # "none",
         interrupted => e = "cancelled"
  PROVE  AttemptInvariant'
<1>1. AttemptTypes'
  BY DEF AttemptInvariant, AttemptTypes, Handle, LeaseException, Exceptions, Runs, cancels
<1>2. /\ at' \in {"completing", "recording", "ended"}
      /\ at' = "completing" => e = "none" /\ raising' = "none" /\ lost = "no"
      /\ at' = "recording" => raising' \in {"failure", "crash", "cancelled"}
      /\ e = "cancelled" => at' = "recording" /\ raising' = "cancelled"
  BY DEF Handle, LeaseException, Exceptions
<1>3. JoinedBeforeRecorded'
  BY <1>2 DEF JoinedBeforeRecorded, WorkDone, WatchDone
<1>4. Places'
  BY <1>2 DEF Places, Guarding, Runs
<1>5. Decided' /\ Interruption'
  BY <1>2 DEF Decided, Interruption, Runs, cancels
<1> QED BY <1>1, <1>3, <1>4, <1>5 DEF AttemptInvariant

\* Stopping the heartbeat.
LEMMA Stopping ==
  ASSUME AttemptInvariant, NEW n \in 1..6, NEW e \in {"none"} \cup Exceptions, StopHeartbeat(n, e),
         Runs, completed' = completed, ~completed, WorkDone, WatchDone, e = "none" => n = 6,
         interrupted => e = "cancelled"
  PROVE  AttemptInvariant'
<1>1. CASE heart = "done"
  <2>1. Handle(e) /\ stage' = n /\ heart' = "done" /\ UNCHANGED <<work, watch>>
    BY <1>1 DEF StopHeartbeat
  <2>2. completed' \in BOOLEAN /\ ~completed'
    BY DEF AttemptInvariant, AttemptTypes
  <2> QED BY <2>1, <2>2, Handling
<1>2. CASE heart # "done"
  <2>1. /\ at' = "stopping" /\ stage' = n /\ raising' = e /\ UNCHANGED <<work, watch>>
    BY <1>2 DEF StopHeartbeat
  <2>2. AttemptTypes'
    BY <2>1 DEF AttemptInvariant, AttemptTypes, Runs, cancels
  <2>3. JoinedBeforeRecorded'
    BY <2>1 DEF JoinedBeforeRecorded, WorkDone, WatchDone
  <2> QED
    BY <2>1, <2>2, <2>3
    DEF AttemptInvariant, Places, Guarding, Decided, Interruption, Runs, cancels
<1> QED BY <1>1, <1>2

\* The next stage.
LEMMA Proceeding ==
  ASSUME AttemptInvariant, NEW n \in 2..6, Proceed(n), Runs, completed' = completed, ~completed,
         WorkDone, WatchDone, ~interrupted
  PROVE  AttemptInvariant'
<1>1. CASE n \in {1, 2, 4, 5} /\ Guard(n) /\ heart' = heart
  <2>1. at' \in Guarding /\ stage' \in {1, 2, 4, 5} /\ raising' \in {"none"} \cup Exceptions
    BY <1>1 DEF Guard, LeaseException, Guarding, Exceptions
  <2> QED BY <2>1, Inside
<1>2. CASE n = 3 /\ stage' = 3 /\ at' = "persisting" /\ UNCHANGED <<raising, outcome, work, watch, heart>>
  <2>1. AttemptTypes'
    <3>1. pending' \in BOOLEAN /\ completed' \in BOOLEAN /\ interrupted' \in BOOLEAN
      BY DEF AttemptInvariant, AttemptTypes, Runs, cancels
    <3>2. /\ at' = "persisting" /\ stage' = 3 /\ raising' \in {"none"} \cup Exceptions
          /\ lost' \in {"no", "refused", "database", "unexpected"}
      BY <1>2 DEF AttemptInvariant, AttemptTypes, Runs
    <3> QED BY <3>1, <3>2 DEF AttemptTypes
  <2>2. JoinedBeforeRecorded' /\ Places'
    BY <1>2 DEF JoinedBeforeRecorded, WorkDone, WatchDone, Places, Guarding
  <2>3. Decided' /\ Interruption'
    BY DEF Decided, Interruption, Runs, cancels
  <2> QED BY <2>1, <2>2, <2>3 DEF AttemptInvariant
<1>3. CASE n = 6 /\ StopHeartbeat(6, "none")
  BY <1>3, Stopping
<1> QED BY <1>1, <1>2, <1>3 DEF Proceed

\* The runs of the processing task inside of _with_lease.
LEMMA GuardedStep ==
  ASSUME AttemptInvariant, Start \/ StageReturns \/ StageInterrupted \/ WorkJoined \/ WatchJoined
  PROVE  AttemptInvariant'
<1>1. Runs BY DEF Runs, Start, StageReturns, StageInterrupted, WorkJoined, WatchJoined, Awake
<1>2. ASSUME NEW e \in {"none"} \cup Exceptions, Unwind(e), completed' = completed, at \in Guarding,
             interrupted => e = "cancelled"
      PROVE  AttemptInvariant'
  BY <1>1, <1>2
  DEF Unwind, AttemptInvariant, AttemptTypes, Guarding, Exceptions, JoinedBeforeRecorded,
      Places, Decided, Interruption, Runs, cancels
<1>3. LeaseException \in Exceptions BY DEF LeaseException, Exceptions
<1>4. \A else \in {"none"} \cup Exceptions : Raised(else) \in {"none"} \cup Exceptions
  BY DEF Raised, Exceptions
<1>5. CASE Start
  <2>1. at = "claimed" /\ Guard(1) /\ completed' = completed
    BY <1>5 DEF Start, Awake
  <2>2. ~completed /\ ~interrupted
    BY <2>1 DEF AttemptInvariant, Decided, Places
  <2>3. at' \in Guarding /\ stage' = 1 /\ raising' \in {"none"} \cup Exceptions
    BY <2>1 DEF Guard, LeaseException, Guarding, Exceptions
  <2> QED BY <1>1, <2>1, <2>2, <2>3, Inside
<1>6. CASE StageReturns
  <2>1. ~interrupted /\ at = "guarded"
    BY <1>6 DEF StageReturns, Awake, AttemptInvariant, Interruption
  <2>2. CASE at' \in {"joining_watch", "joining_work"} /\ UNCHANGED <<stage, raising, outcome>>
    BY <1>1, <1>6, <2>1, <2>2
    DEF StageReturns, AttemptInvariant, AttemptTypes, Guarding, Exceptions, JoinedBeforeRecorded,
        Places, Decided, Interruption, Runs, cancels
  <2>3. CASE Unwind(Raised(LeaseException))
    BY <1>2, <1>3, <1>4, <1>6, <2>1, <2>3 DEF StageReturns, Guarding
  <2> QED BY <1>6, <2>2, <2>3 DEF StageReturns
<1>7. CASE StageInterrupted
  BY <1>2, <1>7 DEF StageInterrupted, Awake, Guarding, Exceptions
<1>8. CASE WorkJoined \/ WatchJoined
  <2>1. ~interrupted /\ at \in Guarding /\ completed' = completed
    BY <1>8 DEF WorkJoined, WatchJoined, Awake, AttemptInvariant, Interruption, Guarding
  <2>2. \/ Unwind(LeaseException) \/ Unwind(Raised(LeaseException)) \/ Unwind(Raised("none"))
    BY <1>8 DEF WorkJoined, WatchJoined
  <2> QED BY <1>2, <1>3, <1>4, <2>1, <2>2
<1> QED BY <1>5, <1>6, <1>7, <1>8

\* The runs that lead from one stage to the next, or to the end.
LEMMA StageStep ==
  ASSUME AttemptInvariant, Unwound \/ ChunksReplaced
  PROVE  AttemptInvariant'
<1>1. Runs /\ completed' = completed
  BY DEF Runs, Unwound, ChunksReplaced, Awake
<1>2. ~completed /\ WorkDone /\ WatchDone /\ stage \in {1, 2, 3, 4, 5}
  BY DEF Unwound, ChunksReplaced, Awake, AttemptInvariant, Decided, JoinedBeforeRecorded, Places, Guarding
<1>3. Following(stage) \in 2..6 BY <1>2 DEF Following
<1>4. CASE Unwound
  <2> DEFINE e == IF pending THEN "cancelled" ELSE raising
  <2>1. e \in {"none"} \cup Exceptions /\ (interrupted => e = "cancelled")
    BY <1>4 DEF Unwound, Awake, AttemptInvariant, AttemptTypes, Interruption, Exceptions
  <2>2. CASE e = "none"
    BY <1>1, <1>2, <1>3, <1>4, <2>1, <2>2, Proceeding DEF Unwound
  <2>3. CASE e # "none"
    <3>1. StopHeartbeat(stage, e) /\ stage \in 1..6 BY <1>2, <1>4, <2>3 DEF Unwound
    <3> HIDE DEF e
    <3> QED BY <1>1, <1>2, <2>1, <2>3, <3>1, Stopping
  <2> QED BY <2>2, <2>3
<1>5. CASE ChunksReplaced
  <2>1. ~interrupted BY <1>5 DEF ChunksReplaced, Awake, AttemptInvariant, Interruption
  <2>2. CASE Proceed(Following(stage))
    BY <1>1, <1>2, <1>3, <2>1, <2>2, Proceeding
  <2>3. CASE \E e \in Exceptions : StopHeartbeat(stage, e)
    BY <1>1, <1>2, <2>1, <2>3, Stopping DEF Exceptions
  <2> QED BY <1>5, <2>2, <2>3 DEF ChunksReplaced, Exceptions
<1> QED BY <1>4, <1>5

\* The end: the heartbeat is over, success or failure is recorded.
LEMMA EndStep ==
  ASSUME AttemptInvariant, HeartbeatStopped \/ SuccessCompleted \/ FailureCompleted
  PROVE  AttemptInvariant'
<1>1. WorkDone /\ WatchDone /\ UNCHANGED <<stage, work, watch, heart>> /\ heart = "done"
  BY DEF HeartbeatStopped, SuccessCompleted, FailureCompleted, Awake, AttemptInvariant, JoinedBeforeRecorded
<1>2. stage \in 1..6 /\ raising \in {"none"} \cup Exceptions
  BY DEF AttemptInvariant, AttemptTypes
<1>3. ASSUME at' = "ended", pending' = FALSE, UNCHANGED <<lost, cancels>>,
             raising' \in {"none"} \cup Exceptions, completed' \in BOOLEAN,
             completed' => lost = "no", interrupted => outcome' \in {"cancelled", "raised"}
      PROVE  AttemptInvariant'
  BY <1>1, <1>3
  DEF AttemptInvariant, AttemptTypes, Guarding, Exceptions, JoinedBeforeRecorded, WorkDone, WatchDone,
      Places, Decided, Interruption, cancels
<1>4. CASE HeartbeatStopped
  <2>1. Runs /\ ~completed /\ completed' = completed /\ (raising = "none" => stage = 6)
        /\ (interrupted => raising = "cancelled")
    BY <1>4 DEF HeartbeatStopped, Awake, AttemptInvariant, Decided, Places, Interruption, Runs
  <2>2. CASE \E e \in {"none"} \cup Exceptions :
               Handle(e) /\ (e = "none" => raising = "none") /\ (interrupted => e = "cancelled")
    <3>1. completed' \in BOOLEAN /\ ~completed' /\ stage' = stage /\ heart' = "done"
      BY <1>1, <2>1 DEF AttemptInvariant, AttemptTypes
    <3> QED BY <1>1, <1>2, <2>1, <2>2, <3>1, Handling
  <2>3. CASE at' = "ended" /\ outcome' = "cancelled" /\ raising' = "cancelled"
    <3>1. completed' \in BOOLEAN /\ ~completed'
      BY <2>1 DEF AttemptInvariant, AttemptTypes
    <3> QED BY <1>3, <2>1, <2>3, <3>1 DEF Runs, Exceptions
  <2>4. "cancelled" \in {"none"} \cup Exceptions BY DEF Exceptions
  <2> QED BY <1>2, <1>4, <2>1, <2>2, <2>3, <2>4 DEF HeartbeatStopped
<1>5. CASE SuccessCompleted
  <2>1. at = "completing" /\ pending' = FALSE /\ UNCHANGED <<lost, cancels>>
    BY <1>5 DEF SuccessCompleted, Awake
  <2>a. ~completed /\ ~interrupted /\ lost = "no"
    BY <2>1 DEF AttemptInvariant, Decided, Places, Interruption
  <2>b. completed' \in BOOLEAN /\ Runs
    BY <1>5, <2>1, <2>a DEF SuccessCompleted, AttemptInvariant, AttemptTypes, Runs
  <2>2. CASE \E e \in Exceptions : Handle(e)
    <3>1. stage' = stage /\ heart' = "done" BY <1>1
    <3> QED BY <1>1, <1>2, <2>a, <2>b, <2>2, <3>1, Handling DEF Exceptions
  <2>3. CASE at' = "ended" /\ raising' = raising
    BY <1>2, <1>3, <2>1, <2>a, <2>b, <2>3
  <2> QED BY <1>5, <2>2, <2>3 DEF SuccessCompleted, Exceptions
<1>6. CASE FailureCompleted
  <2>1. /\ at' = "ended" /\ pending' = FALSE /\ raising' = raising /\ completed' = completed
        /\ UNCHANGED <<lost, cancels>>
    BY <1>6 DEF FailureCompleted, Awake
  <2>2. interrupted => outcome' \in {"cancelled", "raised"}
    BY <1>6 DEF FailureCompleted, Awake, AttemptInvariant, Interruption
  <2>3. completed \in BOOLEAN /\ (completed => lost = "no")
    BY DEF AttemptInvariant, AttemptTypes, Decided
  <2> QED BY <1>2, <1>3, <2>1, <2>2, <2>3
<1> QED BY <1>4, <1>5, <1>6

\* The other tasks, and a cancellation.
LEMMA OtherStep ==
  ASSUME AttemptInvariant,
         BeginWork \/ EndWork \/ EndWatch \/ Beat \/ Renew \/ EndHeartbeat \/ Cancel
  PROVE  AttemptInvariant'
<1>1. CASE BeginWork \/ EndWork \/ EndWatch
  BY <1>1
  DEF BeginWork, EndWork, EndWatch, main, cancels, AttemptInvariant, AttemptTypes, Guarding, Exceptions,
      JoinedBeforeRecorded, WorkDone, WatchDone, Places, Decided, Interruption
<1>2. CASE Beat \/ Renew \/ EndHeartbeat
  BY <1>2
  DEF Beat, Renew, EndHeartbeat, main, cancels, AttemptInvariant, AttemptTypes, Guarding, Exceptions,
      JoinedBeforeRecorded, WorkDone, WatchDone, Places, Decided, Interruption
<1>3. CASE Cancel
  BY <1>3
  DEF Cancel, Forwarded, AttemptInvariant, AttemptTypes, Guarding, Exceptions,
      JoinedBeforeRecorded, WorkDone, WatchDone, Places, Decided, Interruption
<1> QED BY <1>1, <1>2, <1>3

\* Every step keeps the invariant.
LEMMA AttemptNext == AttemptInvariant /\ [Next]_vars => AttemptInvariant'
<1>1. CASE UNCHANGED vars
  BY <1>1
  DEF vars, main, cancels, AttemptInvariant, AttemptTypes, JoinedBeforeRecorded, WorkDone, WatchDone,
      Places, Decided, Interruption
<1> QED BY <1>1, GuardedStep, StageStep, EndStep, OtherStep DEF Next, Processing

\* The invariant of an attempt, for any number of cancellations.
THEOREM AttemptInvariantHolds == Spec => []AttemptInvariant
  BY AttemptInit, AttemptNext, PTL DEF Spec

--------------------------------------------------------------------------
\* process_next leaves no task behind: the stage's operation and the watching task are
\* over before chunk rows, success or failure are written, the heartbeat is before
\* success or failure.
THEOREM TasksAreJoined == Spec => []JoinedBeforeRecorded
<1>1. AttemptInvariant => JoinedBeforeRecorded
  BY DEF AttemptInvariant
<1> QED BY <1>1, AttemptInvariantHolds, PTL

\* No attempt completes with a lease it knows to be lost: once the heartbeat is over,
\* the loss can be noticed no more.
THEOREM NoSuccessWithoutLease == Spec => []LostLeaseNeverCompletes
<1>1. AttemptInvariant => LostLeaseNeverCompletes
  BY DEF AttemptInvariant, Decided, LostLeaseNeverCompletes
<1> QED BY <1>1, AttemptInvariantHolds, PTL

\* An interrupted attempt gets no further and does not complete.
LEMMA InterruptedStep ==
  ASSUME AttemptInvariant, [Next]_vars, interrupted
  PROVE  stage' = stage /\ completed' = completed
<1>1. CASE UNCHANGED vars BY <1>1 DEF vars, main
<1>2. /\ at \in {"guarded", "unwinding", "stopping", "recording", "ended"}
      /\ at = "guarded" => pending
      /\ at \in {"unwinding", "stopping", "recording"} => raising = "cancelled"
  BY DEF AttemptInvariant, Interruption
<1>3. CASE Processing
  <2>1. StageInterrupted \/ Unwound \/ HeartbeatStopped \/ FailureCompleted
    BY <1>2, <1>3
    DEF Processing, Awake, Start, StageReturns, WorkJoined, WatchJoined, ChunksReplaced, SuccessCompleted
  <2>2. CASE Unwound
    BY <1>2, <2>2 DEF Unwound, Awake, StopHeartbeat
  <2> QED BY <2>1, <2>2 DEF StageInterrupted, Unwind, HeartbeatStopped, FailureCompleted
<1>4. CASE BeginWork \/ EndWork \/ EndWatch \/ Beat \/ Renew \/ EndHeartbeat \/ Cancel
  BY <1>4 DEF BeginWork, EndWork, EndWatch, Beat, Renew, EndHeartbeat, Cancel, main
<1> QED BY <1>1, <1>3, <1>4 DEF Next

\* A cancellation that meets a running stage makes it the last one.
THEOREM InterruptionsEndTheAttempt == Spec => CancelledStageIsTheLast
<1>1. AttemptInvariant /\ [Next]_vars =>
        [interrupted /\ interrupted' => stage' = stage /\ completed' = completed]_vars
  BY InterruptedStep
<1>2. AttemptInvariant => (at = "ended" /\ interrupted => outcome \in {"cancelled", "raised"})
  BY DEF AttemptInvariant, Interruption
<1> QED BY <1>1, <1>2, AttemptInvariantHolds, PTL DEF Spec, CancelledStageIsTheLast

--------------------------------------------------------------------------
(* The stages seen from outside. *)

Seen ==
  CASE at \in {"claimed", "ended"} -> "free"
    [] at = "recording" -> "fail"
    [] at = "stopping" /\ raising \notin {"none", "lost"} -> "fail"
    [] OTHER -> StageName(stage)

\* The names of the stages, and the order AttemptStages asks for.
LEMMA Names ==
  /\ StageName(1) = "prepare" /\ StageName(2) = "prepare" /\ StageName(3) = "persist"
  /\ StageName(4) = "embed" /\ StageName(5) = "index" /\ StageName(6) = "finish"
BY DEF StageName

\* From one name to another as AttemptStages allows.
Moves(from, to) ==
  \/ from = to
  \/ from = "free" /\ to = "prepare"
  \/ from = "prepare" /\ to = "persist"
  \/ from = "persist" /\ to = "embed"
  \/ from = "embed" /\ to = "index"
  \/ from = "index" /\ to = "finish"
  \/ from \in {"prepare", "persist", "embed", "index", "finish"} /\ to = "fail"
  \/ from # "free" /\ to = "free"

\* What is seen of each place.
LEMMA Appearance ==
  /\ at \in {"claimed", "ended"} => Seen = "free"
  /\ at = "recording" => Seen = "fail"
  /\ at = "stopping" /\ raising \notin {"none", "lost"} => Seen = "fail"
  /\ at \in Guarding \cup {"persisting", "completing"} => Seen = StageName(stage)
  /\ at = "stopping" /\ raising \in {"none", "lost"} => Seen = StageName(stage)
BY DEF Seen, Guarding

\* The same of the next state.
LEMMA NextAppearance ==
  /\ at' \in {"claimed", "ended"} => Seen' = "free"
  /\ at' = "recording" => Seen' = "fail"
  /\ at' = "stopping" /\ raising' \notin {"none", "lost"} => Seen' = "fail"
  /\ at' \in Guarding \cup {"persisting", "completing"} => Seen' = StageName(stage')
  /\ at' = "stopping" /\ raising' \in {"none", "lost"} => Seen' = StageName(stage')
BY DEF Seen, Guarding, StageName

\* A run of the processing task moves the stage on, ends the attempt, or is not seen.
LEMMA ProcessingSeen ==
  ASSUME AttemptInvariant, Processing
  PROVE  Moves(Seen, Seen')
<1>a. /\ at \in Guarding => stage \in {1, 2, 4, 5}
      /\ at = "persisting" => stage = 3
      /\ at = "stopping" /\ raising = "none" => stage = 6
      /\ at = "completing" => stage = 6
      /\ stage \in 1..6 /\ raising \in {"none"} \cup Exceptions
  BY DEF AttemptInvariant, AttemptTypes, Places
<1>b. ASSUME NEW e \in {"none"} \cup Exceptions, Handle(e)
      PROVE  \/ at' \in {"recording", "ended"}
             \/ at' = "completing" /\ e = "none"
  BY <1>b DEF Handle, LeaseException, Exceptions
<1>c. ASSUME NEW n, NEW e \in {"none"} \cup Exceptions, StopHeartbeat(n, e)
      PROVE  /\ stage' = n
             /\ \/ at' \in {"recording", "ended"}
                \/ at' = "stopping" /\ raising' = e
                \/ at' = "completing" /\ e = "none"
  BY <1>b, <1>c DEF StopHeartbeat
<1>d. ASSUME at \in Guarding \cup {"persisting"}, at' \in {"recording", "ended"} \/
             (at' = "stopping" /\ stage' = stage /\ raising' \in Exceptions)
      PROVE  Moves(Seen, Seen')
  BY <1>a, <1>d, Appearance, NextAppearance, Names DEF Moves, Exceptions
<1>e. ASSUME at \in Guarding \cup {"persisting"}, Proceed(Following(stage))
      PROVE  Moves(Seen, Seen')
  <2>1. stage \in {1, 2, 3, 4, 5} /\ Following(stage) = stage + 1 /\ Seen = StageName(stage)
    BY <1>a, <1>e, Appearance DEF Following, Guarding
  <2>2. CASE Guard(stage + 1) /\ stage + 1 \in {1, 2, 4, 5}
    <3>1. at' \in Guarding /\ stage' = stage + 1 BY <2>2 DEF Guard, Guarding
    <3> QED BY <2>1, <2>2, <3>1, NextAppearance, Names DEF Moves
  <2>3. CASE stage = 2 /\ stage' = 3 /\ at' = "persisting"
    BY <2>1, <2>3, NextAppearance, Names DEF Moves
  <2>4. CASE stage = 5 /\ StopHeartbeat(6, "none")
    <3>1. stage' = 6 /\ \/ at' \in {"recording", "ended", "completing"}
                        \/ at' = "stopping" /\ raising' = "none"
      BY <1>c, <2>4
    <3> QED BY <2>1, <2>4, <3>1, NextAppearance, Names DEF Moves
  <2>5. stage + 1 = 3 => stage = 2
    BY <1>a
  <2>6. stage + 1 = 6 => stage = 5
    BY <1>a
  <2> QED BY <1>e, <2>1, <2>2, <2>3, <2>4, <2>5, <2>6 DEF Proceed
<1>1. CASE Start
  <2>1. at = "claimed" /\ at' \in Guarding /\ stage' = 1
    BY <1>1 DEF Start, Awake, Guard, Guarding
  <2> QED BY <2>1, Appearance, NextAppearance, Names DEF Moves
<1>2. CASE StageReturns \/ StageInterrupted \/ WorkJoined \/ WatchJoined
  <2>1. at \in Guarding /\ at' \in Guarding /\ stage' = stage
    BY <1>2 DEF StageReturns, StageInterrupted, WorkJoined, WatchJoined, Awake, Unwind, Guarding
  <2> QED BY <2>1, Appearance, NextAppearance DEF Moves
<1>3. CASE Unwound
  <2> DEFINE e == IF pending THEN "cancelled" ELSE raising
  <2>1. at = "unwinding" /\ e \in {"none"} \cup Exceptions
    BY <1>3, <1>a DEF Unwound, Awake, Exceptions
  <2>2. CASE e = "none"
    <3>1. Proceed(Following(stage)) BY <1>3, <2>2 DEF Unwound
    <3> QED BY <1>e, <2>1, <3>1 DEF Guarding
  <2>3. CASE e # "none"
    <3>1. StopHeartbeat(stage, e) BY <1>3, <2>3 DEF Unwound
    <3> HIDE DEF e
    <3> QED BY <1>c, <1>d, <2>1, <2>3, <3>1 DEF Guarding
  <2> QED BY <2>2, <2>3
<1>4. CASE ChunksReplaced
  <2>1. at = "persisting" BY <1>4 DEF ChunksReplaced, Awake
  <2>2. CASE \E e \in Exceptions : StopHeartbeat(stage, e)
    <3>1. PICK e \in Exceptions : StopHeartbeat(stage, e) BY <2>2
    <3>2. e # "none" /\ e \in {"none"} \cup Exceptions BY DEF Exceptions
    <3>3. stage' = stage /\ \/ at' \in {"recording", "ended"}
                            \/ at' = "stopping" /\ raising' = e
      BY <1>c, <3>1, <3>2
    <3> QED BY <1>d, <2>1, <3>2, <3>3
  <2>3. Proceed(Following(stage)) \/ \E e \in Exceptions : StopHeartbeat(stage, e)
    BY <1>4 DEF ChunksReplaced, Exceptions
  <2> QED BY <1>e, <2>1, <2>2, <2>3
<1>5. CASE HeartbeatStopped
  <2>1. at = "stopping" /\ stage' = stage
    BY <1>5 DEF HeartbeatStopped, Awake
  <2>2. at' = "ended" \/ Handle(raising) \/ (raising = "none" /\ Handle("cancelled"))
    BY <1>5 DEF HeartbeatStopped
  <2>3. \/ at' = "ended"
        \/ at' = "recording" /\ raising # "lost"
        \/ at' = "completing" /\ raising = "none"
    <3>1. "cancelled" \in {"none"} \cup Exceptions BY DEF Exceptions
    <3>2. Handle("lost") => at' = "ended" BY DEF Handle
    <3> QED BY <1>a, <1>b, <2>2, <3>1, <3>2
  <2> QED BY <1>a, <2>1, <2>3, Appearance, NextAppearance, Names DEF Moves, Exceptions
<1>6. CASE SuccessCompleted
  <2>1. at = "completing" /\ stage = 6
    BY <1>6, <1>a DEF SuccessCompleted, Awake
  <2>2. at' = "ended" \/ \E e \in Exceptions : Handle(e)
    BY <1>6 DEF SuccessCompleted, Exceptions
  <2>3. at' \in {"recording", "ended"}
    BY <1>b, <2>2 DEF Exceptions
  <2> QED BY <2>1, <2>3, Appearance, NextAppearance, Names DEF Moves
<1>7. CASE FailureCompleted
  <2>1. at = "recording" /\ at' = "ended" BY <1>7 DEF FailureCompleted, Awake
  <2> QED BY <2>1, Appearance, NextAppearance DEF Moves
<1> QED BY <1>1, <1>2, <1>3, <1>4, <1>5, <1>6, <1>7 DEF Processing

\* Every step of an attempt is a step of AttemptStages, or is not seen.
LEMMA StepSeen == AttemptInvariant /\ [Next]_vars => [Control!Next]_Seen
<1>1. ASSUME AttemptInvariant, [Next]_vars
      PROVE  Moves(Seen, Seen')
  <2>1. CASE Processing BY <1>1, <2>1, ProcessingSeen
  <2>2. CASE UNCHANGED <<at, raising, stage>>
    BY <2>2 DEF Seen, Moves, StageName
  <2> QED
    BY <1>1, <2>1, <2>2
    DEF Next, BeginWork, EndWork, EndWatch, Beat, Renew, EndHeartbeat, Cancel, vars, main
<1>2. Moves(Seen, Seen') => [Control!Next]_Seen
  BY DEF Moves, Control!Next, Control!Begin, Control!Advance, Control!Break, Control!End, Control!Free,
         Control!Fail, Control!Following, Seen
<1> QED BY <1>1, <1>2

\* An attempt begins unseen.
LEMMA StartSeen == Init => Control!Init
  BY DEF Init, Control!Init, Control!Free

\* Seen from outside, the four tasks of an attempt are one worker that goes through the
\* stages in their order: no interleaving, however many cancellations it contains,
\* skips, repeats or resumes one.
THEOREM StagesAreImplemented == Spec => ImplementsStages
  BY StartSeen, StepSeen, AttemptInvariantHolds, PTL DEF Spec, ImplementsStages, Control!Spec, Seen

--------------------------------------------------------------------------
(* The process: an attempt is under way only while the main task waits for it, and  *)
(* the place of the main task says which resources have been closed, once each.     *)

Operating == {"waiting", "joining", "joining_cancelled"}

\* Outside of an attempt its variables are those of none or of one that has ended.
Resting ==
  /\ proc # "attempt" => at \in {"claimed", "ended"}
  /\ driver \notin Operating => proc = "none" \/ ProcDone

\* The places of the main task after the close of a resource.
Behind(r) ==
  CASE r = "model"  -> {"closing_store", "disposing", "exited"}
    [] r = "store"  -> {"disposing", "exited"}
    [] r = "engine" -> {"exited"}

\* What is closed on the way out: nothing if not even the first adapter was constructed.
Owed == IF built = {} THEN {} ELSE built \cup {"engine"}

\* How far the main task has come says which of them are closed, once each; past the
\* construction there is an adapter.
Ledger ==
  /\ built \subseteq Resources
  /\ driver \notin {"building", "exited"} => built # {}
  /\ closings = [r \in Resources |-> IF r \in Owed /\ driver \in Behind(r) THEN 1 ELSE 0]

ProcessInvariant == AttemptInvariant /\ Resting /\ Ledger

\* ClaimJob seen by an attempt: everything begins anew.
Claimed ==
  /\ at' = "claimed" /\ stage' = 1 /\ raising' = "none" /\ pending' = FALSE
  /\ outcome' = "none" /\ completed' = FALSE
  /\ work' = "none" /\ watch' = "none" /\ heart' = "none" /\ lost' = "no"
  /\ asked' = 0 /\ interrupted' = FALSE

\* To the attempt a step of the process is a step of its own while it is under way, its
\* beginning while none is, or nothing.
LEMMA StepsOfAttempts ==
  ASSUME Resting, [WorkerNext]_allVars
  PROVE  \/ UNCHANGED vars
         \/ proc = "attempt" /\ proc' = "attempt" /\ Next
         \/ at \in {"claimed", "ended"} /\ proc' = "attempt" /\ driver' = driver /\ Claimed
<1>1. ASSUME CancelProc
      PROVE  UNCHANGED vars \/ (proc = "attempt" /\ proc' = "attempt" /\ Next)
  BY <1>1 DEF CancelProc, Next
<1>2. CASE MainStep
  <2>1. CASE StopSeen BY <1>1, <2>1 DEF StopSeen
  <2> QED
    BY <1>2, <2>1
    DEF MainStep, Build, Initialize, OperationEnds, OperationJoined, PollAgain, CloseModel, CloseStore,
        DisposeEngine, Closes, NextRound, Leave
<1>3. CASE RequestStop BY <1>3 DEF RequestStop
<1>4. CASE CancelMain
  BY <1>1, <1>4 DEF CancelMain, Leave
<1>5. CASE ProcStep
  <2>1. CASE ClaimJob
    <3>1. proc = "claiming" /\ proc' = "attempt" /\ driver' = driver
      BY <2>1 DEF ClaimJob, Proc, worker
    <3>2. Claimed BY <2>1 DEF ClaimJob, Claimed
    <3> QED BY <3>1, <3>2 DEF Resting
  <2> QED BY <1>5, <2>1 DEF ProcStep, BeginProc, Recover, ClaimNothing, Rebuild
<1>6. CASE AttemptStep
  BY <1>6 DEF AttemptStep, InAttempt, Next
<1>7. CASE Exited \/ UNCHANGED allVars
  BY <1>7 DEF Exited, allVars
<1> QED BY <1>2, <1>3, <1>4, <1>5, <1>6, <1>7 DEF WorkerNext

\* An attempt that begins satisfies the invariant as the first one does.
LEMMA ClaimedAnew == Claimed => AttemptInvariant'
<1> SUFFICES ASSUME Claimed PROVE AttemptInvariant'
  OBVIOUS
<1>1. /\ at' = "claimed" /\ stage' = 1 /\ raising' = "none" /\ lost' = "no"
      /\ work' = "none" /\ watch' = "none" /\ heart' = "none"
  BY DEF Claimed
<1>2. pending' = FALSE /\ completed' = FALSE /\ interrupted' = FALSE
  BY DEF Claimed
<1>3. AttemptTypes'
  <2>1. pending' \in BOOLEAN /\ completed' \in BOOLEAN /\ interrupted' \in BOOLEAN
    BY <1>2
  <2> QED BY <1>1, <2>1 DEF AttemptTypes
<1>4. JoinedBeforeRecorded' /\ Places'
  BY <1>1, <1>2 DEF JoinedBeforeRecorded, Places, Guarding
<1> QED BY <1>2, <1>3, <1>4 DEF AttemptInvariant, Decided, Interruption

\* Nothing moves an attempt that has ended.
LEMMA EndedStays ==
  ASSUME AttemptInvariant, at = "ended", Next
  PROVE  at' = "ended"
BY DEF Next, Processing, Start, StageReturns, StageInterrupted, WorkJoined, WatchJoined, Unwound,
       ChunksReplaced, HeartbeatStopped, SuccessCompleted, FailureCompleted, Awake, BeginWork, EndWork,
       EndWatch, Beat, Renew, EndHeartbeat, Cancel, main

\* The invariant holds when the process starts.
LEMMA ProcessInit == WorkerInit => ProcessInvariant
<1> SUFFICES ASSUME WorkerInit PROVE ProcessInvariant
  OBVIOUS
<1>1. AttemptInvariant BY AttemptInit DEF WorkerInit
<1>2. Resting
  BY DEF Resting, WorkerInit, Init
<1>3. Ledger
  BY DEF Ledger, WorkerInit, Behind, Resources, Owed
<1> QED BY <1>1, <1>2, <1>3 DEF ProcessInvariant

\* An operation begins when the one before is over, and the main task leaves for the
\* next poll or for the exit when it is over.
LEMMA RestingKept ==
  ASSUME AttemptInvariant, Resting, [WorkerNext]_allVars
  PROVE  Resting'
<1>1. ASSUME UNCHANGED vars, proc' = proc
      PROVE  /\ proc' # "attempt" => at' \in {"claimed", "ended"}
             /\ proc = "none" \/ ProcDone => proc' = "none" \/ ProcDone'
  BY <1>1 DEF Resting, ProcDone, vars, main
<1>2. ASSUME CancelProc, driver' \in Operating
      PROVE  Resting'
  <2>1. CASE proc = "attempt"
    BY <1>2, <2>1 DEF CancelProc, Cancel, Resting, ProcDone, vars, main
  <2>2. CASE proc # "attempt"
    BY <1>2, <2>2 DEF CancelProc, Resting, ProcDone, vars, main
  <2> QED BY <2>1, <2>2
<1>3. ASSUME NextRound, proc = "none" \/ ProcDone
      PROVE  Resting'
  <2>1. at \in {"claimed", "ended"} /\ at' = at
    BY <1>3 DEF NextRound, Leave, Resting, ProcDone, vars, main
  <2>2. CASE driver' = "waiting" /\ proc' = "created"
    BY <2>1, <2>2 DEF Resting, Operating
  <2>3. CASE UNCHANGED <<vars, proc>>
    BY <1>1, <1>3, <2>3 DEF Resting
  <2> QED BY <1>3, <2>2, <2>3 DEF NextRound, Leave
<1>4. ASSUME UNCHANGED <<vars, proc>>, driver' \in Operating \/ proc = "none" \/ ProcDone
      PROVE  Resting'
  BY <1>1, <1>4 DEF Resting
<1>5. CASE MainStep
  <2>1. CASE Build
    BY <1>4, <2>1 DEF Build, Leave, Resting, Operating
  <2>2. CASE Initialize
    BY <1>3, <1>4, <2>2 DEF Initialize, Leave, Resting, Operating
  <2>3. CASE OperationEnds
    BY <1>3, <1>4, <2>3 DEF OperationEnds, Leave
  <2>4. CASE StopSeen
    BY <1>2, <2>4 DEF StopSeen, Operating
  <2>5. CASE OperationJoined
    BY <1>4, <2>5 DEF OperationJoined, Leave
  <2>6. CASE PollAgain
    BY <1>3, <2>6 DEF PollAgain, Resting, Operating
  <2>7. CASE CloseModel \/ CloseStore \/ DisposeEngine
    BY <1>4, <2>7 DEF CloseModel, CloseStore, DisposeEngine, Closes, Resting, Operating
  <2> QED BY <1>5, <2>1, <2>2, <2>3, <2>4, <2>5, <2>6, <2>7 DEF MainStep
<1>6. CASE RequestStop
  <2>1. UNCHANGED <<vars, proc>> /\ driver' = driver BY <1>6 DEF RequestStop
  <2> QED BY <1>4, <2>1 DEF Resting
<1>7. CASE CancelMain
  <2>1. CASE driver \in {"initializing", "idle"} /\ Leave(TRUE)
    BY <1>4, <2>1 DEF Leave, Resting, Operating
  <2>2. CASE CancelProc /\ driver' \in Operating
    BY <1>2, <2>2
  <2> QED BY <1>7, <2>1, <2>2 DEF CancelMain, Operating
<1>8. CASE ProcStep
  <2>1. proc \in {"created", "recovering", "claiming", "rebuilding"} /\ driver' = driver
    BY <1>8 DEF ProcStep, BeginProc, Recover, ClaimNothing, ClaimJob, Rebuild, Proc, worker
  <2>2. driver' \in Operating
    BY <2>1 DEF Resting, ProcDone
  <2>3. CASE ClaimJob
    BY <2>2, <2>3 DEF ClaimJob, Proc, Resting
  <2>4. CASE UNCHANGED vars
    BY <2>1, <2>2, <2>4 DEF Resting, vars, main
  <2> QED BY <1>8, <2>3, <2>4 DEF ProcStep, BeginProc, Recover, ClaimNothing, Rebuild
<1>9. CASE AttemptStep
  <2>1. proc = "attempt" /\ proc' = "attempt" /\ driver' = driver /\ Next
    BY <1>9 DEF AttemptStep, InAttempt, Next, worker
  <2>2. driver \notin Operating => at = "ended"
    BY <2>1 DEF Resting, ProcDone
  <2> QED BY <2>1, <2>2, EndedStays DEF Resting, ProcDone
<1>10. CASE Exited \/ UNCHANGED allVars
  BY <1>4, <1>10 DEF Exited, allVars, worker, Resting
<1> QED BY <1>5, <1>6, <1>7, <1>8, <1>9, <1>10 DEF WorkerNext

\* What has been closed follows the main task from one close to the next.
LEMMA LedgerKept ==
  ASSUME Ledger, [WorkerNext]_allVars
  PROVE  Ledger'
<1>1. ASSUME driver \notin {"closing_store", "disposing", "exited"}, closings' = closings,
             driver' \notin {"closing_store", "disposing", "exited"}, built' \subseteq Resources,
             driver' # "building" => built' # {}
      PROVE  Ledger'
  BY <1>1 DEF Ledger, Behind, Resources
<1>2. ASSUME NEW r \in Resources, NEW next, Closes(r, next), driver \notin {"building", "exited"},
             driver \notin Behind(r), next \in Behind(r),
             \A other \in Resources \ {r} : driver \in Behind(other) <=> next \in Behind(other)
      PROVE  Ledger'
  <2>1. built' = built /\ built # {} /\ driver' = next BY <1>2 DEF Closes, Ledger
  <2>7. Owed = built \cup {"engine"} /\ Owed' = Owed BY <2>1 DEF Owed
  <2>2. closings[r] = 0 BY <1>2 DEF Ledger
  <2>3. closings' = [s \in Resources |->
                       IF s = r /\ r \in Owed THEN 1 ELSE closings[s]]
    BY <1>2, <2>2, <2>7 DEF Closes, Ledger
  <2>4. \A s \in Resources :
          closings'[s] = IF s \in Owed' /\ driver' \in Behind(s) THEN 1 ELSE 0
    BY <1>2, <2>1, <2>2, <2>3, <2>7 DEF Ledger
  <2>5. closings' = [s \in Resources |->
                       IF s \in Owed' /\ driver' \in Behind(s) THEN 1 ELSE 0]
    BY <2>3, <2>4
  <2>6. built' \subseteq Resources /\ built' # {} BY <2>1 DEF Ledger
  <2> QED BY <2>5, <2>6 DEF Ledger, Behind
<1>3. CASE CloseModel
  BY <1>2, <1>3 DEF CloseModel, Behind, Resources
<1>4. CASE CloseStore
  BY <1>2, <1>4 DEF CloseStore, Behind, Resources
<1>5. CASE DisposeEngine
  BY <1>2, <1>5 DEF DisposeEngine, Behind, Resources
<1>10. CASE Build /\ built' = {} /\ driver' = "exited"
  <2>1. Owed' = {} BY <1>10 DEF Owed
  <2>2. closings' = closings /\ driver = "building" BY <1>10 DEF Build
  <2>3. \A r \in Resources : driver \notin Behind(r) BY <2>2 DEF Behind, Resources
  <2>4. closings' = [r \in Resources |-> IF r \in Owed' /\ driver' \in Behind(r) THEN 1 ELSE 0]
    BY <2>1, <2>2, <2>3 DEF Ledger
  <2> QED BY <1>10, <2>4 DEF Ledger, Behind
<1>11. CASE Build /\ ~(built' = {} /\ driver' = "exited")
  <2>1. built' \in {{"model"}, {"model", "store"}} /\ driver' \in {"closing_model", "initializing"}
    BY <1>11 DEF Build, Leave
  <2> QED BY <1>1, <1>11, <2>1 DEF Build, Resources
<1>6. CASE Initialize \/ OperationEnds \/ StopSeen \/ OperationJoined \/ PollAgain
  <2>1. built' \subseteq Resources /\ built' # {}
    BY <1>6
    DEF Initialize, OperationEnds, StopSeen, OperationJoined, PollAgain, Ledger, Resources
  <2> QED
    BY <1>1, <1>6, <2>1
    DEF Initialize, OperationEnds, StopSeen, OperationJoined, PollAgain, NextRound, Leave
<1>7. CASE UNCHANGED <<driver, built, closings>>
  BY <1>7 DEF Ledger, Owed
<1>8. CASE CancelMain
  BY <1>1, <1>8 DEF CancelMain, Leave, Ledger
<1>9. RequestStop \/ ProcStep \/ AttemptStep \/ Exited \/ UNCHANGED allVars
        => UNCHANGED <<driver, built, closings>>
  BY DEF RequestStop, ProcStep, BeginProc, Recover, ClaimNothing, ClaimJob, Rebuild, Proc, AttemptStep,
         InAttempt, Exited, allVars, worker
<1> QED
  BY <1>3, <1>4, <1>5, <1>6, <1>7, <1>8, <1>9, <1>10, <1>11 DEF WorkerNext, MainStep

\* Every step of the process keeps the invariant.
LEMMA ProcessNext == ProcessInvariant /\ [WorkerNext]_allVars => ProcessInvariant'
<1> SUFFICES ASSUME ProcessInvariant, [WorkerNext]_allVars PROVE ProcessInvariant'
  OBVIOUS
<1>1. AttemptInvariant /\ Resting /\ Ledger BY DEF ProcessInvariant
<1>2. AttemptInvariant'
  BY <1>1, StepsOfAttempts, AttemptNext, ClaimedAnew
<1> QED BY <1>1, <1>2, RestingKept, LedgerKept DEF ProcessInvariant

\* The invariant of the process, for any number of operations and cancellations.
THEOREM ProcessInvariantHolds == WorkerSpec => []ProcessInvariant
  BY ProcessInit, ProcessNext, PTL DEF WorkerSpec

\* Whatever raises, is cancelled or is stopped, and wherever: each adapter that was
\* constructed, and the engine if there is one, are closed exactly once on the way out
\* of production_runtime, and no task of the service is left that could use one.
THEOREM ResourcesAreClosed == WorkerSpec => []ClosedOnceAfterUse
<1>1. ASSUME ProcessInvariant PROVE ClosedOnceAfterUse
  <2>1. ASSUME Closing
        PROVE  /\ proc = "none" \/ ProcDone
               /\ WorkDone /\ WatchDone /\ heart \in {"none", "done"}
    <3>1. proc = "none" \/ ProcDone
      BY <1>1, <2>1 DEF ProcessInvariant, Resting, Closing, Operating
    <3>2. at \in {"claimed", "ended"}
      BY <1>1, <3>1 DEF ProcessInvariant, Resting, ProcDone
    <3> QED
      BY <1>1, <3>1, <3>2
      DEF ProcessInvariant, AttemptInvariant, JoinedBeforeRecorded, Places, WorkDone, WatchDone
  <2>2. \A r \in Resources : closings[r] <= 1
    BY <1>1 DEF ProcessInvariant, Ledger
  <2>3. driver = "exited" => \A r \in Resources : driver \in Behind(r)
    BY DEF Behind, Resources
  <2>4. built \cup {"engine"} \subseteq Resources
    BY <1>1 DEF ProcessInvariant, Ledger, Resources
  <2>5. driver = "exited" /\ built # {} => \A r \in built \cup {"engine"} : closings[r] = 1
    BY <1>1, <2>3, <2>4 DEF ProcessInvariant, Ledger, Owed
  <2> QED BY <2>1, <2>2, <2>5 DEF ClosedOnceAfterUse
<1> QED BY <1>1, ProcessInvariantHolds, PTL

--------------------------------------------------------------------------
(* What is true of one attempt stays true of all those a process makes. *)

\* In a worker, whatever attempts it makes one after the other, no stage's operation
\* runs while chunk rows, success or failure are written, and no heartbeat while success
\* or failure is.
THEOREM TasksAreJoinedInProcess == WorkerSpec => []JoinedBeforeRecorded
<1>1. ProcessInvariant => JoinedBeforeRecorded
  BY DEF ProcessInvariant, AttemptInvariant
<1> QED BY <1>1, ProcessInvariantHolds, PTL

\* In a worker no attempt completes with a lease it knows to be lost, also when the
\* attempt before ended with the loss of its own.
THEOREM NoSuccessWithoutLeaseInProcess == WorkerSpec => []LostLeaseNeverCompletes
<1>1. ProcessInvariant => LostLeaseNeverCompletes
  BY DEF ProcessInvariant, AttemptInvariant, Decided, LostLeaseNeverCompletes
<1> QED BY <1>1, ProcessInvariantHolds, PTL

\* In a worker a cancellation that meets a running stage, by a stop or by the end of the
\* main task, makes it the last one of its attempt.
THEOREM InterruptionsEndAttempts == WorkerSpec => CancelledStageIsTheLast
<1>1. ASSUME ProcessInvariant, [WorkerNext]_allVars
      PROVE  [interrupted /\ interrupted' => stage' = stage /\ completed' = completed]_vars
  <2>1. AttemptInvariant /\ Resting BY <1>1 DEF ProcessInvariant
  <2>2. [Next]_vars \/ Claimed BY <1>1, <2>1, StepsOfAttempts
  <2>3. Claimed => ~interrupted' BY DEF Claimed
  <2> QED BY <2>1, <2>2, <2>3, InterruptedStep
<1>2. ProcessInvariant => (at = "ended" /\ interrupted => outcome \in {"cancelled", "raised"})
  BY DEF ProcessInvariant, AttemptInvariant, Interruption
<1> QED BY <1>1, <1>2, ProcessInvariantHolds, PTL DEF WorkerSpec, CancelledStageIsTheLast

\* A worker, with its stops, its idle rounds and its errors, is seen from outside as one
\* that makes whole attempts, stage after stage.
THEOREM ProcessImplementsStages == WorkerSpec => ImplementsStages
<1>1. WorkerInit => Control!Init
  BY StartSeen DEF WorkerInit
<1>2. ASSUME ProcessInvariant, [WorkerNext]_allVars
      PROVE  [Control!Next]_Seen
  <2>1. AttemptInvariant /\ Resting BY <1>2 DEF ProcessInvariant
  <2>2. [Next]_vars \/ (at \in {"claimed", "ended"} /\ Claimed)
    BY <1>2, <2>1, StepsOfAttempts
  <2>3. CASE at \in {"claimed", "ended"} /\ Claimed
    BY <2>3, Appearance, NextAppearance DEF Claimed
  <2> QED BY <2>1, <2>2, <2>3, StepSeen
<1> QED
  BY <1>1, <1>2, ProcessInvariantHolds, PTL DEF WorkerSpec, ImplementsStages, Control!Spec, Seen
================================================================================

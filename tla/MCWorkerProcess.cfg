CONSTANT
  MaxCancels = 2
SPECIFICATION WorkerSpec
INVARIANT
  JoinedBeforeRecorded
  LostLeaseNeverCompletes
  ClosedOnceAfterUse
PROPERTY
  CancelledStageIsTheLast
  ImplementsStages
  ProcessEnds

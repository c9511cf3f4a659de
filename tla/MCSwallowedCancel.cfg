CONSTANT
  MaxCancels = 1
SPECIFICATION Spec
INVARIANT
  CancellationIsPropagated
CHECK_DEADLOCK FALSE

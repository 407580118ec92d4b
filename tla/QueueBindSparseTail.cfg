SPECIFICATION Spec
CONSTANTS
  b1 = b1
  b2 = b2
  t1 = t1
  Semaphores <- MCSemaphores
  Binary <- MCBinary
  BindInfos <- MCBindInfos
  MaxBindInfos = 2
  Failures = {}
INVARIANT RemainingAreSubmitted
CHECK_DEADLOCK FALSE

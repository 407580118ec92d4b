SPECIFICATION Spec
CONSTANTS
  b1 = b1
  b2 = b2
  t1 = t1
  Semaphores <- MCSemaphores
  Binary <- MCBinary
  BindInfos <- MCBindInfos
  MaxBindInfos = 3
  Failures = {"bind", "submit"}
INVARIANTS
  TypeOK
  HelpersKeepSemaphores
  InOrder
  SignalingCallIsComplete
PROPERTY BindsAsAsked
CHECK_DEADLOCK FALSE

SPECIFICATION Spec
CONSTANTS
  b = b
  t = t
  h1 = h1
  h2 = h2
  q1 = q1
  q2 = q2
  Semaphores <- MCSemaphores
  Binary <- MCBinary
  Threads <- MCThreads
  Queues <- MCQueues
  HalfRange = 4
  Values <- MCValues
  WaitValues <- MCWaitValues
  Uses <- MCUses
  MaxMarkers = 4
  Serialised = TRUE
  Failures = {"wait", "counter"}
  Builds = {TRUE, FALSE}
  MaxSubmits = 2
  MaxBinds = 1
  MaxWaiting = 2
SYMMETRY MCSymmetry
INVARIANTS
  TypeOK
  ReportedValueIsExact
  ReportedValueIsNotAhead
  NamedModifierIsLast
  BlockedThreadsAreListed
CHECK_DEADLOCK FALSE

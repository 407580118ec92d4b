SPECIFICATION Spec
CONSTANTS
  t1 = t1
  t2 = t2
  Threads <- MCOneThread
  Configs <- MCSharing
  MaxCount = 1
  MaxBuffers = 5
INVARIANT HelperBuffersOutliveSubmit
CHECK_DEADLOCK FALSE

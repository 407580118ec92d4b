SPECIFICATION FairSpec
CONSTANTS
  t1 = t1
  t2 = t2
  Threads <- MCThreads
  Configs <- MCConfigs
  MaxCount = 2
  MaxBuffers = 3
INVARIANTS
  TypeOK
  RegistriesAgree
  BuffersOutliveSubmit
  WaitingListIsExact
PROPERTIES
  ReportsMoveForward
  SubmittedLeavesTheDump
CHECK_DEADLOCK FALSE

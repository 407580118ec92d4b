SPECIFICATION FairSpec
CONSTANTS
  a1 = a1
  a2 = a2
  AppThreads <- MCAppThreads
  Watchdog = Watchdog
  Listener = Listener
  Configs <- MCConfigs
  OneSecond = 1
INVARIANTS
  TypeOK
  NoCircularWait
  ReportsAreDistinct
  OptionsAsConfigured
PROPERTIES
  HangIsReported
CHECK_DEADLOCK FALSE

\* Seventeen configuration files, up to three devices, SIGTERM up to three times at any point.
SPECIFICATION FairSpec
CHECK_DEADLOCK FALSE
CONSTANTS
  Files <- const_files
  MaxSignals = 3
INVARIANTS
  TypeOK
  FailsFast
  ClosedLast
  CleanExit
  OwnTag
PROPERTIES
  Isolated
  ShutdownEnds
